-------------------------- MODULE IncomingPublish --------------------------
(***************************************************************************)
(* The receiving side: RuntimeTask::handle_incoming_publish and the QoS 2  *)
(* phases of RuntimeState, against a broker that keeps to the protocol.    *)
(* The broker redelivers what is unfinished when the transport comes back  *)
(* with a new connection; the runtime's own reconnect, after a keepalive   *)
(* timeout, changes nothing for the broker, because RuntimeTask keeps its  *)
(* transport.                                                              *)
(*                                                                         *)
(* Assumed of the broker: it reuses an identifier only once its flow is    *)
(* finished, and it forgets a session only if the session is a clean one.  *)
(*                                                                         *)
(* Abstracted: topics and clients (a message is delivered when the fanout  *)
(* has reached every client); QoS 0; the sending side (RuntimeState).      *)
(***************************************************************************)
EXTENDS Integers, Sequences

CONSTANTS
  MaxInflight,   \* RuntimeState::new(max_inflight), the size of incoming_pub
  AtLeastOnce,   \* what the broker has for the client with QoS 1
  ExactlyOnce,   \* and with QoS 2
  None,          \* no flow
  MaxReconnects  \* bound: how often a connection is lost

ASSUME MaxInflightAssumption == MaxInflight \in Nat \ {0}
ASSUME MaxReconnectsAssumption == MaxReconnects \in Nat
ASSUME QosAssumption == AtLeastOnce \cap ExactlyOnce = {}

Message == AtLeastOnce \cup ExactlyOnce

Slot == 0 .. MaxInflight            \* indices of incoming_pub
WirePkid == 1 .. MaxInflight + 1    \* the broker's identifiers, one out of range

Flow == [message : Message, phase : {"publish", "release"}]

\* RuntimeTaskError, with the RuntimeError that can occur here.
TaskError == {"EventChannelClosed", "Io", "PacketIdOutOfRange", "UnsolicitedPubRel"}

ASSUME NoneAssumption == None \notin Flow \cup TaskError

Publish(message, pkid) == [type |-> "publish", pkid |-> pkid, message |-> message]
Ack(type, pkid) == [type |-> type, pkid |-> pkid]

FromBroker ==
  [type : {"publish"}, pkid : WirePkid, message : Message]
    \cup [type : {"pubrel"}, pkid : WirePkid]
FromRuntime == [type : {"puback", "pubrec", "pubcomp"}, pkid : WirePkid]

VARIABLES
  clean_session,  \* RuntimeDriver.clean_session
  incoming_pub,   \* InflightStore.incoming_pub
  error,          \* the RuntimeTaskError that ended the thread, or None
  to_runtime,     \* packets on their way to the runtime
  to_broker,      \* packets on their way to the broker
  flow,           \* the broker's unfinished deliveries
  redeliver,      \* the ones it has yet to send again on this connection
  sent,           \* messages the broker has taken in hand
  settled,        \* messages whose last acknowledgement reached the broker
  delivered,      \* history: how often each message was fanned out to clients
  timeouts,       \* history: keepalive timeouts
  drops           \* history: connections replaced

broker == <<flow, redeliver, sent, settled>>
losses == <<timeouts, drops>>
vars == <<clean_session, incoming_pub, error, to_runtime, to_broker, broker, delivered, losses>>

-----------------------------------------------------------------------------
(***************************************************************************)
(* The runtime.  poll_incoming takes one packet; any error ends the        *)
(* thread.                                                                 *)
(***************************************************************************)
Receive(type) ==
  /\ error = None
  /\ to_runtime # <<>>
  /\ Head(to_runtime).type = type
  /\ to_runtime' = Tail(to_runtime)

Packet == Head(to_runtime)

Reply(type) == to_broker' = Append(to_broker, Ack(type, Packet.pkid))

Fanout == delivered' = [delivered EXCEPT ![Packet.message] = @ + 1]

Stop(e) == error' = e

InRange(pkid) == pkid # 0 /\ pkid \in Slot

\* Qos::AtLeastOnce: the clients first, then the broker.
PublishQos1 ==
  /\ Receive("publish")
  /\ Packet.message \in AtLeastOnce
  /\ \/ Fanout /\ Reply("puback") /\ UNCHANGED error
     \/ Stop("EventChannelClosed") /\ UNCHANGED <<delivered, to_broker>>
     \/ Fanout /\ Stop("Io") /\ UNCHANGED to_broker
  /\ UNCHANGED <<clean_session, incoming_pub, broker, losses>>

DuplicateNever(pkid) == FALSE  \* mutant: no duplicate suppression
Duplicate(pkid) == incoming_pub[pkid]

(***************************************************************************)
(* Qos::ExactlyOnce: on_incoming_qos2_publish_checked, the broker first,   *)
(* then the clients if the publish was seen for the first time.            *)
(***************************************************************************)
PublishFirstSeen ==
  /\ Receive("publish")
  /\ Packet.message \in ExactlyOnce
  /\ InRange(Packet.pkid)
  /\ ~Duplicate(Packet.pkid)
  /\ incoming_pub' = [incoming_pub EXCEPT ![Packet.pkid] = TRUE]
  /\ \/ Reply("pubrec") /\ Fanout /\ UNCHANGED error
     \/ Stop("Io") /\ UNCHANGED <<delivered, to_broker>>
     \/ Reply("pubrec") /\ Stop("EventChannelClosed") /\ UNCHANGED delivered
  /\ UNCHANGED <<clean_session, broker, losses>>

\* Mutant: a repeated publish is not acknowledged again.
PublishDuplicateSilent ==
  /\ Receive("publish")
  /\ Packet.message \in ExactlyOnce
  /\ InRange(Packet.pkid)
  /\ Duplicate(Packet.pkid)
  /\ UNCHANGED <<clean_session, incoming_pub, error, to_broker, delivered, broker, losses>>

PublishDuplicate ==
  /\ Receive("publish")
  /\ Packet.message \in ExactlyOnce
  /\ InRange(Packet.pkid)
  /\ Duplicate(Packet.pkid)
  /\ \/ Reply("pubrec") /\ UNCHANGED error
     \/ Stop("Io") /\ UNCHANGED to_broker
  /\ UNCHANGED <<clean_session, incoming_pub, delivered, broker, losses>>

PublishOutOfRange ==
  /\ Receive("publish")
  /\ Packet.message \in ExactlyOnce
  /\ ~InRange(Packet.pkid)
  /\ Stop("PacketIdOutOfRange")
  /\ UNCHANGED <<clean_session, incoming_pub, to_broker, delivered, broker, losses>>

(***************************************************************************)
(* on_incoming_pubrel_checked.  A PUBREL for a flow the runtime has        *)
(* finished, or forgotten, ends the thread.                                *)
(***************************************************************************)
ReleasedNever(pkid) == incoming_pub  \* mutant: the mark stays
Released(pkid) == [incoming_pub EXCEPT ![pkid] = FALSE]

PubRel ==
  /\ Receive("pubrel")
  /\ InRange(Packet.pkid)
  /\ incoming_pub[Packet.pkid]
  /\ incoming_pub' = Released(Packet.pkid)
  /\ \/ Reply("pubcomp") /\ UNCHANGED error
     \/ Stop("Io") /\ UNCHANGED to_broker
  /\ UNCHANGED <<clean_session, delivered, broker, losses>>

UnsolicitedPubRel ==
  /\ Receive("pubrel")
  /\ InRange(Packet.pkid)
  /\ ~incoming_pub[Packet.pkid]
  /\ Stop("UnsolicitedPubRel")
  /\ UNCHANGED <<clean_session, incoming_pub, to_broker, delivered, broker, losses>>

Handle ==
  \/ PublishQos1 \/ PublishFirstSeen \/ PublishDuplicate \/ PublishOutOfRange
  \/ PubRel \/ UnsolicitedPubRel

-----------------------------------------------------------------------------
(***************************************************************************)
(* on_connection_lost: what a clean session forgets.                       *)
(***************************************************************************)
\* Mutants: the vector is cleared instead of filled; a persistent session forgets too.
ForgetSlots == incoming_pub' = IF clean_session THEN [i \in {} |-> FALSE] ELSE incoming_pub
ForgetAlways == incoming_pub' = [i \in Slot |-> FALSE]

Forget ==
  incoming_pub' = IF clean_session THEN [i \in Slot |-> FALSE] ELSE incoming_pub

MayLose == error = None /\ timeouts + drops < MaxReconnects

\* A keepalive timeout: the runtime reconnects over the transport it has.
Timeout ==
  /\ MayLose
  /\ timeouts' = timeouts + 1
  /\ Forget
  /\ UNCHANGED <<clean_session, error, to_runtime, to_broker, broker, delivered, drops>>

Unfinished == {pkid \in WirePkid : flow[pkid] # None}

\* The transport comes back with a new connection: what was on the way is lost.
Replace ==
  /\ MayLose
  /\ drops' = drops + 1
  /\ Forget
  /\ to_runtime' = <<>>
  /\ to_broker' = <<>>
  /\ IF clean_session
       THEN flow' = [pkid \in WirePkid |-> None] /\ redeliver' = {}
       ELSE redeliver' = Unfinished /\ UNCHANGED flow
  /\ UNCHANGED <<clean_session, error, sent, settled, delivered, timeouts>>

-----------------------------------------------------------------------------
(***************************************************************************)
(* The broker.                                                             *)
(***************************************************************************)
ToRuntime(packet) == to_runtime' = Append(to_runtime, packet)

Deliver(message, pkid) ==
  /\ message \notin sent
  /\ flow[pkid] = None
  /\ sent' = sent \cup {message}
  /\ flow' = [flow EXCEPT ![pkid] = [message |-> message, phase |-> "publish"]]
  /\ ToRuntime(Publish(message, pkid))
  /\ UNCHANGED <<clean_session, incoming_pub, error, to_broker, redeliver, settled, delivered,
                 losses>>

Redeliver(pkid) ==
  /\ pkid \in redeliver
  /\ redeliver' = redeliver \ {pkid}
  /\ ToRuntime(IF flow[pkid].phase = "publish" THEN Publish(flow[pkid].message, pkid)
                                               ELSE Ack("pubrel", pkid))
  /\ UNCHANGED <<clean_session, incoming_pub, error, to_broker, flow, sent, settled,
                 delivered, losses>>

Acked(type) ==
  /\ to_broker # <<>>
  /\ Head(to_broker).type = type
  /\ to_broker' = Tail(to_broker)

Finish(pkid) ==
  /\ flow' = [flow EXCEPT ![pkid] = None]
  /\ settled' = settled \cup {flow[pkid].message}
  /\ UNCHANGED <<clean_session, incoming_pub, error, to_runtime, redeliver, sent, delivered,
                 losses>>

PubAck == Acked("puback") /\ Finish(Head(to_broker).pkid)

PubComp == Acked("pubcomp") /\ Finish(Head(to_broker).pkid)

PubRec ==
  LET pkid == Head(to_broker).pkid
  IN  /\ Acked("pubrec")
      /\ flow' = [flow EXCEPT ![pkid].phase = "release"]
      /\ ToRuntime(Ack("pubrel", pkid))
      /\ UNCHANGED <<clean_session, incoming_pub, error, redeliver, sent, settled, delivered,
                     losses>>

Broker ==
  \/ \E message \in Message, pkid \in WirePkid : Deliver(message, pkid)
  \/ \E pkid \in WirePkid : Redeliver(pkid)
  \/ PubAck \/ PubRec \/ PubComp

-----------------------------------------------------------------------------
Init ==
  /\ clean_session \in BOOLEAN
  /\ incoming_pub = [i \in Slot |-> FALSE]
  /\ error = None
  /\ to_runtime = <<>>
  /\ to_broker = <<>>
  /\ flow = [pkid \in WirePkid |-> None]
  /\ redeliver = {}
  /\ sent = {}
  /\ settled = {}
  /\ delivered = [message \in Message |-> 0]
  /\ timeouts = 0
  /\ drops = 0

Next == Handle \/ Timeout \/ Replace \/ Broker

Spec == Init /\ [][Next]_vars

(***************************************************************************)
(* run's loop goes on reading, and the broker goes on with what it owes.   *)
(***************************************************************************)
FairSpec == Spec /\ WF_vars(Handle) /\ WF_vars(Broker)

-----------------------------------------------------------------------------
TypeOK ==
  /\ clean_session \in BOOLEAN
  /\ incoming_pub \in [Slot -> BOOLEAN]
  /\ error \in TaskError \cup {None}
  /\ to_runtime \in Seq(FromBroker)
  /\ to_broker \in Seq(FromRuntime)
  /\ flow \in [WirePkid -> Flow \cup {None}]
  /\ redeliver \subseteq Unfinished
  /\ sent \subseteq Message
  /\ settled \subseteq sent
  /\ delivered \in [Message -> Nat]
  /\ timeouts \in 0 .. MaxReconnects
  /\ drops \in 0 .. MaxReconnects

(***************************************************************************)
(* Duplicate suppression: however often the connection is lost and a       *)
(* publish redelivered, clients get a QoS 2 message at most once.          *)
(***************************************************************************)
DeliveredOnce == \A message \in ExactlyOnce : delivered[message] <= 1

(***************************************************************************)
(* The broker is told to let go of a message only after the clients got    *)
(* it: no new message is taken for a repeated one.  The PUBREC of QoS 2    *)
(* goes out before the fanout, which a closed client channel may cut off.  *)
(***************************************************************************)
Got(message) == delivered[message] > 0

AcknowledgedAfterDelivery ==
  /\ \A message \in settled : Got(message)
  /\ \A pkid \in Unfinished :
       flow[pkid].phase = "release" => Got(flow[pkid].message) \/ error = "EventChannelClosed"

(***************************************************************************)
(* A broker that keeps to the protocol is refused a PUBREL only if an      *)
(* earlier PUBCOMP may have been lost with its connection, or a keepalive  *)
(* timeout made a clean session forget what the broker remembers.          *)
(***************************************************************************)
RefusedOnlyAfterLoss ==
  error = "UnsolicitedPubRel" => drops > 0 \/ (clean_session /\ timeouts > 0)

(***************************************************************************)
(* Every message the broker sends reaches the end of its flow, unless the  *)
(* thread ends or a clean session is given up with the connection.         *)
(***************************************************************************)
GivenUp == error # None \/ (clean_session /\ drops > 0)

SettledEventually ==
  \A message \in Message : message \in sent ~> (message \in settled \/ GivenUp)
=============================================================================
