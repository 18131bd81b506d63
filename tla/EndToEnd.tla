------------------------------ MODULE EndToEnd ------------------------------
(***************************************************************************)
(* The sending side of the runtime (module RuntimeState) composed, over a  *)
(* connection, with a broker that keeps to the protocol.  In RuntimeState  *)
(* any acknowledgement may arrive at any time; here one arrives because    *)
(* the broker sent it, so that the reports to clients can be compared with *)
(* what the broker took.                                                   *)
(*                                                                         *)
(* Assumed of the broker: it answers packets in order, each once; it tells *)
(* a repeated QoS 2 publish by its packet identifier, until the PUBREL;    *)
(* it forgets a session only if the session is a clean one.                *)
(***************************************************************************)
EXTENDS Connection

CONSTANTS
  AtLeastOnce,  \* the operations that are QoS 1 publishes
  ExactlyOnce   \* and QoS 2 publishes; the others subscribe

ASSUME QosAssumption == AtLeastOnce \cup ExactlyOnce \subseteq OpId

Message == AtLeastOnce \cup ExactlyOnce

KindOf(id) ==
  IF id \in AtLeastOnce THEN "qos1" ELSE IF id \in ExactlyOnce THEN "qos2" ELSE "subscribe"

ASSUME KindOfAssumption == \A id \in OpId : KindOf(id) \in Kind

Answer(type, pkid) == [type |-> type, pkid |-> pkid]
FromBroker == [type : {"puback", "pubrec", "pubcomp", "suback"}, pkid : Slot]

VARIABLES
  unreleased,  \* identifiers of QoS 2 publishes the broker waits for a PUBREL for
  taken        \* history: how often the broker took each message for a new one

broker == <<unreleased, taken>>
allVars == <<vars, clean_session, network, broker, losses>>

-----------------------------------------------------------------------------
\* The runtime.
ClientCommand ==
  /\ ~Reconnecting
  /\ \E id \in OpId : Command(id, KindOf(id))
  /\ Transmit
  /\ UNCHANGED <<clean_session, to_runtime, broker, losses>>

\* Packet::PubAck, PubRec, PubComp and SubAck in handle_event.
Dispatch(packet) ==
  \/ packet.type = "puback" /\ (PubAck(packet.pkid) \/ UnsolicitedAck(packet.pkid))
  \/ packet.type = "pubrec" /\ (PubRec(packet.pkid) \/ UnsolicitedPubRec(packet.pkid))
  \/ packet.type = "pubcomp" /\ (PubComp(packet.pkid) \/ UnsolicitedPubComp(packet.pkid))
  \/ packet.type = "suback" /\ (SubAck(packet.pkid) \/ UnsolicitedAck(packet.pkid))

Receive ==
  /\ ~Reconnecting
  /\ to_runtime # <<>>
  /\ Dispatch(Head(to_runtime))
  /\ to_runtime' = Tail(to_runtime)
  /\ Transmit
  /\ UNCHANGED <<clean_session, broker, losses>>

\* The second half of reconnect, and what activates a new state.
Restore ==
  /\ ~active
  /\ ConnectionRestored
  /\ UNCHANGED <<clean_session, network, broker, losses>>

Resend ==
  /\ Replay
  /\ Transmit
  /\ UNCHANGED <<clean_session, to_runtime, broker, losses>>

-----------------------------------------------------------------------------
Timeout ==
  /\ MayLose
  /\ ConnectionLost(clean_session)
  /\ timeouts' = timeouts + 1
  /\ UNCHANGED <<clean_session, network, broker, drops>>

Replace ==
  /\ MayLose
  /\ ConnectionLost(clean_session)
  /\ drops' = drops + 1
  /\ to_broker' = <<>>
  /\ to_runtime' = <<>>
  /\ unreleased' = IF clean_session THEN {} ELSE unreleased
  /\ UNCHANGED <<clean_session, taken, timeouts>>

-----------------------------------------------------------------------------
(***************************************************************************)
(* The broker.                                                             *)
(***************************************************************************)
Packet == Head(to_broker)

Reads(kind) ==
  /\ to_broker # <<>>
  /\ Packet.packet = kind
  /\ to_broker' = Tail(to_broker)
  /\ UNCHANGED <<vars, clean_session, losses>>

Replies(type) == to_runtime' = Append(to_runtime, Answer(type, Packet.pkid))

Take == taken' = [taken EXCEPT ![Packet.id] = @ + 1]

TakeQos1 == Reads("qos1") /\ Take /\ Replies("puback") /\ UNCHANGED unreleased

TakeQos2 ==
  /\ Reads("qos2")
  /\ Replies("pubrec")
  /\ IF Packet.pkid \in unreleased
       THEN UNCHANGED broker
       ELSE Take /\ unreleased' = unreleased \cup {Packet.pkid}

Release ==
  /\ Reads("pubrel")
  /\ Replies("pubcomp")
  /\ unreleased' = unreleased \ {Packet.pkid}
  /\ UNCHANGED taken

Grant == Reads("subscribe") /\ Replies("suback") /\ UNCHANGED broker

Broker == TakeQos1 \/ TakeQos2 \/ Release \/ Grant

-----------------------------------------------------------------------------
EndToEndInit ==
  /\ Init
  /\ clean_session \in BOOLEAN
  /\ to_broker = <<>>
  /\ to_runtime = <<>>
  /\ unreleased = {}
  /\ taken = [id \in Message |-> 0]
  /\ timeouts = 0
  /\ drops = 0

Runtime == Receive \/ Resend \/ (Reconnecting /\ Restore)

EndToEndNext == ClientCommand \/ Runtime \/ Restore \/ Timeout \/ Replace \/ Broker

EndToEndSpec == EndToEndInit /\ [][EndToEndNext]_allVars

(***************************************************************************)
(* The thread goes on with what it has to read and to resend, and the      *)
(* broker goes on reading.  Nothing obliges anyone to activate the state,  *)
(* and no connection has to be lost.                                       *)
(***************************************************************************)
FairSpec == EndToEndSpec /\ WF_allVars(Runtime) /\ WF_allVars(Broker)

-----------------------------------------------------------------------------
(***************************************************************************)
(* Types: every packet on the way names an identifier of the pool.         *)
(***************************************************************************)
EndToEndTypeOK ==
  /\ clean_session \in BOOLEAN
  /\ to_broker \in Seq({action \in DriverAction : action.do = "Send"})
  /\ to_runtime \in Seq(FromBroker)
  /\ unreleased \subseteq Slot \ {0}
  /\ taken \in [Message -> Nat]
  /\ timeouts \in 0 .. MaxLosses
  /\ drops \in 0 .. MaxLosses

(***************************************************************************)
(* With a broker that keeps to the protocol, no acknowledgement ends the   *)
(* runtime thread, whatever collisions, promotions, deferrals and replaced *)
(* connections come between.  The one way to an unsolicited answer is a    *)
(* keepalive timeout on a connection that was alive: what it sends again   *)
(* is answered twice.                                                      *)
(***************************************************************************)
EndedOnlyAfterTimeout == error # None => timeouts > 0

Reported == {id \in Message : finished[id] > 0}

(***************************************************************************)
(* A publish is reported complete only if the broker took the message.     *)
(* An acknowledgement names an identifier and not an operation, and two    *)
(* histories make it name another one.  After a timeout on a connection    *)
(* that is kept, a late acknowledgement may find the next operation under  *)
(* its identifier.  And after a loss with a persistent session, the broker *)
(* takes a new QoS 2 message under the identifier of an unfinished one for *)
(* a duplicate.  There are no others.                                      *)
(***************************************************************************)
ReportedMeansTaken ==
  \A id \in Reported :
    taken[id] > 0 \/ timeouts > 0 \/ (id \in ExactlyOnce /\ drops > 0 /\ ~clean_session)

(***************************************************************************)
(* A message is sent again only because a connection was lost: promotion,  *)
(* deferral and replay never send it twice on one connection.              *)
(***************************************************************************)
TakenPerLoss == \A id \in Message : taken[id] <= 1 + timeouts + drops

(***************************************************************************)
(* The mark that PUBREC was seen belongs to a QoS 2 publish that the slot  *)
(* still holds and that the broker took, so that a PUBCOMP completes what  *)
(* the PUBREC was about.  A lost connection does not break this if the     *)
(* session was a clean one: the marks are forgotten with the identifiers,  *)
(* and what is replayed starts again.  It breaks with a persistent one,    *)
(* whose marks outlive the operations they were made for, and after a      *)
(* timeout, whose late PUBREC may find another operation.                  *)
(***************************************************************************)
MarkTruthful ==
  timeouts = 0 /\ (clean_session \/ drops = 0) =>
    \A pkid \in Slot : outgoing_rel[pkid] =>
       /\ outgoing[pkid] # None
       /\ outgoing[pkid].kind = "qos2"
       /\ taken[outgoing[pkid].id] \in 1 .. 1 + drops

(***************************************************************************)
(* While the thread runs, a collision is recorded only for an occupied     *)
(* slot: whatever frees the slot promotes it, and no replay leaves one     *)
(* behind.  The exception is a SUBACK, which frees a slot and promotes     *)
(* nothing: the collision stays until the next loss.                       *)
(***************************************************************************)
CollisionBlocked ==
  error = None /\ collision # None =>
    outgoing[collision.pkid] # None \/ \E id \in OpId \ Message : finished[id] > 0

Deferred(id) == active /\ replay = <<>> /\ id \in PendingIds \cup CollisionIds

(***************************************************************************)
(* An operation that has a slot is reported in the end, over losses and    *)
(* replays, unless the thread ends or a replay finds no slot for it.  Then *)
(* it is deferred and waits for the next loss, which may never come; or,   *)
(* if a collision is recorded too, it is lost, although it was sent.       *)
(***************************************************************************)
CompletedUnlessDeferred ==
  \A id \in OpId :
    id \in OutgoingIds ~>
      (finished[id] > 0 \/ error # None \/ Deferred(id) \/ Status(id) = "lost")

-----------------------------------------------------------------------------
(***************************************************************************)
(* What the documents say and the code does not do: with a session that    *)
(* the broker keeps, it takes a QoS 2 message exactly once.  The replay    *)
(* sends the PUBLISH again although outgoing_rel says PUBREC was seen; a   *)
(* broker that has had the PUBREL takes it for a new message.              *)
(***************************************************************************)
TakenOnce == ~clean_session => \A id \in ExactlyOnce : taken[id] <= 1
=============================================================================
