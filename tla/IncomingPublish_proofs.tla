----------------------- MODULE IncomingPublish_proofs -----------------------
(***************************************************************************)
(* For every window, any messages and any number of losses: a QoS 2        *)
(* message reaches the clients at most once, the broker lets go of none    *)
(* that has not reached them, and a PUBREL is refused only after a loss.   *)
(***************************************************************************)
EXTENDS IncomingPublish, TLAPS

Lost == drops > 0 \/ (clean_session /\ timeouts > 0)

MessageOf(pkid) == flow[pkid].message

Phase(pkid, phase) == pkid \in Unfinished /\ flow[pkid].phase = phase

Marked(pkid) == pkid \in Slot /\ incoming_pub[pkid]

GotUnlessCut(message) == Got(message) \/ error = "EventChannelClosed"

(***************************************************************************)
(* One packet at most is on the way, or yet to be sent again, for each     *)
(* flow.                                                                   *)
(***************************************************************************)
Alone ==
  /\ \A i, j \in DOMAIN to_runtime : to_runtime[i].pkid = to_runtime[j].pkid => i = j
  /\ \A i, j \in DOMAIN to_broker : to_broker[i].pkid = to_broker[j].pkid => i = j
  /\ \A i \in DOMAIN to_runtime, j \in DOMAIN to_broker : to_runtime[i].pkid # to_broker[j].pkid
  /\ \A i \in DOMAIN to_runtime : to_runtime[i].pkid \notin redeliver
  /\ \A j \in DOMAIN to_broker : to_broker[j].pkid \notin redeliver

(***************************************************************************)
(* A packet belongs to the phase its flow is in.                           *)
(***************************************************************************)
PublishFits(packet) ==
  /\ Phase(packet.pkid, "publish")
  /\ MessageOf(packet.pkid) = packet.message
  /\ packet.message \in ExactlyOnce /\ clean_session => ~Got(packet.message)

\* PUBREC and PUBREL: the mark is there as long as nothing was lost.
MarkKept(pkid) == error = None /\ ~Lost => Marked(pkid)

PubRelFits(pkid) == Phase(pkid, "release") /\ MarkKept(pkid)

PubAckFits(pkid) ==
  Phase(pkid, "publish") /\ MessageOf(pkid) \in AtLeastOnce /\ Got(MessageOf(pkid))

PubRecFits(pkid) ==
  /\ Phase(pkid, "publish")
  /\ MessageOf(pkid) \in ExactlyOnce
  /\ pkid \in Slot
  /\ GotUnlessCut(MessageOf(pkid))
  /\ MarkKept(pkid)

PubCompFits(pkid) == Phase(pkid, "release") /\ ~Marked(pkid) /\ Got(MessageOf(pkid))

FitsRuntime(packet) ==
  /\ packet.type = "publish" => PublishFits(packet)
  /\ packet.type = "pubrel" => PubRelFits(packet.pkid)

FitsBroker(packet) ==
  /\ packet.type = "puback" => PubAckFits(packet.pkid)
  /\ packet.type = "pubrec" => PubRecFits(packet.pkid)
  /\ packet.type = "pubcomp" => PubCompFits(packet.pkid)

Fitting ==
  /\ \A i \in DOMAIN to_runtime : FitsRuntime(to_runtime[i])
  /\ \A j \in DOMAIN to_broker : FitsBroker(to_broker[j])

(***************************************************************************)
(* An unfinished flow carries a message of its own.  One that is in its    *)
(* second phase has reached the clients, and so has one that is marked;    *)
(* in a session that is kept, what has reached them is marked.             *)
(***************************************************************************)
FlowFits(pkid) ==
  /\ MessageOf(pkid) \in sent
  /\ \A other \in Unfinished : MessageOf(other) = MessageOf(pkid) => other = pkid
  /\ Phase(pkid, "release") =>
       pkid \in Slot /\ MessageOf(pkid) \in ExactlyOnce /\ GotUnlessCut(MessageOf(pkid))
  /\ Marked(pkid) => MessageOf(pkid) \in ExactlyOnce /\ (error = None => Got(MessageOf(pkid)))
  /\ Phase(pkid, "publish") /\ MessageOf(pkid) \in ExactlyOnce /\ Got(MessageOf(pkid)) =>
       clean_session \/ Marked(pkid)

Flows == \A pkid \in Unfinished : FlowFits(pkid)

\* No mark is left of a flow that is finished.
Marks == \A pkid \in WirePkid \ Unfinished : ~Marked(pkid)

Histories ==
  /\ \A message \in Message \ sent : delivered[message] = 0
  /\ \A message \in settled : Got(message)
  /\ redeliver # {} => drops > 0 /\ ~clean_session

IncomingInv ==
  /\ TypeOK /\ Alone /\ Fitting /\ Flows /\ Marks /\ Histories
  /\ DeliveredOnce
  /\ RefusedOnlyAfterLoss

-----------------------------------------------------------------------------
(***************************************************************************)
(* How packets move, whatever they mean.                                   *)
(***************************************************************************)
\* What is left when the runtime has taken a packet.
LEMMA TakenByRuntime ==
  ASSUME TypeOK, Alone, NEW type, Receive(type)
  PROVE  /\ error = None
         /\ 1 \in DOMAIN to_runtime /\ Packet = to_runtime[1]
         /\ Packet \in FromBroker /\ Packet.type = type /\ Packet.pkid \in WirePkid
         /\ type = "publish" => Packet.message \in Message
         /\ to_runtime' \in Seq(FromBroker)
         /\ \A i \in DOMAIN to_runtime' :
              /\ i + 1 \in DOMAIN to_runtime
              /\ to_runtime'[i] = to_runtime[i + 1]
              /\ to_runtime'[i].pkid # Packet.pkid
         /\ \A j \in DOMAIN to_broker : to_broker[j].pkid # Packet.pkid
         /\ Packet.pkid \notin redeliver
<1>1. /\ to_runtime \in Seq(FromBroker) /\ to_runtime # <<>>
      /\ error = None
      /\ to_runtime' = Tail(to_runtime)
      /\ Packet = Head(to_runtime) /\ Packet.type = type
  BY DEF TypeOK, Receive, Packet
<1>2. /\ 1 \in DOMAIN to_runtime /\ Packet = to_runtime[1]
      /\ Packet \in FromBroker
      /\ to_runtime' \in Seq(FromBroker)
      /\ \A i \in DOMAIN to_runtime' :
           i + 1 \in DOMAIN to_runtime /\ i + 1 # 1 /\ to_runtime'[i] = to_runtime[i + 1]
  BY <1>1
<1>3. Packet.pkid \in WirePkid /\ (type = "publish" => Packet.message \in Message)
  BY <1>1, <1>2 DEF FromBroker
<1> QED BY <1>1, <1>2, <1>3 DEF Alone

\* What is left when the broker has taken one.
LEMMA TakenByBroker ==
  ASSUME TypeOK, Alone, NEW type, Acked(type)
  PROVE  LET packet == Head(to_broker)
         IN  /\ 1 \in DOMAIN to_broker /\ packet = to_broker[1]
             /\ packet.type = type /\ packet.pkid \in WirePkid
             /\ to_broker' \in Seq(FromRuntime)
             /\ \A j \in DOMAIN to_broker' :
                  /\ j + 1 \in DOMAIN to_broker
                  /\ to_broker'[j] = to_broker[j + 1]
                  /\ to_broker'[j].pkid # packet.pkid
             /\ \A i \in DOMAIN to_runtime : to_runtime[i].pkid # packet.pkid
             /\ packet.pkid \notin redeliver
<1> DEFINE packet == Head(to_broker)
<1>1. /\ to_broker \in Seq(FromRuntime) /\ to_broker # <<>>
      /\ to_broker' = Tail(to_broker)
      /\ packet.type = type
  BY DEF TypeOK, Acked
<1>2. /\ 1 \in DOMAIN to_broker /\ packet = to_broker[1]
      /\ packet \in FromRuntime
      /\ to_broker' \in Seq(FromRuntime)
      /\ \A j \in DOMAIN to_broker' :
           j + 1 \in DOMAIN to_broker /\ j + 1 # 1 /\ to_broker'[j] = to_broker[j + 1]
  BY <1>1
<1>3. packet.pkid \in WirePkid
  BY <1>2 DEF FromRuntime
<1> QED BY <1>1, <1>2, <1>3 DEF Alone

\* A packet for the runtime is added to what is on its way.
LEMMA PutToRuntime ==
  ASSUME TypeOK, NEW packet \in FromBroker, ToRuntime(packet)
  PROVE  /\ to_runtime' \in Seq(FromBroker)
         /\ \A i \in DOMAIN to_runtime' :
              \/ i \in DOMAIN to_runtime /\ to_runtime'[i] = to_runtime[i]
              \/ i = Len(to_runtime) + 1 /\ i \notin DOMAIN to_runtime /\ to_runtime'[i] = packet
<1>1. to_runtime \in Seq(FromBroker) /\ to_runtime' = Append(to_runtime, packet)
  BY DEF TypeOK, ToRuntime
<1> QED BY <1>1

\* And one for the broker.
LEMMA PutToBroker ==
  ASSUME TypeOK, NEW packet \in FromRuntime, to_broker' = Append(to_broker, packet)
  PROVE  /\ to_broker' \in Seq(FromRuntime)
         /\ \A j \in DOMAIN to_broker' :
              \/ j \in DOMAIN to_broker /\ to_broker'[j] = to_broker[j]
              \/ j = Len(to_broker) + 1 /\ j \notin DOMAIN to_broker /\ to_broker'[j] = packet
<1>1. to_broker \in Seq(FromRuntime)
  BY DEF TypeOK
<1> QED BY <1>1

\* A step of the runtime that answers a packet or does not leaves each flow one packet at most.
LEMMA AloneHandled ==
  ASSUME TypeOK, Alone, NEW type, Receive(type), UNCHANGED redeliver,
         UNCHANGED to_broker \/ \E reply \in {"puback", "pubrec", "pubcomp"} : Reply(reply)
  PROVE  Alone' /\ to_broker' \in Seq(FromRuntime)
<1>1. /\ \A i \in DOMAIN to_runtime' :
           /\ i \in Int
           /\ i + 1 \in DOMAIN to_runtime
           /\ to_runtime'[i] = to_runtime[i + 1]
           /\ to_runtime'[i].pkid # Packet.pkid
      /\ \A j \in DOMAIN to_broker : to_broker[j].pkid # Packet.pkid
      /\ Packet.pkid \notin redeliver
  BY TakenByRuntime
<1>2. \A i, j \in DOMAIN to_runtime' : to_runtime'[i].pkid = to_runtime'[j].pkid => i = j
  <2> SUFFICES ASSUME NEW i \in DOMAIN to_runtime', NEW j \in DOMAIN to_runtime',
                      to_runtime'[i].pkid = to_runtime'[j].pkid
               PROVE  i = j
    OBVIOUS
  <2>1. to_runtime[i + 1].pkid = to_runtime[j + 1].pkid
    BY <1>1
  <2>2. i + 1 = j + 1
    BY <1>1, <2>1 DEF Alone
  <2> QED BY <1>1, <2>2
<1>3. \A i \in DOMAIN to_runtime' : to_runtime'[i].pkid \notin redeliver'
  BY <1>1 DEF Alone
<1>4. \A i \in DOMAIN to_runtime', j \in DOMAIN to_broker : to_runtime'[i].pkid # to_broker[j].pkid
  BY <1>1 DEF Alone
<1>5. CASE UNCHANGED to_broker
  <2>1. Alone'
    BY <1>2, <1>3, <1>4, <1>5 DEF Alone
  <2> QED BY <1>5, <2>1 DEF TypeOK
<1>6. ASSUME NEW reply \in {"puback", "pubrec", "pubcomp"}, Reply(reply)
      PROVE  Alone' /\ to_broker' \in Seq(FromRuntime)
  <2>1. Ack(reply, Packet.pkid) \in FromRuntime
    BY TakenByRuntime DEF Ack, FromRuntime
  <2>2. /\ to_broker' \in Seq(FromRuntime)
        /\ \A j \in DOMAIN to_broker' :
             \/ j \in DOMAIN to_broker /\ to_broker'[j] = to_broker[j]
             \/ j = Len(to_broker) + 1 /\ to_broker'[j].pkid = Packet.pkid
    BY <1>6, <2>1, PutToBroker DEF Reply, Ack
  <2>3. \A i, j \in DOMAIN to_broker' : to_broker'[i].pkid = to_broker'[j].pkid => i = j
    <3> SUFFICES ASSUME NEW i \in DOMAIN to_broker', NEW j \in DOMAIN to_broker',
                        to_broker'[i].pkid = to_broker'[j].pkid
                 PROVE  i = j
      OBVIOUS
    <3> QED BY <1>1, <2>2 DEF Alone
  <2>4. \A i \in DOMAIN to_runtime', j \in DOMAIN to_broker' :
          to_runtime'[i].pkid # to_broker'[j].pkid
    BY <1>1, <1>4, <2>2
  <2>5. \A j \in DOMAIN to_broker' : to_broker'[j].pkid \notin redeliver'
    BY <1>1, <2>2 DEF Alone
  <2>6. Alone'
    BY <1>2, <1>3, <2>3, <2>4, <2>5 DEF Alone
  <2> QED BY <2>2, <2>6
<1> QED BY <1>5, <1>6

\* A step of the runtime that handles a packet of one flow keeps what holds of the others.
LEMMA OtherFlows ==
  ASSUME IncomingInv, error = None, NEW pkid \in Unfinished,
         UNCHANGED <<clean_session, flow, sent, losses>>,
         \A other \in WirePkid \ {pkid} : Marked(other)' <=> Marked(other),
         \A message \in Message : Got(message) => Got(message)',
         \A message \in Message \ {MessageOf(pkid)} : Got(message)' => Got(message)
  PROVE  /\ Unfinished' = Unfinished
         /\ \A packet \in FromBroker :
              packet.pkid # pkid /\ FitsRuntime(packet) => FitsRuntime(packet)'
         /\ \A packet \in FromRuntime :
              packet.pkid # pkid /\ FitsBroker(packet) => FitsBroker(packet)'
         /\ \A other \in Unfinished \ {pkid} : FlowFits(other)'
<1>1. /\ Unfinished' = Unfinished /\ (Lost' <=> Lost)
      /\ \A other \in WirePkid : MessageOf(other)' = MessageOf(other)
      /\ \A phase : \A other \in WirePkid : Phase(other, phase)' <=> Phase(other, phase)
  BY DEF Unfinished, Lost, losses, MessageOf, Phase
<1>2. \A other \in Unfinished : other \in WirePkid /\ MessageOf(other) \in Message
  BY DEF Unfinished, MessageOf, IncomingInv, TypeOK, Flow
<1>3. \A other \in Unfinished \ {pkid} :
        MessageOf(other) # MessageOf(pkid) /\ (Got(MessageOf(other))' <=> Got(MessageOf(other)))
  BY <1>1, <1>2 DEF IncomingInv, Flows, FlowFits
<1>4. ASSUME NEW packet \in FromBroker, packet.pkid # pkid, FitsRuntime(packet)
      PROVE  FitsRuntime(packet)'
  <2>1. packet.pkid \in WirePkid
    BY <1>4 DEF FromBroker
  <2>2. packet.type = "publish" => PublishFits(packet)'
    BY <1>1, <1>3, <1>4, <2>1 DEF FitsRuntime, PublishFits, Phase
  <2>3. packet.type = "pubrel" => PubRelFits(packet.pkid)'
    BY <1>1, <1>4, <2>1 DEF FitsRuntime, PubRelFits, MarkKept
  <2>4. QED
    BY <2>2, <2>3 DEF FitsRuntime
<1>5. ASSUME NEW packet \in FromRuntime, packet.pkid # pkid, FitsBroker(packet)
      PROVE  FitsBroker(packet)'
  <2>1. packet.pkid \in WirePkid
    BY <1>5 DEF FromRuntime
  <2>2. packet.type = "puback" => PubAckFits(packet.pkid)'
    BY <1>1, <1>3, <1>5, <2>1 DEF FitsBroker, PubAckFits, Phase
  <2>3. packet.type = "pubrec" => PubRecFits(packet.pkid)'
    <3>1. error # "EventChannelClosed"
      BY NoneAssumption DEF TaskError
    <3>2. QED
      BY <1>1, <1>3, <1>5, <2>1, <3>1 DEF FitsBroker, PubRecFits, Phase, GotUnlessCut, MarkKept
  <2>4. packet.type = "pubcomp" => PubCompFits(packet.pkid)'
    BY <1>1, <1>3, <1>5, <2>1 DEF FitsBroker, PubCompFits, Phase
  <2>5. QED
    BY <2>2, <2>3, <2>4 DEF FitsBroker
<1>6. ASSUME NEW other \in Unfinished \ {pkid}
      PROVE  FlowFits(other)'
  <2>1. FlowFits(other) /\ other \in WirePkid
    BY <1>2 DEF IncomingInv, Flows
  <2>2. error # "EventChannelClosed"
    BY NoneAssumption DEF TaskError
  <2>3. QED
    BY <1>1, <1>2, <1>3, <2>1, <2>2 DEF FlowFits, GotUnlessCut
<1> QED BY <1>1, <1>4, <1>5, <1>6

-----------------------------------------------------------------------------
(***************************************************************************)
(* The runtime.                                                            *)
(***************************************************************************)
\* The packet that is taken belongs to an unfinished flow.
LEMMA TakenFits ==
  ASSUME IncomingInv, NEW type, Receive(type)
  PROVE  /\ error = None /\ FitsRuntime(Packet)
         /\ Packet.pkid \in Unfinished /\ FlowFits(Packet.pkid)
         /\ MessageOf(Packet.pkid) \in Message
         /\ type \in {"publish", "pubrel"}
<1>1. error = None /\ FitsRuntime(Packet) /\ Packet.type = type /\ Packet \in FromBroker
  BY TakenByRuntime DEF IncomingInv, Fitting
<1>2. type \in {"publish", "pubrel"}
  BY <1>1 DEF FromBroker
<1>3. Packet.pkid \in Unfinished
  BY <1>1, <1>2 DEF FitsRuntime, PublishFits, PubRelFits, Phase
<1>4. MessageOf(Packet.pkid) \in Message
  BY <1>3 DEF MessageOf, Unfinished, IncomingInv, TypeOK, Flow
<1> QED BY <1>1, <1>2, <1>3, <1>4 DEF IncomingInv, Flows

(***************************************************************************)
(* What a step that handles a packet has to show: it touches the mark and  *)
(* the message of that packet's flow only, and leaves both as they should  *)
(* be; so is the answer it gives, if any.                                  *)
(***************************************************************************)
LEMMA HandledStep ==
  ASSUME IncomingInv, NEW type, Receive(type), NEW pkid, pkid = Packet.pkid,
         UNCHANGED <<clean_session, broker, losses>>,
         incoming_pub' \in [Slot -> BOOLEAN],
         \A other \in Slot \ {pkid} : incoming_pub'[other] = incoming_pub[other],
         delivered' \in [Message -> Nat],
         \A message \in Message : Got(message) => Got(message)',
         \A message \in Message \ {MessageOf(pkid)} : delivered'[message] = delivered[message],
         MessageOf(pkid) \in ExactlyOnce => delivered'[MessageOf(pkid)] <= 1,
         error' \in TaskError \cup {None},
         error' = "UnsolicitedPubRel" => Lost,
         FlowFits(pkid)',
         \/ UNCHANGED to_broker
         \/ \E reply \in {"puback", "pubrec", "pubcomp"} :
              Reply(reply) /\ FitsBroker(Ack(reply, pkid))'
  PROVE  IncomingInv'
<1>1. TypeOK /\ Alone
  BY DEF IncomingInv
<1>2. /\ error = None /\ pkid \in Unfinished /\ pkid \in WirePkid
      /\ to_runtime' \in Seq(FromBroker)
  BY <1>1, TakenFits, TakenByRuntime
<1>3. UNCHANGED <<flow, redeliver, sent, settled>>
  BY DEF broker
<1>4. Alone' /\ to_broker' \in Seq(FromRuntime)
  BY <1>1, <1>3, AloneHandled
<1>5. \A other \in WirePkid \ {pkid} : Marked(other)' <=> Marked(other)
  BY DEF Marked
<1>6. \A message \in Message \ {MessageOf(pkid)} : Got(message)' => Got(message)
  BY DEF Got
<1>7. /\ Unfinished' = Unfinished
      /\ \A packet \in FromBroker :
           packet.pkid # pkid /\ FitsRuntime(packet) => FitsRuntime(packet)'
      /\ \A packet \in FromRuntime :
           packet.pkid # pkid /\ FitsBroker(packet) => FitsBroker(packet)'
      /\ \A other \in Unfinished \ {pkid} : FlowFits(other)'
  BY <1>2, <1>3, <1>5, <1>6, OtherFlows
<1>8. TypeOK'
  BY <1>1, <1>2, <1>3, <1>4, <1>7 DEF TypeOK, losses
<1>9. Fitting'
  <2>1. ASSUME NEW i \in DOMAIN to_runtime' PROVE FitsRuntime(to_runtime[i])'
    <3>1. /\ i + 1 \in DOMAIN to_runtime /\ to_runtime'[i] = to_runtime[i + 1]
          /\ to_runtime'[i].pkid # pkid /\ to_runtime'[i] \in FromBroker
      BY <1>1, <1>2, TakenByRuntime
    <3>2. FitsRuntime(to_runtime[i + 1])
      BY <3>1 DEF IncomingInv, Fitting
    <3>3. PICK packet \in FromBroker : packet = to_runtime'[i]
      BY <3>1
    <3>4. FitsRuntime(packet)'
      BY <1>7, <3>1, <3>2, <3>3
    <3> QED BY <3>3, <3>4
  <2>2. ASSUME NEW j \in DOMAIN to_broker' PROVE FitsBroker(to_broker[j])'
    <3>1. \A packet \in FromRuntime :
            (\E k \in DOMAIN to_broker : packet = to_broker[k]) => FitsBroker(packet)'
      <4>1. \A k \in DOMAIN to_broker : to_broker[k].pkid # pkid /\ FitsBroker(to_broker[k])
        BY <1>1, TakenByRuntime DEF IncomingInv, Fitting
      <4> QED BY <1>7, <4>1
    <3>2. PICK packet \in FromRuntime : packet = to_broker'[j]
      BY <1>4
    <3>3. CASE \E k \in DOMAIN to_broker : packet = to_broker[k]
      BY <3>1, <3>2, <3>3
    <3>4. ASSUME ~\E k \in DOMAIN to_broker : packet = to_broker[k]
          PROVE  \E reply \in {"puback", "pubrec", "pubcomp"} :
                   packet = Ack(reply, pkid) /\ FitsBroker(Ack(reply, pkid))'
      <4>1. ~UNCHANGED to_broker
        BY <3>2, <3>4
      <4>2. PICK reply \in {"puback", "pubrec", "pubcomp"} :
              Reply(reply) /\ FitsBroker(Ack(reply, pkid))'
        BY <4>1
      <4>3. Ack(reply, pkid) \in FromRuntime
        BY <1>2 DEF Ack, FromRuntime
      <4>4. packet = Ack(reply, pkid)
        BY <1>1, <3>2, <3>4, <4>2, <4>3, PutToBroker DEF Reply
      <4> QED BY <4>2, <4>4
    <3> QED BY <3>2, <3>3, <3>4
  <2> QED BY <2>1, <2>2 DEF Fitting
<1>10. Flows' /\ Marks'
  BY <1>2, <1>5, <1>7 DEF IncomingInv, Flows, Marks
<1>11. Histories' /\ DeliveredOnce' /\ RefusedOnlyAfterLoss'
  <2>1. MessageOf(pkid) \in sent
    BY TakenFits DEF FlowFits
  <2>2. Histories'
    BY <1>1, <1>3, <2>1 DEF IncomingInv, Histories, TypeOK, losses
  <2>3. DeliveredOnce'
    BY DEF IncomingInv, DeliveredOnce, Message
  <2>4. RefusedOnlyAfterLoss'
    BY DEF RefusedOnlyAfterLoss, Lost, losses
  <2> QED BY <2>2, <2>3, <2>4
<1> QED BY <1>4, <1>8, <1>9, <1>10, <1>11 DEF IncomingInv

\* What a step that handles a PUBLISH starts from.
LEMMA PublishTaken ==
  ASSUME IncomingInv, Receive("publish"), NEW pkid, pkid = Packet.pkid,
         NEW message, message = Packet.message
  PROVE  /\ PublishFits(Packet) /\ FlowFits(pkid)
         /\ pkid \in WirePkid /\ pkid \in Unfinished /\ flow[pkid].phase = "publish"
         /\ message \in Message /\ MessageOf(pkid) = message
         /\ error = None /\ error # "EventChannelClosed" /\ error # "UnsolicitedPubRel"
<1>1. TypeOK /\ Alone
  BY DEF IncomingInv
<1>2. PublishFits(Packet) /\ FlowFits(pkid) /\ pkid \in Unfinished /\ error = None
  BY <1>1, TakenFits, TakenByRuntime DEF FitsRuntime
<1>3. pkid \in WirePkid /\ message \in Message
  BY <1>1, TakenByRuntime
<1> QED BY <1>2, <1>3, NoneAssumption DEF TaskError, PublishFits, Phase

\* One more client message.
LEMMA FannedOut ==
  ASSUME TypeOK, Fanout, NEW message \in Message, message = Packet.message
  PROVE  /\ delivered' \in [Message -> Nat]
         /\ delivered'[message] = delivered[message] + 1 /\ Got(message)'
         /\ \A other \in Message : Got(other) => Got(other)'
         /\ \A other \in Message \ {message} : delivered'[other] = delivered[other]
BY DEF TypeOK, Fanout, Got

\* PUBACK goes out after the fanout.
LEMMA PublishQos1Step == ASSUME IncomingInv, PublishQos1 PROVE IncomingInv'
<1>0. PICK p, m : p = Packet.pkid /\ m = Packet.message
  OBVIOUS
<1>1. /\ Receive("publish") /\ m \in AtLeastOnce /\ m \notin ExactlyOnce
      /\ UNCHANGED <<clean_session, incoming_pub, broker, losses>>
  BY <1>0, QosAssumption DEF PublishQos1
<1>2. /\ FlowFits(p) /\ p \in WirePkid /\ p \in Unfinished /\ flow[p].phase = "publish"
      /\ m \in Message /\ MessageOf(p) = m
      /\ error = None /\ error # "EventChannelClosed" /\ error # "UnsolicitedPubRel"
  BY <1>0, <1>1, PublishTaken
<1>3. incoming_pub' \in [Slot -> BOOLEAN] /\ TypeOK
  BY <1>1 DEF IncomingInv, TypeOK
<1>4. UNCHANGED delivered \/ Fanout
  BY DEF PublishQos1
<1>5. /\ delivered' \in [Message -> Nat]
      /\ \A other \in Message : Got(other) => Got(other)'
      /\ \A other \in Message \ {m} : delivered'[other] = delivered[other]
  BY <1>0, <1>2, <1>3, <1>4, FannedOut DEF TypeOK, Got
<1>6. error' \in {None, "EventChannelClosed", "Io"}
  BY <1>2 DEF PublishQos1, Stop
<1>7. FlowFits(p)'
  <2>1. /\ Unfinished' = Unfinished /\ MessageOf(p)' = m
        /\ \A other \in Unfinished : MessageOf(other)' = MessageOf(other)
        /\ ~Phase(p, "release") /\ ~Phase(p, "release")'
        /\ ~Marked(p)'
    BY <1>1, <1>2 DEF Unfinished, MessageOf, Phase, Marked, FlowFits, broker
  <2> QED BY <1>1, <1>2, <2>1 DEF FlowFits, broker
<1>8. \/ UNCHANGED to_broker
      \/ Reply("puback") /\ FitsBroker(Ack("puback", p))'
  <2>1. ASSUME Reply("puback"), Fanout PROVE FitsBroker(Ack("puback", p))'
    <3>1. PubAckFits(p)'
      BY <1>0, <1>1, <1>2, <1>3, <2>1, FannedOut
      DEF PubAckFits, Phase, Unfinished, MessageOf, broker
    <3> QED BY <3>1 DEF FitsBroker, Ack
  <2> QED BY <2>1 DEF PublishQos1
<1> QED BY <1>0, <1>1, <1>2, <1>3, <1>5, <1>6, <1>7, <1>8, HandledStep DEF TaskError

\* The first PUBLISH of a QoS 2 flow: no client has its message yet.
LEMMA PublishFirstSeenStep == ASSUME IncomingInv, PublishFirstSeen PROVE IncomingInv'
<1>0. PICK p, m : p = Packet.pkid /\ m = Packet.message
  OBVIOUS
<1>1. /\ Receive("publish") /\ m \in ExactlyOnce
      /\ p \in Slot /\ ~incoming_pub[p]
      /\ incoming_pub' = [incoming_pub EXCEPT ![p] = TRUE]
      /\ UNCHANGED <<clean_session, broker, losses>>
  BY <1>0 DEF PublishFirstSeen, InRange, Duplicate
<1>2. /\ FlowFits(p) /\ p \in WirePkid /\ p \in Unfinished /\ flow[p].phase = "publish"
      /\ m \in Message /\ MessageOf(p) = m
      /\ error = None /\ error # "EventChannelClosed" /\ error # "UnsolicitedPubRel"
      /\ clean_session => ~Got(m)
  BY <1>0, <1>1, PublishTaken DEF PublishFits
<1>3. /\ TypeOK /\ incoming_pub' \in [Slot -> BOOLEAN] /\ incoming_pub'[p]
      /\ \A other \in Slot \ {p} : incoming_pub'[other] = incoming_pub[other]
  BY <1>1 DEF IncomingInv, TypeOK
<1>4. delivered[m] = 0
  BY <1>1, <1>2, <1>3 DEF FlowFits, Phase, Marked, Got, TypeOK
<1>5. UNCHANGED delivered \/ Fanout
  BY DEF PublishFirstSeen
<1>6. /\ delivered' \in [Message -> Nat] /\ delivered'[m] <= 1
      /\ \A other \in Message : Got(other) => Got(other)'
      /\ \A other \in Message \ {m} : delivered'[other] = delivered[other]
  BY <1>0, <1>2, <1>3, <1>4, <1>5, FannedOut DEF TypeOK, Got
<1>7. error' \in {None, "EventChannelClosed", "Io"}
  BY <1>2 DEF PublishFirstSeen, Stop
<1>8. Got(m)' \/ error' \in {"EventChannelClosed", "Io"}
  BY <1>0, <1>2, <1>3, FannedOut DEF PublishFirstSeen, Stop
<1>9. /\ Unfinished' = Unfinished /\ MessageOf(p)' = m
      /\ \A other \in Unfinished : MessageOf(other)' = MessageOf(other)
      /\ Phase(p, "publish")' /\ ~Phase(p, "release")' /\ Marked(p)'
  BY <1>1, <1>2, <1>3 DEF Unfinished, MessageOf, Phase, Marked, broker
<1>10. FlowFits(p)'
  BY <1>1, <1>2, <1>8, <1>9, NoneAssumption DEF FlowFits, broker, TaskError
<1>11. \/ UNCHANGED to_broker
       \/ Reply("pubrec") /\ FitsBroker(Ack("pubrec", p))'
  <2>1. ASSUME Reply("pubrec"), GotUnlessCut(m)' PROVE FitsBroker(Ack("pubrec", p))'
    <3>1. PubRecFits(p)'
      BY <1>1, <1>9, <2>1 DEF PubRecFits, MarkKept
    <3> QED BY <3>1 DEF FitsBroker, Ack
  <2>2. Fanout => GotUnlessCut(m)'
    BY <1>0, <1>2, <1>3, FannedOut DEF GotUnlessCut
  <2>3. Stop("EventChannelClosed") => GotUnlessCut(m)'
    BY DEF Stop, GotUnlessCut
  <2> QED BY <2>1, <2>2, <2>3 DEF PublishFirstSeen
<1> QED BY <1>0, <1>1, <1>2, <1>3, <1>6, <1>7, <1>10, <1>11, HandledStep DEF TaskError

\* A repeated PUBLISH is answered and nothing else.
LEMMA PublishDuplicateStep == ASSUME IncomingInv, PublishDuplicate PROVE IncomingInv'
<1>0. PICK p, m : p = Packet.pkid /\ m = Packet.message
  OBVIOUS
<1>1. /\ Receive("publish") /\ m \in ExactlyOnce /\ p \in Slot /\ incoming_pub[p]
      /\ UNCHANGED <<clean_session, incoming_pub, delivered, broker, losses>>
  BY <1>0 DEF PublishDuplicate, InRange, Duplicate
<1>2. /\ FlowFits(p) /\ p \in WirePkid /\ p \in Unfinished /\ flow[p].phase = "publish"
      /\ m \in Message /\ MessageOf(p) = m
      /\ error = None /\ error # "EventChannelClosed" /\ error # "UnsolicitedPubRel"
  BY <1>0, <1>1, PublishTaken
<1>3. error' \in {None, "Io"}
  BY <1>2 DEF PublishDuplicate, Stop
<1>4. Got(m) /\ Got(m)' /\ Marked(p)'
  BY <1>1, <1>2 DEF FlowFits, Marked, Got
<1>5. /\ Unfinished' = Unfinished /\ MessageOf(p)' = m
      /\ \A other \in Unfinished : MessageOf(other)' = MessageOf(other)
      /\ Phase(p, "publish")' /\ ~Phase(p, "release")'
  BY <1>1, <1>2 DEF Unfinished, MessageOf, Phase, broker
<1>6. FlowFits(p)'
  BY <1>1, <1>2, <1>4, <1>5 DEF FlowFits, broker
<1>7. UNCHANGED to_broker \/ (Reply("pubrec") /\ FitsBroker(Ack("pubrec", p))')
  <2>1. PubRecFits(p)'
    BY <1>1, <1>4, <1>5 DEF PubRecFits, GotUnlessCut, MarkKept
  <2>2. FitsBroker(Ack("pubrec", p))'
    BY <2>1 DEF FitsBroker, Ack
  <2> QED BY <2>2 DEF PublishDuplicate
<1>8. /\ incoming_pub' \in [Slot -> BOOLEAN] /\ delivered' \in [Message -> Nat]
      /\ m \in ExactlyOnce => delivered'[m] <= 1
  BY <1>1 DEF IncomingInv, TypeOK, DeliveredOnce
<1>9. \A message \in Message : Got(message) => Got(message)'
  BY <1>1 DEF Got
<1> QED BY <1>0, <1>1, <1>2, <1>3, <1>6, <1>7, <1>8, <1>9, HandledStep DEF TaskError

\* An identifier that incoming_pub has no place for.
LEMMA PublishOutOfRangeStep == ASSUME IncomingInv, PublishOutOfRange PROVE IncomingInv'
<1>0. PICK p, m : p = Packet.pkid /\ m = Packet.message
  OBVIOUS
<1>1. /\ Receive("publish") /\ error' = "PacketIdOutOfRange"
      /\ UNCHANGED <<clean_session, incoming_pub, to_broker, delivered, broker, losses>>
  BY DEF PublishOutOfRange, Stop
<1>2. /\ FlowFits(p) /\ p \in WirePkid /\ p \in Unfinished
      /\ m \in Message /\ MessageOf(p) = m
      /\ error = None /\ error # "EventChannelClosed"
  BY <1>0, <1>1, PublishTaken
<1>3. FlowFits(p)'
  <2>1. error' # None
    BY <1>1, NoneAssumption DEF TaskError
  <2> QED BY <1>1, <1>2, <2>1
    DEF FlowFits, Unfinished, MessageOf, Phase, Marked, GotUnlessCut, Got, broker
<1>4. /\ incoming_pub' \in [Slot -> BOOLEAN] /\ delivered' \in [Message -> Nat]
      /\ m \in ExactlyOnce => delivered'[m] <= 1
  BY <1>1 DEF IncomingInv, TypeOK, DeliveredOnce
<1>5. \A message \in Message : Got(message) => Got(message)'
  BY <1>1 DEF Got
<1> QED BY <1>0, <1>1, <1>2, <1>3, <1>4, <1>5, HandledStep DEF TaskError

\* What a step that handles a PUBREL starts from.
LEMMA PubRelTaken ==
  ASSUME IncomingInv, Receive("pubrel"), NEW pkid, pkid = Packet.pkid
  PROVE  /\ MarkKept(pkid) /\ FlowFits(pkid)
         /\ pkid \in WirePkid /\ pkid \in Unfinished /\ flow[pkid].phase = "release"
         /\ MessageOf(pkid) \in ExactlyOnce /\ pkid \in Slot /\ Got(MessageOf(pkid))
         /\ error = None /\ error # "EventChannelClosed"
<1>1. TypeOK /\ Alone
  BY DEF IncomingInv
<1>2. PubRelFits(pkid) /\ FlowFits(pkid) /\ pkid \in Unfinished /\ error = None
  BY <1>1, TakenFits, TakenByRuntime DEF FitsRuntime
<1>3. pkid \in WirePkid /\ error # "EventChannelClosed"
  BY <1>1, <1>2, TakenByRuntime, NoneAssumption DEF TaskError
<1> QED BY <1>2, <1>3 DEF PubRelFits, FlowFits, GotUnlessCut, Phase

\* PUBREL takes the mark away; PUBCOMP can only be about a message that was delivered.
LEMMA PubRelStep == ASSUME IncomingInv, PubRel PROVE IncomingInv'
<1>0. PICK p, m : p = Packet.pkid /\ m = MessageOf(p)
  OBVIOUS
<1>1. /\ Receive("pubrel") /\ incoming_pub' = [incoming_pub EXCEPT ![p] = FALSE]
      /\ UNCHANGED <<clean_session, delivered, broker, losses>>
  BY <1>0 DEF PubRel, Released
<1>2. /\ FlowFits(p) /\ p \in WirePkid /\ p \in Unfinished /\ flow[p].phase = "release"
      /\ m \in ExactlyOnce /\ p \in Slot /\ Got(m)
      /\ error = None /\ error # "EventChannelClosed"
  BY <1>0, <1>1, PubRelTaken
<1>3. /\ TypeOK /\ incoming_pub' \in [Slot -> BOOLEAN] /\ ~incoming_pub'[p]
      /\ \A other \in Slot \ {p} : incoming_pub'[other] = incoming_pub[other]
      /\ delivered' \in [Message -> Nat] /\ m \in Message /\ delivered'[m] <= 1
  BY <1>1, <1>2 DEF IncomingInv, TypeOK, DeliveredOnce, Message
<1>4. error' \in {None, "Io"}
  BY <1>2 DEF PubRel, Stop
<1>5. /\ Unfinished' = Unfinished /\ MessageOf(p)' = m
      /\ \A other \in Unfinished : MessageOf(other)' = MessageOf(other)
      /\ Phase(p, "release")' /\ ~Phase(p, "publish")' /\ ~Marked(p)' /\ Got(m)'
  BY <1>0, <1>1, <1>2, <1>3 DEF Unfinished, MessageOf, Phase, Marked, Got, broker
<1>6. FlowFits(p)'
  BY <1>0, <1>1, <1>2, <1>5 DEF FlowFits, GotUnlessCut, broker
<1>7. UNCHANGED to_broker \/ (Reply("pubcomp") /\ FitsBroker(Ack("pubcomp", p))')
  <2>1. FitsBroker(Ack("pubcomp", p))'
    BY <1>5 DEF FitsBroker, Ack, PubCompFits
  <2> QED BY <2>1 DEF PubRel
<1>8. \A message \in Message : Got(message) => Got(message)'
  BY <1>1 DEF Got
<1>9. error' \in TaskError \cup {None} /\ (error' = "UnsolicitedPubRel" => Lost)
  BY <1>2, <1>4, NoneAssumption DEF TaskError
<1> QED BY <1>0, <1>1, <1>3, <1>6, <1>7, <1>8, <1>9, HandledStep

\* A PUBREL that is refused: the mark is not there, so something was lost.
LEMMA UnsolicitedPubRelStep == ASSUME IncomingInv, UnsolicitedPubRel PROVE IncomingInv'
<1>0. PICK p, m : p = Packet.pkid /\ m = MessageOf(p)
  OBVIOUS
<1>1. /\ Receive("pubrel") /\ ~incoming_pub[p] /\ error' = "UnsolicitedPubRel"
      /\ UNCHANGED <<clean_session, incoming_pub, to_broker, delivered, broker, losses>>
  BY <1>0 DEF UnsolicitedPubRel, Stop
<1>2. /\ MarkKept(p) /\ FlowFits(p) /\ p \in WirePkid /\ p \in Unfinished
      /\ m \in ExactlyOnce /\ Got(m) /\ error = None
  BY <1>0, <1>1, PubRelTaken
<1>3. Lost
  BY <1>1, <1>2 DEF MarkKept, Marked
<1>4. FlowFits(p)'
  BY <1>0, <1>1, <1>2
  DEF FlowFits, Unfinished, MessageOf, Phase, Marked, GotUnlessCut, Got, broker
<1>5. /\ incoming_pub' \in [Slot -> BOOLEAN] /\ delivered' \in [Message -> Nat]
      /\ delivered'[m] <= 1
  BY <1>1, <1>2 DEF IncomingInv, TypeOK, DeliveredOnce
<1>6. \A message \in Message : Got(message) => Got(message)'
  BY <1>1 DEF Got
<1> QED BY <1>0, <1>1, <1>2, <1>3, <1>4, <1>5, <1>6, HandledStep DEF TaskError

\* Every step of the thread that reads.
LEMMA HandleStep == ASSUME IncomingInv, Handle PROVE IncomingInv'
BY PublishQos1Step, PublishFirstSeenStep, PublishDuplicateStep, PublishOutOfRangeStep,
   PubRelStep, UnsolicitedPubRelStep DEF Handle

-----------------------------------------------------------------------------
(***************************************************************************)
(* Losses.                                                                 *)
(***************************************************************************)
\* A clean session forgets its marks with the connection; no other does.
LEMMA Forgotten ==
  ASSUME TypeOK, Forget
  PROVE  /\ incoming_pub' \in [Slot -> BOOLEAN]
         /\ \A pkid : Marked(pkid)' <=> ~clean_session /\ Marked(pkid)
BY DEF TypeOK, Forget, Marked

\* A keepalive timeout: what is on its way stays there.
LEMMA TimeoutStep == ASSUME IncomingInv, Timeout PROVE IncomingInv'
<1>1. /\ TypeOK /\ timeouts \in Nat /\ drops \in Nat /\ timeouts + drops < MaxReconnects
      /\ timeouts' = timeouts + 1 /\ drops' = drops
      /\ UNCHANGED <<clean_session, error, to_runtime, to_broker, flow, redeliver, sent,
                     settled, delivered>>
  BY DEF IncomingInv, TypeOK, Timeout, MayLose, broker
<1>2. /\ incoming_pub' \in [Slot -> BOOLEAN]
      /\ \A pkid : Marked(pkid)' <=> ~clean_session /\ Marked(pkid)
  BY <1>1, Forgotten DEF Timeout
<1>3. (clean_session => Lost') /\ (Lost => Lost')
  BY <1>1 DEF Lost
<1>4. /\ Unfinished' = Unfinished
      /\ \A pkid : MessageOf(pkid)' = MessageOf(pkid)
      /\ \A pkid, phase : Phase(pkid, phase)' <=> Phase(pkid, phase)
      /\ \A message : (Got(message)' <=> Got(message)) /\ (GotUnlessCut(message)' <=> GotUnlessCut(message))
  BY <1>1 DEF Unfinished, MessageOf, Phase, Got, GotUnlessCut
<1>5. TypeOK'
  BY <1>1, <1>2, <1>4, MaxReconnectsAssumption DEF TypeOK
<1>6. Alone' /\ Histories' /\ DeliveredOnce' /\ RefusedOnlyAfterLoss'
  BY <1>1, <1>3, <1>4 DEF IncomingInv, Alone, Histories, DeliveredOnce, RefusedOnlyAfterLoss
<1>7. \A pkid : MarkKept(pkid) => MarkKept(pkid)'
  BY <1>1, <1>2, <1>3 DEF MarkKept
<1>8. Fitting'
  <2>1. \A packet : FitsRuntime(packet) => FitsRuntime(packet)'
    BY <1>1, <1>4, <1>7 DEF FitsRuntime, PublishFits, PubRelFits
  <2>2. \A packet : FitsBroker(packet) => FitsBroker(packet)'
    BY <1>1, <1>2, <1>4, <1>7 DEF FitsBroker, PubAckFits, PubRecFits, PubCompFits
  <2> QED BY <1>1, <2>1, <2>2 DEF IncomingInv, Fitting
<1>9. Flows' /\ Marks'
  BY <1>1, <1>2, <1>4 DEF IncomingInv, Flows, FlowFits, Marks
<1> QED BY <1>5, <1>6, <1>8, <1>9 DEF IncomingInv

\* A new connection: nothing is on its way, and all that is unfinished is to be sent again.
LEMMA ReplaceStep == ASSUME IncomingInv, Replace PROVE IncomingInv'
<1>1. /\ TypeOK /\ timeouts \in Nat /\ drops \in Nat /\ timeouts + drops < MaxReconnects
      /\ drops' = drops + 1 /\ timeouts' = timeouts
      /\ to_runtime' = <<>> /\ to_broker' = <<>>
      /\ UNCHANGED <<clean_session, error, sent, settled, delivered>>
  BY DEF IncomingInv, TypeOK, Replace, MayLose
<1>2. /\ incoming_pub' \in [Slot -> BOOLEAN]
      /\ \A pkid : Marked(pkid)' <=> ~clean_session /\ Marked(pkid)
  BY <1>1, Forgotten DEF Replace
<1>3. \/ clean_session /\ flow' = [pkid \in WirePkid |-> None] /\ Unfinished' = {} /\ redeliver' = {}
      \/ ~clean_session /\ flow' = flow /\ Unfinished' = Unfinished /\ redeliver' = Unfinished
  BY DEF Replace, Unfinished
<1>4. TypeOK'
  BY <1>1, <1>2, <1>3, MaxReconnectsAssumption DEF TypeOK
<1>5. Alone' /\ Fitting'
  BY <1>1 DEF Alone, Fitting
<1>6. Histories' /\ DeliveredOnce' /\ RefusedOnlyAfterLoss'
  BY <1>1, <1>3 DEF IncomingInv, Histories, Got, DeliveredOnce, RefusedOnlyAfterLoss
<1>7. Flows'
  BY <1>1, <1>2, <1>3 DEF IncomingInv, Flows, FlowFits, MessageOf, Phase, GotUnlessCut, Got
<1>8. Marks'
  BY <1>2, <1>3 DEF IncomingInv, Marks
<1> QED BY <1>4, <1>5, <1>6, <1>7, <1>8 DEF IncomingInv

-----------------------------------------------------------------------------
(***************************************************************************)
(* The broker.                                                             *)
(***************************************************************************)
(***************************************************************************)
(* A step of the broker changes one flow at most: it finishes it, keeps    *)
(* its message, or gives it a message that no flow has.  What holds of the *)
(* others stays.                                                           *)
(***************************************************************************)
LEMMA OtherFlowsBroker ==
  ASSUME IncomingInv, NEW pkid \in WirePkid,
         UNCHANGED <<clean_session, incoming_pub, error, delivered, losses>>,
         \A other \in WirePkid \ {pkid} : flow'[other] = flow[other],
         sent \subseteq sent',
         \A other \in Unfinished \ {pkid} :
           pkid \in Unfinished' => MessageOf(other) # MessageOf(pkid)'
  PROVE  /\ Unfinished' \ {pkid} = Unfinished \ {pkid}
         /\ \A packet \in FromBroker :
              packet.pkid # pkid /\ FitsRuntime(packet) => FitsRuntime(packet)'
         /\ \A packet \in FromRuntime :
              packet.pkid # pkid /\ FitsBroker(packet) => FitsBroker(packet)'
         /\ \A other \in Unfinished \ {pkid} : FlowFits(other)'
<1>1. /\ Unfinished' \ {pkid} = Unfinished \ {pkid}
      /\ \A other \in WirePkid \ {pkid} : MessageOf(other)' = MessageOf(other)
      /\ \A phase : \A other \in WirePkid \ {pkid} : Phase(other, phase)' <=> Phase(other, phase)
      /\ \A other : (Marked(other)' <=> Marked(other)) /\ (MarkKept(other)' <=> MarkKept(other))
      /\ \A message : (Got(message)' <=> Got(message)) /\ (GotUnlessCut(message)' <=> GotUnlessCut(message))
  BY DEF Unfinished, MessageOf, Phase, Marked, MarkKept, Lost, losses, Got, GotUnlessCut
<1>2. ASSUME NEW packet \in FromBroker, packet.pkid # pkid, FitsRuntime(packet)
      PROVE  FitsRuntime(packet)'
  <2>1. packet.pkid \in WirePkid \ {pkid}
    BY <1>2 DEF FromBroker
  <2> QED BY <1>1, <1>2, <2>1 DEF FitsRuntime, PublishFits, PubRelFits
<1>3. ASSUME NEW packet \in FromRuntime, packet.pkid # pkid, FitsBroker(packet)
      PROVE  FitsBroker(packet)'
  <2>1. packet.pkid \in WirePkid \ {pkid}
    BY <1>3 DEF FromRuntime
  <2> QED BY <1>1, <1>3, <2>1 DEF FitsBroker, PubAckFits, PubRecFits, PubCompFits
<1>4. ASSUME NEW other \in Unfinished \ {pkid}
      PROVE  FlowFits(other)'
  <2>1. FlowFits(other) /\ other \in WirePkid \ {pkid} /\ MessageOf(other)' = MessageOf(other)
    BY <1>1 DEF IncomingInv, Flows, Unfinished
  <2>2. \A third \in Unfinished' : MessageOf(third)' = MessageOf(other)' => third = other
    <3>1. \A third \in Unfinished' \ {pkid} : third \in Unfinished /\ third \in WirePkid \ {pkid}
      BY <1>1 DEF Unfinished
    <3> QED BY <1>1, <2>1, <3>1 DEF FlowFits
  <2> QED BY <1>1, <2>1, <2>2 DEF FlowFits
<1> QED BY <1>1, <1>2, <1>3, <1>4

\* A new message, under an identifier that is free.
LEMMA DeliverStep ==
  ASSUME IncomingInv, NEW message \in Message, NEW pkid \in WirePkid, Deliver(message, pkid)
  PROVE  IncomingInv'
<1> DEFINE packet == Publish(message, pkid)
<1>1. /\ message \notin sent /\ flow[pkid] = None /\ pkid \notin Unfinished
      /\ sent' = sent \cup {message}
      /\ flow' = [flow EXCEPT ![pkid] = [message |-> message, phase |-> "publish"]]
      /\ ToRuntime(packet)
      /\ UNCHANGED <<clean_session, incoming_pub, error, to_broker, redeliver, settled,
                     delivered, losses>>
      /\ TypeOK /\ Alone
  BY DEF Deliver, Unfinished, IncomingInv
<1>2. [message |-> message, phase |-> "publish"] \in Flow /\ packet \in FromBroker
  BY DEF Flow, Publish, FromBroker
<1>3. /\ flow' \in [WirePkid -> Flow \cup {None}]
      /\ flow'[pkid] = [message |-> message, phase |-> "publish"] /\ flow'[pkid] # None
      /\ \A other \in WirePkid \ {pkid} : flow'[other] = flow[other]
  BY <1>1, <1>2, NoneAssumption DEF TypeOK
<1>4. /\ pkid \in Unfinished' /\ MessageOf(pkid)' = message
      /\ Phase(pkid, "publish")' /\ ~Phase(pkid, "release")'
  BY <1>3 DEF Unfinished, MessageOf, Phase
<1>5. \A other \in Unfinished : MessageOf(other) # message
  BY <1>1 DEF IncomingInv, Flows, FlowFits
<1>6. /\ Unfinished' \ {pkid} = Unfinished \ {pkid}
      /\ \A other \in FromBroker : other.pkid # pkid /\ FitsRuntime(other) => FitsRuntime(other)'
      /\ \A other \in FromRuntime : other.pkid # pkid /\ FitsBroker(other) => FitsBroker(other)'
      /\ \A other \in Unfinished \ {pkid} : FlowFits(other)'
  BY <1>1, <1>3, <1>4, <1>5, OtherFlowsBroker
<1>7. /\ to_runtime' \in Seq(FromBroker)
      /\ \A i \in DOMAIN to_runtime' :
           \/ i \in DOMAIN to_runtime /\ to_runtime'[i] = to_runtime[i]
           \/ i = Len(to_runtime) + 1 /\ i \notin DOMAIN to_runtime /\ to_runtime'[i] = packet
  BY <1>1, <1>2, PutToRuntime
<1>8. TypeOK'
  BY <1>1, <1>3, <1>6, <1>7 DEF TypeOK, losses
<1>9. /\ \A i \in DOMAIN to_runtime : to_runtime[i] \in FromBroker /\ FitsRuntime(to_runtime[i])
      /\ \A j \in DOMAIN to_broker : to_broker[j] \in FromRuntime /\ FitsBroker(to_broker[j])
  BY <1>1 DEF TypeOK, IncomingInv, Fitting
<1>10. /\ \A i \in DOMAIN to_runtime : to_runtime[i].pkid # pkid
       /\ \A j \in DOMAIN to_broker : to_broker[j].pkid # pkid
       /\ pkid \notin redeliver
  BY <1>1, <1>9 DEF TypeOK, FitsRuntime, FitsBroker, PublishFits, PubRelFits, PubAckFits,
                    PubRecFits, PubCompFits, Phase, FromBroker, FromRuntime
<1>11. packet.pkid = pkid
  BY DEF Publish
<1>12. Alone'
  BY <1>1, <1>7, <1>10, <1>11 DEF Alone
<1>13. delivered[message] = 0
  BY <1>1 DEF IncomingInv, Histories
<1>14. Fitting'
  <2>1. FitsRuntime(packet)'
    BY <1>1, <1>4, <1>13 DEF FitsRuntime, PublishFits, Publish, Got
  <2>2. ASSUME NEW i \in DOMAIN to_runtime' PROVE FitsRuntime(to_runtime[i])'
    <3>1. PICK other \in FromBroker : other = to_runtime'[i]
      BY <1>7
    <3> QED BY <1>6, <1>7, <1>9, <1>10, <2>1, <3>1
  <2>3. ASSUME NEW j \in DOMAIN to_broker' PROVE FitsBroker(to_broker[j])'
    <3>1. PICK other \in FromRuntime : other = to_broker'[j]
      BY <1>1, <1>9
    <3> QED BY <1>1, <1>6, <1>9, <1>10, <3>1
  <2> QED BY <2>2, <2>3 DEF Fitting
<1>15. Marks' /\ ~Marked(pkid)
  BY <1>1, <1>6 DEF IncomingInv, Marks, Marked
<1>16. FlowFits(pkid)'
  <2>1. \A other \in Unfinished' : MessageOf(other)' = MessageOf(pkid)' => other = pkid
    BY <1>3, <1>4, <1>5, <1>6 DEF Unfinished, MessageOf
  <2>2. ~Marked(pkid)' /\ ~Got(message)'
    BY <1>1, <1>13, <1>15 DEF Marked, Got
  <2> QED BY <1>1, <1>4, <2>1, <2>2 DEF FlowFits
<1>17. Flows'
  BY <1>6, <1>16 DEF Flows
<1>18. Histories' /\ DeliveredOnce' /\ RefusedOnlyAfterLoss'
  BY <1>1 DEF IncomingInv, Histories, Got, DeliveredOnce, RefusedOnlyAfterLoss, losses
<1> QED BY <1>8, <1>12, <1>14, <1>15, <1>17, <1>18 DEF IncomingInv

\* What is unfinished is sent again, in the phase it is in.
LEMMA RedeliverStep ==
  ASSUME IncomingInv, NEW pkid \in WirePkid, Redeliver(pkid)
  PROVE  IncomingInv'
<1>1. PICK packet : packet = IF flow[pkid].phase = "publish"
                               THEN Publish(flow[pkid].message, pkid) ELSE Ack("pubrel", pkid)
  OBVIOUS
<1>2. /\ pkid \in redeliver /\ redeliver' = redeliver \ {pkid} /\ pkid \in Unfinished
      /\ ToRuntime(packet)
      /\ UNCHANGED <<clean_session, incoming_pub, error, to_broker, flow, sent, settled,
                     delivered, losses>>
      /\ TypeOK /\ Alone
  BY <1>1 DEF Redeliver, IncomingInv, TypeOK
<1>3. flow[pkid] \in Flow
  BY <1>2 DEF TypeOK, Unfinished
<1>4. packet \in FromBroker /\ packet.pkid = pkid
  BY <1>1, <1>3 DEF Flow, Publish, Ack, FromBroker
<1>5. /\ Unfinished' = Unfinished
      /\ \A other : MessageOf(other)' = MessageOf(other)
      /\ \A other, phase : Phase(other, phase)' <=> Phase(other, phase)
      /\ \A other : (Marked(other)' <=> Marked(other)) /\ (MarkKept(other)' <=> MarkKept(other))
      /\ \A message : (Got(message)' <=> Got(message)) /\ (GotUnlessCut(message)' <=> GotUnlessCut(message))
  BY <1>2 DEF Unfinished, MessageOf, Phase, Marked, MarkKept, Lost, losses, Got, GotUnlessCut
<1>6. /\ to_runtime' \in Seq(FromBroker)
      /\ \A i \in DOMAIN to_runtime' :
           \/ i \in DOMAIN to_runtime /\ to_runtime'[i] = to_runtime[i]
           \/ i = Len(to_runtime) + 1 /\ i \notin DOMAIN to_runtime /\ to_runtime'[i] = packet
  BY <1>2, <1>4, PutToRuntime
<1>7. TypeOK'
  BY <1>2, <1>5, <1>6 DEF TypeOK, losses
<1>8. Alone'
  BY <1>2, <1>4, <1>6 DEF Alone
<1>9. Fitting'
  <2>1. FitsRuntime(packet)
    <3>1. drops > 0 /\ ~clean_session
      BY <1>2 DEF IncomingInv, Histories
    <3>2. CASE flow[pkid].phase = "publish"
      BY <1>1, <1>2, <3>1, <3>2 DEF Publish, FitsRuntime, PublishFits, Phase, MessageOf
    <3>3. CASE flow[pkid].phase = "release"
      BY <1>1, <1>2, <3>1, <3>3 DEF Ack, FitsRuntime, PubRelFits, Phase, MarkKept, Lost
    <3> QED BY <1>3, <3>2, <3>3 DEF Flow
  <2>2. \A other : FitsRuntime(other) => FitsRuntime(other)'
    BY <1>2, <1>5 DEF FitsRuntime, PublishFits, PubRelFits
  <2>3. \A other : FitsBroker(other) => FitsBroker(other)'
    BY <1>5 DEF FitsBroker, PubAckFits, PubRecFits, PubCompFits
  <2> QED BY <1>2, <1>6, <2>1, <2>2, <2>3 DEF IncomingInv, Fitting
<1>10. Flows' /\ Marks'
  BY <1>2, <1>5 DEF IncomingInv, Flows, FlowFits, Marks
<1>11. Histories' /\ DeliveredOnce' /\ RefusedOnlyAfterLoss'
  BY <1>2 DEF IncomingInv, Histories, Got, DeliveredOnce, RefusedOnlyAfterLoss, losses
<1> QED BY <1>7, <1>8, <1>9, <1>10, <1>11 DEF IncomingInv

\* The last answer of a flow: its message reached the clients, and no mark is left.
LEMMA FinishStep ==
  ASSUME IncomingInv, NEW type \in {"puback", "pubcomp"}, Acked(type),
         NEW pkid, pkid = Head(to_broker).pkid, Finish(pkid)
  PROVE  IncomingInv'
<1>1. /\ TypeOK /\ Alone
      /\ flow' = [flow EXCEPT ![pkid] = None]
      /\ settled' = settled \cup {MessageOf(pkid)}
      /\ UNCHANGED <<clean_session, incoming_pub, error, to_runtime, redeliver, sent, delivered,
                     losses>>
  BY DEF IncomingInv, Finish, MessageOf
<1>2. /\ pkid \in WirePkid
      /\ to_broker' \in Seq(FromRuntime)
      /\ \A j \in DOMAIN to_broker' :
           /\ j + 1 \in DOMAIN to_broker
           /\ to_broker'[j] = to_broker[j + 1]
           /\ to_broker'[j].pkid # pkid
      /\ \A i \in DOMAIN to_runtime : to_runtime[i].pkid # pkid
      /\ pkid \notin redeliver
  BY <1>1, TakenByBroker
<1>3. /\ pkid \in Unfinished /\ MessageOf(pkid) \in sent
      /\ Got(MessageOf(pkid)) /\ ~Marked(pkid)
  <2>1. FitsBroker(Head(to_broker)) /\ Head(to_broker).type = type
    BY <1>1, TakenByBroker DEF IncomingInv, Fitting
  <2>2. pkid \in Unfinished /\ Got(MessageOf(pkid))
    BY <2>1 DEF FitsBroker, PubAckFits, PubCompFits, Phase
  <2>3. FlowFits(pkid)
    BY <2>2 DEF IncomingInv, Flows
  <2>4. ~Marked(pkid)
    BY <2>1, <2>3, QosAssumption DEF FitsBroker, PubAckFits, PubCompFits, FlowFits
  <2> QED BY <2>2, <2>3, <2>4 DEF FlowFits
<1>4. /\ flow' \in [WirePkid -> Flow \cup {None}] /\ flow'[pkid] = None
      /\ \A other \in WirePkid \ {pkid} : flow'[other] = flow[other]
      /\ pkid \notin Unfinished'
  BY <1>1, <1>2 DEF TypeOK, Unfinished
<1>5. /\ Unfinished' = Unfinished \ {pkid}
      /\ \A other \in FromBroker : other.pkid # pkid /\ FitsRuntime(other) => FitsRuntime(other)'
      /\ \A other \in FromRuntime : other.pkid # pkid /\ FitsBroker(other) => FitsBroker(other)'
      /\ \A other \in Unfinished \ {pkid} : FlowFits(other)'
  BY <1>1, <1>2, <1>4, OtherFlowsBroker
<1>6. TypeOK'
  BY <1>1, <1>2, <1>3, <1>4, <1>5 DEF TypeOK, losses
<1>7. Alone'
  BY <1>1, <1>2 DEF Alone
<1>8. Fitting'
  <2>1. ASSUME NEW i \in DOMAIN to_runtime' PROVE FitsRuntime(to_runtime[i])'
    <3>1. PICK other \in FromBroker : other = to_runtime'[i]
      BY <1>6 DEF TypeOK
    <3> QED BY <1>1, <1>2, <1>5, <3>1 DEF IncomingInv, Fitting
  <2>2. ASSUME NEW j \in DOMAIN to_broker' PROVE FitsBroker(to_broker[j])'
    <3>1. PICK other \in FromRuntime : other = to_broker'[j]
      BY <1>2
    <3> QED BY <1>2, <1>5, <3>1 DEF IncomingInv, Fitting
  <2> QED BY <2>1, <2>2 DEF Fitting
<1>9. Flows' /\ Marks'
  BY <1>1, <1>3, <1>5 DEF IncomingInv, Flows, Marks, Marked
<1>10. Histories' /\ DeliveredOnce' /\ RefusedOnlyAfterLoss'
  BY <1>1, <1>3 DEF IncomingInv, Histories, Got, DeliveredOnce, RefusedOnlyAfterLoss, losses
<1> QED BY <1>6, <1>7, <1>8, <1>9, <1>10 DEF IncomingInv

\* PUBREC: the flow enters its second phase, and its PUBREL goes out.
LEMMA PubRecStep == ASSUME IncomingInv, PubRec PROVE IncomingInv'
<1>0. PICK pkid, packet : pkid = Head(to_broker).pkid /\ packet = Ack("pubrel", pkid)
  OBVIOUS
<1>1. /\ TypeOK /\ Alone /\ Acked("pubrec")
      /\ flow' = [flow EXCEPT ![pkid].phase = "release"]
      /\ ToRuntime(packet)
      /\ UNCHANGED <<clean_session, incoming_pub, error, redeliver, sent, settled, delivered,
                     losses>>
  BY <1>0 DEF IncomingInv, PubRec
<1>2. /\ pkid \in WirePkid
      /\ to_broker' \in Seq(FromRuntime)
      /\ \A j \in DOMAIN to_broker' :
           /\ j + 1 \in DOMAIN to_broker
           /\ to_broker'[j] = to_broker[j + 1]
           /\ to_broker'[j].pkid # pkid
      /\ \A i \in DOMAIN to_runtime : to_runtime[i].pkid # pkid
      /\ pkid \notin redeliver
  BY <1>0, <1>1, TakenByBroker
<1>3. PubRecFits(pkid)
  <2>1. FitsBroker(Head(to_broker)) /\ Head(to_broker).type = "pubrec"
    BY <1>1, TakenByBroker DEF IncomingInv, Fitting
  <2> QED BY <1>0, <2>1 DEF FitsBroker
<1>4. pkid \in Unfinished /\ flow[pkid] \in Flow /\ FlowFits(pkid)
  BY <1>1, <1>3 DEF PubRecFits, Phase, Unfinished, TypeOK, IncomingInv, Flows
<1>5. /\ flow' \in [WirePkid -> Flow \cup {None}]
      /\ flow'[pkid] = [flow[pkid] EXCEPT !.phase = "release"]
      /\ flow'[pkid] \in Flow /\ flow'[pkid].phase = "release"
      /\ flow'[pkid].message = flow[pkid].message
      /\ \A other \in WirePkid \ {pkid} : flow'[other] = flow[other]
  BY <1>1, <1>2, <1>4 DEF TypeOK, Flow
<1>6. /\ pkid \in Unfinished' /\ MessageOf(pkid)' = MessageOf(pkid)
      /\ Phase(pkid, "release")' /\ ~Phase(pkid, "publish")'
  BY <1>2, <1>5, NoneAssumption DEF Unfinished, MessageOf, Phase
<1>7. /\ Unfinished' \ {pkid} = Unfinished \ {pkid}
      /\ \A other \in FromBroker : other.pkid # pkid /\ FitsRuntime(other) => FitsRuntime(other)'
      /\ \A other \in FromRuntime : other.pkid # pkid /\ FitsBroker(other) => FitsBroker(other)'
      /\ \A other \in Unfinished \ {pkid} : FlowFits(other)'
  BY <1>1, <1>2, <1>4, <1>5, <1>6, OtherFlowsBroker DEF FlowFits
<1>8. packet \in FromBroker /\ packet.pkid = pkid
  BY <1>0, <1>2 DEF Ack, FromBroker
<1>9. /\ to_runtime' \in Seq(FromBroker)
      /\ \A i \in DOMAIN to_runtime' :
           \/ i \in DOMAIN to_runtime /\ to_runtime'[i] = to_runtime[i]
           \/ i = Len(to_runtime) + 1 /\ i \notin DOMAIN to_runtime /\ to_runtime'[i] = packet
  BY <1>1, <1>8, PutToRuntime
<1>10. TypeOK'
  BY <1>1, <1>2, <1>5, <1>6, <1>7, <1>9 DEF TypeOK, losses
<1>11. Alone'
  <2>1. \A i, j \in DOMAIN to_runtime' : to_runtime'[i].pkid = to_runtime'[j].pkid => i = j
    BY <1>1, <1>2, <1>8, <1>9 DEF Alone
  <2>2. \A i, j \in DOMAIN to_broker' : to_broker'[i].pkid = to_broker'[j].pkid => i = j
    <3>1. \A i \in DOMAIN to_broker' : i \in Int
      BY <1>2
    <3> QED BY <1>1, <1>2, <3>1 DEF Alone
  <2>3. \A i \in DOMAIN to_runtime', j \in DOMAIN to_broker' :
          to_runtime'[i].pkid # to_broker'[j].pkid
    <3> SUFFICES ASSUME NEW i \in DOMAIN to_runtime', NEW j \in DOMAIN to_broker'
                 PROVE  to_runtime'[i].pkid # to_broker'[j].pkid
      OBVIOUS
    <3>1. j + 1 \in DOMAIN to_broker /\ to_broker'[j] = to_broker[j + 1] /\ to_broker'[j].pkid # pkid
      BY <1>2
    <3>2. CASE i \in DOMAIN to_runtime /\ to_runtime'[i] = to_runtime[i]
      BY <1>1, <3>1, <3>2 DEF Alone
    <3>3. CASE to_runtime'[i] = packet
      BY <1>8, <3>1, <3>3
    <3> QED BY <1>9, <3>2, <3>3
  <2>4. /\ \A i \in DOMAIN to_runtime' : to_runtime'[i].pkid \notin redeliver'
        /\ \A j \in DOMAIN to_broker' : to_broker'[j].pkid \notin redeliver'
    BY <1>1, <1>2, <1>8, <1>9 DEF Alone
  <2> QED BY <2>1, <2>2, <2>3, <2>4 DEF Alone
<1>12. /\ \A other : (Marked(other)' <=> Marked(other)) /\ (MarkKept(other)' <=> MarkKept(other))
       /\ \A message : (Got(message)' <=> Got(message)) /\ (GotUnlessCut(message)' <=> GotUnlessCut(message))
  BY <1>1 DEF Marked, MarkKept, Lost, losses, Got, GotUnlessCut
<1>13. Fitting'
  <2>1. FitsRuntime(packet)'
    BY <1>0, <1>3, <1>6, <1>12 DEF FitsRuntime, PubRelFits, PubRecFits, Ack
  <2>2. ASSUME NEW i \in DOMAIN to_runtime' PROVE FitsRuntime(to_runtime[i])'
    <3>1. PICK other \in FromBroker : other = to_runtime'[i]
      BY <1>9
    <3> QED BY <1>2, <1>7, <1>9, <2>1, <3>1 DEF IncomingInv, Fitting
  <2>3. ASSUME NEW j \in DOMAIN to_broker' PROVE FitsBroker(to_broker[j])'
    <3>1. PICK other \in FromRuntime : other = to_broker'[j]
      BY <1>2
    <3> QED BY <1>2, <1>7, <3>1 DEF IncomingInv, Fitting
  <2> QED BY <2>2, <2>3 DEF Fitting
<1>14. FlowFits(pkid)'
  <2>1. \A other \in Unfinished' : MessageOf(other)' = MessageOf(pkid)' => other = pkid
    BY <1>4, <1>5, <1>6, <1>7 DEF FlowFits, Unfinished, MessageOf
  <2> QED BY <1>1, <1>3, <1>4, <1>6, <1>12, <2>1 DEF FlowFits, PubRecFits
<1>15. Flows' /\ Marks'
  BY <1>6, <1>7, <1>12, <1>14 DEF IncomingInv, Flows, Marks
<1>16. Histories' /\ DeliveredOnce' /\ RefusedOnlyAfterLoss'
  BY <1>1, <1>12 DEF IncomingInv, Histories, DeliveredOnce, RefusedOnlyAfterLoss, losses
<1> QED BY <1>10, <1>11, <1>13, <1>15, <1>16 DEF IncomingInv

-----------------------------------------------------------------------------
\* At the start nothing is on its way.
LEMMA InitIncoming == Init => IncomingInv
<1> SUFFICES ASSUME Init PROVE IncomingInv
  OBVIOUS
<1>1. Unfinished = {} /\ \A pkid : ~Marked(pkid)
  BY DEF Init, Unfinished, Marked
<1>2. TypeOK
  BY <1>1, MaxReconnectsAssumption DEF Init, TypeOK
<1>3. Alone /\ Fitting /\ Flows /\ Marks /\ Histories
  BY <1>1 DEF Init, Alone, Fitting, Flows, Marks, Histories
<1>4. DeliveredOnce /\ RefusedOnlyAfterLoss
  BY NoneAssumption DEF Init, DeliveredOnce, RefusedOnlyAfterLoss, Message, TaskError
<1> QED BY <1>2, <1>3, <1>4 DEF IncomingInv

\* Every step preserves the invariant.
LEMMA NextIncoming == IncomingInv /\ [Next]_vars => IncomingInv'
<1> SUFFICES ASSUME IncomingInv, [Next]_vars PROVE IncomingInv'
  OBVIOUS
<1>1. CASE UNCHANGED vars
  <2>1. UNCHANGED <<clean_session, incoming_pub, error, to_runtime, to_broker, flow, redeliver,
                    sent, settled, delivered, timeouts, drops>>
    BY <1>1 DEF vars, broker, losses
  <2> QED BY <2>1
    DEF IncomingInv, TypeOK, Alone, Fitting, Flows, Marks, Histories, DeliveredOnce,
        RefusedOnlyAfterLoss, FitsRuntime, PublishFits, PubRelFits, FitsBroker, PubAckFits,
        PubRecFits, PubCompFits, FlowFits, Phase, MessageOf, Marked, MarkKept, Lost, Got,
        GotUnlessCut, Unfinished
<1>2. CASE Handle
  BY <1>2, HandleStep
<1>3. CASE Timeout \/ Replace
  BY <1>3, TimeoutStep, ReplaceStep
<1>4. CASE Broker
  <2>1. CASE PubAck \/ PubComp
    BY <2>1, FinishStep DEF PubAck, PubComp
  <2> QED BY <1>4, <2>1, DeliverStep, RedeliverStep, PubRecStep DEF Broker
<1> QED BY <1>1, <1>2, <1>3, <1>4 DEF Next

\* The invariant holds in every reachable state.
LEMMA IncomingInvariant == Spec => []IncomingInv
BY InitIncoming, NextIncoming, PTL DEF Spec

(***************************************************************************)
(* Types; handle_incoming_publish has no errors but those.                 *)
(***************************************************************************)
THEOREM IncomingTypeCorrect == Spec => []TypeOK
<1>1. IncomingInv => TypeOK
  BY DEF IncomingInv
<1> QED BY <1>1, IncomingInvariant, PTL

(***************************************************************************)
(* Clients get a QoS 2 message at most once, however often connections are *)
(* lost and publishes redelivered.                                         *)
(***************************************************************************)
THEOREM NotDeliveredTwice == Spec => []DeliveredOnce
<1>1. IncomingInv => DeliveredOnce
  BY DEF IncomingInv
<1> QED BY <1>1, IncomingInvariant, PTL

(***************************************************************************)
(* The runtime lets the broker go of a message only when clients have it,  *)
(* unless the fanout was cut off after the PUBREC.                         *)
(***************************************************************************)
THEOREM DeliveredBeforeSettled == Spec => []AcknowledgedAfterDelivery
<1>1. IncomingInv => AcknowledgedAfterDelivery
  BY DEF IncomingInv, AcknowledgedAfterDelivery, Histories, Flows, FlowFits, Phase, MessageOf,
         GotUnlessCut
<1> QED BY <1>1, IncomingInvariant, PTL

(***************************************************************************)
(* A PUBREL of a broker that keeps to the protocol ends the thread only if *)
(* a connection was replaced, or a timeout made a clean session forget.    *)
(***************************************************************************)
THEOREM RefusalNeedsLoss == Spec => []RefusedOnlyAfterLoss
<1>1. IncomingInv => RefusedOnlyAfterLoss
  BY DEF IncomingInv
<1> QED BY <1>1, IncomingInvariant, PTL
=============================================================================
