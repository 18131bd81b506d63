--------------------------- MODULE EndToEnd_proofs ---------------------------
(***************************************************************************)
(* The sending side and a broker that keeps to the protocol.  The proofs   *)
(* rest on one picture: as long as no connection that was alive is given   *)
(* up, each packet identifier has at most one packet on the way, and that  *)
(* packet fits the operation in the slot of its identifier.                *)
(***************************************************************************)
EXTENDS EndToEnd, RuntimeState_proofs

\* The packets of a sequence; no two of them with one identifier.
On(s) == {s[i] : i \in DOMAIN s}
Single(s) == \A i, j \in DOMAIN s : s[i].pkid = s[j].pkid => i = j

\* The places in a sequence where operation id is sent.
Copies(s, id) == {i \in DOMAIN s : s[i].packet # "pubrel" /\ s[i].id = id}

\* Reading the head of a sequence.
LEMMA OnTail ==
  ASSUME NEW S, NEW s \in Seq(S), s # <<>>
  PROVE  /\ Head(s) \in S /\ Head(s) \in On(s)
         /\ Tail(s) \in Seq(S)
         /\ On(s) = On(Tail(s)) \cup {Head(s)}
         /\ Single(s) => Single(Tail(s)) /\ \A packet \in On(Tail(s)) : packet.pkid # Head(s).pkid
<1>1. /\ Tail(s) \in Seq(S)
      /\ 1 \in DOMAIN s /\ Head(s) = s[1] /\ Head(s) \in S
      /\ \A i \in DOMAIN Tail(s) :
           i \in Int /\ i + 1 \in DOMAIN s /\ i + 1 # 1 /\ Tail(s)[i] = s[i + 1]
      /\ \A i \in DOMAIN s \ {1} : i - 1 \in DOMAIN Tail(s) /\ s[i] = Tail(s)[i - 1]
  OBVIOUS
<1>2. On(s) = On(Tail(s)) \cup {Head(s)}
  <2>1. \A i \in DOMAIN s : s[i] = Head(s) \/ s[i] \in On(Tail(s))
    BY <1>1 DEF On
  <2>2. \A i \in DOMAIN Tail(s) : Tail(s)[i] \in On(s)
    BY <1>1 DEF On
  <2>3. Head(s) \in On(s)
    BY <1>1 DEF On
  <2> QED BY <2>1, <2>2, <2>3 DEF On
<1>3. ASSUME Single(s) PROVE Single(Tail(s))
  <2> SUFFICES ASSUME NEW i \in DOMAIN Tail(s), NEW j \in DOMAIN Tail(s),
                      Tail(s)[i].pkid = Tail(s)[j].pkid
               PROVE  i = j
    BY DEF Single
  <2>1. s[i + 1].pkid = s[j + 1].pkid
    BY <1>1
  <2>2. i + 1 = j + 1
    BY <1>1, <1>3, <2>1 DEF Single
  <2> QED BY <1>1, <2>2
<1>4. ASSUME Single(s), NEW packet \in On(Tail(s)) PROVE packet.pkid # Head(s).pkid
  <2>1. PICK i \in DOMAIN Tail(s) : packet = Tail(s)[i]
    BY DEF On
  <2> QED BY <1>1, <1>4, <2>1 DEF Single
<1> QED BY <1>1, <1>2, <1>3, <1>4

\* Sending one more.
LEMMA OnAppend ==
  ASSUME NEW S, NEW s \in Seq(S), NEW x \in S
  PROVE  /\ Append(s, x) \in Seq(S)
         /\ On(Append(s, x)) = On(s) \cup {x}
         /\ Single(s) /\ (\A packet \in On(s) : packet.pkid # x.pkid) => Single(Append(s, x))
<1>1. /\ Append(s, x) \in Seq(S) /\ Len(s) \in Nat
      /\ DOMAIN s = 1 .. Len(s) /\ DOMAIN Append(s, x) = 1 .. Len(s) + 1
      /\ \A i \in 1 .. Len(s) : Append(s, x)[i] = s[i]
      /\ Append(s, x)[Len(s) + 1] = x
  OBVIOUS
<1>2. DOMAIN Append(s, x) = DOMAIN s \cup {Len(s) + 1}
  BY <1>1
<1>3. On(Append(s, x)) = On(s) \cup {x}
  BY <1>1, <1>2 DEF On
<1>4. ASSUME Single(s), \A packet \in On(s) : packet.pkid # x.pkid
      PROVE  Single(Append(s, x))
  <2>1. \A i \in DOMAIN s : s[i].pkid # x.pkid
    BY <1>4 DEF On
  <2> QED BY <1>1, <1>2, <1>4, <2>1 DEF Single
<1> QED BY <1>1, <1>3, <1>4

\* How often an operation is on its way.
LEMMA CopiesType ==
  ASSUME NEW S, NEW s \in Seq(S), NEW id
  PROVE  IsFiniteSet(Copies(s, id)) /\ Cardinality(Copies(s, id)) \in Nat
<1>1. Len(s) \in Nat /\ DOMAIN s = 1 .. Len(s)
  OBVIOUS
<1>2. IsFiniteSet(1 .. Len(s)) /\ Copies(s, id) \subseteq 1 .. Len(s)
  BY <1>1, FS_Interval DEF Copies
<1> QED BY <1>2, FS_Subset, FS_CardinalityType

\* It is once more after a packet that sends it, and as often after another.
LEMMA CopiesAppend ==
  ASSUME NEW S, NEW s \in Seq(S), NEW x \in S, NEW id
  PROVE  Cardinality(Copies(Append(s, x), id)) =
           Cardinality(Copies(s, id)) + (IF x.packet # "pubrel" /\ x.id = id THEN 1 ELSE 0)
<1>1. /\ Len(s) \in Nat
      /\ DOMAIN s = 1 .. Len(s) /\ DOMAIN Append(s, x) = 1 .. Len(s) + 1
      /\ \A i \in 1 .. Len(s) : Append(s, x)[i] = s[i]
      /\ Append(s, x)[Len(s) + 1] = x
  OBVIOUS
<1>2. DOMAIN Append(s, x) = DOMAIN s \cup {Len(s) + 1} /\ Len(s) + 1 \notin DOMAIN s
  BY <1>1
<1>3. CASE x.packet # "pubrel" /\ x.id = id
  <2>1. Copies(Append(s, x), id) = Copies(s, id) \cup {Len(s) + 1}
    BY <1>1, <1>2, <1>3 DEF Copies
  <2>2. Len(s) + 1 \notin Copies(s, id)
    BY <1>2 DEF Copies
  <2> QED BY <1>3, <2>1, <2>2, CopiesType, FS_AddElement
<1>4. CASE ~(x.packet # "pubrel" /\ x.id = id)
  <2>1. Copies(Append(s, x), id) = Copies(s, id)
    BY <1>1, <1>2, <1>4 DEF Copies
  <2> QED BY <1>4, <2>1, CopiesType
<1> QED BY <1>3, <1>4

\* Reading takes one away, if it was at the head.
LEMMA CopiesTail ==
  ASSUME NEW S, NEW s \in Seq(S), s # <<>>, NEW id
  PROVE  Cardinality(Copies(s, id)) =
           Cardinality(Copies(Tail(s), id))
             + (IF Head(s).packet # "pubrel" /\ Head(s).id = id THEN 1 ELSE 0)
<1> DEFINE later == Copies(s, id) \ {1}
           shift == [i \in Copies(Tail(s), id) |-> i + 1]
<1>1. /\ 1 \in DOMAIN s /\ Head(s) = s[1]
      /\ \A i \in DOMAIN Tail(s) :
           i \in Int /\ i + 1 \in DOMAIN s /\ i + 1 # 1 /\ Tail(s)[i] = s[i + 1]
      /\ \A i \in DOMAIN s \ {1} : i \in Int /\ i - 1 \in DOMAIN Tail(s) /\ s[i] = Tail(s)[i - 1]
  OBVIOUS
<1>2. shift \in Bijection(Copies(Tail(s), id), later)
  <2>1. \A i \in Copies(Tail(s), id) : i \in Int /\ i + 1 \in later
    BY <1>1 DEF Copies
  <2>2. \A i \in later : i - 1 \in Copies(Tail(s), id) /\ (i - 1) + 1 = i
    BY <1>1 DEF Copies
  <2> HIDE DEF later
  <2>3. shift \in [Copies(Tail(s), id) -> later]
    BY <2>1
  <2>4. \A i, j \in Copies(Tail(s), id) : shift[i] = shift[j] => i = j
    BY <2>1
  <2>5. \A i \in later : \E j \in Copies(Tail(s), id) : shift[j] = i
    BY <2>2
  <2> HIDE DEF shift
  <2> QED BY <2>3, <2>4, <2>5 DEF Bijection, Injection, Surjection, IsInjective
<1>3. /\ IsFiniteSet(Copies(Tail(s), id)) /\ Cardinality(Copies(Tail(s), id)) \in Nat
      /\ IsFiniteSet(Copies(s, id)) /\ Cardinality(Copies(s, id)) \in Nat
  <2>1. Tail(s) \in Seq(S)
    OBVIOUS
  <2> QED BY <2>1, CopiesType
<1>4. Cardinality(later) = Cardinality(Copies(Tail(s), id))
  <2> HIDE DEF later, shift
  <2>1. ExistsBijection(Copies(Tail(s), id), later)
    BY <1>2 DEF ExistsBijection
  <2> QED BY <1>3, <2>1, FS_Bijection
<1>5. CASE Head(s).packet # "pubrel" /\ Head(s).id = id
  <2>1. 1 \in Copies(s, id)
    BY <1>1, <1>5 DEF Copies
  <2>2. Cardinality(later) = Cardinality(Copies(s, id)) - 1
    BY <1>3, <2>1, FS_RemoveElement
  <2> HIDE DEF later
  <2> QED BY <1>3, <1>4, <1>5, <2>2
<1>6. CASE ~(Head(s).packet # "pubrel" /\ Head(s).id = id)
  <2>1. later = Copies(s, id)
    BY <1>1, <1>6 DEF Copies
  <2> HIDE DEF later
  <2> QED BY <1>3, <1>4, <1>6, <2>1
<1> QED BY <1>5, <1>6

-----------------------------------------------------------------------------
(***************************************************************************)
(* The inductive invariant.                                                *)
(***************************************************************************)
\* An operation has the kind its client asked for, wherever it is.
Labelled(op) == op.kind = KindOf(op.id)

OpsLabelled ==
  /\ \A i \in Occupied : Labelled(outgoing[i])
  /\ collision # None => Labelled(collision)
  /\ \A k \in DOMAIN pending : Labelled(pending[k])
  /\ \A k \in DOMAIN replay : Labelled(replay[k])

PacketsLabelled ==
  \A packet \in On(to_broker) :
    packet.pkid # 0 /\ (packet.packet # "pubrel" => packet.packet = KindOf(packet.id))

KindsKept == OpsLabelled /\ PacketsLabelled

\* One packet at most on the way for each identifier.
Alone ==
  /\ Single(to_broker)
  /\ Single(to_runtime)
  /\ \A packet \in On(to_broker), answer \in On(to_runtime) : packet.pkid # answer.pkid

\* The broker took the message, or may have had another under its identifier.
Known(id) == taken[id] > 0 \/ (id \in ExactlyOnce /\ drops > 0 /\ ~clean_session)

Confirmed(pkid) == outgoing[pkid].kind = "qos2" /\ Known(outgoing[pkid].id)

FitsBroker(packet) ==
  /\ outgoing[packet.pkid] # None
  /\ IF packet.packet = "pubrel"
       THEN Confirmed(packet.pkid) /\ outgoing_rel[packet.pkid]
       ELSE packet.packet = outgoing[packet.pkid].kind /\ packet.id = outgoing[packet.pkid].id

FitsRuntime(answer) ==
  /\ outgoing[answer.pkid] # None
  /\ answer.type = "puback" =>
       outgoing[answer.pkid].kind = "qos1" /\ Known(outgoing[answer.pkid].id)
  /\ answer.type = "pubrec" => Confirmed(answer.pkid)
  /\ answer.type = "pubcomp" => Confirmed(answer.pkid) /\ outgoing_rel[answer.pkid]
  /\ answer.type = "suback" => outgoing[answer.pkid].kind = "subscribe"

Fitting ==
  /\ \A packet \in On(to_broker) : FitsBroker(packet)
  /\ \A answer \in On(to_runtime) : FitsRuntime(answer)

\* What a broker waits for in a session that it has from the start is on its way.
Awaited(pkid) == Answer("pubrec", pkid) \in On(to_runtime) \/ SendPubRel(pkid) \in On(to_broker)

Undisturbed == drops = 0 \/ clean_session

Waiting == Undisturbed => \A pkid \in unreleased : Awaited(pkid)

Marks ==
  Undisturbed => \A pkid \in Slot : outgoing_rel[pkid] => outgoing[pkid] # None /\ Confirmed(pkid)

\* What holds until a connection that was alive is given up.
Paired ==
  /\ error = None
  /\ Alone
  /\ Fitting
  /\ Waiting
  /\ Marks
  /\ \A id \in Reported : Known(id)

\* How often a message was taken or may still be.
Sendings(id) == taken[id] + Cardinality(Copies(to_broker, id))

Unsent(id) == id \notin submitted \/ id \in CollisionIds \cup PendingIds \cup ReplayIds

Counted ==
  \A id \in Message :
    /\ Sendings(id) <= 1 + timeouts + drops
    /\ Unsent(id) => Sendings(id) <= timeouts + drops

EndToEndInv ==
  /\ OwnerInv
  /\ EndToEndTypeOK
  /\ KindsKept
  /\ Counted
  /\ timeouts = 0 => Paired

-----------------------------------------------------------------------------
(***************************************************************************)
(* Every step of the composition is a step of RuntimeState, or leaves its  *)
(* variables alone.                                                        *)
(***************************************************************************)
LEMMA HeadAnswer ==
  ASSUME EndToEndTypeOK, to_runtime # <<>>
  PROVE  Head(to_runtime) \in FromBroker /\ Head(to_runtime).pkid \in Slot
<1>1. to_runtime \in Seq(FromBroker)
  BY DEF EndToEndTypeOK
<1>2. Head(to_runtime) \in FromBroker
  BY <1>1
<1> QED BY <1>2 DEF FromBroker

\* What the broker sends is one of the acknowledgements that RuntimeState allows.
LEMMA RuntimeSteps == EndToEndTypeOK /\ [EndToEndNext]_allVars => [Next]_vars
<1> SUFFICES ASSUME EndToEndTypeOK, [EndToEndNext]_allVars PROVE [Next]_vars
  OBVIOUS
<1>1. CASE ClientCommand
  <2>1. PICK id \in OpId : Command(id, KindOf(id))
    BY <1>1 DEF ClientCommand
  <2> QED BY <2>1, KindOfAssumption DEF Next
<1>2. CASE Receive
  <2>1. PICK pkid \in Slot : Dispatch(Head(to_runtime)) /\ pkid = Head(to_runtime).pkid
    BY <1>2, HeadAnswer DEF Receive
  <2>2. Incoming(pkid) /\ pkid \in WirePkid
    BY <2>1, MaxInflightAssumption DEF Dispatch, Incoming, Slot, WirePkid
  <2> QED BY <2>2 DEF Next
<1>3. CASE Resend
  BY <1>3 DEF Resend, Next
<1>4. CASE Restore
  BY <1>4 DEF Restore, Next
<1>5. CASE Timeout \/ Replace
  <2>1. ConnectionLost(clean_session) /\ clean_session \in BOOLEAN
    BY <1>5 DEF Timeout, Replace, EndToEndTypeOK
  <2> QED BY <2>1 DEF Next
<1>6. CASE Broker
  BY <1>6 DEF Broker, TakeQos1, TakeQos2, Release, Grant, Reads
<1>7. CASE UNCHANGED allVars
  BY <1>7 DEF allVars
<1> QED BY <1>1, <1>2, <1>3, <1>4, <1>5, <1>6, <1>7 DEF EndToEndNext, Runtime

-----------------------------------------------------------------------------
(***************************************************************************)
(* What handle_actions sends.                                              *)
(***************************************************************************)
SentPacket == {action \in DriverAction : action.do = "Send"}

\* Nothing is sent for a step that pushes no packet.
LEMMA SentNothing ==
  ASSUME to_broker \in Seq(SentPacket), Transmit,
         actions' = <<>> \/ \E action : actions' = <<action>> /\ action.do # "Send"
  PROVE  UNCHANGED to_broker
<1>1. Sent(1) = <<>> /\ Sent(2) = <<>>
  BY DEF Sent, IsSend
<1> QED BY <1>1 DEF Transmit

\* One packet, alone or after a completion.
LEMMA SentOne ==
  ASSUME to_broker \in Seq(SentPacket), Transmit, NEW packet \in SentPacket,
         \/ actions' = <<packet>>
         \/ \E action : actions' = <<action, packet>> /\ action.do # "Send"
  PROVE  to_broker' = Append(to_broker, packet)
<1>1. packet.do = "Send"
  BY DEF SentPacket
<1>2. CASE actions' = <<packet>>
  <2>1. Sent(1) = <<packet>> /\ Sent(2) = <<>>
    BY <1>1, <1>2 DEF Sent, IsSend
  <2> QED BY <2>1 DEF Transmit
<1>3. CASE \E action : actions' = <<action, packet>> /\ action.do # "Send"
  <2>1. Sent(1) = <<>> /\ Sent(2) = <<packet>>
    BY <1>1, <1>3 DEF Sent, IsSend
  <2> QED BY <2>1 DEF Transmit
<1> QED BY <1>2, <1>3

\* The packet of an operation.
LEMMA OpPacket ==
  ASSUME NEW op \in Operation, NEW dup \in BOOLEAN
  PROVE  /\ Send(op, dup) \in SentPacket
         /\ Send(op, dup).packet = op.kind /\ Send(op, dup).packet # "pubrel"
         /\ Send(op, dup).id = op.id /\ Send(op, dup).pkid = op.pkid
BY SendType, KindAssumption DEF Send, SentPacket, Operation, AllKinds

\* A PUBREL.
LEMMA PubRelPacket ==
  ASSUME NEW pkid \in Slot
  PROVE  /\ SendPubRel(pkid) \in SentPacket
         /\ SendPubRel(pkid).packet = "pubrel" /\ SendPubRel(pkid).pkid = pkid
BY SendPubRelType DEF SendPubRel, SentPacket

\* The operation has its slot, and its packet is on the way.
PutIn(op) ==
  /\ op.pkid \in Slot \ {0}
  /\ outgoing' = [outgoing EXCEPT ![op.pkid] = op]
  /\ \E dup \in BOOLEAN : to_broker' = Append(to_broker, Send(op, dup))

\* Tracking an operation puts it in an empty slot or sends nothing.
LEMMA TrackPuts ==
  ASSUME to_broker \in Seq(SentPacket), NEW op \in Operation, op.pkid # 0,
         TrackAndSend(op), Transmit
  PROVE  \/ Accepts(op) /\ outgoing[op.pkid] = None /\ PutIn(op)
         \/ UNCHANGED <<outgoing, to_broker>>
<1>1. CASE Accepts(op)
  <2>1. /\ op.pkid \in Slot /\ outgoing[op.pkid] = None
        /\ outgoing' = [outgoing EXCEPT ![op.pkid] = op]
        /\ actions' = <<Send(op, op.dup)>>
        /\ op.dup \in BOOLEAN
    BY <1>1 DEF TrackAndSend, Track, TryInsert, Accepts, SendOp, Operation
  <2>2. to_broker' = Append(to_broker, Send(op, op.dup))
    BY <2>1, OpPacket, SentOne
  <2> QED BY <1>1, <2>1, <2>2 DEF PutIn
<1>2. CASE ~Accepts(op)
  <2>1. UNCHANGED outgoing /\ actions' = <<>>
    BY <1>2 DEF TrackAndSend, Track, TryInsert, SendNothing
  <2> QED BY <2>1, SentNothing
<1> QED BY <1>1, <1>2

\* A freed slot stays empty, or the collision that waited for it moves in.
LEMMA ReleasePuts ==
  ASSUME StoreInv, to_broker \in Seq(SentPacket), NEW pkid, NEW ack,
         ReleaseAndPromote(pkid, ack), Transmit
  PROVE  \/ outgoing' = [outgoing EXCEPT ![pkid] = None] /\ UNCHANGED to_broker
         \/ Promotes(pkid) /\ collision \in Operation /\ collision.pkid = pkid /\ PutIn(collision)
<1> DEFINE report == CompleteFor(outgoing[pkid], ack)
<1>1. report.do # "Send"
  BY DEF CompleteFor
<1> HIDE DEF report
<1>2. CASE Promotes(pkid)
  <2> DEFINE dup == collision.dup \/ IsPublish(collision)
  <2>1. /\ collision \in Operation /\ collision.pkid = pkid /\ collision.pkid # 0
        /\ dup \in BOOLEAN
    BY <1>2 DEF Promotes, Waits, StoreInv, TypeOK, StoreConsistent, Operation, IsPublish
  <2> HIDE DEF dup
  <2>2. /\ outgoing' = [outgoing EXCEPT ![pkid] = collision]
        /\ actions' = <<report, Send(collision, dup)>>
    BY <1>2 DEF ReleaseAndPromote, report, dup
  <2>3. to_broker' = Append(to_broker, Send(collision, dup))
    BY <1>1, <2>1, <2>2, OpPacket, SentOne
  <2>4. collision.pkid \in Slot
    BY <2>1 DEF Operation
  <2> QED BY <1>2, <2>1, <2>2, <2>3, <2>4 DEF PutIn
<1>3. CASE ~Promotes(pkid)
  <2>1. outgoing' = [outgoing EXCEPT ![pkid] = None] /\ actions' = <<report>>
    BY <1>3 DEF ReleaseAndPromote, report
  <2> QED BY <1>1, <2>1, SentNothing
<1> QED BY <1>2, <1>3

-----------------------------------------------------------------------------
(***************************************************************************)
(* Types.                                                                  *)
(***************************************************************************)
LEMMA PutInType ==
  ASSUME to_broker \in Seq(SentPacket), NEW op \in Operation, PutIn(op)
  PROVE  to_broker' \in Seq(SentPacket)
BY OpPacket DEF PutIn

\* What the pool holds waits under an identifier other than 0.
LEMMA WaitingPkids ==
  ASSUME StoreInv, KindsKept
  PROVE  /\ collision # None => collision \in Operation /\ collision.pkid # 0 /\ Labelled(collision)
         /\ replay # <<>> => /\ Reinjected \in Operation /\ Reinjected.pkid # 0
                            /\ Reinjected.kind # "qos0" /\ Labelled(Reinjected)
<1>1. collision # None => collision \in Operation /\ collision.pkid # 0 /\ Labelled(collision)
  BY DEF StoreInv, TypeOK, StoreConsistent, KindsKept, OpsLabelled
<1>2. ASSUME replay # <<>>
      PROVE  /\ Reinjected \in Operation /\ Reinjected.pkid # 0
             /\ Reinjected.kind # "qos0" /\ Labelled(Reinjected)
  <2>1. Identified(Head(replay)) /\ Labelled(Head(replay))
    BY <1>2 DEF StoreInv, TypeOK, StoreConsistent, KindsKept, OpsLabelled
  <2>2. /\ Reinjected \in Operation
        /\ Reinjected.id = Head(replay).id /\ Reinjected.kind = Head(replay).kind
        /\ Reinjected.pkid = Head(replay).pkid
    BY <1>2, ReinjectedType DEF StoreInv
  <2> QED BY <2>1, <2>2 DEF Identified, Labelled, KindOf
<1> QED BY <1>1, <1>2

\* A command of a client is offline, or tracked under a new identifier.
LEMMA CommandOp ==
  ASSUME StoreInv, NEW id \in OpId, Command(id, KindOf(id))
  PROVE  \E op \in Operation :
           /\ op.id = id /\ Labelled(op) /\ op.pkid # 0
           /\ \/ TrackAndSend(op)
              \/ /\ pending' = Append(pending, op) /\ actions' = <<>>
                 /\ UNCHANGED <<outgoing, collision, finished>>
           /\ id \notin submitted /\ submitted' = submitted \cup {id}
           /\ UNCHANGED <<outgoing_rel, replay, error, finished>>
<1> DEFINE op == NewOp(id, KindOf(id))
<1>1. KindOf(id) \in Kind /\ KindOf(id) # "qos0"
  BY KindOfAssumption DEF KindOf
<1>2. op \in Operation /\ op.id = id /\ Labelled(op) /\ op.pkid # 0
  BY <1>1, NewOpType DEF StoreInv, Labelled
<1>3. CASE CommandOffline(id, KindOf(id))
  BY <1>2, <1>3 DEF CommandOffline, Submit, SendNothing
<1>4. CASE CommandTracked(id, KindOf(id))
  <2>1. UNCHANGED finished
    BY <1>4 DEF CommandTracked, TrackAndSend
  <2> QED BY <1>2, <1>4, <2>1 DEF CommandTracked, Submit
<1> QED BY <1>1, <1>3, <1>4 DEF Command, CommandUntracked

\* An acknowledgement that is acted on.
Acknowledges(pkid) ==
  \/ \E ack \in {"PubAck", "PubComp"} : ReleaseAndPromote(pkid, ack) /\ UNCHANGED pending
  \/ /\ outgoing' = [outgoing EXCEPT ![pkid] = None]
     /\ UNCHANGED <<collision, pending>>
     /\ actions' = <<>> \/ \E action : actions' = <<action>> /\ action.do # "Send"

\* What the runtime makes of a packet.
LEMMA DispatchEffect ==
  ASSUME StoreInv, NEW answer \in FromBroker, Dispatch(answer)
  PROVE  /\ UNCHANGED <<replay, submitted>>
         /\ \/ Acknowledges(answer.pkid)
            \/ /\ answer.pkid \in Slot \ {0} /\ actions' = <<SendPubRel(answer.pkid)>>
               /\ UNCHANGED <<outgoing, collision, pending>>
            \/ actions' = <<>> /\ UNCHANGED <<outgoing, collision, pending>>
<1>1. PICK pkid \in Slot : pkid = answer.pkid
  BY DEF FromBroker
<1>2. CASE PubAck(pkid) \/ PubComp(pkid)
  BY <1>1, <1>2 DEF PubAck, PubComp, Acknowledges
<1>3. CASE PubRec(pkid)
  BY <1>1, <1>3 DEF PubRec, Held, history
<1>4. CASE SubAck(pkid)
  <2>1. /\ outgoing' = [outgoing EXCEPT ![pkid] = None]
        /\ UNCHANGED <<collision, pending, replay, submitted>>
    BY <1>4 DEF SubAck, FilterAck
  <2>2. actions' = <<>> \/ actions' = <<CompleteFor(outgoing[pkid], "SubAck")>>
    BY <1>4 DEF SubAck, FilterAck, Fail
  <2>3. CompleteFor(outgoing[pkid], "SubAck").do # "Send"
    BY DEF CompleteFor
  <2> QED BY <1>1, <2>1, <2>2, <2>3 DEF Acknowledges
<1>5. CASE Refusal(pkid)
  <2>1. actions' = <<>> /\ UNCHANGED <<store, replay, history>>
    BY <1>5, RefusalEffect
  <2> QED BY <2>1 DEF store, history
<1> QED BY <1>1, <1>2, <1>3, <1>4, <1>5 DEF Dispatch, Refusal

-----------------------------------------------------------------------------
(***************************************************************************)
(* What any step of the runtime sends.                                     *)
(***************************************************************************)
Handles == ClientCommand \/ Receive \/ Resend \/ Restore

\* An operation is sent that the broker was not sent on this connection, or a PUBREL.
LEMMA HandlesSends ==
  ASSUME EndToEndInv, Handles
  PROVE  \/ UNCHANGED to_broker
         \/ \E op \in Operation : PutIn(op) /\ Labelled(op) /\ Unsent(op.id)
         \/ \E pkid \in Slot \ {0} : to_broker' = Append(to_broker, SendPubRel(pkid))
<1>1. StoreInv /\ KindsKept /\ to_broker \in Seq(SentPacket)
  BY DEF EndToEndInv, OwnerInv, EndToEndTypeOK, SentPacket
<1>2. CASE ClientCommand
  <2>1. PICK id \in OpId : Command(id, KindOf(id)) /\ Transmit
    BY <1>2 DEF ClientCommand
  <2>2. PICK op \in Operation :
          /\ op.id = id /\ Labelled(op) /\ op.pkid # 0 /\ id \notin submitted
          /\ TrackAndSend(op) \/ actions' = <<>>
    BY <1>1, <2>1, CommandOp
  <2>3. CASE TrackAndSend(op)
    BY <1>1, <2>1, <2>2, <2>3, TrackPuts DEF Unsent
  <2>4. CASE actions' = <<>>
    BY <1>1, <2>1, <2>4, SentNothing
  <2> QED BY <2>2, <2>3, <2>4
<1>3. CASE Receive
  <2>1. PICK answer \in FromBroker : Dispatch(answer) /\ Transmit
    BY <1>3, HeadAnswer DEF Receive, EndToEndInv
  <2>2. CASE Acknowledges(answer.pkid)
    <3>1. ASSUME NEW ack, ReleaseAndPromote(answer.pkid, ack)
          PROVE  \/ UNCHANGED to_broker
                 \/ PutIn(collision) /\ collision \in Operation /\ collision # None
      BY <1>1, <2>1, <3>1, ReleasePuts DEF Promotes, Waits
    <3>2. collision # None => Labelled(collision) /\ Unsent(collision.id)
      BY <1>1, WaitingPkids DEF Unsent, CollisionIds
    <3>3. CASE actions' = <<>> \/ \E action : actions' = <<action>> /\ action.do # "Send"
      BY <1>1, <2>1, <3>3, SentNothing
    <3> QED BY <2>2, <3>1, <3>2, <3>3 DEF Acknowledges
  <2>3. CASE answer.pkid \in Slot \ {0} /\ actions' = <<SendPubRel(answer.pkid)>>
    <3>1. SendPubRel(answer.pkid) \in SentPacket
      BY <2>3, PubRelPacket
    <3> QED BY <1>1, <2>1, <2>3, <3>1, SentOne
  <2>4. CASE actions' = <<>>
    BY <1>1, <2>1, <2>4, SentNothing
  <2> QED BY <1>1, <2>1, <2>2, <2>3, <2>4, DispatchEffect
<1>4. CASE Resend
  <2>1. replay # <<>> /\ Transmit
    BY <1>4 DEF Resend, Replay
  <2>2. /\ Reinjected \in Operation /\ Reinjected.pkid # 0
        /\ Reinjected.kind # "qos0" /\ Labelled(Reinjected)
    BY <1>1, <2>1, WaitingPkids
  <2>3. TrackAndSend(Reinjected)
    BY <1>4, <2>2 DEF Resend, Replay
  <2>4. Unsent(Reinjected.id)
    <3>1. Reinjected.id = Head(replay).id
      BY <1>1, <2>1, ReinjectedType DEF StoreInv
    <3>2. 1 \in DOMAIN replay /\ Head(replay) = replay[1]
      BY <1>1, <2>1 DEF StoreInv, TypeOK
    <3> QED BY <3>1, <3>2 DEF Unsent, ReplayIds
  <2> QED BY <1>1, <2>1, <2>2, <2>3, <2>4, TrackPuts
<1>5. CASE Restore
  BY <1>5 DEF Restore, network
<1> QED BY <1>2, <1>3, <1>4, <1>5 DEF Handles

\* No step of the runtime changes what the broker did.
LEMMA HandlesKeeps ==
  ASSUME EndToEndTypeOK, Handles
  PROVE  /\ UNCHANGED <<clean_session, unreleased, taken, timeouts, drops>>
         /\ to_runtime' \in Seq(FromBroker)
<1>1. to_runtime \in Seq(FromBroker)
  BY DEF EndToEndTypeOK
<1>2. UNCHANGED to_runtime \/ (to_runtime # <<>> /\ to_runtime' = Tail(to_runtime))
  BY DEF Handles, ClientCommand, Receive, Resend, Restore, network
<1>3. UNCHANGED <<clean_session, unreleased, taken, timeouts, drops>>
  BY DEF Handles, ClientCommand, Receive, Resend, Restore, broker, losses
<1> QED BY <1>1, <1>2, <1>3

\* A step of the runtime keeps the types and the kinds of what is on the way.
LEMMA HandlesTypes ==
  ASSUME EndToEndInv, Handles
  PROVE  EndToEndTypeOK' /\ PacketsLabelled'
<1>1. to_broker \in Seq(SentPacket) /\ EndToEndTypeOK /\ PacketsLabelled
  BY DEF EndToEndInv, EndToEndTypeOK, SentPacket, KindsKept
<1>2. CASE UNCHANGED to_broker
  BY <1>1, <1>2, HandlesKeeps DEF EndToEndTypeOK, PacketsLabelled
<1>3. ASSUME NEW packet \in SentPacket, to_broker' = Append(to_broker, packet), packet.pkid # 0,
             packet.packet # "pubrel" => packet.packet = KindOf(packet.id)
      PROVE  EndToEndTypeOK' /\ PacketsLabelled'
  <2>1. to_broker' \in Seq(SentPacket) /\ On(to_broker') = On(to_broker) \cup {packet}
    BY <1>1, <1>3, OnAppend
  <2>2. EndToEndTypeOK'
    BY <1>1, <2>1, HandlesKeeps DEF EndToEndTypeOK, SentPacket
  <2> QED BY <1>1, <1>3, <2>1, <2>2 DEF PacketsLabelled
<1>4. ASSUME NEW op \in Operation, PutIn(op), Labelled(op)
      PROVE  EndToEndTypeOK' /\ PacketsLabelled'
  <2>1. PICK dup \in BOOLEAN : to_broker' = Append(to_broker, Send(op, dup)) /\ op.pkid # 0
    BY <1>4 DEF PutIn
  <2> QED BY <1>3, <1>4, <2>1, OpPacket DEF Labelled
<1>5. ASSUME NEW pkid \in Slot \ {0}, to_broker' = Append(to_broker, SendPubRel(pkid))
      PROVE  EndToEndTypeOK' /\ PacketsLabelled'
  <2>1. /\ SendPubRel(pkid) \in SentPacket
        /\ SendPubRel(pkid).packet = "pubrel" /\ SendPubRel(pkid).pkid = pkid
    BY PubRelPacket
  <2> QED BY <1>3, <1>5, <2>1
<1> QED BY <1>2, <1>4, <1>5, HandlesSends

-----------------------------------------------------------------------------
(***************************************************************************)
(* Kinds: an operation is moved, never changed into another.               *)
(***************************************************************************)
LEMMA TrackLabelled ==
  ASSUME TypeOK, OpsLabelled, NEW op \in Operation, Labelled(op), TrackAndSend(op)
  PROVE  /\ \A i \in Occupied' : Labelled(outgoing[i])'
         /\ collision' # None => Labelled(collision)'
         /\ \A k \in DOMAIN pending' : Labelled(pending[k])'
<1>1. \A i \in Occupied' : outgoing'[i] = op \/ (i \in Occupied /\ outgoing'[i] = outgoing[i])
  BY DEF TrackAndSend, Track, TryInsert, Accepts, Occupied, TypeOK
<1>2. collision' = op \/ collision' = collision
  BY DEF TrackAndSend, Track, TryInsert
<1>3. \A k \in DOMAIN pending' :
        pending'[k] = op \/ (k \in DOMAIN pending /\ pending'[k] = pending[k])
  BY DEF TrackAndSend, Track, TypeOK
<1> QED BY <1>1, <1>2, <1>3 DEF OpsLabelled, Labelled

\* The slots and the collision after an acknowledgement.
LEMMA AcknowledgesLabelled ==
  ASSUME TypeOK, OpsLabelled, NEW pkid \in Slot, Acknowledges(pkid), UNCHANGED replay
  PROVE  OpsLabelled'
<1>1. ASSUME NEW ack, ReleaseAndPromote(pkid, ack), UNCHANGED pending
      PROVE  OpsLabelled'
  <2>1. \A i \in Occupied' :
          \/ collision # None /\ outgoing'[i] = collision
          \/ i \in Occupied /\ outgoing'[i] = outgoing[i]
    BY <1>1 DEF ReleaseAndPromote, Promotes, Waits, Occupied, TypeOK
  <2>2. collision' = None \/ collision' = collision
    BY <1>1 DEF ReleaseAndPromote, CollisionAfter
  <2> QED BY <1>1, <2>1, <2>2 DEF OpsLabelled, Labelled
<1>2. ASSUME outgoing' = [outgoing EXCEPT ![pkid] = None], UNCHANGED <<collision, pending>>
      PROVE  OpsLabelled'
  <2>1. \A i \in Occupied' : i \in Occupied /\ outgoing'[i] = outgoing[i]
    BY <1>2 DEF Occupied, TypeOK
  <2> QED BY <1>2, <2>1 DEF OpsLabelled, Labelled
<1> QED BY <1>1, <1>2 DEF Acknowledges

\* A step of the runtime keeps the kinds of the operations it has.
LEMMA HandlesLabelled ==
  ASSUME EndToEndInv, Handles
  PROVE  OpsLabelled'
<1>1. StoreInv /\ TypeOK /\ KindsKept /\ OpsLabelled /\ EndToEndTypeOK
  BY DEF EndToEndInv, OwnerInv, StoreInv, KindsKept
<1>2. CASE ClientCommand
  <2>1. PICK id \in OpId : Command(id, KindOf(id))
    BY <1>2 DEF ClientCommand
  <2>2. PICK op \in Operation :
          /\ Labelled(op)
          /\ \/ TrackAndSend(op)
             \/ pending' = Append(pending, op) /\ UNCHANGED <<outgoing, collision>>
          /\ UNCHANGED replay
    BY <1>1, <2>1, CommandOp
  <2>3. CASE TrackAndSend(op)
    BY <1>1, <2>2, <2>3, TrackLabelled DEF OpsLabelled
  <2>4. CASE pending' = Append(pending, op) /\ UNCHANGED <<outgoing, collision>>
    <3>1. \A k \in DOMAIN pending' :
            pending'[k] = op \/ (k \in DOMAIN pending /\ pending'[k] = pending[k])
      BY <1>1, <2>4 DEF TypeOK
    <3> QED BY <1>1, <2>2, <2>4, <3>1 DEF OpsLabelled, Labelled, Occupied
  <2> QED BY <2>2, <2>3, <2>4
<1>3. CASE Receive
  <2>1. PICK answer \in FromBroker : Dispatch(answer)
    BY <1>1, <1>3, HeadAnswer DEF Receive
  <2>2. answer.pkid \in Slot
    BY DEF FromBroker
  <2>3. CASE Acknowledges(answer.pkid)
    BY <1>1, <2>1, <2>2, <2>3, DispatchEffect, AcknowledgesLabelled
  <2>4. CASE UNCHANGED <<outgoing, collision, pending, replay>>
    BY <1>1, <2>4 DEF OpsLabelled, Labelled, Occupied
  <2> QED BY <1>1, <2>1, <2>3, <2>4, DispatchEffect
<1>4. CASE Resend
  <2>1. /\ Reinjected \in Operation /\ Reinjected.kind # "qos0" /\ Labelled(Reinjected)
        /\ replay # <<>> /\ replay' = Tail(replay)
    BY <1>1, <1>4, WaitingPkids DEF Resend, Replay
  <2>2. TrackAndSend(Reinjected)
    BY <1>4, <2>1 DEF Resend, Replay
  <2>3. \A k \in DOMAIN replay' : k + 1 \in DOMAIN replay /\ replay'[k] = replay[k + 1]
    BY <1>1, <2>1 DEF TypeOK
  <2>4. \A k \in DOMAIN replay' : Labelled(replay[k])'
    BY <1>1, <2>3 DEF OpsLabelled, Labelled
  <2> QED BY <1>1, <2>1, <2>2, <2>4, TrackLabelled DEF OpsLabelled
<1>5. CASE Restore
  <2>1. replay' = pending /\ pending' = <<>> /\ UNCHANGED <<outgoing, collision>>
    BY <1>5 DEF Restore, ConnectionRestored
  <2> QED BY <1>1, <2>1 DEF OpsLabelled, Labelled, Occupied
<1> QED BY <1>2, <1>3, <1>4, <1>5 DEF Handles

\* A lost connection moves operations into pending and changes none of them.
LEMMA LostLabelled ==
  ASSUME StoreInv, OpsLabelled, NEW clean, ConnectionLost(clean)
  PROVE  OpsLabelled'
<1>1. PICK slot \in Bijection(1 .. inflight, Occupied) :
        pending' = pending \o Drained(slot) \o CollisionQueue
  BY LostQueue
<1>2. slot \in [1 .. inflight -> Occupied]
  BY <1>1 DEF Bijection, Injection
<1>3. /\ Drained(slot) \in Seq(Operation) /\ Len(Drained(slot)) = inflight
      /\ \A k \in 1 .. inflight : Drained(slot)[k] = outgoing[slot[k]]
      /\ CollisionQueue \in Seq(Operation) /\ pending \in Seq(Operation)
  BY <1>2, QueueType DEF StoreInv, TypeOK
<1>4. \A k \in DOMAIN pending : Labelled(pending[k])
  BY DEF OpsLabelled
<1>5. \A k \in DOMAIN Drained(slot) : Labelled(Drained(slot)[k])
  BY <1>2, <1>3 DEF OpsLabelled
<1>6. \A k \in DOMAIN CollisionQueue : Labelled(CollisionQueue[k])
  BY DEF OpsLabelled, CollisionQueue
<1>7. \A k \in DOMAIN pending' : Labelled(pending[k])'
  <2>1. \A k \in DOMAIN pending' : Labelled(pending'[k])
    <3> HIDE DEF Labelled
    <3> QED BY <1>1, <1>3, <1>4, <1>5, <1>6
  <2> QED BY <2>1 DEF Labelled
<1>8. Occupied' = {} /\ collision' = None /\ replay' = replay
  BY DEF ConnectionLost, Occupied
<1> QED BY <1>7, <1>8 DEF OpsLabelled, Labelled

-----------------------------------------------------------------------------
(***************************************************************************)
(* Counting: an operation is sent once on a connection.                    *)
(***************************************************************************)
LEMMA TrackWaits ==
  ASSUME TypeOK, NEW op \in Operation, TrackAndSend(op)
  PROVE  CollisionIds' \cup PendingIds' \subseteq CollisionIds \cup PendingIds \cup {op.id}
<1>1. collision' = op \/ collision' = collision
  BY DEF TrackAndSend, Track, TryInsert
<1>2. \A k \in DOMAIN pending' :
        pending'[k] = op \/ (k \in DOMAIN pending /\ pending'[k] = pending[k])
  BY DEF TrackAndSend, Track, TypeOK
<1>3. CollisionIds' \subseteq CollisionIds \cup {op.id}
  BY <1>1 DEF CollisionIds
<1>4. PendingIds' \subseteq PendingIds \cup {op.id}
  BY <1>2 DEF PendingIds
<1> QED BY <1>3, <1>4

\* No step of the runtime makes an operation wait that had its slot.
LEMMA UnsentFalls ==
  ASSUME EndToEndInv, Handles, NEW id \in OpId, Unsent(id)'
  PROVE  Unsent(id)
<1>1. StoreInv /\ TypeOK /\ KindsKept /\ EndToEndTypeOK
  BY DEF EndToEndInv, OwnerInv, StoreInv
<1>2. CASE ClientCommand
  <2>1. PICK new \in OpId : Command(new, KindOf(new))
    BY <1>2 DEF ClientCommand
  <2>2. PICK op \in Operation :
          /\ op.id = new /\ new \notin submitted /\ submitted' = submitted \cup {new}
          /\ \/ TrackAndSend(op)
             \/ pending' = Append(pending, op) /\ UNCHANGED <<outgoing, collision>>
          /\ UNCHANGED replay
    BY <1>1, <2>1, CommandOp
  <2>3. CollisionIds' \cup PendingIds' \subseteq CollisionIds \cup PendingIds \cup {new}
    <3>1. CASE TrackAndSend(op)
      BY <1>1, <2>2, <3>1, TrackWaits
    <3>2. CASE pending' = Append(pending, op) /\ UNCHANGED <<outgoing, collision>>
      <4>1. \A k \in DOMAIN pending' :
              pending'[k] = op \/ (k \in DOMAIN pending /\ pending'[k] = pending[k])
        BY <1>1, <3>2 DEF TypeOK
      <4> QED BY <2>2, <3>2, <4>1 DEF CollisionIds, PendingIds
    <3> QED BY <2>2, <3>1, <3>2
  <2>4. UNCHANGED ReplayIds
    BY <2>2 DEF ReplayIds
  <2> QED BY <2>2, <2>3, <2>4 DEF Unsent
<1>3. CASE Receive
  <2>1. PICK answer \in FromBroker : Dispatch(answer)
    BY <1>1, <1>3, HeadAnswer DEF Receive
  <2>2. UNCHANGED <<pending, replay, submitted>> /\ (collision' = None \/ collision' = collision)
    BY <1>1, <2>1, DispatchEffect DEF Acknowledges, ReleaseAndPromote, CollisionAfter
  <2> QED BY <2>2 DEF Unsent, CollisionIds, PendingIds, ReplayIds
<1>4. CASE Resend
  <2>1. /\ Reinjected \in Operation /\ Reinjected.kind # "qos0"
        /\ replay # <<>> /\ replay' = Tail(replay) /\ UNCHANGED submitted
    BY <1>1, <1>4, WaitingPkids DEF Resend, Replay
  <2>2. TrackAndSend(Reinjected)
    BY <1>4, <2>1 DEF Resend, Replay
  <2>3. /\ Reinjected.id = Head(replay).id
        /\ 1 \in DOMAIN replay /\ Head(replay) = replay[1]
        /\ \A k \in DOMAIN replay' : k + 1 \in DOMAIN replay /\ replay'[k] = replay[k + 1]
    BY <1>1, <2>1, ReinjectedType DEF TypeOK, StoreInv
  <2>4. ReplayIds' \subseteq ReplayIds /\ Reinjected.id \in ReplayIds
    BY <2>3 DEF ReplayIds
  <2> QED BY <1>1, <2>1, <2>2, <2>4, TrackWaits DEF Unsent
<1>5. CASE Restore
  <2>1. replay' = pending /\ pending' = <<>> /\ UNCHANGED <<collision, submitted>>
    BY <1>5 DEF Restore, ConnectionRestored, history
  <2> QED BY <2>1 DEF Unsent, CollisionIds, PendingIds, ReplayIds
<1> QED BY <1>2, <1>3, <1>4, <1>5 DEF Handles

\* A message is a natural number of times on its way.
LEMMA SendingsType ==
  ASSUME EndToEndTypeOK, NEW id \in Message
  PROVE  Sendings(id) \in Nat /\ id \in OpId
<1>1. to_broker \in Seq(SentPacket) /\ taken[id] \in Nat
  BY DEF EndToEndTypeOK, SentPacket
<1> QED BY <1>1, CopiesType, QosAssumption DEF Sendings, Message

\* A step of the runtime sends each message once more at most, and only one it did not send.
LEMMA HandlesCounted ==
  ASSUME EndToEndInv, Handles, OwnerInv'
  PROVE  Counted'
<1>1. Counted /\ EndToEndTypeOK /\ to_broker \in Seq(SentPacket)
  BY DEF EndToEndInv, EndToEndTypeOK, SentPacket
<1>2. UNCHANGED <<taken, timeouts, drops>>
  BY <1>1, HandlesKeeps
<1>3. timeouts \in Nat /\ drops \in Nat
  BY <1>1, MaxLossesAssumption DEF EndToEndTypeOK
<1>4. \A id \in Message : Unsent(id)' => Unsent(id)
  BY <1>1, SendingsType, UnsentFalls
<1>5. ASSUME \A id \in Message : Sendings(id)' = Sendings(id)
      PROVE  Counted'
  BY <1>1, <1>2, <1>4, <1>5 DEF Counted
<1>6. CASE UNCHANGED to_broker
  BY <1>2, <1>5, <1>6 DEF Sendings
<1>7. ASSUME NEW op \in Operation, PutIn(op), Unsent(op.id)
      PROVE  Counted'
  <2>1. PICK dup \in BOOLEAN : to_broker' = Append(to_broker, Send(op, dup))
    BY <1>7 DEF PutIn
  <2>2. \A id \in Message :
          Sendings(id)' = Sendings(id) + (IF op.id = id THEN 1 ELSE 0)
    <3> TAKE id \in Message
    <3>1. Cardinality(Copies(to_broker', id)) =
            Cardinality(Copies(to_broker, id)) + (IF op.id = id THEN 1 ELSE 0)
      BY <1>1, <2>1, OpPacket, CopiesAppend
    <3>2. taken[id] \in Nat /\ Cardinality(Copies(to_broker, id)) \in Nat
      BY <1>1, CopiesType DEF EndToEndTypeOK
    <3> QED BY <1>2, <3>1, <3>2 DEF Sendings
  <2>3. op.id \in OutgoingIds'
    <3>1. op.pkid \in Slot /\ outgoing'[op.pkid] = op /\ op # None
      BY <1>7, NoneAssumption DEF PutIn, EndToEndInv, OwnerInv, StoreInv, TypeOK
    <3> QED BY <3>1 DEF OutgoingIds, Occupied
  <2>4. ~Unsent(op.id)'
    BY <2>3 DEF Unsent, OwnerInv, SingleOwner, OwnersDisjoint, OwnedIds
  <2>5. ASSUME NEW id \in Message
        PROVE  /\ Sendings(id)' <= 1 + timeouts + drops
               /\ Unsent(id)' => Sendings(id)' <= timeouts + drops
    <3>1. /\ Sendings(id) \in Nat /\ Sendings(id) <= 1 + timeouts + drops
          /\ Unsent(id) => Sendings(id) <= timeouts + drops
      BY <1>1, SendingsType DEF Counted
    <3>2. CASE op.id = id
      BY <1>3, <1>7, <2>2, <2>4, <3>1, <3>2
    <3>3. CASE op.id # id
      BY <1>3, <1>4, <2>2, <3>1, <3>3
    <3> QED BY <3>2, <3>3
  <2> QED BY <1>2, <2>5 DEF Counted
<1>8. ASSUME NEW pkid \in Slot \ {0}, to_broker' = Append(to_broker, SendPubRel(pkid))
      PROVE  Counted'
  <2>1. SendPubRel(pkid) \in SentPacket /\ SendPubRel(pkid).packet = "pubrel"
    BY PubRelPacket
  <2>2. \A id \in Message : Cardinality(Copies(to_broker', id)) = Cardinality(Copies(to_broker, id))
    <3> TAKE id \in Message
    <3> QED BY <1>1, <1>8, <2>1, CopiesAppend, CopiesType
  <2> QED BY <1>2, <1>5, <2>2 DEF Sendings
<1> QED BY <1>6, <1>7, <1>8, HandlesSends

-----------------------------------------------------------------------------
(***************************************************************************)
(* Pairing: what is on the way fits the slots.                             *)
(***************************************************************************)
\* What is on the way.
LEMMA WayTypes ==
  ASSUME EndToEndTypeOK
  PROVE  /\ \A packet \in On(to_broker) : packet \in SentPacket /\ packet.pkid \in Slot
         /\ \A answer \in On(to_runtime) : answer \in FromBroker /\ answer.pkid \in Slot
<1>1. to_broker \in Seq(SentPacket) /\ to_runtime \in Seq(FromBroker)
  BY DEF EndToEndTypeOK, SentPacket
<1>2. On(to_broker) \subseteq SentPacket /\ On(to_runtime) \subseteq FromBroker
  BY <1>1 DEF On
<1>3. \A packet \in SentPacket : packet.pkid \in Slot
  BY DEF SentPacket, DriverAction, TriggerReconnect
<1>4. \A answer \in FromBroker : answer.pkid \in Slot
  BY DEF FromBroker
<1> QED BY <1>2, <1>3, <1>4

\* A packet whose slot is as it was still fits.
LEMMA FitsKept ==
  ASSUME \A id : Known(id) => Known(id)', NEW packet,
         outgoing'[packet.pkid] = outgoing[packet.pkid],
         outgoing_rel[packet.pkid] => outgoing_rel'[packet.pkid]
  PROVE  /\ FitsBroker(packet) => FitsBroker(packet)'
         /\ FitsRuntime(packet) => FitsRuntime(packet)'
BY DEF FitsBroker, FitsRuntime, Confirmed

\* Everything the pairing reads, but the slot of one identifier and its packets.
Elsewhere(pkid) ==
  /\ UNCHANGED <<clean_session, unreleased, taken, drops>>
  /\ \A q \in Slot \ {pkid} : outgoing'[q] = outgoing[q] /\ outgoing_rel'[q] = outgoing_rel[q]

LEMMA ElsewhereKept ==
  ASSUME Paired, EndToEndTypeOK, NEW pkid, Elsewhere(pkid)
  PROVE  /\ \A id : Known(id)' <=> Known(id)
         /\ \A packet \in On(to_broker) : packet.pkid # pkid => FitsBroker(packet)'
         /\ \A answer \in On(to_runtime) : answer.pkid # pkid => FitsRuntime(answer)'
         /\ Undisturbed' => \A q \in Slot \ {pkid} : outgoing_rel'[q] =>
              outgoing'[q] # None /\ Confirmed(q)'
<1>1. \A id : Known(id)' <=> Known(id)
  BY DEF Elsewhere, Known
<1>2. /\ \A packet \in On(to_broker) : packet.pkid \in Slot
      /\ \A answer \in On(to_runtime) : answer.pkid \in Slot
  BY WayTypes
<1>3. ASSUME NEW packet \in On(to_broker), packet.pkid # pkid PROVE FitsBroker(packet)'
  BY <1>1, <1>2, <1>3, FitsKept DEF Elsewhere, Paired, Fitting
<1>4. ASSUME NEW answer \in On(to_runtime), answer.pkid # pkid PROVE FitsRuntime(answer)'
  BY <1>1, <1>2, <1>4, FitsKept DEF Elsewhere, Paired, Fitting
<1>5. ASSUME Undisturbed', NEW q \in Slot \ {pkid}, outgoing_rel'[q]
      PROVE  outgoing'[q] # None /\ Confirmed(q)'
  BY <1>1, <1>5 DEF Elsewhere, Paired, Marks, Confirmed, Undisturbed
<1> QED BY <1>1, <1>3, <1>4, <1>5

\* An operation that was put into an empty slot.
LEMMA PairedFilled ==
  ASSUME Paired, EndToEndTypeOK, TypeOK, NEW op \in Operation, outgoing[op.pkid] = None, PutIn(op),
         UNCHANGED <<clean_session, to_runtime, unreleased, taken, drops, outgoing_rel, error,
                     finished>>
  PROVE  Paired'
<1>1. PICK dup \in BOOLEAN : to_broker' = Append(to_broker, Send(op, dup))
  BY DEF PutIn
<1>2. PICK pkid : pkid = op.pkid
  OBVIOUS
<1>3. PICK packet \in SentPacket :
        /\ packet = Send(op, dup) /\ packet.pkid = pkid
        /\ packet.packet = op.kind /\ packet.packet # "pubrel" /\ packet.id = op.id
  BY <1>2, OpPacket
<1>4. pkid \in Slot /\ outgoing'[pkid] = op /\ op # None /\ outgoing[pkid] = None
  BY <1>2, NoneAssumption DEF PutIn, TypeOK
<1>5. Elsewhere(pkid)
  BY <1>2 DEF Elsewhere, PutIn, TypeOK
<1>6. /\ \A other \in On(to_broker) : other.pkid # pkid
      /\ \A answer \in On(to_runtime) : answer.pkid # pkid
  BY <1>4 DEF Paired, Fitting, FitsBroker, FitsRuntime
<1>7. On(to_broker') = On(to_broker) \cup {packet} /\ Single(to_broker')
  <2>1. to_broker \in Seq(SentPacket) /\ Single(to_broker)
    BY DEF EndToEndTypeOK, SentPacket, Paired, Alone
  <2> QED BY <1>1, <1>3, <1>6, <2>1, OnAppend
<1>8. Alone'
  BY <1>3, <1>6, <1>7 DEF Paired, Alone
<1>9. Fitting'
  <2>1. FitsBroker(packet)'
    BY <1>3, <1>4 DEF FitsBroker
  <2> QED BY <1>5, <1>6, <1>7, <2>1, ElsewhereKept DEF Fitting
<1>10. Waiting'
  BY <1>7 DEF Paired, Waiting, Undisturbed, Awaited
<1>11. Marks'
  <2>1. Undisturbed' => ~outgoing_rel'[pkid]
    BY <1>4 DEF Paired, Marks, Undisturbed
  <2> QED BY <1>5, <2>1, ElsewhereKept DEF Marks
<1>12. \A id \in Reported' : Known(id)'
  BY <1>5, ElsewhereKept DEF Paired, Reported
<1> QED BY <1>8, <1>9, <1>10, <1>11, <1>12 DEF Paired

\* Nothing that the pairing reads has changed.
LEMMA PairedStays ==
  ASSUME Paired,
         UNCHANGED <<clean_session, network, unreleased, taken, drops, outgoing, outgoing_rel, error,
                     finished>>
  PROVE  Paired'
<1>1. /\ UNCHANGED <<Alone, Reported>>
      /\ \A id : Known(id)' <=> Known(id)
  BY DEF Alone, Reported, Known, network
<1>2. /\ \A packet : FitsBroker(packet) => FitsBroker(packet)'
      /\ \A answer : FitsRuntime(answer) => FitsRuntime(answer)'
  BY <1>1, FitsKept
<1>3. Fitting' /\ Waiting' /\ Marks'
  BY <1>1, <1>2 DEF Paired, Fitting, Waiting, Awaited, Marks, Undisturbed, Confirmed, network
<1> QED BY <1>1, <1>3 DEF Paired

\* Commands, the replay loop and a restored connection.
LEMMA PairedSends ==
  ASSUME EndToEndInv, Paired, ClientCommand \/ Resend \/ Restore
  PROVE  Paired'
<1>1. StoreInv /\ TypeOK /\ KindsKept /\ EndToEndTypeOK /\ to_broker \in Seq(SentPacket)
  BY DEF EndToEndInv, OwnerInv, StoreInv, EndToEndTypeOK, SentPacket
<1>2. UNCHANGED <<clean_session, to_runtime, unreleased, taken, drops>>
  BY DEF ClientCommand, Resend, Restore, broker, losses, network
<1>3. ASSUME NEW op \in Operation, op.pkid # 0, TrackAndSend(op), Transmit,
             UNCHANGED <<outgoing_rel, error, finished>>
      PROVE  Paired'
  <2>1. CASE outgoing[op.pkid] = None /\ PutIn(op)
    BY <1>1, <1>2, <1>3, <2>1, PairedFilled
  <2>2. CASE UNCHANGED <<outgoing, to_broker>>
    BY <1>2, <1>3, <2>2, PairedStays DEF network
  <2> QED BY <1>1, <1>3, <2>1, <2>2, TrackPuts
<1>4. CASE ClientCommand
  <2>1. PICK id \in OpId : Command(id, KindOf(id)) /\ Transmit
    BY <1>4 DEF ClientCommand
  <2>2. PICK op \in Operation :
          /\ op.pkid # 0
          /\ TrackAndSend(op) \/ (actions' = <<>> /\ UNCHANGED outgoing)
          /\ UNCHANGED <<outgoing_rel, error, finished>>
    BY <1>1, <2>1, CommandOp
  <2>3. CASE TrackAndSend(op)
    BY <1>3, <2>1, <2>2, <2>3
  <2>4. CASE actions' = <<>> /\ UNCHANGED outgoing
    BY <1>1, <1>2, <2>1, <2>2, <2>4, SentNothing, PairedStays DEF network
  <2> QED BY <2>2, <2>3, <2>4
<1>5. CASE Resend
  <2>1. /\ Reinjected \in Operation /\ Reinjected.kind # "qos0" /\ Reinjected.pkid # 0
        /\ Transmit /\ UNCHANGED <<outgoing_rel, error>>
    BY <1>1, <1>5, WaitingPkids DEF Resend, Replay
  <2>2. TrackAndSend(Reinjected) /\ UNCHANGED finished
    BY <1>5, <2>1 DEF Resend, Replay, TrackAndSend
  <2>3. PICK op \in Operation : op = Reinjected
    BY <2>1
  <2> QED BY <1>3, <2>1, <2>2, <2>3
<1>6. CASE Restore
  <2>1. UNCHANGED <<outgoing, outgoing_rel, error, finished, to_broker>>
    BY <1>6 DEF Restore, ConnectionRestored, history, network
  <2> QED BY <1>2, <2>1, PairedStays DEF network
<1> QED BY <1>4, <1>5, <1>6

\* The slot of an acknowledged operation is empty, or the collision that waited for it is in it.
Freed(pkid) ==
  \/ outgoing' = [outgoing EXCEPT ![pkid] = None] /\ UNCHANGED to_broker
  \/ collision \in Operation /\ collision.pkid = pkid /\ PutIn(collision)

\* An acknowledgement that ends a flow leaves nothing on the way for its identifier, or the
\* packet of the operation that has the slot next.
LEMMA PairedFreed ==
  ASSUME Paired, EndToEndTypeOK, TypeOK, to_runtime # <<>>,
         NEW answer, answer = Head(to_runtime), answer.type # "pubrec", Freed(answer.pkid),
         to_runtime' = Tail(to_runtime),
         UNCHANGED <<clean_session, unreleased, taken, drops, error>>,
         \A q \in Slot \ {answer.pkid} : outgoing_rel'[q] = outgoing_rel[q],
         Undisturbed => ~outgoing_rel'[answer.pkid],
         \A id \in Reported' \ Reported : Known(id)
  PROVE  Paired'
<1>0. PICK pkid \in Slot : pkid = answer.pkid
  BY HeadAnswer
<1>1. /\ On(to_runtime) = On(to_runtime') \cup {answer}
      /\ answer \in On(to_runtime)
      /\ Single(to_runtime')
      /\ \A other \in On(to_runtime') : other.pkid # pkid
  <2>1. to_runtime \in Seq(FromBroker) /\ Single(to_runtime)
    BY DEF EndToEndTypeOK, Paired, Alone
  <2> QED BY <1>0, <2>1, OnTail
<1>2. \A packet \in On(to_broker) : packet.pkid # pkid
  BY <1>0, <1>1 DEF Paired, Alone
<1>3. Elsewhere(pkid)
  BY <1>0 DEF Elsewhere, Freed, PutIn, TypeOK
<1>4. \A packet \in On(to_broker) : FitsBroker(packet)'
  BY <1>2, <1>3, ElsewhereKept
<1>5. \A other \in On(to_runtime') : FitsRuntime(other)'
  BY <1>1, <1>3, ElsewhereKept
<1>6. /\ Single(to_broker') /\ On(to_broker) \subseteq On(to_broker')
      /\ \A packet \in On(to_broker') :
           \/ packet \in On(to_broker)
           \/ packet.pkid = pkid /\ FitsBroker(packet)'
  <2>1. to_broker \in Seq(SentPacket) /\ Single(to_broker)
    BY DEF EndToEndTypeOK, SentPacket, Paired, Alone
  <2>2. CASE UNCHANGED to_broker
    BY <2>1, <2>2
  <2>3. CASE collision \in Operation /\ collision.pkid = pkid /\ PutIn(collision)
    <3>1. PICK op \in Operation : op = collision
      BY <2>3
    <3>2. PICK dup \in BOOLEAN : to_broker' = Append(to_broker, Send(op, dup))
      BY <2>3, <3>1 DEF PutIn
    <3>3. PICK packet \in SentPacket :
            /\ packet = Send(op, dup) /\ packet.pkid = pkid
            /\ packet.packet = op.kind /\ packet.packet # "pubrel" /\ packet.id = op.id
      BY <2>3, <3>1, OpPacket
    <3>4. outgoing'[pkid] = op /\ op # None
      BY <2>3, <3>1, NoneAssumption DEF PutIn, TypeOK
    <3>5. FitsBroker(packet)'
      BY <3>3, <3>4 DEF FitsBroker
    <3>6. On(to_broker') = On(to_broker) \cup {packet} /\ Single(to_broker')
      BY <1>2, <2>1, <3>2, <3>3, OnAppend
    <3> QED BY <3>3, <3>5, <3>6
  <2> QED BY <1>0, <2>2, <2>3 DEF Freed
<1>7. Alone'
  BY <1>1, <1>6 DEF Paired, Alone
<1>8. Fitting'
  BY <1>4, <1>5, <1>6 DEF Fitting
<1>9. Waiting'
  <2>1. \A q : Answer("pubrec", q) # answer
    BY DEF Answer
  <2>2. \A q : Awaited(q) => Awaited(q)'
    BY <1>1, <1>6, <2>1 DEF Awaited
  <2> QED BY <2>2 DEF Paired, Waiting, Undisturbed
<1>10. Marks'
  BY <1>0, <1>3, ElsewhereKept DEF Marks, Undisturbed
<1>11. \A id \in Reported' : Known(id)'
  BY <1>3, ElsewhereKept DEF Paired
<1> QED BY <1>7, <1>8, <1>9, <1>10, <1>11 DEF Paired

\* An operation that is reported once more was reported, or is the one its slot held.
LEMMA ReportedAfter ==
  ASSUME TypeOK, NEW op \in Operation, finished' = [finished EXCEPT ![op.id] = @ + 1]
  PROVE  \A id \in Reported' \ Reported : id = op.id
BY DEF Reported, TypeOK

\* PUBREC: the flow enters its second phase.
LEMMA PairedPubRec ==
  ASSUME EndToEndInv, Paired, to_runtime # <<>>, NEW answer, answer = Head(to_runtime),
         answer.type = "pubrec", PubRec(answer.pkid), Transmit, to_runtime' = Tail(to_runtime),
         UNCHANGED <<clean_session, unreleased, taken, drops>>
  PROVE  Paired'
<1>0. PICK pkid \in Slot : pkid = answer.pkid
  BY HeadAnswer DEF EndToEndInv
<1>1. /\ TypeOK /\ EndToEndTypeOK /\ to_broker \in Seq(SentPacket) /\ to_runtime \in Seq(FromBroker)
      /\ Single(to_broker) /\ Single(to_runtime)
  BY DEF EndToEndInv, OwnerInv, StoreInv, EndToEndTypeOK, SentPacket, Paired, Alone
<1>2. PICK packet \in SentPacket :
        packet = SendPubRel(pkid) /\ packet.packet = "pubrel" /\ packet.pkid = pkid
  BY PubRelPacket
<1>3. /\ outgoing_rel' = [outgoing_rel EXCEPT ![pkid] = TRUE]
      /\ actions' = <<packet>>
      /\ UNCHANGED <<outgoing, error, finished>>
  BY <1>0, <1>2 DEF PubRec, history
<1>4. to_broker' = Append(to_broker, packet)
  BY <1>1, <1>3, SentOne
<1>5. /\ On(to_runtime) = On(to_runtime') \cup {answer} /\ answer \in On(to_runtime)
      /\ Single(to_runtime') /\ \A other \in On(to_runtime') : other.pkid # pkid
  BY <1>0, <1>1, OnTail
<1>6. \A other \in On(to_broker) : other.pkid # pkid
  BY <1>0, <1>5 DEF Paired, Alone
<1>7. On(to_broker') = On(to_broker) \cup {packet} /\ Single(to_broker')
  BY <1>1, <1>2, <1>4, <1>6, OnAppend
<1>8. Elsewhere(pkid)
  BY <1>1, <1>3 DEF Elsewhere, TypeOK
<1>9. outgoing[pkid] # None /\ Confirmed(pkid) /\ outgoing_rel'[pkid]
  BY <1>0, <1>1, <1>3, <1>5 DEF Paired, Fitting, FitsRuntime, TypeOK
<1>10. outgoing'[pkid] # None /\ Confirmed(pkid)'
  BY <1>1, <1>3, <1>8, <1>9, ElsewhereKept DEF Confirmed
<1>11. Alone'
  BY <1>2, <1>5, <1>6, <1>7 DEF Paired, Alone
<1>12. Fitting'
  <2>1. FitsBroker(packet)'
    BY <1>2, <1>9, <1>10 DEF FitsBroker
  <2>2. \A other \in On(to_broker) : FitsBroker(other)'
    BY <1>1, <1>6, <1>8, ElsewhereKept
  <2>3. \A other \in On(to_runtime') : FitsRuntime(other)'
    BY <1>1, <1>5, <1>8, ElsewhereKept
  <2> QED BY <1>7, <2>1, <2>2, <2>3 DEF Fitting
<1>13. Waiting'
  <2>1. \A q : Answer("pubrec", q) = answer => q = pkid
    BY <1>0 DEF Answer
  <2>2. \A q : Awaited(q) => Awaited(q)'
    BY <1>2, <1>5, <1>7, <2>1 DEF Awaited
  <2> QED BY <2>2 DEF Paired, Waiting, Undisturbed
<1>14. Marks'
  BY <1>1, <1>8, <1>10, ElsewhereKept DEF Marks, Undisturbed
<1>15. \A id \in Reported' : Known(id)'
  BY <1>1, <1>3, <1>8, ElsewhereKept DEF Paired, Reported
<1> QED BY <1>3, <1>11, <1>12, <1>13, <1>14, <1>15 DEF Paired

\* With everything paired, the runtime is told of nothing it does not expect.
LEMMA PairedReceive ==
  ASSUME EndToEndInv, Paired, Receive
  PROVE  Paired'
<1>0. PICK answer \in FromBroker : answer = Head(to_runtime)
  BY HeadAnswer DEF Receive, EndToEndInv
<1>1. PICK pkid \in Slot : pkid = answer.pkid
  BY DEF FromBroker
<1>2. /\ to_runtime # <<>> /\ to_runtime' = Tail(to_runtime) /\ Dispatch(answer) /\ Transmit
      /\ UNCHANGED <<clean_session, unreleased, taken, drops>>
  BY <1>0 DEF Receive, broker, losses
<1>3. /\ StoreInv /\ TypeOK /\ EndToEndTypeOK /\ to_broker \in Seq(SentPacket)
      /\ to_runtime \in Seq(FromBroker)
  BY DEF EndToEndInv, OwnerInv, StoreInv, EndToEndTypeOK, SentPacket
<1>4. FitsRuntime(answer)
  BY <1>0, <1>2, <1>3, OnTail DEF Paired, Fitting
<1>5. PICK op \in Operation : op = outgoing[pkid] /\ op # None
  BY <1>1, <1>3, <1>4 DEF FitsRuntime, TypeOK
<1>6. Held(pkid) /\ (pkid # 0)
  <2>1. Held(pkid) /\ pkid \in Occupied
    BY <1>5 DEF Held, Occupied
  <2> QED BY <1>3, <2>1 DEF StoreInv, StoreConsistent
<1>7. ASSUME NEW ack, ReleaseAndPromote(pkid, ack)
      PROVE  Freed(pkid) /\ finished' = [finished EXCEPT ![op.id] = @ + 1]
  <2>1. Freed(pkid)
    BY <1>2, <1>3, <1>7, ReleasePuts DEF Freed
  <2> QED BY <1>5, <1>7, <2>1 DEF ReleaseAndPromote
<1>8. CASE answer.type = "puback"
  <2>1. op.kind = "qos1" /\ Known(op.id)
    BY <1>1, <1>4, <1>5, <1>8 DEF FitsRuntime
  <2>2. ReleaseAndPromote(pkid, "PubAck") /\ UNCHANGED <<outgoing_rel, error>>
    BY <1>1, <1>2, <1>6, <1>8 DEF Dispatch, PubAck, UnsolicitedAck
  <2>3. Undisturbed => ~outgoing_rel[pkid]
    BY <1>5, <2>1 DEF Paired, Marks, Confirmed
  <2>4. \A id \in Reported' \ Reported : Known(id)
    BY <1>3, <1>7, <2>1, <2>2, ReportedAfter
  <2> QED BY <1>0, <1>1, <1>2, <1>3, <1>7, <1>8, <2>2, <2>3, <2>4, PairedFreed
<1>9. CASE answer.type = "pubrec"
  <2>1. PubRec(pkid)
    BY <1>1, <1>2, <1>6, <1>9 DEF Dispatch, UnsolicitedPubRec
  <2> QED BY <1>0, <1>1, <1>2, <1>9, <2>1, PairedPubRec
<1>10. CASE answer.type = "pubcomp"
  <2>1. Known(op.id) /\ outgoing_rel[pkid]
    BY <1>1, <1>4, <1>5, <1>10 DEF FitsRuntime, Confirmed
  <2>2. PubComp(pkid)
    BY <1>1, <1>2, <1>6, <1>10, <2>1 DEF Dispatch, UnsolicitedPubComp
  <2>3. /\ ReleaseAndPromote(pkid, "PubComp") /\ UNCHANGED error
        /\ outgoing_rel' = [outgoing_rel EXCEPT ![pkid] = FALSE]
    BY <2>2 DEF PubComp
  <2>4. ~outgoing_rel'[pkid] /\ \A q \in Slot \ {pkid} : outgoing_rel'[q] = outgoing_rel[q]
    BY <1>3, <2>3 DEF TypeOK
  <2>5. \A id \in Reported' \ Reported : Known(id)
    BY <1>3, <1>7, <2>1, <2>3, ReportedAfter
  <2> QED BY <1>0, <1>1, <1>2, <1>3, <1>7, <1>10, <2>3, <2>4, <2>5, PairedFreed
<1>11. CASE answer.type = "suback"
  <2>1. op.kind = "subscribe"
    BY <1>1, <1>4, <1>5, <1>11 DEF FitsRuntime
  <2>2. SubAck(pkid)
    BY <1>1, <1>2, <1>6, <1>11 DEF Dispatch, UnsolicitedAck
  <2>3. /\ outgoing' = [outgoing EXCEPT ![pkid] = None]
        /\ actions' = <<CompleteFor(op, "SubAck")>>
        /\ finished' = [finished EXCEPT ![op.id] = @ + 1]
        /\ UNCHANGED <<outgoing_rel, error>>
    BY <1>5, <2>1, <2>2 DEF SubAck, FilterAck
  <2>4. UNCHANGED to_broker
    <3>1. CompleteFor(op, "SubAck").do # "Send"
      BY DEF CompleteFor
    <3> QED BY <1>2, <1>3, <2>3, <3>1, SentNothing
  <2>5. Undisturbed => ~outgoing_rel[pkid]
    BY <1>5, <2>1 DEF Paired, Marks, Confirmed
  <2>6. \A id \in Reported' \ Reported : Known(id)
    <3>1. op.id \notin Message
      <4>1. Labelled(op)
        BY <1>5 DEF EndToEndInv, KindsKept, OpsLabelled, Occupied
      <4> QED BY <2>1, <4>1 DEF Labelled, KindOf, Message
    <3> QED BY <1>3, <2>3, <3>1, ReportedAfter DEF Reported
  <2>7. Freed(pkid)
    BY <2>3, <2>4 DEF Freed
  <2> QED BY <1>0, <1>1, <1>2, <1>3, <1>11, <2>3, <2>5, <2>6, <2>7, PairedFreed
<1> QED BY <1>8, <1>9, <1>10, <1>11 DEF FromBroker

-----------------------------------------------------------------------------
(***************************************************************************)
(* The broker.                                                             *)
(***************************************************************************)
\* It takes a message for a new one, or leaves what it has taken.
TakesNew(packet) ==
  /\ packet.packet \in {"qos1", "qos2"} /\ packet.id \in Message
  /\ taken' = [taken EXCEPT ![packet.id] = @ + 1]

Repeated(packet) ==
  /\ packet.packet = "qos2" /\ packet.pkid \in unreleased
  /\ UNCHANGED <<taken, unreleased>>

\* The type of its answer, and what it waits for then.
Answers(packet, answer) ==
  \/ /\ packet.packet = "qos1" /\ answer.type = "puback"
     /\ TakesNew(packet) /\ UNCHANGED unreleased
  \/ /\ packet.packet = "qos2" /\ answer.type = "pubrec"
     /\ \/ TakesNew(packet) /\ unreleased' = unreleased \cup {packet.pkid}
        \/ Repeated(packet)
  \/ /\ packet.packet = "pubrel" /\ answer.type = "pubcomp"
     /\ UNCHANGED taken /\ unreleased' = unreleased \ {packet.pkid}
  \/ /\ packet.packet = "subscribe" /\ answer.type = "suback"
     /\ UNCHANGED <<taken, unreleased>>

Exchanges(packet, answer) ==
  /\ to_broker # <<>> /\ packet = Head(to_broker) /\ to_broker' = Tail(to_broker)
  /\ answer = Answer(answer.type, packet.pkid) /\ to_runtime' = Append(to_runtime, answer)
  /\ Answers(packet, answer)

\* An answer has the type and the identifier that it is made of.
LEMMA AnswerType ==
  ASSUME NEW type \in {"puback", "pubrec", "pubcomp", "suback"}, NEW pkid \in Slot
  PROVE  Answer(type, pkid) \in FromBroker /\ Answer(type, pkid).type = type
BY DEF Answer, FromBroker

\* Every step of the broker exchanges a packet for its answer.
LEMMA BrokerEffect ==
  ASSUME EndToEndInv, Broker
  PROVE  /\ \E packet \in SentPacket, answer \in FromBroker : Exchanges(packet, answer)
         /\ UNCHANGED <<vars, clean_session, timeouts, drops>>
<1>1. to_broker \in Seq(SentPacket) /\ EndToEndTypeOK /\ PacketsLabelled
  BY DEF EndToEndInv, EndToEndTypeOK, SentPacket, KindsKept
<1>2. to_broker # <<>> /\ to_broker' = Tail(to_broker) /\ UNCHANGED <<vars, clean_session, timeouts, drops>>
  BY DEF Broker, TakeQos1, TakeQos2, Release, Grant, Reads, losses
<1>3. PICK packet \in SentPacket : packet = Packet /\ packet = Head(to_broker) /\ packet \in On(to_broker)
  BY <1>1, <1>2, OnTail DEF Packet
<1>4. packet.pkid \in Slot
  BY <1>1, <1>3, WayTypes
<1>5. packet.packet \in {"qos1", "qos2"} => packet.id \in Message
  BY <1>1, <1>3 DEF PacketsLabelled, KindOf, Message
<1>6. ASSUME NEW type \in {"puback", "pubrec", "pubcomp", "suback"}, Replies(type),
             Answers(packet, Answer(type, packet.pkid))
      PROVE  \E answer \in FromBroker : Exchanges(packet, answer)
  <2>1. PICK answer \in FromBroker : answer = Answer(type, packet.pkid) /\ answer.type = type
    BY <1>4, AnswerType
  <2>2. to_runtime' = Append(to_runtime, answer)
    BY <1>3, <1>6, <2>1 DEF Replies
  <2> QED BY <1>2, <1>3, <1>6, <2>1, <2>2 DEF Exchanges
<1>7. \A type : Answer(type, packet.pkid).type = type
  BY DEF Answer
<1>8. CASE TakeQos1
  <2>1. Answers(packet, Answer("puback", packet.pkid)) /\ Replies("puback")
    BY <1>3, <1>5, <1>7, <1>8 DEF TakeQos1, Reads, Take, Answers, TakesNew
  <2> QED BY <1>2, <1>6, <2>1
<1>9. CASE TakeQos2
  <2>1. Answers(packet, Answer("pubrec", packet.pkid)) /\ Replies("pubrec")
    BY <1>3, <1>5, <1>7, <1>9 DEF TakeQos2, Reads, Take, Answers, TakesNew, Repeated, broker
  <2> QED BY <1>2, <1>6, <2>1
<1>10. CASE Release
  <2>1. Answers(packet, Answer("pubcomp", packet.pkid)) /\ Replies("pubcomp")
    BY <1>3, <1>7, <1>10 DEF Release, Reads, Answers
  <2> QED BY <1>2, <1>6, <2>1
<1>11. CASE Grant
  <2>1. Answers(packet, Answer("suback", packet.pkid)) /\ Replies("suback")
    BY <1>3, <1>7, <1>11 DEF Grant, Reads, Answers, broker
  <2> QED BY <1>2, <1>6, <2>1
<1> QED BY <1>2, <1>8, <1>9, <1>10, <1>11 DEF Broker

\* A message that is taken is known from then on, and none is forgotten.
LEMMA TakenKnown ==
  ASSUME EndToEndTypeOK, NEW packet, NEW answer, Answers(packet, answer),
         UNCHANGED <<clean_session, drops>>
  PROVE  /\ taken' \in [Message -> Nat]
         /\ \A id : Known(id) => Known(id)'
         /\ TakesNew(packet) => Known(packet.id)'
<1>1. taken \in [Message -> Nat]
  BY DEF EndToEndTypeOK
<1>2. CASE UNCHANGED taken
  BY <1>1, <1>2 DEF Known, TakesNew
<1>3. CASE TakesNew(packet)
  <2>1. packet.id \in Message /\ taken[packet.id] + 1 \in Nat /\ taken[packet.id] + 1 > 0
    BY <1>1, <1>3 DEF TakesNew
  <2>2. taken' \in [Message -> Nat] /\ taken'[packet.id] > 0
    BY <1>1, <1>3, <2>1 DEF TakesNew
  <2>3. \A id : id # packet.id => taken'[id] = taken[id]
    <3>1. \A id \in Message \ {packet.id} : taken'[id] = taken[id]
      BY <1>1, <1>3, <2>1 DEF TakesNew
    <3> QED BY <1>1, <1>3, <2>1, <3>1 DEF TakesNew
  <2> QED BY <2>2, <2>3 DEF Known
<1> QED BY <1>2, <1>3 DEF Answers, Repeated

\* A step of the broker keeps the types, the kinds and the counts.
LEMMA BrokerCounts ==
  ASSUME EndToEndInv, Broker
  PROVE  EndToEndTypeOK' /\ KindsKept' /\ Counted'
<1>1. /\ EndToEndTypeOK /\ KindsKept /\ Counted
      /\ to_broker \in Seq(SentPacket) /\ to_runtime \in Seq(FromBroker)
  BY DEF EndToEndInv, EndToEndTypeOK, SentPacket
<1>2. /\ UNCHANGED <<outgoing, collision, pending, replay, submitted, clean_session, timeouts, drops>>
      /\ \E packet \in SentPacket, answer \in FromBroker : Exchanges(packet, answer)
  BY BrokerEffect DEF vars, store, history
<1>3. PICK packet \in SentPacket, answer \in FromBroker : Exchanges(packet, answer)
  BY <1>2
<1>4. /\ to_broker # <<>> /\ packet = Head(to_broker) /\ to_broker' = Tail(to_broker)
      /\ to_runtime' = Append(to_runtime, answer) /\ Answers(packet, answer)
  BY <1>3 DEF Exchanges
<1>5. /\ to_broker' \in Seq(SentPacket) /\ On(to_broker) = On(to_broker') \cup {packet}
      /\ to_runtime' \in Seq(FromBroker)
  BY <1>1, <1>4, OnTail, OnAppend
<1>6. EndToEndTypeOK'
  <2>1. taken' \in [Message -> Nat]
    BY <1>1, <1>2, <1>4, TakenKnown
  <2>2. packet.pkid \in Slot \ {0}
    BY <1>1, <1>5, WayTypes DEF KindsKept, PacketsLabelled
  <2>3. unreleased' \subseteq Slot \ {0}
    BY <1>1, <1>4, <2>2 DEF Answers, Repeated, EndToEndTypeOK
  <2> QED BY <1>1, <1>2, <1>5, <2>1, <2>3 DEF EndToEndTypeOK, SentPacket
<1>7. KindsKept'
  BY <1>1, <1>2, <1>5 DEF KindsKept, OpsLabelled, PacketsLabelled, Labelled, Occupied
<1>8. \A id \in Message : Unsent(id)' <=> Unsent(id)
  BY <1>2 DEF Unsent, CollisionIds, PendingIds, ReplayIds
<1>9. ASSUME NEW id \in Message
      PROVE  Sendings(id)' \in Nat /\ Sendings(id)' <= Sendings(id)
  <2>1. /\ Cardinality(Copies(to_broker, id)) =
             Cardinality(Copies(to_broker', id))
               + (IF packet.packet # "pubrel" /\ packet.id = id THEN 1 ELSE 0)
    BY <1>1, <1>4, CopiesTail
  <2>2. Cardinality(Copies(to_broker', id)) \in Nat /\ taken[id] \in Nat
    BY <1>1, <1>5, CopiesType DEF EndToEndTypeOK
  <2>3. CASE TakesNew(packet) /\ packet.id = id
    <3>1. taken'[id] = taken[id] + 1 /\ packet.packet # "pubrel"
      BY <1>1, <2>3 DEF TakesNew, EndToEndTypeOK
    <3> QED BY <2>1, <2>2, <2>3, <3>1 DEF Sendings
  <2>4. CASE ~(TakesNew(packet) /\ packet.id = id)
    <3>1. taken'[id] = taken[id]
      BY <1>1, <1>4, <2>4 DEF Answers, Repeated, TakesNew, EndToEndTypeOK
    <3> QED BY <2>1, <2>2, <3>1 DEF Sendings
  <2> QED BY <2>3, <2>4
<1>10. Counted'
  <2> SUFFICES ASSUME NEW id \in Message
               PROVE  /\ Sendings(id)' <= 1 + timeouts + drops
                      /\ Unsent(id) => Sendings(id)' <= timeouts + drops
    BY <1>2, <1>8 DEF Counted
  <2>1. Sendings(id) \in Nat /\ timeouts \in Nat /\ drops \in Nat
    BY <1>1, SendingsType, MaxLossesAssumption DEF EndToEndTypeOK
  <2>2. /\ Sendings(id) <= 1 + timeouts + drops
        /\ Unsent(id) => Sendings(id) <= timeouts + drops
    BY <1>1 DEF Counted
  <2>3. PICK after \in Nat : after = Sendings(id)' /\ after <= Sendings(id)
    BY <1>9
  <2> QED BY <2>1, <2>2, <2>3
<1> QED BY <1>6, <1>7, <1>10

\* Two packets on the way with one identifier are the same packet.
LEMMA SinglePacket ==
  ASSUME NEW s, Single(s), NEW p \in On(s), NEW q \in On(s), p.pkid = q.pkid
  PROVE  p = q
<1>1. PICK i \in DOMAIN s, j \in DOMAIN s : p = s[i] /\ q = s[j]
  BY DEF On
<1> QED BY <1>1 DEF Single

\* What the broker answers fits the slot the packet fitted.
LEMMA AnswerFits ==
  ASSUME EndToEndInv, Paired, NEW packet \in On(to_broker), NEW answer \in FromBroker,
         answer.pkid = packet.pkid, Answers(packet, answer),
         UNCHANGED <<outgoing, outgoing_rel, clean_session, drops>>
  PROVE  FitsRuntime(answer)'
<1>1. EndToEndTypeOK /\ PacketsLabelled /\ FitsBroker(packet)
  BY DEF EndToEndInv, KindsKept, Paired, Fitting
<1>2. /\ \A id : Known(id) => Known(id)'
      /\ TakesNew(packet) => Known(packet.id)'
  BY <1>1, TakenKnown
<1>3. outgoing[packet.pkid] # None
  BY <1>1 DEF FitsBroker
<1>4. CASE packet.packet = "qos1" /\ answer.type = "puback" /\ TakesNew(packet)
  <2>1. outgoing[packet.pkid].kind = "qos1" /\ packet.id = outgoing[packet.pkid].id
    BY <1>1, <1>4 DEF FitsBroker
  <2> QED BY <1>2, <1>3, <1>4, <2>1 DEF FitsRuntime
<1>5. CASE packet.packet = "qos2" /\ answer.type = "pubrec"
  <2>1. outgoing[packet.pkid].kind = "qos2" /\ packet.id = outgoing[packet.pkid].id
    BY <1>1, <1>5 DEF FitsBroker
  <2>2. Known(packet.id)'
    <3>1. CASE TakesNew(packet)
      BY <1>2, <3>1
    <3>2. CASE Repeated(packet)
      <4>1. packet.id \in ExactlyOnce
        BY <1>1, <1>5 DEF PacketsLabelled, KindOf
      <4>2. packet.pkid \in Slot /\ packet.pkid \in unreleased
        BY <1>1, <3>2, WayTypes DEF Repeated
      <4>3. ~Awaited(packet.pkid)
        <5>1. Answer("pubrec", packet.pkid) \notin On(to_runtime)
          BY DEF Answer, Paired, Alone
        <5>2. SendPubRel(packet.pkid) \notin On(to_broker)
          <6> SUFFICES ASSUME SendPubRel(packet.pkid) \in On(to_broker) PROVE FALSE
            OBVIOUS
          <6>1. SendPubRel(packet.pkid).packet = "pubrel" /\ SendPubRel(packet.pkid).pkid = packet.pkid
            BY <4>2, PubRelPacket
          <6>2. SendPubRel(packet.pkid) = packet
            BY <6>1, SinglePacket DEF Paired, Alone
          <6> QED BY <1>5, <6>1, <6>2
        <5> QED BY <5>1, <5>2 DEF Awaited
      <4>4. drops # 0 /\ ~clean_session
        BY <4>2, <4>3 DEF Paired, Waiting, Undisturbed
      <4>5. Known(packet.id)
        BY <1>1, <4>1, <4>4 DEF Known, EndToEndTypeOK
      <4> QED BY <1>2, <4>5
    <3> QED BY <1>5, <3>1, <3>2 DEF Answers
  <2> QED BY <1>3, <1>5, <2>1, <2>2 DEF FitsRuntime, Confirmed
<1>6. CASE packet.packet = "pubrel" /\ answer.type = "pubcomp"
  <2>1. Confirmed(packet.pkid) /\ outgoing_rel[packet.pkid]
    BY <1>1, <1>6 DEF FitsBroker
  <2> QED BY <1>2, <1>3, <1>6, <2>1 DEF FitsRuntime, Confirmed
<1>7. CASE packet.packet = "subscribe" /\ answer.type = "suback"
  <2>1. outgoing[packet.pkid].kind = "subscribe"
    BY <1>1, <1>7 DEF FitsBroker
  <2> QED BY <1>3, <1>7, <2>1 DEF FitsRuntime
<1> QED BY <1>4, <1>5, <1>6, <1>7 DEF Answers

\* A packet becomes its answer, and what the broker waits for stays on the way.
LEMMA PairedBroker ==
  ASSUME EndToEndInv, Paired, Broker
  PROVE  Paired'
<1>1. /\ EndToEndTypeOK /\ Single(to_broker) /\ Single(to_runtime)
      /\ to_broker \in Seq(SentPacket) /\ to_runtime \in Seq(FromBroker)
  BY DEF EndToEndInv, EndToEndTypeOK, SentPacket, Paired, Alone
<1>2. /\ UNCHANGED <<outgoing, outgoing_rel, error, finished, clean_session, drops>>
      /\ \E packet \in SentPacket, answer \in FromBroker : Exchanges(packet, answer)
  BY BrokerEffect DEF vars, store, history
<1>3. PICK packet \in SentPacket, answer \in FromBroker : Exchanges(packet, answer)
  BY <1>2
<1>4. /\ to_broker # <<>> /\ packet = Head(to_broker) /\ to_broker' = Tail(to_broker)
      /\ to_runtime' = Append(to_runtime, answer) /\ Answers(packet, answer)
      /\ answer = Answer(answer.type, packet.pkid)
  BY <1>3 DEF Exchanges
<1>5. answer.pkid = packet.pkid
  BY <1>4 DEF Answer
<1>6. /\ On(to_broker) = On(to_broker') \cup {packet} /\ Single(to_broker')
      /\ \A other \in On(to_broker') : other.pkid # packet.pkid
  BY <1>1, <1>4, OnTail
<1>7. \A other \in On(to_runtime) : other.pkid # packet.pkid
  BY <1>6 DEF Paired, Alone
<1>8. On(to_runtime') = On(to_runtime) \cup {answer} /\ Single(to_runtime')
  BY <1>1, <1>4, <1>5, <1>7, OnAppend
<1>9. \A id : Known(id) => Known(id)'
  BY <1>1, <1>2, <1>4, TakenKnown
<1>10. Alone'
  BY <1>5, <1>6, <1>7, <1>8 DEF Paired, Alone
<1>11. Fitting'
  <2>1. FitsRuntime(answer)'
    BY <1>2, <1>4, <1>5, <1>6, AnswerFits
  <2>2. \A other \in On(to_broker') : FitsBroker(other)'
    BY <1>2, <1>6, <1>9, FitsKept DEF Paired, Fitting
  <2>3. \A other \in On(to_runtime) : FitsRuntime(other)'
    BY <1>2, <1>9, FitsKept DEF Paired, Fitting
  <2> QED BY <1>8, <2>1, <2>2, <2>3 DEF Fitting
<1>12. Waiting'
  <2>1. \A q \in unreleased' :
          \/ q \in unreleased /\ (packet.packet = "pubrel" => q # packet.pkid)
          \/ q = packet.pkid /\ answer.type = "pubrec"
    BY <1>4 DEF Answers, Repeated
  <2>2. ASSUME NEW q \in unreleased, Awaited(q), packet.packet = "pubrel" => q # packet.pkid
        PROVE  Awaited(q)'
    <3>1. q \in Slot
      BY <1>1 DEF EndToEndTypeOK
    <3>2. SendPubRel(q).packet = "pubrel" /\ SendPubRel(q).pkid = q
      BY <3>1, PubRelPacket
    <3>3. SendPubRel(q) # packet
      BY <2>2, <3>2
    <3> QED BY <1>6, <1>8, <2>2, <3>3 DEF Awaited
  <2>3. answer.type = "pubrec" => Awaited(packet.pkid)'
    BY <1>4, <1>8 DEF Awaited
  <2> QED BY <1>2, <2>1, <2>2, <2>3 DEF Paired, Waiting, Undisturbed
<1>13. Marks'
  BY <1>2, <1>9 DEF Paired, Marks, Undisturbed, Confirmed
<1>14. \A id \in Reported' : Known(id)'
  BY <1>2, <1>9 DEF Paired, Reported
<1> QED BY <1>2, <1>10, <1>11, <1>12, <1>13, <1>14 DEF Paired

-----------------------------------------------------------------------------
(***************************************************************************)
(* Losses, the initial states, and the invariant.                          *)
(***************************************************************************)
\* Nothing was reported or is in a slot at the start, and nothing is on the way.
LEMMA EndToEndStart == EndToEndInit => EndToEndInv
<1> SUFFICES ASSUME EndToEndInit PROVE EndToEndInv
  OBVIOUS
<1>1. OwnerInv
  BY OwnerInit DEF EndToEndInit
<1>2. to_broker = <<>> /\ to_runtime = <<>> /\ On(to_broker) = {} /\ On(to_runtime) = {}
  BY DEF EndToEndInit, On
<1>3. EndToEndTypeOK
  BY <1>2, MaxLossesAssumption DEF EndToEndInit, EndToEndTypeOK
<1>4. KindsKept
  BY <1>2 DEF EndToEndInit, Init, KindsKept, OpsLabelled, PacketsLabelled, Occupied
<1>5. Counted
  <2>1. \A id \in Message : Copies(to_broker, id) = {}
    BY <1>2 DEF Copies
  <2>2. \A id \in Message : Sendings(id) = 0
    <3>1. \A id \in Message : taken[id] = 0
      BY DEF EndToEndInit
    <3>2. \A id \in Message : Cardinality(Copies(to_broker, id)) = 0
      BY <2>1, FS_EmptySet
    <3> QED BY <3>1, <3>2 DEF Sendings
  <2> QED BY <2>2 DEF Counted, EndToEndInit
<1>6. Paired
  <2>1. Alone /\ Fitting
    BY <1>2 DEF Alone, Single, Fitting
  <2>2. error = None /\ unreleased = {} /\ \A pkid \in Slot : ~outgoing_rel[pkid]
    BY DEF EndToEndInit, Init
  <2>3. Reported = {}
    BY QosAssumption DEF Reported, Message, EndToEndInit, Init
  <2> QED BY <2>1, <2>2, <2>3 DEF Paired, Waiting, Marks
<1> QED BY <1>1, <1>3, <1>4, <1>5, <1>6 DEF EndToEndInv

\* Giving up a connection allows one more sending of each message, and forgets the rest.
LEMMA LossEffect ==
  ASSUME EndToEndInv, Timeout \/ Replace
  PROVE  EndToEndTypeOK' /\ KindsKept' /\ Counted' /\ (timeouts' = 0 => Paired')
<1>1. /\ StoreInv /\ EndToEndTypeOK /\ KindsKept /\ Counted
      /\ to_broker \in Seq(SentPacket) /\ to_runtime \in Seq(FromBroker)
  BY DEF EndToEndInv, OwnerInv, EndToEndTypeOK, SentPacket
<1>2. /\ ConnectionLost(clean_session) /\ MayLose /\ UNCHANGED <<clean_session, taken>>
      /\ UNCHANGED <<error, finished>>
  BY DEF Timeout, Replace, broker, ConnectionLost, history
<1>3. timeouts \in Nat /\ drops \in Nat /\ timeouts + drops < MaxLosses
  BY <1>1, <1>2, MaxLossesAssumption DEF EndToEndTypeOK, MayLose
<1>4. \E t \in Nat, d \in Nat :
        /\ t = timeouts' /\ d = drops' /\ t + d <= MaxLosses
        /\ \A n \in Nat : n <= 1 + timeouts + drops => n <= t + d /\ n <= 1 + t + d
  <2>1. PICK t \in Nat, d \in Nat : t = timeouts /\ d = drops /\ t + d < MaxLosses
    BY <1>3
  <2>2. CASE timeouts' = t + 1 /\ drops' = d
    <3>1. /\ t + 1 \in Nat /\ t + 1 + d <= MaxLosses
          /\ \A n \in Nat : n <= 1 + t + d => n <= t + 1 + d /\ n <= 1 + (t + 1) + d
      BY <2>1, MaxLossesAssumption
    <3> QED BY <2>1, <2>2, <3>1
  <2>3. CASE timeouts' = t /\ drops' = d + 1
    <3>1. /\ d + 1 \in Nat /\ t + (d + 1) <= MaxLosses
          /\ \A n \in Nat : n <= 1 + t + d => n <= t + (d + 1) /\ n <= 1 + t + (d + 1)
      BY <2>1, MaxLossesAssumption
    <3> QED BY <2>1, <2>3, <3>1
  <2> QED BY <2>1, <2>2, <2>3 DEF Timeout, Replace
<1>5. UNCHANGED to_broker \/ to_broker' = <<>>
  BY DEF Timeout, Replace, network
<1>6. EndToEndTypeOK'
  <2>1. timeouts' \in 0 .. MaxLosses /\ drops' \in 0 .. MaxLosses
    <3>1. PICK t \in Nat, d \in Nat : t = timeouts' /\ d = drops' /\ t + d <= MaxLosses
      BY <1>4
    <3>2. t + d <= MaxLosses
      BY <3>1
    <3>3. t \in 0 .. MaxLosses /\ d \in 0 .. MaxLosses
      BY <3>2, MaxLossesAssumption
    <3> QED BY <3>1, <3>3
  <2>2. unreleased' \subseteq Slot \ {0}
    <3>1. unreleased' = {} \/ unreleased' = unreleased
      BY DEF Timeout, Replace, broker
    <3> QED BY <1>1, <3>1 DEF EndToEndTypeOK
  <2>3. to_broker' \in Seq(SentPacket)
    <3>1. <<>> \in Seq(SentPacket)
      OBVIOUS
    <3> QED BY <1>1, <1>5, <3>1
  <2>4. to_runtime' \in Seq(FromBroker)
    <3>1. to_runtime' = <<>> \/ to_runtime' = to_runtime
      BY DEF Timeout, Replace, network
    <3>2. <<>> \in Seq(FromBroker)
      OBVIOUS
    <3> QED BY <1>1, <3>1, <3>2
  <2> QED BY <1>1, <1>2, <2>1, <2>2, <2>3, <2>4 DEF EndToEndTypeOK, SentPacket
<1>7. KindsKept'
  <2>1. OpsLabelled'
    BY <1>1, <1>2, LostLabelled DEF KindsKept
  <2>2. On(to_broker') \subseteq On(to_broker)
    BY <1>5 DEF On
  <2> QED BY <1>1, <2>1, <2>2 DEF KindsKept, PacketsLabelled
<1>8. Counted'
  <2>1. ASSUME NEW id \in Message
        PROVE  \E after \in Nat : after = Sendings(id)' /\ after <= Sendings(id)
    <3>1. taken[id] \in Nat /\ Cardinality(Copies(to_broker, id)) \in Nat
      BY <1>1, CopiesType DEF EndToEndTypeOK
    <3>2. CASE UNCHANGED to_broker
      BY <1>2, <3>1, <3>2 DEF Sendings
    <3>3. CASE to_broker' = <<>>
      <4>1. Copies(to_broker', id) = {}
        BY <3>3 DEF Copies
      <4>2. Cardinality(Copies(to_broker', id)) = 0
        BY <4>1, FS_EmptySet
      <4>3. Sendings(id)' = taken[id]
        BY <1>2, <3>1, <4>2 DEF Sendings
      <4> QED BY <3>1, <4>3 DEF Sendings
    <3> QED BY <1>5, <3>2, <3>3
  <2>2. PICK t \in Nat, d \in Nat :
          /\ t = timeouts' /\ d = drops'
          /\ \A n \in Nat : n <= 1 + timeouts + drops => n <= t + d /\ n <= 1 + t + d
    BY <1>4
  <2>3. ASSUME NEW id \in Message
        PROVE  Sendings(id)' <= 1 + t + d /\ Sendings(id)' <= t + d
    <3>1. PICK after \in Nat : after = Sendings(id)' /\ after <= Sendings(id)
      BY <2>1
    <3>2. Sendings(id) \in Nat /\ Sendings(id) <= 1 + timeouts + drops
      BY <1>1, SendingsType DEF Counted
    <3>3. after <= 1 + timeouts + drops
      BY <1>3, <3>1, <3>2
    <3>4. after <= 1 + t + d /\ after <= t + d
      BY <2>2, <3>3
    <3> QED BY <3>1, <3>4
  <2> QED BY <2>2, <2>3 DEF Counted
<1>9. ASSUME timeouts' = 0 PROVE Paired'
  <2>1. Replace /\ timeouts = 0 /\ Paired
    BY <1>3, <1>9 DEF Timeout, Replace, EndToEndInv
  <2>2. /\ to_broker' = <<>> /\ to_runtime' = <<>> /\ drops' > 0 /\ drops' # 0
        /\ clean_session' =>
             /\ unreleased' = {}
             /\ \A pkid \in Slot : ~outgoing_rel'[pkid]
    BY <1>2, <1>3, <2>1 DEF Replace, ConnectionLost
  <2>3. Alone' /\ Fitting' /\ Waiting' /\ Marks'
    BY <2>2 DEF Alone, Single, Fitting, On, Waiting, Undisturbed, Marks
  <2>4. \A id \in Reported' : Known(id)'
    BY <1>2, <2>1, <2>2 DEF Paired, Reported, Known
  <2>5. error' = None
    BY <1>2, <2>1 DEF Paired
  <2> QED BY <2>3, <2>4, <2>5 DEF Paired
<1> QED BY <1>6, <1>7, <1>8, <1>9

\* Every step keeps the invariant.
LEMMA EndToEndStep == EndToEndInv /\ [EndToEndNext]_allVars => EndToEndInv'
<1> SUFFICES ASSUME EndToEndInv, [EndToEndNext]_allVars PROVE EndToEndInv'
  OBVIOUS
<1>1. OwnerInv'
  BY RuntimeSteps, OwnerStep DEF EndToEndInv
<1>2. CASE Handles
  <2>1. EndToEndTypeOK' /\ KindsKept' /\ Counted'
    BY <1>1, <1>2, HandlesTypes, HandlesLabelled, HandlesCounted DEF KindsKept
  <2>2. UNCHANGED timeouts
    BY <1>2, HandlesKeeps DEF EndToEndInv
  <2>3. Paired => Paired'
    BY <1>2, PairedSends, PairedReceive DEF Handles
  <2> QED BY <1>1, <2>1, <2>2, <2>3 DEF EndToEndInv
<1>3. CASE Timeout \/ Replace
  BY <1>1, <1>3, LossEffect DEF EndToEndInv
<1>4. CASE Broker
  <2>1. UNCHANGED timeouts
    BY <1>4, BrokerEffect
  <2> QED BY <1>1, <1>4, <2>1, BrokerCounts, PairedBroker DEF EndToEndInv
<1>5. CASE UNCHANGED allVars
  <2>1. UNCHANGED <<vars, clean_session, network, unreleased, taken, timeouts, drops>>
    BY <1>5 DEF allVars, broker, losses
  <2>2. /\ UNCHANGED <<outgoing, outgoing_rel, error, finished, collision, pending, replay, submitted,
                       to_broker, to_runtime>>
    BY <2>1 DEF vars, store, history, network
  <2>3. EndToEndTypeOK' /\ KindsKept'
    BY <2>1, <2>2 DEF EndToEndInv, EndToEndTypeOK, KindsKept, OpsLabelled, PacketsLabelled, Labelled,
                      Occupied
  <2>4. Counted'
    <3>1. \A id : Unsent(id)' <=> Unsent(id)
      BY <2>2 DEF Unsent, CollisionIds, PendingIds, ReplayIds
    <3>2. \A id : Sendings(id)' = Sendings(id)
      BY <2>1, <2>2 DEF Sendings
    <3> QED BY <2>1, <3>1, <3>2 DEF EndToEndInv, Counted
  <2>5. Paired => Paired'
    BY <2>1, <2>2, PairedStays
  <2> QED BY <1>1, <2>1, <2>3, <2>4, <2>5 DEF EndToEndInv
<1> QED BY <1>2, <1>3, <1>4, <1>5 DEF EndToEndNext, Runtime, Handles

\* A step of the runtime pushes two actions at most, so that Transmit misses none.
LEMMA AtMostTwo ==
  ASSUME Next
  PROVE  \/ actions' = <<>> \/ \E a : actions' = <<a>> \/ \E b, c : actions' = <<b, c>>
<1>1. ASSUME NEW op, TrackAndSend(op) \/ SendUntracked(op)
      PROVE  actions' = <<>> \/ \E a : actions' = <<a>>
  BY <1>1 DEF TrackAndSend, SendUntracked, SendOp, SendNothing
<1>2. ASSUME NEW id \in OpId, NEW kind \in Kind, Command(id, kind)
      PROVE  actions' = <<>> \/ \E a : actions' = <<a>>
  BY <1>1, <1>2 DEF Command, CommandOffline, CommandUntracked, CommandTracked, SendNothing
<1>3. ASSUME NEW pkid \in WirePkid, Incoming(pkid)
      PROVE  \/ actions' = <<>> \/ \E a : actions' = <<a>> \/ \E b, c : actions' = <<b, c>>
  BY <1>3 DEF Incoming, PubAck, PubRec, PubComp, SubAck, UnsubAck, FilterAck, ReleaseAndPromote, Fail,
              UnsolicitedAck, UnsolicitedPubRec, UnsolicitedPubComp, OutOfRange
<1>4. ASSUME Replay
      PROVE  actions' = <<>> \/ \E a : actions' = <<a>>
  BY <1>1, <1>4 DEF Replay
<1> QED BY <1>2, <1>3, <1>4 DEF Next, ConnectionLost, ConnectionRestored

-----------------------------------------------------------------------------
(***************************************************************************)
(* The invariant holds always, whatever the window, the operations and the *)
(* bound on losses.                                                        *)
(***************************************************************************)
LEMMA AlwaysEndToEnd == EndToEndSpec => []EndToEndInv
BY EndToEndStart, EndToEndStep, PTL DEF EndToEndSpec

(***************************************************************************)
(* What is on the way always has the shape of a packet of the runtime or   *)
(* an answer of the broker, and names an identifier of the pool.           *)
(***************************************************************************)
THEOREM EndToEndTypes == EndToEndSpec => []EndToEndTypeOK
<1>1. EndToEndInv => EndToEndTypeOK
  BY DEF EndToEndInv
<1> QED BY <1>1, AlwaysEndToEnd, PTL

(***************************************************************************)
(* With a broker that keeps to the protocol, no answer ends the runtime    *)
(* thread unless a keepalive timeout gave up a connection that was alive:  *)
(* handle_event's UnsolicitedAck, UnsolicitedPubRec, UnsolicitedPubComp    *)
(* and InvalidCommand are out of reach over any number of collisions,      *)
(* promotions, deferrals and replaced connections.                         *)
(***************************************************************************)
THEOREM ThreadSurvives == EndToEndSpec => []EndedOnlyAfterTimeout
<1>1. EndToEndInv => EndedOnlyAfterTimeout
  BY MaxLossesAssumption DEF EndToEndInv, EndToEndTypeOK, Paired, EndedOnlyAfterTimeout
<1> QED BY <1>1, AlwaysEndToEnd, PTL

(***************************************************************************)
(* A publish that complete_if_matches reports was taken by the broker,     *)
(* but for the two histories that ReportedMeansTaken names.                *)
(***************************************************************************)
THEOREM ReportsTruthful == EndToEndSpec => []ReportedMeansTaken
<1>1. EndToEndInv => ReportedMeansTaken
  BY MaxLossesAssumption DEF EndToEndInv, EndToEndTypeOK, Paired, Known, ReportedMeansTaken
<1> QED BY <1>1, AlwaysEndToEnd, PTL

(***************************************************************************)
(* The broker takes a message once, and once more for each connection that *)
(* was given up: promote_collision, the deferrals of try_insert and        *)
(* resend_pending_on_reconnect never send one twice on one connection.     *)
(***************************************************************************)
THEOREM TakenBounded == EndToEndSpec => []TakenPerLoss
<1>1. ASSUME EndToEndInv PROVE TakenPerLoss
  <2> SUFFICES ASSUME NEW id \in Message PROVE taken[id] <= 1 + timeouts + drops
    BY DEF TakenPerLoss
  <2>1. /\ taken[id] \in Nat /\ timeouts \in Nat /\ drops \in Nat
        /\ Sendings(id) <= 1 + timeouts + drops
    BY <1>1, MaxLossesAssumption DEF EndToEndInv, EndToEndTypeOK, Counted
  <2>2. Cardinality(Copies(to_broker, id)) \in Nat
    BY <1>1, CopiesType DEF EndToEndInv, EndToEndTypeOK
  <2> QED BY <2>1, <2>2 DEF Sendings
<1> QED BY <1>1, AlwaysEndToEnd, PTL

(***************************************************************************)
(* Until a timeout, and with a session that is forgotten together with the *)
(* pool, outgoing_rel marks a slot that holds a QoS 2 publish the broker   *)
(* took, and no more than once for each connection.                        *)
(***************************************************************************)
THEOREM MarksTruthful == EndToEndSpec => []MarkTruthful
<1>1. ASSUME EndToEndInv PROVE MarkTruthful
  <2> SUFFICES ASSUME timeouts = 0, Undisturbed, NEW pkid \in Slot, outgoing_rel[pkid]
               PROVE  /\ outgoing[pkid] # None
                      /\ outgoing[pkid].kind = "qos2"
                      /\ taken[outgoing[pkid].id] \in 1 .. 1 + drops
    BY DEF MarkTruthful, Undisturbed
  <2>1. outgoing[pkid] # None /\ Confirmed(pkid)
    BY <1>1 DEF EndToEndInv, Paired, Marks
  <2>2. Labelled(outgoing[pkid])
    BY <1>1, <2>1 DEF EndToEndInv, KindsKept, OpsLabelled, Occupied
  <2>3. PICK id \in Message : id = outgoing[pkid].id
    BY <2>1, <2>2 DEF Confirmed, Labelled, KindOf, Message
  <2>4. PICK d \in Nat : d = drops
    BY <1>1, MaxLossesAssumption DEF EndToEndInv, EndToEndTypeOK
  <2>5. taken[id] > 0
    BY <2>1, <2>3, <2>4 DEF Confirmed, Known, Undisturbed
  <2>6. taken[id] \in Nat /\ Cardinality(Copies(to_broker, id)) \in Nat
    BY <1>1, CopiesType DEF EndToEndInv, EndToEndTypeOK
  <2>7. taken[id] + Cardinality(Copies(to_broker, id)) <= 1 + d
    BY <1>1, <2>4 DEF EndToEndInv, Counted, Sendings
  <2>8. taken[id] \in 1 .. 1 + d
    BY <2>5, <2>6, <2>7
  <2> QED BY <2>1, <2>3, <2>4, <2>8 DEF Confirmed
<1> QED BY <1>1, AlwaysEndToEnd, PTL

-----------------------------------------------------------------------------
(***************************************************************************)
(* A recorded collision.                                                   *)
(***************************************************************************)
\* try_insert records one for an occupied slot, and empties none.
LEMMA TrackBlocks ==
  ASSUME TypeOK, CollisionBlocked, NEW op \in Operation, TrackAndSend(op), UNCHANGED error
  PROVE  CollisionBlocked'
<1>1. UNCHANGED finished
  BY DEF TrackAndSend
<1>2. \A i : outgoing[i] # None => outgoing'[i] # None
  BY NoneAssumption DEF TrackAndSend, Track, TryInsert, Accepts, TypeOK
<1>3. collision' = collision \/ (collision' = op /\ outgoing[op.pkid] # None)
  BY DEF TrackAndSend, Track, TryInsert, Collides
<1> QED BY <1>1, <1>2, <1>3 DEF CollisionBlocked

\* A slot is freed by promoting what waits for it, or by a SUBACK, or the thread ends.
LEMMA DispatchBlocks ==
  ASSUME EndToEndInv, CollisionBlocked, NEW answer \in FromBroker, Dispatch(answer)
  PROVE  CollisionBlocked'
<1>1. /\ TypeOK /\ KindsKept /\ inflight \in 0 .. MaxInflight
      /\ MaxInflight \in Nat
  BY MaxInflightAssumption DEF EndToEndInv, OwnerInv, StoreInv, TypeOK
<1>2. PICK pkid \in Slot : pkid = answer.pkid
  BY DEF FromBroker
<1>3. CASE PubAck(pkid) \/ PubComp(pkid)
  <2>1. PICK ack : ReleaseAndPromote(pkid, ack) /\ UNCHANGED error /\ outgoing[pkid] # None
    BY <1>3 DEF PubAck, PubComp, Held
  <2>2. Promotes(pkid) <=> Waits(pkid)
    BY <1>1 DEF Promotes
  <2>3. PICK op \in Operation : op = outgoing[pkid]
    BY <1>1, <1>2, <2>1 DEF TypeOK
  <2>4. \A id \in OpId : finished[id] > 0 => finished'[id] > 0
    BY <1>1, <2>1, <2>3 DEF ReleaseAndPromote, TypeOK
  <2>5. collision' # None => UNCHANGED collision /\ collision.pkid # pkid
    BY <2>1 DEF ReleaseAndPromote, CollisionAfter, Waits
  <2>6. \A i : i # pkid => outgoing'[i] = outgoing[i]
    BY <1>1, <2>1 DEF ReleaseAndPromote, TypeOK
  <2> QED BY <2>1, <2>4, <2>5, <2>6 DEF CollisionBlocked
<1>4. CASE PubRec(pkid)
  BY <1>4 DEF PubRec, history, CollisionBlocked
<1>5. CASE SubAck(pkid) /\ error' = None
  <2>0. None # "InvalidCommand"
    BY NoneAssumption DEF Error
  <2>1. PICK op \in Operation :
          /\ op = outgoing[pkid] /\ pkid \in Occupied /\ op.kind = "subscribe"
          /\ finished' = [finished EXCEPT ![op.id] = @ + 1]
    BY <1>1, <1>2, <1>5, <2>0 DEF SubAck, FilterAck, Held, Fail, Occupied, TypeOK
  <2>2. op.id \in OpId \ Message
    <3>1. Labelled(op)
      BY <1>1, <2>1 DEF KindsKept, OpsLabelled
    <3> QED BY <2>1, <3>1 DEF Labelled, KindOf, Message, Operation
  <2>3. PICK id \in OpId \ Message : id = op.id
    BY <2>2
  <2>4. finished[id] \in Nat /\ finished'[id] = finished[id] + 1
    BY <1>1, <2>1, <2>3 DEF TypeOK
  <2>5. finished'[id] > 0
    BY <2>4
  <2> QED BY <2>3, <2>5 DEF CollisionBlocked
<1>6. CASE error' # None
  BY <1>6 DEF CollisionBlocked
<1>7. CASE Refusal(pkid)
  <2>1. \E e \in Error : Fail(e)
    BY <1>7 DEF Refusal, UnsolicitedAck, UnsolicitedPubRec, UnsolicitedPubComp, OutOfRange, Error
  <2>2. error' # None
    BY <2>1, NoneAssumption DEF Fail
  <2> QED BY <2>2 DEF CollisionBlocked
<1> QED BY <1>2, <1>3, <1>4, <1>5, <1>6, <1>7 DEF Dispatch, Refusal

(***************************************************************************)
(* While the thread runs, promote_collision never leaves a collision       *)
(* behind for a slot that an acknowledgement of a publish has freed; only  *)
(* on_suback_checked, which does not call it, does.                        *)
(***************************************************************************)
THEOREM CollisionsBlocked == EndToEndSpec => []CollisionBlocked
<1>1. EndToEndInit => CollisionBlocked
  BY DEF EndToEndInit, Init, CollisionBlocked
<1>2. ASSUME EndToEndInv, CollisionBlocked, [EndToEndNext]_allVars
      PROVE  CollisionBlocked'
  <2>1. TypeOK /\ StoreInv /\ KindsKept
    BY <1>2 DEF EndToEndInv, OwnerInv, StoreInv
  <2>2. CASE ClientCommand
    <3>1. PICK id \in OpId : Command(id, KindOf(id))
      BY <2>2 DEF ClientCommand
    <3>2. PICK op \in Operation :
            /\ \/ TrackAndSend(op)
               \/ UNCHANGED <<outgoing, collision>>
            /\ UNCHANGED <<error, finished>>
      BY <2>1, <3>1, CommandOp
    <3>3. CASE TrackAndSend(op)
      BY <1>2, <2>1, <3>2, <3>3, TrackBlocks
    <3>4. CASE UNCHANGED <<outgoing, collision>>
      BY <1>2, <3>2, <3>4 DEF CollisionBlocked
    <3> QED BY <3>2, <3>3, <3>4
  <2>3. CASE Receive
    BY <1>2, <2>3, HeadAnswer, DispatchBlocks DEF Receive, EndToEndInv
  <2>4. CASE Resend
    <3>1. /\ Reinjected \in Operation /\ Reinjected.kind # "qos0"
      BY <2>1, <2>4, WaitingPkids DEF Resend, Replay
    <3>2. TrackAndSend(Reinjected) /\ UNCHANGED error
      BY <2>4, <3>1 DEF Resend, Replay
    <3> QED BY <1>2, <2>1, <3>1, <3>2, TrackBlocks
  <2>5. CASE Restore
    BY <1>2, <2>5 DEF Restore, ConnectionRestored, history, CollisionBlocked
  <2>6. CASE Timeout \/ Replace
    BY <2>6 DEF Timeout, Replace, ConnectionLost, CollisionBlocked
  <2>7. CASE Broker
    BY <1>2, <2>7, BrokerEffect DEF vars, store, history, CollisionBlocked
  <2>8. CASE UNCHANGED allVars
    BY <1>2, <2>8 DEF allVars, vars, store, history, CollisionBlocked
  <2> QED BY <1>2, <2>2, <2>3, <2>4, <2>5, <2>6, <2>7, <2>8 DEF EndToEndNext, Runtime
<1> QED BY <1>1, <1>2, AlwaysEndToEnd, PTL DEF EndToEndSpec
=============================================================================
