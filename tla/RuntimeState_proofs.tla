------------------------ MODULE RuntimeState_proofs ------------------------
EXTENDS RuntimeState, FiniteSetTheorems, TLAPS

(***************************************************************************)
(* Small facts about the sequences of actions a step pushes.               *)
(***************************************************************************)
LEMMA SendType ==
  ASSUME NEW op \in Operation, NEW dup \in BOOLEAN
  PROVE  Send(op, dup) \in DriverAction
BY DEF Send, DriverAction, Operation

\* A completion is a driver action.
LEMMA CompleteForType ==
  ASSUME NEW op \in Operation, NEW ack \in {"PubAck", "PubComp", "SubAck", "UnsubAck"}
  PROVE  CompleteFor(op, ack) \in DriverAction
BY DEF CompleteFor, DriverAction, Operation

\* A PUBREL is a driver action.
LEMMA SendPubRelType ==
  ASSUME NEW pkid \in Slot
  PROVE  SendPubRel(pkid) \in DriverAction
BY DEF SendPubRel, DriverAction

\* The pool hands out 1 to MaxInflight, never 0.
LEMMA NextCandidateType ==
  ASSUME last_pkid \in Slot
  PROVE  NextCandidate \in Slot \ {0}
BY MaxInflightAssumption DEF NextCandidate, Slot

\* A new operation has the identity and kind of its command, and an identifier if it needs one.
LEMMA NewOpType ==
  ASSUME TypeOK, NEW id \in OpId, NEW kind \in Kind
  PROVE  /\ NewOp(id, kind) \in Operation
         /\ NewOp(id, kind).id = id
         /\ NewOp(id, kind).kind = kind
         /\ kind # "qos0" => NewOp(id, kind).pkid # 0
BY NextCandidateType, MaxInflightAssumption DEF TypeOK, NewOp, Operation, Slot

\* A replayed operation differs from the one that waited in its dup flag alone.
LEMMA ReinjectedType ==
  ASSUME TypeOK, replay # <<>>
  PROVE  /\ Reinjected \in Operation
         /\ Reinjected.id = Head(replay).id
         /\ Reinjected.kind = Head(replay).kind
         /\ Reinjected.pkid = Head(replay).pkid
<1>1. Head(replay) \in Operation
  BY DEF TypeOK
<1>2. QED
  BY <1>1 DEF Reinjected, Operation, IsPublish

(***************************************************************************)
(* The part of TypeOK about the variables that the handling of one         *)
(* operation moves.                                                        *)
(***************************************************************************)
MovedTypeOK ==
  /\ outgoing \in [Slot -> Operation \cup {None}]
  /\ inflight \in 0 .. MaxInflight
  /\ collision \in Operation \cup {None}
  /\ pending \in Seq(Operation)
  /\ actions \in Seq(DriverAction)
  /\ transmitted \subseteq OpId
  /\ finished \in [OpId -> Nat]

\* Sending an operation keeps the types.
LEMMA SendOpType ==
  ASSUME TypeOK, NEW op \in Operation, NEW dup \in BOOLEAN, SendOp(op, dup)
  PROVE  actions' \in Seq(DriverAction) /\ transmitted' \subseteq OpId
<1>1. op.id \in OpId
  BY DEF Operation
<1>2. QED
  BY <1>1, SendType DEF SendOp, TypeOK

\* Tracking an operation keeps the types, whatever try_insert answers.
LEMMA TrackAndSendType ==
  ASSUME TypeOK, NEW op \in Operation, TrackAndSend(op)
  PROVE  MovedTypeOK'
<1>1. op.pkid \in Slot /\ op.dup \in BOOLEAN
  BY DEF Operation
<1>2. inflight' \in 0 .. MaxInflight
  BY MaxInflightAssumption DEF TrackAndSend, Track, TryInsert, Accepts, TypeOK
<1>3. outgoing' \in [Slot -> Operation \cup {None}] /\ collision' \in Operation \cup {None}
  BY <1>1 DEF TrackAndSend, Track, TryInsert, TypeOK
<1>4. pending' \in Seq(Operation)
  BY DEF TrackAndSend, Track, TypeOK
<1>5. actions' \in Seq(DriverAction) /\ transmitted' \subseteq OpId
  <2>1. CASE Accepts(op)
    BY <1>1, <2>1, SendOpType DEF TrackAndSend
  <2>2. CASE ~Accepts(op)
    BY <2>2 DEF TrackAndSend, SendNothing, TypeOK
  <2>3. QED
    BY <2>1, <2>2
<1>6. QED
  BY <1>2, <1>3, <1>4, <1>5 DEF TrackAndSend, MovedTypeOK, TypeOK

\* Sending a QoS 0 publish keeps the types.
LEMMA SendUntrackedType ==
  ASSUME TypeOK, NEW op \in Operation, SendUntracked(op)
  PROVE  MovedTypeOK'
<1>1. op.id \in OpId /\ op.dup \in BOOLEAN
  BY DEF Operation
<1>2. actions' \in Seq(DriverAction) /\ transmitted' \subseteq OpId
  BY <1>1, SendOpType DEF SendUntracked
<1>3. finished' \in [OpId -> Nat]
  <2>1. finished[op.id] + 1 \in Nat
    BY <1>1 DEF TypeOK
  <2>2. QED
    BY <2>1 DEF SendUntracked, TypeOK
<1>4. QED
  BY <1>2, <1>3 DEF SendUntracked, MovedTypeOK, TypeOK

\* Releasing a slot keeps the types, whether or not a collision moves in.
LEMMA ReleaseType ==
  ASSUME TypeOK, NEW pkid \in Slot, Held(pkid), inflight > 0,
         NEW ack \in {"PubAck", "PubComp"},
         ReleaseAndPromote(pkid, ack), UNCHANGED pending
  PROVE  MovedTypeOK'
<1>1. outgoing[pkid] \in Operation
  BY DEF TypeOK, Held
<1>2. Promotes(pkid) => collision \in Operation
  BY DEF Promotes, Waits, TypeOK
<1>3. outgoing' \in [Slot -> Operation \cup {None}]
  BY <1>2 DEF ReleaseAndPromote, TypeOK
<1>4. inflight' \in 0 .. MaxInflight
  BY MaxInflightAssumption DEF ReleaseAndPromote, TypeOK
<1>5. collision' \in Operation \cup {None}
  BY DEF ReleaseAndPromote, CollisionAfter, TypeOK
<1>6. CompleteFor(outgoing[pkid], ack) \in DriverAction
  BY <1>1, CompleteForType
<1>7. finished' \in [OpId -> Nat]
  <2>1. outgoing[pkid].id \in OpId
    BY <1>1 DEF Operation
  <2>2. finished[outgoing[pkid].id] + 1 \in Nat
    BY <2>1 DEF TypeOK
  <2>3. QED
    BY <2>2 DEF ReleaseAndPromote, TypeOK
<1>8. actions' \in Seq(DriverAction) /\ transmitted' \subseteq OpId
  <2>1. CASE Promotes(pkid)
    <3>1. collision \in Operation
      BY <1>2, <2>1
    <3>2. collision.id \in OpId /\ (collision.dup \/ IsPublish(collision)) \in BOOLEAN
      BY <3>1 DEF Operation
    <3>3. Send(collision, collision.dup \/ IsPublish(collision)) \in DriverAction
      BY <3>1, <3>2, SendType
    <3>4. /\ actions' = <<CompleteFor(outgoing[pkid], ack),
                          Send(collision, collision.dup \/ IsPublish(collision))>>
          /\ transmitted' = transmitted \cup {collision.id}
      BY <2>1 DEF ReleaseAndPromote
    <3>5. QED
      BY <1>6, <3>2, <3>3, <3>4 DEF TypeOK
  <2>2. CASE ~Promotes(pkid)
    <3>1. actions' = <<CompleteFor(outgoing[pkid], ack)>> /\ UNCHANGED transmitted
      BY <2>2 DEF ReleaseAndPromote
    <3>2. QED
      BY <1>6, <3>1 DEF TypeOK
  <2>3. QED
    BY <2>1, <2>2
<1>9. QED
  BY <1>3, <1>4, <1>5, <1>7, <1>8 DEF MovedTypeOK, TypeOK

-----------------------------------------------------------------------------
(***************************************************************************)
(* The counter and the slots.                                              *)
(***************************************************************************)
LEMMA OccupiedFinite ==
  /\ IsFiniteSet(Occupied)
  /\ Cardinality(Occupied) \in Nat
  /\ Cardinality(Occupied) = 0 <=> Occupied = {}
<1>1. IsFiniteSet(Slot)
  BY FS_Interval, MaxInflightAssumption DEF Slot
<1>2. IsFiniteSet(Occupied)
  BY <1>1, FS_Subset DEF Occupied
<1>3. QED
  BY <1>2, FS_CardinalityType, FS_EmptySet

\* An acknowledgement that is accepted names an occupied slot, so the counter is positive.
LEMMA HeldCounted ==
  ASSUME TypeOK, StoreConsistent, NEW pkid \in WirePkid, Held(pkid)
  PROVE  pkid \in Slot /\ pkid \in Occupied /\ inflight > 0 /\ outgoing[pkid] \in Operation
<1>1. pkid \in Slot /\ pkid \in Occupied /\ outgoing[pkid] \in Operation
  BY DEF Held, Occupied, TypeOK
<1>2. QED
  BY <1>1, OccupiedFinite DEF StoreConsistent

\* Filling an empty slot and emptying an occupied one.
LEMMA FillSlot ==
  ASSUME TypeOK, NEW op \in Operation, outgoing[op.pkid] = None,
         outgoing' = [outgoing EXCEPT ![op.pkid] = op]
  PROVE  /\ Occupied' = Occupied \cup {op.pkid}
         /\ Cardinality(Occupied') = Cardinality(Occupied) + 1
<1>1. op.pkid \in Slot /\ op # None
  BY NoneAssumption DEF Operation
<1>2. Occupied' = Occupied \cup {op.pkid} /\ op.pkid \notin Occupied
  BY <1>1 DEF Occupied, TypeOK
<1>3. QED
  BY <1>2, OccupiedFinite, FS_AddElement

\* Emptying a slot lowers the number of occupied ones by one.
LEMMA EmptySlot ==
  ASSUME TypeOK, NEW pkid \in Occupied, outgoing' = [outgoing EXCEPT ![pkid] = None]
  PROVE  /\ Occupied' = Occupied \ {pkid}
         /\ Cardinality(Occupied') = Cardinality(Occupied) - 1
<1>1. Occupied' = Occupied \ {pkid}
  BY DEF Occupied, TypeOK
<1>2. QED
  BY <1>1, OccupiedFinite, FS_RemoveElement

\* try_insert counts what it stores and stores it under its identifier.
LEMMA TrackAndSendStore ==
  ASSUME TypeOK, StoreConsistent, NEW op \in Operation, op.pkid # 0, TrackAndSend(op)
  PROVE  /\ inflight' = Cardinality(Occupied')
         /\ \A i \in Occupied' : outgoing'[i].pkid = i /\ i # 0
         /\ collision' # None => collision'.pkid # 0
         /\ \A k \in DOMAIN pending' : Identified(pending'[k])
<1>1. op.pkid \in Slot /\ Identified(op)
  BY DEF Operation, Identified
<1>2. /\ inflight' = Cardinality(Occupied')
      /\ \A i \in Occupied' : outgoing'[i].pkid = i /\ i # 0
  <2>1. CASE Accepts(op)
    <3>1. /\ outgoing[op.pkid] = None
          /\ outgoing' = [outgoing EXCEPT ![op.pkid] = op]
          /\ inflight' = inflight + 1
      BY <2>1 DEF TrackAndSend, Track, TryInsert, Accepts
    <3>2. QED
      BY <1>1, <3>1, FillSlot DEF StoreConsistent, TypeOK, Occupied
  <2>2. CASE ~Accepts(op)
    <3>1. UNCHANGED <<outgoing, inflight>>
      BY <2>2 DEF TrackAndSend, Track, TryInsert
    <3>2. QED
      BY <3>1 DEF StoreConsistent, Occupied
  <2>3. QED
    BY <2>1, <2>2
<1>3. collision' # None => collision'.pkid # 0
  BY DEF TrackAndSend, Track, TryInsert, StoreConsistent
<1>4. \A k \in DOMAIN pending' : Identified(pending'[k])
  BY <1>1 DEF TrackAndSend, Track, StoreConsistent, TypeOK
<1>5. QED
  BY <1>2, <1>3, <1>4

\* release_ack and promote_collision keep the counter equal to the occupied slots.
LEMMA ReleaseStore ==
  ASSUME TypeOK, StoreConsistent, NEW pkid \in WirePkid, Held(pkid), NEW ack,
         ReleaseAndPromote(pkid, ack), UNCHANGED <<pending, replay>>
  PROVE  StoreConsistent'
<1>1. pkid \in Slot /\ pkid \in Occupied /\ inflight > 0 /\ pkid # 0
  BY HeldCounted DEF StoreConsistent
<1>2. /\ inflight' = Cardinality(Occupied')
      /\ \A i \in Occupied' : outgoing'[i].pkid = i /\ i # 0
  <2>1. CASE Promotes(pkid)
    <3>1. /\ outgoing' = [outgoing EXCEPT ![pkid] = collision]
          /\ inflight' = inflight
          /\ collision # None /\ collision.pkid = pkid
      BY <2>1 DEF ReleaseAndPromote, Promotes, Waits
    <3>2. Occupied' = Occupied
      BY <1>1, <3>1 DEF Occupied, TypeOK
    <3>3. QED
      BY <1>1, <3>1, <3>2 DEF StoreConsistent, TypeOK, Occupied
  <2>2. CASE ~Promotes(pkid)
    <3>1. /\ outgoing' = [outgoing EXCEPT ![pkid] = None]
          /\ inflight' = inflight - 1
      BY <2>2 DEF ReleaseAndPromote
    <3>2. Occupied' = Occupied \ {pkid} /\ Cardinality(Occupied') = Cardinality(Occupied) - 1
      BY <1>1, <3>1, EmptySlot
    <3>3. QED
      BY <3>1, <3>2 DEF StoreConsistent, TypeOK, Occupied
  <2>3. QED
    BY <2>1, <2>2
<1>3. collision' # None => collision'.pkid # 0
  BY DEF ReleaseAndPromote, CollisionAfter, StoreConsistent
<1>4. QED
  BY <1>2, <1>3 DEF StoreConsistent, Identified

-----------------------------------------------------------------------------
(***************************************************************************)
(* TypeOK and StoreConsistent are inductive together: the counter cannot   *)
(* be shown to stay above zero without knowing that it counts the slots.   *)
(***************************************************************************)
StoreInv == TypeOK /\ StoreConsistent

\* The initial states satisfy the invariant.
LEMMA StoreInit == Init => StoreInv
<1> SUFFICES ASSUME Init PROVE StoreInv
  OBVIOUS
<1>1. 0 \in Slot /\ 0 \in 0 .. MaxInflight
  BY MaxInflightAssumption DEF Slot
<1>2. TypeOK
  <2>1. outgoing \in [Slot -> Operation \cup {None}] /\ outgoing_rel \in [Slot -> BOOLEAN]
    BY DEF Init
  <2>2. pending \in Seq(Operation) /\ replay \in Seq(Operation) /\ actions \in Seq(DriverAction)
    BY DEF Init
  <2>3. finished \in [OpId -> Nat]
    BY DEF Init
  <2>4. QED
    BY <1>1, <2>1, <2>2, <2>3 DEF Init, TypeOK
<1>3. Occupied = {}
  BY DEF Init, Occupied
<1>4. QED
  BY <1>2, <1>3, FS_EmptySet DEF Init, StoreConsistent, StoreInv

\* DriverEvent::Command preserves the invariant.
LEMMA CommandStore ==
  ASSUME StoreInv, NEW id \in OpId, NEW kind \in Kind, Command(id, kind)
  PROVE  StoreInv'
<1> DEFINE op == NewOp(id, kind)
<1>1. op \in Operation /\ op.kind = kind /\ op.id = id /\ (kind # "qos0" => op.pkid # 0)
  BY NewOpType DEF StoreInv
<1> HIDE DEF op
<1>2. ASSUME Submit(id, kind)
      PROVE  /\ last_pkid' \in Slot /\ submitted' \subseteq OpId
             /\ UNCHANGED <<active, outgoing_rel, replay, error>>
  <2>1. last_pkid' \in Slot
    BY <1>2, NextCandidateType DEF Submit, StoreInv, TypeOK
  <2>2. submitted' \subseteq OpId
    BY <1>2 DEF Submit, StoreInv, TypeOK
  <2>3. QED
    BY <1>2, <2>1, <2>2 DEF Submit
<1>3. CASE CommandOffline(id, kind)
  <2>1. /\ pending' = Append(pending, op) /\ actions' = <<>>
        /\ UNCHANGED <<outgoing, inflight, collision, finished, transmitted>>
    BY <1>3 DEF CommandOffline, SendNothing, op
  <2>2. TypeOK'
    BY <1>1, <1>2, <1>3, <2>1 DEF CommandOffline, StoreInv, TypeOK
  <2>3. Identified(op)
    BY <1>1 DEF Identified
  <2>4. \A k \in DOMAIN pending' : Identified(pending'[k])
    BY <1>1, <2>1, <2>3 DEF StoreInv, StoreConsistent, TypeOK
  <2>5. QED
    BY <1>2, <1>3, <2>1, <2>2, <2>4
    DEF CommandOffline, StoreInv, StoreConsistent, Occupied
<1>4. CASE CommandUntracked(id, kind)
  <2>1. SendUntracked(op) /\ Submit(id, kind)
    BY <1>4 DEF CommandUntracked, op
  <2>2. MovedTypeOK'
    BY <1>1, <2>1, SendUntrackedType DEF StoreInv
  <2>3. TypeOK'
    BY <1>2, <2>1, <2>2 DEF StoreInv, TypeOK, MovedTypeOK
  <2>4. QED
    BY <1>2, <2>1, <2>3 DEF SendUntracked, StoreInv, StoreConsistent, Occupied
<1>5. CASE CommandTracked(id, kind)
  <2>1. TrackAndSend(op) /\ Submit(id, kind) /\ op.pkid # 0
    BY <1>1, <1>5 DEF CommandTracked, op
  <2>2. MovedTypeOK'
    BY <1>1, <2>1, TrackAndSendType DEF StoreInv
  <2>3. TypeOK'
    BY <1>2, <2>1, <2>2 DEF StoreInv, TypeOK, MovedTypeOK
  <2>4. UNCHANGED replay
    BY <1>2, <2>1
  <2>5. QED
    BY <1>1, <2>1, <2>3, <2>4, TrackAndSendStore DEF StoreInv, StoreConsistent
<1>6. QED
  BY <1>3, <1>4, <1>5 DEF Command

\* PUBACK and PUBCOMP preserve it.
LEMMA AckStore ==
  ASSUME StoreInv, NEW pkid \in WirePkid, PubAck(pkid) \/ PubComp(pkid)
  PROVE  StoreInv'
<1>1. pkid \in Slot /\ inflight > 0 /\ Held(pkid)
  BY HeldCounted DEF PubAck, PubComp, StoreInv
<1>2. PICK ack \in {"PubAck", "PubComp"} : ReleaseAndPromote(pkid, ack)
  BY DEF PubAck, PubComp
<1>3. UNCHANGED <<active, last_pkid, pending, replay, error, submitted>>
  BY DEF PubAck, PubComp
<1>4. outgoing_rel' \in [Slot -> BOOLEAN]
  BY DEF PubAck, PubComp, StoreInv, TypeOK
<1>5. MovedTypeOK'
  BY <1>1, <1>2, <1>3, ReleaseType DEF StoreInv
<1>6. TypeOK'
  BY <1>3, <1>4, <1>5 DEF StoreInv, TypeOK, MovedTypeOK
<1>7. StoreConsistent'
  BY <1>1, <1>2, <1>3, ReleaseStore DEF StoreInv
<1>8. QED
  BY <1>6, <1>7 DEF StoreInv

\* PUBREC preserves it.
LEMMA PubRecStore ==
  ASSUME StoreInv, NEW pkid \in WirePkid, PubRec(pkid)
  PROVE  StoreInv'
<1>1. SendPubRel(pkid) \in DriverAction
  BY SendPubRelType DEF PubRec, Held
<1>2. actions' \in Seq(DriverAction)
  BY <1>1 DEF PubRec
<1>3. TypeOK'
  BY <1>2 DEF PubRec, StoreInv, TypeOK, history
<1>4. QED
  BY <1>3 DEF PubRec, StoreInv, StoreConsistent, Occupied

\* SUBACK and UNSUBACK preserve it.
LEMMA FilterAckStore ==
  ASSUME StoreInv, NEW pkid \in WirePkid, NEW kind, NEW ack \in {"SubAck", "UnsubAck"},
         FilterAck(pkid, kind, ack)
  PROVE  StoreInv'
<1>1. pkid \in Slot /\ pkid \in Occupied /\ inflight > 0 /\ outgoing[pkid] \in Operation
  BY HeldCounted DEF FilterAck, StoreInv
<1>2. /\ outgoing' = [outgoing EXCEPT ![pkid] = None]
      /\ inflight' = inflight - 1
      /\ UNCHANGED <<active, last_pkid, collision, pending, outgoing_rel, replay, submitted,
                     transmitted>>
  BY DEF FilterAck
<1>3. actions' \in Seq(DriverAction) /\ finished' \in [OpId -> Nat] /\ error' \in Error \cup {None}
  <2>1. CASE outgoing[pkid].kind = kind
    <3>1. /\ actions' = <<CompleteFor(outgoing[pkid], ack)>>
          /\ finished' = [finished EXCEPT ![outgoing[pkid].id] = @ + 1]
          /\ UNCHANGED error
      BY <2>1 DEF FilterAck
    <3>2. CompleteFor(outgoing[pkid], ack) \in DriverAction
      BY <1>1, CompleteForType
    <3>3. finished[outgoing[pkid].id] + 1 \in Nat
      BY <1>1 DEF StoreInv, TypeOK, Operation
    <3>4. finished' \in [OpId -> Nat]
      BY <3>1, <3>3 DEF StoreInv, TypeOK
    <3>5. QED
      BY <3>1, <3>2, <3>4 DEF StoreInv, TypeOK
  <2>2. CASE outgoing[pkid].kind # kind
    <3>1. actions' = <<>> /\ error' = "InvalidCommand" /\ UNCHANGED finished
      BY <2>2 DEF FilterAck, Fail
    <3>2. QED
      BY <3>1 DEF Error, StoreInv, TypeOK
  <2>3. QED
    BY <2>1, <2>2
<1>4. TypeOK'
  <2>1. outgoing' \in [Slot -> Operation \cup {None}] /\ inflight' \in 0 .. MaxInflight
    BY <1>1, <1>2, MaxInflightAssumption DEF StoreInv, TypeOK
  <2>2. QED
    BY <1>2, <1>3, <2>1 DEF StoreInv, TypeOK
<1>5. Occupied' = Occupied \ {pkid} /\ Cardinality(Occupied') = Cardinality(Occupied) - 1
  BY <1>1, <1>2, EmptySlot DEF StoreInv
<1>6. \A i \in Occupied' : outgoing'[i].pkid = i /\ i # 0
  BY <1>2, <1>5 DEF StoreInv, StoreConsistent, TypeOK, Occupied
<1>7. QED
  BY <1>2, <1>4, <1>5, <1>6 DEF StoreInv, StoreConsistent

\* The early returns change nothing but the error.
Refusal(pkid) ==
  UnsolicitedAck(pkid) \/ UnsolicitedPubRec(pkid) \/ UnsolicitedPubComp(pkid) \/ OutOfRange(pkid)

\* What a refused acknowledgement changes.
LEMMA RefusalEffect ==
  ASSUME NEW pkid, Refusal(pkid)
  PROVE  /\ error' \in Error /\ actions' = <<>>
         /\ UNCHANGED <<active, last_pkid, store, replay, history>>
<1>1. CASE UnsolicitedAck(pkid)
  BY <1>1 DEF UnsolicitedAck, Fail, Error
<1>2. CASE UnsolicitedPubRec(pkid)
  BY <1>2 DEF UnsolicitedPubRec, Fail, Error
<1>3. CASE UnsolicitedPubComp(pkid)
  BY <1>3 DEF UnsolicitedPubComp, Fail, Error
<1>4. CASE OutOfRange(pkid)
  BY <1>4 DEF OutOfRange, Fail, Error
<1>5. QED
  BY <1>1, <1>2, <1>3, <1>4 DEF Refusal

\* A refused acknowledgement preserves the invariant.
LEMMA RefusalStore ==
  ASSUME StoreInv, NEW pkid, Refusal(pkid)
  PROVE  StoreInv'
<1>0. /\ error' \in Error /\ actions' = <<>>
      /\ UNCHANGED <<active, last_pkid, outgoing, inflight, collision, pending, outgoing_rel,
                     replay, submitted, transmitted, finished>>
  BY RefusalEffect DEF store, history
<1>1. TypeOK'
  BY <1>0 DEF StoreInv, TypeOK
<1>2. StoreConsistent'
  BY <1>0 DEF StoreInv, StoreConsistent, Occupied
<1>3. QED
  BY <1>1, <1>2 DEF StoreInv

-----------------------------------------------------------------------------
(***************************************************************************)
(* The queue that on_connection_lost leaves: what was pending, then the    *)
(* slots, each once, then the collision.                                   *)
(***************************************************************************)
Drained(slot) == [k \in DOMAIN slot |-> outgoing[slot[k]]]
CollisionQueue == IF collision # None THEN <<collision>> ELSE <<>>

\* on_connection_lost appends each occupied slot once, then the collision.
LEMMA LostQueue ==
  ASSUME StoreInv, NEW clean_session, ConnectionLost(clean_session)
  PROVE  \E slot \in Bijection(1 .. inflight, Occupied) :
           pending' = pending \o Drained(slot) \o CollisionQueue
<1>1. PICK slot \in [1 .. Cardinality(Occupied) -> Occupied] :
        /\ \A j, k \in DOMAIN slot : j < k => slot[j] < slot[k]
        /\ pending' = pending \o Drained(slot) \o CollisionQueue
  BY DEF ConnectionLost, Drained, CollisionQueue
<1>2. inflight = Cardinality(Occupied) /\ inflight \in Nat
  BY OccupiedFinite DEF StoreInv, StoreConsistent
<1>3. slot \in Injection(1 .. inflight, Occupied)
  <2>1. ASSUME NEW j \in 1 .. inflight, NEW k \in 1 .. inflight, slot[j] = slot[k]
        PROVE  j = k
    <3>1. slot[j] \in Int /\ slot[k] \in Int
      BY <1>1, <1>2, MaxInflightAssumption DEF Occupied, Slot
    <3>2. ~(j < k) /\ ~(k < j)
      BY <1>1, <1>2, <2>1, <3>1
    <3>3. QED
      BY <1>2, <3>2
  <2>2. QED
    BY <1>1, <1>2, <2>1 DEF Injection, IsInjective
<1>4. IsFiniteSet(1 .. inflight) /\ Cardinality(1 .. inflight) = inflight
  BY <1>2, FS_Interval
<1>5. slot \in Surjection(1 .. inflight, Occupied)
  BY <1>2, <1>3, <1>4, OccupiedFinite, FS_Injection
<1>6. QED
  BY <1>1, <1>3, <1>5 DEF Bijection

\* The operations of a concatenation are those of its parts.
LEMMA QueueType ==
  ASSUME StoreInv, NEW slot \in [1 .. inflight -> Occupied]
  PROVE  /\ Drained(slot) \in Seq(Operation) /\ Len(Drained(slot)) = inflight
         /\ \A k \in 1 .. inflight : Drained(slot)[k] = outgoing[slot[k]]
         /\ CollisionQueue \in Seq(Operation)
<1>1. inflight \in Nat
  BY OccupiedFinite DEF StoreInv, StoreConsistent
<1>2. \A k \in 1 .. inflight : outgoing[slot[k]] \in Operation
  BY DEF Occupied, StoreInv, TypeOK
<1>3. QED
  BY <1>1, <1>2 DEF Drained, CollisionQueue, StoreInv, TypeOK

\* ConnectionLost preserves the invariant.
LEMMA LostStore ==
  ASSUME StoreInv, NEW clean_session \in BOOLEAN, ConnectionLost(clean_session)
  PROVE  StoreInv'
<1>1. /\ active' = FALSE /\ collision' = None /\ inflight' = 0
      /\ outgoing' = [i \in Slot |-> None] /\ actions' = <<TriggerReconnect>>
      /\ UNCHANGED <<replay, error, submitted, transmitted, finished>>
  BY DEF ConnectionLost, history
<1>2. last_pkid' \in Slot /\ outgoing_rel' \in [Slot -> BOOLEAN]
  <2>1. 0 \in Slot
    BY MaxInflightAssumption DEF Slot
  <2>2. CASE clean_session
    <3>1. last_pkid' = 0 /\ outgoing_rel' = [i \in Slot |-> FALSE]
      BY <2>2 DEF ConnectionLost
    <3>2. QED
      BY <2>1, <3>1
  <2>3. CASE ~clean_session
    <3>1. UNCHANGED <<last_pkid, outgoing_rel>>
      BY <2>3 DEF ConnectionLost
    <3>2. QED
      BY <3>1 DEF StoreInv, TypeOK
  <2>4. QED
    BY <2>2, <2>3
<1>3. PICK slot \in Bijection(1 .. inflight, Occupied) :
        pending' = pending \o Drained(slot) \o CollisionQueue
  BY LostQueue
<1>4. slot \in [1 .. inflight -> Occupied]
  BY <1>3 DEF Bijection, Injection
<1>5. /\ Drained(slot) \in Seq(Operation) /\ Len(Drained(slot)) = inflight
      /\ \A k \in 1 .. inflight : Drained(slot)[k] = outgoing[slot[k]]
      /\ CollisionQueue \in Seq(Operation)
  BY <1>4, QueueType
<1>6. pending \in Seq(Operation)
  BY DEF StoreInv, TypeOK
<1>7. pending' \in Seq(Operation)
  BY <1>3, <1>5, <1>6
<1>8. TypeOK'
  <2>1. actions' \in Seq(DriverAction)
    BY <1>1 DEF DriverAction
  <2>2. outgoing' \in [Slot -> Operation \cup {None}] /\ inflight' \in 0 .. MaxInflight
    BY <1>1, MaxInflightAssumption
  <2>3. QED
    BY <1>1, <1>2, <1>7, <2>1, <2>2 DEF StoreInv, TypeOK
<1>9. Occupied' = {}
  BY <1>1 DEF Occupied
<1>10. \A k \in DOMAIN pending' : Identified(pending'[k])
  <2>1. \A k \in DOMAIN pending : Identified(pending[k])
    BY DEF StoreInv, StoreConsistent
  <2>2. \A k \in DOMAIN Drained(slot) : Identified(Drained(slot)[k])
    BY <1>4, <1>5 DEF StoreInv, StoreConsistent, Identified
  <2>3. \A k \in DOMAIN CollisionQueue : Identified(CollisionQueue[k])
    BY DEF StoreInv, StoreConsistent, CollisionQueue, Identified
  <2> HIDE DEF Identified
  <2>4. QED
    BY <1>3, <1>5, <1>6, <2>1, <2>2, <2>3
<1>11. QED
  BY <1>1, <1>8, <1>9, <1>10, FS_EmptySet DEF StoreInv, StoreConsistent

\* ConnectionRestored preserves it.
LEMMA RestoredStore ==
  ASSUME StoreInv, ConnectionRestored
  PROVE  StoreInv'
<1>1. /\ active' = TRUE /\ replay' = pending /\ pending' = <<>> /\ actions' = <<>>
      /\ UNCHANGED <<last_pkid, outgoing, inflight, collision, outgoing_rel, error,
                     submitted, transmitted, finished>>
  BY DEF ConnectionRestored, history
<1>2. TypeOK'
  BY <1>1 DEF StoreInv, TypeOK
<1>3. StoreConsistent'
  BY <1>1 DEF StoreInv, StoreConsistent, Occupied
<1>4. QED
  BY <1>2, <1>3 DEF StoreInv

\* An iteration of the replay loop preserves it.
LEMMA ReplayStore ==
  ASSUME StoreInv, Replay
  PROVE  StoreInv'
<1>1. /\ Reinjected \in Operation
      /\ Reinjected.kind # "qos0" => Reinjected.pkid # 0
  <2>1. /\ Reinjected \in Operation /\ Reinjected.kind = Head(replay).kind
        /\ Reinjected.pkid = Head(replay).pkid
    BY ReinjectedType DEF Replay, StoreInv
  <2>2. Identified(Head(replay))
    BY DEF Replay, StoreInv, StoreConsistent, TypeOK
  <2>3. QED
    BY <2>1, <2>2 DEF Identified
<1>2. /\ replay # <<>> /\ replay' = Tail(replay)
      /\ UNCHANGED <<active, last_pkid, outgoing_rel, error, submitted>>
  BY DEF Replay
<1>3. replay' \in Seq(Operation) /\ \A k \in DOMAIN replay' : Identified(replay'[k])
  BY <1>2 DEF StoreInv, StoreConsistent, TypeOK
<1>4. CASE Reinjected.kind = "qos0"
  <2>1. SendUntracked(Reinjected)
    BY <1>4 DEF Replay
  <2>2. MovedTypeOK'
    BY <1>1, <2>1, SendUntrackedType DEF StoreInv
  <2>3. TypeOK'
    BY <1>2, <1>3, <2>2 DEF StoreInv, TypeOK, MovedTypeOK
  <2>4. QED
    BY <1>3, <2>1, <2>3 DEF SendUntracked, StoreInv, StoreConsistent, Occupied
<1>5. CASE Reinjected.kind # "qos0"
  <2>1. TrackAndSend(Reinjected)
    BY <1>5 DEF Replay
  <2>2. MovedTypeOK'
    BY <1>1, <2>1, TrackAndSendType DEF StoreInv
  <2>3. TypeOK'
    BY <1>2, <1>3, <2>2 DEF StoreInv, TypeOK, MovedTypeOK
  <2>4. QED
    BY <1>1, <1>3, <1>5, <2>1, <2>3, TrackAndSendStore DEF StoreInv, StoreConsistent
<1>6. QED
  BY <1>4, <1>5

\* Every step preserves it.
LEMMA StoreStep == StoreInv /\ [Next]_vars => StoreInv'
<1> SUFFICES ASSUME StoreInv, [Next]_vars PROVE StoreInv'
  OBVIOUS
<1>1. ASSUME NEW id \in OpId, NEW kind \in Kind, Command(id, kind)
      PROVE  StoreInv'
  BY <1>1, CommandStore
<1>2. ASSUME NEW pkid \in WirePkid, Incoming(pkid)
      PROVE  StoreInv'
  <2>1. CASE PubAck(pkid) \/ PubComp(pkid)
    BY <2>1, AckStore
  <2>2. CASE PubRec(pkid)
    BY <2>2, PubRecStore
  <2>3. CASE SubAck(pkid) \/ UnsubAck(pkid)
    BY <2>3, FilterAckStore DEF SubAck, UnsubAck
  <2>4. CASE Refusal(pkid)
    BY <2>4, RefusalStore
  <2>5. QED
    BY <1>2, <2>1, <2>2, <2>3, <2>4 DEF Incoming, Refusal
<1>3. ASSUME NEW clean_session \in BOOLEAN, ConnectionLost(clean_session)
      PROVE  StoreInv'
  BY <1>3, LostStore
<1>4. CASE ConnectionRestored
  BY <1>4, RestoredStore
<1>5. CASE Replay
  BY <1>5, ReplayStore
<1>6. CASE UNCHANGED vars
  BY <1>6 DEF vars, store, history, StoreInv, TypeOK, StoreConsistent, Occupied
<1>7. QED
  BY <1>1, <1>2, <1>3, <1>4, <1>5, <1>6 DEF Next

(***************************************************************************)
(* For every number of slots and every set of operations, the state stays  *)
(* within its types: the pool within the slots, the u16 counter between    *)
(* zero and max_inflight.                                                  *)
(***************************************************************************)
THEOREM TypeCorrect == Spec => []TypeOK
<1>1. StoreInv => TypeOK
  BY DEF StoreInv
<1>2. QED
  BY <1>1, StoreInit, StoreStep, PTL DEF Spec

(***************************************************************************)
(* For every number of slots, the counter that try_insert checks is the    *)
(* number of occupied slots, and every tracked operation is in the slot    *)
(* its identifier names.                                                   *)
(***************************************************************************)
THEOREM StoreCorrect == Spec => []StoreConsistent
<1>1. StoreInv => StoreConsistent
  BY DEF StoreInv
<1>2. QED
  BY <1>1, StoreInit, StoreStep, PTL DEF Spec

-----------------------------------------------------------------------------
(***************************************************************************)
(* Which operations the runtime still owns, and where: how each action     *)
(* moves their identities between the slots, the collision, pending and    *)
(* the replay loop.                                                        *)
(***************************************************************************)
\* Tracked operations are known ones.
LEMMA OutgoingIdsType ==
  ASSUME TypeOK
  PROVE  OutgoingIds \subseteq OpId /\ CollisionIds \subseteq OpId
BY DEF OutgoingIds, CollisionIds, Occupied, TypeOK, Operation

\* An operation put at the back of pending.
LEMMA AppendPending ==
  ASSUME TypeOK, PendingDistinct, NEW op \in Operation, op.id \notin PendingIds,
         pending' = Append(pending, op)
  PROVE  PendingDistinct' /\ PendingIds' = PendingIds \cup {op.id}
<1>1. /\ pending \in Seq(Operation) /\ Len(pending) \in Nat
      /\ DOMAIN pending = 1 .. Len(pending)
      /\ DOMAIN pending' = 1 .. Len(pending) + 1
      /\ pending'[Len(pending) + 1] = op
      /\ \A k \in DOMAIN pending : k # Len(pending) + 1 /\ pending'[k] = pending[k]
  BY DEF TypeOK
<1>2. DOMAIN pending' = DOMAIN pending \cup {Len(pending) + 1}
  BY <1>1
<1>3. PendingIds' = PendingIds \cup {op.id}
  <2>1. PendingIds' \subseteq PendingIds \cup {op.id}
    BY <1>1, <1>2 DEF PendingIds
  <2>2. PendingIds \cup {op.id} \subseteq PendingIds'
    BY <1>1, <1>2 DEF PendingIds
  <2>3. QED
    BY <2>1, <2>2
<1>4. PendingDistinct'
  <2>1. \A k \in DOMAIN pending : pending[k].id # op.id
    BY DEF PendingIds
  <2>2. QED
    BY <1>1, <1>2, <2>1 DEF PendingDistinct
<1>5. QED
  BY <1>3, <1>4

(***************************************************************************)
(* Where the operation that TrackAndSend handles goes: to its slot, to the *)
(* collision in place of any older one, to pending, or nowhere.            *)
(***************************************************************************)
ToSlot(id) ==
  /\ OutgoingIds' = OutgoingIds \cup {id}
  /\ UNCHANGED <<CollisionIds, PendingIds>>

ToCollision(id) ==
  /\ CollisionIds' = {id}
  /\ UNCHANGED <<OutgoingIds, PendingIds>>

ToPending(id) ==
  /\ collision = None
  /\ PendingIds' = PendingIds \cup {id}
  /\ UNCHANGED <<OutgoingIds, CollisionIds>>

Nowhere ==
  /\ collision # None
  /\ UNCHANGED <<OutgoingIds, CollisionIds, PendingIds>>

\* Track puts an operation that is nowhere else in one place, and loses at most the collision.
LEMMA TrackOwners ==
  ASSUME TypeOK, SlotsDistinct, PendingDistinct, NEW op \in Operation,
         op.id \notin OutgoingIds \cup PendingIds,
         TrackAndSend(op)
  PROVE  /\ SlotsDistinct' /\ PendingDistinct'
         /\ \/ Accepts(op) /\ ToSlot(op.id)
            \/ Collides(op) /\ ToCollision(op.id)
            \/ ~Accepts(op) /\ ~Collides(op) /\ ToPending(op.id)
            \/ ~Accepts(op) /\ ~Collides(op) /\ Nowhere
<1>1. op.pkid \in Slot /\ op # None
  BY NoneAssumption DEF Operation
<1>2. CASE Accepts(op)
  <2>1. /\ outgoing[op.pkid] = None
        /\ outgoing' = [outgoing EXCEPT ![op.pkid] = op]
        /\ UNCHANGED <<collision, pending>>
    BY <1>2 DEF TrackAndSend, Track, TryInsert, Accepts, Collides
  <2>2. Occupied' = Occupied \cup {op.pkid} /\ op.pkid \notin Occupied
    BY <2>1, FillSlot DEF Occupied
  <2>3. outgoing'[op.pkid] = op /\ \A i \in Occupied : outgoing'[i] = outgoing[i]
    BY <1>1, <2>1, <2>2 DEF TypeOK, Occupied
  <2>4. OutgoingIds' = OutgoingIds \cup {op.id}
    <3>1. OutgoingIds' \subseteq OutgoingIds \cup {op.id}
      BY <2>2, <2>3 DEF OutgoingIds
    <3>2. OutgoingIds \cup {op.id} \subseteq OutgoingIds'
      BY <2>2, <2>3 DEF OutgoingIds
    <3>3. QED
      BY <3>1, <3>2
  <2>5. \A i \in Occupied : outgoing[i].id # op.id
    BY DEF OutgoingIds
  <2>6. SlotsDistinct'
    BY <2>2, <2>3, <2>5 DEF SlotsDistinct
  <2>7. PendingDistinct' /\ UNCHANGED <<CollisionIds, PendingIds>>
    BY <2>1 DEF PendingDistinct, CollisionIds, PendingIds
  <2>8. QED
    BY <1>2, <2>4, <2>6, <2>7 DEF ToSlot
<1>3. CASE Collides(op)
  <2>1. collision' = op /\ UNCHANGED <<outgoing, pending>>
    BY <1>1, <1>3 DEF TrackAndSend, Track, TryInsert, Accepts, Collides
  <2>2. CollisionIds' = {op.id}
    BY <1>1, <2>1 DEF CollisionIds
  <2>3. /\ SlotsDistinct' /\ PendingDistinct'
        /\ UNCHANGED <<OutgoingIds, PendingIds>>
    BY <2>1 DEF SlotsDistinct, PendingDistinct, OutgoingIds, PendingIds, Occupied
  <2>4. QED
    BY <1>3, <2>2, <2>3 DEF ToCollision
<1>4. CASE ~Accepts(op) /\ ~Collides(op)
  <2>1. UNCHANGED <<outgoing, collision>>
    BY <1>4 DEF TrackAndSend, Track, TryInsert
  <2>2. SlotsDistinct' /\ UNCHANGED <<OutgoingIds, CollisionIds>>
    BY <2>1 DEF SlotsDistinct, OutgoingIds, CollisionIds, Occupied
  <2>3. CASE collision = None
    <3>1. pending' = Append(pending, op)
      BY <1>4, <2>1, <2>3 DEF TrackAndSend, Track
    <3>2. PendingDistinct' /\ PendingIds' = PendingIds \cup {op.id}
      BY <3>1, AppendPending
    <3>3. QED
      BY <1>4, <2>2, <2>3, <3>2 DEF ToPending
  <2>4. CASE collision # None
    <3>1. UNCHANGED pending
      BY <1>4, <2>1, <2>4 DEF TrackAndSend, Track
    <3>2. PendingDistinct' /\ UNCHANGED PendingIds
      BY <3>1 DEF PendingDistinct, PendingIds
    <3>3. QED
      BY <1>4, <2>2, <2>4, <3>2 DEF Nowhere
  <2>5. QED
    BY <2>3, <2>4
<1>5. QED
  BY <1>2, <1>3, <1>4

\* Emptying a slot takes exactly its operation away.
LEMMA EmptiedOwners ==
  ASSUME TypeOK, SlotsDistinct, NEW pkid \in Occupied,
         outgoing' = [outgoing EXCEPT ![pkid] = None]
  PROVE  SlotsDistinct' /\ OutgoingIds' = OutgoingIds \ {outgoing[pkid].id}
<1>1. Occupied' = Occupied \ {pkid}
  BY EmptySlot
<1>2. \A i \in Occupied' : outgoing'[i] = outgoing[i]
  BY <1>1 DEF Occupied, TypeOK
<1>3. SlotsDistinct'
  BY <1>1, <1>2 DEF SlotsDistinct
<1>4. OutgoingIds' \subseteq OutgoingIds \ {outgoing[pkid].id}
  BY <1>1, <1>2 DEF OutgoingIds, SlotsDistinct
<1>5. OutgoingIds \ {outgoing[pkid].id} \subseteq OutgoingIds'
  BY <1>1, <1>2 DEF OutgoingIds
<1>6. QED
  BY <1>3, <1>4, <1>5

(***************************************************************************)
(* An acknowledgement takes the operation of its slot away, and may move   *)
(* the collision into the slot.                                            *)
(***************************************************************************)
LEMMA ReleaseOwners ==
  ASSUME TypeOK, SlotsDistinct, OutgoingIds \cap CollisionIds = {},
         NEW pkid \in Occupied, NEW ack, ReleaseAndPromote(pkid, ack),
         inflight \in 1 .. MaxInflight
  PROVE  /\ SlotsDistinct'
         /\ \/ /\ OutgoingIds' = OutgoingIds \ {outgoing[pkid].id}
               /\ UNCHANGED CollisionIds
            \/ /\ OutgoingIds' = (OutgoingIds \ {outgoing[pkid].id}) \cup CollisionIds
               /\ CollisionIds' = {}
<1>1. pkid \in Slot /\ outgoing[pkid] \in Operation
  BY DEF Occupied, TypeOK
<1>2. CASE Promotes(pkid)
  <2>1. /\ collision # None
        /\ outgoing' = [outgoing EXCEPT ![pkid] = collision]
        /\ collision' = None
    BY <1>2 DEF ReleaseAndPromote, Promotes, CollisionAfter, Waits
  <2>2. Occupied' = Occupied
    BY <1>1, <2>1 DEF Occupied, TypeOK
  <2>3. outgoing'[pkid] = collision /\ \A i \in Occupied \ {pkid} : outgoing'[i] = outgoing[i]
    BY <1>1, <2>1 DEF Occupied, TypeOK
  <2>4. CollisionIds = {collision.id} /\ CollisionIds' = {}
    BY <2>1 DEF CollisionIds
  <2>5. \A i \in Occupied : outgoing[i].id # collision.id
    BY <2>4 DEF OutgoingIds
  <2>6. SlotsDistinct'
    BY <2>2, <2>3, <2>5 DEF SlotsDistinct
  <2>7. OutgoingIds' \subseteq (OutgoingIds \ {outgoing[pkid].id}) \cup CollisionIds
    BY <2>2, <2>3, <2>4 DEF OutgoingIds, SlotsDistinct
  <2>8. (OutgoingIds \ {outgoing[pkid].id}) \cup CollisionIds \subseteq OutgoingIds'
    BY <2>2, <2>3, <2>4 DEF OutgoingIds
  <2>9. QED
    BY <2>4, <2>6, <2>7, <2>8
<1>3. CASE ~Promotes(pkid)
  <2>1. outgoing' = [outgoing EXCEPT ![pkid] = None]
    BY <1>3 DEF ReleaseAndPromote
  <2>2. ~Waits(pkid)
    BY <1>3, MaxInflightAssumption DEF Promotes
  <2>3. UNCHANGED collision
    BY <2>2 DEF ReleaseAndPromote, CollisionAfter
  <2>4. QED
    BY <2>1, <2>3, EmptiedOwners DEF CollisionIds
<1>4. QED
  BY <1>2, <1>3

\* The elements of three sequences put one after the other.
LEMMA ThreeInARow ==
  ASSUME NEW p \in Seq(Operation), NEW q \in Seq(Operation), NEW r \in Seq(Operation)
  PROVE  /\ DOMAIN (p \o q \o r) = 1 .. Len(p) + Len(q) + Len(r)
         /\ \A k \in 1 .. Len(p) : (p \o q \o r)[k] = p[k]
         /\ \A k \in 1 .. Len(q) : (p \o q \o r)[Len(p) + k] = q[k]
         /\ \A k \in 1 .. Len(r) : (p \o q \o r)[Len(p) + Len(q) + k] = r[k]
<1>1. /\ p \o q \in Seq(Operation) /\ Len(p \o q) = Len(p) + Len(q)
      /\ Len(p) \in Nat /\ Len(q) \in Nat /\ Len(r) \in Nat
      /\ p \o q \o r \in Seq(Operation) /\ Len(p \o q \o r) = Len(p) + Len(q) + Len(r)
  OBVIOUS
<1>2. /\ \A k \in 1 .. Len(p) : (p \o q)[k] = p[k]
      /\ \A k \in 1 .. Len(q) : (p \o q)[Len(p) + k] = q[k]
  BY <1>1
<1>3. /\ \A k \in 1 .. Len(p) + Len(q) : (p \o q \o r)[k] = (p \o q)[k]
      /\ \A k \in 1 .. Len(r) : (p \o q \o r)[Len(p) + Len(q) + k] = r[k]
  BY <1>1
<1>4. /\ \A k \in 1 .. Len(p) : k \in 1 .. Len(p) + Len(q)
      /\ \A k \in 1 .. Len(q) : Len(p) + k \in 1 .. Len(p) + Len(q)
  BY <1>1
<1>5. DOMAIN (p \o q \o r) = 1 .. Len(p) + Len(q) + Len(r)
  BY <1>1
<1>6. QED
  BY <1>2, <1>3, <1>4, <1>5

(***************************************************************************)
(* A lost connection moves every operation into pending, each once.        *)
(***************************************************************************)
LEMMA LostOwners ==
  ASSUME StoreInv, SlotsDistinct, PendingDistinct,
         OutgoingIds \cap (CollisionIds \cup PendingIds) = {},
         CollisionIds \cap PendingIds = {},
         NEW clean_session, ConnectionLost(clean_session)
  PROVE  /\ SlotsDistinct' /\ PendingDistinct'
         /\ OutgoingIds' = {} /\ CollisionIds' = {}
         /\ PendingIds' = PendingIds \cup OutgoingIds \cup CollisionIds
<1>1. PICK slot \in Bijection(1 .. inflight, Occupied) :
        pending' = pending \o Drained(slot) \o CollisionQueue
  BY LostQueue
<1> DEFINE n == Len(pending)
           m == inflight
           c == Len(CollisionQueue)
<1>2. /\ slot \in [1 .. m -> Occupied]
      /\ \A j, k \in 1 .. m : slot[j] = slot[k] => j = k
      /\ \A i \in Occupied : \E k \in 1 .. m : slot[k] = i
  BY <1>1 DEF Bijection, Injection, IsInjective, Surjection
<1>3. /\ Drained(slot) \in Seq(Operation) /\ Len(Drained(slot)) = m
      /\ \A k \in 1 .. m : Drained(slot)[k] = outgoing[slot[k]]
      /\ CollisionQueue \in Seq(Operation)
  BY <1>2, QueueType
<1>4. pending \in Seq(Operation) /\ n \in Nat /\ m \in Nat /\ c \in {0, 1}
  BY DEF StoreInv, TypeOK, CollisionQueue
<1>5. /\ c = 0 => CollisionIds = {}
      /\ c = 1 => CollisionQueue[1].id = collision.id /\ CollisionIds = {collision.id}
  BY DEF CollisionQueue, CollisionIds
<1>6. /\ DOMAIN pending' = 1 .. n + m + c
      /\ \A k \in 1 .. n : pending'[k] = pending[k]
      /\ \A k \in 1 .. m : pending'[n + k] = outgoing[slot[k]]
      /\ c = 1 => pending'[n + m + 1] = CollisionQueue[1]
  <2> DEFINE d == Drained(slot)
             q == CollisionQueue
  <2>1. d \in Seq(Operation) /\ Len(d) = m /\ q \in Seq(Operation) /\ Len(q) = c
    BY <1>3
  <2>2. \A k \in 1 .. m : d[k] = outgoing[slot[k]]
    BY <1>3
  <2>3. pending' = pending \o d \o q /\ Len(pending) = n
    BY <1>1
  <2> HIDE DEF d, q, n, m, c
  <2>4. /\ DOMAIN pending' = 1 .. n + m + c
        /\ \A k \in 1 .. n : pending'[k] = pending[k]
        /\ \A k \in 1 .. m : pending'[n + k] = d[k]
        /\ \A k \in 1 .. c : pending'[n + m + k] = q[k]
    <3>1. /\ DOMAIN (pending \o d \o q) = 1 .. Len(pending) + Len(d) + Len(q)
          /\ \A k \in 1 .. Len(pending) : (pending \o d \o q)[k] = pending[k]
          /\ \A k \in 1 .. Len(d) : (pending \o d \o q)[Len(pending) + k] = d[k]
          /\ \A k \in 1 .. Len(q) : (pending \o d \o q)[Len(pending) + Len(d) + k] = q[k]
      BY <1>4, <2>1, ThreeInARow
    <3>2. QED
      BY <2>1, <2>3, <3>1
  <2>5. QED
    BY <1>4, <2>2, <2>4 DEF q
<1>7. DOMAIN pending = 1 .. n
  BY <1>4
<1> HIDE DEF n, m, c
<1>8. \A k \in 1 .. n : k \in DOMAIN pending /\ pending'[k].id \in PendingIds
  BY <1>6, <1>7 DEF PendingIds
<1>9. \A k \in 1 .. m : slot[k] \in Occupied /\ pending'[n + k].id \in OutgoingIds
  BY <1>2, <1>6 DEF OutgoingIds
<1>10. c = 1 => pending'[n + m + 1].id \in CollisionIds
  BY <1>5, <1>6
<1>11. \A k \in DOMAIN pending' : \/ k \in 1 .. n
                                  \/ \E j \in 1 .. m : k = n + j
                                  \/ c = 1 /\ k = n + m + 1
  <2>1. SUFFICES ASSUME NEW k \in DOMAIN pending'
                 PROVE  \/ k \in 1 .. n
                        \/ \E j \in 1 .. m : k = n + j
                        \/ c = 1 /\ k = n + m + 1
    OBVIOUS
  <2>2. k \in 1 .. n + m + c
    BY <1>6
  <2>3. CASE n < k /\ k <= n + m
    <3>1. k - n \in 1 .. m /\ k = n + (k - n)
      BY <1>4, <2>2, <2>3
    <3>2. QED
      BY <3>1
  <2>4. CASE k <= n \/ n + m < k
    BY <1>4, <2>2, <2>4
  <2>5. QED
    BY <1>4, <2>2, <2>3, <2>4
<1>12. PendingIds' = PendingIds \cup OutgoingIds \cup CollisionIds
  <2>1. PendingIds' \subseteq PendingIds \cup OutgoingIds \cup CollisionIds
    <3>1. SUFFICES ASSUME NEW k \in DOMAIN pending'
                   PROVE  pending'[k].id \in PendingIds \cup OutgoingIds \cup CollisionIds
      BY DEF PendingIds
    <3>2. QED
      BY <1>8, <1>9, <1>10, <1>11
  <2>2. PendingIds \subseteq PendingIds'
    <3>1. \A k \in 1 .. n : k \in DOMAIN pending'
      BY <1>4, <1>6
    <3>2. QED
      BY <1>6, <1>7, <3>1 DEF PendingIds
  <2>3. OutgoingIds \subseteq PendingIds'
    <3>1. SUFFICES ASSUME NEW i \in Occupied PROVE outgoing[i].id \in PendingIds'
      BY DEF OutgoingIds
    <3>2. PICK k \in 1 .. m : slot[k] = i
      BY <1>2 DEF m
    <3>3. n + k \in DOMAIN pending' /\ pending'[n + k] = outgoing[i]
      BY <1>4, <1>6, <3>2
    <3>4. QED
      BY <3>3 DEF PendingIds
  <2>4. CollisionIds \subseteq PendingIds'
    <3>1. c = 1 => n + m + 1 \in DOMAIN pending'
      BY <1>4, <1>6
    <3>2. QED
      BY <1>4, <1>5, <1>6, <3>1 DEF PendingIds
  <2>5. QED
    BY <2>1, <2>2, <2>3, <2>4
<1>13. PendingDistinct'
  <2>1. SUFFICES ASSUME NEW j \in DOMAIN pending', NEW k \in DOMAIN pending',
                        pending'[j].id = pending'[k].id
                 PROVE  j = k
    BY DEF PendingDistinct
  <2>2. CASE j \in 1 .. n
    <3>1. k \in 1 .. n
      BY <1>8, <1>9, <1>10, <1>11, <2>1, <2>2
    <3>2. QED
      BY <1>6, <1>7, <2>1, <2>2, <3>1 DEF PendingDistinct
  <2>3. CASE \E i \in 1 .. m : j = n + i
    <3>1. PICK i \in 1 .. m : j = n + i
      BY <2>3
    <3>2. PICK l \in 1 .. m : k = n + l
      BY <1>8, <1>9, <1>10, <1>11, <2>1, <3>1
    <3>3. slot[i] = slot[l]
      BY <1>6, <1>9, <2>1, <3>1, <3>2 DEF SlotsDistinct
    <3>4. QED
      BY <1>2, <3>1, <3>2, <3>3 DEF m
  <2>4. CASE c = 1 /\ j = n + m + 1
    BY <1>8, <1>9, <1>10, <1>11, <2>1, <2>4
  <2>5. QED
    BY <1>11, <2>2, <2>3, <2>4
<1>14. Occupied' = {} /\ collision' = None
  BY DEF ConnectionLost, Occupied
<1>15. SlotsDistinct' /\ OutgoingIds' = {} /\ CollisionIds' = {}
  BY <1>14 DEF SlotsDistinct, OutgoingIds, CollisionIds
<1>16. QED
  BY <1>12, <1>13, <1>15

\* A restored connection hands pending to the replay loop.
LEMMA RestoredOwners ==
  ASSUME TypeOK, SingleOwner, ConnectionRestored
  PROVE  /\ SingleOwner'
         /\ ReplayIds' = PendingIds /\ PendingIds' = {}
         /\ UNCHANGED <<OutgoingIds, CollisionIds>>
<1>1. /\ replay' = pending /\ pending' = <<>> /\ replay = <<>>
      /\ UNCHANGED <<outgoing, collision>>
  BY DEF ConnectionRestored, Ready
<1>2. /\ ReplayIds' = PendingIds /\ PendingIds' = {}
      /\ UNCHANGED <<OutgoingIds, CollisionIds>>
  BY <1>1 DEF ReplayIds, PendingIds, OutgoingIds, CollisionIds, Occupied
<1>3. SlotsDistinct' /\ PendingDistinct' /\ ReplayDistinct'
  BY <1>1 DEF SingleOwner, SlotsDistinct, PendingDistinct, ReplayDistinct, Occupied
<1>4. OwnersDisjoint'
  BY <1>2 DEF SingleOwner, OwnersDisjoint
<1>5. QED
  BY <1>2, <1>3, <1>4 DEF SingleOwner

\* The replay loop takes its operations from the front.
LEMMA VisitedOwners ==
  ASSUME TypeOK, ReplayDistinct, replay # <<>>, replay' = Tail(replay)
  PROVE  /\ ReplayDistinct'
         /\ Head(replay).id \in ReplayIds
         /\ ReplayIds' = ReplayIds \ {Head(replay).id}
<1> DEFINE n == Len(replay)
<1>1. /\ n \in Nat /\ n > 0 /\ DOMAIN replay = 1 .. n /\ Head(replay) = replay[1]
      /\ DOMAIN replay' = 1 .. n - 1
      /\ \A k \in 1 .. n - 1 : replay'[k] = replay[k + 1]
  BY DEF TypeOK
<1> HIDE DEF n
<1>2. \A k \in 1 .. n - 1 : k + 1 \in 1 .. n /\ k + 1 # 1
  BY <1>1
<1>3. ReplayDistinct'
  <2>1. SUFFICES ASSUME NEW j \in 1 .. n - 1, NEW k \in 1 .. n - 1, replay'[j].id = replay'[k].id
                 PROVE  j = k
    BY <1>1 DEF ReplayDistinct
  <2>2. j + 1 = k + 1
    BY <1>1, <1>2, <2>1 DEF ReplayDistinct
  <2>3. QED
    BY <1>1, <2>2
<1>4. 1 \in DOMAIN replay /\ Head(replay).id \in ReplayIds
  BY <1>1 DEF ReplayIds
<1>5. ReplayIds' \subseteq ReplayIds \ {Head(replay).id}
  BY <1>1, <1>2, <1>4 DEF ReplayIds, ReplayDistinct
<1>6. ReplayIds \ {Head(replay).id} \subseteq ReplayIds'
  <2>1. SUFFICES ASSUME NEW k \in 1 .. n, k # 1
                 PROVE  replay[k].id \in ReplayIds'
    BY <1>1 DEF ReplayIds
  <2>2. k - 1 \in 1 .. n - 1 /\ replay'[k - 1] = replay[k]
    BY <1>1, <2>1
  <2>3. QED
    BY <1>1, <2>2 DEF ReplayIds
<1>7. QED
  BY <1>3, <1>4, <1>5, <1>6

-----------------------------------------------------------------------------
(***************************************************************************)
(* SingleOwner is inductive only with what keeps an identity from entering *)
(* twice: what is owned was submitted, and what is finished is not owned.  *)
(***************************************************************************)
OwnerInv ==
  /\ StoreInv
  /\ SingleOwner
  /\ FinishedOnce
  /\ OwnedIds \subseteq submitted
  /\ transmitted \subseteq submitted

\* An operation that is new or still owned was not reported yet.
LEMMA NotFinished ==
  ASSUME TypeOK, FinishedOnce, NEW id \in OpId, id \notin submitted \/ id \in OwnedIds
  PROVE  finished[id] = 0
<1>1. finished[id] \in Nat /\ finished[id] <= 1 /\ finished[id] # 1
  BY DEF TypeOK, FinishedOnce
<1>2. QED
  BY <1>1

\* A step that reports nothing and takes back nothing that was reported keeps FinishedOnce.
LEMMA FinishedKept ==
  ASSUME FinishedOnce, UNCHANGED finished, submitted \subseteq submitted',
         OwnedIds' \cap submitted \subseteq OwnedIds
  PROVE  FinishedOnce'
BY DEF FinishedOnce

\* A step that reports an operation for the first time, and forgets it, keeps FinishedOnce.
LEMMA FinishedAdded ==
  ASSUME TypeOK, FinishedOnce, NEW id \in OpId, finished[id] = 0,
         finished' = [finished EXCEPT ![id] = @ + 1],
         id \in submitted' \ OwnedIds', submitted \subseteq submitted',
         OwnedIds' \cap submitted \subseteq OwnedIds
  PROVE  FinishedOnce'
<1>1. finished'[id] = 1 /\ \A i \in OpId \ {id} : finished'[i] = finished[i]
  BY DEF TypeOK
<1>2. QED
  BY <1>1 DEF FinishedOnce

\* The initial states satisfy the invariant.
LEMMA OwnerInit == Init => OwnerInv
<1> SUFFICES ASSUME Init PROVE OwnerInv
  OBVIOUS
<1>1. StoreInv /\ Occupied = {}
  BY StoreInit DEF Init, Occupied
<1>2. OutgoingIds = {} /\ CollisionIds = {} /\ PendingIds = {} /\ ReplayIds = {}
  BY <1>1 DEF Init, OutgoingIds, CollisionIds, PendingIds, ReplayIds
<1>3. SingleOwner
  BY <1>1, <1>2 DEF Init, SingleOwner, SlotsDistinct, PendingDistinct, ReplayDistinct,
                    OwnersDisjoint
<1>4. FinishedOnce
  BY DEF Init, FinishedOnce
<1>5. QED
  BY <1>1, <1>2, <1>3, <1>4 DEF Init, OwnerInv, OwnedIds

\* A step that moves no operation.
LEMMA StillOwners ==
  ASSUME SingleOwner, UNCHANGED <<outgoing, collision, pending, replay>>
  PROVE  SingleOwner' /\ UNCHANGED OwnedIds
<1>1. UNCHANGED Occupied
  BY DEF Occupied
<1>2. UNCHANGED <<OutgoingIds, CollisionIds, PendingIds, ReplayIds>>
  BY <1>1 DEF OutgoingIds, CollisionIds, PendingIds, ReplayIds
<1>3. SlotsDistinct' /\ PendingDistinct' /\ ReplayDistinct'
  BY <1>1 DEF SingleOwner, SlotsDistinct, PendingDistinct, ReplayDistinct
<1>4. QED
  BY <1>2, <1>3 DEF SingleOwner, OwnersDisjoint, OwnedIds

\* Nor finishes one.
LEMMA OwnerUnmoved ==
  ASSUME OwnerInv, StoreInv',
         UNCHANGED <<outgoing, collision, pending, replay, submitted, transmitted, finished>>
  PROVE  OwnerInv'
<1>1. SingleOwner' /\ UNCHANGED OwnedIds
  BY StillOwners DEF OwnerInv
<1>2. FinishedOnce'
  BY <1>1, FinishedKept DEF OwnerInv
<1>3. QED
  BY <1>1, <1>2 DEF OwnerInv

(***************************************************************************)
(* TrackAndSend of an operation that nothing else owns.                    *)
(***************************************************************************)
LEMMA OwnerTracked ==
  ASSUME TypeOK, SingleOwner, NEW op \in Operation, TrackAndSend(op),
         op.id \notin OutgoingIds \cup CollisionIds \cup PendingIds
  PROVE  /\ SlotsDistinct' /\ PendingDistinct'
         /\ OutgoingIds' \cap (CollisionIds' \cup PendingIds') = {}
         /\ CollisionIds' \cap PendingIds' = {}
         /\ OutgoingIds' \cup CollisionIds' \cup PendingIds'
              \subseteq OutgoingIds \cup CollisionIds \cup PendingIds \cup {op.id}
         /\ transmitted' \subseteq transmitted \cup {op.id}
         /\ UNCHANGED finished
<1>1. /\ SlotsDistinct' /\ PendingDistinct'
      /\ \/ ToSlot(op.id)
         \/ ToCollision(op.id)
         \/ ToPending(op.id)
         \/ Nowhere
  BY TrackOwners DEF SingleOwner
<1>2. collision = None => CollisionIds = {}
  BY DEF CollisionIds
<1>3. transmitted' \subseteq transmitted \cup {op.id} /\ UNCHANGED finished
  BY DEF TrackAndSend, SendOp, SendNothing
<1>4. QED
  BY <1>1, <1>2, <1>3 DEF SingleOwner, OwnersDisjoint, ToSlot, ToCollision, ToPending, Nowhere

\* DriverEvent::Command preserves the invariant.
LEMMA OwnerCommand ==
  ASSUME OwnerInv, StoreInv', NEW id \in OpId, NEW kind \in Kind, Command(id, kind)
  PROVE  OwnerInv'
<1> DEFINE op == NewOp(id, kind)
<1>1. TypeOK /\ op \in Operation /\ op.id = id
  BY NewOpType DEF OwnerInv, StoreInv
<1> HIDE DEF op
<1>2. id \notin submitted /\ submitted' = submitted \cup {id} /\ UNCHANGED replay
  BY DEF Command, CommandOffline, CommandUntracked, CommandTracked, Submit
<1>3. id \notin OwnedIds
  BY <1>2 DEF OwnerInv
<1>4. ReplayDistinct' /\ UNCHANGED ReplayIds
  BY <1>2 DEF OwnerInv, SingleOwner, ReplayDistinct, ReplayIds
<1>5. CASE CommandOffline(id, kind)
  <2>1. /\ pending' = Append(pending, op)
        /\ UNCHANGED <<outgoing, collision, transmitted, finished>>
    BY <1>5 DEF CommandOffline, SendNothing, op
  <2>2. PendingDistinct' /\ PendingIds' = PendingIds \cup {id}
    BY <1>1, <1>3, <2>1, AppendPending DEF OwnerInv, SingleOwner, OwnedIds
  <2>3. SlotsDistinct' /\ UNCHANGED <<OutgoingIds, CollisionIds>>
    BY <2>1 DEF OwnerInv, SingleOwner, SlotsDistinct, OutgoingIds, CollisionIds, Occupied
  <2>4. SingleOwner' /\ OwnedIds' = OwnedIds \cup {id}
    BY <1>3, <1>4, <2>2, <2>3 DEF OwnerInv, SingleOwner, OwnersDisjoint, OwnedIds
  <2>5. FinishedOnce'
    BY <1>2, <2>1, <2>4, FinishedKept DEF OwnerInv
  <2>6. QED
    BY <1>2, <2>1, <2>4, <2>5 DEF OwnerInv
<1>6. CASE CommandUntracked(id, kind)
  <2>1. /\ finished' = [finished EXCEPT ![id] = @ + 1]
        /\ transmitted' = transmitted \cup {id}
        /\ UNCHANGED <<outgoing, collision, pending>>
    BY <1>1, <1>6 DEF CommandUntracked, SendUntracked, SendOp, op
  <2>2. SingleOwner' /\ UNCHANGED OwnedIds
    BY <1>2, <2>1, StillOwners DEF OwnerInv
  <2>3. finished[id] = 0
    BY <1>1, <1>2, NotFinished DEF OwnerInv
  <2>4. FinishedOnce'
    BY <1>1, <1>2, <1>3, <2>1, <2>2, <2>3, FinishedAdded DEF OwnerInv
  <2>5. QED
    BY <1>2, <2>1, <2>2, <2>4 DEF OwnerInv
<1>7. CASE CommandTracked(id, kind)
  <2>1. TrackAndSend(op)
    BY <1>7 DEF CommandTracked, op
  <2>2. /\ SlotsDistinct' /\ PendingDistinct'
        /\ OutgoingIds' \cap (CollisionIds' \cup PendingIds') = {}
        /\ CollisionIds' \cap PendingIds' = {}
        /\ OutgoingIds' \cup CollisionIds' \cup PendingIds'
             \subseteq OutgoingIds \cup CollisionIds \cup PendingIds \cup {id}
        /\ transmitted' \subseteq transmitted \cup {id}
        /\ UNCHANGED finished
    BY <1>1, <1>3, <2>1, OwnerTracked DEF OwnerInv, OwnedIds
  <2>3. SingleOwner' /\ OwnedIds' \subseteq OwnedIds \cup {id}
    BY <1>3, <1>4, <2>2 DEF OwnerInv, SingleOwner, OwnersDisjoint, OwnedIds
  <2>4. FinishedOnce'
    BY <1>2, <2>2, <2>3, FinishedKept DEF OwnerInv
  <2>5. QED
    BY <1>2, <2>2, <2>3, <2>4 DEF OwnerInv
<1>8. QED
  BY <1>5, <1>6, <1>7 DEF Command

\* PUBACK and PUBCOMP preserve it.
LEMMA OwnerAck ==
  ASSUME OwnerInv, StoreInv', NEW pkid \in WirePkid, PubAck(pkid) \/ PubComp(pkid)
  PROVE  OwnerInv'
<1> DEFINE id == outgoing[pkid].id
<1>1. PICK ack \in {"PubAck", "PubComp"} : ReleaseAndPromote(pkid, ack)
  BY DEF PubAck, PubComp
<1>2. UNCHANGED <<pending, replay, submitted>>
  BY DEF PubAck, PubComp
<1>3. TypeOK /\ pkid \in Occupied /\ inflight > 0 /\ inflight \in 1 .. MaxInflight
  BY HeldCounted DEF PubAck, PubComp, OwnerInv, StoreInv, TypeOK
<1>4. /\ SlotsDistinct'
      /\ \/ /\ OutgoingIds' = OutgoingIds \ {id}
            /\ UNCHANGED CollisionIds
         \/ /\ OutgoingIds' = (OutgoingIds \ {id}) \cup CollisionIds
            /\ CollisionIds' = {}
  BY <1>1, <1>3, ReleaseOwners DEF OwnerInv, SingleOwner, OwnersDisjoint
<1>5. id \in OutgoingIds /\ id \in OpId
  BY <1>3, OutgoingIdsType DEF OutgoingIds
<1>6. finished' = [finished EXCEPT ![id] = @ + 1]
  BY <1>1 DEF ReleaseAndPromote
<1>7. transmitted' \subseteq transmitted \cup CollisionIds
  BY <1>1 DEF ReleaseAndPromote, Promotes, Waits, CollisionIds
<1> HIDE DEF id
<1>8. /\ PendingDistinct' /\ ReplayDistinct'
      /\ UNCHANGED <<PendingIds, ReplayIds>>
  BY <1>2 DEF OwnerInv, SingleOwner, PendingDistinct, ReplayDistinct, PendingIds, ReplayIds
<1>9. SingleOwner'
  BY <1>4, <1>8 DEF OwnerInv, SingleOwner, OwnersDisjoint
<1>10. OwnedIds' \subseteq OwnedIds /\ id \notin OwnedIds' /\ id \in OwnedIds
  BY <1>4, <1>5, <1>8 DEF OwnerInv, SingleOwner, OwnersDisjoint, OwnedIds
<1>11. finished[id] = 0
  BY <1>3, <1>5, <1>10, NotFinished DEF OwnerInv
<1>12. FinishedOnce'
  BY <1>2, <1>3, <1>5, <1>6, <1>10, <1>11, FinishedAdded DEF OwnerInv
<1>13. QED
  BY <1>2, <1>7, <1>9, <1>10, <1>12 DEF OwnerInv, OwnedIds

\* SUBACK and UNSUBACK preserve it, even when they end the thread.
LEMMA OwnerFilterAck ==
  ASSUME OwnerInv, StoreInv', NEW pkid \in WirePkid, NEW kind, NEW ack,
         FilterAck(pkid, kind, ack)
  PROVE  OwnerInv'
<1> DEFINE id == outgoing[pkid].id
<1>1. TypeOK /\ pkid \in Occupied
  BY HeldCounted DEF FilterAck, OwnerInv, StoreInv
<1>2. /\ outgoing' = [outgoing EXCEPT ![pkid] = None]
      /\ UNCHANGED <<collision, pending, replay, submitted, transmitted>>
  BY DEF FilterAck
<1>3. SlotsDistinct' /\ OutgoingIds' = OutgoingIds \ {id}
  BY <1>1, <1>2, EmptiedOwners DEF OwnerInv, SingleOwner
<1>4. id \in OutgoingIds /\ id \in OpId
  BY <1>1, OutgoingIdsType DEF OutgoingIds
<1>5. UNCHANGED finished \/ finished' = [finished EXCEPT ![id] = @ + 1]
  BY DEF FilterAck
<1> HIDE DEF id
<1>6. /\ PendingDistinct' /\ ReplayDistinct'
      /\ UNCHANGED <<CollisionIds, PendingIds, ReplayIds>>
  BY <1>2 DEF OwnerInv, SingleOwner, PendingDistinct, ReplayDistinct, CollisionIds, PendingIds,
              ReplayIds
<1>7. SingleOwner'
  BY <1>3, <1>6 DEF OwnerInv, SingleOwner, OwnersDisjoint
<1>8. OwnedIds' \subseteq OwnedIds /\ id \notin OwnedIds' /\ id \in OwnedIds
  BY <1>3, <1>4, <1>6 DEF OwnerInv, SingleOwner, OwnersDisjoint, OwnedIds
<1>9. finished[id] = 0
  BY <1>1, <1>4, <1>8, NotFinished DEF OwnerInv
<1>10. FinishedOnce'
  <2>1. CASE UNCHANGED finished
    BY <1>2, <1>8, <2>1, FinishedKept DEF OwnerInv
  <2>2. CASE finished' = [finished EXCEPT ![id] = @ + 1]
    BY <1>1, <1>2, <1>4, <1>8, <1>9, <2>2, FinishedAdded DEF OwnerInv
  <2>3. QED
    BY <1>5, <2>1, <2>2
<1>11. QED
  BY <1>2, <1>7, <1>8, <1>10 DEF OwnerInv

\* ConnectionLost preserves it.
LEMMA OwnerLost ==
  ASSUME OwnerInv, StoreInv', NEW clean_session, ConnectionLost(clean_session)
  PROVE  OwnerInv'
<1>1. /\ SlotsDistinct' /\ PendingDistinct'
      /\ OutgoingIds' = {} /\ CollisionIds' = {}
      /\ PendingIds' = PendingIds \cup OutgoingIds \cup CollisionIds
  BY LostOwners DEF OwnerInv, SingleOwner, OwnersDisjoint
<1>2. UNCHANGED <<replay, submitted, transmitted, finished>>
  BY DEF ConnectionLost, history
<1>3. ReplayDistinct' /\ UNCHANGED ReplayIds
  BY <1>2 DEF OwnerInv, SingleOwner, ReplayDistinct, ReplayIds
<1>4. SingleOwner' /\ UNCHANGED OwnedIds
  BY <1>1, <1>3 DEF OwnerInv, SingleOwner, OwnersDisjoint, OwnedIds
<1>5. FinishedOnce'
  BY <1>2, <1>4, FinishedKept DEF OwnerInv
<1>6. QED
  BY <1>2, <1>4, <1>5 DEF OwnerInv

\* ConnectionRestored preserves it.
LEMMA OwnerRestored ==
  ASSUME OwnerInv, StoreInv', ConnectionRestored
  PROVE  OwnerInv'
<1>1. /\ SingleOwner'
      /\ ReplayIds' = PendingIds /\ PendingIds' = {}
      /\ UNCHANGED <<OutgoingIds, CollisionIds>>
  BY RestoredOwners DEF OwnerInv, StoreInv
<1>2. UNCHANGED <<submitted, transmitted, finished>>
  BY DEF ConnectionRestored, history
<1>3. OwnedIds' \subseteq OwnedIds
  BY <1>1 DEF OwnedIds
<1>4. FinishedOnce'
  BY <1>2, <1>3, FinishedKept DEF OwnerInv
<1>5. QED
  BY <1>1, <1>2, <1>3, <1>4 DEF OwnerInv

\* An iteration of the replay loop preserves it.
LEMMA OwnerReplay ==
  ASSUME OwnerInv, StoreInv', Replay
  PROVE  OwnerInv'
<1> DEFINE id == Head(replay).id
<1>1. TypeOK /\ Reinjected \in Operation /\ Reinjected.id = id /\ id \in OpId
  BY ReinjectedType DEF OwnerInv, StoreInv, Replay, Operation
<1>2. /\ ReplayDistinct' /\ id \in ReplayIds
      /\ ReplayIds' = ReplayIds \ {id}
  BY <1>1, VisitedOwners DEF Replay, OwnerInv, SingleOwner
<1> HIDE DEF id
<1>3. UNCHANGED submitted
  BY DEF Replay
<1>4. id \notin OutgoingIds \cup CollisionIds \cup PendingIds /\ id \in OwnedIds
  BY <1>2 DEF OwnerInv, SingleOwner, OwnersDisjoint, OwnedIds
<1>5. CASE SendUntracked(Reinjected)
  <2>1. /\ finished' = [finished EXCEPT ![id] = @ + 1]
        /\ transmitted' = transmitted \cup {id}
        /\ UNCHANGED <<outgoing, collision, pending>>
    BY <1>1, <1>5 DEF SendUntracked, SendOp
  <2>2. /\ SlotsDistinct' /\ PendingDistinct'
        /\ UNCHANGED <<OutgoingIds, CollisionIds, PendingIds>>
    BY <2>1 DEF OwnerInv, SingleOwner, SlotsDistinct, PendingDistinct, OutgoingIds, CollisionIds,
                PendingIds, Occupied
  <2>3. SingleOwner'
    BY <1>2, <2>2 DEF OwnerInv, SingleOwner, OwnersDisjoint
  <2>4. OwnedIds' \subseteq OwnedIds /\ id \notin OwnedIds'
    BY <1>2, <1>4, <2>2 DEF OwnedIds
  <2>5. finished[id] = 0
    BY <1>1, <1>4, NotFinished DEF OwnerInv
  <2>6. FinishedOnce'
    BY <1>1, <1>3, <1>4, <2>1, <2>4, <2>5, FinishedAdded DEF OwnerInv
  <2>7. QED
    BY <1>3, <1>4, <2>1, <2>3, <2>4, <2>6 DEF OwnerInv
<1>6. CASE TrackAndSend(Reinjected)
  <2>1. /\ SlotsDistinct' /\ PendingDistinct'
        /\ OutgoingIds' \cap (CollisionIds' \cup PendingIds') = {}
        /\ CollisionIds' \cap PendingIds' = {}
        /\ OutgoingIds' \cup CollisionIds' \cup PendingIds'
             \subseteq OutgoingIds \cup CollisionIds \cup PendingIds \cup {id}
        /\ transmitted' \subseteq transmitted \cup {id}
        /\ UNCHANGED finished
    BY <1>1, <1>4, <1>6, OwnerTracked DEF OwnerInv
  <2>2. SingleOwner' /\ OwnedIds' \subseteq OwnedIds
    BY <1>2, <1>4, <2>1 DEF OwnerInv, SingleOwner, OwnersDisjoint, OwnedIds
  <2>3. FinishedOnce'
    BY <1>3, <2>1, <2>2, FinishedKept DEF OwnerInv
  <2>4. QED
    BY <1>3, <1>4, <2>1, <2>2, <2>3 DEF OwnerInv
<1>7. QED
  BY <1>5, <1>6 DEF Replay

\* Every step preserves it.
LEMMA OwnerStep == OwnerInv /\ [Next]_vars => OwnerInv'
<1> SUFFICES ASSUME OwnerInv, [Next]_vars PROVE OwnerInv'
  OBVIOUS
<1>1. StoreInv'
  BY StoreStep DEF OwnerInv
<1>2. ASSUME NEW id \in OpId, NEW kind \in Kind, Command(id, kind)
      PROVE  OwnerInv'
  BY <1>1, <1>2, OwnerCommand
<1>3. ASSUME NEW pkid \in WirePkid, Incoming(pkid)
      PROVE  OwnerInv'
  <2>1. CASE PubAck(pkid) \/ PubComp(pkid)
    BY <1>1, <2>1, OwnerAck
  <2>2. CASE PubRec(pkid)
    <3>1. UNCHANGED <<outgoing, collision, pending, replay, submitted, transmitted, finished>>
      BY <2>2 DEF PubRec, history
    <3>2. QED
      BY <1>1, <3>1, OwnerUnmoved
  <2>3. CASE SubAck(pkid) \/ UnsubAck(pkid)
    BY <1>1, <2>3, OwnerFilterAck DEF SubAck, UnsubAck
  <2>4. CASE Refusal(pkid)
    <3>1. UNCHANGED <<outgoing, collision, pending, replay, submitted, transmitted, finished>>
      BY <2>4, RefusalEffect DEF store, history
    <3>2. QED
      BY <1>1, <3>1, OwnerUnmoved
  <2>5. QED
    BY <1>3, <2>1, <2>2, <2>3, <2>4 DEF Incoming, Refusal
<1>4. ASSUME NEW clean_session \in BOOLEAN, ConnectionLost(clean_session)
      PROVE  OwnerInv'
  BY <1>1, <1>4, OwnerLost
<1>5. CASE ConnectionRestored
  BY <1>1, <1>5, OwnerRestored
<1>6. CASE Replay
  BY <1>1, <1>6, OwnerReplay
<1>7. CASE UNCHANGED vars
  <2>1. UNCHANGED <<outgoing, collision, pending, replay, submitted, transmitted, finished>>
    BY <1>7 DEF vars, store, history
  <2>2. QED
    BY <1>1, <2>1, OwnerUnmoved
<1>8. QED
  BY <1>2, <1>3, <1>4, <1>5, <1>6, <1>7 DEF Next

(***************************************************************************)
(* For every number of slots and every set of operations: an operation is  *)
(* never in two places of the state, however often connections come and go *)
(* and whatever the broker acknowledges.                                   *)
(***************************************************************************)
THEOREM OwnedOnce == Spec => []SingleOwner
<1>1. OwnerInv => SingleOwner
  BY DEF OwnerInv
<1>2. QED
  BY <1>1, OwnerInit, OwnerStep, PTL DEF Spec

(***************************************************************************)
(* For every number of slots and every set of operations: an operation     *)
(* completes at most once, and a completed one is not owned any more.      *)
(***************************************************************************)
THEOREM ReportedOnce == Spec => []FinishedOnce
<1>1. OwnerInv => FinishedOnce
  BY DEF OwnerInv
<1>2. QED
  BY <1>1, OwnerInit, OwnerStep, PTL DEF Spec
=============================================================================
