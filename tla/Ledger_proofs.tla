---------------------------- MODULE Ledger_proofs ----------------------------
(***************************************************************************)
(* RuntimeState implements OpLedger, and resent publishes carry dup.       *)
(***************************************************************************)
EXTENDS RuntimeState_proofs

(***************************************************************************)
(* The error ends the thread, so a replay under way has seen none.         *)
(***************************************************************************)
LedgerInv == OwnerInv /\ (replay # <<>> => error = None)

\* The initial states satisfy the invariant.
LEMMA LedgerInit == Init => LedgerInv
BY OwnerInit DEF Init, LedgerInv

\* Every step preserves it.
LEMMA LedgerStep == LedgerInv /\ [Next]_vars => LedgerInv'
<1> SUFFICES ASSUME LedgerInv, [Next]_vars PROVE LedgerInv'
  OBVIOUS
<1>1. OwnerInv'
  BY OwnerStep DEF LedgerInv
<1>2. replay' # <<>> => error' = None
  <2>1. ASSUME NEW id \in OpId, NEW kind \in Kind, Command(id, kind)
        PROVE  UNCHANGED <<replay, error>>
    BY <2>1 DEF Command, CommandOffline, CommandUntracked, CommandTracked, Submit
  <2>2. ASSUME NEW pkid \in WirePkid, Incoming(pkid)
        PROVE  replay' = <<>>
    BY <2>2 DEF Incoming, PubAck, PubRec, PubComp, SubAck, UnsubAck, FilterAck, UnsolicitedAck,
                UnsolicitedPubRec, UnsolicitedPubComp, OutOfRange, Ready
  <2>3. ASSUME NEW clean_session \in BOOLEAN, ConnectionLost(clean_session)
        PROVE  UNCHANGED <<replay, error>>
    BY <2>3 DEF ConnectionLost
  <2>4. CASE ConnectionRestored
    BY <2>4 DEF ConnectionRestored, Ready
  <2>5. CASE Replay
    BY <2>5 DEF Replay, LedgerInv
  <2>6. CASE UNCHANGED vars
    BY <2>6 DEF vars, LedgerInv
  <2>7. QED
    BY <2>1, <2>2, <2>3, <2>4, <2>5, <2>6 DEF Next, LedgerInv
<1>3. QED
  BY <1>1, <1>2 DEF LedgerInv

-----------------------------------------------------------------------------
(***************************************************************************)
(* How a step of the runtime shows in the ledger.                          *)
(***************************************************************************)
Same(i) ==
  /\ i \in submitted' <=> i \in submitted
  /\ i \in OwnedIds' <=> i \in OwnedIds
  /\ finished'[i] = finished[i]

\* An operation that kept its owner and its report kept its status.
LEMMA SameStatus ==
  ASSUME NEW i, Same(i)
  PROVE  Status(i)' = Status(i)
BY DEF Same, Status

\* A step that concerns no operation is a stutter of the ledger.
LEMMA LedgerStutter ==
  ASSUME \A i \in OpId : Same(i), UNCHANGED error
  PROVE  UNCHANGED Ledger!vars
<1>1. \A i \in OpId : Status(i)' = Status(i)
  BY SameStatus
<1>2. QED
  BY <1>1 DEF Ledger!vars

\* A step that concerns one operation moves that one in the ledger.
LEMMA LedgerMove ==
  ASSUME NEW id \in OpId, \A i \in OpId \ {id} : Same(i), UNCHANGED error
  PROVE  Ledger!Move(id, Status(id), Status(id)')
<1>1. \A i \in OpId \ {id} : Status(i)' = Status(i)
  BY SameStatus
<1>2. QED
  BY <1>1 DEF Ledger!Move

\* Two operations that stay owned make an overload.
LEMMA LedgerOverload ==
  ASSUME NEW id, NEW a \in OpId \ {id}, NEW b \in OpId \ {id}, a # b,
         a \in submitted' \cap OwnedIds', b \in submitted' \cap OwnedIds'
  PROVE  Ledger!Overload(id)
<1>1. Status(a)' = "open" /\ Status(b)' = "open"
  BY DEF Status
<1>2. QED
  BY <1>1 DEF Ledger!Overload

-----------------------------------------------------------------------------
(***************************************************************************)
(* What TrackAndSend does to the identities outside the replay loop: it    *)
(* adds the operation's, in the worst case for an older one's, or it loses *)
(* the operation.  In the two bad cases others are owned as well.          *)
(***************************************************************************)
Queued == OutgoingIds \cup CollisionIds \cup PendingIds

Kept(id) == Queued' = Queued \cup {id}

Supplanted(id) ==
  \E older \in OpId \ {id}, a \in OpId \ {id} :
    /\ a # older
    /\ older \in Queued /\ a \in Queued
    /\ Queued' = (Queued \ {older}) \cup {id}

Dropped(id) ==
  \E a, b \in OpId \ {id} : a # b /\ a \in Queued /\ b \in Queued /\ UNCHANGED Queued

\* Track keeps its operation, lets it supplant the collision, or drops it.
LEMMA TrackQueued ==
  ASSUME StoreInv, SingleOwner, NEW op \in Operation, op.id \notin Queued, TrackAndSend(op)
  PROVE  Kept(op.id) \/ Supplanted(op.id) \/ Dropped(op.id)
<1> DEFINE id == op.id
<1>1. /\ \/ Accepts(op) /\ ToSlot(id)
         \/ Collides(op) /\ ToCollision(id)
         \/ ~Accepts(op) /\ ~Collides(op) /\ ToPending(id)
         \/ ~Accepts(op) /\ ~Collides(op) /\ Nowhere
  BY TrackOwners DEF StoreInv, SingleOwner, Queued
<1>2. OutgoingIds \cup CollisionIds \subseteq OpId /\ OutgoingIds \cap CollisionIds = {}
  BY OutgoingIdsType DEF StoreInv, SingleOwner, OwnersDisjoint
<1>3. op.pkid \in Slot
  BY DEF Operation
<1>4. CASE ToSlot(id)
  BY <1>4 DEF ToSlot, Queued, Kept
<1>5. CASE ToPending(id)
  BY <1>5 DEF ToPending, Queued, Kept
<1>6. CASE Collides(op) /\ ToCollision(id)
  <2>1. PICK a \in OutgoingIds : TRUE
    BY <1>3, <1>6 DEF Collides, OutgoingIds, Occupied
  <2>2. CASE collision = None
    <3>1. CollisionIds = {}
      BY <2>2 DEF CollisionIds
    <3>2. QED
      BY <1>6, <3>1 DEF ToCollision, Queued, Kept
  <2>3. CASE collision # None
    <3>1. PICK older : CollisionIds = {older}
      BY <2>3 DEF CollisionIds
    <3>2. older \notin OutgoingIds \cup PendingIds /\ older # a
      BY <1>2, <2>1, <3>1 DEF SingleOwner, OwnersDisjoint
    <3>3. Queued' = (Queued \ {older}) \cup {id}
      BY <1>6, <3>1, <3>2 DEF ToCollision, Queued
    <3>4. older \in Queued /\ a \in Queued /\ older \in OpId \ {id} /\ a \in OpId \ {id}
      BY <1>2, <2>1, <3>1 DEF Queued
    <3>5. QED
      BY <3>2, <3>3, <3>4 DEF Supplanted
  <2>4. QED
    BY <2>2, <2>3
<1>7. CASE ~Accepts(op) /\ ~Collides(op) /\ Nowhere
  <2>1. inflight = Cardinality(Occupied) /\ inflight # 0
    BY <1>3, <1>7, MaxInflightAssumption DEF Accepts, Collides, StoreInv, StoreConsistent, TypeOK
  <2>2. PICK i \in Occupied : TRUE
    BY <2>1, OccupiedFinite
  <2>3. PICK a : a \in OutgoingIds
    BY <2>2 DEF OutgoingIds
  <2>4. PICK b : b \in CollisionIds
    BY <1>7 DEF Nowhere, CollisionIds
  <2>5. a # b /\ a \in Queued /\ b \in Queued /\ a \in OpId \ {id} /\ b \in OpId \ {id}
    BY <1>2, <2>3, <2>4 DEF Queued
  <2>6. UNCHANGED Queued
    BY <1>7 DEF Nowhere, Queued
  <2>7. QED
    BY <2>5, <2>6 DEF Dropped
<1>8. QED
  BY <1>1, <1>4, <1>5, <1>6, <1>7

-----------------------------------------------------------------------------
(***************************************************************************)
(* One lemma per action.                                                   *)
(***************************************************************************)
LEMMA StatusOpen ==
  ASSUME NEW i, i \in submitted, i \in OwnedIds
  PROVE  Status(i) = "open"
BY DEF Status

\* DriverEvent::Command submits, refuses or supplants.
LEMMA CommandLedger ==
  ASSUME LedgerInv, LedgerInv', NEW id \in OpId, NEW kind \in Kind, Command(id, kind)
  PROVE  Ledger!Next
<1> DEFINE op == NewOp(id, kind)
<1>1. TypeOK /\ op \in Operation /\ op.id = id
  BY NewOpType DEF LedgerInv, OwnerInv, StoreInv
<1> HIDE DEF op
<1>2. /\ id \notin submitted /\ submitted' = submitted \cup {id} /\ error = None
      /\ UNCHANGED <<replay, error>>
  BY DEF Command, CommandOffline, CommandUntracked, CommandTracked, Submit, Ready
<1>3. /\ id \notin OwnedIds /\ Status(id) = "new" /\ OwnedIds \subseteq submitted
      /\ OwnedIds' = Queued' \cup ReplayIds /\ OwnedIds = Queued \cup ReplayIds
  BY <1>2 DEF LedgerInv, OwnerInv, Status, OwnedIds, Queued, ReplayIds
<1>4. CASE CommandUntracked(id, kind)
  <2>1. /\ finished' = [finished EXCEPT ![id] = @ + 1]
        /\ UNCHANGED <<outgoing, collision, pending>>
    BY <1>1, <1>4 DEF CommandUntracked, SendUntracked, op
  <2>2. UNCHANGED OwnedIds
    BY <1>2, <2>1, StillOwners DEF LedgerInv, OwnerInv
  <2>3. finished'[id] = 1 /\ \A i \in OpId \ {id} : finished'[i] = finished[i]
    <3>1. finished[id] = 0
      BY <1>1, <1>2, NotFinished DEF LedgerInv, OwnerInv
    <3>2. QED
      BY <1>1, <2>1, <3>1 DEF TypeOK
  <2>4. \A i \in OpId \ {id} : Same(i)
    BY <1>2, <2>2, <2>3 DEF Same
  <2>5. Status(id)' = "closed"
    BY <1>2, <1>3, <2>2, <2>3 DEF Status
  <2>6. Ledger!Move(id, "new", "closed")
    BY <1>2, <1>3, <2>4, <2>5, LedgerMove
  <2>7. QED
    BY <1>2, <2>6 DEF Ledger!Next, Ledger!SubmitAndClose
<1>5. CASE CommandOffline(id, kind) \/ CommandTracked(id, kind)
  <2>1. UNCHANGED finished /\ (Kept(id) \/ Supplanted(id) \/ Dropped(id))
    <3>1. CASE CommandOffline(id, kind)
      <4>1. pending' = Append(pending, op) /\ UNCHANGED <<outgoing, collision, finished>>
        BY <3>1 DEF CommandOffline, op
      <4>2. PendingIds' = PendingIds \cup {id}
        BY <1>1, <1>3, <4>1, AppendPending DEF LedgerInv, OwnerInv, SingleOwner, Queued
      <4>3. UNCHANGED <<OutgoingIds, CollisionIds>>
        BY <4>1 DEF OutgoingIds, CollisionIds, Occupied
      <4>4. QED
        BY <4>1, <4>2, <4>3 DEF Kept, Queued
    <3>2. CASE CommandTracked(id, kind)
      <4>1. TrackAndSend(op) /\ UNCHANGED finished
        BY <3>2 DEF CommandTracked, TrackAndSend, op
      <4>2. QED
        BY <1>1, <1>3, <4>1, TrackQueued DEF LedgerInv, OwnerInv
    <3>3. QED
      BY <1>5, <3>1, <3>2
  <2>2. CASE Kept(id)
    <3>1. \A i \in OpId \ {id} : Same(i)
      BY <1>2, <1>3, <2>1, <2>2 DEF Same, Kept
    <3>2. Status(id)' = "open"
      BY <1>2, <1>3, <2>2 DEF Status, Kept
    <3>3. Ledger!Move(id, "new", "open")
      BY <1>2, <1>3, <3>1, <3>2, LedgerMove
    <3>4. QED
      BY <1>2, <3>3 DEF Ledger!Next, Ledger!Submit
  <2>3. CASE Dropped(id)
    <3>1. PICK a \in OpId \ {id}, b \in OpId \ {id} :
            a # b /\ a \in Queued /\ b \in Queued /\ UNCHANGED Queued
      BY <2>3 DEF Dropped
    <3>2. \A i \in OpId : Same(i) \/ i = id
      BY <1>2, <1>3, <2>1, <3>1 DEF Same
    <3>3. Status(id)' = "lost"
      <4>1. finished'[id] = 0
        BY <1>1, <1>2, <2>1, NotFinished DEF LedgerInv, OwnerInv
      <4>2. QED
        BY <1>2, <1>3, <3>1, <4>1 DEF Status
    <3>4. Ledger!Move(id, "new", "lost")
      BY <1>2, <1>3, <3>2, <3>3, LedgerMove
    <3>5. Ledger!Overload(id)
      BY <1>2, <1>3, <3>1, LedgerOverload
    <3>6. QED
      BY <1>2, <3>4, <3>5 DEF Ledger!Next, Ledger!Refuse
  <2>4. CASE Supplanted(id)
    <3>1. PICK older \in OpId \ {id}, a \in OpId \ {id} :
            /\ a # older
            /\ older \in Queued /\ a \in Queued
            /\ Queued' = (Queued \ {older}) \cup {id}
      BY <2>4 DEF Supplanted
    <3>2. \A i \in OpId \ {id, older} : Same(i)
      BY <1>2, <1>3, <2>1, <3>1 DEF Same
    <3>3. Status(older) = "open"
      BY <1>3, <3>1, StatusOpen
    <3>4. Status(id)' = "open"
      BY <1>2, <1>3, <3>1 DEF Status
    <3>5. older \notin OwnedIds' /\ older \in submitted'
      BY <1>2, <1>3, <3>1 DEF LedgerInv, OwnerInv, SingleOwner, OwnersDisjoint, Queued
    <3>6. Status(older)' = "lost"
      <4>1. finished'[older] = 0
        BY <1>1, <1>3, <2>1, <3>1, NotFinished DEF LedgerInv, OwnerInv
      <4>2. QED
        BY <3>5, <4>1 DEF Status
    <3>7. \A i \in OpId \ {id, older} : Status(i)' = Status(i)
      BY <3>2, SameStatus
    <3>8. Ledger!Overload(older)
      BY <1>2, <1>3, <3>1, LedgerOverload
    <3>9. Ledger!Supplant(id, older)
      BY <1>2, <1>3, <3>3, <3>4, <3>6, <3>7, <3>8 DEF Ledger!Supplant
    <3>10. QED
      BY <1>2, <3>9 DEF Ledger!Next
  <2>5. QED
    BY <2>1, <2>2, <2>3, <2>4
<1>6. QED
  BY <1>4, <1>5 DEF Command

\* PUBACK and PUBCOMP close an operation; a promotion keeps the collision open.
LEMMA AckLedger ==
  ASSUME LedgerInv, LedgerInv', NEW pkid \in WirePkid, PubAck(pkid) \/ PubComp(pkid)
  PROVE  Ledger!Next
<1>0. PICK id : id = outgoing[pkid].id
  OBVIOUS
<1>1. PICK ack \in {"PubAck", "PubComp"} : ReleaseAndPromote(pkid, ack)
  BY DEF PubAck, PubComp
<1>2. UNCHANGED <<pending, replay, submitted, error>> /\ error = None
  BY DEF PubAck, PubComp, Ready
<1>3. TypeOK /\ pkid \in Occupied /\ inflight > 0 /\ inflight \in 1 .. MaxInflight
  BY HeldCounted DEF PubAck, PubComp, LedgerInv, OwnerInv, StoreInv, TypeOK
<1>4. \/ /\ OutgoingIds' = OutgoingIds \ {id}
         /\ UNCHANGED CollisionIds
      \/ /\ OutgoingIds' = (OutgoingIds \ {id}) \cup CollisionIds
         /\ CollisionIds' = {}
  BY <1>0, <1>1, <1>3, ReleaseOwners DEF LedgerInv, OwnerInv, SingleOwner, OwnersDisjoint
<1>5. id \in OutgoingIds /\ id \in OpId
  BY <1>0, <1>3, OutgoingIdsType DEF OutgoingIds
<1>6. finished' = [finished EXCEPT ![id] = @ + 1]
  BY <1>0, <1>1 DEF ReleaseAndPromote
<1>7. UNCHANGED <<PendingIds, ReplayIds>>
  BY <1>2 DEF PendingIds, ReplayIds
<1>8. OwnedIds' = OwnedIds \ {id} /\ id \in OwnedIds /\ id \in submitted
  BY <1>4, <1>5, <1>7 DEF LedgerInv, OwnerInv, SingleOwner, OwnersDisjoint, OwnedIds
<1>9. finished'[id] = 1 /\ \A i \in OpId \ {id} : finished'[i] = finished[i]
  <2>1. finished[id] = 0
    BY <1>3, <1>5, <1>8, NotFinished DEF LedgerInv, OwnerInv
  <2>2. QED
    BY <1>3, <1>5, <1>6, <2>1 DEF TypeOK
<1>10. \A i \in OpId \ {id} : Same(i)
  BY <1>2, <1>8, <1>9 DEF Same
<1>11. Status(id) = "open" /\ Status(id)' = "closed"
  BY <1>2, <1>8, <1>9 DEF Status
<1>12. Ledger!Move(id, "open", "closed")
  BY <1>2, <1>5, <1>10, <1>11, LedgerMove
<1>13. QED
  BY <1>2, <1>5, <1>12 DEF Ledger!Next, Ledger!Close

\* SUBACK and UNSUBACK close an operation or end the thread.
LEMMA FilterAckLedger ==
  ASSUME LedgerInv, LedgerInv', NEW pkid \in WirePkid, NEW kind, NEW ack,
         FilterAck(pkid, kind, ack)
  PROVE  Ledger!Next
<1>0. PICK id : id = outgoing[pkid].id
  OBVIOUS
<1>1. TypeOK /\ pkid \in Occupied
  BY HeldCounted DEF FilterAck, LedgerInv, OwnerInv, StoreInv
<1>2. /\ outgoing' = [outgoing EXCEPT ![pkid] = None]
      /\ UNCHANGED <<collision, pending, replay, submitted>> /\ error = None
  BY DEF FilterAck, Ready
<1>3. OutgoingIds' = OutgoingIds \ {id}
  BY <1>0, <1>1, <1>2, EmptiedOwners DEF LedgerInv, OwnerInv, SingleOwner
<1>4. id \in OutgoingIds /\ id \in OpId
  BY <1>0, <1>1, OutgoingIdsType DEF OutgoingIds
<1>5. \/ finished' = [finished EXCEPT ![id] = @ + 1] /\ UNCHANGED error
      \/ UNCHANGED finished /\ error' = "InvalidCommand"
  BY <1>0 DEF FilterAck, Fail
<1>6. UNCHANGED <<CollisionIds, PendingIds, ReplayIds>>
  BY <1>2 DEF CollisionIds, PendingIds, ReplayIds
<1>7. OwnedIds' = OwnedIds \ {id} /\ id \in OwnedIds /\ id \in submitted
  BY <1>3, <1>4, <1>6 DEF LedgerInv, OwnerInv, SingleOwner, OwnersDisjoint, OwnedIds
<1>8. finished[id] = 0
  BY <1>1, <1>4, <1>7, NotFinished DEF LedgerInv, OwnerInv
<1>9. Status(id) = "open"
  BY <1>7, StatusOpen
<1>10. CASE finished' = [finished EXCEPT ![id] = @ + 1] /\ UNCHANGED error
  <2>1. finished'[id] = 1 /\ \A i \in OpId \ {id} : finished'[i] = finished[i]
    BY <1>1, <1>4, <1>8, <1>10 DEF TypeOK
  <2>2. \A i \in OpId \ {id} : Same(i)
    BY <1>2, <1>7, <2>1 DEF Same
  <2>3. Status(id)' = "closed"
    BY <1>2, <1>7, <2>1 DEF Status
  <2>4. Ledger!Move(id, "open", "closed")
    BY <1>4, <1>9, <1>10, <2>2, <2>3, LedgerMove
  <2>5. QED
    BY <1>2, <1>4, <2>4 DEF Ledger!Next, Ledger!Close
<1>11. CASE UNCHANGED finished /\ error' = "InvalidCommand"
  <2>1. \A i \in OpId \ {id} : Status(i)' = Status(i)
    BY <1>2, <1>7, <1>11, SameStatus DEF Same
  <2>2. Status(id)' = "lost"
    BY <1>2, <1>7, <1>8, <1>11 DEF Status
  <2>3. error' # None
    BY <1>11, NoneAssumption DEF Error
  <2>4. Ledger!Fail
    BY <1>4, <1>9, <2>1, <2>2, <2>3 DEF Ledger!Fail
  <2>5. QED
    BY <1>2, <2>4 DEF Ledger!Next
<1>12. QED
  BY <1>5, <1>10, <1>11

\* A refused acknowledgement ends the thread and loses nothing.
LEMMA RefusalLedger ==
  ASSUME LedgerInv, NEW pkid \in WirePkid, Refusal(pkid)
  PROVE  Ledger!Next
<1>1. /\ error' \in Error
      /\ UNCHANGED <<outgoing, collision, pending, replay, submitted, finished>>
  BY RefusalEffect DEF store, history
<1>2. error = None
  BY DEF Refusal, UnsolicitedAck, UnsolicitedPubRec, UnsolicitedPubComp, OutOfRange, Ready
<1>3. \A i \in OpId : Status(i)' = Status(i)
  BY <1>1, StillOwners, SameStatus DEF LedgerInv, OwnerInv, Same
<1>4. error' # None
  BY <1>1, NoneAssumption
<1>5. Ledger!Fail
  BY <1>3, <1>4 DEF Ledger!Fail
<1>6. QED
  BY <1>2, <1>5 DEF Ledger!Next

\* Losing and restoring the connection, and PUBREC, are not seen.
LEMMA QuietLedger ==
  ASSUME LedgerInv,
         \/ \E pkid \in WirePkid : PubRec(pkid)
         \/ \E clean_session \in BOOLEAN : ConnectionLost(clean_session)
         \/ ConnectionRestored
         \/ UNCHANGED vars
  PROVE  UNCHANGED Ledger!vars
<1>1. CASE (\E pkid \in WirePkid : PubRec(pkid)) \/ UNCHANGED vars
  <2>1. UNCHANGED <<outgoing, collision, pending, replay, submitted, finished, error>>
    BY <1>1 DEF PubRec, vars, store, history
  <2>2. \A i \in OpId : Same(i)
    BY <2>1, StillOwners DEF LedgerInv, OwnerInv, Same
  <2>3. QED
    BY <2>1, <2>2, LedgerStutter
<1>2. CASE \E clean_session \in BOOLEAN : ConnectionLost(clean_session)
  <2>1. UNCHANGED <<replay, submitted, finished, error>>
    BY <1>2 DEF ConnectionLost, history
  <2>2. UNCHANGED ReplayIds
    BY <2>1 DEF ReplayIds
  <2>3. UNCHANGED OwnedIds
    BY <1>2, <2>2, LostOwners DEF LedgerInv, OwnerInv, SingleOwner, OwnersDisjoint, OwnedIds
  <2>4. \A i \in OpId : Same(i)
    BY <2>1, <2>3 DEF Same
  <2>5. QED
    BY <2>1, <2>4, LedgerStutter
<1>3. CASE ConnectionRestored
  <2>1. UNCHANGED <<submitted, finished, error>> /\ replay = <<>>
    BY <1>3 DEF ConnectionRestored, history, Ready
  <2>2. ReplayIds = {}
    BY <2>1 DEF ReplayIds
  <2>3. UNCHANGED OwnedIds
    BY <1>3, <2>2, RestoredOwners DEF LedgerInv, OwnerInv, StoreInv, OwnedIds
  <2>4. \A i \in OpId : Same(i)
    BY <2>1, <2>3 DEF Same
  <2>5. QED
    BY <2>1, <2>4, LedgerStutter
<1>4. QED
  BY <1>1, <1>2, <1>3

\* An iteration of the replay loop keeps, closes or loses an operation.
LEMMA ReplayLedger ==
  ASSUME LedgerInv, LedgerInv', Replay
  PROVE  [Ledger!Next]_Ledger!vars
<1>0. PICK id : id = Head(replay).id
  OBVIOUS
<1>1. TypeOK /\ Reinjected \in Operation /\ Reinjected.id = id /\ id \in OpId
  BY <1>0, ReinjectedType DEF LedgerInv, OwnerInv, StoreInv, Replay, Operation
<1>2. id \in ReplayIds /\ ReplayIds' = ReplayIds \ {id}
  BY <1>0, <1>1, VisitedOwners DEF Replay, LedgerInv, OwnerInv, SingleOwner
<1>3. UNCHANGED <<submitted, error>> /\ error = None
  BY DEF Replay, LedgerInv
<1>4. /\ id \notin Queued /\ id \in OwnedIds /\ id \in submitted
      /\ Queued \cap ReplayIds = {} /\ OwnedIds \subseteq submitted
      /\ OwnedIds = Queued \cup ReplayIds /\ OwnedIds' = Queued' \cup ReplayIds'
  BY <1>2 DEF LedgerInv, OwnerInv, SingleOwner, OwnersDisjoint, OwnedIds, Queued
<1>5. Status(id) = "open" /\ finished[id] = 0
  BY <1>1, <1>4, StatusOpen, NotFinished DEF LedgerInv, OwnerInv
<1>6. CASE SendUntracked(Reinjected)
  <2>1. /\ finished' = [finished EXCEPT ![id] = @ + 1]
        /\ UNCHANGED <<outgoing, collision, pending>>
    BY <1>1, <1>6 DEF SendUntracked
  <2>2. UNCHANGED Queued
    BY <2>1 DEF Queued, OutgoingIds, CollisionIds, PendingIds, Occupied
  <2>3. finished'[id] = 1 /\ \A i \in OpId \ {id} : finished'[i] = finished[i]
    BY <1>1, <1>5, <2>1 DEF TypeOK
  <2>4. \A i \in OpId \ {id} : Same(i)
    BY <1>2, <1>3, <1>4, <2>2, <2>3 DEF Same
  <2>5. Status(id)' = "closed"
    BY <1>2, <1>3, <1>4, <2>2, <2>3 DEF Status
  <2>6. Ledger!Move(id, "open", "closed")
    BY <1>1, <1>3, <1>5, <2>4, <2>5, LedgerMove
  <2>7. QED
    BY <1>1, <1>3, <2>6 DEF Ledger!Next, Ledger!Close
<1>7. CASE TrackAndSend(Reinjected)
  <2>1. UNCHANGED finished /\ (Kept(id) \/ Supplanted(id) \/ Dropped(id))
    BY <1>1, <1>4, <1>7, TrackQueued DEF TrackAndSend, LedgerInv, OwnerInv
  <2>2. CASE Kept(id)
    <3>1. \A i \in OpId : Same(i)
      BY <1>2, <1>3, <1>4, <2>1, <2>2 DEF Same, Kept
    <3>2. QED
      BY <1>3, <3>1, LedgerStutter
  <2>3. CASE Dropped(id)
    <3>1. PICK a \in OpId \ {id}, b \in OpId \ {id} :
            a # b /\ a \in Queued /\ b \in Queued /\ UNCHANGED Queued
      BY <2>3 DEF Dropped
    <3>2. \A i \in OpId \ {id} : Same(i)
      BY <1>2, <1>3, <1>4, <2>1, <3>1 DEF Same
    <3>3. Status(id)' = "lost"
      BY <1>2, <1>3, <1>4, <1>5, <2>1, <3>1 DEF Status
    <3>4. Ledger!Move(id, "open", "lost")
      BY <1>1, <1>3, <1>5, <3>2, <3>3, LedgerMove
    <3>5. Ledger!Overload(id)
      BY <1>3, <1>4, <3>1, LedgerOverload
    <3>6. QED
      BY <1>1, <1>3, <3>4, <3>5 DEF Ledger!Next, Ledger!Lose
  <2>4. CASE Supplanted(id)
    <3>1. PICK older \in OpId \ {id}, a \in OpId \ {id} :
            /\ a # older
            /\ older \in Queued /\ a \in Queued
            /\ Queued' = (Queued \ {older}) \cup {id}
      BY <2>4 DEF Supplanted
    <3>2. \A i \in OpId \ {older} : Same(i)
      BY <1>2, <1>3, <1>4, <2>1, <3>1 DEF Same
    <3>3. Status(older) = "open" /\ finished[older] = 0
      BY <1>1, <1>4, <3>1, StatusOpen, NotFinished DEF LedgerInv, OwnerInv
    <3>4. older \notin OwnedIds' /\ older \in submitted'
      BY <1>2, <1>3, <1>4, <3>1
    <3>5. Status(older)' = "lost"
      BY <2>1, <3>3, <3>4 DEF Status
    <3>6. Ledger!Move(older, "open", "lost")
      BY <1>3, <3>2, <3>3, <3>5, LedgerMove
    <3>7. Ledger!Overload(older)
      BY <1>1, <1>3, <1>4, <3>1, LedgerOverload
    <3>8. QED
      BY <1>3, <3>6, <3>7 DEF Ledger!Next, Ledger!Lose
  <2>5. QED
    BY <2>1, <2>2, <2>3, <2>4
<1>8. QED
  BY <1>6, <1>7 DEF Replay

(***************************************************************************)
(* For every number of slots and every set of operations: the runtime      *)
(* keeps the promise of OpLedger.  In particular nothing is ever lost      *)
(* silently while fewer than two other operations are open.                *)
(***************************************************************************)
THEOREM ImplementsLedger == Spec => LedgerSpec
<1>1. Init => Ledger!Init
  <2>1. SUFFICES ASSUME Init PROVE Ledger!Init
    OBVIOUS
  <2>2. \A id \in OpId : Status(id) = "new"
    BY <2>1 DEF Init, Status
  <2>3. QED
    BY <2>1, <2>2 DEF Init, Ledger!Init
<1>2. LedgerInv /\ LedgerInv' /\ [Next]_vars => [Ledger!Next]_Ledger!vars
  <2> SUFFICES ASSUME LedgerInv, LedgerInv', [Next]_vars PROVE [Ledger!Next]_Ledger!vars
    OBVIOUS
  <2>1. ASSUME NEW id \in OpId, NEW kind \in Kind, Command(id, kind)
        PROVE  Ledger!Next
    BY <2>1, CommandLedger
  <2>2. ASSUME NEW pkid \in WirePkid, Incoming(pkid)
        PROVE  [Ledger!Next]_Ledger!vars
    <3>1. CASE PubAck(pkid) \/ PubComp(pkid)
      BY <3>1, AckLedger
    <3>2. CASE PubRec(pkid)
      BY <3>2, QuietLedger
    <3>3. CASE SubAck(pkid) \/ UnsubAck(pkid)
      BY <3>3, FilterAckLedger DEF SubAck, UnsubAck
    <3>4. CASE Refusal(pkid)
      BY <3>4, RefusalLedger
    <3>5. QED
      BY <2>2, <3>1, <3>2, <3>3, <3>4 DEF Incoming, Refusal
  <2>3. CASE Replay
    BY <2>3, ReplayLedger
  <2>4. CASE \/ \E clean_session \in BOOLEAN : ConnectionLost(clean_session)
             \/ ConnectionRestored
             \/ UNCHANGED vars
    BY <2>4, QuietLedger
  <2>5. QED
    BY <2>1, <2>2, <2>3, <2>4 DEF Next
<1>3. QED
  BY <1>1, <1>2, LedgerInit, LedgerStep, PTL DEF Spec, LedgerSpec, Ledger!Spec

-----------------------------------------------------------------------------
(***************************************************************************)
(* What is pushed for sending is new, or it is a publish marked dup.       *)
(***************************************************************************)
ResendsMarked == \A id \in transmitted : \A k \in Resends(id) : actions'[k].dup

\* A step that pushes no packet resends nothing.
LEMMA NothingResent ==
  ASSUME actions' = <<>> \/ actions' = <<TriggerReconnect>>
  PROVE  ResendsMarked
BY DEF ResendsMarked, Resends, TriggerReconnect

\* A step that pushes one packet is right if the packet is new, carries dup or is no tracked publish.
LEMMA OneSendMarked ==
  ASSUME NEW op, NEW dup, actions' = <<Send(op, dup)>>,
         op.id \notin transmitted \/ op.kind \notin {"qos1", "qos2"} \/ dup
  PROVE  ResendsMarked
<1>1. /\ DOMAIN actions' = {1}
      /\ actions'[1].packet = op.kind /\ actions'[1].id = op.id /\ actions'[1].dup = dup
  BY DEF Send
<1>2. QED
  BY <1>1 DEF ResendsMarked, Resends

\* A command sends only what was never sent.
LEMMA CommandMarked ==
  ASSUME OwnerInv, NEW id \in OpId, NEW kind \in Kind, Command(id, kind)
  PROVE  ResendsMarked
<1> DEFINE op == NewOp(id, kind)
<1>1. op.id \notin transmitted
  BY NewOpType DEF OwnerInv, StoreInv, Command, CommandOffline, CommandUntracked,
                   CommandTracked, Submit
<1> HIDE DEF op
<1>2. actions' = <<>> \/ actions' = <<Send(op, op.dup)>>
  BY DEF Command, CommandOffline, CommandUntracked, CommandTracked, SendNothing, SendUntracked,
         TrackAndSend, SendOp, op
<1>3. QED
  BY <1>1, <1>2, NothingResent, OneSendMarked

\* A promoted publish carries dup.
LEMMA AckMarked ==
  ASSUME OwnerInv, NEW pkid \in WirePkid, PubAck(pkid) \/ PubComp(pkid)
  PROVE  ResendsMarked
<1> DEFINE dup == collision.dup \/ IsPublish(collision)
<1>1. PICK ack : ReleaseAndPromote(pkid, ack)
  BY DEF PubAck, PubComp
<1>2. CompleteFor(outgoing[pkid], ack).do # "Send"
  BY DEF CompleteFor
<1>3. CASE Promotes(pkid)
  <2>1. actions' = <<CompleteFor(outgoing[pkid], ack), Send(collision, dup)>>
    BY <1>1, <1>3 DEF ReleaseAndPromote
  <2>2. /\ DOMAIN actions' = {1, 2}
        /\ actions'[1].do # "Send"
        /\ actions'[2].packet = collision.kind /\ actions'[2].dup = dup
    BY <1>2, <2>1 DEF Send
  <2>3. collision.kind \in {"qos1", "qos2"} => dup
    BY DEF IsPublish
  <2>4. QED
    BY <2>2, <2>3 DEF ResendsMarked, Resends
<1>4. CASE ~Promotes(pkid)
  <2>1. actions' = <<CompleteFor(outgoing[pkid], ack)>>
    BY <1>1, <1>4 DEF ReleaseAndPromote
  <2>2. DOMAIN actions' = {1} /\ actions'[1].do # "Send"
    BY <1>2, <2>1
  <2>3. QED
    BY <2>2 DEF ResendsMarked, Resends
<1>5. QED
  BY <1>3, <1>4

\* No incoming packet resends a publish unmarked.
LEMMA IncomingMarked ==
  ASSUME OwnerInv, NEW pkid \in WirePkid, Incoming(pkid)
  PROVE  ResendsMarked
<1>1. CASE PubAck(pkid) \/ PubComp(pkid)
  BY <1>1, AckMarked
<1>2. CASE PubRec(pkid)
  <2>1. actions' = <<SendPubRel(pkid)>>
    BY <1>2 DEF PubRec
  <2>2. DOMAIN actions' = {1} /\ actions'[1].packet = "pubrel"
    BY <2>1 DEF SendPubRel
  <2>3. QED
    BY <2>2 DEF ResendsMarked, Resends
<1>3. CASE SubAck(pkid) \/ UnsubAck(pkid)
  <2>1. PICK ack : actions' = <<CompleteFor(outgoing[pkid], ack)>> \/ actions' = <<>>
    BY <1>3 DEF SubAck, UnsubAck, FilterAck, Fail
  <2>2. CASE actions' = <<CompleteFor(outgoing[pkid], ack)>>
    <3>1. DOMAIN actions' = {1} /\ actions'[1].do # "Send"
      BY <2>2 DEF CompleteFor
    <3>2. QED
      BY <3>1 DEF ResendsMarked, Resends
  <2>3. QED
    BY <2>1, <2>2, NothingResent
<1>4. CASE Refusal(pkid)
  BY <1>4, RefusalEffect, NothingResent
<1>5. QED
  BY <1>1, <1>2, <1>3, <1>4 DEF Incoming, Refusal

\* A replayed publish carries dup.
LEMMA ReplayMarked ==
  ASSUME OwnerInv, Replay
  PROVE  ResendsMarked
<1> DEFINE op == Reinjected
<1>1. op.kind \in {"qos1", "qos2"} => op.dup
  <2>1. Head(replay) \in Operation
    BY DEF Replay, OwnerInv, StoreInv, TypeOK
  <2>2. op.kind = Head(replay).kind /\ op.dup = (Head(replay).dup \/ IsPublish(Head(replay)))
    BY <2>1 DEF Reinjected, Operation
  <2>3. QED
    BY <2>2 DEF IsPublish
<1> HIDE DEF op
<1>2. actions' = <<>> \/ actions' = <<Send(op, op.dup)>>
  BY DEF Replay, SendUntracked, TrackAndSend, SendOp, SendNothing, op
<1>3. QED
  BY <1>1, <1>2, NothingResent, OneSendMarked

(***************************************************************************)
(* For every number of slots and every set of operations: a QoS 1 or QoS 2 *)
(* publish is sent a second time only with the dup flag.                   *)
(***************************************************************************)
THEOREM ResentWithDup == Spec => DupOnResend
<1>1. OwnerInv /\ [Next]_vars =>
        [\A id \in transmitted : \A k \in Resends(id) : actions'[k].dup]_vars
  <2> SUFFICES ASSUME OwnerInv, Next PROVE ResendsMarked
    BY DEF ResendsMarked
  <2>1. ASSUME NEW clean_session \in BOOLEAN, ConnectionLost(clean_session)
        PROVE  ResendsMarked
    BY <2>1, NothingResent DEF ConnectionLost
  <2>2. CASE ConnectionRestored
    BY <2>2, NothingResent DEF ConnectionRestored
  <2>3. QED
    BY <2>1, <2>2, CommandMarked, IncomingMarked, ReplayMarked DEF Next
<1>2. QED
  BY <1>1, OwnerInit, OwnerStep, PTL DEF Spec, DupOnResend
=============================================================================
