---------------------------- MODULE RuntimeState ----------------------------
(***************************************************************************)
(* The outgoing half of the runtime's protocol state: PacketIdPool,        *)
(* InflightStore and the RuntimeState handlers that RuntimeDriver's        *)
(* handle_event calls for commands, acknowledgements and connection        *)
(* changes.  One step is one call of handle_event, except that the loop of *)
(* resend_pending_on_reconnect takes one step per iteration.               *)
(*                                                                         *)
(* The environment is arbitrary: any acknowledgement may arrive at any     *)
(* time, with any packet identifier, whether or not the broker was asked   *)
(* for it, and the connection may be lost and restored at any time.        *)
(*                                                                         *)
(* Abstracted: topics, payloads and filters (an operation is its identity, *)
(* its kind, its packet identifier and its dup flag); last_ack, which is   *)
(* written and never read; clocks and keepalive (module EventLoop); the    *)
(* receiving side of QoS 2 (module IncomingPublish).                          *)
(***************************************************************************)
EXTENDS Integers, Sequences, FiniteSets

CONSTANTS
  MaxInflight,  \* RuntimeState::new(max_inflight)
  OpId,         \* operations clients may submit: (client_id, token_id) pairs
  Kind,         \* kinds of operation in use, a subset of AllKinds
  None          \* an empty Option

AllKinds == {"qos0", "qos1", "qos2", "subscribe", "unsubscribe"}

ASSUME MaxInflightAssumption == MaxInflight \in Nat \ {0}
ASSUME KindAssumption == Kind \subseteq AllKinds

Slot == 0 .. MaxInflight            \* indices of the three Vecs of InflightStore
WirePkid == 0 .. MaxInflight + 1    \* identifiers a broker may name, one out of range

(***************************************************************************)
(* OutgoingOp, with the fields of its command that the handlers look at.   *)
(***************************************************************************)
Operation == [id : OpId, kind : Kind, pkid : Slot, dup : BOOLEAN]

\* RuntimeError.
Error == {"InvalidCommand", "UnsolicitedAck", "UnsolicitedPubRec",
          "UnsolicitedPubComp", "PacketIdOutOfRange"}

ASSUME NoneAssumption == None \notin Operation /\ None \notin Error

VARIABLES
  active,        \* the connection is up, as far as the state knows
  last_pkid,     \* PacketIdPool.last_pkid
  outgoing,      \* InflightStore.outgoing: operations waiting for an ack
  inflight,      \* InflightStore.inflight: the number of them
  collision,     \* InflightStore.collision: one op blocked by an occupied slot
  pending,       \* InflightStore.pending
  outgoing_rel,  \* InflightStore.outgoing_rel: PUBREC seen
  replay,        \* what resend_pending_on_reconnect drained and has not visited
  actions,       \* the DriverActions the last step pushed
  error,         \* the RuntimeError that ended the runtime thread, or None
  submitted,     \* history: operations handed to the driver
  transmitted,   \* history: operations whose packet was pushed for sending
  finished       \* history: how often each operation was reported or, QoS 0, sent

store == <<outgoing, inflight, collision, pending, outgoing_rel>>
history == <<submitted, transmitted, finished>>
vars == <<active, last_pkid, store, replay, actions, error, history>>

-----------------------------------------------------------------------------
(***************************************************************************)
(* DriverAction.  SubscribeAckFor and UnsubscribeAckFor are CompleteFor    *)
(* without the filters, which only the router looks at.                    *)
(***************************************************************************)
Send(op, dup) ==
  [do |-> "Send", packet |-> op.kind, id |-> op.id, pkid |-> op.pkid, dup |-> dup]

SendPubRel(pkid) == [do |-> "Send", packet |-> "pubrel", pkid |-> pkid]

CompleteFor(op, ack) == [do |-> "CompleteFor", ack |-> ack, id |-> op.id, pkid |-> op.pkid]

TriggerReconnect == [do |-> "TriggerReconnect"]

DriverAction ==
  [do : {"Send"}, packet : Kind, id : OpId, pkid : Slot, dup : BOOLEAN]
    \cup [do : {"Send"}, packet : {"pubrel"}, pkid : Slot]
    \cup [do : {"CompleteFor"}, ack : {"PubAck", "PubComp", "SubAck", "UnsubAck"},
          id : OpId, pkid : Slot]
    \cup {TriggerReconnect}

-----------------------------------------------------------------------------
(***************************************************************************)
(* PacketIdPool::next_candidate.  last_pkid is a u16; MaxInflight is taken *)
(* to be below its maximum, so that last_pkid + 1 does not overflow.       *)
(***************************************************************************)
NextCandidateNoWrap == last_pkid + 1  \* mutant: the wrap to 1 is forgotten
NextCandidate == IF last_pkid + 1 > MaxInflight THEN 1 ELSE last_pkid + 1

(***************************************************************************)
(* InflightStore::try_insert(op.pkid, op), which every caller calls with   *)
(* the operation's own identifier.  It answers true iff Accepts(op).  On   *)
(* an occupied slot it overwrites whatever collision held.                 *)
(***************************************************************************)
AcceptsOccupied(op) == inflight < MaxInflight /\ op.pkid \in Slot  \* mutant: overwrites the slot
Accepts(op) == inflight < MaxInflight /\ op.pkid \in Slot /\ outgoing[op.pkid] = None

Collides(op) == inflight < MaxInflight /\ op.pkid \in Slot /\ outgoing[op.pkid] # None

TryInsert(op) ==
  /\ outgoing' = IF Accepts(op) THEN [outgoing EXCEPT ![op.pkid] = op] ELSE outgoing
  /\ inflight' = IF Accepts(op) THEN inflight + 1 ELSE inflight
  /\ collision' = IF Collides(op) THEN op ELSE collision

\* Mutant: a refused operation goes to pending even if it is the collision.
TrackTwice(op) ==
  /\ TryInsert(op)
  /\ pending' = IF ~Accepts(op) THEN Append(pending, op) ELSE pending

(***************************************************************************)
(* try_insert and what every caller does with a refusal: the operation     *)
(* goes to the back of pending, but only if no collision is recorded       *)
(* after the attempt.                                                      *)
(***************************************************************************)
Track(op) ==
  /\ TryInsert(op)
  /\ pending' = IF ~Accepts(op) /\ collision' = None THEN Append(pending, op) ELSE pending

\* What a handler pushes on its result.
SendOp(op, dup) ==
  /\ actions' = <<Send(op, dup)>>
  /\ transmitted' = transmitted \cup {op.id}

SendNothing == actions' = <<>> /\ UNCHANGED transmitted

TrackAndSend(op) ==
  /\ Track(op)
  /\ IF Accepts(op) THEN SendOp(op, op.dup) ELSE SendNothing
  /\ UNCHANGED finished

\* A QoS 0 publish is not tracked: once its packet is pushed it is done with.
SendUntracked(op) ==
  /\ SendOp(op, op.dup)
  /\ finished' = [finished EXCEPT ![op.id] = @ + 1]
  /\ UNCHANGED <<outgoing, inflight, collision, pending>>

\* The runtime thread ends on the first error, and it finishes a replay before
\* it takes another event.
Ready == error = None /\ replay = <<>>

Fail(e) ==
  /\ error' = e
  /\ actions' = <<>>

-----------------------------------------------------------------------------
(***************************************************************************)
(* DriverEvent::Command: on_command_publish, on_command_subscribe and      *)
(* on_command_unsubscribe.  ClientHandle submits with packet identifier 0, *)
(* so every kind but QoS 0 takes one from the pool, even while inactive.   *)
(***************************************************************************)
NewOp(id, kind) ==
  [id |-> id, kind |-> kind, dup |-> FALSE,
   pkid |-> IF kind = "qos0" THEN 0 ELSE NextCandidate]

Submit(id, kind) ==
  /\ Ready
  /\ id \notin submitted
  /\ submitted' = submitted \cup {id}
  /\ last_pkid' = IF kind = "qos0" THEN last_pkid ELSE NextCandidate
  /\ UNCHANGED <<active, outgoing_rel, replay, error>>

CommandOffline(id, kind) ==
  /\ Submit(id, kind)
  /\ ~active
  /\ pending' = Append(pending, NewOp(id, kind))
  /\ SendNothing
  /\ UNCHANGED <<outgoing, inflight, collision, finished>>

CommandUntracked(id, kind) ==
  /\ Submit(id, kind)
  /\ active
  /\ kind = "qos0"
  /\ SendUntracked(NewOp(id, kind))

CommandTracked(id, kind) ==
  /\ Submit(id, kind)
  /\ active
  /\ kind # "qos0"
  /\ TrackAndSend(NewOp(id, kind))

Command(id, kind) ==
  CommandOffline(id, kind) \/ CommandUntracked(id, kind) \/ CommandTracked(id, kind)

-----------------------------------------------------------------------------
Held(pkid) == pkid \in Slot /\ outgoing[pkid] # None

IsQos1(op) == op.kind = "qos1"  \* mutant: mark_publish_dup forgets QoS 2
IsPublish(op) == op.kind \in {"qos1", "qos2"}

WaitsNever(pkid) == FALSE  \* mutant: PUBACK and PUBCOMP promote nothing either
Waits(pkid) == collision # None /\ collision.pkid = pkid

CollisionKept(pkid) == collision  \* mutant: promote_collision clones instead of taking
CollisionDropped(pkid) == None    \* mutant: promote_collision does not put it back

\* promote_collision puts back a collision that waits for another slot.
CollisionAfter(pkid) == IF Waits(pkid) THEN None ELSE collision

(***************************************************************************)
(* release_ack(pkid), promote_collision(pkid) and the report to the        *)
(* client.  The freed slot goes to the collision if it waits for that      *)
(* identifier; if try_insert refuses it, it is dropped.  The packet of a   *)
(* promoted publish carries dup (mark_publish_dup), although the stored    *)
(* operation does not.                                                     *)
(***************************************************************************)
Promotes(pkid) == Waits(pkid) /\ inflight - 1 < MaxInflight

ReleaseAndPromote(pkid, ack) ==
  LET op == outgoing[pkid]
  IN  /\ outgoing' = [outgoing EXCEPT ![pkid] = IF Promotes(pkid) THEN collision ELSE None]
      /\ inflight' = IF Promotes(pkid) THEN inflight ELSE inflight - 1
      /\ collision' = CollisionAfter(pkid)
      /\ finished' = [finished EXCEPT ![op.id] = @ + 1]
      /\ IF Promotes(pkid)
           THEN /\ actions' = <<CompleteFor(op, ack),
                                Send(collision, collision.dup \/ IsPublish(collision))>>
                /\ transmitted' = transmitted \cup {collision.id}
           ELSE /\ actions' = <<CompleteFor(op, ack)>>
                /\ UNCHANGED transmitted

(***************************************************************************)
(* Packet::PubAck: on_puback_checked does not ask which kind of operation  *)
(* the slot holds, and does not look at outgoing_rel.                      *)
(***************************************************************************)
PubAck(pkid) ==
  /\ Ready
  /\ Held(pkid)
  /\ ReleaseAndPromote(pkid, "PubAck")
  /\ UNCHANGED <<active, last_pkid, pending, outgoing_rel, replay, error, submitted>>

\* Packet::PubRec: on_pubrec_checked.
PubRec(pkid) ==
  /\ Ready
  /\ pkid # 0
  /\ Held(pkid)
  /\ outgoing_rel' = [outgoing_rel EXCEPT ![pkid] = TRUE]
  /\ actions' = <<SendPubRel(pkid)>>
  /\ UNCHANGED <<active, last_pkid, outgoing, inflight, collision, pending, replay, error,
                 history>>

\* Packet::PubComp: on_pubcomp_checked.
PubComp(pkid) ==
  /\ Ready
  /\ pkid # 0
  /\ Held(pkid)
  /\ outgoing_rel[pkid]
  /\ outgoing_rel' = [outgoing_rel EXCEPT ![pkid] = FALSE]
  /\ ReleaseAndPromote(pkid, "PubComp")
  /\ UNCHANGED <<active, last_pkid, pending, replay, error, submitted>>

(***************************************************************************)
(* Packet::SubAck and Packet::UnsubAck: on_suback_checked and              *)
(* on_unsuback_checked.  Neither promotes a collision.  The slot is        *)
(* emptied before the kind of its operation is looked at, so the wrong     *)
(* kind loses the operation and ends the thread.                           *)
(***************************************************************************)
FilterAck(pkid, kind, ack) ==
  /\ Ready
  /\ Held(pkid)
  /\ outgoing' = [outgoing EXCEPT ![pkid] = None]
  /\ inflight' = inflight - 1
  /\ IF outgoing[pkid].kind = kind
       THEN /\ actions' = <<CompleteFor(outgoing[pkid], ack)>>
            /\ finished' = [finished EXCEPT ![outgoing[pkid].id] = @ + 1]
            /\ UNCHANGED error
       ELSE Fail("InvalidCommand") /\ UNCHANGED finished
  /\ UNCHANGED <<active, last_pkid, collision, pending, outgoing_rel, replay, submitted,
                 transmitted>>

SubAck(pkid) == FilterAck(pkid, "subscribe", "SubAck")
UnsubAck(pkid) == FilterAck(pkid, "unsubscribe", "UnsubAck")

\* The early returns of the five handlers above: the state is as it was.
UnsolicitedAck(pkid) ==
  /\ Ready
  /\ ~Held(pkid)
  /\ Fail("UnsolicitedAck")
  /\ UNCHANGED <<active, last_pkid, store, replay, history>>

UnsolicitedPubRec(pkid) ==
  /\ Ready
  /\ pkid \in Slot \ {0}
  /\ ~Held(pkid)
  /\ Fail("UnsolicitedPubRec")
  /\ UNCHANGED <<active, last_pkid, store, replay, history>>

UnsolicitedPubComp(pkid) ==
  /\ Ready
  /\ pkid \in Slot \ {0}
  /\ ~outgoing_rel[pkid] \/ ~Held(pkid)
  /\ Fail("UnsolicitedPubComp")
  /\ UNCHANGED <<active, last_pkid, store, replay, history>>

\* PUBREC or PUBCOMP with an identifier that idx refuses.
OutOfRange(pkid) ==
  /\ Ready
  /\ pkid \notin Slot \ {0}
  /\ Fail("PacketIdOutOfRange")
  /\ UNCHANGED <<active, last_pkid, store, replay, history>>

-----------------------------------------------------------------------------
Occupied == {i \in Slot : outgoing[i] # None}

(***************************************************************************)
(* DriverEvent::ConnectionLost, and the AwaitPingRespTimeout branch of     *)
(* Tick with the driver's own clean_session: on_connection_lost empties    *)
(* the slots in the order of their indices, then the collision, into       *)
(* pending.  A clean session forgets the pool and the QoS 2 phases, but    *)
(* the operations keep the identifiers they have.                          *)
(***************************************************************************)
ConnectionLost(clean_session) ==
  /\ Ready
  /\ active' = FALSE
  /\ \E slot \in [1 .. Cardinality(Occupied) -> Occupied] :
       /\ \A j, k \in DOMAIN slot : j < k => slot[j] < slot[k]
       /\ pending' = pending \o [k \in DOMAIN slot |-> outgoing[slot[k]]]
                             \o (IF collision # None THEN <<collision>> ELSE <<>>)
  /\ outgoing' = [i \in Slot |-> None]
  /\ collision' = None
  /\ inflight' = 0
  /\ IF clean_session THEN last_pkid' = 0 /\ outgoing_rel' = [i \in Slot |-> FALSE]
                      ELSE UNCHANGED <<last_pkid, outgoing_rel>>
  /\ actions' = <<TriggerReconnect>>
  /\ UNCHANGED <<replay, error, history>>

(***************************************************************************)
(* DriverEvent::ConnectionRestored up to the loop of                       *)
(* resend_pending_on_reconnect: pending is drained into replay.            *)
(***************************************************************************)
ConnectionRestored ==
  /\ Ready
  /\ active' = TRUE
  /\ replay' = pending
  /\ pending' = <<>>
  /\ actions' = <<>>
  /\ UNCHANGED <<last_pkid, outgoing, inflight, collision, outgoing_rel, error, history>>

(***************************************************************************)
(* One iteration of the loop over the drained operations.  No other event  *)
(* is handled until it has visited them all, and what it defers waits in   *)
(* pending for the next reconnect.                                         *)
(***************************************************************************)
Reinjected == [Head(replay) EXCEPT !.dup = @ \/ IsPublish(Head(replay))]

Replay ==
  /\ replay # <<>>
  /\ replay' = Tail(replay)
  /\ IF Reinjected.kind = "qos0" THEN SendUntracked(Reinjected) ELSE TrackAndSend(Reinjected)
  /\ UNCHANGED <<active, last_pkid, outgoing_rel, error, submitted>>

-----------------------------------------------------------------------------
\* RuntimeState::new leaves it inactive; the tests call set_active on it first.
Init ==
  /\ active \in BOOLEAN
  /\ last_pkid = 0
  /\ outgoing = [i \in Slot |-> None]
  /\ inflight = 0
  /\ collision = None
  /\ pending = <<>>
  /\ outgoing_rel = [i \in Slot |-> FALSE]
  /\ replay = <<>>
  /\ actions = <<>>
  /\ error = None
  /\ submitted = {}
  /\ transmitted = {}
  /\ finished = [id \in OpId |-> 0]

Incoming(pkid) ==
  \/ PubAck(pkid) \/ PubRec(pkid) \/ PubComp(pkid) \/ SubAck(pkid) \/ UnsubAck(pkid)
  \/ UnsolicitedAck(pkid) \/ UnsolicitedPubRec(pkid) \/ UnsolicitedPubComp(pkid)
  \/ OutOfRange(pkid)

Next ==
  \/ \E id \in OpId, kind \in Kind : Command(id, kind)
  \/ \E pkid \in WirePkid : Incoming(pkid)
  \/ \E clean_session \in BOOLEAN : ConnectionLost(clean_session)
  \/ ConnectionRestored
  \/ Replay

Spec == Init /\ [][Next]_vars

-----------------------------------------------------------------------------
(***************************************************************************)
(* Types.  PacketIdPool stays within the slots, the counter never exceeds  *)
(* the bound it is checked against nor falls below zero (it is a u16).     *)
(***************************************************************************)
TypeOK ==
  /\ active \in BOOLEAN
  /\ last_pkid \in Slot
  /\ outgoing \in [Slot -> Operation \cup {None}]
  /\ inflight \in 0 .. MaxInflight
  /\ collision \in Operation \cup {None}
  /\ pending \in Seq(Operation)
  /\ outgoing_rel \in [Slot -> BOOLEAN]
  /\ replay \in Seq(Operation)
  /\ actions \in Seq(DriverAction)
  /\ error \in Error \cup {None}
  /\ submitted \subseteq OpId
  /\ transmitted \subseteq OpId
  /\ finished \in [OpId -> Nat]

(***************************************************************************)
(* The counter that gates try_insert agrees with the slots; an operation   *)
(* in a slot has that slot's identifier; and an operation that needs an    *)
(* ack has an identifier wherever it waits, so that slot 0 stays empty and *)
(* a replay never has to take a new one from the pool.                     *)
(***************************************************************************)
Identified(op) == op.pkid = 0 => op.kind = "qos0"

StoreConsistent ==
  /\ inflight = Cardinality(Occupied)
  /\ \A i \in Occupied : outgoing[i].pkid = i /\ i # 0
  /\ collision # None => collision.pkid # 0
  /\ \A k \in DOMAIN pending : Identified(pending[k])
  /\ \A k \in DOMAIN replay : Identified(replay[k])

OutgoingIds == {outgoing[i].id : i \in Occupied}
CollisionIds == IF collision = None THEN {} ELSE {collision.id}
PendingIds == {pending[k].id : k \in DOMAIN pending}
ReplayIds == {replay[k].id : k \in DOMAIN replay}
OwnedIds == OutgoingIds \cup CollisionIds \cup PendingIds \cup ReplayIds

SlotsDistinct == \A i, j \in Occupied : outgoing[i].id = outgoing[j].id => i = j
PendingDistinct == \A j, k \in DOMAIN pending : pending[j].id = pending[k].id => j = k
ReplayDistinct == \A j, k \in DOMAIN replay : replay[j].id = replay[k].id => j = k

OwnersDisjoint ==
  /\ OutgoingIds \cap (CollisionIds \cup PendingIds \cup ReplayIds) = {}
  /\ CollisionIds \cap (PendingIds \cup ReplayIds) = {}
  /\ PendingIds \cap ReplayIds = {}

(***************************************************************************)
(* An operation is in at most one place of the state, however it moved     *)
(* between slots, collision, pending and the replay loop.                  *)
(***************************************************************************)
SingleOwner == SlotsDistinct /\ PendingDistinct /\ ReplayDistinct /\ OwnersDisjoint

(***************************************************************************)
(* Whatever a broker sends, a client hears of an operation's completion at *)
(* most once, and after that the runtime has forgotten the operation: it   *)
(* is in no queue that could send or complete it again.                    *)
(***************************************************************************)
FinishedOnce ==
  \A id \in OpId :
    /\ finished[id] <= 1
    /\ finished[id] = 1 => id \in submitted \ OwnedIds

(***************************************************************************)
(* A QoS 1 or QoS 2 publish that was sent before is sent again only with   *)
(* the dup flag set.                                                       *)
(***************************************************************************)
Resends(id) ==
  {k \in DOMAIN actions' : /\ actions'[k].do = "Send"
                           /\ actions'[k].packet \in {"qos1", "qos2"}
                           /\ actions'[k].id = id}

DupOnResend == [][\A id \in transmitted : \A k \in Resends(id) : actions'[k].dup]_vars

(***************************************************************************)
(* The promise of module OpLedger: what became of each operation.          *)
(***************************************************************************)
Status(id) ==
  IF id \notin submitted THEN "new"
  ELSE IF id \in OwnedIds THEN "open"
  ELSE IF finished[id] > 0 THEN "closed" ELSE "lost"

Ledger == INSTANCE OpLedger WITH status <- [id \in OpId |-> Status(id)], failed <- error # None

LedgerSpec == Ledger!Spec

-----------------------------------------------------------------------------
(***************************************************************************)
(* What the documents say and the code does not do.                        *)
(*                                                                         *)
(* An operation that finds its slot occupied, or the window full, goes to  *)
(* pending: while the thread runs, none is lost.  try_insert overwrites a  *)
(* collision, and its callers drop an operation while one is recorded.     *)
(***************************************************************************)
NothingLost == error = None => \A id \in OpId : Status(id) # "lost"
=============================================================================
