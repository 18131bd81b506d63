-------------------------- MODULE EventLoop_proofs --------------------------
(***************************************************************************)
(* The keepalive holds for every keep_alive, every tick_interval and every *)
(* amount of traffic.                                                      *)
(***************************************************************************)
EXTENDS EventLoop, TLAPS, SequenceTheorems, WellFoundedInduction

(***************************************************************************)
(* A tick that is due is taken before time passes again.                   *)
(***************************************************************************)
TickInTime == step = "clock" => tick_age < TickInterval

(***************************************************************************)
(* The last tick of an active connection left it idle for less than a      *)
(* keepalive.                                                              *)
(***************************************************************************)
IdleAtTick == active => Idle < KeepAlive + tick_age

(***************************************************************************)
(* on_tick measures the wait from a packet sent no earlier than the        *)
(* PINGREQ it waits for.                                                   *)
(***************************************************************************)
WaitAfterPing == await_pingresp => outgoing_age <= ping_age

LoopInv == TypeOK /\ TickInTime /\ IdleAtTick /\ WaitAfterPing

USE KeepAliveAssumption, TickIntervalAssumption

-----------------------------------------------------------------------------
(***************************************************************************)
(* The parser's buffer and the wire hold pieces, whatever is read.         *)
(***************************************************************************)
LEMMA PiecesRead ==
  ASSUME NEW pieces \in Seq(Piece), NEW n \in 0 .. Len(pieces)
  PROVE  SubSeq(pieces, 1, n) \in Seq(Piece) /\ Rest(pieces, n) \in Seq(Piece)
<1>1. \A i \in 1 .. Len(pieces) : pieces[i] \in Piece
  BY ElementOfSeq
<1>2. Len(pieces) \in Nat
  BY LenProperties
<1>3. SubSeq(pieces, 1, n) \in Seq(Piece)
  BY <1>1, <1>2, SubSeqProperties
<1>4. SubSeq(pieces, n + 1, Len(pieces)) \in Seq(Piece)
  BY <1>1, <1>2, SubSeqProperties
<1> QED BY <1>3, <1>4 DEF Rest

\* Every set of positions has a first one.
LEMMA FirstPosition ==
  ASSUME NEW T \in SUBSET Nat, T # {}
  PROVE  \E i \in T : \A j \in T : i <= j
<1>1. PICK i \in T : \A j \in T : ~ (<<j, i>> \in OpToRel(<, Nat))
  BY NatLessThanWellFounded, WFMin
<1>2. \A j \in T : ~ (j < i)
  BY <1>1 DEF OpToRel
<1> QED BY <1>2

\* The first frame of a buffer lies within the buffer.
LEMMA FrameFits ==
  ASSUME NEW pieces \in Seq(Piece), HasFrame(pieces)
  PROVE  FrameLen(pieces) \in 1 .. Len(pieces)
<1>1. FrameEnds(pieces) \subseteq 1 .. Len(pieces)
  BY LenProperties DEF FrameEnds
<1>2. \E i \in FrameEnds(pieces) : \A j \in FrameEnds(pieces) : i <= j
  BY <1>1, FirstPosition, LenProperties DEF HasFrame
<1>3. FrameLen(pieces) \in FrameEnds(pieces)
  BY <1>2 DEF FrameLen
<1> QED BY <1>1, <1>3, LenProperties

-----------------------------------------------------------------------------
(***************************************************************************)
(* Older keeps the order of two ages and never shrinks one.                *)
(***************************************************************************)
LEMMA OlderType ==
  ASSUME NEW age \in Age, NEW d \in {0, 1}
  PROVE  Older(age, d) \in Age /\ Older(age, d) <= age + d
BY DEF Older, Smaller, Age, Old

\* Two ages that grow by the same keep their order.
LEMMA OlderMonotone ==
  ASSUME NEW a \in Age, NEW b \in Age, NEW d \in {0, 1}, a <= b
  PROVE  Older(a, d) <= Older(b, d)
BY DEF Older, Smaller, Age, Old

-----------------------------------------------------------------------------
\* The initial states satisfy the invariant.
LEMMA InitLoop == Init => LoopInv
<1> SUFFICES ASSUME Init PROVE LoopInv
  OBVIOUS
<1>1. 0 \in Age /\ Old \in Age /\ 0 \in 0 .. TickInterval
  BY DEF Age, Old
<1>2. <<>> \in Seq(Piece)
  BY EmptySeq
<1>3. TypeOK
  BY <1>1, <1>2 DEF Init, TypeOK, Outcome
<1>4. TickInTime /\ IdleAtTick /\ WaitAfterPing
  BY DEF Init, TickInTime, IdleAtTick, WaitAfterPing, Idle, Smaller
<1> QED BY <1>3, <1>4 DEF LoopInv

\* Time passes: every age grows by the same, up to Old, which is beyond both bounds.
LEMMA ClockLoop ==
  ASSUME LoopInv, NEW d \in {0, 1}, Clock(d)
  PROVE  LoopInv'
<1>1. incoming_age \in Age /\ outgoing_age \in Age /\ ping_age \in Age /\ tick_age \in Age
  BY DEF LoopInv, TypeOK, Age, Old
<1>2. tick_age' \in 0 .. TickInterval /\ tick_age' = tick_age + d
  BY DEF LoopInv, TypeOK, TickInTime, Clock, Running, Older, Smaller, Old
<1>3. TypeOK'
  BY <1>1, <1>2, OlderType DEF LoopInv, TypeOK, Clock, peer
<1>4. TickInTime'
  BY DEF Clock, TickInTime
<1>5. IdleAtTick'
  BY <1>1, <1>2, OlderType DEF LoopInv, IdleAtTick, Clock, Idle, Smaller, Age, Old
<1>6. WaitAfterPing'
  BY <1>1, OlderMonotone DEF LoopInv, WaitAfterPing, Clock
<1> QED BY <1>3, <1>4, <1>5, <1>6 DEF LoopInv

\* A clock may be restarted.
LEMMA ZeroAge == 0 \in Age /\ 0 \in 0 .. TickInterval
BY DEF Age, Old

(***************************************************************************)
(* A packet sent or received disturbs neither bound.                       *)
(***************************************************************************)
LEMMA SentEarlier ==
  ASSUME TypeOK, IdleAtTick, WaitAfterPing,
         outgoing_age' \in {0, outgoing_age},
         incoming_age' \in {0, incoming_age},
         await_pingresp' => await_pingresp,
         UNCHANGED <<active, tick_age, ping_age>>
  PROVE  IdleAtTick' /\ WaitAfterPing'
<1>1. /\ incoming_age \in Nat /\ outgoing_age \in Nat /\ ping_age \in Nat /\ tick_age \in Nat
      /\ KeepAlive \in Nat \ {0}
  BY DEF TypeOK, Age, Old
<1>2. Idle' <= Idle /\ Idle' \in Nat /\ Idle \in Nat
  BY <1>1 DEF Idle, Smaller
<1>3. IdleAtTick'
  BY <1>1, <1>2 DEF IdleAtTick
<1>4. WaitAfterPing'
  BY <1>1 DEF WaitAfterPing
<1> QED BY <1>3, <1>4

\* A command may restart the clock of outgoing packets.
LEMMA CommandLoop ==
  ASSUME LoopInv, PollCommand
  PROVE  LoopInv'
<1>1. TypeOK'
  BY DEF LoopInv, TypeOK, PollCommand, peer, Outcome, Age, Old
<1>2. TickInTime'
  BY DEF PollCommand, TickInTime
<1>3. /\ outgoing_age' \in {0, outgoing_age}
      /\ UNCHANGED <<active, await_pingresp, incoming_age, tick_age, ping_age>>
  BY DEF PollCommand
<1>4. IdleAtTick' /\ WaitAfterPing'
  BY <1>3, SentEarlier DEF LoopInv
<1> QED BY <1>1, <1>2, <1>4 DEF LoopInv

\* A read moves pieces from the wire to the parser; a packet restarts clocks.
LEMMA IncomingLoop ==
  ASSUME LoopInv, PollIncoming
  PROVE  LoopInv'
<1>1. buf \in Seq(Piece) /\ wire \in Seq(Piece) /\ Len(wire) \in Nat
  BY LenProperties DEF LoopInv, TypeOK
<1>2. CASE ReadNothing
  BY <1>2 DEF LoopInv, TypeOK, ReadNothing, Running, clocks, peer, Outcome,
              TickInTime, IdleAtTick, WaitAfterPing, Idle
<1>3. ASSUME NEW n \in 1 .. Len(wire), ReadPart(n)
      PROVE  LoopInv'
  <2>1. buf' \in Seq(Piece) /\ wire' \in Seq(Piece)
    BY <1>1, <1>3, PiecesRead, ConcatProperties DEF ReadPart
  <2>2. TypeOK'
    BY <2>1, <1>3 DEF LoopInv, TypeOK, ReadPart, clocks, Outcome
  <2>3. TickInTime' /\ IdleAtTick' /\ WaitAfterPing'
    BY <1>3 DEF LoopInv, ReadPart, clocks, TickInTime, IdleAtTick, WaitAfterPing, Idle
  <2> QED BY <2>2, <2>3 DEF LoopInv
<1>4. ASSUME NEW n \in 1 .. Len(wire), ReadPacket(n)
      PROVE  LoopInv'
  <2> DEFINE pieces == buf \o SubSeq(wire, 1, n)
             packet == pieces[FrameLen(pieces)].of
  <2>1. pieces \in Seq(Piece) /\ wire' \in Seq(Piece)
    BY <1>1, <1>4, PiecesRead, ConcatProperties DEF ReadPacket
  <2>2. HasFrame(pieces) /\ buf' = Rest(pieces, FrameLen(pieces)) /\ Handle(packet)
    BY <1>4 DEF ReadPacket
  <2>3. FrameLen(pieces) \in 1 .. Len(pieces)
    BY <2>1, <2>2, FrameFits
  <2>4. buf' \in Seq(Piece)
    <3> HIDE DEF pieces
    <3> QED BY <2>1, <2>2, <2>3, PiecesRead
  <2>5. packet \in Frame
    <3>1. pieces[FrameLen(pieces)] \in Piece
      <4> HIDE DEF pieces
      <4> QED BY <2>1, <2>3, ElementOfSeq
    <3> QED BY <3>1 DEF Piece
  <2> HIDE DEF packet
  <2>6. /\ outcome' \in Outcome
        /\ incoming_age' = 0
        /\ outgoing_age' \in {0, outgoing_age}
        /\ await_pingresp' \in BOOLEAN /\ (await_pingresp' => await_pingresp)
    BY <2>2, <2>5 DEF Handle, Outcome, Frame, LoopInv, TypeOK
  <2>7. step' = "tick" /\ UNCHANGED <<active, tick_age, ping_age, unanswered, alive, ended>>
    BY <1>4 DEF ReadPacket
  <2>8. TypeOK'
    BY <2>1, <2>4, <2>6, <2>7, ZeroAge DEF LoopInv, TypeOK
  <2>9. TickInTime'
    BY <2>7 DEF TickInTime
  <2>10. IdleAtTick' /\ WaitAfterPing'
    BY <2>6, <2>7, SentEarlier DEF LoopInv
  <2> QED BY <2>8, <2>9, <2>10 DEF LoopInv
<1> QED BY <1>2, <1>3, <1>4 DEF PollIncoming

\* A tick that is due leaves an active connection idle for less than a keepalive.
LEMMA TickLoop ==
  ASSUME LoopInv, PollTick
  PROVE  LoopInv'
<1>1. CASE TickLater
  BY <1>1 DEF LoopInv, TypeOK, TickLater, TickDue, clocks, peer, TickInTime, IdleAtTick,
              WaitAfterPing, Idle
<1>2. CASE TickQuiet
  <2>1. TypeOK'
    BY <1>2 DEF LoopInv, TypeOK, TickQuiet, peer, Outcome
  <2>2. TickInTime'
    BY <1>2 DEF TickQuiet, TickInTime
  <2>3. IdleAtTick' /\ WaitAfterPing'
    BY <1>2 DEF LoopInv, TypeOK, TickQuiet, PingDue, IdleAtTick, WaitAfterPing, Idle, Smaller,
                Age, Old
  <2> QED BY <2>1, <2>2, <2>3 DEF LoopInv
<1>3. CASE TickPing
  <2>1. TypeOK'
    BY <1>3 DEF LoopInv, TypeOK, TickPing, Outcome, Age, Old
  <2>2. TickInTime'
    BY <1>3 DEF TickPing, TickInTime
  <2>3. IdleAtTick' /\ WaitAfterPing'
    BY <1>3 DEF LoopInv, TypeOK, TickPing, IdleAtTick, WaitAfterPing, Idle, Smaller, Age, Old
  <2> QED BY <2>1, <2>2, <2>3 DEF LoopInv
<1>4. CASE TickReconnect
  <2>1. TypeOK'
    BY <1>4, ZeroAge DEF LoopInv, TypeOK, TickReconnect, peer, Outcome
  <2>2. TickInTime'
    BY <1>4 DEF TickReconnect, TickInTime
  <2>3. IdleAtTick' /\ WaitAfterPing'
    BY <1>4 DEF LoopInv, TypeOK, TickReconnect, IdleAtTick, WaitAfterPing, Idle, Smaller, Age, Old
  <2> QED BY <2>1, <2>2, <2>3 DEF LoopInv
<1> QED BY <1>1, <1>2, <1>3, <1>4 DEF PollTick

\* The broker touches no clock.
LEMMA BrokerLoop ==
  ASSUME LoopInv, Broker
  PROVE  LoopInv'
<1>1. ASSUME NEW frame \in Frame, Write(frame)
      PROVE  wire' \in Seq(Piece)
  <2>1. Pieces(frame) \in Seq(Piece)
    BY DEF Pieces, Piece
  <2> QED BY <2>1, <1>1, ConcatProperties DEF Write, LoopInv, TypeOK
<1>2. wire' \in Seq(Piece)
  BY <1>1 DEF Broker, Answer, Push, FallSilent, LoopInv, TypeOK, Frame
<1>3. TypeOK'
  BY <1>2 DEF Broker, Answer, Push, FallSilent, Write, LoopInv, TypeOK, clocks
<1>4. TickInTime' /\ IdleAtTick' /\ WaitAfterPing'
  BY DEF Broker, Answer, Push, FallSilent, Write, LoopInv, clocks, TickInTime, IdleAtTick,
         WaitAfterPing, Idle
<1> QED BY <1>3, <1>4 DEF LoopInv

\* An error leaves the clocks as they are.
LEMMA EndLoop ==
  ASSUME LoopInv, NEW e \in RuntimeTaskError, End(e)
  PROVE  LoopInv'
BY DEF End, LoopInv, TypeOK, clocks, peer, TickInTime, IdleAtTick, WaitAfterPing, Idle

\* Every step preserves the invariant.
LEMMA NextLoop == LoopInv /\ [Next]_vars => LoopInv'
<1> SUFFICES ASSUME LoopInv, [Next]_vars PROVE LoopInv'
  OBVIOUS
<1>1. CASE UNCHANGED vars
  BY <1>1 DEF vars, clocks, peer, LoopInv, TypeOK, TickInTime, IdleAtTick, WaitAfterPing, Idle
<1>2. CASE Loop
  BY <1>2, ClockLoop, CommandLoop, IncomingLoop, TickLoop DEF Loop
<1>3. CASE Broker
  BY <1>3, BrokerLoop
<1>4. CASE \E e \in RuntimeTaskError : End(e)
  BY <1>4, EndLoop
<1> QED BY <1>1, <1>2, <1>3, <1>4 DEF Next

\* The invariant holds in every reachable state.
LEMMA LoopInvariant == Spec => []LoopInv
BY InitLoop, NextLoop, PTL DEF Spec

-----------------------------------------------------------------------------
(***************************************************************************)
(* Types, and poll_tick never falls behind tick_interval.                  *)
(***************************************************************************)
THEOREM LoopTypeCorrect == Spec => []TypeOK
<1>1. LoopInv => TypeOK
  BY DEF LoopInv
<1> QED BY <1>1, LoopInvariant, PTL

(***************************************************************************)
(* An active connection is never idle for keep_alive + tick_interval.      *)
(***************************************************************************)
THEOREM NeverIdleTooLong == Spec => []IdleBounded
<1>1. LoopInv => IdleBounded
  BY DEF LoopInv, TypeOK, IdleAtTick, IdleBounded, Idle, Smaller, Age, Old
<1> QED BY <1>1, LoopInvariant, PTL

(***************************************************************************)
(* on_tick never sends a PINGREQ while it waits for an earlier one.        *)
(***************************************************************************)
THEOREM PingsOneAtATime == Spec => OnePingAtATime
<1>1. LoopInv /\ [Next]_vars => [TickPing => ~await_pingresp]_vars
  BY DEF LoopInv, TypeOK, TickPing, TimedOut, PingDue, Idle, Smaller, Age, Old
<1> QED BY <1>1, LoopInvariant, PTL DEF Spec, OnePingAtATime

(***************************************************************************)
(* on_tick gives a PINGRESP at least keep_alive to arrive.                 *)
(***************************************************************************)
THEOREM WaitsForPingResp == Spec => Patient
<1>1. LoopInv /\ [Next]_vars => [TickReconnect => ping_age >= KeepAlive]_vars
  BY DEF LoopInv, TypeOK, TickReconnect, TimedOut, WaitAfterPing, Age, Old
<1> QED BY <1>1, LoopInvariant, PTL DEF Spec, Patient
=============================================================================
