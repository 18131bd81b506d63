------------------------------ MODULE EventLoop ------------------------------
(***************************************************************************)
(* RuntimeTask::run and the clocks it drives: the loop of poll_command,    *)
(* poll_incoming and poll_tick, the FrameParser between the transport and  *)
(* poll_incoming, and the keepalive of RuntimeState::on_tick.              *)
(*                                                                         *)
(* Time is counted in units no shorter than one turn of the loop, so a     *)
(* turn takes at most one unit; a transport whose read blocks for longer   *)
(* is not covered.  A timestamp is kept as its age, which stops growing    *)
(* at Old.                                                                 *)
(*                                                                         *)
(* Abstracted: what a command or a packet does to the rest of the state    *)
(* (module RuntimeState); here it sends something, or not, or ends the     *)
(* thread.  A frame is two pieces, so that a read can split it or join     *)
(* several.                                                                *)
(***************************************************************************)
EXTENDS Integers, Sequences

CONSTANTS
  KeepAlive,     \* RuntimeState.keep_alive
  TickInterval,  \* RuntimeTask.tick_interval
  MaxPieces      \* bound: pieces written by the broker and not yet handled

ASSUME KeepAliveAssumption == KeepAlive \in Nat \ {0}
ASSUME TickIntervalAssumption == TickInterval \in Nat \ {0}

Old == KeepAlive + TickInterval
Age == 0 .. Old

Frame == {"pingresp", "other"}
Piece == [of : Frame, end : BOOLEAN]
Pieces(frame) == <<[of |-> frame, end |-> FALSE], [of |-> frame, end |-> TRUE]>>

RuntimeTaskError == {"Runtime", "Protocol", "Io", "CommandChannelClosed", "EventChannelClosed"}

VARIABLES
  step,            \* where run's loop is; "clock" lets time pass between turns
  active,          \* RuntimeState.active
  await_pingresp,  \* RuntimeState.await_pingresp
  incoming_age,    \* now - last_incoming
  outgoing_age,    \* now - last_outgoing
  tick_age,        \* now - last_tick
  buf,             \* FrameParser.buf
  wire,            \* what the broker wrote and read has not returned yet
  unanswered,      \* a PINGREQ reached the broker and it has not answered
  alive,           \* the broker still reads and writes
  outcome,         \* what the last step did
  ended,           \* the error that ended the thread, or "no"
  ping_age         \* history: the age of the last PINGREQ

clocks == <<incoming_age, outgoing_age, tick_age, ping_age>>
peer == <<wire, unanswered, alive>>
vars == <<step, active, await_pingresp, clocks, buf, peer, outcome, ended>>

Outcome == {"idle", "sent", "none", "other", "pingresp", "pingreq", "reconnect"}

-----------------------------------------------------------------------------
Smaller(a, b) == IF a < b THEN a ELSE b

Running(at) == ended = "no" /\ step = at

Older(age, d) == Smaller(age + d, Old)

\* Time passes between two turns of the loop.
Clock(d) ==
  /\ Running("clock")
  /\ step' = "command"
  /\ incoming_age' = Older(incoming_age, d)
  /\ outgoing_age' = Older(outgoing_age, d)
  /\ tick_age' = Older(tick_age, d)
  /\ ping_age' = Older(ping_age, d)
  /\ UNCHANGED <<active, await_pingresp, buf, peer, outcome, ended>>

(***************************************************************************)
(* poll_command: the channel is empty, or a command is handled and its     *)
(* packet sent if the state is active and has room for it.                 *)
(***************************************************************************)
PollCommand ==
  /\ Running("command")
  /\ step' = "incoming"
  /\ \/ /\ outcome' = "idle"
        /\ UNCHANGED outgoing_age
     \/ /\ active
        /\ outcome' = "sent"
        /\ outgoing_age' = 0
  /\ UNCHANGED <<active, await_pingresp, incoming_age, tick_age, ping_age, buf, peer, ended>>

-----------------------------------------------------------------------------
FrameEnds(pieces) == {i \in DOMAIN pieces : pieces[i].end}
HasFrame(pieces) == FrameEnds(pieces) # {}
FrameLen(pieces) == CHOOSE i \in FrameEnds(pieces) : \A j \in FrameEnds(pieces) : i <= j
Rest(pieces, n) == SubSeq(pieces, n + 1, Len(pieces))

(***************************************************************************)
(* read_one_packet when read returns no bytes: the parser is not asked.    *)
(***************************************************************************)
ReadNothing ==
  /\ Running("incoming")
  /\ wire = <<>>
  /\ step' = "tick"
  /\ outcome' = "none"
  /\ UNCHANGED <<active, await_pingresp, clocks, buf, peer, ended>>

\* read_one_packet when read returns n pieces that complete no frame.
ReadPart(n) ==
  /\ Running("incoming")
  /\ ~HasFrame(buf \o SubSeq(wire, 1, n))
  /\ step' = "tick"
  /\ buf' = buf \o SubSeq(wire, 1, n)
  /\ wire' = Rest(wire, n)
  /\ outcome' = "none"
  /\ UNCHANGED <<active, await_pingresp, clocks, unanswered, alive, ended>>

(***************************************************************************)
(* poll_incoming with one packet, however many frames the bytes complete.  *)
(* The packet counts as incoming activity; if it is a PINGRESP the wait    *)
(* is over, and if it is another it may be answered.                       *)
(***************************************************************************)
Handle(packet) ==
  /\ outcome' = packet
  /\ incoming_age' = 0
  /\ IF packet = "pingresp"
       THEN await_pingresp' = FALSE /\ UNCHANGED outgoing_age
       ELSE outgoing_age' \in {0, outgoing_age} /\ UNCHANGED await_pingresp

ReadPacket(n) ==
  LET pieces == buf \o SubSeq(wire, 1, n)
  IN  /\ Running("incoming")
      /\ HasFrame(pieces)
      /\ step' = "tick"
      /\ buf' = Rest(pieces, FrameLen(pieces))
      /\ wire' = Rest(wire, n)
      /\ Handle(pieces[FrameLen(pieces)].of)
      /\ UNCHANGED <<active, tick_age, ping_age, unanswered, alive, ended>>

PollIncoming == ReadNothing \/ \E n \in 1 .. Len(wire) : ReadPart(n) \/ ReadPacket(n)

-----------------------------------------------------------------------------
\* max(last_incoming, last_outgoing) is the younger of the two.
Idle == Smaller(incoming_age, outgoing_age)

PingDueLate == Idle > KeepAlive  \* mutant: one unit late
PingDue == Idle >= KeepAlive

\* Mutants: one unit late; measured from last_incoming; the ping branch taken first.
TimedOutLate == await_pingresp /\ outgoing_age > KeepAlive
TimedOutIncoming == await_pingresp /\ incoming_age >= KeepAlive
TimedOutSecond == await_pingresp /\ outgoing_age >= KeepAlive /\ ~PingDue

TimedOut == await_pingresp /\ outgoing_age >= KeepAlive

TickDueLate == tick_age > TickInterval  \* mutant: one unit late
TickDue == tick_age >= TickInterval

TickLater ==
  /\ Running("tick")
  /\ ~TickDue
  /\ step' = "clock"
  /\ UNCHANGED <<active, await_pingresp, clocks, buf, peer, outcome, ended>>

\* on_tick answers None.
TickQuiet ==
  /\ Running("tick")
  /\ TickDue
  /\ ~active \/ (~TimedOut /\ ~PingDue)
  /\ step' = "clock"
  /\ tick_age' = 0
  /\ outcome' = "idle"
  /\ UNCHANGED <<active, await_pingresp, incoming_age, outgoing_age, ping_age, buf, peer, ended>>

TickPing ==
  /\ Running("tick")
  /\ TickDue
  /\ active /\ ~TimedOut /\ PingDue
  /\ step' = "clock"
  /\ tick_age' = 0
  /\ await_pingresp' = TRUE
  /\ outgoing_age' = 0
  /\ ping_age' = 0
  /\ outcome' = "pingreq"
  /\ unanswered' = (unanswered \/ alive)
  /\ UNCHANGED <<active, incoming_age, buf, wire, alive, ended>>

(***************************************************************************)
(* AwaitPingRespTimeout: on_connection_lost, TriggerReconnect and at once  *)
(* RuntimeTask::reconnect.  Neither the transport nor the parser is        *)
(* replaced, and the operations that are resent go out in the same unit.   *)
(***************************************************************************)
TickReconnect ==
  /\ Running("tick")
  /\ TickDue
  /\ active /\ TimedOut
  /\ step' = "clock"
  /\ tick_age' = 0
  /\ await_pingresp' = FALSE
  /\ incoming_age' = 0
  /\ outgoing_age' = 0
  /\ outcome' = "reconnect"
  /\ UNCHANGED <<active, ping_age, buf, peer, ended>>

PollTick == TickLater \/ TickQuiet \/ TickPing \/ TickReconnect

(***************************************************************************)
(* Every error is the last thing the thread does: run returns it and       *)
(* RuntimeHost drops it.                                                   *)
(***************************************************************************)
Raises ==
  [clock |-> {},
   command |-> {"Protocol", "Io", "CommandChannelClosed"},
   incoming |-> {"Runtime", "Protocol", "Io", "EventChannelClosed"},
   tick |-> {"Protocol", "Io"}]

End(e) ==
  /\ ended = "no"
  /\ e \in Raises[step]
  /\ ended' = e
  /\ UNCHANGED <<step, active, await_pingresp, clocks, buf, peer, outcome>>

-----------------------------------------------------------------------------
\* The broker.
Write(frame) ==
  /\ alive
  /\ Len(wire) + Len(buf) + 2 <= MaxPieces
  /\ wire' = wire \o Pieces(frame)
  /\ UNCHANGED <<step, active, await_pingresp, clocks, buf, alive, outcome, ended>>

Answer == unanswered /\ unanswered' = FALSE /\ Write("pingresp")

Push == Write("other") /\ UNCHANGED unanswered

FallSilent ==
  /\ alive
  /\ alive' = FALSE
  /\ unanswered' = FALSE
  /\ UNCHANGED <<step, active, await_pingresp, clocks, buf, wire, outcome, ended>>

-----------------------------------------------------------------------------
\* RuntimeHost leaves the state inactive; a RuntimeTask of one's own may be active.
Init ==
  /\ step = "clock"
  /\ active \in BOOLEAN
  /\ await_pingresp = FALSE
  /\ incoming_age = 0
  /\ outgoing_age = 0
  /\ tick_age = 0
  /\ ping_age = Old
  /\ buf = <<>>
  /\ wire = <<>>
  /\ unanswered = FALSE
  /\ alive = TRUE
  /\ outcome = "idle"
  /\ ended = "no"

Loop == (\E d \in {0, 1} : Clock(d)) \/ PollCommand \/ PollIncoming \/ PollTick

Broker == Answer \/ Push \/ FallSilent

Next == Loop \/ Broker \/ \E e \in RuntimeTaskError : End(e)

Spec == Init /\ [][Next]_vars

(***************************************************************************)
(* The thread keeps turning, and time passes while it does.                *)
(***************************************************************************)
FairSpec == Spec /\ WF_vars(Loop) /\ SF_vars(Clock(1))

-----------------------------------------------------------------------------
(***************************************************************************)
(* Types.  The last tick is never older than the interval when the loop    *)
(* looks at it, so poll_tick does not fall behind.                         *)
(***************************************************************************)
TypeOK ==
  /\ step \in {"clock", "command", "incoming", "tick"}
  /\ active \in BOOLEAN
  /\ await_pingresp \in BOOLEAN
  /\ incoming_age \in Age
  /\ outgoing_age \in Age
  /\ tick_age \in 0 .. TickInterval
  /\ ping_age \in Age
  /\ buf \in Seq(Piece)
  /\ wire \in Seq(Piece)
  /\ unanswered \in BOOLEAN
  /\ alive \in BOOLEAN
  /\ outcome \in Outcome
  /\ ended \in RuntimeTaskError \cup {"no"}

(***************************************************************************)
(* An active connection is never idle for a whole tick interval beyond its *)
(* keepalive: by then something was received, or sent.                     *)
(***************************************************************************)
IdleBounded == active => Idle < KeepAlive + TickInterval

(***************************************************************************)
(* A PINGREQ is never sent while an earlier one is waited for, although    *)
(* every packet sent in the meantime restarts the wait of on_tick.         *)
(***************************************************************************)
OnePingAtATime == [][TickPing => ~await_pingresp]_vars

(***************************************************************************)
(* The connection is not given up less than a keepalive after the PINGREQ  *)
(* that was not answered.                                                  *)
(***************************************************************************)
Patient == [][TickReconnect => ping_age >= KeepAlive]_vars

(***************************************************************************)
(* A broker that has fallen silent is noticed, again and again, once the   *)
(* clients send nothing either: on_tick pings, waits and reconnects.       *)
(***************************************************************************)
Silence == ~alive /\ active /\ outcome # "sent"
Reconnects == outcome = "reconnect"
SilenceNoticed == <>[]Silence => []<>(ended # "no" \/ Reconnects)

-----------------------------------------------------------------------------
(***************************************************************************)
(* What the documents say and the code does not do.                        *)
(*                                                                         *)
(* on_tick gives the connection up for a missing PINGRESP: so none had     *)
(* arrived by the tick before.  read_one_packet handles one packet per     *)
(* read, and a frame left in the parser, which is as old as the last       *)
(* packet handled, waits until the transport has more bytes.               *)
(***************************************************************************)
PingRespArrived ==
  incoming_age >= TickInterval /\ \E i \in FrameEnds(buf) : buf[i].of = "pingresp"
TimeoutMeansMissing == [][TickReconnect => ~PingRespArrived]_vars

(***************************************************************************)
(* Waiting too long for a PINGRESP triggers a reconnect.  The wait is      *)
(* measured from last_outgoing, which every packet sent refreshes.         *)
(***************************************************************************)
MissingPingRespNoticed ==
  (~alive /\ await_pingresp) ~> (ended # "no" \/ Reconnects \/ ~await_pingresp)
=============================================================================
