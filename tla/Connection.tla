------------------------------ MODULE Connection ------------------------------
(***************************************************************************)
(* The runtime's protocol state (module RuntimeState) at one end of a      *)
(* connection that delivers in order: how RuntimeTask sends what a step    *)
(* pushed, and when it gives a connection up.  Modules EndToEnd and        *)
(* Clients put a broker at the other end.                                  *)
(*                                                                         *)
(* A connection is given up in two ways.  A keepalive timeout leads to     *)
(* reconnect on the transport the task has: nothing on the way is lost and *)
(* the broker knows nothing of it ("timeouts").  Or the transport has come *)
(* back with a new connection: what was on the way is lost ("drops").      *)
(***************************************************************************)
EXTENDS RuntimeState

CONSTANT MaxLosses  \* bound: how often a connection is given up

ASSUME MaxLossesAssumption == MaxLosses \in Nat

VARIABLES
  clean_session,  \* RuntimeDriver.clean_session
  to_broker,      \* packets on their way to the broker
  to_runtime,     \* packets on their way to the runtime
  timeouts,       \* history: keepalive timeouts on a connection that is kept
  drops           \* history: connections replaced

network == <<to_broker, to_runtime>>
losses == <<timeouts, drops>>

\* handle_actions sends what a step pushed.
IsSend(k) == k \in DOMAIN actions' /\ actions'[k].do = "Send"

SentAlone(k) ==  \* mutant: a packet is sent only if it is the only action
  IF Len(actions') = 1 /\ IsSend(k) THEN <<actions'[k]>> ELSE <<>>
SentAll(k) ==    \* mutant: what is for clients goes to the broker as well
  IF k \in DOMAIN actions' THEN <<actions'[k]>> ELSE <<>>
Sent(k) == IF IsSend(k) THEN <<actions'[k]>> ELSE <<>>

\* A step pushes no more than two actions (lemma AtMostTwo of EndToEnd_proofs).
Transmit == to_broker' = to_broker \o Sent(1) \o Sent(2)

\* Nothing else is handled between ConnectionLost and ConnectionRestored.
Reconnecting == actions = <<TriggerReconnect>>

MayLose == active /\ timeouts + drops < MaxLosses
=============================================================================
