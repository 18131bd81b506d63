---------------------------- MODULE Subscriptions ----------------------------
(***************************************************************************)
(* What the logical clients of one connection are promised: a client gets  *)
(* each message that one of its filters matches, once, and no other; its   *)
(* filters change one at a time, and no delivery changes them.  The step   *)
(* with which the service fails may leave a delivery half done.            *)
(***************************************************************************)
EXTENDS Router

CONSTANTS Client, Filter, Topic

VARIABLES
  subscribed,  \* the filters of each client
  inbox,       \* what each client was sent
  failed

vars == <<subscribed, inbox, failed>>

Wants(client, topic) == \E filter \in subscribed[client] : Matches(filter, topic)

Subscribe(client, filter) ==
  /\ subscribed' = [subscribed EXCEPT ![client] = @ \cup {filter}]
  /\ UNCHANGED inbox

Unsubscribe(client, filter) ==
  /\ subscribed' = [subscribed EXCEPT ![client] = @ \ {filter}]
  /\ UNCHANGED inbox

\* The clients in "reached" get the message: all that want it, or the service fails.
Deliver(topic, reached) ==
  /\ \A client \in reached : Wants(client, topic)
  /\ ~failed' => \A client \in Client : Wants(client, topic) => client \in reached
  /\ inbox' = [client \in Client |->
                 IF client \in reached THEN Append(inbox[client], topic) ELSE inbox[client]]
  /\ UNCHANGED subscribed

Init ==
  /\ subscribed = [client \in Client |-> {}]
  /\ inbox = [client \in Client |-> <<>>]
  /\ failed = FALSE

Next ==
  /\ ~failed
  /\ failed' \in BOOLEAN
  /\ \/ \E client \in Client, filter \in Filter :
          Subscribe(client, filter) \/ Unsubscribe(client, filter)
     \/ \E topic \in Topic, reached \in SUBSET Client : Deliver(topic, reached)
     \/ UNCHANGED <<subscribed, inbox>>

Spec == Init /\ [][Next]_vars
=============================================================================
