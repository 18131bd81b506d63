------------------------------ MODULE OpLedger ------------------------------
(***************************************************************************)
(* What the runtime promises about the operations clients submit, with     *)
(* nothing said of slots, queues or identifiers: an operation is open from *)
(* the moment it is submitted until it is closed, a closed operation stays *)
(* closed, and an open one is lost only if at least two others are open    *)
(* at that moment, or by the error that ends the runtime.                  *)
(***************************************************************************)
CONSTANT OpId

VARIABLES
  status,  \* what became of each operation
  failed   \* the runtime thread ended with an error

vars == <<status, failed>>

TypeOK ==
  /\ status \in [OpId -> {"new", "open", "closed", "lost"}]
  /\ failed \in BOOLEAN

Init ==
  /\ status = [id \in OpId |-> "new"]
  /\ failed = FALSE

Move(id, from, to) ==
  /\ status[id] = from
  /\ status' = [status EXCEPT ![id] = to]
  /\ UNCHANGED failed

\* Two operations other than id are open, before and after the step.
Overload(id) ==
  \E a, b \in OpId \ {id} : a # b /\ status'[a] = "open" /\ status'[b] = "open"

Submit(id) == Move(id, "new", "open")

\* A QoS 0 publish is done with when it is handed to the transport.
SubmitAndClose(id) == Move(id, "new", "closed")

Close(id) == Move(id, "open", "closed")

Refuse(id) == Move(id, "new", "lost") /\ Overload(id)

Lose(id) == Move(id, "open", "lost") /\ Overload(id)

\* A new operation takes the place of an older one.
Supplant(id, older) ==
  /\ status[id] = "new"
  /\ status[older] = "open"
  /\ status' = [status EXCEPT ![id] = "open", ![older] = "lost"]
  /\ Overload(older)
  /\ UNCHANGED failed

\* The thread ends, and may take the operation it was handling with it.
Fail ==
  /\ failed' = TRUE
  /\ \/ UNCHANGED status
     \/ \E id \in OpId : status[id] = "open" /\ status' = [status EXCEPT ![id] = "lost"]

Next ==
  /\ ~failed
  /\ \/ \E id \in OpId : Submit(id) \/ SubmitAndClose(id) \/ Close(id)
     \/ \E id \in OpId : Refuse(id) \/ Lose(id)
     \/ \E id, older \in OpId : Supplant(id, older)
     \/ Fail

Spec == Init /\ [][Next]_vars
=============================================================================
