----------------------------- MODULE MCEndToEnd -----------------------------
EXTENDS EndToEnd

\* What may have been submitted so far: any of four operations, of which 2 and 3
\* are alike, or the first two of them and then up to four more, in their order.
History ==
  {done \in SUBSET {1, 2, 3, 4} : 3 \in done => 2 \in done} \cup {{1, 2} \cup 5 .. n : n \in 5 .. 8}

MCNext == EndToEndNext /\ submitted' \in History

MCSpec == EndToEndInit /\ [][MCNext]_allVars /\ WF_allVars(Runtime) /\ WF_allVars(Broker)
=============================================================================
