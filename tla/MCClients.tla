------------------------------ MODULE MCClients ------------------------------
EXTENDS Clients

CONSTANT Budget  \* bound: commands, messages and losses together

MCFilter == {<<"a", "#">>, <<"a", "+">>}
MCTopic == {<<"a">>, <<"a", "b">>}
MCOpId == [client : Client, token : 1 .. MaxCommands, kind : Kind, filter : Filter]

\* The budget restrains the users and the faults, which owe nobody anything.
Dropped == next_id - Cardinality(open)

MCNext ==
  /\ ClientsNext
  /\ issued' + messages' + Dropped' + 2 * (timeouts' + drops') <= Budget

MCSpec == ClientsInit /\ [][MCNext]_allVars /\ WF_allVars(Runtime) /\ WF_allVars(Answer)
=============================================================================
