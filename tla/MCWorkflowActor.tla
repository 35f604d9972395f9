-------------------------- MODULE MCWorkflowActor --------------------------
EXTENDS WorkflowActor

CONSTANTS r1, r2, c1, c2, c3, c4, c5

Handlers == {<<"run", "sleep">>, <<"race">>, <<"run", "signal">>}

Choices ==
    [c \in {c1, c2, c3, c4, c5} |->
        CASE c = c1 -> {"execute", "send"}
          [] c = c2 -> {"rerun", "prune", "interrupt"}
          [] c = c3 -> {"signal"}
          [] c = c4 -> {"signal", "resume"}
          [] c = c5 -> {"execute", "waitFor", "peek"}]

=============================================================================
