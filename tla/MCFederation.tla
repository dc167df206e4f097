---------------------------- MODULE MCFederation ----------------------------
(* The artifacts and the federations that TLC tries: which job locks which, on *)
(* what component each job is placed, and how often each may be started.       *)
EXTENDS Federation
CONSTANTS a, b, c, d

Chain == {<<a, b>>}
Gather == {<<a, c>>, <<b, c>>}
Diamond == {<<a, b>>, <<a, c>>, <<b, d>>, <<c, d>>}

\* two jobs to start with, and one that waits for the first of them only
Side == {<<a, c>>}
Fork == {<<a, b>>, <<a, c>>}

\* c on the scheduler itself, the others on clients
ClientsFirst == [j \in Jobs |-> IF j = c THEN "SELF" ELSE "CLIENT"]
\* b on a node, c on a client
WithNode == [j \in Jobs |-> IF j = b THEN "NODE" ELSE IF j = c THEN "CLIENT" ELSE "SELF"]
AllClients == [j \in Jobs |-> "CLIENT"]
\* Initialize and Finalize on the scheduler, two clients between them
Initiated == [j \in Jobs |-> IF j \in {b, c} THEN "CLIENT" ELSE "SELF"]

Once == [j \in Jobs |-> 1]
TwiceFirst == [j \in Jobs |-> IF j = a THEN 2 ELSE 1]
=============================================================================
