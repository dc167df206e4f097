---------------------------- MODULE MCOnboarding ----------------------------
(* Instances of Onboarding: a first node, a client with two data sources, another node. *)
EXTENDS Onboarding

\* The first node has a project for the token of one data source of the client, and none
\* for the two tokens of the other.
MCData == [x \in Components |-> IF x = "c" THEN <<"a", "b">> ELSE << >>]
MCTokensOf == [h \in {"a", "b"} |-> IF h = "a" THEN <<"t">> ELSE <<"u", "v">>]
MCInitial == [x \in Components |-> IF x = "c" THEN {"t", "u", "v"} ELSE {"t"}]

\* The first node has a project for a token of the client's data, the client itself has none.
InitialAtFirst == [x \in Components |-> IF x = First THEN {"t"} ELSE {}]

\* The other node takes part in the behaviours with at most one fault, the --leave argument
\* in those with at most two.
Started(n) == phase[n] # "down" \/ Known(n) # {}
Bounded ==
    /\ "n" \in Components /\ Started("n")' => faults' <= 1
    /\ (\E n \in Components : leaving'[n]) => faults' <= 2

MCSpec == Init /\ [][Next /\ Bounded]_vars /\ Fairness
=============================================================================
