------------------------- MODULE MCSecureAggregation -------------------------
(* One estimator of each kind alone, and pairs of two kinds with and without   *)
(* local variables in common, over one to three workers that know different     *)
(* groups.                                                                    *)
EXTENDS SecureAggregation

Kinds == {"Count", "Mean", "GroupCount", "GroupMean"}
MCArtifacts ==
    [{1} -> Kinds]
    \cup {[e \in {1, 2} |-> IF e = 1 THEN p[1] ELSE p[2]] :
             p \in {<<"Count", "Mean">>, <<"Count", "GroupCount">>, <<"GroupCount", "GroupMean">>}}

Known(groups, n) == [g \in groups |-> [s \in {"sum", "num"} |-> IF s = "sum" THEN 3 * n ELSE n]]
MCDataSets ==
    {<<Known({"x"}, 1), Known({"x", "y"}, 2), Known({"y"}, 1)>>,
     <<Known({"x", "y"}, 1), Known({"y"}, 3), Known({"x"}, 2)>>}
MCMasks == {-1, 0, 2}
MCNoises == {-2, -1}
=============================================================================
