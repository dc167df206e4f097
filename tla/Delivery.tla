------------------------------ MODULE Delivery ------------------------------
(***************************************************************************)
(* What a stream between two components promises: the receiver sees its      *)
(* content arrive as longer and longer prefixes; if nothing was lost on the   *)
(* way the transfer ends with all of it, and it only fails when something was *)
(* lost.                                                                      *)
(***************************************************************************)
EXTENDS Naturals, Sequences

VARIABLES
    content,    \* what is being sent
    delivered,  \* what the receiver has of it
    whole,      \* nothing has been lost so far
    status      \* "open", "done" or "failed"

vars == <<content, delivered, whole, status>>

Init == delivered = << >> /\ whole = TRUE /\ status = "open"

Deliver ==
    /\ status = "open"
    /\ \E n \in Len(delivered) + 1 .. Len(content) : delivered' = SubSeq(content, 1, n)
    /\ UNCHANGED <<content, whole, status>>

Lose ==
    /\ status = "open"
    /\ whole' = FALSE
    /\ status' \in {"open", "failed"}
    /\ UNCHANGED <<content, delivered>>

Finish ==
    /\ status = "open"
    /\ whole => delivered = content
    /\ status' = "done"
    /\ UNCHANGED <<content, delivered, whole>>

Fail ==
    /\ status = "open" /\ ~whole
    /\ status' = "failed"
    /\ UNCHANGED <<content, delivered, whole>>

Next == Deliver \/ Lose \/ Finish \/ Fail

Spec == Init /\ [][Next]_vars
=============================================================================
