----------------------------- MODULE Membership -----------------------------
(***************************************************************************)
(* Who knows whom: the components table of every node and the private key   *)
(* each node keeps in its working directory                                  *)
(* (repositories/component.py, services/node.py, middlewares.check_signature).*)
(*                                                                           *)
(* The id of a component is computed from its name and url, so it survives a *)
(* reinstallation; its key pair does not.                                    *)
(***************************************************************************)
EXTENDS Integers, Sequences, FiniteSets, FiniteSetsExt, SequencesExt

CONSTANTS
    Components,  \* the ids of the nodes of the federation
    NodeMode,    \* the ones with mode: node or standalone, of TYPE_NODE; the others are clients
    First,       \* the one with join.first
    MaxKeys,     \* bound: how many keys a component ever generates
    NoRow        \* of a table without a row for a component

\* The rows of a components table.
Rows == [key : Components \X (1..MaxKeys), active : BOOLEAN, is_join : BOOLEAN]

ASSUME MembershipAssumption ==
    /\ IsFiniteSet(Components)
    /\ First \in NodeMode
    /\ NodeMode \subseteq Components
    /\ MaxKeys \in Nat \ {0}
    /\ NoRow \notin Rows

VARIABLES
    key,    \* the private key in a node's working directory
    table   \* its components table: the row of each component it knows

\* Mutant: the flag of the join node is left out.
RowWithoutJoin(k, isJoin) == [key |-> k, active |-> TRUE]

Row(k, isJoin) == [key |-> k, active |-> TRUE, is_join |-> isJoin]

MembershipTypeOK ==
    /\ key \in [Components -> 1..MaxKeys]
    /\ table \in [Components -> [Components -> {NoRow} \cup Rows]]

MembershipInit ==
    /\ key = [n \in Components |-> 1]
    /\ table = [n \in Components |-> [c \in Components |-> NoRow]]

\* The public key of n: no two components generate the same one.
PublicKey(n) == <<n, key[n]>>

Known(d) == {c \in Components : table[d][c] # NoRow}

-----------------------------------------------------------------------------
(* ComponentRepository on the database of d                                  *)

\* get_by_key finds one.
KeyInUse(d, k) == \E c \in Known(d) : table[d][c].key = k

\* _check_for_existing_component: the id or the key has a row.
AlreadyExists(d, c, k) == c \in Known(d) \/ KeyInUse(d, k)

CreateComponent(d, c, k, isJoin) ==
    table' = [table EXCEPT ![d][c] = Row(k, isJoin)]

\* get_join_component
JoinComponents(d) == {c \in Known(d) : table[d][c].is_join}

\* list_nodes; a database returns its rows in any order.
ListNodes(d) == Known(d) \cap NodeMode

ComponentLeave(d, c) == table' = [table EXCEPT ![d][c].active = FALSE]

-----------------------------------------------------------------------------
(* The checks a request passes                                               *)

\* check_signature: the sender has a row, its key is the one that signed, it is active.
CheckSignature(d, c, k) ==
    /\ c \in Known(d)
    /\ table[d][c].active
    /\ table[d][c].key = k

\* Mutant: the id of the component is not compared.
MayConnectByKey(d, c, k) == ~KeyInUse(d, k)

\* NodeService.connect: a key that has a row is refused, and so is an id (create_component).
MayConnect(d, c, k) == ~KeyInUse(d, k) /\ ~AlreadyExists(d, c, k)

\* The nodes a join is answered with: to a node all the others, then the join node itself.
JoinNodes(d, c) ==
    LET others == IF c \in NodeMode THEN ListNodes(d) \ {c, d} ELSE {}
    IN  {Append(s, d) : s \in SetToSeqs(others)}

\* The nodes a new node is announced to by distribute_add: out of the others, those that
\* are the join node or the new node.
AnnouncedTo(d, c) == {m \in (ListNodes(d) \ {c, d}) \cap {c, d} : table[d][m].active}

\* distribute_add, and NodeService.add at the nodes it reaches.
DistributeAdd(d, c) ==
    table' = [m \in Components |->
                IF /\ c \in NodeMode /\ m \in AnnouncedTo(d, c)
                   /\ ~AlreadyExists(m, c, table[d][c].key)
                THEN [table[m] EXCEPT ![c] = Row(table[d][c].key, FALSE)]
                ELSE table[m]]
=============================================================================
