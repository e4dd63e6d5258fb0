--------------------------- MODULE MCMetaAddrOrder ---------------------------
(***************************************************************************)
(* Every pair of records of a small MetaAddr domain, compared in both      *)
(* orders: four addresses that differ in host, port and family, both       *)
(* service patterns, all five states, and each optional time None or 0.   *)
(* The domain is MetaAddrRecs itself (640 records) with MaxWall and        *)
(* MaxInstant 0.                                                           *)
(***************************************************************************)
EXTENDS MetaAddrOrder

VARIABLES lhs, rhs

OrderAddrs ==
    {[ip |-> <<4, 1>>, port |-> 1], [ip |-> <<4, 1>>, port |-> 2],
     [ip |-> <<4, 2>>, port |-> 1], [ip |-> <<6, 1>>, port |-> 1]}
OrderServiceBits == {0, 1}

Init == lhs \in MetaAddrRecs /\ rhs \in MetaAddrRecs

\* Compare the same two records the other way round.
Swap == lhs' = rhs /\ rhs' = lhs

Spec == Init /\ [][Swap]_<<lhs, rhs>>

\* Ord for MetaAddr (meta_addr.rs:774-864) agrees with the lexicographic
\* order of the spec's sort key on every pair: so it is a total order,
\* PartialEq (cmp = Equal) is field equality, and each key dominates the
\* ones after it.
CmpMatchesReference == MetaAddrCmp(lhs, rhs) = RefCmp(lhs, rhs)

=============================================================================
