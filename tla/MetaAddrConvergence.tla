------------------------- MODULE MetaAddrConvergence -------------------------
(***************************************************************************)
(* Two address books receive the same two changes for one address in the  *)
(* opposite orders, at the same clock readings, and fold them with         *)
(* apply_to_meta_addr the way AddressBook::update does (a None result      *)
(* keeps the stored entry).  Spec section 5 and testable property 4 say    *)
(* that change application commutes on the time fields, so observations    *)
(* of one endpoint converge whatever order they are applied in.            *)
(***************************************************************************)
EXTENDS MetaAddr, Sequences

VARIABLES
    pending1, pending2,   \* changes each book has still to apply, in order
    entry1, entry2        \* the entry each book holds for the address

vars == <<pending1, pending2, entry1, entry2>>

\* Both books read the same clocks, so every change contributes the same times.
FixedWall == MaxWall
FixedInstant == MaxInstant

\* AddressBook::update on one entry (spec_modelled).
Fold(c, e) ==
    LET n == ApplyToMetaAddr(c, e, FixedWall, FixedInstant)
    IN  IF n = NoMetaAddr THEN e ELSE n

TypeOK ==
    /\ pending1 \in Seq(Changes) /\ pending2 \in Seq(Changes)
    /\ entry1 \in MetaAddrRecs \cup {NoMetaAddr}
    /\ entry2 \in MetaAddrRecs \cup {NoMetaAddr}

Init ==
    /\ \E c1, c2 \in ConstructibleChanges :
          /\ pending1 = <<c1, c2>>
          /\ pending2 = <<c2, c1>>
    /\ entry1 = NoMetaAddr
    /\ entry2 = NoMetaAddr

ApplyFirst ==
    /\ pending1 # <<>>
    /\ entry1' = Fold(Head(pending1), entry1)
    /\ pending1' = Tail(pending1)
    /\ UNCHANGED <<pending2, entry2>>

ApplySecond ==
    /\ pending2 # <<>>
    /\ entry2' = Fold(Head(pending2), entry2)
    /\ pending2' = Tail(pending2)
    /\ UNCHANGED <<pending1, entry1>>

Next == ApplyFirst \/ ApplySecond

Spec == Init /\ [][Next]_vars

LocalTimes(e) ==
    IF e = NoMetaAddr THEN <<NoTime, NoTime, NoTime>>
    ELSE <<e.last_response, e.last_attempt, e.last_failure>>

\* Spec testable property 4: once both books have applied both changes, their
\* entries agree on last_response, last_attempt and last_failure.
LocalTimesConverge ==
    pending1 = <<>> /\ pending2 = <<>> => LocalTimes(entry1) = LocalTimes(entry2)

=============================================================================
