-------------------------- MODULE AddressBookProofs --------------------------
(***************************************************************************)
(* Proofs about AddressBook for every value of the constants: the type     *)
(* invariant, the history invariant EverStateHasTime and the action        *)
(* property TimesNeverDecrease.                                            *)
(*                                                                         *)
(* EverStateHasTime is not inductive: Case B of apply_to_meta_addr resets  *)
(* the three local times to None, so a step could lose a time that an     *)
(* earlier Responded, AttemptPending or Failed state requires.  It cannot, *)
(* because Case A never lets an attempted entry become NeverAttempted, so  *)
(* a NeverAttempted entry has only ever been NeverAttempted and has no     *)
(* local times.  EntryInv states that, and IInv is the strengthening.      *)
(***************************************************************************)
EXTENDS AddressBook, MetaAddrLemmas, TLAPS

NeverAttemptedStates == {"NeverAttemptedGossiped", "NeverAttemptedAlternate"}

\* What holds of a stored entry e whose state history is S.
EntryInv(e, S) ==
    /\ "Responded" \in S => e.last_response # NoTime
    /\ "AttemptPending" \in S => e.last_attempt # NoTime
    /\ "Failed" \in S => e.last_failure # NoTime
    /\ IsNeverAttempted(e.last_connection_state) =>
          /\ S \subseteq NeverAttemptedStates
          /\ e.last_response = NoTime
          /\ e.last_attempt = NoTime
          /\ e.last_failure = NoTime

IInv ==
    /\ TypeOK
    /\ \A a \in Addrs :
          IF Known(a) THEN EntryInv(book[a], everState[a]) ELSE everState[a] = {}

USE ConstantsAssumption, NoMetaAddrAssumption

-----------------------------------------------------------------------------
(***************************************************************************)
(* Type correctness.                                                       *)
(***************************************************************************)
\* AddressBook::update keeps the book well typed.
LEMMA UpdateType ==
    ASSUME TypeOK, NEW c, GoodChange(c), Update(c)
    PROVE  TypeOK'
<1> DEFINE n == ApplyToMetaAddr(c, book[c.addr], wall, instant)
<1>1. c.addr \in Addrs
  BY DEF GoodChange, Changes
<1>2. n \in MetaAddrRecs \cup {NoMetaAddr}
  BY <1>1, ApplyType DEF TypeOK
<1>3. n # NoMetaAddr => n.last_connection_state \in PeerAddrStates
  BY <1>2 DEF MetaAddrRecs
<1>4. QED
  BY <1>1, <1>2, <1>3 DEF Update, TypeOK

\* Type invariant of the address book.
THEOREM TypeCorrect == Spec => []TypeOK
<1>1. Init => TypeOK
  BY DEF Init, TypeOK, Instants
<1>2. TypeOK /\ [Next]_vars => TypeOK'
  <2> SUFFICES ASSUME TypeOK, [Next]_vars PROVE TypeOK'
    OBVIOUS
  <2>1. CASE NewGossiped
    <3>1. PICK a \in Addrs, s \in ServiceBits, t \in WallTimes : Update(NewGossipedChange(a, s, t))
      BY <2>1 DEF NewGossiped
    <3>2. GoodChange(NewGossipedChange(a, s, t))
      BY ConstructorsGood
    <3>3. QED
      BY <3>1, <3>2, UpdateType
  <2>2. CASE NewAlternate
    <3>1. PICK a \in Addrs, s \in ServiceBits : Update(NewAlternateChange(a, s))
      BY <2>2 DEF NewAlternate
    <3>2. GoodChange(NewAlternateChange(a, s))
      BY ConstructorsGood
    <3>3. QED
      BY <3>1, <3>2, UpdateType
  <2>3. CASE NewLocal
    <3>1. PICK a \in Addrs : Update(NewLocalChange(a))
      BY <2>3 DEF NewLocal
    <3>2. GoodChange(NewLocalChange(a))
      BY ConstructorsGood
    <3>3. QED
      BY <3>1, <3>2, UpdateType
  <2>4. CASE UpdateAttempt
    <3>1. PICK a \in Addrs : Update(NewReconnectChange(a))
      BY <2>4 DEF UpdateAttempt
    <3>2. GoodChange(NewReconnectChange(a))
      BY ConstructorsGood
    <3>3. QED
      BY <3>1, <3>2, UpdateType
  <2>5. CASE UpdateResponded
    <3>1. PICK a \in Addrs, s \in ServiceBits : Update(NewRespondedChange(a, s))
      BY <2>5 DEF UpdateResponded
    <3>2. GoodChange(NewRespondedChange(a, s))
      BY ConstructorsGood
    <3>3. QED
      BY <3>1, <3>2, UpdateType
  <2>6. CASE UpdateFailed
    <3>1. PICK a \in Addrs, s \in ServiceBits \cup {NoServices} : Update(NewErroredChange(a, s))
      BY <2>6 DEF UpdateFailed
    <3>2. GoodChange(NewErroredChange(a, s))
      BY ConstructorsGood
    <3>3. QED
      BY <3>1, <3>2, UpdateType
  <2>7. CASE InstantTick
    BY <2>7 DEF InstantTick, TypeOK, Instants
  <2>8. CASE WallClockStep
    BY <2>8 DEF WallClockStep, TypeOK
  <2>9. CASE UNCHANGED vars
    BY <2>9 DEF vars, TypeOK
  <2>10. QED
    BY <2>1, <2>2, <2>3, <2>4, <2>5, <2>6, <2>7, <2>8, <2>9 DEF Next
<1>3. QED
  BY <1>1, <1>2, PTL DEF Spec

-----------------------------------------------------------------------------
(***************************************************************************)
(* The history invariant.                                                  *)
(***************************************************************************)
\* The state a change sets is NeverAttempted exactly for the New changes.
LEMMA ChangeStateKinds ==
    ASSUME NEW c, GoodChange(c)
    PROVE  /\ ChangeToNeverAttempted(c) <=> IsNewChange(c)
           /\ ChangePeerAddrState(c) = "Responded" => c.kind = "UpdateResponded"
           /\ ChangePeerAddrState(c) = "AttemptPending" => c.kind = "UpdateAttempt"
           /\ ChangePeerAddrState(c) = "Failed" => c.kind = "UpdateFailed"
           /\ IsNewChange(c) => ChangePeerAddrState(c) \in NeverAttemptedStates
BY DEF GoodChange, Changes, ChangeKinds, ChangeToNeverAttempted, IsNewChange,
       IsNeverAttempted, ChangePeerAddrState, NeverAttemptedStates

\* A stored time that is set stays set under max with any contribution.
LEMMA OptMaxKeepsSome ==
    ASSUME NEW x \in Int, NEW y \in Int, y # NoTime, y >= NoTime
    PROVE  OptMax(x, y) # NoTime /\ OptMax(x, y) >= y /\ OptMax(x, y) >= x
BY DEF OptMax, NoTime

\* apply_to_meta_addr preserves EntryInv, with the new state added to the
\* history.
LEMMA ApplyEntryInv ==
    ASSUME NEW c, GoodChange(c),
           NEW prev \in MetaAddrRecs \cup {NoMetaAddr},
           NEW S \in SUBSET PeerAddrStates,
           prev = NoMetaAddr => S = {},
           prev # NoMetaAddr => EntryInv(prev, S),
           NEW w \in WallTimes, NEW i \in Instants,
           ApplyToMetaAddr(c, prev, w, i) # NoMetaAddr
    PROVE  LET n == ApplyToMetaAddr(c, prev, w, i)
           IN  EntryInv(n, S \cup {n.last_connection_state})
<1> DEFINE n == ApplyToMetaAddr(c, prev, w, i)
<1>1. CASE prev = NoMetaAddr
  <2>1. IsNewChange(c) /\ n = IntoNewMetaAddr(c, w)
    BY <1>1 DEF ApplyToMetaAddr, IntoNewMetaAddr
  <2>2. n.last_connection_state \in NeverAttemptedStates
    BY <2>1, ChangeStateKinds DEF IntoNewMetaAddr
  <2>3. n.last_response = NoTime /\ n.last_attempt = NoTime /\ n.last_failure = NoTime
    BY <2>1 DEF IntoNewMetaAddr
  <2>4. QED
    BY <1>1, <2>2, <2>3 DEF EntryInv, NeverAttemptedStates
<1>2. CASE prev # NoMetaAddr /\ ChangeToNeverAttempted(c)
  <2>1. IsNeverAttempted(prev.last_connection_state) /\ n = MergeNeverAttempted(c, prev, w)
    BY <1>2 DEF ApplyToMetaAddr
  <2>2. S \subseteq NeverAttemptedStates
    BY <1>2, <2>1 DEF EntryInv
  <2>3. n.last_connection_state \in NeverAttemptedStates
    BY <1>2, <2>1, ChangeStateKinds DEF MergeNeverAttempted
  <2>4. n.last_response = NoTime /\ n.last_attempt = NoTime /\ n.last_failure = NoTime
    BY <2>1 DEF MergeNeverAttempted
  <2>5. QED
    BY <2>2, <2>3, <2>4 DEF EntryInv, NeverAttemptedStates
<1>3. CASE prev # NoMetaAddr /\ ~ChangeToNeverAttempted(c)
  <2>1. n = MergeUpdate(c, prev, w, i)
    BY <1>3 DEF ApplyToMetaAddr
  <2>2. ~IsNewChange(c)
    BY <1>3, ChangeStateKinds
  <2>3. ~IsNeverAttempted(n.last_connection_state)
    BY <2>1, <2>2 DEF GoodChange, Changes, ChangeKinds, IsNewChange, MergeUpdate,
       ChangePeerAddrState, IsNeverAttempted
  <2>4. EntryInv(prev, S)
    BY <1>3
  <2>5. /\ prev.last_response \in OptWallTimes
        /\ prev.last_attempt \in OptInstants
        /\ prev.last_failure \in OptInstants
    BY <1>3 DEF MetaAddrRecs
  <2>6. /\ ChangeLastResponse(c, w) \in OptWallTimes
        /\ ChangeLastAttempt(c, i) \in OptInstants
        /\ ChangeLastFailure(c, i) \in OptInstants
    BY DEF ChangeLastResponse, ChangeLastAttempt, ChangeLastFailure, OptWallTimes,
           OptInstants
  <2>7. "Responded" \in S \cup {n.last_connection_state} => n.last_response # NoTime
    <3>1. CASE "Responded" \in S
      BY <2>1, <2>4, <2>5, <2>6, <3>1, OptMaxKeepsSome
         DEF EntryInv, MergeUpdate, OptWallTimes, WallTimes, NoTime
    <3>2. CASE n.last_connection_state = "Responded"
      <4>1. c.kind = "UpdateResponded"
        BY <2>1, <3>2, ChangeStateKinds DEF MergeUpdate
      <4>2. ChangeLastResponse(c, w) = w
        BY <4>1 DEF ChangeLastResponse
      <4>3. QED
        BY <2>1, <2>5, <4>2 DEF MergeUpdate, OptMax, OptWallTimes, WallTimes, NoTime
    <3>3. QED
      BY <3>1, <3>2
  <2>8. "AttemptPending" \in S \cup {n.last_connection_state} => n.last_attempt # NoTime
    <3>1. CASE "AttemptPending" \in S
      BY <2>1, <2>4, <2>5, <2>6, <3>1, OptMaxKeepsSome
         DEF EntryInv, MergeUpdate, OptInstants, Instants, NoTime
    <3>2. CASE n.last_connection_state = "AttemptPending"
      <4>1. c.kind = "UpdateAttempt"
        BY <2>1, <3>2, ChangeStateKinds DEF MergeUpdate
      <4>2. ChangeLastAttempt(c, i) = i
        BY <4>1 DEF ChangeLastAttempt
      <4>3. QED
        BY <2>1, <2>5, <4>2 DEF MergeUpdate, OptMax, OptInstants, Instants, NoTime
    <3>3. QED
      BY <3>1, <3>2
  <2>9. "Failed" \in S \cup {n.last_connection_state} => n.last_failure # NoTime
    <3>1. CASE "Failed" \in S
      BY <2>1, <2>4, <2>5, <2>6, <3>1, OptMaxKeepsSome
         DEF EntryInv, MergeUpdate, OptInstants, Instants, NoTime
    <3>2. CASE n.last_connection_state = "Failed"
      <4>1. c.kind = "UpdateFailed"
        BY <2>1, <3>2, ChangeStateKinds DEF MergeUpdate
      <4>2. ChangeLastFailure(c, i) = i
        BY <4>1 DEF ChangeLastFailure
      <4>3. QED
        BY <2>1, <2>5, <4>2 DEF MergeUpdate, OptMax, OptInstants, Instants, NoTime
    <3>3. QED
      BY <3>1, <3>2
  <2>10. QED
    BY <2>3, <2>7, <2>8, <2>9 DEF EntryInv
<1>4. QED
  BY <1>1, <1>2, <1>3

\* AddressBook::update preserves IInv.
LEMMA UpdateIInv ==
    ASSUME IInv, NEW c, GoodChange(c), Update(c)
    PROVE  IInv'
<1> DEFINE n == ApplyToMetaAddr(c, book[c.addr], wall, instant)
<1>1. TypeOK'
  BY UpdateType DEF IInv
<1>2. c.addr \in Addrs
  BY DEF GoodChange, Changes
<1>3. CASE n = NoMetaAddr
  BY <1>1, <1>3 DEF Update, IInv, Known
<1>4. CASE n # NoMetaAddr
  <2>1. n \in MetaAddrRecs
    BY <1>2, <1>4, ApplyType DEF IInv, TypeOK
  <2>2. SUFFICES ASSUME NEW a \in Addrs
                 PROVE  (IF Known(a) THEN EntryInv(book[a], everState[a])
                         ELSE everState[a] = {})'
    BY <1>1 DEF IInv
  <2>3. CASE a = c.addr
    <3>1. book'[a] = n /\ everState'[a] = everState[a] \cup {n.last_connection_state}
      BY <1>2, <1>4, <2>3 DEF Update, IInv, TypeOK
    <3>2. /\ book[a] \in MetaAddrRecs \cup {NoMetaAddr}
          /\ everState[a] \in SUBSET PeerAddrStates
          /\ book[a] = NoMetaAddr => everState[a] = {}
          /\ book[a] # NoMetaAddr => EntryInv(book[a], everState[a])
          /\ wall \in WallTimes /\ instant \in Instants
      BY DEF IInv, TypeOK, Known
    <3>3. EntryInv(n, everState[a] \cup {n.last_connection_state})
      BY <1>4, <2>3, <3>2, ApplyEntryInv
    <3>4. QED
      BY <1>4, <3>1, <3>3 DEF Known, EntryInv
  <2>4. CASE a # c.addr
    <3>1. book'[a] = book[a] /\ everState'[a] = everState[a]
      BY <1>2, <1>4, <2>4 DEF Update, IInv, TypeOK
    <3>2. QED
      BY <3>1 DEF IInv, Known, EntryInv
  <2>5. QED
    BY <2>3, <2>4
<1>5. QED
  BY <1>3, <1>4

\* EverStateHasTime strengthened to IInv holds in every reachable state.
THEOREM HistoryInvariant == Spec => []IInv
<1>1. Init => IInv
  BY NoMetaAddrAssumption DEF Init, IInv, TypeOK, Instants, Known
<1>2. IInv /\ [Next]_vars => IInv'
  <2> SUFFICES ASSUME IInv, [Next]_vars PROVE IInv'
    OBVIOUS
  <2>1. CASE NewGossiped
    <3>1. PICK a \in Addrs, s \in ServiceBits, t \in WallTimes :
             Update(NewGossipedChange(a, s, t))
      BY <2>1 DEF NewGossiped
    <3>2. QED
      BY <3>1, ConstructorsGood, UpdateIInv
  <2>2. CASE NewAlternate
    <3>1. PICK a \in Addrs, s \in ServiceBits : Update(NewAlternateChange(a, s))
      BY <2>2 DEF NewAlternate
    <3>2. QED
      BY <3>1, ConstructorsGood, UpdateIInv
  <2>3. CASE NewLocal
    <3>1. PICK a \in Addrs : Update(NewLocalChange(a))
      BY <2>3 DEF NewLocal
    <3>2. QED
      BY <3>1, ConstructorsGood, UpdateIInv
  <2>4. CASE UpdateAttempt
    <3>1. PICK a \in Addrs : Update(NewReconnectChange(a))
      BY <2>4 DEF UpdateAttempt
    <3>2. QED
      BY <3>1, ConstructorsGood, UpdateIInv
  <2>5. CASE UpdateResponded
    <3>1. PICK a \in Addrs, s \in ServiceBits : Update(NewRespondedChange(a, s))
      BY <2>5 DEF UpdateResponded
    <3>2. QED
      BY <3>1, ConstructorsGood, UpdateIInv
  <2>6. CASE UpdateFailed
    <3>1. PICK a \in Addrs, s \in ServiceBits \cup {NoServices} :
             Update(NewErroredChange(a, s))
      BY <2>6 DEF UpdateFailed
    <3>2. QED
      BY <3>1, ConstructorsGood, UpdateIInv
  <2>7. CASE InstantTick
    BY <2>7 DEF InstantTick, IInv, TypeOK, Instants, Known, EntryInv
  <2>8. CASE WallClockStep
    BY <2>8 DEF WallClockStep, IInv, TypeOK, Known, EntryInv
  <2>9. CASE UNCHANGED vars
    BY <2>9 DEF vars, IInv, TypeOK, Known, EntryInv
  <2>10. QED
    BY <2>1, <2>2, <2>3, <2>4, <2>5, <2>6, <2>7, <2>8, <2>9 DEF Next
<1>3. QED
  BY <1>1, <1>2, PTL DEF Spec

\* Spec invariants 2-4: an entry that has ever been Responded, AttemptPending
\* or Failed keeps the matching time (apply_to_meta_addr, meta_addr.rs:699-771).
THEOREM EverStateHasTimeHolds == Spec => []EverStateHasTime
<1>1. IInv => EverStateHasTime
  BY DEF IInv, EverStateHasTime, EntryInv
<1>2. QED
  BY <1>1, HistoryInvariant, PTL

-----------------------------------------------------------------------------
(***************************************************************************)
(* Times never move backwards.                                             *)
(***************************************************************************)
\* The step TimesNeverDecrease asks of every transition.
TimesStep ==
    \A a \in Addrs : Known(a) =>
        /\ Known(a)'
        /\ book'[a].untrusted_last_seen >= book[a].untrusted_last_seen
        /\ book'[a].last_response >= book[a].last_response
        /\ book'[a].last_attempt >= book[a].last_attempt
        /\ book'[a].last_failure >= book[a].last_failure

\* A Some result of apply_to_meta_addr has every time at least the previous
\* entry's: Case B only fills in a missing gossiped time and keeps local times
\* at None, which a NeverAttempted entry already has; Case C takes maxima.
LEMMA ApplyMonotone ==
    ASSUME NEW c, GoodChange(c),
           NEW prev \in MetaAddrRecs, NEW S, EntryInv(prev, S),
           NEW w \in WallTimes, NEW i \in Instants,
           ApplyToMetaAddr(c, prev, w, i) # NoMetaAddr
    PROVE  LET n == ApplyToMetaAddr(c, prev, w, i)
           IN  /\ n.untrusted_last_seen >= prev.untrusted_last_seen
               /\ n.last_response >= prev.last_response
               /\ n.last_attempt >= prev.last_attempt
               /\ n.last_failure >= prev.last_failure
<1> DEFINE n == ApplyToMetaAddr(c, prev, w, i)
<1>1. prev # NoMetaAddr
  BY NoMetaAddrAssumption
<1>2. /\ prev.untrusted_last_seen \in OptWallTimes
      /\ prev.last_response \in OptWallTimes
      /\ prev.last_attempt \in OptInstants
      /\ prev.last_failure \in OptInstants
  BY DEF MetaAddrRecs
<1>3. CASE ChangeToNeverAttempted(c)
  <2>1. IsNeverAttempted(prev.last_connection_state) /\ n = MergeNeverAttempted(c, prev, w)
    BY <1>1, <1>3 DEF ApplyToMetaAddr
  <2>2. prev.last_response = NoTime /\ prev.last_attempt = NoTime
        /\ prev.last_failure = NoTime
    BY <2>1 DEF EntryInv
  <2>3. ChangeUntrustedLastSeen(c, w) \in OptWallTimes
    BY DEF GoodChange, Changes, ChangeUntrustedLastSeen, OptWallTimes
  <2>4. QED
    BY <1>2, <2>1, <2>2, <2>3 DEF MergeNeverAttempted, OptWallTimes, WallTimes, NoTime
<1>4. CASE ~ChangeToNeverAttempted(c)
  <2>1. n = MergeUpdate(c, prev, w, i)
    BY <1>1, <1>4 DEF ApplyToMetaAddr
  <2>2. /\ ChangeLastResponse(c, w) \in Int
        /\ ChangeLastAttempt(c, i) \in Int
        /\ ChangeLastFailure(c, i) \in Int
    BY DEF ChangeLastResponse, ChangeLastAttempt, ChangeLastFailure, NoTime,
           WallTimes, Instants
  <2>3. QED
    BY <1>2, <2>1, <2>2 DEF MergeUpdate, OptMax, OptWallTimes, OptInstants,
       WallTimes, Instants, NoTime
<1>5. QED
  BY <1>3, <1>4

\* AddressBook::update never moves a time of a stored entry backwards.
LEMMA UpdateMonotone ==
    ASSUME IInv, NEW c, GoodChange(c), Update(c)
    PROVE  TimesStep
<1> DEFINE n == ApplyToMetaAddr(c, book[c.addr], wall, instant)
<1>1. c.addr \in Addrs
  BY DEF GoodChange, Changes
<1>2. SUFFICES ASSUME NEW a \in Addrs, Known(a)
               PROVE  /\ Known(a)'
                      /\ book'[a].untrusted_last_seen >= book[a].untrusted_last_seen
                      /\ book'[a].last_response >= book[a].last_response
                      /\ book'[a].last_attempt >= book[a].last_attempt
                      /\ book'[a].last_failure >= book[a].last_failure
  BY DEF TimesStep
<1>3. /\ book[a] \in MetaAddrRecs
      /\ EntryInv(book[a], everState[a])
      /\ wall \in WallTimes /\ instant \in Instants
  BY <1>2 DEF IInv, TypeOK, Known
<1>4. /\ book[a].untrusted_last_seen \in Int /\ book[a].last_response \in Int
      /\ book[a].last_attempt \in Int /\ book[a].last_failure \in Int
  BY <1>3 DEF MetaAddrRecs, OptWallTimes, OptInstants, WallTimes, Instants, NoTime
<1>5. CASE n # NoMetaAddr /\ a = c.addr
  <2>1. book'[a] = n
    BY <1>1, <1>5 DEF Update, IInv, TypeOK
  <2>2. QED
    BY <1>3, <1>5, <2>1, ApplyMonotone DEF Known
<1>6. CASE ~(n # NoMetaAddr /\ a = c.addr)
  <2>1. book'[a] = book[a]
    BY <1>1, <1>6 DEF Update, IInv, TypeOK
  <2>2. QED
    BY <1>2, <1>4, <2>1 DEF Known
<1>7. QED
  BY <1>5, <1>6

\* Spec invariant 6: no step moves a time of a stored entry backwards, and no
\* entry disappears, whatever order the changes arrive in and however the
\* wall clock moves (apply_to_meta_addr, meta_addr.rs:728-765).
THEOREM TimesMonotone == Spec => TimesNeverDecrease
<1>1. IInv /\ [Next]_vars => [TimesStep]_vars
  <2> SUFFICES ASSUME IInv, [Next]_vars PROVE [TimesStep]_vars
    OBVIOUS
  <2>1. CASE NewGossiped
    <3>1. PICK a \in Addrs, s \in ServiceBits, t \in WallTimes :
             Update(NewGossipedChange(a, s, t))
      BY <2>1 DEF NewGossiped
    <3>2. QED
      BY <3>1, ConstructorsGood, UpdateMonotone
  <2>2. CASE NewAlternate
    <3>1. PICK a \in Addrs, s \in ServiceBits : Update(NewAlternateChange(a, s))
      BY <2>2 DEF NewAlternate
    <3>2. QED
      BY <3>1, ConstructorsGood, UpdateMonotone
  <2>3. CASE NewLocal
    <3>1. PICK a \in Addrs : Update(NewLocalChange(a))
      BY <2>3 DEF NewLocal
    <3>2. QED
      BY <3>1, ConstructorsGood, UpdateMonotone
  <2>4. CASE UpdateAttempt
    <3>1. PICK a \in Addrs : Update(NewReconnectChange(a))
      BY <2>4 DEF UpdateAttempt
    <3>2. QED
      BY <3>1, ConstructorsGood, UpdateMonotone
  <2>5. CASE UpdateResponded
    <3>1. PICK a \in Addrs, s \in ServiceBits : Update(NewRespondedChange(a, s))
      BY <2>5 DEF UpdateResponded
    <3>2. QED
      BY <3>1, ConstructorsGood, UpdateMonotone
  <2>6. CASE UpdateFailed
    <3>1. PICK a \in Addrs, s \in ServiceBits \cup {NoServices} :
             Update(NewErroredChange(a, s))
      BY <2>6 DEF UpdateFailed
    <3>2. QED
      BY <3>1, ConstructorsGood, UpdateMonotone
  <2>7. CASE InstantTick \/ WallClockStep \/ UNCHANGED vars
    <3>1. book' = book
      BY <2>7 DEF InstantTick, WallClockStep, vars
    <3>2. \A a \in Addrs : Known(a) =>
             /\ book[a].untrusted_last_seen \in Int /\ book[a].last_response \in Int
             /\ book[a].last_attempt \in Int /\ book[a].last_failure \in Int
      BY DEF IInv, TypeOK, Known, MetaAddrRecs, OptWallTimes, OptInstants,
             WallTimes, Instants, NoTime
    <3>3. QED
      BY <3>1, <3>2 DEF TimesStep, Known
  <2>8. QED
    BY <2>1, <2>2, <2>3, <2>4, <2>5, <2>6, <2>7 DEF Next
<1>2. QED
  BY <1>1, HistoryInvariant, PTL DEF Spec, TimesNeverDecrease, TimesStep

-----------------------------------------------------------------------------
(***************************************************************************)
(* Attempted entries ignore gossip.                                        *)
(***************************************************************************)
\* Every step of the address book either folds one well-formed change into
\* it with AddressBook::update or leaves it alone.
LEMMA NextIsUpdate ==
    ASSUME [Next]_vars
    PROVE  \/ \E c : GoodChange(c) /\ Update(c)
           \/ book' = book
<1>1. CASE NewGossiped
  <2>1. PICK a \in Addrs, s \in ServiceBits, t \in WallTimes :
           Update(NewGossipedChange(a, s, t))
    BY <1>1 DEF NewGossiped
  <2>2. QED
    BY <2>1, ConstructorsGood
<1>2. CASE NewAlternate
  <2>1. PICK a \in Addrs, s \in ServiceBits : Update(NewAlternateChange(a, s))
    BY <1>2 DEF NewAlternate
  <2>2. QED
    BY <2>1, ConstructorsGood
<1>3. CASE NewLocal
  <2>1. PICK a \in Addrs : Update(NewLocalChange(a))
    BY <1>3 DEF NewLocal
  <2>2. QED
    BY <2>1, ConstructorsGood
<1>4. CASE UpdateAttempt
  <2>1. PICK a \in Addrs : Update(NewReconnectChange(a))
    BY <1>4 DEF UpdateAttempt
  <2>2. QED
    BY <2>1, ConstructorsGood
<1>5. CASE UpdateResponded
  <2>1. PICK a \in Addrs, s \in ServiceBits : Update(NewRespondedChange(a, s))
    BY <1>5 DEF UpdateResponded
  <2>2. QED
    BY <2>1, ConstructorsGood
<1>6. CASE UpdateFailed
  <2>1. PICK a \in Addrs, s \in ServiceBits \cup {NoServices} :
           Update(NewErroredChange(a, s))
    BY <1>6 DEF UpdateFailed
  <2>2. QED
    BY <2>1, ConstructorsGood
<1>7. CASE InstantTick \/ WallClockStep \/ UNCHANGED vars
  BY <1>7 DEF InstantTick, WallClockStep, vars
<1>8. QED
  BY <1>1, <1>2, <1>3, <1>4, <1>5, <1>6, <1>7 DEF Next

\* The step AttemptedIgnoresGossip asks of every transition.
AttemptedStep ==
    \A a \in Addrs :
        Known(a) /\ ~IsNeverAttempted(book[a].last_connection_state) =>
           /\ ~IsNeverAttempted(book'[a].last_connection_state)
           /\ book'[a].untrusted_last_seen = book[a].untrusted_last_seen

\* AddressBook::update never turns an attempted entry back into a
\* NeverAttempted one nor rewrites its gossiped time.
LEMMA UpdateKeepsAttempted ==
    ASSUME TypeOK, NEW c, GoodChange(c), Update(c)
    PROVE  AttemptedStep
<1> DEFINE n == ApplyToMetaAddr(c, book[c.addr], wall, instant)
<1>1. c.addr \in Addrs
  BY DEF GoodChange, Changes
<1>2. SUFFICES ASSUME NEW a \in Addrs, Known(a),
                      ~IsNeverAttempted(book[a].last_connection_state)
               PROVE  /\ ~IsNeverAttempted(book'[a].last_connection_state)
                      /\ book'[a].untrusted_last_seen = book[a].untrusted_last_seen
  BY DEF AttemptedStep
<1>3. CASE n # NoMetaAddr /\ a = c.addr
  <2>1. book'[a] = n
    BY <1>1, <1>3 DEF Update, TypeOK
  <2>2. book[a] \in MetaAddrRecs
    BY <1>2 DEF TypeOK, Known
  <2>3. QED
    BY <1>2, <1>3, <2>1, <2>2, ApplyKeepsAttempted
<1>4. CASE ~(n # NoMetaAddr /\ a = c.addr)
  BY <1>1, <1>2, <1>4 DEF Update, TypeOK
<1>5. QED
  BY <1>3, <1>4

\* The security rule of apply_to_meta_addr (meta_addr.rs:709-718), for every
\* value of the constants: once a peer has been attempted, neither gossip,
\* nor an alternate or local address, nor any other change arriving in any
\* order makes it NeverAttempted again or moves its gossiped last-seen time.
THEOREM AttemptedIgnoresGossipHolds == Spec => AttemptedIgnoresGossip
<1>1. TypeOK /\ [Next]_vars => [AttemptedStep]_vars
  <2> SUFFICES ASSUME TypeOK, [Next]_vars PROVE [AttemptedStep]_vars
    OBVIOUS
  <2>1. CASE \E c : GoodChange(c) /\ Update(c)
    BY <2>1, UpdateKeepsAttempted
  <2>2. CASE book' = book
    BY <2>2 DEF AttemptedStep
  <2>3. QED
    BY <2>1, <2>2, NextIsUpdate
<1>2. QED
  BY <1>1, TypeCorrect, PTL DEF Spec, AttemptedIgnoresGossip, AttemptedStep

-----------------------------------------------------------------------------
(***************************************************************************)
(* What we gossip.                                                         *)
(***************************************************************************)
\* Spec property 5, for every value of the constants: MetaAddr::sanitize of
\* any stored entry carries no connection state or local time, and its
\* last-seen time is the entry's last_seen rounded down to a multiple of
\* TIMESTAMP_TRUNCATION_SECONDS (meta_addr.rs:511-539), so the checked_sub
\* there never underflows.
THEOREM SanitizedLeaksNothingHolds == Spec => []SanitizedLeaksNothing
<1>1. TypeOK => SanitizedLeaksNothing
  <2> SUFFICES ASSUME TypeOK, NEW a \in Addrs, Known(a)
               PROVE  LET m == book[a]
                          g == Sanitize(m)
                      IN  g # NoMetaAddr =>
                            /\ g.last_connection_state = "NeverAttemptedGossiped"
                            /\ g.last_response = NoTime /\ g.last_attempt = NoTime
                            /\ g.last_failure = NoTime
                            /\ g.untrusted_last_seen \in WallTimes
                            /\ g.untrusted_last_seen % TruncationSecs = 0
                            /\ g.untrusted_last_seen <= LastSeen(m)
                            /\ LastSeen(m) < g.untrusted_last_seen + TruncationSecs
    BY DEF SanitizedLeaksNothing
  <2>1. book[a] \in MetaAddrRecs
    BY DEF TypeOK, Known
  <2>2. QED
    BY <2>1, SanitizeShape
<1>2. QED
  BY <1>1, TypeCorrect, PTL

=============================================================================
