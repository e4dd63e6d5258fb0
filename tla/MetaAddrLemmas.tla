--------------------------- MODULE MetaAddrLemmas ---------------------------
(***************************************************************************)
(* Facts about the change constructors and apply_to_meta_addr of           *)
(* meta_addr.rs, shared by the proofs about AddressBook and PeerDialer.    *)
(***************************************************************************)
EXTENDS MetaAddr, TLAPS

\* The changes the constructors build: the variants that carry services
\* carry a PeerServices value, never None.
GoodChange(c) ==
    /\ c \in Changes
    /\ c.kind \in {"NewGossiped", "NewAlternate", "UpdateResponded"} =>
          c.services \in ServiceBits

USE ConstantsAssumption, NoMetaAddrAssumption

\* Each action builds a GoodChange for an address of the book.
LEMMA ConstructorsGood ==
    /\ \A a \in Addrs, s \in ServiceBits, t \in WallTimes :
          GoodChange(NewGossipedChange(a, s, t))
    /\ \A a \in Addrs, s \in ServiceBits : GoodChange(NewAlternateChange(a, s))
    /\ \A a \in Addrs : GoodChange(NewLocalChange(a))
    /\ \A a \in Addrs : GoodChange(NewReconnectChange(a))
    /\ \A a \in Addrs, s \in ServiceBits : GoodChange(NewRespondedChange(a, s))
    /\ \A a \in Addrs, s \in ServiceBits \cup {NoServices} :
          GoodChange(NewErroredChange(a, s))
BY DEF GoodChange, Changes, ChangeKinds, OptWallTimes, WallTimes, NoTime, NoServices,
       NewGossipedChange, NewAlternateChange, NewLocalChange, NewReconnectChange,
       NewRespondedChange, NewErroredChange

\* apply_to_meta_addr returns None or a well-typed record for the change's
\* address.
LEMMA ApplyType ==
    ASSUME NEW c, GoodChange(c),
           NEW prev \in MetaAddrRecs \cup {NoMetaAddr},
           NEW w \in WallTimes, NEW i \in Instants
    PROVE  LET n == ApplyToMetaAddr(c, prev, w, i)
           IN  /\ n \in MetaAddrRecs \cup {NoMetaAddr}
               /\ n # NoMetaAddr => n.addr = c.addr
               /\ prev # NoMetaAddr /\ ~ChangeToNeverAttempted(c) => n \in MetaAddrRecs
<1> DEFINE n == ApplyToMetaAddr(c, prev, w, i)
<1>1. UntrustedServices(c) \in ServiceBits \cup {NoServices}
  BY DEF GoodChange, Changes, ChangeKinds, UntrustedServices, NodeNetwork
<1>2. IsNewChange(c) => UntrustedServices(c) \in ServiceBits
  BY DEF GoodChange, Changes, ChangeKinds, UntrustedServices, IsNewChange, NodeNetwork
<1>3. ChangeUntrustedLastSeen(c, w) \in OptWallTimes
  BY DEF GoodChange, Changes, ChangeUntrustedLastSeen, OptWallTimes
<1>4. ChangePeerAddrState(c) \in PeerAddrStates
  BY DEF GoodChange, Changes, ChangeKinds, ChangePeerAddrState, PeerAddrStates
<1>5. /\ ChangeLastResponse(c, w) \in OptWallTimes
      /\ ChangeLastAttempt(c, i) \in OptInstants
      /\ ChangeLastFailure(c, i) \in OptInstants
  BY DEF ChangeLastResponse, ChangeLastAttempt, ChangeLastFailure,
         OptWallTimes, OptInstants
<1>6. CASE prev = NoMetaAddr
  BY <1>2, <1>3, <1>4, <1>6 DEF ApplyToMetaAddr, IntoNewMetaAddr, MetaAddrRecs,
     GoodChange, Changes, NoTime, OptWallTimes, OptInstants
<1>7. CASE prev # NoMetaAddr /\ ChangeToNeverAttempted(c)
  BY <1>3, <1>4, <1>7 DEF ApplyToMetaAddr, MergeNeverAttempted, MetaAddrRecs,
     GoodChange, Changes, NoTime, OptWallTimes, OptInstants
<1>8. CASE prev # NoMetaAddr /\ ~ChangeToNeverAttempted(c)
  <2>1. /\ OptMax(ChangeLastResponse(c, w), prev.last_response) \in OptWallTimes
        /\ OptMax(ChangeLastAttempt(c, i), prev.last_attempt) \in OptInstants
        /\ OptMax(ChangeLastFailure(c, i), prev.last_failure) \in OptInstants
    BY <1>5, <1>8 DEF OptMax, MetaAddrRecs
  <2>2. QED
    BY <1>1, <1>4, <1>8, <2>1 DEF ApplyToMetaAddr, MergeUpdate, MetaAddrRecs,
       GoodChange, Changes
<1>9. QED
  BY <1>6, <1>7, <1>8

\* Case C: an Update change to a stored entry always yields a record, in the
\* change's state, with the change's attempt and response times or later.
LEMMA ApplyUpdateEntry ==
    ASSUME NEW c, GoodChange(c),
           c.kind \in {"UpdateAttempt", "UpdateResponded", "UpdateFailed"},
           NEW prev \in MetaAddrRecs, NEW w \in WallTimes, NEW i \in Instants
    PROVE  LET n == ApplyToMetaAddr(c, prev, w, i)
           IN  /\ n \in MetaAddrRecs
               /\ n.addr = c.addr
               /\ n.last_connection_state = ChangePeerAddrState(c)
               /\ n.last_attempt >= ChangeLastAttempt(c, i)
               /\ n.last_response >= ChangeLastResponse(c, w)
<1> DEFINE n == ApplyToMetaAddr(c, prev, w, i)
<1>1. ~ChangeToNeverAttempted(c) /\ prev # NoMetaAddr
  BY DEF ChangeToNeverAttempted, IsNewChange
<1>2. n = MergeUpdate(c, prev, w, i)
  BY <1>1 DEF ApplyToMetaAddr
<1>3. n \in MetaAddrRecs /\ n.addr = c.addr
  BY <1>1, ApplyType, NoMetaAddrAssumption
<1>4. /\ ChangeLastAttempt(c, i) \in Int /\ prev.last_attempt \in Int
      /\ ChangeLastResponse(c, w) \in Int /\ prev.last_response \in Int
  BY DEF ChangeLastAttempt, ChangeLastResponse, MetaAddrRecs, OptInstants,
         OptWallTimes, Instants, WallTimes, NoTime
<1>5. QED
  BY <1>2, <1>3, <1>4 DEF MergeUpdate, OptMax

\* Case A: gossip about an entry we have attempted is refused.
LEMMA GossipToAttempted ==
    ASSUME NEW a, NEW s, NEW t, NEW prev \in MetaAddrRecs,
           ~IsNeverAttempted(prev.last_connection_state), NEW w, NEW i
    PROVE  ApplyToMetaAddr(NewGossipedChange(a, s, t), prev, w, i) = NoMetaAddr
BY NoMetaAddrAssumption DEF ApplyToMetaAddr, ChangeToNeverAttempted, IsNewChange,
   ChangePeerAddrState, NewGossipedChange, IsNeverAttempted


\* Cases A and C on an entry we have attempted: the change is refused, or
\* the result is in the change's state, which is not NeverAttempted, and
\* keeps the entry's gossiped last-seen time.
LEMMA ApplyKeepsAttempted ==
    ASSUME NEW c, GoodChange(c), NEW prev \in MetaAddrRecs,
           ~IsNeverAttempted(prev.last_connection_state), NEW w, NEW i
    PROVE  LET n == ApplyToMetaAddr(c, prev, w, i)
           IN  n = NoMetaAddr \/
                 /\ ~IsNeverAttempted(n.last_connection_state)
                 /\ n.untrusted_last_seen = prev.untrusted_last_seen
<1> DEFINE n == ApplyToMetaAddr(c, prev, w, i)
<1>1. prev # NoMetaAddr
  BY NoMetaAddrAssumption
<1>2. CASE ChangeToNeverAttempted(c)
  BY <1>1, <1>2 DEF ApplyToMetaAddr
<1>3. CASE ~ChangeToNeverAttempted(c)
  <2>1. n = MergeUpdate(c, prev, w, i)
    BY <1>1, <1>3 DEF ApplyToMetaAddr
  <2>2. ~IsNeverAttempted(ChangePeerAddrState(c))
    BY <1>3 DEF GoodChange, Changes, ChangeKinds, ChangeToNeverAttempted,
       IsNewChange, ChangePeerAddrState, IsNeverAttempted
  <2>3. QED
    BY <2>1, <2>2 DEF MergeUpdate
<1>4. QED
  BY <1>2, <1>3

\* Rounding a time down to a multiple of the truncation interval, as
\* sanitize does with rem_euclid: the result is a multiple of the interval,
\* not later than the time and less than one interval earlier.
LEMMA TruncateBounds ==
    ASSUME NEW x \in Nat, NEW k \in Nat \ {0}
    PROVE  /\ x - (x % k) \in 0..x
           /\ (x - (x % k)) % k = 0
           /\ x < (x - (x % k)) + k
<1>1. x % k \in 0..(k - 1)
  OBVIOUS
<1>2. x - (x % k) = k * (x \div k)
  OBVIOUS
<1>3. x \div k \in Nat
  OBVIOUS
<1>4. (k * (x \div k)) % k = 0
  BY <1>3
<1>5. QED
  BY <1>1, <1>2, <1>4

\* MetaAddr::sanitize of any record: None, or a NeverAttemptedGossiped
\* record without local times whose last-seen time is the record's
\* last_seen truncated to a multiple of TIMESTAMP_TRUNCATION_SECONDS.
LEMMA SanitizeShape ==
    ASSUME NEW m \in MetaAddrRecs
    PROVE  LET g == Sanitize(m)
           IN  g # NoMetaAddr =>
                 /\ g.last_connection_state = "NeverAttemptedGossiped"
                 /\ g.last_response = NoTime /\ g.last_attempt = NoTime
                 /\ g.last_failure = NoTime
                 /\ g.untrusted_last_seen \in WallTimes
                 /\ g.untrusted_last_seen % TruncationSecs = 0
                 /\ g.untrusted_last_seen <= LastSeen(m)
                 /\ LastSeen(m) < g.untrusted_last_seen + TruncationSecs
<1> DEFINE x == LastSeen(m)
<1>1. SUFFICES ASSUME Sanitize(m) # NoMetaAddr
               PROVE  LET g == Sanitize(m)
                      IN  /\ g.last_connection_state = "NeverAttemptedGossiped"
                          /\ g.last_response = NoTime /\ g.last_attempt = NoTime
                          /\ g.last_failure = NoTime
                          /\ g.untrusted_last_seen \in WallTimes
                          /\ g.untrusted_last_seen % TruncationSecs = 0
                          /\ g.untrusted_last_seen <= x
                          /\ x < g.untrusted_last_seen + TruncationSecs
  OBVIOUS
<1>2. LastKnownInfoIsValidForOutbound(m) /\ x # NoTime
  BY <1>1 DEF Sanitize
<1>3. x \in WallTimes
  BY <1>2 DEF LastSeen, MetaAddrRecs, OptWallTimes
<1>4. Sanitize(m).untrusted_last_seen = x - (x % TruncationSecs)
  BY <1>2 DEF Sanitize
<1>5. /\ x - (x % TruncationSecs) \in 0..x
      /\ (x - (x % TruncationSecs)) % TruncationSecs = 0
      /\ x < (x - (x % TruncationSecs)) + TruncationSecs
  BY <1>3, TruncateBounds DEF WallTimes
<1>6. QED
  BY <1>2, <1>3, <1>4, <1>5 DEF Sanitize, WallTimes

=============================================================================
