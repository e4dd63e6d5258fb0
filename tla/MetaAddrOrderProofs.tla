------------------------- MODULE MetaAddrOrderProofs -------------------------
(***************************************************************************)
(* Ord for MetaAddr (meta_addr.rs:774-876) is a strict total order on      *)
(* peer address records, and it is the lexicographic order of the spec's  *)
(* sort key, for every set of addresses, services and clock bounds.  It    *)
(* extends the pair-comparison run to state that run's property as a       *)
(* theorem.                                                                *)
(***************************************************************************)
EXTENDS MCMetaAddrOrder, TLAPS

USE ConstantsAssumption

\* The fields of a record have the types the comparisons rely on.
LEMMA RecordFieldTypes ==
    ASSUME NEW m \in MetaAddrRecs
    PROVE  /\ m.last_connection_state \in PeerAddrStates
           /\ m.last_attempt \in Int /\ m.last_failure \in Int
           /\ m.last_response \in Int /\ m.untrusted_last_seen \in Int
           /\ m.services \in Nat
           /\ m.addr.ip[1] \in {4, 6} /\ m.addr.ip[2] \in Nat
           /\ m.addr.port \in Nat
PROOF
  <1>1. m.addr \in [ip : {4, 6} \X Nat, port : Nat]
    BY DEF MetaAddrRecs
  <1>2. m.addr.ip \in {4, 6} \X Nat
    BY <1>1
  <1>3. /\ m.last_connection_state \in PeerAddrStates
        /\ m.last_attempt \in Int /\ m.last_failure \in Int
        /\ m.last_response \in Int /\ m.untrusted_last_seen \in Int
    BY DEF MetaAddrRecs, OptWallTimes, OptInstants, WallTimes, Instants, NoTime
  <1>4. m.services \in Nat
    <2>1. m.services \in ServiceBits
      BY DEF MetaAddrRecs
    <2> QED
      BY <2>1, ConstantsAssumption, Zenon
  <1> QED
    BY <1>1, <1>2, <1>3, <1>4

\* Two records that agree on every field that cmp reads are the same record.
LEMMA RecordsEqualByFields ==
    ASSUME NEW m \in MetaAddrRecs, NEW n \in MetaAddrRecs,
           m.last_connection_state = n.last_connection_state,
           m.last_attempt = n.last_attempt, m.last_failure = n.last_failure,
           m.last_response = n.last_response,
           m.untrusted_last_seen = n.untrusted_last_seen,
           m.services = n.services,
           m.addr.ip[1] = n.addr.ip[1], m.addr.ip[2] = n.addr.ip[2],
           m.addr.port = n.addr.port
    PROVE  m = n
PROOF
  <1>1. m.addr.ip = n.addr.ip
    <2>1. m.addr.ip \in {4, 6} \X Nat /\ n.addr.ip \in {4, 6} \X Nat
      BY DEF MetaAddrRecs
    <2> QED
      BY <2>1
  <1>2. m.addr = n.addr
    <2>1. m.addr \in [ip : {4, 6} \X Nat, port : Nat]
          /\ n.addr \in [ip : {4, 6} \X Nat, port : Nat]
      BY DEF MetaAddrRecs
    <2> QED
      BY <1>1, <2>1
  <1> QED
    BY <1>2 DEF MetaAddrRecs

\* The match of Ord for PeerAddrState compares the positions of the states
\* in the order the spec lists them.
LEMMA StateCmpIsRankCmp ==
    ASSUME NEW s \in PeerAddrStates, NEW t \in PeerAddrStates
    PROVE  StateCmp(s, t) = CmpInt(StateRank(s), StateRank(t))
PROOF BY DEF StateCmp, CmpInt, StateRank, PeerAddrStates, Less, Equal, Greater

\* Two states of the same position are the same state.
LEMMA StateRankInjective ==
    ASSUME NEW s \in PeerAddrStates, NEW t \in PeerAddrStates,
           StateRank(s) = StateRank(t)
    PROVE  s = t
PROOF BY DEF StateRank, PeerAddrStates

\* The Then chain of Ord for MetaAddr over two keys of KeyLen integers.
KeyCmp(u, v) ==
    Then(Then(Then(Then(Then(Then(Then(Then(
        CmpInt(u[1], v[1]), CmpInt(u[2], v[2])), CmpInt(u[3], v[3])),
        CmpInt(u[4], v[4])), CmpInt(u[5], v[5])), CmpInt(u[6], v[6])),
        CmpInt(u[7], v[7])), CmpInt(u[8], v[8])), CmpInt(u[9], v[9]))

Keys == [1..KeyLen -> Int]

\* A record's sort key is a tuple of KeyLen integers.
LEMMA SortKeyType ==
    ASSUME NEW m \in MetaAddrRecs
    PROVE  SortKey(m) \in Keys
PROOF
  <1>1. StateRank(m.last_connection_state) \in Int
    BY DEF StateRank
  <1> QED
    BY <1>1, RecordFieldTypes DEF SortKey, Keys, KeyLen

\* cmp of two records is the Then chain over their sort keys.
LEMMA CmpOverKeys ==
    ASSUME NEW m \in MetaAddrRecs, NEW n \in MetaAddrRecs
    PROVE  MetaAddrCmp(m, n) = KeyCmp(SortKey(m), SortKey(n))
PROOF
  <1>1. StateCmp(m.last_connection_state, n.last_connection_state)
          = CmpInt(SortKey(m)[1], SortKey(n)[1])
    BY RecordFieldTypes, StateCmpIsRankCmp DEF SortKey
  <1>2. -CmpInt(m.untrusted_last_seen, n.untrusted_last_seen)
          = CmpInt(SortKey(m)[5], SortKey(n)[5])
    BY RecordFieldTypes DEF SortKey, CmpInt, Less, Equal, Greater
  <1>3. IpCmp(m.addr.ip, n.addr.ip)
          = Then(CmpInt(SortKey(m)[7], SortKey(n)[7]),
                 CmpInt(SortKey(m)[8], SortKey(n)[8]))
    <2>1. /\ SortKey(m)[7] = m.addr.ip[1] /\ SortKey(m)[8] = m.addr.ip[2]
          /\ SortKey(n)[7] = n.addr.ip[1] /\ SortKey(n)[8] = n.addr.ip[2]
      BY DEF SortKey
    <2>2. /\ m.addr.ip[1] \in {4, 6} /\ n.addr.ip[1] \in {4, 6}
          /\ m.addr.ip[2] \in Nat /\ n.addr.ip[2] \in Nat
      BY RecordFieldTypes
    <2>3. CASE m.addr.ip[1] = n.addr.ip[1]
      BY <2>1, <2>2, <2>3 DEF IpCmp, CmpInt, Then, Less, Equal, Greater
    <2>4. CASE m.addr.ip[1] # n.addr.ip[1]
      BY <2>1, <2>2, <2>4 DEF IpCmp, CmpInt, Then, Less, Equal, Greater
    <2> QED
      BY <2>3, <2>4
  <1>4. /\ CmpInt(m.last_attempt, n.last_attempt) = CmpInt(SortKey(m)[2], SortKey(n)[2])
        /\ CmpInt(m.last_failure, n.last_failure) = CmpInt(SortKey(m)[3], SortKey(n)[3])
        /\ CmpInt(m.last_response, n.last_response) = CmpInt(SortKey(m)[4], SortKey(n)[4])
        /\ CmpInt(m.services, n.services) = CmpInt(SortKey(m)[6], SortKey(n)[6])
        /\ CmpInt(m.addr.port, n.addr.port) = CmpInt(SortKey(m)[9], SortKey(n)[9])
    BY DEF SortKey
  <1> QED
    BY <1>1, <1>2, <1>3, <1>4 DEF MetaAddrCmp, KeyCmp, Then, Equal

(***************************************************************************)
(* The chain over integer keys is a strict total order.                    *)
(***************************************************************************)
\* The components of a key are integers.
LEMMA KeyComponents ==
    ASSUME NEW u \in Keys
    PROVE  /\ u[1] \in Int /\ u[2] \in Int /\ u[3] \in Int
           /\ u[4] \in Int /\ u[5] \in Int /\ u[6] \in Int
           /\ u[7] \in Int /\ u[8] \in Int /\ u[9] \in Int
PROOF BY DEF Keys, KeyLen

\* Two keys with the same components are the same key.
LEMMA KeyExtensional ==
    ASSUME NEW u \in Keys, NEW v \in Keys,
           u[1] = v[1], u[2] = v[2], u[3] = v[3], u[4] = v[4], u[5] = v[5],
           u[6] = v[6], u[7] = v[7], u[8] = v[8], u[9] = v[9]
    PROVE  u = v
PROOF
  <1>1. \A i \in 1..KeyLen : u[i] = v[i]
    BY DEF KeyLen
  <1> QED
    BY <1>1 DEF Keys, KeyLen

Ords == {Less, Equal, Greater}

\* What cmp on integers returns, and that it is antisymmetric.
LEMMA CmpIntFacts ==
    ASSUME NEW a \in Int, NEW b \in Int
    PROVE  /\ CmpInt(a, b) \in Ords
           /\ CmpInt(a, b) = -CmpInt(b, a)
           /\ CmpInt(a, b) = Equal <=> a = b
PROOF BY DEF CmpInt, Ords, Less, Equal, Greater

\* x is the comparison y seen from the other side.
Opp(x, y) == x = -y

\* Ordering::then of two antisymmetric comparisons is antisymmetric.
LEMMA ThenAntisymmetric ==
    ASSUME NEW x \in Ords, NEW y \in Ords, NEW x2 \in Ords, NEW y2 \in Ords,
           Opp(x, y), Opp(x2, y2)
    PROVE  /\ Opp(Then(x, x2), Then(y, y2))
           /\ Then(x, x2) \in Ords /\ Then(y, y2) \in Ords
PROOF BY DEF Opp, Then, Ords, Less, Equal, Greater

\* Ordering::then is Equal exactly when both comparisons are.
LEMMA ThenEqual ==
    ASSUME NEW x \in Ords, NEW x2 \in Ords
    PROVE  /\ Then(x, x2) = Equal <=> x = Equal /\ x2 = Equal
           /\ Then(x, x2) \in Ords
PROOF BY DEF Then, Ords, Less, Equal, Greater

\* The comparisons x of (u, v), y of (v, w) and z of (u, w) are consistent
\* with a transitive order.
TransOK(x, y, z) ==
    /\ x = Equal /\ y = Equal => z = Equal
    /\ x # Greater /\ y # Greater /\ (x = Less \/ y = Less) => z = Less

LEMMA CmpIntTransOK ==
    ASSUME NEW a \in Int, NEW b \in Int, NEW c \in Int
    PROVE  TransOK(CmpInt(a, b), CmpInt(b, c), CmpInt(a, c))
PROOF BY DEF TransOK, CmpInt, Less, Equal, Greater

\* Ordering::then preserves that consistency.
LEMMA ThenTransOK ==
    ASSUME NEW x \in Ords, NEW y \in Ords, NEW z \in Ords,
           NEW x2 \in Ords, NEW y2 \in Ords, NEW z2 \in Ords,
           TransOK(x, y, z), TransOK(x2, y2, z2)
    PROVE  /\ TransOK(Then(x, x2), Then(y, y2), Then(z, z2))
           /\ Then(x, x2) \in Ords /\ Then(y, y2) \in Ords /\ Then(z, z2) \in Ords
PROOF BY DEF TransOK, Then, Ords, Less, Equal, Greater

\* The Then chain over keys is antisymmetric, step by step along the chain.
LEMMA KeyCmpAntisymmetric ==
    ASSUME NEW u \in Keys, NEW v \in Keys
    PROVE  KeyCmp(u, v) = -KeyCmp(v, u)
PROOF
  <1> DEFINE c(i) == CmpInt(u[i], v[i])
             d(i) == CmpInt(v[i], u[i])
             s2 == Then(c(1), c(2))
             s3 == Then(s2, c(3))
             s4 == Then(s3, c(4))
             s5 == Then(s4, c(5))
             s6 == Then(s5, c(6))
             s7 == Then(s6, c(7))
             s8 == Then(s7, c(8))
             s9 == Then(s8, c(9))
             r2 == Then(d(1), d(2))
             r3 == Then(r2, d(3))
             r4 == Then(r3, d(4))
             r5 == Then(r4, d(5))
             r6 == Then(r5, d(6))
             r7 == Then(r6, d(7))
             r8 == Then(r7, d(8))
             r9 == Then(r8, d(9))
  <1>1. /\ c(1) \in Ords /\ d(1) \in Ords /\ Opp(c(1), d(1))
        /\ c(2) \in Ords /\ d(2) \in Ords /\ Opp(c(2), d(2))
        /\ c(3) \in Ords /\ d(3) \in Ords /\ Opp(c(3), d(3))
        /\ c(4) \in Ords /\ d(4) \in Ords /\ Opp(c(4), d(4))
        /\ c(5) \in Ords /\ d(5) \in Ords /\ Opp(c(5), d(5))
        /\ c(6) \in Ords /\ d(6) \in Ords /\ Opp(c(6), d(6))
        /\ c(7) \in Ords /\ d(7) \in Ords /\ Opp(c(7), d(7))
        /\ c(8) \in Ords /\ d(8) \in Ords /\ Opp(c(8), d(8))
        /\ c(9) \in Ords /\ d(9) \in Ords /\ Opp(c(9), d(9))
    BY KeyComponents, CmpIntFacts DEF Opp
  <1>2. \A x, y, x2, y2 \in Ords : Opp(x, y) /\ Opp(x2, y2) =>
           /\ Opp(Then(x, x2), Then(y, y2))
           /\ Then(x, x2) \in Ords /\ Then(y, y2) \in Ords
    BY ThenAntisymmetric
  <1> HIDE DEF Then, Opp, c, d, s2, s3, s4, s5, s6, s7, s8, s9, r2, r3, r4, r5, r6, r7, r8, r9
  <1>3. Opp(s2, r2) /\ s2 \in Ords /\ r2 \in Ords
    BY <1>1, <1>2 DEF s2, r2
  <1>4. Opp(s3, r3) /\ s3 \in Ords /\ r3 \in Ords
    BY <1>1, <1>2, <1>3 DEF s3, r3
  <1>5. Opp(s4, r4) /\ s4 \in Ords /\ r4 \in Ords
    BY <1>1, <1>2, <1>4 DEF s4, r4
  <1>6. Opp(s5, r5) /\ s5 \in Ords /\ r5 \in Ords
    BY <1>1, <1>2, <1>5 DEF s5, r5
  <1>7. Opp(s6, r6) /\ s6 \in Ords /\ r6 \in Ords
    BY <1>1, <1>2, <1>6 DEF s6, r6
  <1>8. Opp(s7, r7) /\ s7 \in Ords /\ r7 \in Ords
    BY <1>1, <1>2, <1>7 DEF s7, r7
  <1>9. Opp(s8, r8) /\ s8 \in Ords /\ r8 \in Ords
    BY <1>1, <1>2, <1>8 DEF s8, r8
  <1>10. Opp(s9, r9) /\ s9 \in Ords /\ r9 \in Ords
    BY <1>1, <1>2, <1>9 DEF s9, r9
  <1>11. Opp(KeyCmp(u, v), KeyCmp(v, u))
    BY <1>10 DEF KeyCmp, c, d, s2, s3, s4, s5, s6, s7, s8, s9, r2, r3, r4, r5, r6, r7, r8, r9
  <1> QED
    BY <1>11 DEF Opp

\* The Then chain over keys is Equal exactly for equal keys.
LEMMA KeyCmpEqual ==
    ASSUME NEW u \in Keys, NEW v \in Keys
    PROVE  KeyCmp(u, v) = Equal <=> u = v
PROOF
  <1> DEFINE c(i) == CmpInt(u[i], v[i])
             s1 == c(1)
             s2 == Then(s1, c(2))
             s3 == Then(s2, c(3))
             s4 == Then(s3, c(4))
             s5 == Then(s4, c(5))
             s6 == Then(s5, c(6))
             s7 == Then(s6, c(7))
             s8 == Then(s7, c(8))
             s9 == Then(s8, c(9))
  <1>1. \A i \in 1..KeyLen : c(i) \in Ords /\ (c(i) = Equal <=> u[i] = v[i])
    BY KeyComponents, CmpIntFacts DEF Keys
  <1>2. \A x, x2 \in Ords :
           /\ Then(x, x2) = Equal <=> x = Equal /\ x2 = Equal
           /\ Then(x, x2) \in Ords
    BY ThenEqual
  <1> HIDE DEF Then, c, s1, s2, s3, s4, s5, s6, s7, s8, s9
  <1>3. s1 \in Ords /\ (s1 = Equal <=> u[1] = v[1])
    BY <1>1 DEF s1, KeyLen
  <1>4. s2 \in Ords /\ (s2 = Equal <=> s1 = Equal /\ u[2] = v[2])
    BY <1>1, <1>2, <1>3 DEF s2, KeyLen
  <1>5. s3 \in Ords /\ (s3 = Equal <=> s2 = Equal /\ u[3] = v[3])
    BY <1>1, <1>2, <1>4 DEF s3, KeyLen
  <1>6. s4 \in Ords /\ (s4 = Equal <=> s3 = Equal /\ u[4] = v[4])
    BY <1>1, <1>2, <1>5 DEF s4, KeyLen
  <1>7. s5 \in Ords /\ (s5 = Equal <=> s4 = Equal /\ u[5] = v[5])
    BY <1>1, <1>2, <1>6 DEF s5, KeyLen
  <1>8. s6 \in Ords /\ (s6 = Equal <=> s5 = Equal /\ u[6] = v[6])
    BY <1>1, <1>2, <1>7 DEF s6, KeyLen
  <1>9. s7 \in Ords /\ (s7 = Equal <=> s6 = Equal /\ u[7] = v[7])
    BY <1>1, <1>2, <1>8 DEF s7, KeyLen
  <1>10. s8 \in Ords /\ (s8 = Equal <=> s7 = Equal /\ u[8] = v[8])
    BY <1>1, <1>2, <1>9 DEF s8, KeyLen
  <1>11. s9 \in Ords /\ (s9 = Equal <=> s8 = Equal /\ u[9] = v[9])
    BY <1>1, <1>2, <1>10 DEF s9, KeyLen
  <1>12. KeyCmp(u, v) = s9
    BY DEF KeyCmp, c, s1, s2, s3, s4, s5, s6, s7, s8, s9
  <1>13. KeyCmp(u, v) = Equal <=>
           /\ u[1] = v[1] /\ u[2] = v[2] /\ u[3] = v[3]
           /\ u[4] = v[4] /\ u[5] = v[5] /\ u[6] = v[6]
           /\ u[7] = v[7] /\ u[8] = v[8] /\ u[9] = v[9]
    BY <1>3, <1>4, <1>5, <1>6, <1>7, <1>8, <1>9, <1>10, <1>11, <1>12, Zenon
  <1> QED
    BY <1>13, KeyExtensional

\* The Then chain over keys is transitive: TransOK holds of every prefix.
LEMMA KeyCmpTransitive ==
    ASSUME NEW u \in Keys, NEW v \in Keys, NEW w \in Keys,
           KeyCmp(u, v) = Less, KeyCmp(v, w) = Less
    PROVE  KeyCmp(u, w) = Less
PROOF
  <1> DEFINE c(i) == CmpInt(u[i], v[i])
             d(i) == CmpInt(v[i], w[i])
             e(i) == CmpInt(u[i], w[i])
             s2 == Then(c(1), c(2))
             s3 == Then(s2, c(3))
             s4 == Then(s3, c(4))
             s5 == Then(s4, c(5))
             s6 == Then(s5, c(6))
             s7 == Then(s6, c(7))
             s8 == Then(s7, c(8))
             s9 == Then(s8, c(9))
             r2 == Then(d(1), d(2))
             r3 == Then(r2, d(3))
             r4 == Then(r3, d(4))
             r5 == Then(r4, d(5))
             r6 == Then(r5, d(6))
             r7 == Then(r6, d(7))
             r8 == Then(r7, d(8))
             r9 == Then(r8, d(9))
             q2 == Then(e(1), e(2))
             q3 == Then(q2, e(3))
             q4 == Then(q3, e(4))
             q5 == Then(q4, e(5))
             q6 == Then(q5, e(6))
             q7 == Then(q6, e(7))
             q8 == Then(q7, e(8))
             q9 == Then(q8, e(9))
  <1>1.
 /\ c(1) \in Ords /\ d(1) \in Ords /\ e(1) \in Ords /\ TransOK(c(1), d(1), e(1))
        /\ c(2) \in Ords /\ d(2) \in Ords /\ e(2) \in Ords /\ TransOK(c(2), d(2), e(2))
        /\ c(3) \in Ords /\ d(3) \in Ords /\ e(3) \in Ords /\ TransOK(c(3), d(3), e(3))
        /\ c(4) \in Ords /\ d(4) \in Ords /\ e(4) \in Ords /\ TransOK(c(4), d(4), e(4))
        /\ c(5) \in Ords /\ d(5) \in Ords /\ e(5) \in Ords /\ TransOK(c(5), d(5), e(5))
        /\ c(6) \in Ords /\ d(6) \in Ords /\ e(6) \in Ords /\ TransOK(c(6), d(6), e(6))
        /\ c(7) \in Ords /\ d(7) \in Ords /\ e(7) \in Ords /\ TransOK(c(7), d(7), e(7))
        /\ c(8) \in Ords /\ d(8) \in Ords /\ e(8) \in Ords /\ TransOK(c(8), d(8), e(8))
        /\ c(9) \in Ords /\ d(9) \in Ords /\ e(9) \in Ords /\ TransOK(c(9), d(9), e(9))
    BY KeyComponents, CmpIntFacts, CmpIntTransOK
  <1>2. \A x, y, z, x2, y2, z2 \in Ords :
           TransOK(x, y, z) /\ TransOK(x2, y2, z2) =>
             /\ TransOK(Then(x, x2), Then(y, y2), Then(z, z2))
             /\ Then(x, x2) \in Ords /\ Then(y, y2) \in Ords /\ Then(z, z2) \in Ords
    BY ThenTransOK
  <1> HIDE DEF Then, TransOK, c, d, e, s2, s3, s4, s5, s6, s7, s8, s9, r2, r3, r4, r5, r6, r7, r8, r9, q2, q3, q4, q5, q6, q7, q8, q9
  <1>3. TransOK(s2, r2, q2) /\ s2 \in Ords /\ r2 \in Ords /\ q2 \in Ords
    BY <1>1, <1>2 DEF s2, r2, q2
  <1>4. TransOK(s3, r3, q3) /\ s3 \in Ords /\ r3 \in Ords /\ q3 \in Ords
    BY <1>1, <1>2, <1>3 DEF s3, r3, q3
  <1>5. TransOK(s4, r4, q4) /\ s4 \in Ords /\ r4 \in Ords /\ q4 \in Ords
    BY <1>1, <1>2, <1>4 DEF s4, r4, q4
  <1>6. TransOK(s5, r5, q5) /\ s5 \in Ords /\ r5 \in Ords /\ q5 \in Ords
    BY <1>1, <1>2, <1>5 DEF s5, r5, q5
  <1>7. TransOK(s6, r6, q6) /\ s6 \in Ords /\ r6 \in Ords /\ q6 \in Ords
    BY <1>1, <1>2, <1>6 DEF s6, r6, q6
  <1>8. TransOK(s7, r7, q7) /\ s7 \in Ords /\ r7 \in Ords /\ q7 \in Ords
    BY <1>1, <1>2, <1>7 DEF s7, r7, q7
  <1>9. TransOK(s8, r8, q8) /\ s8 \in Ords /\ r8 \in Ords /\ q8 \in Ords
    BY <1>1, <1>2, <1>8 DEF s8, r8, q8
  <1>10. TransOK(s9, r9, q9) /\ s9 \in Ords /\ r9 \in Ords /\ q9 \in Ords
    BY <1>1, <1>2, <1>9 DEF s9, r9, q9
  <1>11. TransOK(KeyCmp(u, v), KeyCmp(v, w), KeyCmp(u, w))
    BY <1>10 DEF KeyCmp, c, d, e, s2, s3, s4, s5, s6, s7, s8, s9, r2, r3, r4, r5, r6, r7, r8, r9, q2, q3, q4, q5, q6, q7, q8, q9
  <1> QED
    BY <1>11 DEF TransOK, Less, Equal, Greater

(***************************************************************************)
(* The Then chain over keys is the lexicographic order LexLess.            *)
(***************************************************************************)
\* The keys agree on their first k components.
EqUpTo(u, v, k) == \A j \in 1..k : u[j] = v[j]

\* u precedes v at one of the first k components.
LessUpTo(u, v, k) == \E i \in 1..k : u[i] < v[i] /\ EqUpTo(u, v, i - 1)

LEMMA PrefixStep ==
    ASSUME NEW u \in Keys, NEW v \in Keys, NEW k \in 2..KeyLen
    PROVE  /\ EqUpTo(u, v, k) <=> EqUpTo(u, v, k - 1) /\ u[k] = v[k]
           /\ LessUpTo(u, v, k) <=>
                 LessUpTo(u, v, k - 1) \/ (EqUpTo(u, v, k - 1) /\ u[k] < v[k])
PROOF
  <1>1. EqUpTo(u, v, k) <=> EqUpTo(u, v, k - 1) /\ u[k] = v[k]
    BY DEF EqUpTo, KeyLen
  <1>2. LessUpTo(u, v, k) <=>
           LessUpTo(u, v, k - 1) \/ (EqUpTo(u, v, k - 1) /\ u[k] < v[k])
    BY DEF LessUpTo, KeyLen
  <1> QED
    BY <1>1, <1>2

\* Ordering::then is Less when the first comparison is, or when it is
\* Equal and the second is Less.
LEMMA ThenLess ==
    ASSUME NEW x \in Ords, NEW x2 \in Ords
    PROVE  Then(x, x2) = Less <=> x = Less \/ (x = Equal /\ x2 = Less)
PROOF BY DEF Then, Ords, Less, Equal, Greater

LEMMA KeyCmpLess ==
    ASSUME NEW u \in Keys, NEW v \in Keys
    PROVE  KeyCmp(u, v) = Less <=> LexLess(u, v)
PROOF
  <1> DEFINE c(i) == CmpInt(u[i], v[i])
             s1 == c(1)
             s2 == Then(s1, c(2))
             s3 == Then(s2, c(3))
             s4 == Then(s3, c(4))
             s5 == Then(s4, c(5))
             s6 == Then(s5, c(6))
             s7 == Then(s6, c(7))
             s8 == Then(s7, c(8))
             s9 == Then(s8, c(9))
  <1>1. \A i \in 1..KeyLen :
           /\ c(i) \in Ords
           /\ c(i) = Equal <=> u[i] = v[i]
           /\ c(i) = Less <=> u[i] < v[i]
    BY DEF Keys, CmpInt, Ords, Less, Equal, Greater
  <1>2. \A x, x2 \in Ords :
           /\ Then(x, x2) \in Ords
           /\ Then(x, x2) = Equal <=> x = Equal /\ x2 = Equal
           /\ Then(x, x2) = Less <=> x = Less \/ (x = Equal /\ x2 = Less)
    BY ThenEqual, ThenLess
  <1>3. \A k \in 2..KeyLen :
           /\ EqUpTo(u, v, k) <=> EqUpTo(u, v, k - 1) /\ u[k] = v[k]
           /\ LessUpTo(u, v, k) <=>
                 LessUpTo(u, v, k - 1) \/ (EqUpTo(u, v, k - 1) /\ u[k] < v[k])
    BY PrefixStep
  <1>4. /\ s1 \in Ords
        /\ s1 = Equal <=> EqUpTo(u, v, 1)
        /\ s1 = Less <=> LessUpTo(u, v, 1)
    BY <1>1 DEF s1, EqUpTo, LessUpTo, KeyLen
  <1> HIDE DEF Then, c, s1, s2, s3, s4, s5, s6, s7, s8, s9, EqUpTo, LessUpTo
  <1>5. /\ s2 \in Ords
        /\ s2 = Equal <=> EqUpTo(u, v, 2)
        /\ s2 = Less <=> LessUpTo(u, v, 2)
    BY <1>1, <1>2, <1>3, <1>4 DEF s2, KeyLen
  <1>6. /\ s3 \in Ords
        /\ s3 = Equal <=> EqUpTo(u, v, 3)
        /\ s3 = Less <=> LessUpTo(u, v, 3)
    BY <1>1, <1>2, <1>3, <1>5 DEF s3, KeyLen
  <1>7. /\ s4 \in Ords
        /\ s4 = Equal <=> EqUpTo(u, v, 4)
        /\ s4 = Less <=> LessUpTo(u, v, 4)
    BY <1>1, <1>2, <1>3, <1>6 DEF s4, KeyLen
  <1>8. /\ s5 \in Ords
        /\ s5 = Equal <=> EqUpTo(u, v, 5)
        /\ s5 = Less <=> LessUpTo(u, v, 5)
    BY <1>1, <1>2, <1>3, <1>7 DEF s5, KeyLen
  <1>9. /\ s6 \in Ords
        /\ s6 = Equal <=> EqUpTo(u, v, 6)
        /\ s6 = Less <=> LessUpTo(u, v, 6)
    BY <1>1, <1>2, <1>3, <1>8 DEF s6, KeyLen
  <1>10. /\ s7 \in Ords
         /\ s7 = Equal <=> EqUpTo(u, v, 7)
         /\ s7 = Less <=> LessUpTo(u, v, 7)
    BY <1>1, <1>2, <1>3, <1>9 DEF s7, KeyLen
  <1>11. /\ s8 \in Ords
         /\ s8 = Equal <=> EqUpTo(u, v, 8)
         /\ s8 = Less <=> LessUpTo(u, v, 8)
    BY <1>1, <1>2, <1>3, <1>10 DEF s8, KeyLen
  <1>12. /\ s9 \in Ords
         /\ s9 = Equal <=> EqUpTo(u, v, 9)
         /\ s9 = Less <=> LessUpTo(u, v, 9)
    BY <1>1, <1>2, <1>3, <1>11 DEF s9, KeyLen
  <1>13. KeyCmp(u, v) = s9
    BY DEF KeyCmp, c, s1, s2, s3, s4, s5, s6, s7, s8, s9
  <1>14. LessUpTo(u, v, 9) <=> LexLess(u, v)
    BY DEF LessUpTo, EqUpTo, LexLess, KeyLen
  <1> QED
    BY <1>12, <1>13, <1>14

(***************************************************************************)
(* Ord for MetaAddr is a strict total order, and it is the reference       *)
(* order of the spec.                                                      *)
(***************************************************************************)
\* Records with the same sort key are the same record: the key holds every
\* field, and the gossiped time is negated.
LEMMA SortKeyInjective ==
    ASSUME NEW m \in MetaAddrRecs, NEW n \in MetaAddrRecs,
           SortKey(m) = SortKey(n)
    PROVE  m = n
PROOF
  <1>1. StateRank(m.last_connection_state) = StateRank(n.last_connection_state)
        /\ m.last_attempt = n.last_attempt /\ m.last_failure = n.last_failure
        /\ m.last_response = n.last_response
        /\ -m.untrusted_last_seen = -n.untrusted_last_seen
        /\ m.services = n.services
        /\ m.addr.ip[1] = n.addr.ip[1] /\ m.addr.ip[2] = n.addr.ip[2]
        /\ m.addr.port = n.addr.port
    BY DEF SortKey
  <1>2. m.last_connection_state = n.last_connection_state
    BY <1>1, RecordFieldTypes, StateRankInjective
  <1>3. m.untrusted_last_seen = n.untrusted_last_seen
    BY <1>1, RecordFieldTypes
  <1> QED
    BY <1>1, <1>2, <1>3, RecordsEqualByFields

\* Swapping the records of cmp reverses the result (Ord's contract that
\* a.cmp(b) is b.cmp(a).reverse(); sort and BTreeSet rely on it).
THEOREM MetaAddrCmpAntisymmetric ==
    \A m, n \in MetaAddrRecs : MetaAddrCmp(m, n) = -MetaAddrCmp(n, m)
PROOF BY CmpOverKeys, SortKeyType, KeyCmpAntisymmetric

\* PartialEq for MetaAddr, defined as cmp = Equal, holds exactly for equal
\* records: the tie-breakers on IP and port make the order total.
THEOREM MetaAddrEqIsEquality ==
    \A m, n \in MetaAddrRecs : MetaAddrEq(m, n) <=> m = n
PROOF
  <1> SUFFICES ASSUME NEW m \in MetaAddrRecs, NEW n \in MetaAddrRecs
               PROVE  MetaAddrCmp(m, n) = Equal <=> m = n
    BY DEF MetaAddrEq
  <1>1. MetaAddrCmp(m, n) = Equal <=> SortKey(m) = SortKey(n)
    BY CmpOverKeys, SortKeyType, KeyCmpEqual
  <1> QED
    BY <1>1, SortKeyInjective

\* PartialOrd::lt for MetaAddr is transitive, so the reconnection order of
\* the candidate set is consistent.
THEOREM MetaAddrLtTransitive ==
    \A m, n, p \in MetaAddrRecs :
        MetaAddrLt(m, n) /\ MetaAddrLt(n, p) => MetaAddrLt(m, p)
PROOF BY CmpOverKeys, SortKeyType, KeyCmpTransitive DEF MetaAddrLt

\* Ord for MetaAddr compares the keys in the order spec section 4.6 lists
\* them, for every address set, services and clock bound.
THEOREM MetaAddrCmpIsReference ==
    \A m, n \in MetaAddrRecs : MetaAddrCmp(m, n) = RefCmp(m, n)
PROOF
  <1> SUFFICES ASSUME NEW m \in MetaAddrRecs, NEW n \in MetaAddrRecs
               PROVE  MetaAddrCmp(m, n) = RefCmp(m, n)
    OBVIOUS
  <1>1. /\ MetaAddrCmp(m, n) = KeyCmp(SortKey(m), SortKey(n))
        /\ MetaAddrCmp(n, m) = KeyCmp(SortKey(n), SortKey(m))
    BY CmpOverKeys
  <1>2. SortKey(m) \in Keys /\ SortKey(n) \in Keys
    BY SortKeyType
  <1>3. /\ KeyCmp(SortKey(m), SortKey(n)) = Less <=> LexLess(SortKey(m), SortKey(n))
        /\ KeyCmp(SortKey(m), SortKey(n)) = Equal <=> SortKey(m) = SortKey(n)
        /\ KeyCmp(SortKey(m), SortKey(n)) = -KeyCmp(SortKey(n), SortKey(m))
        /\ KeyCmp(SortKey(m), SortKey(n)) \in Ords
    <2>1. KeyCmp(SortKey(m), SortKey(n)) \in Ords
      BY <1>2 DEF KeyCmp, Then, CmpInt, Ords
    <2> QED
      BY <1>2, <2>1, KeyCmpLess, KeyCmpEqual, KeyCmpAntisymmetric
  <1> QED
    BY <1>1, <1>3 DEF RefCmp, Ords, Less, Equal, Greater

\* The pair-comparison run of MCMetaAddrOrder checks CmpMatchesReference
\* on a small domain; it holds on every domain.
THEOREM OrderRunMatchesReference == Spec => []CmpMatchesReference
PROOF
  <1> DEFINE PairInv == lhs \in MetaAddrRecs /\ rhs \in MetaAddrRecs
  <1>1. Init => PairInv
    BY DEF Init
  <1>2. PairInv /\ [Swap]_<<lhs, rhs>> => PairInv'
    BY DEF Swap
  <1>3. PairInv => CmpMatchesReference
    BY MetaAddrCmpIsReference DEF CmpMatchesReference
  <1> QED
    BY <1>1, <1>2, <1>3, PTL DEF Spec

=============================================================================
