---------------------------- MODULE MetaAddrOrder ----------------------------
(***************************************************************************)
(* The total order of peer address records (meta_addr.rs): Ord for         *)
(* PeerAddrState and Ord for MetaAddr, whose PartialEq is "cmp is Equal".  *)
(* std::cmp::Ordering is -1 / 0 / 1, so Ordering::reverse is negation.     *)
(* Option<T>::cmp orders None first, which is integer order under the      *)
(* None = -1 encoding of MetaAddr.  The octets of an IPv4 or IPv6 address  *)
(* compare lexicographically, which is the order of the host number.       *)
(***************************************************************************)
EXTENDS MetaAddr

Less == -1
Equal == 0
Greater == 1

\* Ord::cmp on integers, and on Option<DateTime32>, Option<Instant>,
\* PeerServices::bits(), octets and ports.
CmpInt(a, b) == IF a < b THEN Less ELSE IF a = b THEN Equal ELSE Greater

\* Ordering::then: the second comparison breaks a tie of the first.
Then(o1, o2) == IF o1 = Equal THEN o2 ELSE o1

\* Ord for PeerAddrState: the match arms in the order the code lists them;
\* the last arm, (_, Failed) => Greater, leaves only AttemptPending.
StateCmp(s, t) ==
    IF s = t THEN Equal
    ELSE IF s = "Responded" THEN Less
    ELSE IF t = "Responded" THEN Greater
    ELSE IF s = "NeverAttemptedGossiped" THEN Less
    ELSE IF t = "NeverAttemptedGossiped" THEN Greater
    ELSE IF s = "NeverAttemptedAlternate" THEN Less
    ELSE IF t = "NeverAttemptedAlternate" THEN Greater
    ELSE IF s = "Failed" THEN Less
    ELSE Greater

\* ip_tie_breaker: octets within a family, and IPv4 before IPv6.
IpCmp(x, y) ==
    IF x[1] = y[1] THEN CmpInt(x[2], y[2])
    ELSE IF x[1] = 4 THEN Less ELSE Greater

\* Ord for MetaAddr with the untrusted last seen time compared without
\* .reverse(), so older gossip is tried first.
MetaAddrCmpOlderGossipFirst(m, n) ==
    Then(Then(Then(Then(Then(Then(Then(
        StateCmp(m.last_connection_state, n.last_connection_state),
        CmpInt(m.last_attempt, n.last_attempt)),
        CmpInt(m.last_failure, n.last_failure)),
        CmpInt(m.last_response, n.last_response)),
        CmpInt(m.untrusted_last_seen, n.untrusted_last_seen)),
        CmpInt(m.services, n.services)),
        IpCmp(m.addr.ip, n.addr.ip)),
        CmpInt(m.addr.port, n.addr.port))

\* Ord for MetaAddr: the eight comparisons chained with Ordering::then.
MetaAddrCmp(m, n) ==
    LET more_reliable_state ==
            StateCmp(m.last_connection_state, n.last_connection_state)
        older_attempt == CmpInt(m.last_attempt, n.last_attempt)
        older_failure == CmpInt(m.last_failure, n.last_failure)
        older_response == CmpInt(m.last_response, n.last_response)
        newer_untrusted_last_seen ==
            -CmpInt(m.untrusted_last_seen, n.untrusted_last_seen)
        larger_services == CmpInt(m.services, n.services)
        ip_tie_breaker == IpCmp(m.addr.ip, n.addr.ip)
        port_tie_breaker == CmpInt(m.addr.port, n.addr.port)
    IN  Then(Then(Then(Then(Then(Then(Then(
            more_reliable_state, older_attempt), older_failure), older_response),
            newer_untrusted_last_seen), larger_services), ip_tie_breaker),
            port_tie_breaker)

\* PartialEq for MetaAddr and PartialOrd::lt.
MetaAddrEq(m, n) == MetaAddrCmp(m, n) = Equal
MetaAddrLt(m, n) == MetaAddrCmp(m, n) = Less

(***************************************************************************)
(* A reference for the order, written from the key list of the spec        *)
(* (section 4.6) rather than from the code: the position of the state in   *)
(* Responded < NeverAttemptedGossiped < NeverAttemptedAlternate < Failed < *)
(* AttemptPending, then the times, the negated gossiped time, services,    *)
(* family, host and port, compared lexicographically.                      *)
(***************************************************************************)
StateRank(s) ==
    IF s = "Responded" THEN 0
    ELSE IF s = "NeverAttemptedGossiped" THEN 1
    ELSE IF s = "NeverAttemptedAlternate" THEN 2
    ELSE IF s = "Failed" THEN 3
    ELSE 4

SortKey(m) ==
    <<StateRank(m.last_connection_state), m.last_attempt, m.last_failure,
      m.last_response, -m.untrusted_last_seen, m.services,
      m.addr.ip[1], m.addr.ip[2], m.addr.port>>

KeyLen == 9

\* u precedes v in the lexicographic order of integer tuples of length KeyLen.
LexLess(u, v) ==
    \E i \in 1..KeyLen : u[i] < v[i] /\ \A j \in 1..(i - 1) : u[j] = v[j]

\* The reference comparison.
RefCmp(m, n) ==
    IF LexLess(SortKey(m), SortKey(n)) THEN Less
    ELSE IF SortKey(m) = SortKey(n) THEN Equal
    ELSE Greater

=============================================================================
