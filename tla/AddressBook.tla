----------------------------- MODULE AddressBook -----------------------------
(***************************************************************************)
(* The address book as the core of meta_addr.rs sees it: one optional      *)
(* MetaAddr per canonical address, updated by folding MetaAddrChanges with *)
(* apply_to_meta_addr.  The address book container is not under src/; its  *)
(* update step is modelled from the spec (sections 3 and 7): the entry     *)
(* stored under the change's address is passed as `previous`, a Some       *)
(* result replaces it and a None result leaves the book as it was.         *)
(*                                                                         *)
(* The changes come from several tasks (the gossip crawler, handshakes,    *)
(* the candidate set, connection tasks) and reach the book in any order    *)
(* (the comment at meta_addr.rs:810), so every change may be applied in    *)
(* every state.  The gossiped last-seen time is chosen by the remote peer  *)
(* and may lie in the future.  DateTime32::now() is the wall clock and may *)
(* step backwards; Instant::now() is monotonic.                            *)
(***************************************************************************)
EXTENDS MetaAddr

VARIABLES
    book,        \* Addrs -> MetaAddrRecs \cup {NoMetaAddr}
    everState,   \* history: every PeerAddrState each entry has been in
    wall,        \* DateTime32::now()
    instant      \* Instant::now()

vars == <<book, everState, wall, instant>>

\* The address has an entry in the book.
Known(a) == book[a] # NoMetaAddr

TypeOK ==
    /\ book \in [Addrs -> MetaAddrRecs \cup {NoMetaAddr}]
    /\ everState \in [Addrs -> SUBSET PeerAddrStates]
    /\ wall \in WallTimes
    /\ instant \in Instants

Init ==
    /\ book = [a \in Addrs |-> NoMetaAddr]
    /\ everState = [a \in Addrs |-> {}]
    /\ wall \in WallTimes
    /\ instant = 0

\* AddressBook::update (spec_modelled): apply the change to the stored entry
\* at the current clock readings; keep the result if it is Some.
Update(c) ==
    LET next == ApplyToMetaAddr(c, book[c.addr], wall, instant) IN
    /\ book' = IF next = NoMetaAddr THEN book ELSE [book EXCEPT ![c.addr] = next]
    /\ everState' = IF next = NoMetaAddr THEN everState
                    ELSE [everState EXCEPT ![c.addr] = @ \cup {next.last_connection_state}]
    /\ UNCHANGED <<wall, instant>>

(***************************************************************************)
(* One action per MetaAddrChange constructor.                              *)
(***************************************************************************)
\* An address from a peer's Addr message: deserialized by zcash_deserialize
\* with services from_bits_truncate and an arbitrary u32 last-seen time.
NewGossiped ==
    \E a \in Addrs, s \in ServiceBits, t \in WallTimes :
        Update(NewGossipedChange(a, s, t))

\* The canonical address in a peer's Version message.
NewAlternate ==
    \E a \in Addrs, s \in ServiceBits : Update(NewAlternateChange(a, s))

\* Our own listener address.
NewLocal ==
    \E a \in Addrs : Update(NewLocalChange(a))

\* An outbound connection attempt starts.
UpdateAttempt ==
    \E a \in Addrs : Update(NewReconnectChange(a))

\* A peer sent us a message; s are the services from its handshake.
UpdateResponded ==
    \E a \in Addrs, s \in ServiceBits : Update(NewRespondedChange(a, s))

\* A connection attempt or an open connection failed, or the peer shut down.
UpdateFailed ==
    \E a \in Addrs, s \in ServiceBits \cup {NoServices} :
        Update(NewErroredChange(a, s))

\* Time passes on the monotonic clock (bounded by MaxInstant).
InstantTick ==
    /\ instant < MaxInstant
    /\ instant' = instant + 1
    /\ UNCHANGED <<book, everState, wall>>

\* The wall clock is set to another value, forwards or backwards.
WallClockStep ==
    /\ wall' \in WallTimes \ {wall}
    /\ UNCHANGED <<book, everState, instant>>

Next ==
    \/ NewGossiped \/ NewAlternate \/ NewLocal
    \/ UpdateAttempt \/ UpdateResponded \/ UpdateFailed
    \/ InstantTick \/ WallClockStep

Spec == Init /\ [][Next]_vars

-----------------------------------------------------------------------------
(***************************************************************************)
(* Properties.                                                             *)
(***************************************************************************)

\* Spec invariants 2-4 (section 3): an entry that has ever been Responded,
\* AttemptPending or Failed has the matching time.  apply_to_meta_addr keeps
\* each local time with max, and Case A refuses to turn an attempted entry
\* back into a NeverAttempted one whose times are reset to None.
EverStateHasTime ==
    \A a \in Addrs : Known(a) =>
        /\ "Responded" \in everState[a] => book[a].last_response # NoTime
        /\ "AttemptPending" \in everState[a] => book[a].last_attempt # NoTime
        /\ "Failed" \in everState[a] => book[a].last_failure # NoTime

\* Spec invariant 6: no step moves any time of a stored entry backwards and no
\* entry disappears, although the wall clock steps back, gossip carries
\* arbitrary times and changes arrive in any order (meta_addr.rs:749-763).
TimesNeverDecrease ==
    [][\A a \in Addrs : Known(a) =>
          /\ Known(a)'
          /\ book'[a].untrusted_last_seen >= book[a].untrusted_last_seen
          /\ book'[a].last_response >= book[a].last_response
          /\ book'[a].last_attempt >= book[a].last_attempt
          /\ book'[a].last_failure >= book[a].last_failure]_vars

\* The security rule of apply_to_meta_addr (meta_addr.rs:709-718): once we
\* have attempted a peer, no later change makes it NeverAttempted again and
\* nothing rewrites its gossiped last-seen time, so gossip cannot move it in
\* the connection order.
AttemptedIgnoresGossip ==
    [][\A a \in Addrs :
          Known(a) /\ ~IsNeverAttempted(book[a].last_connection_state) =>
             /\ ~IsNeverAttempted(book'[a].last_connection_state)
             /\ book'[a].untrusted_last_seen = book[a].untrusted_last_seen]_vars

\* Spec property 5 (MetaAddr::sanitize): what we gossip about a stored entry
\* carries no local state, and its time is the entry's last-seen time rounded
\* down to a multiple of TIMESTAMP_TRUNCATION_SECONDS, never later than it and
\* less than one truncation interval earlier.
SanitizedLeaksNothing ==
    \A a \in Addrs : Known(a) =>
        LET m == book[a]
            g == Sanitize(m)
        IN  g # NoMetaAddr =>
              /\ g.last_connection_state = "NeverAttemptedGossiped"
              /\ g.last_response = NoTime /\ g.last_attempt = NoTime
              /\ g.last_failure = NoTime
              /\ g.untrusted_last_seen \in WallTimes
              /\ g.untrusted_last_seen % TruncationSecs = 0
              /\ g.untrusted_last_seen <= LastSeen(m)
              /\ LastSeen(m) < g.untrusted_last_seen + TruncationSecs

\* The comment on Case B of apply_to_meta_addr (meta_addr.rs:720-727) says a
\* NeverAttempted change to a NeverAttempted entry preserves the original
\* value of every field that is set, "so malicious peers can't keep changing
\* our peer connection order".  The state is a field and the first key of
\* that order.
NeverAttemptedOrderStable ==
    [][\A a \in Addrs :
          Known(a) /\ IsNeverAttempted(book[a].last_connection_state)
          /\ IsNeverAttempted(book'[a].last_connection_state) =>
             /\ book'[a].last_connection_state = book[a].last_connection_state
             /\ book'[a].services = book[a].services]_vars

\* The comment in is_active_for_gossip (meta_addr.rs:471-473) says last_seen
\* is never in the future "because we set the time" when it is our own
\* response time.  The response time is DateTime32::now() at the moment of
\* the response, so it is not later than the wall clock afterwards.
OwnResponseNotInFuture ==
    \A a \in Addrs : Known(a) => book[a].last_response <= wall

=============================================================================
