------------------------------ MODULE PeerDialer ------------------------------
(***************************************************************************)
(* The scheduler predicates of meta_addr.rs at work: a candidate set that  *)
(* dials a peer only when is_ready_for_connection_attempt holds, and the   *)
(* connection task that reports the handshake and the open connection to  *)
(* the address book with UpdateAttempt, UpdateResponded and UpdateFailed.  *)
(* The candidate set, the handshake, the heartbeat and the address book   *)
(* are not under src/; they are modelled from the spec (sections 1, 4.4,  *)
(* 5) and the comments on the constants (constants.rs:36-47): a handshake  *)
(* ends within HANDSHAKE_TIMEOUT, and an open connection hears from its    *)
(* peer at least once every MIN_PEER_RECONNECTION_DELAY or is closed.      *)
(*                                                                         *)
(* The changes are folded with apply_to_meta_addr exactly as AddressBook   *)
(* does.  In Spec the wall clock (DateTime32::now) and the monotonic clock *)
(* (Instant::now) advance together; SpecWithClockSteps also lets the wall *)
(* clock be set to another value, as NTP or an operator may do.            *)
(***************************************************************************)
EXTENDS MetaAddr

CONSTANT HandshakeTimeout    \* constants::HANDSHAKE_TIMEOUT

\* HANDSHAKE_TIMEOUT <= REQUEST_TIMEOUT <= MIN_PEER_RECONNECTION_DELAY
\* (constants.rs:199-211 and the sum at constants.rs:46-47).
ASSUME HandshakeTimeoutAssumption ==
    HandshakeTimeout \in Nat /\ HandshakeTimeout <= ReconnectionDelay

VARIABLES
    book,      \* Addrs -> MetaAddrRecs \cup {NoMetaAddr}
    conn,      \* Addrs -> {"none", "handshaking", "open"}: our connection task
    since,     \* Addrs -> Instants: start of the handshake, or last message
    wall,      \* DateTime32::now()
    instant    \* Instant::now()

vars == <<book, conn, since, wall, instant>>

ConnStates == {"none", "handshaking", "open"}

Known(a) == book[a] # NoMetaAddr

TypeOK ==
    /\ book \in [Addrs -> MetaAddrRecs \cup {NoMetaAddr}]
    /\ conn \in [Addrs -> ConnStates]
    /\ since \in [Addrs -> Instants]
    /\ wall \in WallTimes
    /\ instant \in Instants

Init ==
    /\ book = [a \in Addrs |-> NoMetaAddr]
    /\ conn = [a \in Addrs |-> "none"]
    /\ since = [a \in Addrs |-> 0]
    /\ wall \in WallTimes
    /\ instant = 0

\* AddressBook::update (spec_modelled): fold the change into the entry.
UpdateBook(c) ==
    LET next == ApplyToMetaAddr(c, book[c.addr], wall, instant) IN
    book' = IF next = NoMetaAddr THEN book ELSE [book EXCEPT ![c.addr] = next]

\* A peer gossips an address with an arbitrary last-seen time.
Gossip(a, s, t) ==
    /\ UpdateBook(NewGossipedChange(a, s, t))
    /\ UNCHANGED <<conn, since, wall, instant>>

\* CandidateSet::next: the address is ready for a connection attempt, and
\* the attempt is recorded (MetaAddr::new_reconnect) before the handshake.
\* The candidate set does not look at the connection tasks: readiness is
\* the only thing that keeps it from dialling a connected peer again.
Dial(a) ==
    /\ Known(a)
    /\ IsReadyForConnectionAttempt(book[a], wall, instant)
    /\ UpdateBook(NewReconnectChange(a))
    /\ conn' = [conn EXCEPT ![a] = "handshaking"]
    /\ since' = [since EXCEPT ![a] = instant]
    /\ UNCHANGED <<wall, instant>>

\* The handshake completes with the peer's services (new_responded).
HandshakeDone(a, s) ==
    /\ conn[a] = "handshaking"
    /\ UpdateBook(NewRespondedChange(a, s))
    /\ conn' = [conn EXCEPT ![a] = "open"]
    /\ since' = [since EXCEPT ![a] = instant]
    /\ UNCHANGED <<wall, instant>>

\* The handshake fails or times out (new_errored, no services known).
HandshakeFail(a) ==
    /\ conn[a] = "handshaking"
    /\ UpdateBook(NewErroredChange(a, NoServices))
    /\ conn' = [conn EXCEPT ![a] = "none"]
    /\ UNCHANGED <<since, wall, instant>>

\* A message arrives on the open connection (new_responded).
Message(a, s) ==
    /\ conn[a] = "open"
    /\ UpdateBook(NewRespondedChange(a, s))
    /\ since' = [since EXCEPT ![a] = instant]
    /\ UNCHANGED <<conn, wall, instant>>

\* The open connection fails, times out or shuts down (new_errored or
\* new_shutdown, with the services of the connection).
Close(a, s) ==
    /\ conn[a] = "open"
    /\ UpdateBook(NewErroredChange(a, s))
    /\ conn' = [conn EXCEPT ![a] = "none"]
    /\ UNCHANGED <<since, wall, instant>>

\* How long a connection task may stay in its phase before its timer fires.
Deadline(a) ==
    IF conn[a] = "handshaking" THEN HandshakeTimeout ELSE ReconnectionDelay

\* One second passes on both clocks.  Timers fire on time: no connection
\* task outlives its deadline (tokio timeouts around the handshake and the
\* heartbeat).
Tick ==
    /\ instant < MaxInstant /\ wall < MaxWall
    /\ \A a \in Addrs : conn[a] # "none" => instant + 1 - since[a] <= Deadline(a)
    /\ instant' = instant + 1
    /\ wall' = wall + 1
    /\ UNCHANGED <<book, conn, since>>

\* The wall clock is set to another value, forwards or backwards.
WallClockStep ==
    /\ wall' \in WallTimes \ {wall}
    /\ UNCHANGED <<book, conn, since, instant>>

Next ==
    \/ \E a \in Addrs, s \in ServiceBits, t \in WallTimes : Gossip(a, s, t)
    \/ \E a \in Addrs : Dial(a) \/ HandshakeFail(a)
    \/ \E a \in Addrs, s \in ServiceBits :
          HandshakeDone(a, s) \/ Message(a, s) \/ Close(a, s)
    \/ Tick

Spec == Init /\ [][Next]_vars

SpecWithClockSteps == Init /\ [][Next \/ WallClockStep]_vars

\* The handshake timeout always fires: a handshake in progress ends.
HandshakeEnds(a) == HandshakeFail(a) \/ \E s \in ServiceBits : HandshakeDone(a, s)

FairSpec == Spec /\ \A a \in Addrs : WF_vars(HandshakeEnds(a))

-----------------------------------------------------------------------------
(***************************************************************************)
(* Properties.                                                             *)
(***************************************************************************)

\* The comment on has_connection_recently_responded (meta_addr.rs:410-418)
\* and the reconnection delay (constants.rs:36-47): a peer we are
\* handshaking with or connected to is never ready for another connection
\* attempt, so the candidate set never dials it twice.  It rests on the
\* `<=` of the three recently-* predicates, on HANDSHAKE_TIMEOUT being at
\* most the delay, and on Case A keeping gossip off attempted entries.
InFlightNeverReady ==
    \A a \in Addrs :
        conn[a] # "none" =>
            Known(a) /\ ~IsReadyForConnectionAttempt(book[a], wall, instant)

\* The half of InFlightNeverReady that survives the wall clock being set: a
\* peer we are handshaking with is never ready for another attempt, even
\* when NTP or an operator moves DateTime32::now().  The attempt time and
\* the handshake timeout are both on the monotonic clock (Instant), and
\* was_connection_recently_attempted compares them with `<=`
\* (meta_addr.rs:436-446), so a handshake of HANDSHAKE_TIMEOUT <=
\* MIN_PEER_RECONNECTION_DELAY ends before its attempt stops counting.
HandshakeNeverReady ==
    \A a \in Addrs :
        conn[a] = "handshaking" =>
            Known(a) /\ ~IsReadyForConnectionAttempt(book[a], wall, instant)

\* Every connection attempt is resolved in the address book: an entry in
\* AttemptPending leaves it once the handshake ends, because the
\* UpdateResponded or UpdateFailed change overwrites the state (Case C).
AttemptResolves ==
    \A a \in Addrs :
        (Known(a) /\ book[a].last_connection_state = "AttemptPending")
            ~> (Known(a) /\ book[a].last_connection_state # "AttemptPending")

=============================================================================
