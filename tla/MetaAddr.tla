------------------------------- MODULE MetaAddr -------------------------------
(***************************************************************************)
(* The peer address record of zebra-network (src/meta_addr.rs) and the     *)
(* pure functions over it: the MetaAddrChange accessors, the change-       *)
(* application fold apply_to_meta_addr, the scheduler predicates and the   *)
(* gossip sanitizer.  No variables: the modules that compose these         *)
(* functions into a state machine EXTEND this one.                         *)
(*                                                                         *)
(* Data abstraction.                                                       *)
(*  - A SocketAddr is a record [ip |-> <<family, host>>, port |-> p]; the  *)
(*    unspecified IP (0.0.0.0 or ::) is host 0.                            *)
(*  - PeerServices is a natural number; only bit 0 (NODE_NETWORK) is read. *)
(*  - Option<DateTime32> and Option<Instant> are integers with None = -1.  *)
(*    Rust orders None below every Some, so Option::max is integer max.    *)
(*  - Option<PeerServices> is ServiceBits \cup {NoServices}.               *)
(*  - Option<MetaAddr> is MetaAddrRecs \cup {NoMetaAddr}.                  *)
(*  - DateTime32::now() and Instant::now() are read when the accessor is   *)
(*    called, so each accessor takes the clock reading as a parameter.     *)
(***************************************************************************)
EXTENDS Integers

CONSTANTS
    Addrs,           \* canonical socket addresses the model talks about
    ServiceBits,     \* PeerServices bit patterns the model uses
    MaxWall,         \* largest DateTime32 value (seconds) in the model
    MaxInstant,      \* largest Instant value (ticks) in the model
    ReconnectionDelay,   \* constants::MIN_PEER_RECONNECTION_DELAY
    ActiveForGossip,     \* constants::MAX_PEER_ACTIVE_FOR_GOSSIP
    TruncationSecs,      \* constants::TIMESTAMP_TRUNCATION_SECONDS
    NoMetaAddr       \* Option<MetaAddr>::None

\* PeerServices::NODE_NETWORK, the only service bit Zebra interprets.
NodeNetwork == 1

\* Option::None for the optional time and services fields.
NoTime == -1
NoServices == -1

\* DateTime32 is a u32 count of seconds; Instant is an abstract tick count.
WallTimes == 0..MaxWall
Instants == 0..MaxInstant
OptWallTimes == WallTimes \cup {NoTime}
OptInstants == Instants \cup {NoTime}

ASSUME ConstantsAssumption ==
    /\ MaxWall \in Nat     \* a u32 in the code; the model stays far below 2^32
    /\ MaxInstant \in Nat
    /\ ReconnectionDelay \in Nat
    /\ ActiveForGossip \in Nat
    /\ TruncationSecs \in Nat \ {0}
    /\ ServiceBits \subseteq Nat /\ NodeNetwork \in ServiceBits
    /\ Addrs \subseteq [ip : {4, 6} \X Nat, port : Nat]

PeerAddrStates ==
    {"Responded", "NeverAttemptedGossiped", "NeverAttemptedAlternate",
     "Failed", "AttemptPending"}

\* PeerAddrState::is_never_attempted
IsNeverAttempted(s) == s \in {"NeverAttemptedGossiped", "NeverAttemptedAlternate"}

\* struct MetaAddr
MetaAddrRecs ==
    [addr : Addrs, services : ServiceBits,
     untrusted_last_seen : OptWallTimes, last_response : OptWallTimes,
     last_attempt : OptInstants, last_failure : OptInstants,
     last_connection_state : PeerAddrStates]

ASSUME NoMetaAddrAssumption == NoMetaAddr \notin MetaAddrRecs

\* enum MetaAddrChange: one record shape for the six variants; the fields a
\* variant does not carry are left at NoServices / NoTime.
ChangeKinds ==
    {"NewGossiped", "NewAlternate", "NewLocal",
     "UpdateAttempt", "UpdateResponded", "UpdateFailed"}

Changes ==
    [kind : ChangeKinds, addr : Addrs,
     services : ServiceBits \cup {NoServices}, last_seen : OptWallTimes]

\* Integer max, which is Option::max under the None = -1 encoding.
OptMax(a, b) == IF a >= b THEN a ELSE b

(***************************************************************************)
(* The change constructors of impl MetaAddr.                               *)
(***************************************************************************)
\* new_gossiped_meta_addr(..).new_gossiped_change()
NewGossipedChange(a, s, t) ==
    [kind |-> "NewGossiped", addr |-> a, services |-> s, last_seen |-> t]

\* new_alternate
NewAlternateChange(a, s) ==
    [kind |-> "NewAlternate", addr |-> a, services |-> s, last_seen |-> NoTime]

\* new_local_listener_change
NewLocalChange(a) ==
    [kind |-> "NewLocal", addr |-> a, services |-> NoServices, last_seen |-> NoTime]

\* new_reconnect
NewReconnectChange(a) ==
    [kind |-> "UpdateAttempt", addr |-> a, services |-> NoServices, last_seen |-> NoTime]

\* new_responded
NewRespondedChange(a, s) ==
    [kind |-> "UpdateResponded", addr |-> a, services |-> s, last_seen |-> NoTime]

\* new_errored, and new_shutdown, which calls it; s may be NoServices
NewErroredChange(a, s) ==
    [kind |-> "UpdateFailed", addr |-> a, services |-> s, last_seen |-> NoTime]

\* Every change the constructors above can build.
ConstructibleChanges ==
    UNION {{NewGossipedChange(a, s, t) : s \in ServiceBits, t \in WallTimes}
           \cup {NewAlternateChange(a, s) : s \in ServiceBits}
           \cup {NewLocalChange(a), NewReconnectChange(a)}
           \cup {NewRespondedChange(a, s) : s \in ServiceBits}
           \cup {NewErroredChange(a, s) : s \in ServiceBits \cup {NoServices}}
           : a \in Addrs}

(***************************************************************************)
(* The accessors of impl MetaAddrChange.  `wall` is DateTime32::now() and  *)
(* `inst` is Instant::now() at the moment the accessor runs.               *)
(***************************************************************************)
\* MetaAddrChange::untrusted_services
UntrustedServices(c) ==
    CASE c.kind \in {"NewGossiped", "NewAlternate", "UpdateResponded", "UpdateFailed"}
            -> c.services
      [] c.kind = "NewLocal" -> NodeNetwork
      [] c.kind = "UpdateAttempt" -> NoServices

\* MetaAddrChange::untrusted_last_seen
ChangeUntrustedLastSeen(c, wall) ==
    CASE c.kind = "NewGossiped" -> c.last_seen
      [] c.kind = "NewLocal" -> wall
      [] OTHER -> NoTime

\* MetaAddrChange::last_attempt
ChangeLastAttempt(c, inst) == IF c.kind = "UpdateAttempt" THEN inst ELSE NoTime

\* MetaAddrChange::last_response
ChangeLastResponse(c, wall) == IF c.kind = "UpdateResponded" THEN wall ELSE NoTime

\* MetaAddrChange::last_failure
ChangeLastFailure(c, inst) == IF c.kind = "UpdateFailed" THEN inst ELSE NoTime

\* MetaAddrChange::peer_addr_state
ChangePeerAddrState(c) ==
    CASE c.kind \in {"NewGossiped", "NewLocal"} -> "NeverAttemptedGossiped"
      [] c.kind = "NewAlternate" -> "NeverAttemptedAlternate"
      [] c.kind = "UpdateAttempt" -> "AttemptPending"
      [] c.kind = "UpdateResponded" -> "Responded"
      [] c.kind = "UpdateFailed" -> "Failed"

IsNewChange(c) == c.kind \in {"NewGossiped", "NewAlternate", "NewLocal"}

\* change_to_never_attempted in apply_to_meta_addr:
\* into_new_meta_addr().map(|m| m.last_connection_state.is_never_attempted())
ChangeToNeverAttempted(c) == IsNewChange(c) /\ IsNeverAttempted(ChangePeerAddrState(c))

\* MetaAddrChange::into_new_meta_addr
IntoNewMetaAddr(c, wall) ==
    IF IsNewChange(c)
    THEN [addr |-> c.addr,
          services |-> UntrustedServices(c),
          untrusted_last_seen |-> ChangeUntrustedLastSeen(c, wall),
          last_response |-> NoTime, last_attempt |-> NoTime, last_failure |-> NoTime,
          last_connection_state |-> ChangePeerAddrState(c)]
    ELSE NoMetaAddr

\* Case B of apply_to_meta_addr: both the entry and the change are
\* NeverAttempted.  Keep the previous services and last seen time (fill in a
\* missing last seen time), take the change's state.
MergeNeverAttempted(c, prev, wall) ==
    [addr |-> c.addr,
     services |-> prev.services,
     untrusted_last_seen |->
        IF prev.untrusted_last_seen # NoTime THEN prev.untrusted_last_seen
        ELSE ChangeUntrustedLastSeen(c, wall),
     last_response |-> NoTime, last_attempt |-> NoTime, last_failure |-> NoTime,
     last_connection_state |-> ChangePeerAddrState(c)]

(***************************************************************************)
(* Plausible faults in apply_to_meta_addr and sanitize.  Each one replaces *)
(* the definition that follows it in a mutation run, to show that a        *)
(* property of AddressBook depends on the code it is about.                *)
(***************************************************************************)
\* Case C taking only the change's attempt time, without max.
MergeUpdateAttemptNoMax(c, prev, wall, inst) ==
    [addr |-> c.addr,
     services |-> IF UntrustedServices(c) # NoServices THEN UntrustedServices(c)
                  ELSE prev.services,
     untrusted_last_seen |-> prev.untrusted_last_seen,
     last_response |-> OptMax(ChangeLastResponse(c, wall), prev.last_response),
     last_attempt |-> ChangeLastAttempt(c, inst),
     last_failure |-> OptMax(ChangeLastFailure(c, inst), prev.last_failure),
     last_connection_state |-> ChangePeerAddrState(c)]

\* Case C letting the latest applied response time win instead of the max.
MergeUpdateLatestResponse(c, prev, wall, inst) ==
    [addr |-> c.addr,
     services |-> IF UntrustedServices(c) # NoServices THEN UntrustedServices(c)
                  ELSE prev.services,
     untrusted_last_seen |-> prev.untrusted_last_seen,
     last_response |-> IF ChangeLastResponse(c, wall) # NoTime
                       THEN ChangeLastResponse(c, wall) ELSE prev.last_response,
     last_attempt |-> OptMax(ChangeLastAttempt(c, inst), prev.last_attempt),
     last_failure |-> OptMax(ChangeLastFailure(c, inst), prev.last_failure),
     last_connection_state |-> ChangePeerAddrState(c)]

\* Case C keeping an AttemptPending state, as if the state were merged with
\* max like the times (AttemptPending is the greatest PeerAddrState).
MergeUpdateKeepsPending(c, prev, wall, inst) ==
    [addr |-> c.addr,
     services |-> IF UntrustedServices(c) # NoServices THEN UntrustedServices(c)
                  ELSE prev.services,
     untrusted_last_seen |-> prev.untrusted_last_seen,
     last_response |-> OptMax(ChangeLastResponse(c, wall), prev.last_response),
     last_attempt |-> OptMax(ChangeLastAttempt(c, inst), prev.last_attempt),
     last_failure |-> OptMax(ChangeLastFailure(c, inst), prev.last_failure),
     last_connection_state |->
        IF prev.last_connection_state = "AttemptPending" THEN "AttemptPending"
        ELSE ChangePeerAddrState(c)]

\* Case C of apply_to_meta_addr: an Attempt, Responded or Failed change.
\* Take the change's services if it has any, keep the gossiped last seen
\* time, and take the later of each local time.
MergeUpdate(c, prev, wall, inst) ==
    [addr |-> c.addr,
     services |-> IF UntrustedServices(c) # NoServices THEN UntrustedServices(c)
                  ELSE prev.services,
     untrusted_last_seen |-> prev.untrusted_last_seen,
     last_response |-> OptMax(ChangeLastResponse(c, wall), prev.last_response),
     last_attempt |-> OptMax(ChangeLastAttempt(c, inst), prev.last_attempt),
     last_failure |-> OptMax(ChangeLastFailure(c, inst), prev.last_failure),
     last_connection_state |-> ChangePeerAddrState(c)]

\* apply_to_meta_addr without Case A: NeverAttempted changes are merged into
\* attempted entries too.
ApplyToMetaAddrNoCaseA(c, prev, wall, inst) ==
    IF prev = NoMetaAddr THEN IntoNewMetaAddr(c, wall)
    ELSE IF ChangeToNeverAttempted(c)
         THEN MergeNeverAttempted(c, prev, wall)
         ELSE MergeUpdate(c, prev, wall, inst)

\* MetaAddrChange::apply_to_meta_addr.  The assert_eq on the address is a
\* precondition: every caller passes the entry stored under c.addr.
ApplyToMetaAddr(c, prev, wall, inst) ==
    IF prev = NoMetaAddr THEN IntoNewMetaAddr(c, wall)
    ELSE IF ChangeToNeverAttempted(c)
         THEN IF ~IsNeverAttempted(prev.last_connection_state)
              THEN NoMetaAddr
              ELSE MergeNeverAttempted(c, prev, wall)
         ELSE MergeUpdate(c, prev, wall, inst)

(***************************************************************************)
(* Queries over a record.                                                  *)
(***************************************************************************)
\* DateTime32::saturating_elapsed (zebra-chain): now - t, or 0 if t is later.
SaturatingElapsed(t, wall) == IF wall >= t THEN wall - t ELSE 0

\* MetaAddr::last_seen: last_response.or(untrusted_last_seen)
LastSeen(m) ==
    IF m.last_response # NoTime THEN m.last_response ELSE m.untrusted_last_seen

\* has_connection_recently_responded with `<` for `<=`: a response exactly
\* MIN_PEER_RECONNECTION_DELAY ago no longer counts as recent.
HasConnectionRecentlyRespondedStrict(m, wall) ==
    /\ m.last_response # NoTime
    /\ SaturatingElapsed(m.last_response, wall) < ReconnectionDelay

\* MetaAddr::has_connection_recently_responded
HasConnectionRecentlyResponded(m, wall) ==
    /\ m.last_response # NoTime
    /\ SaturatingElapsed(m.last_response, wall) <= ReconnectionDelay

\* was_connection_recently_attempted with `<` for `<=`: an attempt exactly
\* MIN_PEER_RECONNECTION_DELAY ago no longer counts as recent.
WasConnectionRecentlyAttemptedStrict(m, inst) ==
    /\ m.last_attempt # NoTime
    /\ SaturatingElapsed(m.last_attempt, inst) < ReconnectionDelay

\* MetaAddr::was_connection_recently_attempted (Instant::elapsed)
WasConnectionRecentlyAttempted(m, inst) ==
    /\ m.last_attempt # NoTime
    /\ SaturatingElapsed(m.last_attempt, inst) <= ReconnectionDelay

\* MetaAddr::has_connection_recently_failed
HasConnectionRecentlyFailed(m, inst) ==
    /\ m.last_failure # NoTime
    /\ SaturatingElapsed(m.last_failure, inst) <= ReconnectionDelay

\* MetaAddr::is_active_for_gossip
IsActiveForGossip(m, wall) ==
    /\ LastSeen(m) # NoTime
    /\ SaturatingElapsed(LastSeen(m), wall) <= ActiveForGossip

\* MetaAddr::address_is_valid_for_outbound
AddressIsValidForOutbound(m) == m.addr.ip[2] # 0 /\ m.addr.port # 0

\* MetaAddr::last_known_info_is_valid_for_outbound
LastKnownInfoIsValidForOutbound(m) ==
    m.services % 2 = NodeNetwork /\ AddressIsValidForOutbound(m)

\* MetaAddr::is_ready_for_connection_attempt
IsReadyForConnectionAttempt(m, wall, inst) ==
    /\ LastKnownInfoIsValidForOutbound(m)
    /\ ~HasConnectionRecentlyResponded(m, wall)
    /\ ~WasConnectionRecentlyAttempted(m, inst)
    /\ ~HasConnectionRecentlyFailed(m, inst)

\* sanitize with the or() of last_seen swapped: the gossiped time is
\* preferred to our own last response time.
SanitizeUntrustedFirst(m) ==
    LET seen == IF m.untrusted_last_seen # NoTime THEN m.untrusted_last_seen
                ELSE m.last_response
    IN  IF ~LastKnownInfoIsValidForOutbound(m) \/ seen = NoTime
        THEN NoMetaAddr
        ELSE [addr |-> m.addr, services |-> m.services,
              untrusted_last_seen |-> seen - (seen % TruncationSecs),
              last_response |-> NoTime, last_attempt |-> NoTime, last_failure |-> NoTime,
              last_connection_state |-> "NeverAttemptedGossiped"]

\* MetaAddr::sanitize: the form of a record gossiped to other peers.
Sanitize(m) ==
    IF ~LastKnownInfoIsValidForOutbound(m) \/ LastSeen(m) = NoTime
    THEN NoMetaAddr
    ELSE [addr |-> m.addr,
          services |-> m.services,
          untrusted_last_seen |-> LastSeen(m) - (LastSeen(m) % TruncationSecs),
          last_response |-> NoTime, last_attempt |-> NoTime, last_failure |-> NoTime,
          last_connection_state |-> "NeverAttemptedGossiped"]

=============================================================================
