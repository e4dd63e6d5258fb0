# TLA+ verification of zebra-network's peer address core

This directory models `src/zebra-network/src/meta_addr.rs` and
`src/zebra-network/src/constants.rs`. `meta_addr.rs` holds the peer address
record (`MetaAddr`), the change events (`MetaAddrChange`) and the rules that fold
a change into a record. The project has TLA+ modules, TLC runs on small
instances, and TLAPS proofs that hold for every value of the constants.

## 1. Inventory

### Components

| Component | Source | State | Operations |
|---|---|---|---|
| `PeerAddrState` | meta_addr.rs:36-120 | five-valued tag | `is_never_attempted`, `Ord` (reconnection priority of states) |
| `MetaAddr` record | meta_addr.rs:122-184 | addr, services, `untrusted_last_seen`, `last_response` (wall-clock `DateTime32`), `last_attempt`, `last_failure` (monotonic `Instant`), `last_connection_state` | constructors, `last_seen`, recently-responded/attempted/failed predicates, `is_active_for_gossip`, outbound validity, `is_ready_for_connection_attempt`, `sanitize` |
| `MetaAddrChange` | meta_addr.rs:186-251, 552-693 | six variants, each carrying only its own fields | accessors for services, times and implied state; `into_new_meta_addr` |
| Change application | meta_addr.rs:695-771 | pure: `Option<MetaAddr>` in, `Option<MetaAddr>` out | `apply_to_meta_addr`, which has three cases: A rejects, B merges, C updates |
| Record order | meta_addr.rs:774-877 | pure | `Ord for MetaAddr`: state, attempt, failure, response, gossiped time (reversed), services, IP, port |
| Wire codec | meta_addr.rs:879-913 | pure | 30-byte serialization, deserialization into a `NeverAttemptedGossiped` record, the preallocation bound |
| Policy constants | constants.rs | none | timeouts, reconnection delay, gossip window, truncation interval, the unit tests' relations |
| Address book (not under src/) | spec §3, §5, §7 | one entry per canonical address | `update`: fold a change into the stored entry and keep a `Some` result |
| Candidate set and connection tasks (not under src/) | spec §1, §4.4; constants.rs:26-47 | one connection task per address | dial a ready address (`new_reconnect`), end the handshake (`new_responded` / `new_errored`) within `HANDSHAKE_TIMEOUT`, report messages, close within `MIN_PEER_RECONNECTION_DELAY` of the last message |

### How the components interact

The core has no threads and no locks. Several tasks outside it build changes:
the gossip crawler (`NewGossiped`, deserialized from `Addr` messages), the
handshake (`NewAlternate`, `UpdateResponded`), the listener (`NewLocal`), the
candidate set (`UpdateAttempt`) and the connection tasks (`UpdateFailed`, and
`new_shutdown`, which builds the same change). The address book applies
these changes one at a time, in whatever order they arrive (comment at
meta_addr.rs:810). The change's times are read from the clocks at the moment
the change is applied, not when it is built (meta_addr.rs:607, 623, 641, 659):

- `DateTime32::now()` is a wall clock and can step backwards;
- `Instant::now()` is monotonic.

The candidate set reads records through the scheduler predicates and the
order. The gossip responder reads them through `sanitize`.

### What is hard

- **Ordering.** Changes from different tasks interleave arbitrarily. The state
  is overwritten by the last change applied, while the times must only move
  forward (`max`, meta_addr.rs:758-763).
- **Adversarial input.** The gossiped services and last-seen time are chosen
  by a remote peer, and the time may be in the future. Case A
  (meta_addr.rs:709-718) and Case B (719-741) exist to stop gossip from
  reordering the dial queue.
- **Clock skew.** The wall clock moves backwards. The code treats future
  times as recent, and it relies on `max` to keep `last_response` from
  regressing.
- **Privacy.** `sanitize` must not leak local state, and it truncates times to
  30 minutes (meta_addr.rs:511-539).
- **Boundaries.** The `<=` comparisons of the reconnection delay, truncation at
  multiples of the interval, and the preallocation bound.

### What makes each component correct

- **Change application.** Times never move backwards. An entry that has ever
  been `Responded`, `AttemptPending` or `Failed` keeps the matching time. A
  never-attempted entry has no local times. Gossip cannot touch an attempted
  entry. According to the comments and the spec, gossip also cannot change the
  position of a never-attempted entry, and changes commute on times.
- **`sanitize`.** Its output is `None` or a `NeverAttemptedGossiped` record
  with no local times, whose time is the last-seen time rounded down to a
  multiple of the truncation interval.
- **Order.** It is a strict total order over records with distinct addresses,
  and local times are compared before untrusted ones.
- **Scheduler predicates.** A peer is never ready within the reconnection
  delay of an attempt, a response or a failure.
- **Constants.** `MIN_PEER_RECONNECTION_DELAY` equals the heartbeat plus three
  request timeouts. The handshake timeout is no longer than the request
  timeout. The preallocation bound fits one message.

## 2. Modules

| Module | Models | Contents |
|---|---|---|
| `MetaAddr.tla` | meta_addr.rs (pure part) | Constants, the record and change types, constructors, accessors, `ApplyToMetaAddr` (with `MergeNeverAttempted` for Case B and `MergeUpdate` for Case C), the predicates and `Sanitize`. No variables. It also defines the fault variants that the mutation runs substitute. |
| `AddressBook.tla` | the address book's `update` (spec-modelled) composed with all six change kinds | Variables `book` (address to entry or `NoMetaAddr`), `everState` (a history variable: every state an entry has had), `wall`, `instant`. There is one action per change constructor, plus `InstantTick` and `WallClockStep`. |
| `MetaAddrConvergence.tla` | spec §5 and property 4 | Two books apply the same two changes in opposite orders at the same clock readings. |
| `ZebraConstants.tla` | constants.rs, `max_allocation` | The real constants, with ASSUMEs for the unit-test relations and the preallocation bound. |
| `MetaAddrOrder.tla` | meta_addr.rs:88-119, 774-877 | `StateCmp` (the match arms of `Ord for PeerAddrState` in order), `CmpInt` (`Option::cmp`, `None = -1` first), `Then` (`Ordering::then`), `IpCmp`, `MetaAddrCmp` (the eight `let`s of `MetaAddr::cmp` chained with `Then`), `MetaAddrEq`, `MetaAddrLt`. It also has a reference order written from the spec's key list (§4.6): `SortKey` is a 9-tuple compared by `LexLess`. |
| `PeerDialer.tla` | the candidate set and connection tasks (spec-modelled), driven by `is_ready_for_connection_attempt` | Variables `book`, `conn` (`none` / `handshaking` / `open` per address), `since` (the instant the current handshake started or the last message arrived), `wall`, `instant`. Actions: `Gossip`, `Dial`, `HandshakeDone`, `HandshakeFail`, `Message`, `Close`, `Tick` (both clocks advance by one; guarded so that no task outlives its deadline) and, in `SpecWithClockSteps` only, `WallClockStep`. |
| `MCAddressBook.tla`, `MCMetaAddrConvergence.tla`, `MCMetaAddrOrder.tla`, `MCPeerDialer.tla` | | Small instances for TLC. `MCMetaAddrOrder` has two variables, `lhs` and `rhs`, which range over every pair of records. |
| `MetaAddrLemmas.tla` | | Lemmas about the constructors and `apply_to_meta_addr`, shared by the proof modules. |
| `AddressBookProofs.tla`, `MetaAddrOrderProofs.tla`, `PeerDialerProofs.tla` | | TLAPS proofs. |

### Abstractions

- An `Option` time is an integer, with `None = -1`. Rust orders `None` below
  every `Some`, so `Option::max` becomes integer max.
- A `SocketAddr` is `[ip |-> <<family, host>>, port |-> p]`, where host 0 is
  the unspecified address.
- Services are a natural number; the model tests NODE_NETWORK as the low bit.
- `Option<MetaAddr>` is a record or the model value `NoMetaAddr`.
- The `assert_eq` on the address (meta_addr.rs:701) is a precondition that
  `Update` always meets, because it passes the entry stored under the change's
  address.
- `set_addr`, `set_last_response` and `Default` are test-only code and are
  not modelled.

## 3. Runs

| Run | Config | Expect | What it shows |
|---|---|---|---|
| `address_book_safety` | `MCAddressBook.cfg` | pass | `EverStateHasTime`, `SanitizedLeaksNothing`, `TimesNeverDecrease`, `AttemptedIgnoresGossip` hold in all 20,196 states. |
| `never_attempted_churn` | `MCAddressBookChurn.cfg` | violation | `NewGossiped` followed by `NewAlternate` moves a never-attempted entry from `NeverAttemptedGossiped` to `NeverAttemptedAlternate`. |
| `change_convergence` | `MCMetaAddrConvergence.cfg` | violation | `UpdateAttempt; NewLocal` and `NewLocal; UpdateAttempt` applied to an empty book end with different `last_attempt`. |
| `order_reference` | `MCMetaAddrOrder.cfg` | pass | `CmpMatchesReference`: `MetaAddrCmp` equals the reference comparison on all 409,600 ordered pairs of records. The records use four addresses (v4 and v6, two hosts, two ports), services `{0, 1}`, every state, and every time in `{None, 0}`. |
| `dialer` | `MCPeerDialer.cfg` | pass | `InFlightNeverReady` holds over 5,816 states: no peer being handshaked or connected is ready for another attempt. `AttemptResolves` holds under `FairSpec`: every `AttemptPending` entry leaves that state. |
| `dialer_clock_step` | `MCPeerDialerClockStep.cfg` | violation | `InFlightNeverReady` fails under `SpecWithClockSteps`. After a handshake, a one-second forward step of the wall clock, with the connection still open, makes the peer ready. |
| `dialer_handshake_clock_step` | `MCPeerDialerHandshake.cfg` | pass | `HandshakeNeverReady` holds under `SpecWithClockSteps` over 65,947 states: whatever the wall clock does, a peer being handshaked is never ready for another attempt. Here the handshake timeout equals the reconnection delay (2), so a handshake can last exactly as long as its attempt counts as recent. |
| `own_response_future` | `MCAddressBookFutureSeen.cfg` | violation | `OwnResponseNotInFuture` fails. After `UpdateResponded`, a backward wall-clock step leaves `last_response` in the future. |

**Bounds.** There is one valid address; entries never interact, so every
property is per address.

- Services are `{0, 1}`, with and without NODE_NETWORK.
- The wall clock ranges over 0..3 with truncation interval 2, so `sanitize`
  rounds down and a response can be a whole interval later than the gossiped
  time.
- The monotonic clock ranges over 0..2.
- A gossiped time can be any wall value, including future ones, and the wall
  clock may jump to any value.

The dialer instance has one address with NODE_NETWORK. The reconnection
delay is 2 and the handshake timeout is 1. The monotonic clock ranges over
0..5. These bounds let a connection sit exactly at its deadline, where the
`<=` of the recently-* predicates decides readiness. They also let a peer be
redialled after its delay runs out.

The order instance puts `None` and `Some(0)` in every time field. Within one
field, that is all `Option::cmp` can tell apart.

These bounds reach every case of `apply_to_meta_addr`: creation, rejection of
an update on `None`, Case A, Case B with and without a gossiped time, and
Case C with and without services. They also reach a wall clock that steps
back between two responses.

**Mutants.** Each property of the passing run fails under one plausible fault
in the code it is about:

| Property | Fault |
|---|---|
| `EverStateHasTime` | Case C drops the `max` on `last_attempt`. |
| `TimesNeverDecrease` | The latest response time overwrites instead of taking `max`; this only fails when the wall clock steps back. |
| `AttemptedIgnoresGossip` | Case A is removed. |
| `SanitizedLeaksNothing` | The `or` in `last_seen` is swapped. |
| `CmpMatchesReference` | `newer_untrusted_last_seen` loses its `.reverse()`. |
| `InFlightNeverReady` | `has_connection_recently_responded` uses `<` instead of `<=`. |
| `HandshakeNeverReady` | `was_connection_recently_attempted` uses `<` instead of `<=`. A handshake at its timeout then no longer counts as a recent attempt. |
| `AttemptResolves` | Case C keeps an `AttemptPending` state, as if the state were merged with `max`. |

The type invariants (`TypeOK` of `AddressBook` and `PeerDialer`) are not
run properties. Rust's types already rule out every fault that could break
them, so no mutant of the code can. They are proved instead: `TypeCorrect`,
and the first conjunct of the dialer's `IInv`.

**Fairness.** `FairSpec` assumes weak fairness of `HandshakeEnds(a)`:
`HandshakeFail(a)` or `HandshakeDone(a, s)`. Every handshake is wrapped in a
tokio timeout of `HANDSHAKE_TIMEOUT`, so a handshake that has started is
continuously able to end, and it does end. No other action is assumed fair.
The candidate set may never dial, gossip may stop, and time may stop at the
bound. `AttemptResolves` needs only the handshake's end: the `Responded` or
`Failed` change overwrites `AttemptPending` (Case C) whatever else happens.
Liveness is checked without symmetry.

## 4. Findings

1. **Never-attempted churn** (meta_addr.rs:739). The comment on Case B says
   every field is preserved "so malicious peers can't keep changing our peer
   connection order". The code instead takes the change's state. A peer that
   alternately gossips an address and advertises it as its Version address
   flips the entry between the second and third priority class. The spec
   (§4.3 Case B) describes the code's behaviour, so the comment and the code
   disagree.
2. **Change application does not commute** (meta_addr.rs:767-769 and 718).
   Spec §5 and testable property 4 say that application commutes on the time
   fields and that observations converge. It does not: an update is dropped
   when no entry exists yet, and gossip is dropped after an attempt but merged
   before one.
3. **Wall-clock readiness of a live connection** (meta_addr.rs:421). The
   comment at lines 413-418 reasons that a peer whose last response is older
   than `MIN_PEER_RECONNECTION_DELAY` must have been disconnected. The
   heartbeat that enforces this runs on the monotonic clock, but
   `last_response` is measured on the wall clock. A forward wall-clock step
   therefore makes `is_ready_for_connection_attempt` true for a peer we are
   still connected to, so the candidate set may open a second connection to
   it. The attempt and failure times are `Instant`s and are not affected.
4. **Own response time in the future** (meta_addr.rs:641, 471-473). The
   comment says `last_seen` is never in the future when we set the time. But
   `last_response` is `DateTime32::now()` at the response, and a backward
   wall-clock step puts it in the future. `is_active_for_gossip` and
   `has_connection_recently_responded` then treat the entry as fresh until
   the wall clock catches up.

## 5. Proofs (all obligations checked by tlapm)

### `AddressBookProofs.tla`

- `TypeCorrect`: `Spec => []TypeOK`, used by the proofs below.
- `HistoryInvariant`: `Spec => []IInv`.
- `EverStateHasTimeHolds`: `Spec => []EverStateHasTime`.
- `TimesMonotone`: `Spec => TimesNeverDecrease`, an action property proved
  from `IInv`.
- `AttemptedIgnoresGossipHolds`: `Spec => AttemptedIgnoresGossip`, an action
  property proved from `TypeOK` alone. `NextIsUpdate` says that every step
  folds one well-formed change or leaves the book alone.
  `ApplyKeepsAttempted` (in `MetaAddrLemmas`) says that on an attempted entry
  Case A returns `None`, and Case C returns the change's state, which is
  never NeverAttempted for an update change, and keeps the gossiped time.
- `SanitizedLeaksNothingHolds`: `Spec => []SanitizedLeaksNothing`, from
  `TypeOK`. This is a fact about `sanitize` of any record (`SanitizeShape`),
  and it rests on `TruncateBounds`: for `x \in Nat` and `k > 0`,
  `x - x % k` lies in `0..x`, is a multiple of `k`, and is more than
  `x - k`. The `checked_sub` in `sanitize` therefore never fails, for every
  truncation interval.

**Assumptions.** `ConstantsAssumption` (the bounds are naturals, truncation is
positive, NODE_NETWORK is a service value) and `NoMetaAddrAssumption`
(`NoMetaAddr` is not a record).

**Why `EverStateHasTime` needs strengthening.** It is not inductive on its
own: Case B resets the local times to `None`, and nothing in
`EverStateHasTime` stops that from happening to an entry that was once
`Responded`. The strengthening `IInv` adds `EntryInv`: a never-attempted entry
has only ever been in never-attempted states and has no local times. `IInv` is
inductive because Case A refuses every never-attempted change to an attempted
entry. The proof's lemmas follow the code's structure:

- `ApplyType`: what `apply_to_meta_addr` returns is well typed;
- `ApplyEntryInv`: each of creation, Case B and Case C preserves `EntryInv`;
- `ApplyMonotone`: Case B only fills in a missing gossiped time, and Case C
  takes maxima;
- `UpdateIInv` and `UpdateMonotone`: the address book's update step preserves
  `IInv` and moves no time backwards.

### `MetaAddrOrderProofs.tla`

- `MetaAddrCmpIsReference`: for all records `m` and `n`, `MetaAddrCmp(m, n)`
  equals `RefCmp(m, n)`.
- `MetaAddrCmpAntisymmetric`: `MetaAddrCmp(m, n) = -MetaAddrCmp(n, m)`.
- `MetaAddrEqIsEquality`: `MetaAddrEq(m, n) <=> m = n`.
- `MetaAddrLtTransitive`: the strict order is transitive.
- `OrderRunMatchesReference`: `Spec => []CmpMatchesReference` for the
  order run's specification, via the type invariant of `lhs` and `rhs`.

**The argument.**

1. `CmpOverKeys` rewrites `MetaAddrCmp(m, n)` as `KeyCmp(SortKey(m),
   SortKey(n))`, a `Then` chain over the nine components of the key.
   `StateCmpIsRankCmp` shows that the match arms of `Ord for PeerAddrState`
   compare the state's rank. The reversed gossiped time is the comparison of
   the negated time. `IpCmp` is the comparison of family, then host.
2. Three generic lemmas about one `Then` link lift the properties of
   `CmpInt` through the chain: `ThenAntisymmetric`, `ThenEqual` and
   `ThenTransOK`. `ThenLess` and `PrefixStep` relate a prefix of the chain
   to `LexLess`.
3. Each chain lemma names the nine prefixes (`DEFINE`), hides them, and takes
   one step per prefix. Expanding the whole nested chain at once is too large
   for the provers.
4. `SortKeyInjective` and `RecordsEqualByFields` turn equal keys into equal
   records; that gives `MetaAddrEqIsEquality`.

**Assumptions.** `ConstantsAssumption`, and that services are naturals, so
every key component is an integer.

### `PeerDialerProofs.tla`

- `DialerInvariant`: `Spec => []IInv`.
- `InFlightNeverReadyHolds`: `Spec => []InFlightNeverReady`.
- `HandshakeInvariant` and `HandshakeNeverReadyHolds`:
  `SpecWithClockSteps => []HandshakeNeverReady`.

**Why `InFlightNeverReady` needs strengthening.** It says an entry is not
ready, but not why. `ConnInv(a)` gives the reason for an address `a` with a
connection task:

- The task started at most `Deadline(a)` ago.
- A handshaking entry is `AttemptPending`, and its attempt time is no
  earlier than the start of the handshake.
- An open entry is `Responded`, and its response time is no earlier than the
  wall-clock reading at its last message.

`IInv` adds `instant <= wall`. The clocks advance together, so
`wall - instant` is fixed. This turns the wall-clock age of the response
into the monotonic age of the message.

The step lemmas follow the actions:

- `DialStep`: `NotReady` shows that a dialled address has no task.
- `RespondedStep` covers `HandshakeDone` and `Message`.
- `FailedStep` covers `HandshakeFail` and `Close`.
- `GossipStep`: Case A leaves connected entries alone, by
  `GossipKeepsConnected` and `GossipToAttempted`.
- `TickStep`: the deadline guard.

**Assumptions.** `HandshakeTimeoutAssumption`: `HANDSHAKE_TIMEOUT` is at
most `MIN_PEER_RECONNECTION_DELAY`. Under `SpecWithClockSteps`, the
`dialer_clock_step` run shows that the theorem's other premise, clocks that
advance together, cannot be dropped.

**With wall-clock steps.** Under `SpecWithClockSteps`, `wall - instant` is no
longer fixed. The open conjunct of `ConnInv` and `instant <= wall` are then
lost. `HInv` keeps every part of `IInv` that does not mention the wall clock:

- the deadline bound of every task;
- a handshaking entry is `AttemptPending`, with its attempt no earlier than
  the start of the handshake;
- an open entry is `Responded`. `HGossipStep` needs this to apply Case A.

`HInv` was first checked by TLC on the `dialer_handshake_clock_step`
instance. It is inductive for `Next \/ WallClockStep`. `HDialStep` does not
assume that the dialled address is idle, because with a wall-clock step it
may be open (finding 3). `HandshakeNotReady` then gives the handshake half of
`InFlightNeverReady` for every value of the constants: attempts and the
handshake timeout are both on the monotonic clock.

### Only model-checked

- Every invariant and action property of a passing run has a theorem.
- Liveness properties, and anything that needs `ENABLED`, are out of TLAPS's
  reach. This covers `AttemptResolves`.
- RECURSIVE operators would cut TLAPS off from its SMT backend, so the
  modules proved about avoid them.

## 6. Plan

1. Done: `MetaAddr` and `AddressBook`; the order (`MetaAddrOrder`, proved a
   strict total order equal to the reference); the dialer (`PeerDialer`).
2. `GossipResponder.tla`: the gossip responder's clamp of future gossiped
   times and `is_active_for_gossip`, the other half of the hazard at
   meta_addr.rs:473. Also an abstract round-trip of the wire codec over
   fields (spec property 6).
3. Inbound connections in `PeerDialer`: a second connection task per
   address, so that `UpdateFailed` carrying the services of an older
   handshake can race a fresh `UpdateResponded` (meta_addr.rs:755).
4. Proofs:
   - a refinement: `AddressBook` implements an abstract book in which each
     entry's times are the maxima of the changes applied to it.

## 7. Not modelled

- The byte layout of the codec (formatting).
- `PORT_IN_USE_ERROR`, `USER_AGENT`, the network magics, protocol versions and
  `PEERSET_BUFFER_SIZE`: plain data used by other components.
- The address book's eviction and limits, which are not in this repository's
  sources.
- The candidate set's peer-set limits and rate limits
  (`MIN_PEER_CONNECTION_INTERVAL`, `MIN_PEER_GET_ADDR_INTERVAL`). They bound
  how often it acts, not what it does to an entry.
