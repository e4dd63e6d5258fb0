--------------------------- MODULE PeerDialerProofs ---------------------------
(***************************************************************************)
(* Proofs about PeerDialer for every value of the constants: no address    *)
(* being handshaked or connected is ever ready for another connection      *)
(* attempt (InFlightNeverReady) while the clocks advance together, and no  *)
(* address being handshaked is, even when the wall clock is set.          *)
(*                                                                         *)
(* InFlightNeverReady is not inductive: it says nothing about why the      *)
(* entry is not ready.  ConnInv says why.  A handshaking address is in     *)
(* AttemptPending with an attempt time no earlier than the start of the   *)
(* handshake, and the handshake is at most HANDSHAKE_TIMEOUT old; an open  *)
(* connection is Responded with a response time no earlier than its last  *)
(* message, measured on the wall clock, and the message is at most         *)
(* MIN_PEER_RECONNECTION_DELAY old.  Under Spec the two clocks advance     *)
(* together, so wall - instant is fixed and the wall-clock age of the      *)
(* response is the monotonic age of the message.                          *)
(***************************************************************************)
EXTENDS PeerDialer, MetaAddrLemmas, TLAPS

\* Why the entry of an address with a connection task is not ready.
ConnInv(a) ==
    /\ conn[a] # "none" =>
          /\ Known(a)
          /\ since[a] <= instant
          /\ instant - since[a] <= Deadline(a)
    /\ conn[a] = "handshaking" =>
          /\ book[a].last_connection_state = "AttemptPending"
          /\ book[a].last_attempt >= since[a]
    /\ conn[a] = "open" =>
          /\ book[a].last_connection_state = "Responded"
          /\ book[a].last_response - since[a] >= wall - instant

IInv ==
    /\ TypeOK
    /\ instant <= wall
    /\ \A a \in Addrs : ConnInv(a)

USE ConstantsAssumption, NoMetaAddrAssumption, HandshakeTimeoutAssumption

-----------------------------------------------------------------------------
(***************************************************************************)
(* The invariant excludes readiness.                                       *)
(***************************************************************************)
\* An address with a connection task is known and not ready.
LEMMA NotReady ==
    ASSUME IInv, NEW a \in Addrs, conn[a] # "none"
    PROVE  Known(a) /\ ~IsReadyForConnectionAttempt(book[a], wall, instant)
<1>1. /\ Known(a)
      /\ book[a] \in MetaAddrRecs
      /\ since[a] \in Instants
      /\ conn[a] \in ConnStates
      /\ since[a] <= instant
      /\ instant - since[a] <= Deadline(a)
  BY DEF IInv, ConnInv, TypeOK, Known
<1>2. CASE conn[a] = "handshaking"
  <2>1. book[a].last_attempt >= since[a] /\ instant - since[a] <= HandshakeTimeout
    BY <1>1, <1>2 DEF IInv, ConnInv, Deadline
  <2>2. book[a].last_attempt \in OptInstants
    BY <1>1 DEF MetaAddrRecs
  <2>3. WasConnectionRecentlyAttempted(book[a], instant)
    BY <1>1, <2>1, <2>2 DEF WasConnectionRecentlyAttempted, SaturatingElapsed,
       OptInstants, Instants, NoTime, TypeOK, IInv
  <2>4. QED
    BY <1>1, <2>3 DEF IsReadyForConnectionAttempt
<1>3. CASE conn[a] = "open"
  <2>1. /\ book[a].last_response - since[a] >= wall - instant
        /\ instant - since[a] <= ReconnectionDelay
    BY <1>1, <1>3 DEF IInv, ConnInv, Deadline
  <2>2. book[a].last_response \in OptWallTimes /\ instant <= wall
    BY <1>1 DEF MetaAddrRecs, IInv
  <2>3. HasConnectionRecentlyResponded(book[a], wall)
    BY <1>1, <2>1, <2>2 DEF HasConnectionRecentlyResponded, SaturatingElapsed,
       OptWallTimes, WallTimes, Instants, NoTime, TypeOK, IInv
  <2>4. QED
    BY <1>1, <2>3 DEF IsReadyForConnectionAttempt
<1>4. QED
  BY <1>1, <1>2, <1>3 DEF ConnStates

-----------------------------------------------------------------------------
(***************************************************************************)
(* What one AddressBook::update does to the book.                          *)
(***************************************************************************)
\* The update changes at most the entry of the change's address, and keeps
\* the book well typed.
LEMMA UpdateBookFrame ==
    ASSUME TypeOK, NEW c, GoodChange(c), UpdateBook(c)
    PROVE  /\ book' \in [Addrs -> MetaAddrRecs \cup {NoMetaAddr}]
           /\ \A b \in Addrs : b # c.addr => book'[b] = book[b]
<1>1. c.addr \in Addrs
  BY DEF GoodChange, Changes
<1>2. ApplyToMetaAddr(c, book[c.addr], wall, instant) \in MetaAddrRecs \cup {NoMetaAddr}
  BY <1>1, ApplyType DEF TypeOK
<1>3. QED
  BY <1>1, <1>2 DEF UpdateBook, TypeOK

\* An Update change to a known entry stores the change's state and times.
LEMMA UpdateBookKnown ==
    ASSUME TypeOK, NEW c, GoodChange(c),
           c.kind \in {"UpdateAttempt", "UpdateResponded", "UpdateFailed"},
           Known(c.addr), UpdateBook(c)
    PROVE  /\ book'[c.addr] \in MetaAddrRecs
           /\ book'[c.addr].last_connection_state = ChangePeerAddrState(c)
           /\ book'[c.addr].last_attempt >= ChangeLastAttempt(c, instant)
           /\ book'[c.addr].last_response >= ChangeLastResponse(c, wall)
<1>1. c.addr \in Addrs
  BY DEF GoodChange, Changes
<1>2. book[c.addr] \in MetaAddrRecs
  BY <1>1 DEF TypeOK, Known
<1> DEFINE n == ApplyToMetaAddr(c, book[c.addr], wall, instant)
<1>3. /\ n \in MetaAddrRecs
      /\ n.last_connection_state = ChangePeerAddrState(c)
      /\ n.last_attempt >= ChangeLastAttempt(c, instant)
      /\ n.last_response >= ChangeLastResponse(c, wall)
  BY <1>2, ApplyUpdateEntry DEF TypeOK
<1>4. book'[c.addr] = n
  BY <1>1, <1>3, NoMetaAddrAssumption DEF UpdateBook, TypeOK
<1>5. QED
  BY <1>3, <1>4

\* Gossip leaves every entry with a connection task alone (Case A).
LEMMA GossipKeepsConnected ==
    ASSUME IInv, NEW a0 \in Addrs, NEW s \in ServiceBits, NEW t \in WallTimes,
           UpdateBook(NewGossipedChange(a0, s, t)),
           NEW a \in Addrs, conn[a] # "none"
    PROVE  book'[a] = book[a]
<1> DEFINE c == NewGossipedChange(a0, s, t)
<1>1. GoodChange(c) /\ c.addr = a0
  BY ConstructorsGood DEF NewGossipedChange
<1>2. CASE a # a0
  BY <1>1, <1>2, UpdateBookFrame DEF IInv
<1>3. CASE a = a0
  <2>1. book[a] \in MetaAddrRecs
    BY DEF IInv, ConnInv, TypeOK, Known
  <2>2. ~IsNeverAttempted(book[a].last_connection_state)
    BY DEF IInv, ConnInv, TypeOK, ConnStates, IsNeverAttempted
  <2>3. ApplyToMetaAddr(c, book[a], wall, instant) = NoMetaAddr
    BY <2>1, <2>2, GossipToAttempted
  <2>4. QED
    BY <1>3, <2>3 DEF UpdateBook
<1>4. QED
  BY <1>2, <1>3

-----------------------------------------------------------------------------
(***************************************************************************)
(* The invariant is inductive: one step per action.                        *)
(***************************************************************************)
\* An address whose task, start time and entry a step leaves alone, on a
\* step that leaves the clocks alone, keeps ConnInv.
LEMMA StableConn ==
    ASSUME IInv, NEW a \in Addrs,
           conn'[a] = conn[a], since'[a] = since[a], book'[a] = book[a],
           wall' = wall, instant' = instant
    PROVE  ConnInv(a)'
BY DEF IInv, ConnInv, Deadline, Known

\* The type invariant of the variables other than the book after a step that
\* updates the book, with the task and start time of one address changed.
LEMMA TypeAfterUpdate ==
    ASSUME TypeOK, book' \in [Addrs -> MetaAddrRecs \cup {NoMetaAddr}],
           NEW a0 \in Addrs, NEW k \in ConnStates, NEW i \in Instants,
           conn' = [conn EXCEPT ![a0] = k] \/ conn' = conn,
           since' = [since EXCEPT ![a0] = i] \/ since' = since,
           wall' = wall, instant' = instant
    PROVE  TypeOK'
BY DEF TypeOK

LEMMA DialStep ==
    ASSUME IInv, NEW a0 \in Addrs, Dial(a0)
    PROVE  IInv'
<1> DEFINE c == NewReconnectChange(a0)
<1>1. GoodChange(c) /\ c.addr = a0 /\ c.kind = "UpdateAttempt"
  BY ConstructorsGood DEF NewReconnectChange
<1>2. conn[a0] = "none"
  BY NotReady DEF Dial
<1>3. /\ book' \in [Addrs -> MetaAddrRecs \cup {NoMetaAddr}]
      /\ \A b \in Addrs : b # a0 => book'[b] = book[b]
  BY <1>1, UpdateBookFrame DEF IInv, Dial
<1>4. /\ book'[a0] \in MetaAddrRecs
      /\ book'[a0].last_connection_state = "AttemptPending"
      /\ book'[a0].last_attempt >= instant
  BY <1>1, UpdateBookKnown DEF IInv, Dial, ChangePeerAddrState, ChangeLastAttempt
<1>5. TypeOK'
  BY <1>3, TypeAfterUpdate DEF IInv, TypeOK, Dial, ConnStates
<1>6. ConnInv(a0)'
  BY <1>4, <1>5 DEF Dial, ConnInv, Deadline, Known, TypeOK, IInv, Instants
<1>7. ASSUME NEW b \in Addrs, b # a0 PROVE ConnInv(b)'
  BY <1>3, <1>7, StableConn DEF Dial, IInv, TypeOK
<1>8. QED
  BY <1>5, <1>6, <1>7 DEF IInv, Dial

\* HandshakeDone and Message: a response on the connection of a0.
LEMMA RespondedStep ==
    ASSUME IInv, NEW a0 \in Addrs, NEW s \in ServiceBits,
           conn[a0] # "none",
           UpdateBook(NewRespondedChange(a0, s)),
           conn' = [conn EXCEPT ![a0] = "open"],
           since' = [since EXCEPT ![a0] = instant],
           UNCHANGED <<wall, instant>>
    PROVE  IInv'
<1> DEFINE c == NewRespondedChange(a0, s)
<1>1. GoodChange(c) /\ c.addr = a0 /\ c.kind = "UpdateResponded"
  BY ConstructorsGood DEF NewRespondedChange
<1>2. Known(a0)
  BY DEF IInv, ConnInv
<1>3. /\ book' \in [Addrs -> MetaAddrRecs \cup {NoMetaAddr}]
      /\ \A b \in Addrs : b # a0 => book'[b] = book[b]
  BY <1>1, UpdateBookFrame DEF IInv
<1>4. /\ book'[a0] \in MetaAddrRecs
      /\ book'[a0].last_connection_state = "Responded"
      /\ book'[a0].last_response >= wall
  BY <1>1, <1>2, UpdateBookKnown DEF IInv, ChangePeerAddrState, ChangeLastResponse
<1>5. TypeOK'
  BY <1>3, TypeAfterUpdate DEF IInv, TypeOK, ConnStates
<1>6. ConnInv(a0)'
  <2>1. ReconnectionDelay \in Nat /\ wall \in Int /\ instant \in Int
    BY DEF IInv, TypeOK, WallTimes, Instants
  <2>2. book'[a0].last_response \in Int
    BY <1>4 DEF MetaAddrRecs, OptWallTimes, WallTimes, NoTime
  <2>3. QED
    BY <1>4, <1>5, <2>1, <2>2 DEF ConnInv, Deadline, Known, TypeOK
<1>7. ASSUME NEW b \in Addrs, b # a0 PROVE ConnInv(b)'
  BY <1>3, <1>7, StableConn DEF IInv, TypeOK
<1>8. QED
  BY <1>5, <1>6, <1>7 DEF IInv

\* HandshakeFail and Close: the task of a0 ends with a failure change.
LEMMA FailedStep ==
    ASSUME IInv, NEW a0 \in Addrs, NEW s \in ServiceBits \cup {NoServices},
           UpdateBook(NewErroredChange(a0, s)),
           conn' = [conn EXCEPT ![a0] = "none"],
           UNCHANGED <<since, wall, instant>>
    PROVE  IInv'
<1>1. GoodChange(NewErroredChange(a0, s)) /\ NewErroredChange(a0, s).addr = a0
  BY ConstructorsGood DEF NewErroredChange
<1>2. /\ book' \in [Addrs -> MetaAddrRecs \cup {NoMetaAddr}]
      /\ \A b \in Addrs : b # a0 => book'[b] = book[b]
  BY <1>1, UpdateBookFrame DEF IInv
<1>3. TypeOK'
  BY <1>2, TypeAfterUpdate DEF IInv, TypeOK, ConnStates
<1>4. ConnInv(a0)'
  BY <1>3 DEF ConnInv, TypeOK
<1>5. ASSUME NEW b \in Addrs, b # a0 PROVE ConnInv(b)'
  BY <1>2, <1>5, StableConn DEF IInv, TypeOK
<1>6. QED
  BY <1>3, <1>4, <1>5 DEF IInv

LEMMA GossipStep ==
    ASSUME IInv, NEW a0 \in Addrs, NEW s \in ServiceBits, NEW t \in WallTimes,
           Gossip(a0, s, t)
    PROVE  IInv'
<1>1. GoodChange(NewGossipedChange(a0, s, t)) /\ NewGossipedChange(a0, s, t).addr = a0
  BY ConstructorsGood DEF NewGossipedChange
<1>2. book' \in [Addrs -> MetaAddrRecs \cup {NoMetaAddr}]
  BY <1>1, UpdateBookFrame DEF IInv, Gossip
<1>3. TypeOK'
  BY <1>2 DEF IInv, TypeOK, Gossip
<1>4. ASSUME NEW b \in Addrs PROVE ConnInv(b)'
  <2>1. CASE conn[b] = "none"
    BY <1>3, <2>1 DEF Gossip, ConnInv, TypeOK
  <2>2. CASE conn[b] # "none"
    BY <2>2, GossipKeepsConnected, StableConn DEF Gossip
  <2>3. QED
    BY <2>1, <2>2
<1>5. QED
  BY <1>3, <1>4 DEF IInv, Gossip

LEMMA TickStep ==
    ASSUME IInv, Tick
    PROVE  IInv'
<1>1. TypeOK'
  BY DEF IInv, TypeOK, Tick, WallTimes, Instants
<1>2. ASSUME NEW b \in Addrs PROVE ConnInv(b)'
  <2>1. since[b] \in Instants /\ instant \in Instants /\ wall \in WallTimes
    BY DEF IInv, TypeOK
  <2>2. book[b] # NoMetaAddr => book[b] \in MetaAddrRecs
    BY DEF IInv, TypeOK
  <2>3. conn[b] = "open" =>
            book[b].last_response \in Int
    BY <2>2 DEF IInv, ConnInv, Known, MetaAddrRecs, OptWallTimes, WallTimes, NoTime
  <2>4. QED
    BY <2>1, <2>3 DEF IInv, ConnInv, Tick, Deadline, Known, Instants, WallTimes
<1>3. QED
  BY <1>1, <1>2 DEF IInv, Tick, Instants, WallTimes, TypeOK

\* The strengthened invariant holds in every reachable state.
THEOREM DialerInvariant == Spec => []IInv
<1>1. Init => IInv
  BY DEF Init, IInv, TypeOK, ConnInv, ConnStates, Instants, WallTimes
<1>2. IInv /\ [Next]_vars => IInv'
  <2> SUFFICES ASSUME IInv, [Next]_vars PROVE IInv'
    OBVIOUS
  <2>1. ASSUME NEW a \in Addrs, NEW s \in ServiceBits, NEW t \in WallTimes,
               Gossip(a, s, t)
        PROVE  IInv'
    BY <2>1, GossipStep
  <2>2. ASSUME NEW a \in Addrs, Dial(a) PROVE IInv'
    BY <2>2, DialStep
  <2>3. ASSUME NEW a \in Addrs, HandshakeFail(a) PROVE IInv'
    BY <2>3, FailedStep DEF HandshakeFail, NoServices
  <2>4. ASSUME NEW a \in Addrs, NEW s \in ServiceBits, HandshakeDone(a, s)
        PROVE  IInv'
    BY <2>4, RespondedStep DEF HandshakeDone
  <2>5. ASSUME NEW a \in Addrs, NEW s \in ServiceBits, Message(a, s)
        PROVE  IInv'
    <3>1. conn' = [conn EXCEPT ![a] = "open"]
      BY <2>5 DEF Message, IInv, TypeOK
    <3>2. QED
      BY <2>5, <3>1, RespondedStep DEF Message
  <2>6. ASSUME NEW a \in Addrs, NEW s \in ServiceBits, Close(a, s)
        PROVE  IInv'
    BY <2>6, FailedStep DEF Close
  <2>7. CASE Tick
    BY <2>7, TickStep
  <2>8. CASE UNCHANGED vars
    BY <2>8 DEF vars, IInv, TypeOK, ConnInv, Deadline, Known
  <2>9. QED
    BY <2>1, <2>2, <2>3, <2>4, <2>5, <2>6, <2>7, <2>8 DEF Next
<1>3. QED
  BY <1>1, <1>2, PTL DEF Spec

\* The comment on has_connection_recently_responded (meta_addr.rs:410-418):
\* for every value of the constants, while the two clocks advance together
\* no address with a handshake in progress or an open connection is ready
\* for another connection attempt.
THEOREM InFlightNeverReadyHolds == Spec => []InFlightNeverReady
<1>1. IInv => InFlightNeverReady
  BY NotReady DEF InFlightNeverReady
<1>2. QED
  BY <1>1, DialerInvariant, PTL

-----------------------------------------------------------------------------
(***************************************************************************)
(* Handshakes under a wall clock that may be set.  In SpecWithClockSteps   *)
(* wall - instant is no longer fixed, so the last conjunct of ConnInv and  *)
(* instant <= wall are lost, and with them the open half of                *)
(* InFlightNeverReady (the dialer_clock_step run).  HConnInv keeps what    *)
(* mentions only the monotonic clock, and an open connection's state: it   *)
(* is all a handshake needs.                                               *)
(***************************************************************************)
HConnInv(a) ==
    /\ conn[a] # "none" =>
          /\ Known(a)
          /\ since[a] <= instant
          /\ instant - since[a] <= Deadline(a)
    /\ conn[a] = "handshaking" =>
          /\ book[a].last_connection_state = "AttemptPending"
          /\ book[a].last_attempt >= since[a]
    /\ conn[a] = "open" => book[a].last_connection_state = "Responded"

HInv == TypeOK /\ \A a \in Addrs : HConnInv(a)

\* A handshaking address is known and not ready: its attempt is at most
\* HANDSHAKE_TIMEOUT old on the monotonic clock.
LEMMA HandshakeNotReady ==
    ASSUME HInv, NEW a \in Addrs, conn[a] = "handshaking"
    PROVE  Known(a) /\ ~IsReadyForConnectionAttempt(book[a], wall, instant)
<1>1. /\ Known(a)
      /\ book[a] \in MetaAddrRecs
      /\ since[a] \in Instants /\ instant \in Instants
      /\ since[a] <= instant
      /\ instant - since[a] <= HandshakeTimeout
      /\ book[a].last_attempt >= since[a]
  BY DEF HInv, HConnInv, TypeOK, Known, Deadline
<1>2. book[a].last_attempt \in OptInstants
  BY <1>1 DEF MetaAddrRecs
<1>3. WasConnectionRecentlyAttempted(book[a], instant)
  BY <1>1, <1>2 DEF WasConnectionRecentlyAttempted, SaturatingElapsed,
     OptInstants, Instants, NoTime
<1>4. QED
  BY <1>1, <1>3 DEF IsReadyForConnectionAttempt

\* An address whose task, start time and entry a step leaves alone, on a
\* step that leaves the monotonic clock alone, keeps HConnInv.
LEMMA HStableConn ==
    ASSUME HInv, NEW a \in Addrs,
           conn'[a] = conn[a], since'[a] = since[a], book'[a] = book[a],
           instant' = instant
    PROVE  HConnInv(a)'
BY DEF HInv, HConnInv, Deadline, Known

\* Gossip leaves the entry of every address with a task alone (Case A).
LEMMA HGossipStep ==
    ASSUME HInv, NEW a0 \in Addrs, NEW s \in ServiceBits, NEW t \in WallTimes,
           Gossip(a0, s, t)
    PROVE  HInv'
<1> DEFINE c == NewGossipedChange(a0, s, t)
<1>1. GoodChange(c) /\ c.addr = a0
  BY ConstructorsGood DEF NewGossipedChange
<1>2. /\ book' \in [Addrs -> MetaAddrRecs \cup {NoMetaAddr}]
      /\ \A b \in Addrs : b # a0 => book'[b] = book[b]
  BY <1>1, UpdateBookFrame DEF HInv, Gossip
<1>3. TypeOK'
  BY <1>2 DEF HInv, TypeOK, Gossip
<1>4. ASSUME NEW b \in Addrs, conn[b] # "none" PROVE book'[b] = book[b]
  <2>1. CASE b = a0
    <3>1. book[b] \in MetaAddrRecs /\ ~IsNeverAttempted(book[b].last_connection_state)
      BY <1>4 DEF HInv, HConnInv, TypeOK, Known, ConnStates, IsNeverAttempted
    <3>2. ApplyToMetaAddr(c, book[b], wall, instant) = NoMetaAddr
      BY <3>1, GossipToAttempted
    <3>3. QED
      BY <2>1, <3>2 DEF Gossip, UpdateBook
  <2>2. QED
    BY <1>2, <2>1
<1>5. ASSUME NEW b \in Addrs PROVE HConnInv(b)'
  <2>1. CASE conn[b] = "none"
    BY <1>3, <2>1 DEF Gossip, HConnInv, TypeOK
  <2>2. CASE conn[b] # "none"
    BY <1>4, <2>2, HStableConn DEF Gossip
  <2>3. QED
    BY <2>1, <2>2
<1>6. QED
  BY <1>3, <1>5 DEF HInv

\* Dial, from any task: CandidateSet::next only checks readiness, so with a
\* wall clock that was set it may dial a connected peer again.
LEMMA HDialStep ==
    ASSUME HInv, NEW a0 \in Addrs, Dial(a0)
    PROVE  HInv'
<1> DEFINE c == NewReconnectChange(a0)
<1>1. GoodChange(c) /\ c.addr = a0 /\ c.kind = "UpdateAttempt"
  BY ConstructorsGood DEF NewReconnectChange
<1>2. /\ book' \in [Addrs -> MetaAddrRecs \cup {NoMetaAddr}]
      /\ \A b \in Addrs : b # a0 => book'[b] = book[b]
  BY <1>1, UpdateBookFrame DEF HInv, Dial
<1>3. /\ book'[a0] \in MetaAddrRecs
      /\ book'[a0].last_connection_state = "AttemptPending"
      /\ book'[a0].last_attempt >= instant
  BY <1>1, UpdateBookKnown DEF HInv, Dial, ChangePeerAddrState, ChangeLastAttempt
<1>4. TypeOK'
  BY <1>2, TypeAfterUpdate DEF HInv, TypeOK, Dial, ConnStates
<1>5. HConnInv(a0)'
  BY <1>3, <1>4 DEF Dial, HConnInv, Deadline, Known, TypeOK, HInv, Instants
<1>6. ASSUME NEW b \in Addrs, b # a0 PROVE HConnInv(b)'
  BY <1>2, <1>6, HStableConn DEF Dial, HInv, TypeOK
<1>7. QED
  BY <1>4, <1>5, <1>6 DEF HInv

\* HandshakeDone and Message: a response on the task of a0, which opens it.
LEMMA HRespondedStep ==
    ASSUME HInv, NEW a0 \in Addrs, NEW s \in ServiceBits,
           conn[a0] # "none",
           UpdateBook(NewRespondedChange(a0, s)),
           conn' = [conn EXCEPT ![a0] = "open"],
           since' = [since EXCEPT ![a0] = instant],
           UNCHANGED <<wall, instant>>
    PROVE  HInv'
<1> DEFINE c == NewRespondedChange(a0, s)
<1>1. GoodChange(c) /\ c.addr = a0 /\ c.kind = "UpdateResponded"
  BY ConstructorsGood DEF NewRespondedChange
<1>2. /\ book' \in [Addrs -> MetaAddrRecs \cup {NoMetaAddr}]
      /\ \A b \in Addrs : b # a0 => book'[b] = book[b]
  BY <1>1, UpdateBookFrame DEF HInv
<1>3. /\ book'[a0] \in MetaAddrRecs
      /\ book'[a0].last_connection_state = "Responded"
  BY <1>1, UpdateBookKnown DEF HInv, HConnInv, ChangePeerAddrState
<1>4. TypeOK'
  BY <1>2, TypeAfterUpdate DEF HInv, TypeOK, ConnStates
<1>5. HConnInv(a0)'
  BY <1>3, <1>4 DEF HConnInv, Deadline, Known, TypeOK, Instants
<1>6. ASSUME NEW b \in Addrs, b # a0 PROVE HConnInv(b)'
  BY <1>2, <1>6, HStableConn DEF HInv, TypeOK
<1>7. QED
  BY <1>4, <1>5, <1>6 DEF HInv

\* HandshakeFail and Close: the task of a0 ends with a failure change.
LEMMA HFailedStep ==
    ASSUME HInv, NEW a0 \in Addrs, NEW s \in ServiceBits \cup {NoServices},
           UpdateBook(NewErroredChange(a0, s)),
           conn' = [conn EXCEPT ![a0] = "none"],
           UNCHANGED <<since, wall, instant>>
    PROVE  HInv'
<1>1. GoodChange(NewErroredChange(a0, s)) /\ NewErroredChange(a0, s).addr = a0
  BY ConstructorsGood DEF NewErroredChange
<1>2. /\ book' \in [Addrs -> MetaAddrRecs \cup {NoMetaAddr}]
      /\ \A b \in Addrs : b # a0 => book'[b] = book[b]
  BY <1>1, UpdateBookFrame DEF HInv
<1>3. TypeOK'
  BY <1>2, TypeAfterUpdate DEF HInv, TypeOK, ConnStates
<1>4. HConnInv(a0)'
  BY <1>3 DEF HConnInv, TypeOK
<1>5. ASSUME NEW b \in Addrs, b # a0 PROVE HConnInv(b)'
  BY <1>2, <1>5, HStableConn DEF HInv, TypeOK
<1>6. QED
  BY <1>3, <1>4, <1>5 DEF HInv

\* A tick keeps every task within its deadline: the timers fire on time.
LEMMA HTickStep ==
    ASSUME HInv, Tick
    PROVE  HInv'
<1>1. TypeOK'
  BY DEF HInv, TypeOK, Tick, WallTimes, Instants
<1>2. ASSUME NEW b \in Addrs PROVE HConnInv(b)'
  BY DEF HInv, HConnInv, TypeOK, Tick, Deadline, Known, Instants
<1>3. QED
  BY <1>1, <1>2 DEF HInv

\* Setting the wall clock touches nothing HInv mentions but the clock.
LEMMA HWallClockStep ==
    ASSUME HInv, WallClockStep
    PROVE  HInv'
<1>1. TypeOK'
  BY DEF HInv, TypeOK, WallClockStep
<1>2. ASSUME NEW b \in Addrs PROVE HConnInv(b)'
  BY HStableConn DEF WallClockStep
<1>3. QED
  BY <1>1, <1>2 DEF HInv

\* HInv holds in every state reachable with wall-clock steps.
THEOREM HandshakeInvariant == SpecWithClockSteps => []HInv
<1>1. Init => HInv
  BY DEF Init, HInv, TypeOK, HConnInv, ConnStates, Instants, WallTimes
<1>2. HInv /\ [Next \/ WallClockStep]_vars => HInv'
  <2> SUFFICES ASSUME HInv, [Next \/ WallClockStep]_vars PROVE HInv'
    OBVIOUS
  <2>1. ASSUME NEW a \in Addrs, NEW s \in ServiceBits, NEW t \in WallTimes,
               Gossip(a, s, t)
        PROVE  HInv'
    BY <2>1, HGossipStep
  <2>2. ASSUME NEW a \in Addrs, Dial(a) PROVE HInv'
    BY <2>2, HDialStep
  <2>3. ASSUME NEW a \in Addrs, HandshakeFail(a) PROVE HInv'
    BY <2>3, HFailedStep DEF HandshakeFail, NoServices
  <2>4. ASSUME NEW a \in Addrs, NEW s \in ServiceBits, HandshakeDone(a, s)
        PROVE  HInv'
    BY <2>4, HRespondedStep DEF HandshakeDone
  <2>5. ASSUME NEW a \in Addrs, NEW s \in ServiceBits, Message(a, s)
        PROVE  HInv'
    <3>1. conn' = [conn EXCEPT ![a] = "open"]
      BY <2>5 DEF Message, HInv, TypeOK
    <3>2. QED
      BY <2>5, <3>1, HRespondedStep DEF Message
  <2>6. ASSUME NEW a \in Addrs, NEW s \in ServiceBits, Close(a, s)
        PROVE  HInv'
    BY <2>6, HFailedStep DEF Close
  <2>7. CASE Tick
    BY <2>7, HTickStep
  <2>8. CASE WallClockStep
    BY <2>8, HWallClockStep
  <2>9. CASE UNCHANGED vars
    BY <2>9 DEF vars, HInv, TypeOK, HConnInv, Deadline, Known
  <2>10. QED
    BY <2>1, <2>2, <2>3, <2>4, <2>5, <2>6, <2>7, <2>8, <2>9 DEF Next
<1>3. QED
  BY <1>1, <1>2, PTL DEF SpecWithClockSteps

\* was_connection_recently_attempted (meta_addr.rs:436-446), for every value
\* of the constants: even when the wall clock is set, forwards or back, a
\* peer we are handshaking with is never ready for another connection
\* attempt, so the candidate set never dials it twice.
THEOREM HandshakeNeverReadyHolds == SpecWithClockSteps => []HandshakeNeverReady
<1>1. HInv => HandshakeNeverReady
  BY HandshakeNotReady DEF HandshakeNeverReady
<1>2. QED
  BY <1>1, HandshakeInvariant, PTL

=============================================================================
