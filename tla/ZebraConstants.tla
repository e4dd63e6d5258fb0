---------------------------- MODULE ZebraConstants ----------------------------
(***************************************************************************)
(* The policy constants of zebra-network (src/constants.rs) in seconds,    *)
(* and the MetaAddr preallocation bound (meta_addr.rs:905-913).  The       *)
(* ASSUMEs are the relations the unit tests of constants.rs assert and the *)
(* bound TrustedPreallocate relies on; TLC evaluates them on every run of  *)
(* a module that extends this one.                                         *)
(***************************************************************************)
EXTENDS Naturals

REQUEST_TIMEOUT == 20
HANDSHAKE_TIMEOUT == 4
HEARTBEAT_INTERVAL == 60
MIN_PEER_RECONNECTION_DELAY == 60 + 20 + 20 + 20
MAX_PEER_ACTIVE_FOR_GOSSIP == 3 * 60 * 60
TIMESTAMP_TRUNCATION_SECONDS == 30 * 60
EWMA_DEFAULT_RTT == REQUEST_TIMEOUT + 1
EWMA_DECAY_TIME == 200

\* protocol::external::MAX_PROTOCOL_MESSAGE_LEN (2 MiB; not under src/).
MAX_PROTOCOL_MESSAGE_LEN == 2 * 1024 * 1024

\* A serialized MetaAddr: 4-byte time, 8-byte services, 16-byte IP, 2-byte port.
META_ADDR_SIZE == 4 + 8 + 16 + 2

\* MetaAddr::max_allocation
MaxAllocation == (MAX_PROTOCOL_MESSAGE_LEN - 3) \div META_ADDR_SIZE

\* ensure_live_peer_duration_value_matches_others (constants.rs:188-195): the
\* reconnection delay is a heartbeat interval plus three request timeouts.
ASSUME ReconnectionDelayMatches ==
    MIN_PEER_RECONNECTION_DELAY = HEARTBEAT_INTERVAL + 3 * REQUEST_TIMEOUT

\* ensure_timeouts_consistent (constants.rs:199-211): a handshake is a
\* request, and the EWMA defaults penalise peers that time out.
ASSUME TimeoutsConsistent ==
    /\ HANDSHAKE_TIMEOUT <= REQUEST_TIMEOUT
    /\ EWMA_DEFAULT_RTT > REQUEST_TIMEOUT
    /\ EWMA_DECAY_TIME > REQUEST_TIMEOUT

\* The preallocation bound of a Vec<MetaAddr> (meta_addr.rs:908-913): a list
\* of MaxAllocation entries and its (at least three byte) length prefix fit
\* in one message, and one more entry would not, and the length prefix of a
\* list that long does take three bytes (the CompactSize form for >= 253).
ASSUME PreallocationBound ==
    /\ 3 + MaxAllocation * META_ADDR_SIZE <= MAX_PROTOCOL_MESSAGE_LEN
    /\ 3 + (MaxAllocation + 1) * META_ADDR_SIZE > MAX_PROTOCOL_MESSAGE_LEN
    /\ MaxAllocation >= 253

=============================================================================
