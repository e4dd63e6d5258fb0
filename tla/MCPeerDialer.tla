---------------------------- MODULE MCPeerDialer ----------------------------
(***************************************************************************)
(* A small instance of PeerDialer for TLC: one valid outbound address,    *)
(* services with NODE_NETWORK (so an entry can be ready), a reconnection   *)
(* delay of 2 ticks and a handshake timeout of 1, and clocks long enough   *)
(* for a connection to reach its deadline, close, and become ready again.  *)
(***************************************************************************)
EXTENDS PeerDialer, ZebraConstants

DialAddrs == {[ip |-> <<4, 1>>, port |-> 8233]}
DialServiceBits == {1}

=============================================================================
