---------------------------- MODULE MCAddressBook ----------------------------
(***************************************************************************)
(* A small instance of AddressBook for TLC.                                *)
(*  - one canonical IPv4 address that is valid for outbound connections    *)
(*    (the properties are per address, and entries never interact);       *)
(*  - services with and without NODE_NETWORK;                              *)
(*  - wall clock 0..3 with truncation interval 2, so sanitize rounds some  *)
(*    times down, and a time can be one or more intervals past another;    *)
(*  - monotonic clock 0..2 with reconnection delay 1, so a local time can  *)
(*    be both recent and stale.                                            *)
(***************************************************************************)
EXTENDS AddressBook, ZebraConstants

MCAddrs == {[ip |-> <<4, 1>>, port |-> 8233]}
MCServiceBits == {0, 1}

=============================================================================
