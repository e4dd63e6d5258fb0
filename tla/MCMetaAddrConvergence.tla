------------------------ MODULE MCMetaAddrConvergence ------------------------
(* One valid address and two service patterns; every pair of changes. *)
EXTENDS MetaAddrConvergence

MCAddrs == {[ip |-> <<4, 1>>, port |-> 8233]}
MCServiceBits == {0, 1}

=============================================================================
