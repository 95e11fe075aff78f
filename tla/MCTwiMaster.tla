---------------------------- MODULE MCTwiMaster ----------------------------
(* Instances of TwiMaster for TLC: a buffer of three bytes. *)
EXTENDS TwiMaster

\* Every request that the buffer has room for.
Fitting == ((0 .. 3) \X (0 .. 3)) \ {<<0, 0>>}
=============================================================================
