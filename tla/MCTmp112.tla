------------------------------ MODULE MCTmp112 ------------------------------
(* The temperature sensor for TLC; the buffer holds the longest transaction. *)
EXTENDS Tmp112

Asked == {ofConfig, ofPointer, ofRead}
=============================================================================
