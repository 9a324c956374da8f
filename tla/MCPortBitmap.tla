---------------------------- MODULE MCPortBitmap ----------------------------
(* Words of two bits and a length that is not a multiple of them: the word *)
(* slice grows in the run and the cursor wraps.  There are as many clients *)
(* as positions, one more than can be served, so the pool is exhausted.    *)
EXTENDS PortBitmap
=============================================================================
