---------------------------- MODULE MCLogStream -----------------------------
(* A function with two instances, of which one may come while the log is   *)
(* read, in channels of one line each.  The last line of one has no        *)
(* newline.                                                                *)
EXTENDS LogStream, TLC

CONSTANTS a, b

ThreeAndOne == (a :> 3) @@ (b :> 1)
=============================================================================
