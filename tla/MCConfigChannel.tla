--------------------------- MODULE MCConfigChannel ---------------------------
(* The instance of ConfigChannel for TLC.                                  *)
EXTENDS ConfigChannel, TLC

(* The pod "kept" is on every list; the others leave and come.  The second *)
(* process does not know the GPU.                                          *)
Lists == (0 :> {}) @@ (1 :> {"kept", "leaves"}) @@ (2 :> {}) @@ (3 :> {"kept", "comes"})

ThreePods == {"kept", "leaves", "comes"}
=============================================================================
