------------------------------- MODULE Bitmap -------------------------------
(***************************************************************************)
(* The bit sets of pkg/lib/bitmap: Bitmap64, a slice of machine words that *)
(* grows on demand, and the scan RRBitmap makes over it.                   *)
(*                                                                         *)
(* A bitmap is a record: bits, the set of masked positions, and words, the *)
(* length of the word slice.  The length is kept because Unmask indexes    *)
(* the slice without a check and Go panics when the word is not there.     *)
(* Positions are Go ints and may be negative; the *Panics operators say    *)
(* for which arguments the operation aborts the process instead.           *)
(***************************************************************************)
EXTENDS Integers

CONSTANTS
  W,          (* bits in a word of the slice: 64 in the program             *)
  L           (* length given to NewRRBitmap: 512 in the program            *)

ASSUME BitmapAssumption == /\ W \in Nat \ {0}
                           /\ L \in Nat \ {0, 1}

Bitmaps == [bits : SUBSET Nat, words : Nat]

EmptyBitmap == [bits |-> {}, words |-> 0]

(* Go's division truncates towards zero: positions -(W-1)..-1 share word 0 *)
(* with 0..W-1, but the mask 1 << uint(pos%64) of such a position is zero. *)
WordOf(pos) == IF pos >= 0 THEN pos \div W ELSE -((-pos) \div W)

IsMasked(b, pos) == pos \in b.bits

MaskPanics(b, pos) == WordOf(pos) < 0

(* Fault for the runs: the slice is grown one word short (i < idx).        *)
MaskGrowsShort(b, pos) ==
  [bits  |-> b.bits \cup ({pos} \cap Nat),
   words |-> IF WordOf(pos) >= b.words THEN WordOf(pos) ELSE b.words]

Mask(b, pos) ==
  [bits  |-> b.bits \cup ({pos} \cap Nat),
   words |-> IF WordOf(pos) >= b.words THEN WordOf(pos) + 1 ELSE b.words]

UnmaskPanics(b, pos) == WordOf(pos) \notin 0 .. b.words - 1

Unmask(b, pos) == [b EXCEPT !.bits = @ \ {pos}]

-----------------------------------------------------------------------------
(* RRBitmap: the positions 0..L-1 and a cursor, the position the next scan *)
(* starts from.  The cursor is L after position L-1 was handed out.        *)

Positions == 0 .. L - 1

Cursors == 0 .. L

(* How many positions the scan looks at before pos when it starts at cur.  *)
Dist(cur, pos) == IF pos >= cur THEN pos - cur ELSE pos + L - cur

(* Fault for the runs: the scan stops one position early.                  *)
NextFreeStopsShort(b, cur) ==
  {p \in Positions \ b.bits :
     /\ Dist(cur, p) < L - 1
     /\ \A q \in Positions \ b.bits : Dist(cur, p) <= Dist(cur, q)}

(* The position FindNextFromCurrentAndSet masks and returns: the first     *)
(* unmasked one from the cursor on, wrapping at L.  The set is empty when  *)
(* every position is masked, and the call then returns -1.                 *)
NextFree(b, cur) ==
  {p \in Positions \ b.bits :
     \A q \in Positions \ b.bits : Dist(cur, p) <= Dist(cur, q)}

PoolFull == -1
=============================================================================
