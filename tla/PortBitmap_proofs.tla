-------------------------- MODULE PortBitmap_proofs --------------------------
(***************************************************************************)
(* Proofs about one node's port bitmap, for every word size W, length L    *)
(* and set of clients.                                                     *)
(***************************************************************************)
EXTENDS PortBitmap, SequenceLemmas

(* A position of the pool lies in a word with a natural index.             *)
LEMMA WordOfNat == \A p \in Nat : WordOf(p) \in Nat
BY BitmapAssumption DEF WordOf

(* Every masked bit lives in a word of the slice: the fact that keeps      *)
(* Unmask from indexing out of range.                                      *)
WordsCover == \A p \in bitmap.bits : WordOf(p) \in 0 .. bitmap.words - 1

(* The inductive invariant.                                                *)
IInv ==
  /\ TypeOK
  /\ DistinctPositions
  /\ NoLeakNoDoubleGrant
  /\ WordsCover
  /\ \A c \in Clients : held[c] # 0      \* position 0 is reserved

(* Mask grows the slice far enough: the words in use stay within it.       *)
LEMMA MaskCovers ==
  ASSUME NEW b \in Bitmaps, NEW pos \in Nat,
         \A p \in b.bits : WordOf(p) \in 0 .. b.words - 1
  PROVE  /\ Mask(b, pos) \in Bitmaps
         /\ Mask(b, pos).bits = b.bits \cup {pos}
         /\ \A p \in Mask(b, pos).bits : WordOf(p) \in 0 .. Mask(b, pos).words - 1
BY WordOfNat DEF Mask, Bitmaps

(* Unmask frees a position and does not shrink the slice.                  *)
LEMMA UnmaskCovers ==
  ASSUME NEW b \in Bitmaps, NEW pos \in Nat,
         \A p \in b.bits : WordOf(p) \in 0 .. b.words - 1
  PROVE  /\ Unmask(b, pos) \in Bitmaps
         /\ Unmask(b, pos).bits = b.bits \ {pos}
         /\ \A p \in Unmask(b, pos).bits : WordOf(p) \in 0 .. Unmask(b, pos).words - 1
BY DEF Unmask, Bitmaps

(* A fresh bitmap with position 0 masked satisfies the invariant.          *)
LEMMA InitIInv == Init => IInv
<1> SUFFICES ASSUME Init PROVE IInv
  OBVIOUS
<1> USE BitmapAssumption, NoPosAssumption
<1>1. Holders = {} /\ held = [c \in Clients |-> NoPos] /\ NoPos # 0
  BY DEF Init, Holders, Positions
<1>2. EmptyBitmap \in Bitmaps /\ EmptyBitmap.bits = {}
  BY DEF EmptyBitmap, Bitmaps
<1>3. /\ bitmap \in Bitmaps
      /\ bitmap.bits = {0}
      /\ WordsCover
  BY <1>2, MaskCovers DEF Init, WordsCover
<1> QED
  BY <1>1, <1>3 DEF IInv, Init, TypeOK, Cursors, DistinctPositions, NoLeakNoDoubleGrant

(* A client that is given a position nobody holds, and that is masked in   *)
(* the same step, leaves the invariant intact: both Restore and Take.      *)
LEMMA GrantKeepsIInv ==
  ASSUME IInv, NEW c \in Clients, NEW pos \in Positions,
         c \notin Holders, pos # 0, \A d \in Holders : held[d] # pos,
         bitmap' = Mask(bitmap, pos),
         held' = [held EXCEPT ![c] = pos],
         current' \in Cursors
  PROVE  IInv'
<1> USE BitmapAssumption, NoPosAssumption
<1>1. pos \in Nat
  BY DEF Positions
<1>2. /\ bitmap' \in Bitmaps
      /\ bitmap'.bits = bitmap.bits \cup {pos}
      /\ WordsCover'
  BY <1>1, MaskCovers DEF IInv, TypeOK, WordsCover
<1>3. TypeOK'
  BY <1>2 DEF IInv, TypeOK
<1>4. Holders' = Holders \cup {c}
  BY DEF Holders, IInv, TypeOK
<1>5. \A d \in Holders : held'[d] = held[d]
  BY DEF Holders, IInv, TypeOK
<1>6. held'[c] = pos
  BY DEF IInv, TypeOK
<1>7. DistinctPositions'
  BY <1>4, <1>5, <1>6 DEF IInv, DistinctPositions
<1>8. NoLeakNoDoubleGrant'
  BY <1>2, <1>4, <1>5, <1>6 DEF IInv, NoLeakNoDoubleGrant
<1>9. \A d \in Clients : held'[d] # 0
  BY DEF IInv, TypeOK
<1> QED
  BY <1>2, <1>3, <1>7, <1>8, <1>9 DEF IInv

(* A refused request holds nothing.                                        *)
LEMMA RefuseKeepsIInv ==
  ASSUME IInv, NEW c \in Clients, Refuse(c)
  PROVE  IInv'
<1> USE BitmapAssumption, NoPosAssumption
<1>1. TypeOK'
  BY DEF IInv, TypeOK, Refuse
<1>2. Holders' = Holders /\ \A d \in Holders : held'[d] = held[d]
  BY DEF IInv, TypeOK, Refuse, Holders, PoolFull, Positions
<1>3. \A d \in Clients : held'[d] # 0
  BY DEF IInv, TypeOK, Refuse, PoolFull
<1> QED
  BY <1>1, <1>2, <1>3 DEF IInv, Refuse, DistinctPositions, NoLeakNoDoubleGrant, WordsCover

(* A release unmasks what the client held, and nobody else held it.        *)
LEMMA ReleaseKeepsIInv ==
  ASSUME IInv, NEW c \in Clients, Release(c)
  PROVE  IInv'
<1> USE BitmapAssumption, NoPosAssumption
<1>1. held[c] \in Nat
  BY DEF Release, Holders, Positions
<1>2. /\ bitmap' \in Bitmaps
      /\ bitmap'.bits = bitmap.bits \ {held[c]}
      /\ WordsCover'
  BY <1>1, UnmaskCovers DEF IInv, TypeOK, WordsCover, Release
<1>3. TypeOK'
  BY <1>2 DEF IInv, TypeOK, Release
<1>4. Holders' = Holders \ {c} /\ \A d \in Holders' : held'[d] = held[d]
  BY DEF IInv, TypeOK, Release, Holders, Positions
<1>5. DistinctPositions'
  BY <1>4 DEF IInv, DistinctPositions
<1>6. NoLeakNoDoubleGrant'
  BY <1>2, <1>4 DEF IInv, NoLeakNoDoubleGrant, DistinctPositions, Release
<1>7. \A d \in Clients : held'[d] # 0
  BY DEF IInv, TypeOK, Release
<1> QED
  BY <1>2, <1>3, <1>5, <1>6, <1>7 DEF IInv

(* What the scan returns: a free position other than the reserved one, and *)
(* the cursor behind it is a cursor again.                                 *)
LEMMA NextFreeIsFree ==
  ASSUME IInv, NEW pos \in NextFree(bitmap, current)
  PROVE  /\ pos \in Positions
         /\ pos # 0
         /\ \A c \in Holders : held[c] # pos
         /\ pos + 1 \in Cursors
BY BitmapAssumption DEF NextFree, IInv, NoLeakNoDoubleGrant, Positions, Cursors

(* FindNextFromCurrentAndSet grants a free position.                       *)
LEMMA TakeKeepsIInv ==
  ASSUME IInv, NEW c \in Clients, Take(c)
  PROVE  IInv'
<1>1. PICK pos \in NextFree(bitmap, current) :
         /\ bitmap' = Mask(bitmap, pos)
         /\ current' = pos + 1
         /\ held' = [held EXCEPT ![c] = pos]
  BY DEF Take
<1>2. /\ pos \in Positions
      /\ pos # 0
      /\ \A d \in Holders : held[d] # pos
      /\ current' \in Cursors
  BY <1>1, NextFreeIsFree
<1>3. c \notin Holders
  BY DEF Take
<1> QED
  BY <1>1, <1>2, <1>3, GrantKeepsIInv

(* initNodesInfo masks a position that nobody else recorded.               *)
LEMMA RestoreKeepsIInv ==
  ASSUME IInv, NEW c \in Clients, NEW pos \in Positions \ {0}, Restore(c, pos)
  PROVE  IInv'
<1>1. c \notin Holders /\ \A d \in Holders : held[d] # pos
  BY NoPosAssumption, BitmapAssumption DEF Restore, Holders, Positions
<1>2. current' \in Cursors
  BY DEF Restore, IInv, TypeOK
<1> QED
  BY <1>1, <1>2, GrantKeepsIInv DEF Restore

(* Every step keeps the invariant.                                         *)
LEMMA NextKeepsIInv == IInv /\ [Next]_vars => IInv'
<1> SUFFICES ASSUME IInv, [Next]_vars PROVE IInv'
  OBVIOUS
<1>1. ASSUME NEW c \in Clients, NEW pos \in Positions \ {0}, Restore(c, pos)
      PROVE  IInv'
  BY <1>1, RestoreKeepsIInv
<1>2. ASSUME NEW c \in Clients, Take(c) PROVE IInv'
  BY <1>2, TakeKeepsIInv
<1>3. ASSUME NEW c \in Clients, Refuse(c) PROVE IInv'
  BY <1>3, RefuseKeepsIInv
<1>4. ASSUME NEW c \in Clients, Release(c) PROVE IInv'
  BY <1>4, ReleaseKeepsIInv
<1>5. CASE UNCHANGED vars
  BY <1>5 DEF vars, IInv, TypeOK, DistinctPositions, NoLeakNoDoubleGrant,
              WordsCover, Holders
<1> QED
  BY <1>1, <1>2, <1>3, <1>4, <1>5 DEF Next

(* The invariant holds in every reachable state.                           *)
LEMMA Invariance == Spec => []IInv
<1>1. Init => IInv
  BY InitIInv
<1>2. IInv /\ [Next]_vars => IInv'
  BY NextKeepsIInv
<1> QED
  BY <1>1, <1>2, PTL DEF Spec

-----------------------------------------------------------------------------
(* Type correctness of the bitmap, the cursor and the answers.             *)
THEOREM TypeCorrect == Spec => []TypeOK
<1>1. IInv => TypeOK
  BY DEF IInv
<1> QED
  BY <1>1, Invariance, PTL

(* No two pod requests on a node ever hold the same port, whatever the     *)
(* order of restores, grants, refusals and releases.                       *)
THEOREM PortsDistinct == Spec => []DistinctPositions
<1>1. IInv => DistinctPositions
  BY DEF IInv
<1> QED
  BY <1>1, Invariance, PTL

(* A position is masked iff it is reserved or held.                        *)
THEOREM MaskedIffHeld == Spec => []NoLeakNoDoubleGrant
<1>1. IInv => NoLeakNoDoubleGrant
  BY DEF IInv
<1> QED
  BY <1>1, Invariance, PTL

(* Unmask never indexes the word slice out of range.                       *)
THEOREM UnmaskInRange == Spec => []ReleaseNeverPanics
<1>1. IInv => ReleaseNeverPanics
  BY DEF IInv, ReleaseNeverPanics, NoLeakNoDoubleGrant, WordsCover, UnmaskPanics
<1> QED
  BY <1>1, Invariance, PTL

-----------------------------------------------------------------------------
(* Taking the nearest free position p brings every farther position nearer *)
(* to the cursor, which is then p+1.                                       *)
LEMMA CursorApproaches ==
  ASSUME NEW cur \in Cursors, NEW p \in Positions, NEW q \in Positions,
         p # q, Dist(cur, p) <= Dist(cur, q)
  PROVE  Dist(p + 1, q) < Dist(cur, q)
BY BitmapAssumption DEF Cursors, Positions, Dist

(* Round robin: no free position is passed over for ever.                  *)
THEOREM RoundRobin == Spec => BypassBounded
<1> DEFINE Bypass ==
      current' # 0 /\ ~(bitmap'.bits \subseteq bitmap.bits) =>
        \A pos \in Positions \ (bitmap.bits \cup bitmap'.bits) :
          Dist(current', pos) < Dist(current, pos)
<1>1. ASSUME IInv, NEW c \in Clients, Take(c) PROVE Bypass
  <2>1. PICK p \in NextFree(bitmap, current) :
          bitmap' = Mask(bitmap, p) /\ current' = p + 1
    BY <1>1 DEF Take
  <2>2. p \in Positions /\ current \in Cursors
    BY <1>1, <2>1, NextFreeIsFree DEF IInv, TypeOK
  <2>3. p \in bitmap'.bits
    BY <2>1, <2>2, BitmapAssumption DEF Mask, Positions
  <2>4. ASSUME NEW q \in Positions \ (bitmap.bits \cup bitmap'.bits)
        PROVE  Dist(current', q) < Dist(current, q)
    <3>1. p # q /\ Dist(current, p) <= Dist(current, q)
      BY <2>1, <2>3, <2>4 DEF NextFree
    <3> QED
      BY <2>1, <2>2, <3>1, CursorApproaches
  <2> QED
    BY <2>4
<1>2. ASSUME NEW c \in Clients, NEW pos \in Positions, Restore(c, pos)
      PROVE  Bypass
  BY <1>2 DEF Restore
<1>3. ASSUME NEW c \in Clients, Refuse(c) PROVE Bypass
  BY <1>3 DEF Refuse
<1>4. ASSUME IInv, NEW c \in Clients, Release(c) PROVE Bypass
  <2>1. bitmap'.bits \subseteq bitmap.bits
    BY <1>4 DEF Release, Unmask, IInv, TypeOK, Bitmaps
  <2> QED
    BY <2>1
<1>5. IInv /\ [Next]_vars => [Bypass]_vars
  BY <1>1, <1>2, <1>3, <1>4 DEF Next
<1> QED
  BY <1>5, Invariance, PTL DEF Spec, BypassBounded

-----------------------------------------------------------------------------
(* The bitmap and its cursor implement the abstract pool: a request is     *)
(* answered with a port nobody owns, and refused only when every port is   *)
(* owned.                                                                  *)
LEMMA OwnedIffHolder ==
  ASSUME IInv, NEW c \in Clients
  PROVE  held[c] \in Pool!Ports <=> c \in Holders
BY BitmapAssumption, NoPosAssumption
   DEF IInv, TypeOK, Pool!Ports, Holders, Positions, PoolFull

(* What the abstract pool calls free is what the bitmap has not masked.    *)
LEMMA FreeIffUnmasked ==
  ASSUME IInv
  PROVE  Pool!Free = Positions \ bitmap.bits
BY BitmapAssumption DEF IInv, NoLeakNoDoubleGrant, Pool!Free, Pool!Ports, Holders, Positions

(* The scan comes back empty-handed only from a full bitmap.               *)
LEMMA ScanFindsFree ==
  ASSUME NEW cur \in Cursors, NextFree(bitmap, cur) = {}
  PROVE  Positions \ bitmap.bits = {}
<1> USE BitmapAssumption
<1> SUFFICES ASSUME Positions \ bitmap.bits # {} PROVE FALSE
  OBVIOUS
<1> DEFINE T == {Dist(cur, p) : p \in Positions \ bitmap.bits}
<1>1. \A p \in Positions : Dist(cur, p) \in Nat
  BY DEF Positions, Cursors, Dist
<1>2. T \in SUBSET Nat /\ T # {}
  BY <1>1
<1>3. PICK x \in T : \A y \in T : x <= y
  BY <1>2, LeastNat
<1>4. PICK p \in Positions \ bitmap.bits : x = Dist(cur, p)
  BY <1>3
<1>5. p \in NextFree(bitmap, cur)
  BY <1>3, <1>4 DEF NextFree
<1> QED
  BY <1>5

(* The round-robin bitmap implements the abstract pool: grants, refusals   *)
(* and releases of the code are grants, refusals and releases of the pool. *)
THEOREM ImplementsPool == Spec => PoolSpec
<1>1. Init => Pool!Init
  BY DEF Init, Pool!Init
<1>2. ASSUME IInv, NEW c \in Clients, Take(c) PROVE Pool!Grant(c)
  <2>1. PICK pos \in NextFree(bitmap, current) : held' = [held EXCEPT ![c] = pos]
    BY <1>2 DEF Take
  <2>2. pos \in Pool!Free
    BY <1>2, FreeIffUnmasked DEF NextFree
  <2>3. held[c] \notin Pool!Ports
    BY <1>2, OwnedIffHolder DEF Take
  <2> QED
    BY <2>1, <2>2, <2>3 DEF Pool!Grant
<1>3. ASSUME IInv, NEW c \in Clients, NEW pos \in Positions \ {0}, Restore(c, pos)
      PROVE  Pool!Grant(c)
  <2>1. pos \in Pool!Free
    BY <1>3, BitmapAssumption DEF Restore, Pool!Free, Pool!Ports, Positions
  <2>2. held[c] \notin Pool!Ports
    BY <1>3, NoPosAssumption, BitmapAssumption DEF Restore, Pool!Ports
  <2> QED
    BY <1>3, <2>1, <2>2 DEF Restore, Pool!Grant
<1>4. ASSUME IInv, NEW c \in Clients, Refuse(c) PROVE Pool!Reject(c)
  <2>1. Pool!Free = {}
    BY <1>4, ScanFindsFree, FreeIffUnmasked DEF Refuse, IInv, TypeOK
  <2>2. held[c] \notin Pool!Ports
    BY <1>4, OwnedIffHolder DEF Refuse
  <2> QED
    BY <1>4, <2>1, <2>2 DEF Refuse, Pool!Reject, PoolFull, Pool!Full
<1>5. ASSUME IInv, NEW c \in Clients, Release(c) PROVE Pool!GiveBack(c)
  BY <1>5, OwnedIffHolder DEF Release, Pool!GiveBack
<1>6. IInv /\ [Next]_vars => [Pool!Next]_held
  BY <1>2, <1>3, <1>4, <1>5 DEF Next, Pool!Next, vars
<1> QED
  BY <1>1, <1>6, Invariance, PTL DEF Spec, PoolSpec, Pool!Spec
=============================================================================
