----------------------------- MODULE PortBitmap -----------------------------
(***************************************************************************)
(* One node's PodManagerPortBitmap and the pod requests that hold a        *)
(* position of it (a pod-manager port is 50050 + the position).            *)
(*                                                                         *)
(* A node starts with NewRRBitmap(512) and Mask(0).  While the device      *)
(* manager rebuilds its state (initNodesInfo) it masks the positions the   *)
(* API objects record; afterwards requests take positions with             *)
(* FindNextFromCurrentAndSet and give them back with Unmask.  Clear has no *)
(* caller in the program and is not an action.                             *)
(***************************************************************************)
EXTENDS Bitmap

CONSTANTS
  Clients,    (* keys of the pod requests on this node                      *)
  NoPos       (* a client that asked for nothing yet                        *)

ASSUME NoPosAssumption == NoPos \notin Int

VARIABLES
  bitmap,     (* RRBitmap.bitmap                                            *)
  current,    (* RRBitmap.current                                           *)
  held        (* what each client was last given: NoPos, a position or -1   *)

vars == <<bitmap, current, held>>

(* The bitmap is one, the cursor stays within 0..L (L after the last       *)
(* position was given), and every answer is a position, "full" or none.    *)
TypeOK ==
  /\ bitmap \in Bitmaps
  /\ current \in Cursors
  /\ held \in [Clients -> Positions \cup {PoolFull, NoPos}]

Holders == {c \in Clients : held[c] \in Positions}

-----------------------------------------------------------------------------
Init ==
  /\ bitmap = Mask(EmptyBitmap, 0)
  /\ current = 0
  /\ held = [c \in Clients |-> NoPos]

(* initNodesInfo finds the port of a pod placed by an earlier incarnation. *)
(* It runs before the workers, so before the cursor has moved.             *)
Restore(c, pos) ==
  /\ current = 0
  /\ held[c] = NoPos
  /\ \A d \in Clients : held[d] # pos
  /\ bitmap' = Mask(bitmap, pos)
  /\ held' = [held EXCEPT ![c] = pos]
  /\ UNCHANGED current

(* Faults for the runs: the cursor stays on the position; it jumps over    *)
(* the next one.                                                           *)
TakeKeepsCursor(c) ==
  /\ c \notin Holders
  /\ \E pos \in NextFree(bitmap, current) :
       /\ bitmap' = Mask(bitmap, pos)
       /\ current' = pos
       /\ held' = [held EXCEPT ![c] = pos]

TakeSkipsOne(c) ==
  /\ c \notin Holders
  /\ \E pos \in NextFree(bitmap, current) :
       /\ bitmap' = Mask(bitmap, pos)
       /\ current' = pos + 2
       /\ held' = [held EXCEPT ![c] = pos]

(* FindNextFromCurrentAndSet finds a free position...                      *)
Take(c) ==
  /\ c \notin Holders
  /\ \E pos \in NextFree(bitmap, current) :
       /\ bitmap' = Mask(bitmap, pos)
       /\ current' = pos + 1
       /\ held' = [held EXCEPT ![c] = pos]

(* ... or has wrapped around without one.                                  *)
Refuse(c) ==
  /\ c \notin Holders
  /\ NextFree(bitmap, current) = {}
  /\ held' = [held EXCEPT ![c] = PoolFull]
  /\ UNCHANGED <<bitmap, current>>

(* Fault for the runs: the entry goes but its port stays masked.           *)
ReleaseWithoutUnmask(c) ==
  /\ c \in Holders
  /\ held' = [held EXCEPT ![c] = NoPos]
  /\ UNCHANGED <<bitmap, current>>

(* removeSharePodDepFromList unmasks the position of the entry it removes. *)
Release(c) ==
  /\ c \in Holders
  /\ ~UnmaskPanics(bitmap, held[c])
  /\ bitmap' = Unmask(bitmap, held[c])
  /\ held' = [held EXCEPT ![c] = NoPos]
  /\ UNCHANGED current

Next ==
  \E c \in Clients :
    \/ \E pos \in Positions \ {0} : Restore(c, pos)
    \/ Take(c)
    \/ Refuse(c)
    \/ Release(c)

Spec == Init /\ [][Next]_vars

-----------------------------------------------------------------------------
(* No two clients hold the same position: two pod managers would listen on *)
(* one port of the node.                                                   *)
DistinctPositions ==
  \A c, d \in Holders : held[c] = held[d] => c = d

(* The masked positions are exactly the reserved one and the held ones.    *)
(* A masked position nobody holds would be lost until the next restart; a  *)
(* held one that is not masked would be handed out twice.                  *)
NoLeakNoDoubleGrant ==
  bitmap.bits = {0} \cup {held[c] : c \in Holders}

(* Giving a position back never indexes the word slice out of range.       *)
ReleaseNeverPanics ==
  \A c \in Holders : ~UnmaskPanics(bitmap, held[c])

(* The cursor is what makes the bitmap round robin: whenever a position is *)
(* handed out, every position that is free and stays free comes strictly   *)
(* nearer to being handed out, so none is passed over more than L-1 times  *)
(* and a port just released is the last to be reused.  (Restore masks too, *)
(* but leaves the cursor at 0.)                                            *)
BypassBounded ==
  [][current' # 0 /\ ~(bitmap'.bits \subseteq bitmap.bits) =>
       \A pos \in Positions \ (bitmap.bits \cup bitmap'.bits) :
         Dist(current', pos) < Dist(current, pos)]_vars
-----------------------------------------------------------------------------
(* The promise behind the scan: a pool that gives any position nobody has  *)
(* and says "full" only when somebody has every one.                       *)
Pool == INSTANCE PortPool WITH owner <- held

PoolSpec == Pool!Spec
=============================================================================
