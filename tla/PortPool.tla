------------------------------ MODULE PortPool ------------------------------
(***************************************************************************)
(* What a node's port bitmap promises to the pod requests that use it.     *)
(* There is no bitmap and no cursor here: a position is free iff nobody    *)
(* owns it.  Position 0 is reserved.                                       *)
(***************************************************************************)
EXTENDS Integers

CONSTANTS L, Clients, NoPos

VARIABLE owner    (* what each client was last answered *)

Ports == 1 .. L - 1

Full == -1

Free == {p \in Ports : \A c \in Clients : owner[c] # p}

Init == owner = [c \in Clients |-> NoPos]

(* A client without a port asks: any free port may be the answer.          *)
Grant(c) ==
  /\ owner[c] \notin Ports
  /\ \E p \in Free : owner' = [owner EXCEPT ![c] = p]

Reject(c) ==
  /\ owner[c] \notin Ports
  /\ Free = {}
  /\ owner' = [owner EXCEPT ![c] = Full]

GiveBack(c) ==
  /\ owner[c] \in Ports
  /\ owner' = [owner EXCEPT ![c] = NoPos]

Next == \E c \in Clients : Grant(c) \/ Reject(c) \/ GiveBack(c)

Spec == Init /\ [][Next]_owner
=============================================================================
