-------------------------- MODULE MCDeviceManager ---------------------------
(* One shared GPU and two functions, of which one may have two pods: they  *)
(* are charged twice, and more than Whole, when they are restored.         *)
EXTENDS DeviceManager, TLC

CONSTANTS g1, u1, d1, d2, p1, p2, p3

OneEach == (p1 :> d1) @@ (p2 :> d2)
TwoAndOne == (p1 :> d1) @@ (p2 :> d2) @@ (p3 :> d1)

New(share, gpu) ==
  [request |-> share, gpuid |-> gpu, env |-> "text", placed |-> NoGpu, port |-> PortUnset, device |-> NoUUID]

(* An earlier version has given d1 its device and the only port there is.  *)
Placed == [request |-> 6, gpuid |-> g1, env |-> "text", placed |-> g1, port |-> 1, device |-> u1]

(* It has put d2 on the GPU after the pool was full, and has not patched   *)
(* its pod.                                                                *)
Late == [Placed EXCEPT !.request = 4, !.env = "empty", !.port = PoolFull, !.device = NoUUID]

(* It has placed d1, whose template no longer names the GPU.               *)
Settled == [Placed EXCEPT !.gpuid = NoGpu]

(* Neither can be restored: the port of one was never recorded, the pod of *)
(* the other has no variable.                                              *)
Portless == [Settled EXCEPT !.port = PortUnset]
Bare == [Late EXCEPT !.gpuid = NoGpu, !.env = "none"]

Setups == {(d1 :> Settled) @@ (d2 :> Late),
           (d1 :> Placed) @@ (d2 :> New(5, g1)),
           (d1 :> New(NoRequest, NoGpu)) @@ (d2 :> New(6, g1)),
           (d1 :> Portless) @@ (d2 :> Bare)}

(* Two functions that are new.                                             *)
Newcomers == {(d1 :> New(4, g1)) @@ (d2 :> New(4, g1))}

(* The process is started twice, or once and one thing goes wrong.         *)
Tried ==
  {u \in [Faults -> 0 .. 2] : u["start"] + u["fail"] + u["error"] + u["delete"] <= 2}

(* One start and no fault.                                                 *)
OneStart == {u \in [Faults -> 0 .. 1] : u["fail"] + u["error"] + u["delete"] = 0}
=============================================================================
