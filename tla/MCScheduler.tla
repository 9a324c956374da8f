---------------------------- MODULE MCScheduler -----------------------------
(* Pods that ask for a share of a GPU, some with invalid annotations, and  *)
(* pods that ask for a whole GPU and compete with them.                    *)
EXTENDS Scheduler, TLC

CONSTANTS p1, p2, n1, n2, g1, g2, g3

SharePod == [gpuRequest |-> TRUE, valid |-> TRUE, cpu |-> 1, mem |-> 1, gpus |-> 0,
             req |-> 500, gmem |-> 0,
             affinity |-> NoTag, antiAffinity |-> NoTag, exclusion |-> NoTag]

PlainPod == [SharePod EXCEPT !.gpuRequest = FALSE, !.valid = FALSE,
                             !.cpu = 2, !.gpus = 1]

TwoShares == (p1 :> SharePod) @@ (p2 :> SharePod)

ShareAndPlain == (p1 :> SharePod) @@ (p2 :> PlainPod)

OneGpuEach == [n \in Nodes |-> [cpu |-> 2, mem |-> 2, gpus |-> 1]]

(* A plain pod leaves too little CPU on n1 and no GPU on n2.               *)
CpuOrGpuShort ==
  (n1 :> [cpu |-> 2, mem |-> 2, gpus |-> 2]) @@ (n2 :> [cpu |-> 3, mem |-> 2, gpus |-> 1])

(* The GPUIDs are interchangeable.  Used with safety properties only.      *)
GpuSymmetry == Permutations(GPUIDs)
=============================================================================
