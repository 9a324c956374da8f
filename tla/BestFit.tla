------------------------------ MODULE BestFit -------------------------------
(***************************************************************************)
(* The scheduler's view of the cluster and its placement algorithm:        *)
(* syncNodeResources and syncPodResources build a NodeResources map, the   *)
(* filters remove GPUs from it and ScheduleAlgorithmBestFit picks a node   *)
(* and a GPUID.                                                            *)
(*                                                                         *)
(* A node's resources are a record: cpu and mem left, count of whole GPUs  *)
(* nobody asked for, and gpus, a function from the GPUIDs in use to what   *)
(* is left of them (req in thousandths, mem) and the tags put on them.     *)
(* Go iterates maps in random order and runs one goroutine per node, so    *)
(* whatever depends on the order is a set of outcomes here.                *)
(***************************************************************************)
EXTENDS Integers, FiniteSetsExt, Functions

CONSTANTS
  NoNode,     (* the empty node name                                        *)
  NoId,       (* the empty GPUID                                            *)
  FreshId     (* stands for the GPUID that NewGPUID makes up                *)

NoTag == "none"

-----------------------------------------------------------------------------
(* syncNodeResources: one goroutine per node.  The one of a node with a    *)
(* NoSchedule taint returns without wait.Done(), so wait.Wait() never does.*)
SyncNodesBlocks(nodes) == \E n \in nodes : n.tainted

SyncNodes(nodes) ==
  [name \in {n.name : n \in nodes} |->
     LET n == CHOOSE x \in nodes : x.name = name
     IN  [cpu |-> n.cpu, mem |-> n.mem, count |-> n.gpus, gpus |-> <<>>]]

(* syncPodResources.  A pod with a gpu_request annotation is skipped before*)
(* anything is charged; that leaves the charging of shared GPUs further    *)
(* down without a pod that reaches it, so no GPUID ever enters the map.    *)
SkippedPod(pod) == pod.dummy \/ pod.gpuRequest

Terminated(pod) == pod.phase = "over"

(* A pod owned by a SharePod is charged once, and once more as any pod,    *)
(* unless another GPU annotation stops it: gpu_request is empty.           *)
Charges(pod) ==
  IF pod.owned
  THEN IF pod.gpuOther \/ Terminated(pod) THEN 1 ELSE 2
  ELSE IF Terminated(pod) THEN 0 ELSE 1

GpusCharged(pod) ==
  IF Terminated(pod) \/ (pod.owned /\ pod.gpuOther) THEN 0 ELSE pod.gpus

CpuCharged(pods) == MapThenSumSet(LAMBDA p : Charges(p) * p.cpu, pods)
MemCharged(pods) == MapThenSumSet(LAMBDA p : Charges(p) * p.mem, pods)
CountCharged(pods) == MapThenSumSet(GpusCharged, pods)

SyncPods(res, pods) ==
  [name \in DOMAIN res |->
     LET on == {p \in pods : p.node = name /\ ~SkippedPod(p)}
     IN  [res[name] EXCEPT !.cpu = @ - CpuCharged(on), !.mem = @ - MemCharged(on),
                           !.count = @ - CountCharged(on)]]

-----------------------------------------------------------------------------
(* The filters, on the GPUs of one node.  An absent annotation is NoTag.   *)

GPUAffinityFilter(gpus, tag) ==
  IF tag = NoTag THEN gpus
  ELSE Restrict(gpus, {g \in DOMAIN gpus : tag \in gpus[g].affinity})

GPUAntiAffinityFilter(gpus, tag) ==
  IF tag = NoTag THEN gpus
  ELSE Restrict(gpus, {g \in DOMAIN gpus : tag \notin gpus[g].antiAffinity})

(* A GPU carries a tag other than the pod's.                               *)
Excludes(gpu, tag) == \E t \in gpu.exclusion : t # tag

(* The set of possible results: when the pod has a tag, the loop breaks at *)
(* the first untagged GPU it meets, and the GPUs it had not met yet stay.  *)
GPUExclusionFilter(gpus, tag) ==
  LET excluded == {g \in DOMAIN gpus : Excludes(gpus[g], tag)}
      untagged == {g \in DOMAIN gpus : gpus[g].exclusion = {}}
  IN  IF tag = NoTag \/ untagged = {}
      THEN {Restrict(gpus, DOMAIN gpus \ excluded)}
      ELSE {Restrict(gpus, DOMAIN gpus \ (seen \cup {u})) :
              seen \in SUBSET excluded, u \in untagged}

-----------------------------------------------------------------------------
(* ScheduleAlgorithmBestFit for a pod that asks for a share of a GPU, the  *)
(* only kind syncHandler passes on.                                        *)

Holes(res, pod) ==
  {g \in DOMAIN res.gpus : res.gpus[g].req >= pod.req /\ res.gpus[g].mem >= pod.gmem}

(* Fault for the runs: the node's CPU and memory are not compared.         *)
NodeCandidatesAnyCpu(name, res, pod) ==
  IF Holes(res, pod) # {}
  THEN {[node |-> name, gpuid |-> g, point |-> res.gpus[g].req - pod.req] : g \in Holes(res, pod)}
  ELSE IF res.count > 0 THEN {[node |-> name, gpuid |-> FreshId, point |-> 1000 - pod.req]}
                        ELSE {}

(* What tryBestNode is called with for one node.                           *)
NodeCandidates(name, res, pod) ==
  IF res.cpu < pod.cpu \/ res.mem < pod.mem THEN {}
  ELSE IF Holes(res, pod) # {}
  THEN {[node |-> name, gpuid |-> g, point |-> res.gpus[g].req - pod.req] : g \in Holes(res, pod)}
  ELSE IF res.count > 0
  THEN {[node |-> name, gpuid |-> FreshId, point |-> 1000 - pod.req]}
  ELSE {}

Nowhere == [node |-> NoNode, gpuid |-> NoId]

(* The first candidate with the lowest point wins, in goroutine order.     *)
BestFitOutcomes(nodeResources, pod) ==
  LET candidates == UNION {NodeCandidates(n, nodeResources[n], pod) : n \in DOMAIN nodeResources}
  IN  IF candidates = {} THEN {Nowhere}
      ELSE {[node |-> c.node, gpuid |-> c.gpuid] :
              c \in {x \in candidates : \A y \in candidates : x.point <= y.point}}

(* scheduleSharePod: the filters in their order, then the algorithm.       *)
Filtered(node, pod) ==
  LET tagged == GPUAntiAffinityFilter(GPUAffinityFilter(node.gpus, pod.affinity), pod.antiAffinity)
  IN  {[node EXCEPT !.gpus = g] : g \in GPUExclusionFilter(tagged, pod.exclusion)}

ScheduleOutcomes(nodeResources, pod) ==
  LET choices == {f \in [DOMAIN nodeResources ->
                           UNION {Filtered(nodeResources[n], pod) : n \in DOMAIN nodeResources}] :
                    \A n \in DOMAIN nodeResources : f[n] \in Filtered(nodeResources[n], pod)}
  IN  UNION {BestFitOutcomes(f, pod) : f \in choices}
=============================================================================
