----------------------------- MODULE Scheduler ------------------------------
(***************************************************************************)
(* pkg/scheduler/controller.go: the kubeshare-scheduler.                   *)
(*                                                                         *)
(* One worker takes pod keys from a work queue, reads the pod from the     *)
(* informer's cache, computes a placement from the cached nodes and pods   *)
(* and patches nodeName and the GPUID annotation.  A pod that fits nowhere *)
(* goes to pendingList; a ticker, and every deletion of a pod, a node or a *)
(* SharePod, moves the whole list back to the work queue.                  *)
(*                                                                         *)
(* Actors: API users and the default scheduler (api), the watch that       *)
(* brings the cache up to date and later runs the handlers (cache,         *)
(* addNotices, deleteNotice), the worker, the ticker, the queue's timers.  *)
(***************************************************************************)
EXTENDS BestFit, Workqueue

CONSTANTS
  Pods,             (* pod keys; a key is created and deleted at most once  *)
  Nodes,
  NodeStates,       (* what can become of a node; tainted: NoSchedule       *)
  GPUIDs,           (* what NewGPUID can make up                            *)
  PodSpec,          (* what a pod's manifest says                           *)
  NodeSpec,         (* what a node can allocate                             *)
  MaxPatchErrors,   (* patches that fail and change nothing                 *)
  MaxLostReplies,   (* patches that are applied and reported as failed      *)
  MaxNodeChanges,   (* changes of a node's taint or presence                *)
  MaxRestarts       (* crashes of the scheduler                             *)

PodStates ==
  [state : {"none", "live", "gone"}, node : Nodes \cup {NoNode}, gpuid : GPUIDs \cup {NoId}]

ASSUME SchedulerAssumption ==
  /\ NoNode \notin Nodes
  /\ "absent" \in NodeStates /\ NodeStates \subseteq {"absent", "ready", "tainted"}
  /\ NoId \notin GPUIDs \cup Pods
  /\ FreshId \notin GPUIDs \cup {NoId}
  /\ {MaxPatchErrors, MaxLostReplies, MaxNodeChanges, MaxRestarts} \subseteq Nat
  /\ IsFiniteSet(Pods)
  /\ DOMAIN PodSpec = Pods
  /\ \A p \in Pods : {PodSpec[p].cpu, PodSpec[p].mem, PodSpec[p].gpus} \subseteq Int
  /\ DOMAIN NodeSpec = Nodes
  /\ \A n \in Nodes : {NodeSpec[n].cpu, NodeSpec[n].mem, NodeSpec[n].gpus} \subseteq Int

VARIABLES
  api,              (* the pods the API server stores                       *)
  cache,            (* the pods the informer has seen                       *)
  addNotices,       (* AddFunc calls the informer still owes                *)
  deleteNotice,     (* it owes at least one DeleteFunc call                 *)
  nodes,            (* the nodes the informer has seen                      *)
  wq,               (* the rate-limited work queue                          *)
  pending,          (* pendingList                                          *)
  walk,             (* pendingListMux is free, or how many entries          *)
                    (* resourceChanged has put back while holding it        *)
  worker,           (* the worker: its program counter, key, choice, error  *)
  faults            (* how often each environment fault happened            *)

apiVars == <<api, cache, addNotices, deleteNotice, nodes, faults>>
listVars == <<pending, walk>>
vars == <<api, cache, addNotices, deleteNotice, nodes, wq, pending, walk, worker, faults>>

MutexFree == -1

PCs == {"idle", "read", "schedule", "park", "patch", "blocked", "finish"}

WorkerStates ==
  [pc : PCs, key : Pods \cup {NoId}, node : Nodes \cup {NoNode},
   gpuid : GPUIDs \cup {NoId}, failed : BOOLEAN]

(* Every variable has its type; the worker has a key unless it is idle and *)
(* a choice when it patches, and an error only when it is about to report  *)
(* it; the walk over pendingList stays inside it.                          *)
TypeOK ==
  /\ api \in [Pods -> PodStates]
  /\ cache \in [Pods -> PodStates]
  /\ addNotices \subseteq Pods
  /\ deleteNotice \in BOOLEAN
  /\ nodes \in [Nodes -> NodeStates]
  /\ faults \in [patch : Nat, reply : Nat, node : Nat, restart : Nat]
  /\ wq \in QueueType(Pods)
  /\ pending \in Seq(Pods)
  /\ walk \in {MutexFree} \cup 0 .. Len(pending)
  /\ worker \in WorkerStates
  /\ worker.pc = "idle" <=> worker.key = NoId
  /\ worker.pc = "patch" => worker.node \in Nodes /\ worker.gpuid \in GPUIDs
  /\ worker.failed => worker.pc = "finish"

-----------------------------------------------------------------------------
Absent == [state |-> "none", node |-> NoNode, gpuid |-> NoId]

Idle == [pc |-> "idle", key |-> NoId, node |-> NoNode, gpuid |-> NoId, failed |-> FALSE]

Init ==
  /\ api = [p \in Pods |-> Absent]
  /\ cache = [p \in Pods |-> Absent]
  /\ addNotices = {}
  /\ deleteNotice = FALSE
  /\ nodes \in [Nodes -> NodeStates]
  /\ wq = EmptyQueue
  /\ pending = <<>>
  /\ walk = MutexFree
  /\ worker = Idle
  /\ faults = [patch |-> 0, reply |-> 0, node |-> 0, restart |-> 0]

-----------------------------------------------------------------------------
(* The API server's other clients and the watch.                           *)

CreatePod(p) ==
  /\ api[p].state = "none"
  /\ api' = [api EXCEPT ![p].state = "live"]
  /\ UNCHANGED <<cache, addNotices, deleteNotice, nodes, wq, listVars, worker, faults>>

DeletePod(p) ==
  /\ api[p].state = "live"
  /\ api' = [api EXCEPT ![p].state = "gone"]
  /\ UNCHANGED <<cache, addNotices, deleteNotice, nodes, wq, listVars, worker, faults>>

(* The cluster's default scheduler binds a pod: no manifest the system     *)
(* writes names another scheduler.                                         *)
DefaultBind(p, n) ==
  /\ api[p].state = "live"
  /\ api[p].node = NoNode
  /\ nodes[n] = "ready"
  /\ api' = [api EXCEPT ![p].node = n]
  /\ UNCHANGED <<cache, addNotices, deleteNotice, nodes, wq, listVars, worker, faults>>

(* The informer's cache catches up with pod p; the handler runs later.     *)
Watch(p) ==
  /\ cache[p] # api[p]
  /\ cache' = [cache EXCEPT ![p] = api[p]]
  /\ addNotices' = IF cache[p].state = "none" THEN addNotices \cup {p} ELSE addNotices
  /\ deleteNotice' = IF api[p].state = "gone" THEN TRUE ELSE deleteNotice
  /\ UNCHANGED <<api, nodes, wq, listVars, worker, faults>>

(* A node is added, changed or removed; only removal has a handler.        *)
WatchNode(n, s) ==
  /\ nodes[n] # s
  /\ faults.node < MaxNodeChanges
  /\ nodes' = [nodes EXCEPT ![n] = s]
  /\ deleteNotice' = IF s = "absent" THEN TRUE ELSE deleteNotice
  /\ faults' = [faults EXCEPT !.node = @ + 1]
  /\ UNCHANGED <<api, cache, addNotices, wq, listVars, worker>>

-----------------------------------------------------------------------------
(* The handlers, the ticker and the queue's timers.                        *)

(* AddFunc: enqueuenPod.                                                   *)
NoticeAdd(p) ==
  /\ p \in addNotices
  /\ addNotices' = addNotices \ {p}
  /\ wq' = Add(wq, p)
  /\ UNCHANGED <<api, cache, deleteNotice, nodes, listVars, worker, faults>>

(* resourceChanged walks the list under its mutex: it adds the keys to the *)
(* work queue one by one, which the worker may already take, and empties   *)
(* the list at the end.                                                    *)

(* DeleteFunc of pods and nodes.                                           *)
NoticeDelete ==
  /\ deleteNotice
  /\ walk = MutexFree
  /\ deleteNotice' = FALSE
  /\ walk' = 0
  /\ UNCHANGED <<api, cache, addNotices, nodes, wq, pending, worker, faults>>

(* pendingInsurance, every five seconds.  DeleteFunc of SharePods has the  *)
(* same effect.                                                            *)
Tick ==
  /\ walk = MutexFree
  /\ walk' = 0
  /\ UNCHANGED <<apiVars, wq, pending, worker>>

PutBack ==
  /\ walk \in 0 .. Len(pending) - 1
  /\ wq' = Add(wq, pending[walk + 1])
  /\ walk' = walk + 1
  /\ UNCHANGED <<apiVars, pending, worker>>

(* Faults for the runs: the list is emptied before the walk is over; the   *)
(* position is not reset.                                                  *)
ClearsEarly ==
  /\ walk # MutexFree
  /\ pending' = <<>>
  /\ walk' = MutexFree
  /\ UNCHANGED <<apiVars, wq, worker>>

ClearKeepsWalk ==
  /\ walk = Len(pending)
  /\ pending' = <<>>
  /\ UNCHANGED <<apiVars, wq, walk, worker>>

ClearList ==
  /\ walk = Len(pending)
  /\ pending' = <<>>
  /\ walk' = MutexFree
  /\ UNCHANGED <<apiVars, wq, worker>>

Timer(p) ==
  /\ p \in wq.delayed
  /\ wq' = Fire(wq, p)
  /\ UNCHANGED <<apiVars, listVars, worker>>
-----------------------------------------------------------------------------
(* The worker: processNextWorkItem and syncHandler.                        *)

TakeKey ==
  /\ worker.pc = "idle"
  /\ wq.queue # <<>>
  /\ worker' = [worker EXCEPT !.pc = "read", !.key = Head(wq.queue), !.failed = FALSE]
  /\ wq' = Get(wq)
  /\ UNCHANGED <<apiVars, listVars>>

(* syncHandler goes on only with a cached pod that carries valid GPU       *)
(* annotations and, as far as the cache knows, was never placed.           *)
NeedsPlacement(p) ==
  /\ cache[p].state = "live"
  /\ PodSpec[p].gpuRequest
  /\ cache[p].node = NoNode
  /\ PodSpec[p].valid
  /\ cache[p].gpuid = NoId

ReadPod ==
  /\ worker.pc = "read"
  /\ worker' = [worker EXCEPT !.pc = IF NeedsPlacement(worker.key) THEN "schedule" ELSE "finish"]
  /\ UNCHANGED <<apiVars, wq, listVars>>

(* The listers' nodes and pods as scheduleSharePod receives them.          *)
ListedNodes ==
  {[name |-> n, tainted |-> nodes[n] = "tainted", cpu |-> NodeSpec[n].cpu,
    mem |-> NodeSpec[n].mem, gpus |-> NodeSpec[n].gpus] :
     n \in {m \in Nodes : nodes[m] # "absent"}}

ListedPods ==
  {[key |-> p, node |-> cache[p].node, dummy |-> FALSE, owned |-> FALSE, phase |-> "running",
    gpuRequest |-> PodSpec[p].gpuRequest, gpuOther |-> cache[p].gpuid # NoId,
    cpu |-> PodSpec[p].cpu, mem |-> PodSpec[p].mem, gpus |-> PodSpec[p].gpus] :
     p \in {q \in Pods : cache[q].state = "live"}}

ClusterResources == SyncPods(SyncNodes(ListedNodes), ListedPods)

(* scheduleSharePod.  No GPUID is in the map (see BestFit), so the filters *)
(* have nothing to remove.                                                 *)
Placements(p) == ScheduleOutcomes(ClusterResources, PodSpec[p])

(* NewGPUID draws at random; that it hits a GPUID in use is left out.      *)
GPUIDsInUse == {api[p].gpuid : p \in Pods}

Schedule ==
  /\ worker.pc = "schedule"
  /\ \/ /\ SyncNodesBlocks(ListedNodes)
        /\ worker' = [worker EXCEPT !.pc = "blocked"]
     \/ /\ ~SyncNodesBlocks(ListedNodes)
        /\ Nowhere \in Placements(worker.key)
        /\ worker' = [worker EXCEPT !.pc = "park"]
     \/ /\ ~SyncNodesBlocks(ListedNodes)
        /\ \E c \in Placements(worker.key) \ {Nowhere} :
           \E id \in IF c.gpuid = FreshId THEN GPUIDs \ GPUIDsInUse ELSE {c.gpuid} :
             worker' = [worker EXCEPT !.pc = "patch", !.node = c.node, !.gpuid = id]
  /\ UNCHANGED <<apiVars, wq, listVars>>

(* Fault for the runs: the error that the source has commented out is      *)
(* returned as well.                                                       *)
ParkWithError ==
  /\ worker.pc = "park"
  /\ walk = MutexFree
  /\ pending' = Append(pending, worker.key)
  /\ worker' = [worker EXCEPT !.pc = "finish", !.failed = TRUE]
  /\ UNCHANGED <<apiVars, wq, walk>>

(* "No enough resources": the key waits in pendingList, without an error.  *)
Park ==
  /\ worker.pc = "park"
  /\ walk = MutexFree
  /\ pending' = Append(pending, worker.key)
  /\ worker' = [worker EXCEPT !.pc = "finish"]
  /\ UNCHANGED <<apiVars, wq, walk>>

(* bindSharePodToNode.  The API server accepts the patch unless the pod is *)
(* gone or runs on another node: nodeName does not change once set.        *)
Accepts(p) ==
  /\ api[p].state = "live"
  /\ api[p].node \in {NoNode, worker.node}

PatchApplied(failed) ==
  /\ worker.pc = "patch"
  /\ Accepts(worker.key)
  /\ api' = [api EXCEPT ![worker.key].node = worker.node, ![worker.key].gpuid = worker.gpuid]
  /\ worker' = [worker EXCEPT !.pc = "finish", !.failed = failed, !.node = NoNode, !.gpuid = NoId]

PatchOK ==
  /\ PatchApplied(FALSE)
  /\ UNCHANGED <<cache, addNotices, deleteNotice, nodes, wq, listVars, faults>>

(* The patch is applied but the reply does not arrive.                     *)
PatchReplyLost ==
  /\ faults.reply < MaxLostReplies
  /\ PatchApplied(TRUE)
  /\ faults' = [faults EXCEPT !.reply = @ + 1]
  /\ UNCHANGED <<cache, addNotices, deleteNotice, nodes, wq, listVars>>

(* The patch is refused, or (boundedly often) fails for another reason.    *)
PatchFails ==
  /\ worker.pc = "patch"
  /\ \/ /\ ~Accepts(worker.key)
        /\ UNCHANGED faults
     \/ /\ faults.patch < MaxPatchErrors
        /\ faults' = [faults EXCEPT !.patch = @ + 1]
  /\ worker' = [worker EXCEPT !.pc = "finish", !.failed = TRUE, !.node = NoNode, !.gpuid = NoId]
  /\ UNCHANGED <<api, cache, addNotices, deleteNotice, nodes, wq, listVars>>

(* Faults for the runs: an error is swallowed; every key is retried.       *)
FinishForgets ==
  /\ worker.pc = "finish"
  /\ wq' = Done(wq, worker.key)
  /\ worker' = [worker EXCEPT !.pc = "idle", !.key = NoId, !.failed = FALSE]
  /\ UNCHANGED <<apiVars, listVars>>

FinishAlwaysRetries ==
  /\ worker.pc = "finish"
  /\ wq' = Done(AddRateLimited(wq, worker.key), worker.key)
  /\ worker' = [worker EXCEPT !.pc = "idle", !.key = NoId, !.failed = FALSE]
  /\ UNCHANGED <<apiVars, listVars>>

(* syncHandler has returned: AddRateLimited after an error, and Done.      *)
Finish ==
  /\ worker.pc = "finish"
  /\ wq' = Done(IF worker.failed THEN AddRateLimited(wq, worker.key) ELSE wq, worker.key)
  /\ worker' = [worker EXCEPT !.pc = "idle", !.key = NoId, !.failed = FALSE]
  /\ UNCHANGED <<apiVars, listVars>>

(* The process dies and is started again.  Lists, queue and timers are     *)
(* gone; the informer lists the pods anew and owes an AddFunc call for     *)
(* each.  Run waits for the caches of pods and SharePods but not for that  *)
(* of nodes, of which any part may still be missing.                       *)
Restart ==
  /\ faults.restart < MaxRestarts
  /\ faults' = [faults EXCEPT !.restart = @ + 1]
  /\ cache' = api
  /\ addNotices' = {p \in Pods : api[p].state = "live"}
  /\ deleteNotice' = FALSE
  /\ \E missing \in SUBSET Nodes :
       nodes' = [n \in Nodes |-> IF n \in missing THEN "absent" ELSE nodes[n]]
  /\ wq' = EmptyQueue
  /\ pending' = <<>>
  /\ walk' = MutexFree
  /\ worker' = Idle
  /\ UNCHANGED api

WorkerStep ==
  \/ TakeKey
  \/ ReadPod
  \/ Schedule
  \/ Park
  \/ PatchOK
  \/ PatchReplyLost
  \/ PatchFails
  \/ Finish

Next ==
  \/ WorkerStep
  \/ NoticeDelete
  \/ Tick
  \/ PutBack
  \/ ClearList
  \/ Restart
  \/ \E p \in Pods :
       \/ CreatePod(p)
       \/ DeletePod(p)
       \/ Watch(p)
       \/ NoticeAdd(p)
       \/ Timer(p)
       \/ \E n \in Nodes : DefaultBind(p, n)
  \/ \E n \in Nodes, s \in NodeStates : WatchNode(n, s)

Spec == Init /\ [][Next]_vars

(* The worker goroutine, the informer, the ticker and the timers run; API  *)
(* clients and nodes need not do anything.  The worker gets the mutex it   *)
(* waits for although others take it again and again: a Go mutex turns to  *)
(* handing itself over in order when somebody has waited for long.         *)
Fairness ==
  /\ WF_vars(WorkerStep)
  /\ SF_vars(Park)
  /\ WF_vars(NoticeDelete)
  /\ WF_vars(Tick)
  /\ WF_vars(PutBack \/ ClearList)
  /\ \A p \in Pods : WF_vars(Watch(p)) /\ WF_vars(NoticeAdd(p)) /\ WF_vars(Timer(p))

FairSpec == Spec /\ Fairness

-----------------------------------------------------------------------------
(* Where the obligation to place pod p, its key, can be.                   *)
Places == {"notice", "queue", "timer", "list", "worker"}

InList(p) == \E i \in 1 .. Len(pending) : i > walk /\ pending[i] = p

InHand(p) ==
  /\ worker.key = p
  /\ \/ worker.pc \in {"read", "schedule", "park", "patch", "blocked"}
     \/ worker.pc = "finish" /\ worker.failed

At(p, place) ==
  CASE place = "notice" -> p \in addNotices
    [] place = "queue"  -> p \in wq.dirty
    [] place = "timer"  -> p \in wq.delayed
    [] place = "list"   -> InList(p)
    [] place = "worker" -> InHand(p)

(* A pod the cache knows and the scheduler has to place.                   *)
Waiting(p) ==
  /\ PodSpec[p].gpuRequest /\ PodSpec[p].valid
  /\ cache[p].state = "live"
  /\ api[p].state = "live"
  /\ api[p].node = NoNode

(* No waiting pod is forgotten: whatever the handlers, the worker, the     *)
(* ticker and the failures do, somebody still has its key.                 *)
NoLostPod == \A p \in Pods : Waiting(p) => \E place \in Places : At(p, place)

(* No key is in two places, nor twice in the list: a pod is never handed   *)
(* to the placement algorithm twice for one obligation.                    *)
OneToken ==
  /\ \A p \in Pods : \A a, b \in Places : At(p, a) /\ At(p, b) => a = b
  /\ IsInjective(pending)

(* The work queue stays consistent, and only the worker's key is out.      *)
QueueConsistent ==
  /\ Consistent(wq)
  /\ wq.processing = IF worker.pc = "idle" THEN {} ELSE {worker.key}

(* Once a GPUID and a node are on a pod they stay, until a reply is lost:  *)
(* the guards of syncHandler against a second placement work although they *)
(* read a cache that may be behind.                                        *)
PlacedOnce ==
  [][\A p \in Pods : api[p].gpuid # NoId /\ faults.reply = 0 =>
        api'[p].gpuid = api[p].gpuid /\ api'[p].node = api[p].node]_vars

(* What the cached objects leave free on a node, counted directly.         *)
Requested(n, what(_)) ==
  MapThenSumSet(LAMBDA q : what(PodSpec[q]),
                {q \in Pods : /\ cache[q].state = "live" /\ cache[q].node = n
                              /\ ~PodSpec[q].gpuRequest})

Fits(p, n) ==
  /\ nodes[n] = "ready"
  /\ Requested(n, LAMBDA s : s.cpu) + PodSpec[p].cpu <= NodeSpec[n].cpu
  /\ Requested(n, LAMBDA s : s.mem) + PodSpec[p].mem <= NodeSpec[n].mem
  /\ Requested(n, LAMBDA s : s.gpus) < NodeSpec[n].gpus

(* Whatever the order of the per-node goroutines and of the maps, the      *)
(* chosen node has room for the pod beside the pods that ask for whole     *)
(* GPUs, and a pod is parked only when no node has.                        *)
PlacedWhereItFits ==
  [][worker.pc = "schedule" =>
       /\ worker'.pc = "patch" => Fits(worker.key, worker'.node)
       /\ worker'.pc = "park" => \A n \in Nodes : ~Fits(worker.key, n)]_vars

(* A pod in pendingList is taken up again unless it is bound or deleted    *)
(* meanwhile: nothing but time is needed.                                  *)
ParkedRetried ==
  \A p \in Pods :
    (\E i \in 1 .. Len(pending) : pending[i] = p) ~> (p \in wq.processing \/ ~Waiting(p))

(* A pod is not left waiting for ever while some node has room for it.     *)
HasRoom(p) ==
  /\ ~SyncNodesBlocks(ListedNodes)
  /\ Nowhere \notin Placements(p)

PlacedEventually ==
  \A p \in Pods : []<>~(Waiting(p) /\ HasRoom(p))

(* syncNodeResources: "If NoSchedule Taint on the node, don't add to       *)
(* NodeResources!" - such a node is left out and the others are used.      *)
PlacementReturns ==
  \A p \in Pods : p \in wq.processing ~> p \notin wq.processing

(* syncPodResources: "if this pod is created because of a sharepod,        *)
(* calculating their resource usage later" - so that a node never has more *)
(* GPUIDs, each a physical GPU, than it has GPUs.                          *)
GpusNotOvercommitted ==
  \A n \in Nodes :
    Cardinality({api[p].gpuid : p \in {q \in Pods : api[q].state = "live" /\ api[q].node = n}}
                  \ {NoId}) <= NodeSpec[n].gpus
=============================================================================
