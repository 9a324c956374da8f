--------------------------- MODULE DeviceManager ----------------------------
(***************************************************************************)
(* The device manager's pool of shared GPUs: devicemanager/gpupool.go and  *)
(* the controller that calls it, for one node.                             *)
(*                                                                         *)
(* A shared GPU (GPUID) is a label; a dummy pod that asks kubelet for a    *)
(* whole GPU gives it a device, whose UUID is read from the dummy pod's    *)
(* log.  Requests for a shared GPU are listed in its entry and wait for    *)
(* that UUID.  Everything is in memory: after a restart initNodesInfo      *)
(* rebuilds it from the dummy pods and from what the SharePods record, and *)
(* cleanOrphanDummyPod deletes the dummy pods nobody seems to use.         *)
(*                                                                         *)
(* A port is its position, the port less 50050.  Requests are integers,    *)
(* Whole is 1.0.  Pods are taken as the informer has them; of Deployments  *)
(* the informer may know fewer, or still know one that is deleted.         *)
(***************************************************************************)
EXTENDS Bitmap, Workqueue, FiniteSets

Sums == INSTANCE FiniteSetsExt

CONSTANTS
  Keys,         (* Deployments, and the SharePods of the same names        *)
  Pods,         (* their pods                                              *)
  Owner,        (* Owner[p]: the Deployment of p                           *)
  Gpus, Devices,
  Clusters,     (* the SharePods there may be: functions from Keys to Apps *)
  NoGpu, NoRequest, NoUUID, NoKey, NoPod,
  Whole,
  PoolOpen,     (* FALSE: no request gets past the check of controller.go  *)
                (* line 348, as in the program.  TRUE: some do.            *)
  Bounds,       (* how often each of Faults may happen, together           *)
  MaxTasks      (* a GPU has fewer goroutines when an event adds one       *)

(* What happens to the process and around it: it is started, a dummy pod   *)
(* fails, a call to the API server fails, a Deployment is deleted.         *)
Faults == {"start", "fail", "error", "delete"}

(* The position of port 0, which a SharePod without a port has.            *)
PortUnset == -50050

(* A SharePod and its Deployment's template: the share of a GPU and the    *)
(* GPUID of the pods' annotations; their first variable; and where the     *)
(* SharePod says they have been placed (Spec and Status, which no code of  *)
(* this version writes): on which GPU, with which port and device.         *)
Apps == [request : 0 .. Whole \cup {NoRequest}, gpuid : Gpus \cup {NoGpu},
         env : {"none", "empty", "text"},
         placed : Gpus \cup {NoGpu}, port : Positions \cup {PoolFull, PortUnset},
         device : Devices \cup {NoUUID}]

ASSUME DeviceManagerAssumption ==
  /\ Pods \cap Keys = {}
  /\ Owner \in [Pods -> Keys]
  /\ Whole \in Nat /\ NoRequest \notin Nat
  /\ NoGpu \notin Gpus /\ NoUUID \notin Devices
  /\ Clusters \subseteq [Keys -> Apps]
  /\ PoolOpen \in BOOLEAN
  /\ Bounds \subseteq [Faults -> Nat] /\ MaxTasks \in Nat
  /\ W <= -PortUnset

(* What an earlier version has recorded: it gave no port of the pool to    *)
(* two SharePods, and wrote down the device with one SharePod at least of  *)
(* those on it; and it put a SharePod on a GPU when what that asks for,    *)
(* counted once, fitted.                                                   *)
ASSUME RecordedAssumption ==
  \A c \in Clusters :
    /\ \A k, l \in Keys :
         /\ c[k].placed # NoGpu =>
              \E i \in Keys : c[i].placed = c[k].placed /\ c[i].device \in Devices
         /\ c[k].placed # NoGpu /\ c[l].placed # NoGpu /\ c[k].port = c[l].port
              => k = l \/ c[k].port \in {PoolFull, PortUnset}
    /\ \A g \in Gpus :
         Sums!MapThenSumSet(LAMBDA k : c[k].request,
                            {k \in Keys : c[k].placed = g /\ c[k].request # NoRequest}) <= Whole

VARIABLES
  (* the process *)
  proc,         (* down, starting, restoring, restored, cleaning, running  *)
  panic,        (* what ended the last incarnation                         *)
  registered,   (* the node's config client has sent its devices           *)
  known,        (* nodesInfo has the node                                  *)
  gpus,         (* GPUID2GPU: uuid, usage, list of requests                *)
  pool,         (* PodManagerPortBitmap: bitmap, cursor                    *)
  restore,      (* initNodesInfo: the SharePods it has still to look up,   *)
                (* the pods it found of the last one, the GPUs for later   *)
  wq, worker,
  go,           (* the goroutines of createDummyPod and of what it calls   *)
  depCache,     (* the informer's Deployments                              *)
  (* the cluster *)
  app,          (* the SharePods and their templates                       *)
  dummy,        (* dummy[g]: phase and device                              *)
  pods,         (* pods[p]: phase and the device in its environment        *)
  deps,         (* the Deployments there are                               *)
  used          (* counters for the bounds                                 *)

memory == <<registered, known, gpus, pool, restore>>
work == <<wq, worker>>
cluster == <<app, dummy, pods, deps>>
vars == <<proc, panic, memory, work, go, depCache, cluster, used>>

(* An NVIDIA_VISIBLE_DEVICES without a value.                              *)
Blank == "blank"

Absent == [phase |-> "absent", device |-> NoUUID]
Dummies == [phase : {"absent", "pending", "silent", "printed", "failed"},
            device : Devices \cup {NoUUID}]
Idle == [at |-> "idle", key |-> NoKey, todo |-> {}, pod |-> NoPod, uuid |-> NoUUID]
Entries == [uuid : Devices \cup {NoUUID}, usage : Nat,
            list : Seq([key : Keys, req : Nat, port : Positions \cup {PoolFull}])]
NewEntry == [uuid |-> NoUUID, usage |-> 0, list |-> <<>>]
NewPool == [bitmap |-> Mask(EmptyBitmap, 0), cursor |-> 0]
NoRestore == [keys |-> {}, found |-> {}, later |-> {}]
PodDevices == Devices \cup {NoUUID, Blank}

(* A goroutine: seen is the UUID it read; early, it was started before     *)
(* cleanOrphanDummyPod had run.  Goroutines alike are kept once.           *)
Tasks == [gpu : Gpus, at : {"get", "check", "create", "delete", "log", "set"},
          seen : Devices \cup {NoUUID}, early : BOOLEAN]

TypeOK ==
  /\ proc \in {"down", "starting", "restoring", "restored", "cleaning", "running"}
  /\ panic \in {"none", "killed", "port", "env", "entry", "patch", "unlock"}
  /\ registered \in BOOLEAN /\ known \in BOOLEAN
  /\ DOMAIN gpus \subseteq Gpus /\ \A g \in DOMAIN gpus : gpus[g] \in Entries
  /\ pool \in [bitmap : Bitmaps, cursor : Cursors]
  /\ restore \in [keys : SUBSET Keys, found : SUBSET [pod : Pods, device : PodDevices],
                  later : SUBSET Gpus]
  /\ wq \in QueueType(Keys) /\ Consistent(wq)
  /\ worker \in [at : {"idle", "sync", "patch"}, key : Keys \cup {NoKey},
                 todo : SUBSET Pods,
                 pod : Pods \cup {NoPod}, uuid : Devices \cup {NoUUID}]
  /\ go \subseteq Tasks
  /\ app \in Clusters
  /\ dummy \in [Gpus -> Dummies]
  /\ depCache \subseteq Keys /\ deps \subseteq Keys
  /\ pods \in [Pods -> [phase : {"unscheduled", "scheduled", "gone"}, device : PodDevices]]
  /\ used \in [Faults -> Nat]

(* An earlier version has placed the pods of some SharePods, and left the  *)
(* dummy pods of their GPUs.                                               *)
Init ==
  /\ proc = "down" /\ panic = "none"
  /\ registered = FALSE /\ known = FALSE /\ gpus = <<>> /\ pool = NewPool /\ restore = NoRestore
  /\ wq = EmptyQueue /\ worker = Idle
  /\ go = {}
  /\ depCache = {}
  /\ app \in Clusters
  /\ dummy = [g \in Gpus |->
       IF \E k \in Keys : app[k].placed = g
       THEN [phase |-> "printed",
             device |-> CHOOSE d \in Devices : \E k \in Keys : app[k].placed = g /\ app[k].device = d]
       ELSE Absent]
  /\ pods = [p \in Pods |->
       [phase |-> IF app[Owner[p]].placed # NoGpu THEN "scheduled" ELSE "unscheduled",
        device |-> NoUUID]]
  /\ deps = Keys
  /\ used = [f \in Faults |-> 0]

(* Nobody but the action itself has nodesInfoMux for more than a step.     *)
Unlocked == proc \notin {"down", "restoring", "cleaning"}

May(f) == [used EXCEPT ![f] = @ + 1] \in Bounds
Happens(f) == May(f) /\ used' = [used EXCEPT ![f] = @ + 1]

(* The process ends, and with it all it had in memory.                     *)
Ends(cause) ==
  /\ proc' = "down" /\ panic' = cause
  /\ registered' = FALSE /\ known' = FALSE /\ gpus' = <<>> /\ pool' = NewPool /\ restore' = NoRestore
  /\ wq' = EmptyQueue /\ worker' = Idle
  /\ go' = {}
  /\ depCache' = {}

-----------------------------------------------------------------------------
(* Starting.                                                               *)

(* Kubernetes starts the process; the informers are started.  Run waits    *)
(* for the caches of pods and SharePods, but not for the Deployments.      *)
Start ==
  /\ proc = "down"
  /\ Happens("start")
  /\ proc' = "starting"
  /\ UNCHANGED <<panic, memory, work, go, depCache, cluster>>

(* initNodesInfo, which holds the mutex from here on: a GPU that has a     *)
(* dummy pod gets an entry.                                                *)
InitNodesInfo ==
  /\ proc = "starting"
  /\ LET entries == {g \in Gpus : dummy[g].phase # "absent"} IN
       /\ known' = (entries # {})
       /\ gpus' = [g \in entries |-> NewEntry]
  /\ proc' = "restoring"
  /\ restore' = [NoRestore EXCEPT !.keys = Keys]
  /\ UNCHANGED <<panic, registered, pool, work, go, depCache, cluster, used>>

(* Its loop looks up the Deployment of a SharePod, and that one's pods:    *)
(* those that have a GPU request and a node are put on the list of the GPU *)
(* the SharePod records, if it has an entry.                               *)
LookUp(k) ==
  /\ proc = "restoring" /\ restore.found = {}
  /\ k \in restore.keys
  /\ LET listed == {p \in Pods : Owner[p] = k /\ pods[p].phase = "scheduled"}
         wanted == k \in depCache /\ app[k].request # NoRequest /\ app[k].placed \in DOMAIN gpus
     IN  restore' = [restore EXCEPT
           !.keys = @ \ {k},
           !.found = IF wanted THEN {[pod |-> p, device |-> pods[p].device] : p \in listed} ELSE {}]
  /\ UNCHANGED <<proc, panic, registered, known, gpus, pool, work, go, depCache, cluster, used>>

(* Fault for the runs: the request is listed but not charged.              *)
ListedUncharged(entry, k, port) ==
  [entry EXCEPT !.list = Append(@, [key |-> k, req |-> app[k].request, port |-> port])]

(* A request with its port is put on the list of an entry and charged.     *)
Listed(entry, k, port) ==
  [entry EXCEPT !.usage = @ + app[k].request,
                !.list = Append(@, [key |-> k, req |-> app[k].request, port |-> port])]

(* The pod's device is its first variable, unless it has an                *)
(* NVIDIA_VISIBLE_DEVICES; a pod without variables is a panic, and so is   *)
(* port 0.                                                                 *)
RestorePanics(pod) ==
  LET k == Owner[pod.pod] IN
    \/ MaskPanics(pool.bitmap, app[k].port) /\ Ends("port")
    \/ /\ ~MaskPanics(pool.bitmap, app[k].port)
       /\ pod.device = NoUUID /\ app[k].env = "none"
       /\ Ends("env")

HasDevice(pod) ==
  IF pod.device = NoUUID THEN app[Owner[pod.pod]].env = "text" ELSE pod.device # Blank

(* Fault for the runs: the recorded port is not masked.                    *)
RestoreListedUnmasked(pod) ==
  LET k == Owner[pod.pod]
      g == app[k].placed
      uuid == IF HasDevice(pod) /\ gpus[g].uuid = NoUUID THEN app[k].device ELSE gpus[g].uuid
  IN  /\ pod.device = NoUUID => app[k].env # "none"
      /\ gpus' = [gpus EXCEPT ![g] = [Listed(@, k, app[k].port) EXCEPT !.uuid = uuid]]
      /\ restore' = [restore EXCEPT !.found = @ \ {pod}]
      /\ UNCHANGED <<proc, panic, registered, known, pool, work, go, depCache>>

(* A pod without a device gets it from the worker, now or when its GPU has *)
(* one.                                                                    *)
RestoreListed(pod) ==
  LET k == Owner[pod.pod]
      g == app[k].placed
      uuid == IF HasDevice(pod) /\ gpus[g].uuid = NoUUID THEN app[k].device ELSE gpus[g].uuid
  IN  /\ ~MaskPanics(pool.bitmap, app[k].port)
      /\ pod.device = NoUUID => app[k].env # "none"
      /\ gpus' = [gpus EXCEPT ![g] = [Listed(@, k, app[k].port) EXCEPT !.uuid = uuid]]
      /\ pool' = [pool EXCEPT !.bitmap = Mask(@, app[k].port)]
      /\ wq' = IF ~HasDevice(pod) /\ gpus[g].uuid # NoUUID THEN Add(wq, k) ELSE wq
      /\ restore' = [restore EXCEPT
           !.found = @ \ {pod},
           !.later = IF ~HasDevice(pod) /\ gpus[g].uuid = NoUUID THEN @ \cup {g} ELSE @]
      /\ UNCHANGED <<proc, panic, registered, known, worker, go, depCache>>

RestorePod(pod) ==
  /\ proc = "restoring" /\ pod \in restore.found
  /\ RestorePanics(pod) \/ RestoreListed(pod)
  /\ UNCHANGED <<cluster, used>>

Restored ==
  /\ proc = "restoring" /\ restore.keys = {} /\ restore.found = {}
  /\ proc' = "restored"
  /\ go' = {[gpu |-> g, at |-> "get", seen |-> NoUUID, early |-> TRUE] : g \in restore.later}
  /\ restore' = NoRestore
  /\ UNCHANGED <<panic, registered, known, gpus, pool, work, depCache, cluster, used>>

(* cleanOrphanDummyPod, which has the mutex until its end: an entry        *)
(* without a list goes, and then its dummy pod; that the call fails is     *)
(* ignored.                                                                *)
CleanOrphan(g) ==
  /\ proc \in {"restored", "cleaning"}
  /\ g \in DOMAIN gpus /\ gpus[g].list = <<>>
  /\ gpus' = [h \in DOMAIN gpus \ {g} |-> gpus[h]]
  /\ \/ dummy' = [dummy EXCEPT ![g] = Absent] /\ UNCHANGED used
     \/ UNCHANGED dummy /\ Happens("error")
  /\ proc' = "cleaning"
  /\ UNCHANGED <<panic, registered, known, pool, restore, work, go, depCache, app, pods, deps>>

(* No entry is without a list: the config manager and the workers start.   *)
StartWorkers ==
  /\ proc \in {"restored", "cleaning"}
  /\ \A g \in DOMAIN gpus : gpus[g].list # <<>>
  /\ proc' = "running"
  /\ UNCHANGED <<panic, memory, work, go, depCache, cluster, used>>

(* clientHandler: the node's config client connects.                       *)
Register ==
  /\ proc = "running" /\ ~registered
  /\ registered' = TRUE /\ known' = TRUE
  /\ UNCHANGED <<proc, panic, gpus, pool, restore, work, go, depCache, cluster, used>>

-----------------------------------------------------------------------------
(* Event handlers, active as soon as the informers are; those that take    *)
(* the mutex wait while initNodesInfo or cleanOrphanDummyPod has it.       *)

(* enqueueDeployment: a Deployment is new, has changed, or is resynced.    *)
DeploymentEvent(k) ==
  /\ proc # "down"
  /\ k \in deps
  /\ depCache' = depCache \cup {k}
  /\ wq' = Add(wq, k)
  /\ UNCHANGED <<proc, panic, memory, worker, go, cluster, used>>

(* The key removeSharePodDepFromList looks for: the pod's own.             *)
RemovedKeyOfOwner(p) == Owner[p]
RemovedKey(p) == p

(* handleDeletedSharePodDep.  An entry that is found is removed, and the   *)
(* mutex, already unlocked, is unlocked again: the runtime aborts.         *)
DeploymentDeleted(k) ==
  /\ Unlocked
  /\ k \in depCache \ deps
  /\ IF \E p \in Pods, g \in DOMAIN gpus :
          /\ Owner[p] = k /\ pods[p].phase = "scheduled" /\ app[Owner[p]].gpuid = g
          /\ \E e \in Range(gpus[g].list) : e.key = RemovedKey(p)
     THEN Ends("unlock")
     ELSE /\ depCache' = depCache \ {k}
          /\ UNCHANGED <<proc, panic, memory, work, go>>
  /\ UNCHANGED <<cluster, used>>

(* A goroutine is started, or goes on.                                     *)
NewTask(g, at) == [gpu |-> g, at |-> at, seen |-> NoUUID, early |-> proc # "running"]

(* handleObject on a dummy pod that runs or has failed, while its GPU has  *)
(* no UUID.  (The pod of a function ends in no step: its Deployment is     *)
(* looked up by the name of its ReplicaSet, which is no Deployment's.)     *)
(* The informer hands over the dummy pod: it is new or changed, or is      *)
(* resynced, every 30 seconds.  A deletion hands over the pod as it was;   *)
(* that is a goroutine started before and late in its first call.          *)
DummyEvent(g) ==
  /\ Unlocked
  /\ Cardinality({t \in go : t.gpu = g}) < MaxTasks
  /\ dummy[g].phase \in {"silent", "printed", "failed"}
  /\ g \in DOMAIN gpus /\ gpus[g].uuid = NoUUID
  /\ go' = go \cup {NewTask(g, IF dummy[g].phase = "failed" THEN "delete" ELSE "log")}
  /\ UNCHANGED <<proc, panic, memory, work, depCache, cluster, used>>

-----------------------------------------------------------------------------
(* createDummyPod and getAndSetUUIDFromDummyPod: each step is one call to  *)
(* the API server or one section under the mutex.                          *)

Becomes(t, at) == go' = (go \ {t}) \cup {[t EXCEPT !.at = at]}
Stops(t) == go' = go \ {t}

GetDummy(t) ==
  /\ t.at = "get"
  /\ CASE dummy[t.gpu].phase = "absent" -> Becomes(t, "check")
       [] dummy[t.gpu].phase = "pending" -> Stops(t)
       [] dummy[t.gpu].phase = "failed" -> Becomes(t, "delete")
       [] OTHER -> Becomes(t, "log")
  /\ UNCHANGED <<proc, panic, memory, work, depCache, cluster, used>>

(* havetocreate: the GPU still has an entry.                               *)
CheckEntry(t) ==
  /\ t.at = "check" /\ Unlocked
  /\ IF t.gpu \in DOMAIN gpus THEN Becomes(t, "create") ELSE Stops(t)
  /\ UNCHANGED <<proc, panic, memory, work, depCache, cluster, used>>

(* createit: that the pod is there already is no error.                    *)
CreateDummy(t) ==
  /\ t.at = "create"
  /\ Stops(t)
  /\ dummy' = IF dummy[t.gpu] = Absent THEN [dummy EXCEPT ![t.gpu].phase = "pending"] ELSE dummy
  /\ UNCHANGED <<proc, panic, memory, work, depCache, app, pods, deps, used>>

(* By name: the pod may be another than the one that was seen to fail.     *)
DeleteFailed(t) ==
  /\ t.at = "delete"
  /\ dummy' = [dummy EXCEPT ![t.gpu] = Absent]
  /\ Becomes(t, "get")
  /\ UNCHANGED <<proc, panic, memory, work, depCache, app, pods, deps, used>>

(* The log, and the UUIDs of the node: a log without a known UUID is read  *)
(* again by a new goroutine.  A failed pod's log is what it had printed.   *)
ReadLog(t) ==
  /\ t.at = "log"
  /\ IF dummy[t.gpu].phase \in {"absent", "pending"}
     THEN Stops(t)
     ELSE IF registered /\ dummy[t.gpu].phase # "silent" /\ dummy[t.gpu].device # NoUUID
     THEN go' = (go \ {t}) \cup {[t EXCEPT !.at = "set", !.seen = dummy[t.gpu].device]}
     ELSE Becomes(t, "get")
  /\ UNCHANGED <<proc, panic, memory, work, depCache, cluster, used>>

(* One of these calls has failed: nothing tries it again.                  *)
CallFails(t) ==
  /\ t.at \in {"get", "create", "log"}
  /\ Happens("error")
  /\ Stops(t)
  /\ UNCHANGED <<proc, panic, memory, work, depCache, cluster>>

KeysOf(entry) == {e.key : e \in Range(entry.list)}

(* The keys of a list are added to the queue, one after the other.         *)
AllAdded(q, list) ==
  LET after[n \in 0 .. Len(list)] == IF n = 0 THEN q ELSE Add(after[n - 1], list[n].key)
  IN  after[Len(list)]

(* Fault for the runs: the requests that wait are not queued.              *)
SetUUIDQuietly(t) ==
  /\ t.at = "set" /\ Unlocked
  /\ IF t.gpu \in DOMAIN gpus
     THEN /\ gpus' = [gpus EXCEPT ![t.gpu].uuid = t.seen]
          /\ Stops(t)
          /\ UNCHANGED <<proc, panic, registered, known, pool, restore, work, depCache>>
     ELSE Ends("entry")
  /\ UNCHANGED <<cluster, used>>

(* Under the mutex.  An entry that is gone is a nil pointer.               *)
SetUUID(t) ==
  /\ t.at = "set" /\ Unlocked
  /\ IF t.gpu \in DOMAIN gpus
     THEN /\ gpus' = [gpus EXCEPT ![t.gpu].uuid = t.seen]
          /\ wq' = AllAdded(wq, gpus[t.gpu].list)
          /\ Stops(t)
          /\ UNCHANGED <<proc, panic, registered, known, pool, restore, worker, depCache>>
     ELSE Ends("entry")
  /\ UNCHANGED <<cluster, used>>

TaskStep(t) ==
  GetDummy(t) \/ CheckEntry(t) \/ CreateDummy(t) \/ DeleteFailed(t) \/ ReadLog(t) \/ SetUUID(t)

-----------------------------------------------------------------------------
(* The worker (threadness is 1 unless the command line says otherwise).    *)

(* syncHandler up to its loop, over the pods in any order, which the first *)
(* pod that is not scheduled ends.  A Deployment that is not in the cache, *)
(* or has no pods, is done with.                                           *)
TakeKey ==
  /\ proc = "running" /\ worker.at = "idle"
  /\ wq.queue # <<>>
  /\ LET k == Head(wq.queue)
         listed == IF k \in depCache THEN {p \in Pods : Owner[p] = k /\ pods[p].phase # "gone"} ELSE {}
         ready == {p \in listed : pods[p].phase = "scheduled"}
     IN  \E todo \in SUBSET ready :
           /\ ready = listed => todo = ready
           /\ IF todo = {}
              THEN wq' = Done(Get(wq), k) /\ UNCHANGED worker
              ELSE /\ wq' = Get(wq)
                   /\ worker' = [Idle EXCEPT !.at = "sync", !.key = k, !.todo = todo]
  /\ UNCHANGED <<proc, panic, memory, go, depCache, cluster, used>>

(* The loop has done with p; Done comes with its last turn.                *)
NextPod(p) ==
  IF worker.todo = {p}
  THEN worker' = Idle /\ wq' = Done(wq, worker.key)
  ELSE worker' = [worker EXCEPT !.at = "sync", !.todo = @ \ {p}, !.pod = NoPod, !.uuid = NoUUID]
       /\ UNCHANGED wq

(* A pod that asks for a GPU without a GPUID is rejected; one with a GPUID *)
(* is passed over.                                                         *)
SkipPod(p) ==
  /\ worker.at = "sync" /\ p \in worker.todo
  /\ app[Owner[p]].gpuid # NoGpu \/ app[Owner[p]].request # NoRequest
  /\ NextPod(p)
  /\ UNCHANGED <<proc, panic, memory, go, depCache, cluster, used>>

Patching(p, uuid) == worker' = [worker EXCEPT !.at = "patch", !.pod = p, !.uuid = uuid]

(* A pod without a GPU is patched as it is.                                *)
PlainPod(p) ==
  /\ worker.at = "sync" /\ p \in worker.todo
  /\ app[Owner[p]].gpuid = NoGpu /\ app[Owner[p]].request = NoRequest
  /\ Patching(p, NoUUID)
  /\ UNCHANGED <<proc, panic, memory, wq, go, depCache, cluster, used>>

(* FindNextFromCurrentAndSet; a full bitmap gives -1, to which 50050 is    *)
(* added before it is compared with -1.                                    *)
TakenPort == IF NextFree(pool.bitmap, pool.cursor) = {}
             THEN PoolFull
             ELSE CHOOSE pos \in NextFree(pool.bitmap, pool.cursor) : TRUE

PoolAfter == IF TakenPort = PoolFull
             THEN pool
             ELSE [bitmap |-> Mask(pool.bitmap, TakenPort), cursor |-> TakenPort + 1]

(* getPhysicalGPUuuid.  The GPU has no entry: one is made, and a goroutine *)
(* started to make its dummy pod.                                          *)
AskNewGPU(k, p, g) ==
  /\ g \notin DOMAIN gpus
  /\ gpus' = [h \in DOMAIN gpus \cup {g} |-> IF h = g THEN Listed(NewEntry, k, TakenPort) ELSE gpus[h]]
  /\ pool' = PoolAfter
  /\ go' = go \cup {NewTask(g, "get")}
  /\ NextPod(p)

Bound(p, g) == IF gpus[g].uuid = NoUUID THEN NextPod(p) ELSE Patching(p, gpus[g].uuid) /\ UNCHANGED wq

(* Fault for the runs: the request alone is compared.                      *)
AskEntryAlone(k, p, g) ==
  /\ g \in DOMAIN gpus /\ k \notin KeysOf(gpus[g])
  /\ app[k].request <= Whole
  /\ gpus' = [gpus EXCEPT ![g] = Listed(@, k, TakenPort)]
  /\ pool' = PoolAfter
  /\ Bound(p, g)
  /\ UNCHANGED go

(* There is an entry the key is not on, with room for it...                *)
AskEntry(k, p, g) ==
  /\ g \in DOMAIN gpus /\ k \notin KeysOf(gpus[g])
  /\ gpus[g].usage + app[k].request <= Whole
  /\ gpus' = [gpus EXCEPT ![g] = Listed(@, k, TakenPort)]
  /\ pool' = PoolAfter
  /\ Bound(p, g)
  /\ UNCHANGED go

(* ... or without: an error, and the key comes back later.                 *)
AskTooMuch(k, p, g) ==
  /\ g \in DOMAIN gpus /\ k \notin KeysOf(gpus[g])
  /\ gpus[g].usage + app[k].request > Whole
  /\ worker' = Idle
  /\ wq' = Done(AddRateLimited(wq, k), k)
  /\ UNCHANGED <<gpus, pool, go>>

(* The key is on the list: another pod of it costs nothing.                *)
AskAgain(k, p, g) ==
  /\ g \in DOMAIN gpus /\ k \in KeysOf(gpus[g])
  /\ Bound(p, g)
  /\ UNCHANGED <<gpus, pool, go>>

(* The node is not known: an error that ends nothing; the pod is patched   *)
(* without a device if the node has come by then.                          *)
AskNoNode(p) == ~known /\ Patching(p, NoUUID) /\ UNCHANGED <<wq, gpus, pool, go>>

AskForGPU(p) ==
  /\ PoolOpen
  /\ worker.at = "sync" /\ p \in worker.todo
  /\ app[Owner[p]].gpuid # NoGpu /\ app[worker.key].request # NoRequest
  /\ LET k == worker.key
         g == app[Owner[p]].gpuid
     IN  \/ AskNoNode(p)
         \/ known /\ AskNewGPU(k, p, g)
         \/ known /\ AskEntry(k, p, g)
         \/ known /\ AskTooMuch(k, p, g)
         \/ known /\ AskAgain(k, p, g)
  /\ UNCHANGED <<proc, panic, registered, known, restore, depCache, cluster, used>>

(* The patch appends the device to the pod's environment, where the first  *)
(* of a name stays the first.                                              *)
Env(device, uuid) == IF device # NoUUID THEN device ELSE IF uuid = NoUUID THEN Blank ELSE uuid

(* A node that is not known gets no patch.  When the API server refuses    *)
(* one, or the pod is gone, the answer has no volume, and the log line     *)
(* that prints the first is an index out of range.                         *)
PatchPod ==
  /\ worker.at = "patch"
  /\ \/ /\ known => pods[worker.pod].phase = "scheduled"
        /\ pods' = IF known /\ app[worker.key].gpuid # NoGpu
                   THEN [pods EXCEPT ![worker.pod].device = Env(@, worker.uuid)] ELSE pods
        /\ NextPod(worker.pod)
        /\ UNCHANGED <<proc, panic, memory, go, depCache, used>>
     \/ /\ known
        /\ IF pods[worker.pod].phase = "gone" THEN UNCHANGED used ELSE Happens("error")
        /\ Ends("patch")
        /\ UNCHANGED pods
  /\ UNCHANGED <<app, dummy, deps>>

KeyBack(k) ==
  /\ k \in wq.delayed
  /\ wq' = Fire(wq, k)
  /\ UNCHANGED <<proc, panic, memory, worker, go, depCache, cluster, used>>

Killed ==
  /\ proc # "down"
  /\ May("start")
  /\ Ends("killed")
  /\ UNCHANGED <<cluster, used>>

-----------------------------------------------------------------------------
(* The cluster.  A device belongs to one running dummy pod at a time.      *)

Held == {dummy[g].device : g \in {h \in Gpus : dummy[h].phase \in {"silent", "printed"}}}

DummyStarts(g) ==
  /\ dummy[g].phase = "pending"
  /\ \E d \in Devices \ Held :
       dummy' = [dummy EXCEPT ![g] = [phase |-> "silent", device |-> d]]
  /\ UNCHANGED <<proc, panic, memory, work, go, depCache, app, pods, deps, used>>

DummyPrints(g) ==
  /\ dummy[g].phase = "silent"
  /\ dummy' = [dummy EXCEPT ![g].phase = "printed"]
  /\ UNCHANGED <<proc, panic, memory, work, go, depCache, app, pods, deps, used>>

DummyFails(g) ==
  /\ dummy[g].phase \in {"pending", "silent", "printed"}
  /\ Happens("fail")
  /\ dummy' = [dummy EXCEPT ![g].phase = "failed",
                            ![g].device = IF dummy[g].phase = "printed" THEN @ ELSE NoUUID]
  /\ UNCHANGED <<proc, panic, memory, work, go, depCache, app, pods, deps>>

PodScheduled(p) ==
  /\ pods[p].phase = "unscheduled"
  /\ pods' = [pods EXCEPT ![p].phase = "scheduled"]
  /\ UNCHANGED <<proc, panic, memory, work, go, depCache, app, dummy, deps, used>>

DeleteDeployment(k) ==
  /\ k \in deps
  /\ Happens("delete")
  /\ deps' = deps \ {k}
  /\ UNCHANGED <<proc, panic, memory, work, go, depCache, app, dummy, pods>>

(* Kubernetes collects the pods of a Deployment that is gone.              *)
PodGone(p) ==
  /\ Owner[p] \notin deps
  /\ pods[p].phase # "gone"
  /\ pods' = [pods EXCEPT ![p] = [phase |-> "gone", device |-> NoUUID]]
  /\ UNCHANGED <<proc, panic, memory, work, go, depCache, app, dummy, deps, used>>

Next ==
  \/ Start \/ InitNodesInfo \/ Restored \/ StartWorkers \/ Register \/ Killed
  \/ TakeKey \/ PatchPod
  \/ \E pod \in restore.found : RestorePod(pod)
  \/ \E k \in Keys : LookUp(k) \/ DeploymentEvent(k) \/ DeploymentDeleted(k) \/ KeyBack(k) \/ DeleteDeployment(k)
  \/ \E p \in Pods : SkipPod(p) \/ PlainPod(p) \/ AskForGPU(p) \/ PodScheduled(p) \/ PodGone(p)
  \/ \E g \in Gpus : CleanOrphan(g) \/ DummyEvent(g) \/ DummyStarts(g) \/ DummyPrints(g) \/ DummyFails(g)
  \/ \E t \in go : TaskStep(t) \/ CallFails(t)

Spec == Init /\ [][Next]_vars

(* Goroutines and the worker run, informers deliver and resync, delayed    *)
(* keys come back, and kubelet starts what it can.  Nothing is promised    *)
(* of the API's users: a Deployment need not be resynced for a key to be   *)
(* queued, a config client need not connect.                               *)
Fairness ==
  /\ \A g \in Gpus : WF_vars(\E t \in go : t.gpu = g /\ TaskStep(t))
  /\ WF_vars(TakeKey)
  /\ \A p \in Pods : WF_vars(SkipPod(p) \/ PlainPod(p) \/ AskForGPU(p))
  /\ WF_vars(PatchPod)
  /\ \A k \in Keys : WF_vars(KeyBack(k))
  /\ \A g \in Gpus : WF_vars(DummyEvent(g)) /\ WF_vars(DummyStarts(g))
                  /\ WF_vars(DummyPrints(g))

FairSpec == Spec /\ Fairness

-----------------------------------------------------------------------------
(* What the requests of a list ask for.                                    *)
Charged(list) ==
  LET upto[n \in 0 .. Len(list)] == IF n = 0 THEN 0 ELSE upto[n - 1] + list[n].req
  IN  upto[Len(list)]

(* What an entry says is used is what the requests on its list ask for,    *)
(* whatever order requests, retries, restarts and restored pods come in    *)
(* (gpupool.go:186-195, 281-320).                                          *)
UsageIsSum == \A g \in DOMAIN gpus : gpus[g].usage = Charged(gpus[g].list)

(* The Deployments on a GPU's list, each counted once, ask for no more     *)
(* than Whole, also when some of them were restored, one pod after the     *)
(* other and perhaps not all, and others were let in before, after or in   *)
(* between (gpupool.go:144-195, 303-308).                                  *)
KeysFit ==
  \A g \in DOMAIN gpus : Sums!MapThenSumSet(LAMBDA k : app[k].request, KeysOf(gpus[g])) <= Whole

(* What a GPU is charged goes beyond Whole, or further beyond it, only by  *)
(* the restoring of pods: no request of a pod that comes later is let in   *)
(* on top of that (gpupool.go:187, 281-320).                               *)
OnlyRestoredExceed ==
  [][\A g \in DOMAIN gpus' :
       \/ gpus'[g].usage <= Whole
       \/ proc = "restoring"
       \/ g \in DOMAIN gpus /\ gpus'[g].usage = gpus[g].usage]_vars

(* A position of the pool goes to one key of the node: one recorded for a  *)
(* pod that is restored is not given to a new one, and none is given twice *)
(* (gpupool.go:197, 289, 312).  A full pool gives out none of them.        *)
PortsDistinct ==
  \A g, h \in DOMAIN gpus : \A d \in Range(gpus[g].list), e \in Range(gpus[h].list) :
    d.port \in Positions /\ d.port = e.port => g = h /\ d.key = e.key

(* getPhysicalGPUuuid: "errCode 3: Pod manager port pool is full": what is *)
(* listed has a port of the pool (gpupool.go:267, 289-292, 312-316).       *)
FullPoolRefused ==
  \A g \in DOMAIN gpus : \A e \in Range(gpus[g].list) : e.port # PoolFull

(* A goroutine finds the entry of its GPU gone, and the process ends, only *)
(* when it was started between initNodesInfo and cleanOrphanDummyPod: from *)
(* then on entries stay.  They stay because no removal finds what it looks *)
(* for; one that did would unlock the mutex twice.                         *)
EntriesStay ==
  [][/\ panic' # "unlock"
     /\ proc # "down" /\ proc' = "down" /\ panic' = "entry" =>
          \E t \in go : t.at = "set" /\ t.gpu \notin DOMAIN gpus /\ t.early]_vars

Waits(k, g) ==
  /\ proc = "running" /\ registered
  /\ g \in DOMAIN gpus /\ gpus[g].uuid = NoUUID /\ k \in KeysOf(gpus[g])

(* What a failed call leaves for good: no dummy pod, and nobody to make    *)
(* one.                                                                    *)
Stranded(g) == used["error"] > 0 /\ dummy[g].phase = "absent" /\ ~\E t \in go : t.gpu = g

(* An entry whose dummy pod is not there yet, has failed or has printed    *)
(* nothing gets its UUID, and every key on its list is handled again after *)
(* that, without an event of its Deployment - also when a call has failed, *)
(* unless there is no dummy pod then and no goroutine left to make one;    *)
(* or the Deployment went or has a pod that is not scheduled, or the       *)
(* process ended.  (createDummyPod, getAndSetUUIDFromDummyPod.)            *)
WaiterServed ==
  \A k \in Keys, g \in Gpus :
    Waits(k, g) ~> \/ worker.key = k /\ g \in DOMAIN gpus /\ gpus[g].uuid # NoUUID
                   \/ \E p \in Pods : Owner[p] = k /\ pods[p].phase = "unscheduled"
                   \/ Stranded(g) \/ k \notin deps \/ proc = "down"
=============================================================================
