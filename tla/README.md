# faas-share: specifications, model checking and proofs

This directory holds TLA+ specifications of faas-share, a function platform on
Kubernetes whose functions share GPUs.  They are written from the Go sources
under `src/pkg` (file names below are relative to it) and checked two ways: TLC
explores every behaviour of small instances, TLAPS checks proofs that hold for
every value of the constants.

1. [The system](#1-the-system)
2. [Modules](#2-modules)
3. [Runs](#3-runs)
4. [What the checks say about the code](#4-what-the-checks-say-about-the-code)
5. [Fairness](#5-fairness)
6. [Proofs](#6-proofs)
7. [What is not modelled](#7-what-is-not-modelled)
8. [Plan](#8-plan)

To repeat a run: `tlc -workers 2 -config X.cfg M`, with the module of the run's
row in section 3.  To check the proofs of a module: `tlapm M.tla`.

## 1. The system

A user gives the **HTTP server** a function, which becomes a `SharePod` object.
The **operator** makes a Deployment and a Service of it.  Kubernetes makes pods
of the Deployment; those that carry the annotations of a GPU share wait for the
**scheduler**, which chooses a node and a GPUID (the name of one GPU of that
node, shared by all pods that carry it) and writes both into the pod.  On the
master the **device manager** turns GPUIDs into device UUIDs, with a dummy pod
per GPU that holds the device, and gives every pod a port for its pod manager
out of the node's **port bitmap**.  It sends each node the list of the pods of
every GPU over the **configuration channel** to the node's **configuration
client**, which writes files that a **launcher** watches.  All the programs talk
to each other through the Kubernetes API server only, with the exception of the
configuration channel, which is a TCP connection.

| Component | State | Operations | What makes it correct |
|---|---|---|---|
| Port bitmap, `lib/bitmap` | word slice, cursor | find-and-set, mask, unmask, clear | a position is given to one holder, none is lost, the scan is fair |
| Scheduler, `scheduler` | informer caches, work queue, `pendingList`, one worker | AddFunc, DeleteFunc, five-second ticker, worker | no pod is forgotten, none is placed twice, a node is chosen that has room, parked pods are tried again |
| Placement, `scheduler/scheduler.go`, `filters.go`, `sync_resources.go` | map of the nodes' free resources, made anew for each pod | account nodes and pods, filter, best fit | the outcome does not depend on goroutine and map order except among equals |
| Operator, `controller` | informer caches, work queue, one worker | Add/Update/DeleteFunc, worker, resync | the Deployment follows the SharePod, never backwards, and keeps its replica count |
| HTTP server, `server` | none | apply, delete, scale, list, status | a write does not overwrite what it did not read |
| Device manager's pool, `devicemanager/gpupool.go`, `controller.go` | nodes, their GPUs, the list of requests per GPU, the port bitmap | restore at start, assign a device, learn its UUID, remove | a GPU's usage is the sum of its list, a port goes back with its entry, each GPU in use has one dummy pod |
| Configuration channel, `devicemanager/config.go` | connection, heartbeat time and status per node | connect, heartbeat, timeout, send | the newest connection counts, the last configuration arrives |
| Configuration client, `configclient`, launcher | files per GPU, a process per pod | receive, write, start and stop processes | the processes are those of the last file |
| Log streaming, `k8s/logs.go`, `log.go` | per request an informer, two goroutines per instance, four channels | list and follow instances, read, relay, cancel | no line is lost, the request ends when it should, goroutines end with it |
| Function secrets, `controller/secrets.go`, `k8s/secrets.go` | none | mount secrets into a Deployment; nothing calls it | mounting twice is mounting once |
| Function lookup, `k8s/proxy.go` | lister per namespace | resolve a function to an address | an address of the function's |

The behaviours that are hard, and that the properties are aimed at:

* **Stale caches.**  Scheduler and operator decide on what their informers have
  seen and write to the API server, which may be ahead.
* **Keys that move.**  The scheduler's key of a pod is in a queue, a timer, a
  list that another goroutine is emptying, an event not yet delivered or the
  worker's hands.  Losing it loses the pod; doubling it places the pod twice.
* **Failures in the middle.**  Every API call can fail, before or after it took
  effect; `syncHandler` makes up to six in a row.
* **Crashes.**  All of this state is in memory; only the API server's objects
  survive.
* **Random order.**  Goroutines per node and Go's map iteration order decide
  among placements.
* **Limits.**  A bitmap that is full, wraps, or is shorter than the position.

`PROJECT.json` lists hazards at their lines with the properties that watch them.
Besides those, later modules have to look at: the annotations that a patch of the
scheduler carries back from its cache (`scheduler/controller.go:304`), the exclusion
filter's early break (`scheduler/filters.go:46`), a minimum that is raised by a label
alone (`controller/deployment.go:243`), maps read without their mutex
(`devicemanager/gpupool.go:431`, `devicemanager/controller.go:428`), and pod managers
that end by themselves and stay on the launcher's list (`launcher.py:44`).

## 2. Modules

| Module | Models | Kind |
|---|---|---|
| `Bitmap` | `lib/bitmap`: words, masks, panics, the round-robin scan | operators |
| `PortBitmap` | a node's `PodManagerPortBitmap` and those who hold ports | state machine |
| `PortPool` | what the bitmap promises | abstract specification |
| `Workqueue` | client-go's rate limited work queue, as the controllers use it | operators |
| `BestFit` | resource map, filters, best fit | operators |
| `Scheduler` | `scheduler/controller.go` with its environment; extends `BestFit`, `Workqueue` | state machine |
| `Operator` | `controller/controller.go`, `deployment.go`, `service.go`, and the writing handlers of `server`; extends `Workqueue` | state machine |
| `ConfigChannel` | `devicemanager/config.go`, `configclient`, `launcher.py` | state machine |
| `DeviceManager` | `devicemanager/gpupool.go` and `controller.go`; extends `Bitmap`, `Workqueue` | state machine |
| `LogStream` | `k8s/logs.go`, `k8s/log.go` and the handler that starts them | state machine |
| `LogPipe` | what a request for logs promises | abstract specification |
| `MCPortBitmap`, `MCScheduler`, `MCOperator`, `MCConfigChannel`, `MCDeviceManager`, `MCLogStream` | instances for TLC | |
| `PortBitmap_proofs`, `Workqueue_proofs`, `Scheduler_proofs`, `Operator_proofs`, `ConfigChannel_proofs`, `DeviceManager_proofs`, `LogStream_proofs` | theorems about the module of that name | |
| `SequenceLemmas` | lemmas on sequences and intervals that several proofs use | |

### Bitmap, PortBitmap, PortPool

A `Bitmap64` is a record of the set of masked positions and the length of the
word slice; the length matters because `Unmask` indexes the slice unchecked.
`Mask` and `Unmask` follow Go's truncating division, so the panics of negative
positions are there (`MaskPanics`, `UnmaskPanics`).  `NextFree` is the loop of
`FindNextFromCurrentAndSet`: of the positions that are free, the one the scan
starting at the cursor meets first, or none.

`PortBitmap`'s actions are the bitmap's uses in `gpupool.go`: `Restore`
(`initNodesInfo` masks a port it finds in the API), `Take` and `Refuse` (a
request), `Release` (the removal of a request).  `held` is what each requester
was given last.  **At the commit at hand** `controller.go:348` and `:387` keep
every pod from reaching the request, and the removal looks entries up by pod
keys where it stored SharePod keys, finds none, and would unlock its mutex twice
if it found one; so `Take` and `Release` describe what the bitmap does when it is
called, not what the program gets to do today.  `Clear`
and `Bitmap64.FindNextAndSet` have no caller and are left out.

`PortPool` is the same without a bitmap: any unowned position may be given, and
"full" may be said only when there is none.  `PortBitmap!PoolSpec` says that the
former implements the latter, with `held` for `owner`.

### Workqueue

A record: the queue in order, `dirty`, `processing` and `delayed`, the keys a
timer still holds back.  `Add`, `Get` and `Done` are `queue.go`'s.
`AddRateLimited` puts the key among the delayed, `Fire` is its timer.  The length
of delays is abstracted: a timer goes off some time.

### BestFit

`SyncNodes` and `SyncPods` make the map of free resources from the listed nodes
and pods.  A pod that carries a `gpu_request` is skipped at once
(`sync_resources.go:37`); the code further down that would charge GPUs for such a
pod cannot run, and the loop over SharePods is commented out, so no GPUID is ever
in the map.  Where the code's outcome hangs on goroutine or map order the operator
is the set of outcomes: `GPUExclusionFilter` has its early `break`,
`BestFitOutcomes` the race of the nodes' goroutines.  `ScheduleOutcomes` is the
whole of `scheduleSharePod`.

### Scheduler

| Variable | In the code |
|---|---|
| `api` | pods in the API server: state, `Spec.NodeName`, GPUID annotation |
| `cache`, `nodes` | what the listers return |
| `addNotices`, `deleteNotice` | AddFunc calls due; at least one DeleteFunc call due |
| `wq`, `pending` | `workqueue`, `pendingList` |
| `walk` | `pendingListMux` and how far `resourceChanged` has come |
| `worker` | `processNextWorkItem` and `syncHandler`: program counter, key, choice, error |
| `faults` | how often each fault has happened; it bounds the runs |

The worker's step is split where another goroutine or the API server can come in
between: `TakeKey`, `ReadPod` (the guards of `syncHandler`), `Schedule` (lists
nodes and pods, computes), `Park` (under the mutex), `PatchOK`, `PatchReplyLost`,
`PatchFails`, `Finish` (`AddRateLimited` after an error, `Done`).
`resourceChanged` is `NoticeDelete` or `Tick` (takes the mutex), `PutBack` (one
key to the queue, which the worker may take at once) and `ClearList`
(`pendingList.Init()`, unlock).  Around it are `CreatePod`, `DeletePod`,
`DefaultBind` (no manifest names a scheduler, so the default one competes),
`Watch`, `NoticeAdd`, `WatchNode`, `Timer` and `Restart`.

Two things about the API server are assumed: it accepts the JSON patch that sets
`spec.nodeName` of a pod that has none, which the code relies on, and refuses to
change one.  A key is created once and deleted once: the names of a Deployment's
pods are not used again.

### Operator

| Variable | In the code |
|---|---|
| `sharepods`, `deployments`, `services` | objects in the API server, per function name |
| `spCache`, `depCache` | the listers |
| `notices` | calls of the event handlers that are due, per name, in order |
| `wq`, `worker` | the queue; the worker's program counter, key, and copies of SharePod and Deployment |
| `scaling` | `makeReplicaHandler` between its read and its write |
| `used` | how often each event of the environment has happened |

A spec is the number of the apply that wrote it, so that "older" has a meaning; a
SharePod's `uid` is the number of the apply that created it.  The worker's actions
are the API calls of `syncHandler` in order: `ReadSharePod`, `ReadDeployment`,
`CreateDeployment`, `EnsureService`, `UpdateDeployment`, `AnnotateService`,
`Finish`.  What differs between their outcomes is kept: `AlreadyExists` ends the
sync; any error of `Services().Get` other than NotFound is taken for success; the
error of the first update does not end the sync, that of the Service's update is
shadowed.  An error is not requeued (`controller.go:202`).  The Deployment's update
has no resource version; the server's `Apply` and `ScaleWrite` have one, so `Apply`
is one step and `ScaleWrite` does nothing when the Deployment has changed since
`ScaleRead`.  `handleObject` is not registered with any informer and left out, as
are the calls of `secrets.go`, which are commented out.

### ConfigChannel

One node with one GPU.

| Variable | In the code |
|---|---|
| `list` | `GPUInfo.PodList`, by the number of the manager process that restored it |
| `uuid` | `GPUInfo.UUID` is not empty |
| `handler` | where `clientHandler` is for each connection |
| `reached` | a list with its UUID was written to the connection while that held (history) |
| `nodeStatus` | `Conn`, `ClientStatus`, and whether `LastHeartbeat` is later than the last check |
| `broken`, `beat`, `down` | the connections: heartbeats one way, lists the other |
| `client`, `file` | the client process and the port file it writes |
| `event`, `launcher`, `running` | the launcher's notice of a closed file, what it has read, its processes |
| `deaf` | the launcher was started after the file was last closed (history) |

`clientHandler` is `Lookup` (name, pod, devices), `Register`, `CheckReady` and
`WriteConfig` (`syncConfig`, under `nodesInfoMux`), then `Receive` and `ReadFails`. The
two API calls on the way make the order of registrations independent of that of the
connections.  The list goes to whatever connection `nodeStatus` holds when it is written.
The client names its files after the UUID that comes with a list.  A process restores the
UUID or not (`RestoredUUID`) and may learn it later from the dummy pod (`SetUUID`), which
sends nothing; a list that is sent before goes without (`Nameless`), and the client, which
would have to create a file in place of the directory, drops it (`ReceiveRequest`).
`Tick` is the check of every 60 seconds; since its threshold is 60 seconds too, "no
heartbeat since the last check" is exactly its condition.  The client (`ReceiveRequest`,
`WriteFile`, `CloseFile`) can crash between any two writes, the launcher (`ReadFile`,
`UpdatePodManagers`) can read between them.  `RestartLauncher` is its death, which takes
the pod managers along, and its start, which waits for the next closing without a look at
the file that is there.

**At the commit at hand** a list is sent on connecting only: the other calls of
`syncConfig` are behind the requests that never come (see `PortBitmap` above).  So
the list is constant during a process of the device manager, and differs between
processes, each of which restores it from the API objects; the objects must have
been left by an earlier version of the program.  A process that finds no dummy pod
of the GPU (`Unknown`) does not know it and sends nothing.

### DeviceManager

One node.  A shared GPU is a label; a dummy pod that asks kubelet for a whole GPU gives
it a device, whose UUID comes out of the dummy pod's log.

| Variable | In the code |
|---|---|
| `proc`, `panic` | the process: down; starting, restoring and restored, which is before, in and after `initNodesInfo`; cleaning, in `cleanOrphanDummyPod`; running; what ended the last one |
| `registered`, `known` | the config client has connected (`UUID2Port`); `nodesInfo` has the node |
| `gpus`, `pool` | `GPUID2GPU` (UUID, usage, list of requests), `PodManagerPortBitmap` |
| `restore` | `initNodesInfo`: the SharePods it has still to look up, the pods it found of the last one, the GPUs whose UUID it will ask for |
| `wq`, `worker` | the queue; the worker's key, the pods it has still to go through, the patch it is at |
| `go` | the goroutines of `createDummyPod` and `getAndSetUUIDFromDummyPod`, each before its next call |
| `depCache` | the Deployments the informer has |
| `app`, `dummy`, `pods`, `deps` | SharePods with their templates, dummy pods, pods, Deployments |
| `used` | counts starts and faults for the bounds |

`Start`, `InitNodesInfo`, `LookUp`, `RestorePod`, `Restored`, `CleanOrphan` and
`StartWorkers` are `Run`; informers are active before it and goroutines start in between
(`early`). `initNodesInfo` is a loop over the SharePods (`LookUp` lists the pods of one)
with a loop over their pods in it (`RestorePod` is one turn: it panics, `RestorePanics`,
or puts the SharePod on the list of its GPU, `RestoreListed`); at its end the goroutines
are started (`Restored`).  It holds `nodesInfoMux` all the time, so the handlers of dummy
pods and Deployments that want the mutex wait; and `LookUp` sees only the Deployments that
are cached, as `Run` does not wait for that cache.  Each pod of a Deployment is a turn of
its own, so two pods of one are charged twice. `cleanOrphanDummyPod` removes one entry
after the other (`CleanOrphan`), each with a call that may fail unnoticed and leave the
dummy pod, and has the mutex until its end (`Unlocked` is what the others wait for).

A goroutine's steps (`GetDummy`,
`CheckEntry`, `CreateDummy`, `DeleteFailed`, `ReadLog`, `SetUUID`) are one call or
one critical section each; goroutines in the same state count as one, which is a bound of
the model like `MaxTasks`.  `AskForGPU` is `getPhysicalGPUuuid` with its
five outcomes, `PatchPod` the patch; a patch that is refused is the index out of
range of `controller.go:461`.  `DeploymentDeleted` is `removeSharePodDepFromList`:
it looks for pods' keys where Deployments' keys are; if it ever found one
it would unlock the mutex twice.

**At the commit at hand** no pod passes `controller.go:348` and `:387` together, so
the program never takes `AskForGPU`.  `PoolOpen = FALSE` is that program.  The
runs have `PoolOpen = TRUE`, where a pod with a GPUID may be passed over or
not: their behaviours include the program's, and the properties are about the code
behind the check as well, that of `device_manager_full` only about it.

The SharePods' records of what was placed (`Status.PodManagerPort`, `BoundDeviceID`) are
read at start and written by no code of this version (`updateSharePodStatus` has no
caller); like `ConfigChannel` the model starts from records an earlier version
may have left.  Memory of GPUs (`Mem`) is compared with nothing and left out.

### LogStream

One request, from `NewLogHandlerFunc` to the reader goroutines.

| Variable | In the code |
|---|---|
| `follow`, `handler`, `cancelled`, `received` | the request's parameter, the handler, its context, what the client got |
| `informer`, `added` | the pod informer and the channel `OnAdd` sends to, with capacity and whether it is closed |
| `main` | the goroutine of `GetLogs` and its count `watching` |
| `stream` | per instance `podLogs` and its reader, lines read; `clean`: nothing failed |
| `logs`, `relay`, `msgs` | the channel, the goroutine of `Query`, `msgStream` |
| `crashed` | a send on a closed channel has panicked, which ends the server |

Each action is one channel operation or one call.  `done` and `finished` are rendezvous,
one step of both ends (`WatchDone`, `Finished`).  A followed stream may end (`ReadEnds`,
the instance is gone) or fail (`ReadFails`) at any time; one that is not followed ends
after its last line.  An instance in `Unterminated` ends its log without a newline: the
reader gets its last line together with `io.EOF` and drops it, so that it sends
`Terminated` lines and still ends cleanly.

`LogPipe` is the same without goroutines and channels: an instance puts its lines in,
the client takes the next one out, and the pipe is closed at some time.
`LogStream!PipeSpec` says that the former implements the latter: what has been put in is
what the readers have sent (`Sent`), and the pipe is open until the handler returns.

## 3. Runs

| Run | Module, cfg | States | Shows |
|---|---|---|---|
| `port_bitmap` | `MCPortBitmap` | 8 thousand | five clients, four usable positions in words of two bits: full, wrapped and growing bitmaps |
| `scheduler` | `MCScheduler`, `MCSchedulerSafety` | 2.3 million | a share pod and a whole-GPU pod, two nodes, one short of CPU and the other of GPUs when the second pod is there; one of each fault |
| `scheduler_live` | `MCScheduler`, `MCSchedulerLive` | 230 thousand | the same pods on one node that may disappear and return, a failed patch, a crash |
| `operator` | `MCOperator` | 975 thousand | two applies with any deletion between, minimum 0 or 2; two of a failed call, a crash and a lost Deployment, or one of these, a scale to 0 or 3 and a foreign Deployment |
| `config_channel` | `MCConfigChannel` | 60 thousand | two connections of a client, three processes of the manager, the second without the GPU; the UUID restored, learned later or never; all breaks, checks and refusals, any number of crashes of client and launcher |
| `device_manager` | `MCDeviceManager` | 376 thousand | one shared GPU, two functions, one with two pods, in four constellations, a port pool with one port; two starts, or one with a fault |
| `log_stream` | `MCLogStream` | 382 thousand | two instances with three lines, the last of them unfinished, and one; channels of one line |
| `scheduler_taint`, `scheduler_overcommit`, `operator_service`, `device_manager_full`, `log_relay` | | until the first violation | section 4 |

Deadlock is checked where the system cannot stop (bitmap, scheduler, channel); the operator
has nothing to do while there is no SharePod, the device manager's and the log's
environment is finite, and their runs say so.

**Properties.**  `port_bitmap`: the
masked positions are the reserved one and the held ones (`NoLeakNoDoubleGrant`), giving
back never indexes out of range (`ReleaseNeverPanics`), each grant brings the cursor
nearer to every position that stays free (`BypassBounded`), and the pool's promise
(`PoolSpec`), by which no position has two holders (`DistinctPositions`, proved in section 6).
`scheduler`: the key of a waiting pod is somewhere (`NoLostPod`), in one
place (`OneToken`), and the queue's fields agree (`QueueConsistent`); a placement does not
change before a reply is lost (`PlacedOnce`); the chosen node has room in the cached view
beside whole-GPU pods, and a pod is parked only if none has (`PlacedWhereItFits`; what the
view leaves out is in section 4). `scheduler_live`: `ParkedRetried`, and no pod waits for
ever beside a node with room (`PlacedEventually`).  `operator`: a Deployment does not go
back to an older spec (`NoRollback`) and keeps its replicas in an update (`ReplicasKept`),
and a SharePod gets its own in the end, unless a foreign one has the name
(`DeployedEventually`).  `config_channel`: what was sent with its UUID over a connection
that holds is the last to arrive (`Delivered`), the file never goes back (`FilesForward`),
and no half-written file ends the pod manager of a pod that is on every list
(`CommonKept`); a client that stays is Ready again and again (`ReadyAgain`), one that
stays away is NotReady in the end (`DeadNoticed`), and a list that was sent with its UUID
to a client that stays is what runs in the end, unless the launcher was started after it
was written (`ConfigArrives`).  `device_manager`: usage is the sum of the list
(`UsageIsSum`); the functions on a list, each counted once, ask for no more than the GPU
(`KeysFit`), and usage goes beyond 1.0 by nothing but restored pods
(`OnlyRestoredExceed`); no position of the pool goes to two keys (`PortsDistinct`);
entries do not go under goroutines that were started after the orphans were removed
(`EntriesStay`); a request that waits for a UUID is handled again when it is there, also
after a failed call, unless that has left neither a dummy pod nor a goroutine
(`WaiterServed`).  `log_stream`: a send on a closed channel only after the context has
ended (`CrashOnlyAfterCancel`); a log that ends by itself has delivered, in order, all
that ends in a newline (`EndIsComplete`); what a reader has sent is delivered or on its
way, once and in order (`InOrder`), and the request is a pipe per instance (`PipeSpec`);
instances that come later are followed (`NewInstanceFollowed`); what was read arrives
(`LineArrives`); the handler ends when the time is out (`CancelEnds`), and with the log
that is not followed (`FiniteLogEnds`).

**Bounds.**  `PortBitmap` needs no bound but its constants; `L` and `W` are chosen so that
the last word is not full and clients outnumber positions.  In the schedulers' runs the
faults are counted (`MaxPatchErrors`, `MaxLostReplies`, `MaxNodeChanges`, `MaxRestarts`);
everything else (ticks, list walks, retries) is unbounded.  Two pods suffice to have one
parked while the other is placed, taken from the list while it is being emptied, and
deleted.  `scheduler_live` has no lost reply: the pod is placed by then.  In `Operator`
`Limits` says which numbers of applies, scales, errors, crashes, foreign and lost
Deployments may come together; deletions are bounded by applies.  Troubles of the
program's side come in pairs, what others do to the Deployment comes alone.  Functions do
not interact except through the queue, so one name is checked; two applies give an old and
a new spec, an object deleted and made again, and an old Deployment beside a new
SharePod.  In `ConfigChannel` only connections and manager processes are counted; two
connections give one that is dead or dying and one that lives, registered in either order,
and three processes an older list, none and a newer one; everything else follows from
these bounds.  In `DeviceManager` one GPU and two keys give a list of two, a full pool, a
key that fits and one that does not; a second pod of the first gives a Deployment that is
listed and charged twice, once or not at all after a restart, with 0.6 each, and another
function beside it.  `Setups` are two placed functions, whose templates name no GPU any
more or, for the second, still do; a placed one beside a new one that does not fit; one
that wants no GPU beside a new one; and two placed ones neither of which can be restored.
Two starts give a restored state that is lived in; a fault (failed dummy pod, failed call,
deleted Deployment) comes once, since each ends or repeats something, and in a process
that is not started again: a restart after a fault is beyond the run, and covered by the
proofs of the safety properties alone.  `MaxTasks = 1`: an event adds a goroutine only
when there is none for the GPU; those the worker starts are not bounded.  What two GPUs
add, two dummy pods competing for one device, is not in the run.  In `LogStream` buffers
of one line are full after one and empty after one, and two lines make order visible, with
a third that is unfinished. The proofs of section 6 have none of these bounds.

**Symmetry** is used for GPUIDs, which nothing compares but by equality, and only
in runs without liveness properties.

## 4. What the checks say about the code

Five runs end in a violation: something the source says of itself and the code does
not do.

* `scheduler_taint` - a node with a NoSchedule taint is meant to be left out
  (`sync_resources.go:317`); its goroutine returns before `wait.Done()`, and the
  only worker waits for ever.
* `scheduler_overcommit` - pods that were placed before are to be charged "later"
  (`sync_resources.go:36`); they never are, and a node gets more GPUIDs than GPUs.
* `operator_service` - an error during the update is to be retried
  (`controller/controller.go:329`); that of the Service's update never is, and
  afterwards nothing differs any more.
* `device_manager_full` - a full port pool is meant to be an error
  (`devicemanager/gpupool.go:267`, `:290`); 50050 is added before the comparison with -1,
  and everybody gets 50049.  This is `getPhysicalGPUuuid` itself: today no pod gets to it.
* `log_relay` - the goroutine of `Query` is meant to end with the context
  (`k8s/log.go:48`); when the client leaves while `msgStream` is full it waits at its
  send for ever.

What holds is as telling: although every guard of the scheduler reads a cache that lags
and another scheduler competes, a placement is never changed as long as no patch is
applied and reported as failed; the walk over `pendingList` loses and doubles nothing; and
the operator's unconditional update never takes a Deployment back, because the caches only
move forward and the queue gives a key out once.  The device manager's waiting requests
are served although goroutines in six places hand the job to each other, what is let in
never takes a GPU beyond 1.0, and the log's count of streams ends it neither early, within
what was opened, nor late.

Three more are at odds with a line of the source and have no run of their own; the models
have all of them:

* "resource exceed" (`gpupool.go:265`, `:307`) is meant to keep a GPU within 1.0; a
  restart charges it once per pod (`:187`) instead of once per Deployment and compares
  with nothing, so that two pods of 0.6 make 1.2.  Hence `proc = "restoring"` in
  `OnlyRestoredExceed`;
* the lists are meant to be right before the configuration manager starts
  (`devicemanager/controller.go:185`); they are made from a cache of Deployments that
  nobody waits for (`:177`), and `cleanOrphanDummyPod` then deletes dummy pods whose
  devices are in use;
* a pod with request, limit, memory and GPUID is meant to be taken and any other to be
  rejected (`devicemanager/controller.go:395`); it is skipped because of its GPUID (`:348`).

Other weak points contradict no line that says what should be, as far as we have found,
so they are conditions of properties, or left to this list, instead of violations:

* when a patch is applied but its reply is lost, the key is tried again, from a cache
  that may not show the GPUID yet: the pod gets another one, and the guards of
  `scheduler/controller.go:219` and `:251` see nothing; hence `faults.reply = 0` in
  `PlacedOnce`;
* the operator's update carries the replica count of the cache's copy and no
  resource version (`controller/controller.go:307`): a scale in between is taken back,
  whatever `getReplicas` says of not overriding an autoscaler;
* DeleteFunc deletes the Deployment of the SharePod's name without a look at its
  owner (`controller/controller.go:423`);
* in the configuration channel, a list that is due while the node is NotReady is dropped
  (`config.go:243`), and a check between registration and sending suffices, since the new
  connection's `LastHeartbeat` is zero; a slow handler of a dead connection registers it
  over the live one (`config.go:146`); and a list that is due before the UUID is known is
  sent without (`config.go:163`), which the client cannot write (`config-client.go:106`),
  and not again when it is known (`gpupool.go:446-456`).  Hence `reached[c]` in
  `Delivered` and `ConfigArrives`: they say what becomes of a list that was sent with its
  UUID over the client's own connection, not that there is one;
* after an API error other than NotFound the node is filed under the name ""
  (`config.go:99`); hence `misfiled` in `Served`;
* a launcher that is started again runs nothing until the next list (`launcher.py:86`);
  hence `deaf` in `ConfigArrives`;
* a goroutine of the device manager that found its entry before `cleanOrphanDummyPod`
  removed it (`gpupool.go:386`) makes a dummy pod nobody removes, and one that
  comes to set a UUID ends the process (`gpupool.go:449`), the `early` of `EntriesStay`;
* a call that fails is not tried again: an orphan's dummy pod keeps its device
  (`gpupool.go:524`), and a GPU whose dummy pod could not be made or asked may be left
  without one, with requests that wait for ever (`gpupool.go:389`), the `Stranded` of
  `WaiterServed`;
* a dummy pod that fails after its UUID was read is never replaced
  (`controller.go:592`), and a "Failed" that was seen late deletes, by name, the dummy pod that
  replaced it (`gpupool.go:413`);
* one refused patch ends the device manager for all nodes (`controller.go:461`); every
  resync patches bound pods again;
* ports and entries are never given back (`gpupool.go:489`), and a second pod of a
  Deployment is not charged before a restart (`:326`);
* a recorded port of 0, or a pod without variables, panics at every start of the device manager
  (`gpupool.go:197`, `:209`);
* a client that leaves a followed log leaves readers at `done` and `podLogs` at
  `finished` for ever (`k8s/logs.go:121`, `:82`), and a reader or `OnAdd` that meets its
  channel closed panics the server (`:126`, `:234`): `crashed` after `cancelled`;
* a last line without a newline is dropped, and the log ends as if it had been read to
  its end (`k8s/logs.go:120-124`); hence `Terminated` in `EndIsComplete` and `LineArrives`;
* a log that is not followed may end before an instance that was listed has been
  added, since the count of streams is zero between two of them (`k8s/logs.go:76`).

## 5. Fairness

Only the liveness properties need it.  `Scheduler!Fairness`: the worker goroutine, the
informer, the handlers, the ticker and the timers are scheduled (weak fairness of
each).  `Park` is strongly fair: the worker waits for `pendingListMux`, which the
ticker and the handlers take again and again; Go's mutex hands itself to a waiter
of more than a millisecond.  API users, nodes, the default scheduler and faults are
not fair.  Before the one crash the fair actions may be cut off, which is the point.

`Operator!Fairness`: the worker, the informers with their resync (five minutes,
`main.go`), the handlers, the timers and Kubernetes' garbage collector.  The resync
carries `DeployedEventually`: no error is requeued and no handler watches
Deployments.

`DeviceManager!Fairness`: goroutines per GPU, the worker, delayed keys, the informer's
events of dummy pods (resynced every 30 seconds, `cmd/kubeshare-device-manager`), and kubelet,
which starts a dummy pod for which a device is free.  The resync of Deployments is not
assumed, so `WaiterServed` says that a key comes back by the dummy pod's own road;
clients that connect and further starts are not assumed either.

`LogStream!Fairness`: every goroutine, with each case of `main`'s `select` by itself, since
Go chooses among ready cases at random.  Not fair: the client, the time-out, instances
and the end of a followed stream.

`ConfigChannel!Fairness`: each handler, the heartbeat and the check, the client and the
launcher.  Not fair are the restarts of client and launcher and `ReadFails`: the manager
sets no read deadline, so a connection may die without anybody noticing, which is what
`DeadNoticed` is about.  The liveness properties start from what finally holds of the
connection.

## 6. Proofs

All theorems are checked by TLAPS to the last leaf.

| Module | Theorem | Says |
|---|---|---|
| `PortBitmap_proofs` | `TypeCorrect`, `PortsDistinct`, `MaskedIffHeld`, `UnmaskInRange` | the invariants of `port_bitmap` for every word size, length and set of clients |
| | `RoundRobin` | `BypassBounded` |
| | `ImplementsPool` | `Spec => PoolSpec` |
| `Workqueue_proofs` | lemmas | each operation keeps the queue's type and consistency; which keys it adds and removes |
| `SequenceLemmas` | lemmas | what `Append`, `Tail` and `\o` do to the elements and their order; a least natural number; a function made in steps exists |
| `Scheduler_proofs` | `TypeCorrect`, `NoPodLost`, `OneTokenEach`, `QueueCorrect` | the invariants of `scheduler`, for any pods, nodes and numbers of faults |
| | `NoSecondPlacement` | `PlacedOnce`: no second placement before a reply is lost |
| | `RoomForPlaced` | `PlacedWhereItFits`: the chosen node has room, a parked pod fits nowhere |
| `Operator_proofs` | `TypeCorrect` | `TypeOK` |
| | `NeverRolledBack` | `NoRollback` |
| | `ReplicasHeld` | `ReplicasKept` |
| `ConfigChannel_proofs` | `TypeCorrect`, `DeliveredHolds` | the invariants of `config_channel`, for any connections, lists and pods |
| | `FilesForwardHolds`, `CommonKeptHolds` | `FilesForward`, `CommonKept` |
| `DeviceManager_proofs` | `TypeCorrect`, `PortsKept` | `TypeOK` and `PortsDistinct`, for any Deployments, pods, GPUs, records and faults |
| | `UsageHolds` | `UsageIsSum`, with any number of restored pods |
| | `OnlyRestoredExceedHolds` | `OnlyRestoredExceed` |
| | `EntriesStayHolds` | `EntriesStay` |
| `LogStream_proofs` | `TypeCorrect`, `CrashNeedsCancel`, `OrderKept`, `EndComplete` | the invariants of `log_stream`, for any instances, lines and sizes of channels |
| | `ImplementsPipe` | `Spec => PipeSpec` |

**Assumptions** are those the modules name; TLC evaluates them in every run.
`BitmapAssumption` (a word has a bit, the bitmap two positions), `NoPosAssumption`,
`SchedulerAssumption`, `OperatorAssumption`, `ConfigAssumption`, `LogStreamAssumption`
and `DeviceManagerAssumption` say that null values differ from real ones, that bounds
are numbers, that an instance has a number of lines and a channel room for one, and
that a word is no longer than 50050 bits (64 in the program), so that masking the port 0
that was never recorded, position -50050, is the panic it is in the code.
`SchedulerAssumption` also says that there are finitely many pods and that what pods ask
for and nodes allocate are whole numbers, as `Quantity.MilliValue` and `Value` return them.
`RecordedAssumption` is about the SharePods an earlier version left behind: no port of
the pool is recorded for two of them, those on one GPU, each counted once, ask for no
more than it has, and at least one of them has its device.

**Port bitmap.**  Inductive invariant: type, `NoLeakNoDoubleGrant`, `DistinctPositions`,
nobody holds the reserved position, and "the word of every masked position exists". A
grant picks the nearest free position, which is not held since all held ones are masked;
for `RoundRobin` the distance of another free position shrinks by one more than that of
the one given.  The refinement maps `Restore` and `Take` to the pool's grant, `Refuse`
to its refusal (no free position means no unowned one, by `NoLeakNoDoubleGrant`).

**Scheduler.**  `NoLostPod` and `OneToken` are not inductive.  The invariant adds: the
cache is behind the API server (a pod that exists in the cache exists or has existed, a
node or GPUID the cache shows is there: `CacheBehind`); a pod the cache has not seen has
no key anywhere (`Unseen`); the queue's consistency, with the worker's key as the only
one that is out; `pendingList` has no key twice; and, for the placement, `Settled`:
until a reply is lost, the worker that holds the key of a pod with a GPUID is about to
read it or has finished with it, and whoever holds that key finds the GPUID in the
cache, so that its next reading stops it. Each action moves one key from one place to
another, and the lemmas of `Workqueue_proofs` say what happens to the queue's part.

`PlacedWhereItFits` needs no more of the invariant than the types, and much of the
placement.  `syncPodResources` subtracts from each node the sum over the listed objects
(`CpuCharged` and its like), the property counts the pods themselves (`Requested`).  A sum
over a finite set exists (`SumExists`, built up by the size of the subsets), does not
depend on the order (`SumAnyOrder`, by taking elements away, `Removals`) and is the same
over paired sets (`SumsAgree`); each pod is listed and charged once (`ListedOnce`).  So
what is left of a node is what the pods leave (`WhatIsLeft`), the filters find no GPUID to
remove (`FilteredEmpty`), a node is a candidate exactly when the pod fits
(`CandidateFits`), and `scheduleSharePod` returns nowhere only without a candidate
(`PlacementFits`).

**Operator.**  The spec numbers are ordered along the way they travel: the
Deployment's is at most the one of the SharePod in the worker's hands, that at most
the cache's, that at most the SharePod's, and that at most the number of applies,
with absent places skipped (`Ordered`).  The order of Deployment and worker holds
because a key is out once, which is the queue's consistency (`KeyOut`); `Uids` says
that a SharePod that exists has a uid.  `NoRollback` follows for each write.  `ReplicasKept`
is about one step: the invariant gives the types, `UpdatesOnly` that only
`UpdateDeployment` goes on from "update" to "annotate", and `CountKept` what `getReplicas`
makes of the count.

**Configuration channel.**  A list goes from the manager over a connection into the file
and from there to the launcher, and what is further on the way is never later: the
lists with a UUID on a connection are in order and none is later than the manager's
(`Queued`), and the file is no later than the manager's list and those the client has
still to receive (`Filed`).  That rests on who may write: a connection that holds is the
client's own, a handler that sends has registered, and once a list was sent with its
UUID over a connection that holds, the UUID is known (`Connected`), so that no list
without follows it.  Lists are numbered by the
manager's processes, so `FilesForward` follows for the one action that writes.  For
`CommonKept`, every list on the way, the one the launcher has read included (`Read`), is
one that a manager could send and so has the pod; of a half-written file the launcher
either starts and ends nothing, or the list is empty and no pod is on every list.

**Device manager.**  The invariant follows the process through its start: no goroutine
runs before the end of `initNodesInfo`, none that is not early before the orphans are
gone, and one that is not early works on a GPU that has an entry (`Goroutines`, from
which `EntriesStay` follows); the worker has a key only while the process runs
(`Working`).  During `initNodesInfo` what is listed is what was recorded (`Found`),
so that a port it adds is on no list yet, by `RecordedAssumption`; afterwards a new port
is one that is not masked, and all listed ones are (`Masked`).  The sum of a list is
defined by its partial sums; that they exist and are unique is shown for the list at
hand (`ChargedSteps`, from a least counterexample), and then that a request appended
adds what it asks for.  Nothing is assumed of how many pods are restored, and no limit
follows: `initNodesInfo` charges what was recorded without a look at the sum
(`gpupool.go:187`), and two pods of one Deployment exceed it.  What does hold is
`OnlyRestoredExceed`, step by step: a new entry has one request of at most 1.0, a request
on an old one is compared first, and every other step charges nothing (`WithinStep`).

**Log streaming.**  `Streams` says what a stream that has ended leaves behind while the
context has not, `Counted` that main's count is the number of streams between `Added` and
`Finished`, `Once` that an instance is added once, `Channels` that channels hold lines.  A
stream that has ended cleanly has sent its `Terminated` lines, which is what `EndComplete`
is about, and not always all of them.  So a send on the closed `logs` comes from a reader
whose stream is not counted any more, which takes a cancelled context.  For `InOrder` the
two channels and the relay between them are one sequence, `Way`: a send appends to it, the
relay leaves it as it is, and the handler takes its head, which is the next line of its
instance (`FirstIsNext`).  `ImplementsPipe` maps `SendLine` to the pipe's `Send` unless it
panics, `Deliver` to `Receive` by `FirstIsNext`, the handler's return to `Close`, and
every other step to none.

**Only model-checked.**  Liveness (`ParkedRetried`, `PlacedEventually`,
`DeployedEventually`; `ReadyAgain`, `DeadNoticed` and `ConfigArrives` of
`config_channel`, `WaiterServed` of `device_manager`, the four of `log_stream`) is
beyond TLAPS' reach.  `KeysFit` is left to TLC: it sums over the set of the keys on a list,
and a key that is restored twice counts once, so its invariant would have to follow which
pods were restored.  What the runs that expect a violation refute has no proof.

## 7. What is not modelled

* Function secrets: no code calls `ConfigureSecrets`, and no route leads to the secret
  handler, which passes requests through to the API server.
* Function lookup (`k8s/proxy.go`): a choice among the addresses a lister returns; its
  map of listers is filled once per namespace with equal values.
* Of the device manager: several nodes, which share nothing but the queue and the
  process; GPU memory; the annotation with a node's devices; that a GPU's label gets
  another device when its dummy pod is made again.
* Of the configuration channel: several GPUs, the file `scheduler/config` for the
  external time-slice scheduler, the device list, pod managers that end by themselves.
* Of log streaming: the "" that `main` may receive from the closed `added`, which starts a
  `podLogs` whose request fails.
* Pure pass-throughs and construction of objects: list, info, namespaces, probes,
  security contexts, status; `profiles.go` is commented out.
* Generated code (`client`, deep copies) and `vendor`, of which only the work
  queue is modelled, from its source, and informers as the controllers see them.
* Real time: timers and tickers go off some time, back-off does not count.
* Shutdown in order: the process stops by dying (`Restart`).
* Parsing of annotations: a pod is `valid` or not.
* The chance that `NewGPUID` draws five characters that are in use.

## 8. Plan

Every safety property of the passing runs has its theorem.  Left, in order of what
matters most for the system:

1. An abstract specification of the scheduler (a pod is unplaced, placed, gone), with
   refinement.
2. The same for the operator: the Deployment's spec jumps forward to one of the
   SharePod's.
3. `DeviceManager` composed with `ConfigChannel`: what `syncConfig` sends is the list.
