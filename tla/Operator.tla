------------------------------ MODULE Operator ------------------------------
(***************************************************************************)
(* The faas-share operator: pkg/controller keeps a Deployment and a        *)
(* Service for every SharePod; pkg/server's handlers create, change and    *)
(* delete SharePods and scale Deployments.                                 *)
(*                                                                         *)
(* An informer's events put a SharePod's key on a rate-limited queue.  One *)
(* worker takes a key, reads SharePod and Deployment from the informers'   *)
(* caches and then calls the API server step by step.  The caches lag, the *)
(* calls may fail, users and the autoscaler go on meanwhile.               *)
(*                                                                         *)
(* Every successful apply has a number: the uid of a SharePod is the       *)
(* number of the apply that created it, its spec that of the last apply    *)
(* that changed it.                                                        *)
(***************************************************************************)
EXTENDS Workqueue

CONSTANTS
  Names,        (* names of functions                                       *)
  NoName,       (* the idle worker's key                                    *)
  Mins,         (* values of the min-replicas label, 0: no label            *)
  Scales,       (* replica counts that users and the autoscaler ask for     *)
  Limits        (* how often each event of the environment happens, together *)

Events == {"apply", "scale", "error", "restart", "foreign", "loss"}

ASSUME OperatorAssumption ==
  /\ NoName \notin Names
  /\ Mins \subseteq Nat /\ Scales \subseteq Nat
  /\ Limits \subseteq [Events -> Nat]

VARIABLES
  sharepods, deployments, services,   (* what the API server stores         *)
  spCache, depCache,                  (* what the informers have seen       *)
  notices,      (* calls of the event handlers that are due, in order       *)
  wq,           (* the work queue                                           *)
  worker,       (* the worker: its program counter and local variables      *)
  scaling,      (* the replica handler: idle, has read, has read too early  *)
  used          (* how often each event of the environment happened         *)

users == <<sharepods, scaling, used>>
caches == <<spCache, depCache>>
vars == <<sharepods, deployments, services, spCache, depCache, notices, wq, worker, scaling, used>>

-----------------------------------------------------------------------------
(* Objects.  uid and owner 0: there is none.                               *)

Foreign == -1       (* the owner of a Deployment the operator did not make  *)
NoReplicas == -1    (* a nil replicas field                                 *)

NoSharePod == [uid |-> 0, spec |-> 0, min |-> 0]
NoDeployment == [owner |-> 0, spec |-> 0, replicas |-> NoReplicas]
NoService == [owner |-> 0, spec |-> 0]

SharePods == [uid : Nat, spec : Nat, min : Nat]
Deployments == [owner : Nat \cup {Foreign}, spec : Nat, replicas : Nat \cup {NoReplicas}]
Services == [owner : Nat, spec : Nat]

PCs == {"idle", "sharepod", "deployment", "create", "service", "update", "annotate", "finish"}

Idle == [pc |-> "idle", key |-> NoName, sp |-> NoSharePod, dep |-> NoDeployment]

(* Every variable has its type; the worker has a key unless it is idle,    *)
(* and a SharePod, never an absent one, from the moment it has read it.    *)
TypeOK ==
  /\ sharepods \in [Names -> SharePods] /\ spCache \in [Names -> SharePods]
  /\ deployments \in [Names -> Deployments] /\ depCache \in [Names -> Deployments]
  /\ services \in [Names -> Services]
  /\ notices \in [Names -> Seq({"enqueue", "delete", "tombstone"})]
  /\ wq \in QueueType(Names)
  /\ worker \in [pc : PCs, key : Names \cup {NoName}, sp : SharePods, dep : Deployments]
  /\ scaling \in [Names -> {"idle", "read", "stale"}]
  /\ used \in [Events -> Nat]
  /\ worker.pc = "idle" <=> worker.key = NoName
  /\ worker.pc \in {"deployment", "create", "service", "update", "annotate"} => worker.sp.uid # 0

Init ==
  /\ sharepods = [f \in Names |-> NoSharePod] /\ spCache = sharepods
  /\ deployments = [f \in Names |-> NoDeployment] /\ depCache = deployments
  /\ services = [f \in Names |-> NoService]
  /\ notices = [f \in Names |-> <<>>]
  /\ wq = EmptyQueue
  /\ worker = Idle
  /\ scaling = [f \in Names |-> "idle"]
  /\ used = [e \in Events |-> 0]

Happens(e) == [used EXCEPT ![e] = @ + 1] \in Limits /\ used' = [used EXCEPT ![e] = @ + 1]

(* Any write to a Deployment outdates the resource version that a replica  *)
(* handler may have read.                                                  *)
WriteDeployment(f, d) ==
  /\ deployments' = [deployments EXCEPT ![f] = d]
  /\ scaling' = [scaling EXCEPT ![f] = IF @ = "read" THEN "stale" ELSE @]

-----------------------------------------------------------------------------
(* pkg/server.                                                             *)

(* The apply handler reads the SharePod and creates or updates it.  The    *)
(* update carries the resource version that was read, so it happens at     *)
(* once or not at all.                                                     *)
Apply(f) ==
  /\ Happens("apply")
  /\ \E min \in Mins :
       sharepods' =
         [sharepods EXCEPT ![f] =
            IF @ = NoSharePod THEN [uid |-> used'["apply"], spec |-> used'["apply"], min |-> min]
            ELSE [@ EXCEPT !.spec = used'["apply"], !.min = min]]
  /\ UNCHANGED <<deployments, services, caches, notices, wq, worker, scaling>>

DeleteSharePod(f) ==
  /\ sharepods[f] # NoSharePod
  /\ sharepods' = [sharepods EXCEPT ![f] = NoSharePod]
  /\ UNCHANGED <<deployments, services, caches, notices, wq, worker, scaling, used>>

(* The replica handler reads the Deployment from the API server ...        *)
ScaleRead(f) ==
  /\ scaling[f] = "idle" /\ deployments[f] # NoDeployment
  /\ Happens("scale")
  /\ scaling' = [scaling EXCEPT ![f] = "read"]
  /\ UNCHANGED <<sharepods, deployments, services, caches, notices, wq, worker>>

(* ... and writes it back with another count, unless it changed meanwhile. *)
ScaleWrite(f) ==
  /\ \/ /\ scaling[f] = "read"
        /\ \E n \in Scales : deployments' = [deployments EXCEPT ![f].replicas = n]
     \/ scaling[f] = "stale" /\ UNCHANGED deployments
  /\ scaling' = [scaling EXCEPT ![f] = "idle"]
  /\ UNCHANGED <<sharepods, services, caches, notices, wq, worker, used>>

-----------------------------------------------------------------------------
(* The cluster around the operator.                                        *)

(* Somebody deletes a Deployment, or makes one of the same name.           *)
LoseDeployment(f) ==
  /\ deployments[f] # NoDeployment
  /\ Happens("loss")
  /\ WriteDeployment(f, NoDeployment)
  /\ UNCHANGED <<sharepods, services, caches, notices, wq, worker>>

ForeignDeployment(f) ==
  /\ deployments[f] = NoDeployment
  /\ Happens("foreign")
  /\ deployments' = [deployments EXCEPT ![f] = [owner |-> Foreign, spec |-> 0, replicas |-> 1]]
  /\ UNCHANGED <<sharepods, services, caches, notices, wq, worker, scaling>>

(* Kubernetes removes what belongs to a SharePod that is gone.             *)
Orphaned(f, owner) == owner \notin {0, Foreign, sharepods[f].uid}

CollectGarbage(f) ==
  /\ \/ /\ Orphaned(f, deployments[f].owner)
        /\ WriteDeployment(f, NoDeployment)
        /\ UNCHANGED services
     \/ /\ Orphaned(f, services[f].owner)
        /\ services' = [services EXCEPT ![f] = NoService]
        /\ UNCHANGED <<deployments, scaling>>
  /\ UNCHANGED <<sharepods, caches, notices, wq, worker, used>>

(* Two calls in a row that put the same key on the queue are one.          *)
Notify(f, call) ==
  notices' = [notices EXCEPT ![f] =
                IF call = "enqueue" /\ @ # <<>> /\ @[Len(@)] = call THEN @ ELSE Append(@, call)]

(* The informer sees a change of a SharePod.  A SharePod that was deleted  *)
(* and made again shows as a deletion first or, after the watch broke, as  *)
(* an update; a deletion may show as a DeletedFinalStateUnknown only.      *)
WatchSharePod(f) ==
  /\ spCache[f] # sharepods[f]
  /\ \/ /\ sharepods[f] # NoSharePod
        /\ spCache' = [spCache EXCEPT ![f] = sharepods[f]]
        /\ Notify(f, "enqueue")
     \/ /\ spCache[f] # NoSharePod /\ spCache[f].uid # sharepods[f].uid
        /\ spCache' = [spCache EXCEPT ![f] = NoSharePod]
        /\ \/ Notify(f, "delete")
           \/ sharepods[f] = NoSharePod /\ Notify(f, "tombstone")
  /\ UNCHANGED <<users, deployments, services, depCache, wq, worker>>

(* No handler is registered for Deployments.                               *)
WatchDeployment(f) ==
  /\ depCache[f] # deployments[f]
  /\ depCache' = [depCache EXCEPT ![f] = deployments[f]]
  /\ UNCHANGED <<users, deployments, services, spCache, notices, wq, worker>>

(* Fault for the runs: UpdateFunc ignores an object that did not change.   *)
ResyncIgnored(f) ==
  /\ spCache[f] # NoSharePod
  /\ UNCHANGED vars

(* Every five minutes the informer reports all it has as updated.          *)
Resync(f) ==
  /\ spCache[f] # NoSharePod
  /\ Notify(f, "enqueue")
  /\ UNCHANGED <<users, deployments, services, caches, wq, worker>>

-----------------------------------------------------------------------------
(* The handlers of SharePod events, one after the other.                   *)

(* AddFunc and UpdateFunc: enqueueFunction.                                *)
HandleChange(f) ==
  /\ notices[f] # <<>> /\ Head(notices[f]) = "enqueue"
  /\ wq' = AddRateLimited(wq, f)
  /\ notices' = [notices EXCEPT ![f] = Tail(@)]
  /\ UNCHANGED <<users, deployments, services, caches, worker>>

(* DeleteFunc deletes the Deployment of that name, whoever owns it; if the *)
(* call fails, or there is no SharePod in the event, that was it.          *)
HandleDeleted(f) ==
  /\ notices[f] # <<>> /\ Head(notices[f]) \in {"delete", "tombstone"}
  /\ \/ /\ Head(notices[f]) = "delete"
        /\ WriteDeployment(f, NoDeployment)
        /\ UNCHANGED used
     \/ /\ Head(notices[f]) = "delete"
        /\ Happens("error")
        /\ UNCHANGED <<deployments, scaling>>
     \/ /\ Head(notices[f]) = "tombstone"
        /\ UNCHANGED <<deployments, scaling, used>>
  /\ notices' = [notices EXCEPT ![f] = Tail(@)]
  /\ UNCHANGED <<sharepods, services, caches, wq, worker>>

Timer(f) ==
  /\ f \in wq.delayed
  /\ wq' = Fire(wq, f)
  /\ UNCHANGED <<users, deployments, services, caches, notices, worker>>
-----------------------------------------------------------------------------
(* What the operator wants a Deployment to be.                             *)

(* Fault for the runs: a Deployment scaled to zero is started again.       *)
GetReplicasWakes(min, current) ==
  IF current = NoReplicas THEN IF min = 0 THEN NoReplicas ELSE min
  ELSE IF current >= min THEN current ELSE min

GetReplicas(min, current) ==
  IF current = NoReplicas THEN IF min = 0 THEN NoReplicas ELSE min
  ELSE IF current = 0 \/ min = 0 \/ current >= min THEN current ELSE min

(* The API server stores 1 for a nil replicas field.                       *)
Defaulted(replicas) == IF replicas = NoReplicas THEN 1 ELSE replicas

(* Fault for the runs: the annotation with the spec is the existing one.   *)
NewDeploymentKeepsSpec(sp, existing) ==
  [owner |-> sp.uid, spec |-> IF existing = NoDeployment THEN sp.spec ELSE existing.spec,
   replicas |-> Defaulted(GetReplicas(sp.min, existing.replicas))]

NewDeployment(sp, existing) ==
  [owner |-> sp.uid, spec |-> sp.spec,
   replicas |-> Defaulted(GetReplicas(sp.min, existing.replicas))]

DeploymentNeedsUpdate(sp, dep) == dep.spec # sp.spec

-----------------------------------------------------------------------------
(* The worker: processNextWorkItem and syncHandler.                        *)

Goto(pc) == worker' = [worker EXCEPT !.pc = pc]

(* syncHandler returns.  An error is only logged; unlike success it leaves *)
(* the key's back-off as it is, and back-off times are not modelled.       *)
Return == worker' = [Idle EXCEPT !.pc = "finish", !.key = worker.key]

TakeKey ==
  /\ worker.pc = "idle" /\ wq.queue # <<>>
  /\ worker' = [worker EXCEPT !.pc = "sharepod", !.key = Head(wq.queue)]
  /\ wq' = Get(wq)
  /\ UNCHANGED <<users, deployments, services, caches, notices>>

ReadSharePod ==
  /\ worker.pc = "sharepod"
  /\ \/ spCache[worker.key] = NoSharePod /\ Return
     \/ /\ spCache[worker.key] # NoSharePod
        /\ worker' = [worker EXCEPT !.pc = "deployment", !.sp = spCache[worker.key]]
  /\ UNCHANGED <<users, deployments, services, caches, notices, wq>>

ReadDeployment ==
  /\ worker.pc = "deployment"
  /\ worker' = [worker EXCEPT !.pc = IF depCache[worker.key] = NoDeployment THEN "create" ELSE "service",
                              !.dep = depCache[worker.key]]
  /\ UNCHANGED <<users, deployments, services, caches, notices, wq>>

(* The Deployment is created unless one exists that the cache did not      *)
(* show.  A failed call may have been carried out all the same.            *)
CreateDeployment ==
  LET f == worker.key
      d == NewDeployment(worker.sp, NoDeployment)
  IN  /\ worker.pc = "create"
      /\ \/ /\ deployments[f] = NoDeployment
            /\ WriteDeployment(f, d)
            /\ worker' = [worker EXCEPT !.pc = "service", !.dep = d]
            /\ UNCHANGED used
         \/ deployments[f] # NoDeployment /\ Return /\ UNCHANGED <<deployments, scaling, used>>
         \/ /\ Happens("error") /\ Return
            /\ \/ deployments[f] = NoDeployment /\ WriteDeployment(f, d)
               \/ UNCHANGED <<deployments, scaling>>
      /\ UNCHANGED <<sharepods, services, caches, notices, wq>>

(* What follows the Service: a Deployment that is not controlled by the    *)
(* SharePod is an error, one that differs is updated.                      *)
AfterService ==
  LET same == worker.dep.owner = worker.sp.uid
      differs == DeploymentNeedsUpdate(worker.sp, worker.dep)
  IN  \/ same /\ differs /\ Goto("update")
      \/ ~(same /\ differs) /\ Return

(* The Service is created when the API server says that there is none; if  *)
(* the answer is another error, the Service is taken to be there.          *)
EnsureService ==
  LET f == worker.key
      missing == services[f] = NoService
      create == services' = [services EXCEPT ![f] = [owner |-> worker.sp.uid, spec |-> 0]]
  IN  /\ worker.pc = "service"
      /\ \/ missing /\ create /\ AfterService /\ UNCHANGED used
         \/ ~missing /\ AfterService /\ UNCHANGED <<services, used>>
         \/ Happens("error") /\ AfterService /\ UNCHANGED services
         \/ Happens("error") /\ missing /\ Return /\ (create \/ UNCHANGED services)
      /\ UNCHANGED <<sharepods, deployments, scaling, caches, notices, wq>>

(* The update carries no resource version and replaces whatever Deployment *)
(* has the name, except that another's selector cannot be changed.  What   *)
(* follows is the same whether or not it succeeds.                         *)
UpdateDeployment ==
  LET f == worker.key
      possible == deployments[f].owner \notin {0, Foreign}
      update == WriteDeployment(f, NewDeployment(worker.sp, worker.dep))
  IN  /\ worker.pc = "update"
      /\ \/ possible /\ update /\ UNCHANGED used
         \/ ~possible /\ UNCHANGED <<deployments, scaling, used>>
         \/ Happens("error") /\ UNCHANGED <<deployments, scaling>>
      /\ Goto("annotate")
      /\ UNCHANGED <<sharepods, services, caches, notices, wq>>

(* The Service is read and annotated with the spec; either call may fail.  *)
AnnotateService ==
  LET f == worker.key
  IN  /\ worker.pc = "annotate"
      /\ \/ /\ services[f] # NoService
            /\ services' = [services EXCEPT ![f].spec = worker.sp.spec]
            /\ UNCHANGED used
         \/ services[f] = NoService /\ UNCHANGED <<services, used>>
         \/ Happens("error") /\ UNCHANGED services
      /\ Return
      /\ UNCHANGED <<sharepods, deployments, scaling, caches, notices, wq>>

(* Fault for the runs: the worker goes on with the key it had.             *)
FinishKeepsKey ==
  /\ worker.pc = "finish"
  /\ wq' = Done(wq, worker.key)
  /\ Goto("idle")
  /\ UNCHANGED <<users, deployments, services, caches, notices>>

(* The key is Done, even after an error.                                   *)
Finish ==
  /\ worker.pc = "finish"
  /\ wq' = Done(wq, worker.key)
  /\ worker' = Idle
  /\ UNCHANGED <<users, deployments, services, caches, notices>>

(* The operator dies and starts again with fresh caches.                   *)
Restart ==
  /\ Happens("restart")
  /\ spCache' = sharepods /\ depCache' = deployments
  /\ notices' = [f \in Names |-> IF sharepods[f] = NoSharePod THEN <<>> ELSE <<"enqueue">>]
  /\ wq' = EmptyQueue
  /\ worker' = Idle
  /\ scaling' = [f \in Names |-> "idle"]
  /\ UNCHANGED <<sharepods, deployments, services>>

-----------------------------------------------------------------------------
WorkerStep ==
  \/ TakeKey
  \/ ReadSharePod
  \/ ReadDeployment
  \/ CreateDeployment
  \/ EnsureService
  \/ UpdateDeployment
  \/ AnnotateService
  \/ Finish

Next ==
  \/ WorkerStep
  \/ Restart
  \/ \E f \in Names :
       \/ Apply(f)
       \/ DeleteSharePod(f)
       \/ ScaleRead(f)
       \/ ScaleWrite(f)
       \/ LoseDeployment(f)
       \/ ForeignDeployment(f)
       \/ CollectGarbage(f)
       \/ WatchSharePod(f)
       \/ WatchDeployment(f)
       \/ Resync(f)
       \/ HandleChange(f)
       \/ HandleDeleted(f)
       \/ Timer(f)

Spec == Init /\ [][Next]_vars

(* The worker, the informers with their resync, the handlers, the queue's  *)
(* timers and Kubernetes' garbage collector run; users need do nothing.    *)
Fairness ==
  /\ WF_vars(WorkerStep)
  /\ \A f \in Names :
       /\ WF_vars(CollectGarbage(f))
       /\ WF_vars(WatchSharePod(f)) /\ WF_vars(WatchDeployment(f)) /\ WF_vars(Resync(f))
       /\ WF_vars(HandleChange(f)) /\ WF_vars(HandleDeleted(f)) /\ WF_vars(Timer(f))

FairSpec == Spec /\ Fairness

-----------------------------------------------------------------------------
(* A Deployment is never taken back to an older spec, although the worker  *)
(* updates it unconditionally with what it read from a cache that lags:    *)
(* the caches move forward only and the queue never gives a key out twice. *)
NoRollback ==
  [][\A f \in Names :
       deployments'[f].owner \notin {0, Foreign} => deployments'[f].spec >= deployments[f].spec]_vars

(* An update of a Deployment keeps its replica count, be it zero, unless   *)
(* that is below the SharePod's minimum, provided that the Deployment is   *)
(* still the one the worker read.                                          *)
ReplicasKept ==
  [][\A f \in Names :
       (/\ worker.key = f /\ worker.pc = "update" /\ worker'.pc = "annotate"
        /\ worker.dep = deployments[f]
        /\ (deployments[f].replicas = 0 \/ deployments[f].replicas >= worker.sp.min))
       => deployments'[f].replicas = deployments[f].replicas]_vars

(* Once users leave a SharePod alone it gets a Deployment of its own with  *)
(* its last spec, whatever failed, was deleted, came late or crashed -     *)
(* unless somebody else's Deployment has its name, which is left alone.    *)
DeployedEventually ==
  \A f \in Names :
    <>[](\/ sharepods[f] = NoSharePod
         \/ deployments[f].owner = Foreign
         \/ /\ deployments[f].owner = sharepods[f].uid
            /\ deployments[f].spec = sharepods[f].spec)

(* syncHandler: "If an error occurs during Update, we'll requeue the item  *)
(* so we can attempt processing again later": a Service whose Deployment   *)
(* was updated carries the current spec in the end.                        *)
ServiceFollows ==
  \A f \in Names :
    (worker.pc = "annotate" /\ worker.key = f)
      ~> (sharepods[f] = NoSharePod \/ services[f] = NoService
          \/ services[f].spec = sharepods[f].spec)
=============================================================================
