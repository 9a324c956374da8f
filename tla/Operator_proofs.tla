-------------------------- MODULE Operator_proofs ---------------------------
(***************************************************************************)
(* The operator never takes a Deployment back to an older spec, for any    *)
(* number of functions, changes, failures and restarts.                    *)
(*                                                                         *)
(* The inductive invariant orders the specs of one function by where they  *)
(* are: Deployment, worker, cache, SharePod, number of applies.  The order *)
(* passes over a place that is empty for the moment: a SharePod may be     *)
(* deleted in between, and the one made next has a later spec than all.    *)
(***************************************************************************)
EXTENDS Operator, Workqueue_proofs

(* A uid of 0 marks the absent SharePod and nothing else.                  *)
Uids ==
  \A f \in Names :
    /\ sharepods[f].uid = 0 => sharepods[f] = NoSharePod
    /\ spCache[f].uid = 0 => spCache[f] = NoSharePod

(* The work queue is consistent, only the worker's key is out, and an idle *)
(* worker holds no SharePod.                                               *)
KeyOut ==
  /\ Consistent(wq)
  /\ worker.pc = "idle" => worker.sp = NoSharePod
  /\ wq.processing = IF worker.pc = "idle" THEN {} ELSE {worker.key}

(* No later than what the informer has, if it has anything, what the API   *)
(* server has, if it has anything, and the last apply.                     *)
Known(f, spec) ==
  /\ spCache[f] # NoSharePod => spec <= spCache[f].spec
  /\ sharepods[f] # NoSharePod => spec <= sharepods[f].spec
  /\ spec <= used["apply"]

Ordered(f) ==
  /\ deployments[f].owner \in {0, Foreign} => deployments[f].spec = 0
  /\ Known(f, deployments[f].spec)
  /\ Known(f, spCache[f].spec)
  /\ sharepods[f].spec <= used["apply"]
  /\ worker.key = f =>
       /\ Known(f, worker.sp.spec)
       /\ worker.sp # NoSharePod => deployments[f].spec <= worker.sp.spec

IInv ==
  /\ TypeOK
  /\ KeyOut
  /\ Uids
  /\ \A f \in Names : Ordered(f)

(* What NoRollback asks of one step.                                       *)
Forward ==
  \A f \in Names :
    deployments'[f].owner \notin {0, Foreign} => deployments'[f].spec >= deployments[f].spec

-----------------------------------------------------------------------------
(* One more event of the environment keeps the counters' type; the number  *)
(* of applies does not go down.                                            *)
LEMMA UsedType ==
  ASSUME used \in [Events -> Nat], NEW e \in Events, Happens(e)
  PROVE  /\ used' \in [Events -> Nat]
         /\ used'["apply"] = IF e = "apply" THEN used["apply"] + 1 ELSE used["apply"]
BY DEF Happens, Events

(* The numbers in the objects are natural numbers.                         *)
LEMMA Numbers ==
  ASSUME TypeOK, NEW f \in Names
  PROVE  /\ sharepods[f].spec \in Nat /\ spCache[f].spec \in Nat
         /\ deployments[f].spec \in Nat /\ worker.sp.spec \in Nat
         /\ sharepods[f].uid \in Nat /\ spCache[f].uid \in Nat
         /\ used["apply"] \in Nat
BY DEF TypeOK, SharePods, Deployments, Events

(* Notifying the handlers keeps the type of what they are owed.            *)
LEMMA NotifyType ==
  ASSUME NEW call \in {"enqueue", "delete", "tombstone"}, NEW f \in Names, Notify(f, call),
         notices \in [Names -> Seq({"enqueue", "delete", "tombstone"})]
  PROVE  notices' \in [Names -> Seq({"enqueue", "delete", "tombstone"})]
<1>1. notices[f] \in Seq({"enqueue", "delete", "tombstone"})
  OBVIOUS
<1>2. Append(notices[f], call) \in Seq({"enqueue", "delete", "tombstone"})
  BY <1>1
<1> QED
  BY <1>2 DEF Notify

(* A step that leaves the specs of every place alone keeps their order.    *)
LEMMA SameOrder ==
  ASSUME IInv, UNCHANGED <<sharepods, spCache, worker>>,
         used'["apply"] = used["apply"],
         \A f \in Names :
           /\ deployments'[f].spec \in {0, deployments[f].spec}
           /\ deployments'[f].owner \in {0, Foreign} => deployments'[f].spec = 0
  PROVE  Uids' /\ \A f \in Names : Ordered(f)'
<1>1. Uids'
  BY DEF IInv, Uids
<1>2. ASSUME NEW f \in Names PROVE Ordered(f)'
  <2>1. Ordered(f)
    BY DEF IInv
  <2> QED
    BY <2>1, Numbers DEF IInv, Ordered, Known
<1> QED
  BY <1>1, <1>2

-----------------------------------------------------------------------------
(* Users, the cluster and the informers.                                   *)

(* A new or changed SharePod has a later spec than anything known.         *)
LEMMA ApplyKeeps ==
  ASSUME IInv, NEW f \in Names, Apply(f)
  PROVE  IInv' /\ Forward
<1>1. /\ used' \in [Events -> Nat] /\ used'["apply"] = used["apply"] + 1
      /\ used["apply"] \in Nat
  BY UsedType, Numbers DEF Apply, IInv, TypeOK, Events
<1>2. UNCHANGED <<deployments, services, spCache, depCache, notices, wq, worker, scaling>>
  BY DEF Apply, caches
<1>3. PICK min \in Mins :
        sharepods' =
         [sharepods EXCEPT ![f] =
            IF @ = NoSharePod THEN [uid |-> used'["apply"], spec |-> used'["apply"], min |-> min]
            ELSE [@ EXCEPT !.spec = used'["apply"], !.min = min]]
  BY DEF Apply
<1>4. sharepods[f] \in SharePods /\ min \in Nat
  BY OperatorAssumption DEF IInv, TypeOK
<1>5. /\ sharepods'[f] \in SharePods
      /\ sharepods'[f].spec = used["apply"] + 1
      /\ sharepods'[f].uid # 0
  <2>1. CASE sharepods[f] = NoSharePod
    <3>1. sharepods'[f] = [uid |-> used'["apply"], spec |-> used'["apply"], min |-> min]
      BY <1>3, <2>1 DEF IInv, TypeOK
    <3> QED
      BY <1>1, <1>4, <3>1 DEF SharePods
  <2>2. CASE sharepods[f] # NoSharePod
    <3>1. sharepods'[f] = [sharepods[f] EXCEPT !.spec = used'["apply"], !.min = min]
      BY <1>3, <2>2 DEF IInv, TypeOK
    <3>2. /\ sharepods'[f].uid = sharepods[f].uid
          /\ sharepods'[f].spec = used'["apply"]
          /\ sharepods'[f].min = min
          /\ sharepods'[f] = [uid |-> sharepods'[f].uid, spec |-> sharepods'[f].spec,
                             min |-> sharepods'[f].min]
      BY <1>4, <3>1 DEF SharePods
    <3>3. sharepods[f].uid \in Nat \ {0}
      BY <1>4, <2>2 DEF IInv, Uids, SharePods
    <3> QED
      BY <1>1, <1>4, <3>2, <3>3 DEF SharePods
  <2> QED
    BY <2>1, <2>2
<1>6. /\ sharepods' \in [Names -> SharePods]
      /\ \A g \in Names : g # f => sharepods'[g] = sharepods[g]
  BY <1>3, <1>5 DEF IInv, TypeOK
<1>7. TypeOK'
  BY <1>1, <1>2, <1>6 DEF IInv, TypeOK
<1>8. KeyOut' /\ Uids' /\ Forward
  BY <1>2, <1>5, <1>6, Numbers DEF IInv, KeyOut, Uids, Forward
<1>9. ASSUME NEW g \in Names PROVE Ordered(g)'
  <2>1. Ordered(g)
    BY DEF IInv
  <2> QED
    BY <1>1, <1>2, <1>5, <1>6, <2>1, Numbers DEF IInv, Ordered, Known
<1> QED
  BY <1>7, <1>8, <1>9 DEF IInv

(* A deleted SharePod bounds nothing any more.                             *)
LEMMA DeleteSharePodKeeps ==
  ASSUME IInv, NEW f \in Names, DeleteSharePod(f)
  PROVE  IInv' /\ Forward
<1> USE DEF DeleteSharePod, caches
<1>1. TypeOK'
  BY DEF IInv, TypeOK, SharePods, NoSharePod
<1>2. KeyOut' /\ Uids' /\ Forward
  BY Numbers DEF IInv, TypeOK, KeyOut, Uids, Forward, NoSharePod
<1>3. ASSUME NEW g \in Names PROVE Ordered(g)'
  <2>1. Ordered(g)
    BY DEF IInv
  <2>2. sharepods'[g] = sharepods[g] \/ sharepods'[g] = NoSharePod
    BY DEF IInv, TypeOK
  <2>3. NoSharePod.spec = 0
    BY DEF NoSharePod
  <2> QED
    BY <2>1, <2>2, <2>3, Numbers DEF IInv, Ordered, Known
<1> QED
  BY <1>1, <1>2, <1>3 DEF IInv

(* The replica handler changes no spec.                                    *)
LEMMA ScaleKeeps ==
  ASSUME IInv, NEW f \in Names, ScaleRead(f) \/ ScaleWrite(f)
  PROVE  IInv' /\ Forward
<1> USE DEF caches
<1>1. /\ used' \in [Events -> Nat] /\ used'["apply"] = used["apply"]
      /\ UNCHANGED <<sharepods, services, spCache, depCache, notices, wq, worker>>
      /\ scaling' \in [Names -> {"idle", "read", "stale"}]
  BY UsedType DEF IInv, TypeOK, Events, ScaleRead, ScaleWrite
<1>2. /\ deployments' \in [Names -> Deployments]
      /\ \A g \in Names : /\ deployments'[g].spec = deployments[g].spec
                          /\ deployments'[g].owner = deployments[g].owner
  <2>1. CASE UNCHANGED deployments
    BY <2>1 DEF IInv, TypeOK
  <2>2. ASSUME NEW n \in Scales, deployments' = [deployments EXCEPT ![f].replicas = n]
        PROVE  <1>2
    BY <2>2, OperatorAssumption DEF IInv, TypeOK, Deployments
  <2> QED
    BY <2>1, <2>2 DEF ScaleRead, ScaleWrite
<1>3. TypeOK'
  BY <1>1, <1>2 DEF IInv, TypeOK
<1>4. KeyOut' /\ Forward
  BY <1>1, <1>2, Numbers DEF IInv, KeyOut, Forward
<1>5. \A g \in Names : deployments'[g].owner \in {0, Foreign} => deployments'[g].spec = 0
  BY <1>2 DEF IInv, Ordered
<1> QED
  BY <1>1, <1>2, <1>3, <1>4, <1>5, SameOrder DEF IInv

(* A Deployment that is removed, or somebody else's, has no spec; removing *)
(* one is not a rollback.                                                  *)
LEMMA RemoveKeeps ==
  ASSUME IInv, NEW f \in Names,
         \/ WriteDeployment(f, NoDeployment)
         \/ ForeignDeployment(f)
         \/ UNCHANGED <<deployments, scaling>>,
         services' \in [Names -> Services],
         notices' \in [Names -> Seq({"enqueue", "delete", "tombstone"})],
         used' \in [Events -> Nat], used'["apply"] = used["apply"],
         UNCHANGED <<sharepods, spCache, depCache, wq, worker>>
  PROVE  IInv' /\ Forward
<1>1. /\ NoDeployment \in Deployments
      /\ NoDeployment.owner = 0 /\ NoDeployment.spec = 0
      /\ [owner |-> Foreign, spec |-> 0, replicas |-> 1] \in Deployments
  BY DEF NoDeployment, Deployments, Foreign, NoReplicas
<1>2. /\ deployments' \in [Names -> Deployments]
      /\ scaling' \in [Names -> {"idle", "read", "stale"}]
      /\ \A g \in Names :
           \/ deployments'[g] = deployments[g]
           \/ deployments'[g].owner \in {0, Foreign} /\ deployments'[g].spec = 0
  <2>1. /\ deployments \in [Names -> Deployments]
        /\ scaling \in [Names -> {"idle", "read", "stale"}]
    BY DEF IInv, TypeOK
  <2>2. CASE WriteDeployment(f, NoDeployment)
    BY <1>1, <2>1, <2>2 DEF WriteDeployment
  <2>3. CASE ForeignDeployment(f)
    BY <1>1, <2>1, <2>3 DEF ForeignDeployment
  <2>4. CASE UNCHANGED <<deployments, scaling>>
    BY <2>1, <2>4
  <2> QED
    BY <2>2, <2>3, <2>4
<1>3. TypeOK'
  BY <1>2 DEF IInv, TypeOK
<1>4. KeyOut' /\ Forward
  BY <1>2, Numbers DEF IInv, KeyOut, Forward
<1>5. \A g \in Names : deployments'[g].owner \in {0, Foreign} => deployments'[g].spec = 0
  BY <1>2 DEF IInv, Ordered
<1>6. \A g \in Names : deployments'[g].spec \in {0, deployments[g].spec}
  BY <1>2
<1> QED
  BY <1>3, <1>4, <1>5, <1>6, SameOrder DEF IInv

(* Deployments come and go by other hands than the operator's.             *)
LEMMA ClusterKeeps ==
  ASSUME IInv, NEW f \in Names,
         LoseDeployment(f) \/ ForeignDeployment(f) \/ CollectGarbage(f)
  PROVE  IInv' /\ Forward
<1> USE DEF caches
<1>1. /\ used' \in [Events -> Nat] /\ used'["apply"] = used["apply"]
      /\ UNCHANGED <<sharepods, spCache, depCache, notices, wq, worker>>
  BY UsedType DEF IInv, TypeOK, Events, LoseDeployment, ForeignDeployment, CollectGarbage
<1>2. services' \in [Names -> Services]
  BY DEF IInv, TypeOK, Services, NoService, LoseDeployment, ForeignDeployment, CollectGarbage
<1>3. \/ WriteDeployment(f, NoDeployment)
      \/ ForeignDeployment(f)
      \/ UNCHANGED <<deployments, scaling>>
  BY DEF LoseDeployment, CollectGarbage
<1>4. notices' \in [Names -> Seq({"enqueue", "delete", "tombstone"})]
  BY <1>1 DEF IInv, TypeOK
<1> QED
  BY <1>1, <1>2, <1>3, <1>4, RemoveKeeps

(* DeleteFunc removes the Deployment or leaves it.                         *)
LEMMA HandleDeletedKeeps ==
  ASSUME IInv, NEW f \in Names, HandleDeleted(f)
  PROVE  IInv' /\ Forward
<1> USE DEF HandleDeleted, caches
<1>1. /\ used' \in [Events -> Nat] /\ used'["apply"] = used["apply"]
      /\ UNCHANGED <<sharepods, services, spCache, depCache, wq, worker>>
  BY UsedType DEF IInv, TypeOK, Events
<1>2. notices' \in [Names -> Seq({"enqueue", "delete", "tombstone"})]
  BY DEF IInv, TypeOK
<1>3. services' \in [Names -> Services]
  BY <1>1 DEF IInv, TypeOK
<1> QED
  BY <1>1, <1>2, <1>3, RemoveKeeps

(* The informer moves forward: what it has next is the API server's.       *)
LEMMA WatchSharePodKeeps ==
  ASSUME IInv, NEW f \in Names, WatchSharePod(f)
  PROVE  IInv' /\ Forward
<1> USE DEF WatchSharePod, users
<1>1. /\ spCache' \in [Names -> SharePods]
      /\ spCache'[f] \in {sharepods[f], NoSharePod}
      /\ \A g \in Names : g # f => spCache'[g] = spCache[g]
  <2>1. NoSharePod \in SharePods /\ spCache' = [spCache EXCEPT ![f] = spCache'[f]]
    BY DEF SharePods, NoSharePod, IInv, TypeOK
  <2>2. spCache'[f] \in {sharepods[f], NoSharePod}
    BY DEF IInv, TypeOK
  <2> QED
    BY <2>1, <2>2 DEF IInv, TypeOK
<1>2. notices' \in [Names -> Seq({"enqueue", "delete", "tombstone"})]
  BY NotifyType DEF IInv, TypeOK
<1>3. TypeOK'
  BY <1>1, <1>2 DEF IInv, TypeOK
<1>4. NoSharePod.uid = 0 /\ NoSharePod.spec = 0
  BY DEF NoSharePod
<1>5. KeyOut' /\ Uids' /\ Forward
  BY <1>1, <1>4, Numbers DEF IInv, KeyOut, Uids, Forward
<1>6. ASSUME NEW g \in Names PROVE Ordered(g)'
  <2>1. Ordered(g)
    BY DEF IInv
  <2> QED
    BY <1>1, <1>4, <2>1, Numbers DEF IInv, Ordered, Known
<1> QED
  BY <1>3, <1>5, <1>6 DEF IInv

(* A Deployment seen, a resync, an event handled and a key that becomes    *)
(* due change no spec.                                                     *)
LEMMA DeliveryKeeps ==
  ASSUME IInv, NEW f \in Names,
         WatchDeployment(f) \/ Resync(f) \/ HandleChange(f) \/ Timer(f)
  PROVE  IInv' /\ Forward
<1> USE DEF users, caches
<1>1. UNCHANGED <<sharepods, spCache, deployments, services, worker, used, scaling>>
  BY DEF WatchDeployment, Resync, HandleChange, Timer
<1>2. depCache' \in [Names -> Deployments]
  BY DEF IInv, TypeOK, WatchDeployment, Resync, HandleChange, Timer
<1>3. notices' \in [Names -> Seq({"enqueue", "delete", "tombstone"})]
  <2>1. notices \in [Names -> Seq({"enqueue", "delete", "tombstone"})]
    BY DEF IInv, TypeOK
  <2>2. CASE Resync(f)
    BY <2>1, <2>2, NotifyType DEF Resync
  <2>3. CASE HandleChange(f)
    BY <2>1, <2>3 DEF HandleChange
  <2>4. CASE WatchDeployment(f) \/ Timer(f)
    BY <2>1, <2>4 DEF WatchDeployment, Timer
  <2> QED
    BY <2>2, <2>3, <2>4
<1>4. wq' \in QueueType(Names) /\ Consistent(wq') /\ wq'.processing = wq.processing
  <2>1. wq \in QueueType(Names) /\ Consistent(wq)
    BY DEF IInv, TypeOK, KeyOut
  <2> QED
    BY <2>1, AddRateLimitedFacts, FireFacts DEF WatchDeployment, Resync, HandleChange, Timer
<1>5. TypeOK'
  BY <1>1, <1>2, <1>3, <1>4 DEF IInv, TypeOK
<1>6. KeyOut' /\ Forward
  BY <1>1, <1>4, Numbers DEF IInv, KeyOut, Forward
<1>7. \A g \in Names : deployments'[g].owner \in {0, Foreign} => deployments'[g].spec = 0
  BY <1>1 DEF IInv, Ordered
<1> QED
  BY <1>1, <1>5, <1>6, <1>7, SameOrder DEF IInv
-----------------------------------------------------------------------------
(* The worker.                                                             *)

(* What the worker may do with its place and a Deployment without breaking *)
(* the order: it keeps what it holds, lets it go, or takes it from the     *)
(* cache, and leaves alone, makes or updates its Deployment accordingly.   *)
LEMMA WorkerKeeps ==
  ASSUME IInv, TypeOK', KeyOut', worker.pc # "idle",
         UNCHANGED <<sharepods, spCache>>, used'["apply"] = used["apply"],
         worker'.key \in {worker.key, NoName},
         \/ worker'.sp = worker.sp
         \/ worker'.sp = NoSharePod
         \/ worker'.sp = spCache[worker.key] /\ UNCHANGED deployments,
         \A g \in Names :
           \/ deployments'[g] = deployments[g]
           \/ /\ g = worker.key
              /\ worker.sp # NoSharePod
              /\ deployments'[g].owner \notin {0, Foreign}
              /\ deployments'[g].spec = worker.sp.spec
  PROVE  IInv' /\ Forward
<1>1. /\ worker.key \in Names
      /\ NoName \notin Names
  BY OperatorAssumption DEF IInv, TypeOK
<1>2. NoSharePod.spec = 0
  BY DEF NoSharePod
<1>3. Uids'
  BY DEF IInv, Uids
<1>4. Forward
  <2>1. ASSUME NEW g \in Names PROVE deployments'[g].spec >= deployments[g].spec
    BY <2>1, Numbers DEF IInv, Ordered
  <2> QED
    BY <2>1 DEF Forward
<1>5. ASSUME NEW g \in Names PROVE Ordered(g)'
  <2>1. Ordered(g)
    BY DEF IInv
  <2>2. /\ deployments'[g].owner \in {0, Foreign} => deployments'[g].spec = 0
        /\ Known(g, deployments[g].spec)'
    BY <2>1, Numbers DEF IInv, Ordered, Known
  <2>3. /\ Known(g, spCache[g].spec)'
        /\ sharepods'[g].spec <= used'["apply"]
    BY <2>1, Numbers DEF Ordered, Known
  <2>4. ASSUME worker'.key = g
        PROVE  /\ Known(g, worker.sp.spec)'
               /\ worker'.sp # NoSharePod => deployments'[g].spec <= worker'.sp.spec
    <3>1. worker.key = g
      BY <1>1, <2>4
    <3>2. CASE worker'.sp = worker.sp
      BY <2>1, <3>1, <3>2, Numbers DEF IInv, Ordered, Known
    <3>3. CASE worker'.sp = NoSharePod
      BY <1>2, <2>1, <3>1, <3>3, Numbers DEF IInv, Ordered, Known
    <3>4. CASE worker'.sp = spCache[worker.key] /\ UNCHANGED deployments
      BY <2>1, <3>1, <3>4, Numbers DEF IInv, Ordered, Known
    <3> QED
      BY <3>2, <3>3, <3>4
  <2> QED
    BY <2>2, <2>3, <2>4 DEF Ordered
<1> QED
  BY <1>3, <1>4, <1>5 DEF IInv
WorkerType == [pc : PCs, key : Names \cup {NoName}, sp : SharePods, dep : Deployments]

(* The pcs at which the worker holds a SharePod.                           *)
Holding == {"deployment", "create", "service", "update", "annotate"}

(* The worker's type, and what it has when it is busy.                     *)
LEMMA BusyWorker ==
  ASSUME IInv, worker.pc # "idle"
  PROVE  /\ worker \in WorkerType
         /\ worker.key \in Names
         /\ worker.pc \in Holding => worker.sp # NoSharePod /\ worker.sp.uid # 0
BY DEF IInv, TypeOK, WorkerType, Holding, NoSharePod

(* The idle worker.                                                        *)
LEMMA IdleType ==
  /\ Idle \in WorkerType
  /\ Idle.pc = "idle" /\ Idle.key = NoName /\ Idle.sp = NoSharePod
BY DEF Idle, WorkerType, PCs, NoSharePod, SharePods, NoDeployment, Deployments, NoReplicas

(* Going on keeps everything but the pc.                                   *)
LEMMA GotoFacts ==
  ASSUME IInv, worker.pc # "idle", NEW pc \in PCs, Goto(pc)
  PROVE  /\ worker' \in WorkerType
         /\ worker'.pc = pc /\ worker'.key = worker.key /\ worker'.sp = worker.sp
BY BusyWorker DEF Goto, WorkerType

(* Returning keeps nothing but the key.                                    *)
LEMMA ReturnFacts ==
  ASSUME IInv, worker.pc # "idle", Return
  PROVE  /\ worker' \in WorkerType
         /\ worker'.pc = "finish" /\ worker'.key = worker.key /\ worker'.sp = NoSharePod
<1>1. worker' = [pc |-> "finish", key |-> worker.key, sp |-> NoSharePod, dep |-> NoDeployment]
  BY DEF Return, Idle
<1>2. NoSharePod \in SharePods /\ NoDeployment \in Deployments
  BY DEF NoSharePod, SharePods, NoDeployment, Deployments, NoReplicas
<1>3. worker.key \in Names
  BY BusyWorker
<1> QED
  BY <1>1, <1>2, <1>3 DEF WorkerType, PCs

(* A write changes one Deployment.                                         *)
LEMMA WriteFacts ==
  ASSUME IInv, NEW f \in Names, NEW d \in Deployments, WriteDeployment(f, d)
  PROVE  /\ deployments' \in [Names -> Deployments]
         /\ scaling' \in [Names -> {"idle", "read", "stale"}]
         /\ deployments'[f] = d
         /\ \A g \in Names : g # f => deployments'[g] = deployments[g]
BY DEF IInv, TypeOK, WriteDeployment

(* A Deployment the operator makes belongs to the SharePod and has its     *)
(* spec.                                                                   *)
LEMMA NewDeploymentFacts ==
  ASSUME NEW sp \in SharePods, NEW existing \in Deployments, sp.uid # 0
  PROVE  /\ NewDeployment(sp, existing) \in Deployments
         /\ NewDeployment(sp, existing).owner \notin {0, Foreign}
         /\ NewDeployment(sp, existing).spec = sp.spec
<1>1. /\ sp.uid \in Nat /\ sp.spec \in Nat /\ sp.min \in Nat
      /\ existing.replicas \in Nat \cup {NoReplicas}
  BY DEF SharePods, Deployments
<1>2. Defaulted(GetReplicas(sp.min, existing.replicas)) \in Nat
  BY <1>1 DEF Defaulted, GetReplicas, NoReplicas
<1> QED
  BY <1>1, <1>2 DEF NewDeployment, Deployments, Foreign

(* A step of the busy worker that keeps its key and leaves the queue keeps *)
(* the invariant if it treats its place and the Deployment as above.       *)
LEMMA BusyKeeps ==
  ASSUME IInv, worker.pc # "idle",
         worker' \in WorkerType, worker'.pc # "idle", worker'.key = worker.key,
         worker'.pc \in Holding => worker'.sp.uid # 0,
         UNCHANGED <<sharepods, spCache, depCache, notices, wq>>,
         deployments' \in [Names -> Deployments],
         services' \in [Names -> Services],
         scaling' \in [Names -> {"idle", "read", "stale"}],
         used' \in [Events -> Nat], used'["apply"] = used["apply"],
         \/ worker'.sp = worker.sp
         \/ worker'.sp = NoSharePod
         \/ worker'.sp = spCache[worker.key] /\ UNCHANGED deployments,
         \A g \in Names :
           \/ deployments'[g] = deployments[g]
           \/ /\ g = worker.key
              /\ worker.sp # NoSharePod
              /\ deployments'[g].owner \notin {0, Foreign}
              /\ deployments'[g].spec = worker.sp.spec
  PROVE  IInv' /\ Forward
<1>1. worker.key \in Names /\ NoName \notin Names
  BY BusyWorker, OperatorAssumption
<1>2. TypeOK'
  BY <1>1 DEF IInv, TypeOK, WorkerType, Holding
<1>3. KeyOut'
  BY DEF IInv, KeyOut
<1>4. worker'.key \in {worker.key, NoName}
  OBVIOUS
<1> QED
  BY <1>2, <1>3, <1>4, WorkerKeeps

(* Two reads of the caches.                                                *)
LEMMA ReadSharePodKeeps ==
  ASSUME IInv, ReadSharePod
  PROVE  IInv' /\ Forward
<1>1. /\ worker.pc = "sharepod" /\ worker.pc # "idle"
      /\ UNCHANGED <<sharepods, deployments, services, spCache, depCache, notices, wq, scaling, used>>
  BY DEF ReadSharePod, users, caches
<1>2. /\ deployments \in [Names -> Deployments] /\ services \in [Names -> Services]
      /\ scaling \in [Names -> {"idle", "read", "stale"}] /\ used \in [Events -> Nat]
  BY DEF IInv, TypeOK
<1>3. CASE Return
  BY <1>1, <1>2, <1>3, ReturnFacts, BusyKeeps DEF Holding
<1>4. CASE /\ spCache[worker.key] # NoSharePod
           /\ worker' = [worker EXCEPT !.pc = "deployment", !.sp = spCache[worker.key]]
  <2>1. worker.key \in Names /\ worker \in WorkerType
    BY <1>1, BusyWorker
  <2>2. spCache[worker.key] \in SharePods /\ spCache[worker.key].uid # 0
    BY <1>4, <2>1 DEF IInv, TypeOK, Uids
  <2>3. /\ worker' \in WorkerType /\ worker'.pc = "deployment" /\ worker'.key = worker.key
        /\ worker'.sp = spCache[worker.key]
    BY <1>4, <2>1, <2>2 DEF WorkerType, PCs
  <2> QED
    BY <1>1, <1>2, <2>2, <2>3, BusyKeeps
<1> QED
  BY <1>3, <1>4 DEF ReadSharePod

(* The Deployment's cache decides only where to go.                        *)
LEMMA ReadDeploymentKeeps ==
  ASSUME IInv, ReadDeployment
  PROVE  IInv' /\ Forward
<1>1. /\ worker.pc = "deployment" /\ worker.pc # "idle"
      /\ UNCHANGED <<sharepods, deployments, services, spCache, depCache, notices, wq, scaling, used>>
  BY DEF ReadDeployment, users, caches
<1>2. /\ deployments \in [Names -> Deployments] /\ services \in [Names -> Services]
      /\ scaling \in [Names -> {"idle", "read", "stale"}] /\ used \in [Events -> Nat]
  BY DEF IInv, TypeOK
<1>3. worker.key \in Names /\ worker \in WorkerType /\ worker.sp.uid # 0
  BY <1>1, BusyWorker DEF Holding
<1>4. depCache[worker.key] \in Deployments
  BY <1>3 DEF IInv, TypeOK
<1>5. /\ worker' \in WorkerType /\ worker'.pc \in {"create", "service"}
      /\ worker'.key = worker.key /\ worker'.sp = worker.sp
  BY <1>3, <1>4 DEF ReadDeployment, WorkerType, PCs
<1> QED
  BY <1>1, <1>2, <1>3, <1>5, BusyKeeps

(* The Deployment that is created was not there.                           *)
LEMMA CreateDeploymentKeeps ==
  ASSUME IInv, CreateDeployment
  PROVE  IInv' /\ Forward
<1> DEFINE f == worker.key
           d == NewDeployment(worker.sp, NoDeployment)
<1>1. /\ worker.pc = "create" /\ worker.pc # "idle"
      /\ UNCHANGED <<sharepods, services, spCache, depCache, notices, wq>>
  BY DEF CreateDeployment, caches
<1>2. /\ worker \in WorkerType /\ f \in Names
      /\ worker.sp \in SharePods /\ worker.sp.uid # 0 /\ worker.sp # NoSharePod
  BY <1>1, BusyWorker DEF Holding, WorkerType
<1>3. NoDeployment \in Deployments
  BY DEF NoDeployment, Deployments, NoReplicas
<1>4. d \in Deployments /\ d.owner \notin {0, Foreign} /\ d.spec = worker.sp.spec
  BY <1>2, <1>3, NewDeploymentFacts
<1>5. services' \in [Names -> Services]
  BY <1>1 DEF IInv, TypeOK
<1>6. used' \in [Events -> Nat] /\ used'["apply"] = used["apply"]
  BY UsedType DEF CreateDeployment, IInv, TypeOK, Events
<1>7. WriteDeployment(f, d) \/ UNCHANGED <<deployments, scaling>>
  BY DEF CreateDeployment
<1>8. /\ deployments' \in [Names -> Deployments]
      /\ scaling' \in [Names -> {"idle", "read", "stale"}]
      /\ \A g \in Names :
           \/ deployments'[g] = deployments[g]
           \/ /\ g = worker.key
              /\ worker.sp # NoSharePod
              /\ deployments'[g].owner \notin {0, Foreign}
              /\ deployments'[g].spec = worker.sp.spec
  <2>1. CASE WriteDeployment(f, d)
    BY <1>2, <1>4, <2>1, WriteFacts
  <2>2. CASE UNCHANGED <<deployments, scaling>>
    BY <2>2 DEF IInv, TypeOK
  <2> QED
    BY <1>7, <2>1, <2>2
<1>9. /\ worker' \in WorkerType /\ worker'.pc # "idle" /\ worker'.key = worker.key
      /\ worker'.pc \in Holding => worker'.sp.uid # 0
      /\ worker'.sp = worker.sp \/ worker'.sp = NoSharePod
  <2>1. CASE Return
    BY <1>1, <2>1, ReturnFacts DEF Holding
  <2>2. CASE worker' = [worker EXCEPT !.pc = "service", !.dep = d]
    BY <1>2, <1>4, <2>2 DEF WorkerType, PCs
  <2> QED
    BY <2>1, <2>2 DEF CreateDeployment
<1> QED
  BY <1>1, <1>5, <1>6, <1>8, <1>9, BusyKeeps
(* Services are nobody's business but the worker's and the collector's.    *)
LEMMA EnsureServiceKeeps ==
  ASSUME IInv, EnsureService
  PROVE  IInv' /\ Forward
<1>1. /\ worker.pc = "service" /\ worker.pc # "idle"
      /\ UNCHANGED <<sharepods, deployments, scaling, spCache, depCache, notices, wq>>
  BY DEF EnsureService, caches
<1>2. worker \in WorkerType /\ worker.key \in Names /\ worker.sp.uid # 0
  BY <1>1, BusyWorker DEF Holding
<1>3. [owner |-> worker.sp.uid, spec |-> 0] \in Services
  BY <1>2 DEF WorkerType, SharePods, Services
<1>4. services' \in [Names -> Services]
  BY <1>3 DEF EnsureService, IInv, TypeOK
<1>5. used' \in [Events -> Nat] /\ used'["apply"] = used["apply"]
  BY UsedType DEF EnsureService, IInv, TypeOK, Events
<1>6. /\ deployments' \in [Names -> Deployments]
      /\ scaling' \in [Names -> {"idle", "read", "stale"}]
  BY <1>1 DEF IInv, TypeOK
<1>7. Return \/ Goto("update")
  BY DEF EnsureService, AfterService
<1>8. /\ worker' \in WorkerType /\ worker'.pc # "idle" /\ worker'.key = worker.key
      /\ worker'.pc \in Holding => worker'.sp.uid # 0
      /\ worker'.sp = worker.sp \/ worker'.sp = NoSharePod
  <2>1. CASE Return
    BY <1>1, <2>1, ReturnFacts DEF Holding
  <2>2. CASE Goto("update")
    <3>1. "update" \in PCs
      BY DEF PCs
    <3> QED
      BY <1>1, <1>2, <2>2, <3>1, GotoFacts
  <2> QED
    BY <1>7, <2>1, <2>2
<1> QED
  BY <1>1, <1>4, <1>5, <1>6, <1>8, BusyKeeps

(* The update writes the spec the worker holds, which is no older than the *)
(* Deployment's.                                                           *)
LEMMA UpdateDeploymentKeeps ==
  ASSUME IInv, UpdateDeployment
  PROVE  IInv' /\ Forward
<1> DEFINE f == worker.key
           d == NewDeployment(worker.sp, worker.dep)
<1>1. /\ worker.pc = "update" /\ worker.pc # "idle" /\ Goto("annotate")
      /\ UNCHANGED <<sharepods, services, spCache, depCache, notices, wq>>
  BY DEF UpdateDeployment, caches
<1>2. /\ worker \in WorkerType /\ f \in Names
      /\ worker.sp \in SharePods /\ worker.sp.uid # 0 /\ worker.sp # NoSharePod
      /\ worker.dep \in Deployments
  BY <1>1, BusyWorker DEF Holding, WorkerType
<1>3. d \in Deployments /\ d.owner \notin {0, Foreign} /\ d.spec = worker.sp.spec
  BY <1>2, NewDeploymentFacts
<1>4. services' \in [Names -> Services]
  BY <1>1 DEF IInv, TypeOK
<1>5. used' \in [Events -> Nat] /\ used'["apply"] = used["apply"]
  BY UsedType DEF UpdateDeployment, IInv, TypeOK, Events
<1>6. WriteDeployment(f, d) \/ UNCHANGED <<deployments, scaling>>
  BY DEF UpdateDeployment
<1>7. /\ deployments' \in [Names -> Deployments]
      /\ scaling' \in [Names -> {"idle", "read", "stale"}]
      /\ \A g \in Names :
           \/ deployments'[g] = deployments[g]
           \/ /\ g = worker.key
              /\ worker.sp # NoSharePod
              /\ deployments'[g].owner \notin {0, Foreign}
              /\ deployments'[g].spec = worker.sp.spec
  <2>1. CASE WriteDeployment(f, d)
    BY <1>2, <1>3, <2>1, WriteFacts
  <2>2. CASE UNCHANGED <<deployments, scaling>>
    BY <2>2 DEF IInv, TypeOK
  <2> QED
    BY <1>6, <2>1, <2>2
<1>8. /\ worker' \in WorkerType /\ worker'.pc = "annotate" /\ worker'.key = worker.key
      /\ worker'.sp = worker.sp
  <2>1. "annotate" \in PCs
    BY DEF PCs
  <2> QED
    BY <1>1, <2>1, GotoFacts
<1> QED
  BY <1>1, <1>2, <1>4, <1>5, <1>7, <1>8, BusyKeeps

(* A Service's annotations bear on no Deployment.                          *)
LEMMA AnnotateServiceKeeps ==
  ASSUME IInv, AnnotateService
  PROVE  IInv' /\ Forward
<1>1. /\ worker.pc = "annotate" /\ worker.pc # "idle" /\ Return
      /\ UNCHANGED <<sharepods, deployments, scaling, spCache, depCache, notices, wq>>
  BY DEF AnnotateService, caches
<1>2. worker.sp.spec \in Nat /\ worker.key \in Names
  BY <1>1, BusyWorker, Numbers DEF IInv
<1>3. services' \in [Names -> Services]
  <2>1. services \in [Names -> Services] /\ services[worker.key] \in Services
    BY <1>2 DEF IInv, TypeOK
  <2>2. [services[worker.key] EXCEPT !.spec = worker.sp.spec] \in Services
    BY <1>2, <2>1 DEF Services
  <2> QED
    BY <2>1, <2>2 DEF AnnotateService
<1>4. used' \in [Events -> Nat] /\ used'["apply"] = used["apply"]
  BY UsedType DEF AnnotateService, IInv, TypeOK, Events
<1>5. /\ deployments' \in [Names -> Deployments]
      /\ scaling' \in [Names -> {"idle", "read", "stale"}]
  BY <1>1 DEF IInv, TypeOK
<1>6. /\ worker' \in WorkerType /\ worker'.pc # "idle" /\ worker'.key = worker.key
      /\ worker'.pc \notin Holding /\ worker'.sp = NoSharePod
  BY <1>1, ReturnFacts DEF Holding
<1> QED
  BY <1>1, <1>3, <1>4, <1>5, <1>6, BusyKeeps

(* The key taken is the only one out.                                      *)
LEMMA TakeKeyKeeps ==
  ASSUME IInv, TakeKey
  PROVE  IInv' /\ Forward
<1> DEFINE k == Head(wq.queue)
<1>1. /\ worker.pc = "idle" /\ wq.queue # <<>> /\ wq' = Get(wq)
      /\ worker' = [worker EXCEPT !.pc = "sharepod", !.key = k]
      /\ UNCHANGED <<sharepods, deployments, services, spCache, depCache, notices, scaling, used>>
  BY DEF TakeKey, users, caches
<1>2. wq \in QueueType(Names) /\ Consistent(wq) /\ wq.processing = {}
  BY <1>1 DEF IInv, TypeOK, KeyOut
<1>3. k \in Names
  BY <1>1, <1>2, GetFacts DEF QueueType
<1>4. wq' \in QueueType(Names) /\ Consistent(wq') /\ wq'.processing = {k}
  BY <1>1, <1>2, GetFacts
<1>5. /\ worker' \in WorkerType /\ worker'.pc = "sharepod" /\ worker'.key = k
      /\ worker'.sp = worker.sp
  BY <1>1, <1>3 DEF IInv, TypeOK, WorkerType, PCs
<1>6. TypeOK'
  BY <1>1, <1>3, <1>4, <1>5, OperatorAssumption DEF IInv, TypeOK, WorkerType
<1>7. KeyOut' /\ Uids'
  BY <1>1, <1>4, <1>5 DEF IInv, KeyOut, Uids
<1>8. Forward
  BY <1>1, Numbers DEF IInv, Forward
<1>9. NoName \notin Names /\ worker.key = NoName
  BY <1>1, OperatorAssumption DEF IInv, TypeOK
<1>10. worker.sp = NoSharePod /\ NoSharePod.spec = 0
  BY <1>1 DEF IInv, KeyOut, NoSharePod
<1>11. ASSUME NEW g \in Names PROVE Ordered(g)'
  <2>1. Ordered(g)
    BY DEF IInv
  <2> QED
    BY <1>1, <1>5, <1>10, <2>1, Numbers DEF IInv, Ordered, Known
<1> QED
  BY <1>6, <1>7, <1>8, <1>11 DEF IInv

(* The key given back is the one that was out.                             *)
LEMMA FinishKeeps ==
  ASSUME IInv, Finish
  PROVE  IInv' /\ Forward
<1>1. /\ worker.pc = "finish" /\ worker.pc # "idle"
      /\ wq' = Done(wq, worker.key) /\ worker' = Idle
      /\ UNCHANGED <<sharepods, deployments, services, spCache, depCache, notices, scaling, used>>
  BY DEF Finish, users, caches
<1>2. /\ wq \in QueueType(Names) /\ Consistent(wq) /\ wq.processing = {worker.key}
  BY <1>1 DEF IInv, TypeOK, KeyOut
<1>3. wq' \in QueueType(Names) /\ Consistent(wq') /\ wq'.processing = {}
  BY <1>1, <1>2, DoneFacts
<1>4. Idle \in WorkerType /\ Idle.pc = "idle" /\ Idle.key = NoName /\ Idle.sp = NoSharePod
  BY IdleType
<1>5. TypeOK'
  BY <1>1, <1>3, <1>4 DEF IInv, TypeOK, WorkerType
<1>6. KeyOut'
  BY <1>1, <1>3, <1>4 DEF KeyOut
<1> QED
  BY <1>1, <1>4, <1>5, <1>6, WorkerKeeps DEF IInv, TypeOK

(* After a crash the caches are what the API server has.                   *)
LEMMA RestartKeeps ==
  ASSUME IInv, Restart
  PROVE  IInv' /\ Forward
<1>1. /\ spCache' = sharepods /\ depCache' = deployments
      /\ wq' = EmptyQueue /\ worker' = Idle
      /\ notices' = [f \in Names |-> IF sharepods[f] = NoSharePod THEN <<>> ELSE <<"enqueue">>]
      /\ scaling' = [f \in Names |-> "idle"]
      /\ UNCHANGED <<sharepods, deployments, services>>
  BY DEF Restart
<1>2. used' \in [Events -> Nat] /\ used'["apply"] = used["apply"]
  BY UsedType DEF Restart, IInv, TypeOK, Events
<1>3. Idle \in WorkerType /\ Idle.pc = "idle" /\ Idle.key = NoName /\ Idle.sp = NoSharePod
  BY IdleType
<1>4. EmptyQueue \in QueueType(Names) /\ Consistent(EmptyQueue) /\ EmptyQueue.processing = {}
  BY EmptyFacts DEF EmptyQueue
<1>5. notices' \in [Names -> Seq({"enqueue", "delete", "tombstone"})]
  <2>1. /\ <<>> \in Seq({"enqueue", "delete", "tombstone"})
        /\ <<"enqueue">> \in Seq({"enqueue", "delete", "tombstone"})
    OBVIOUS
  <2> QED
    BY <1>1, <2>1
<1>6. TypeOK'
  BY <1>1, <1>2, <1>3, <1>4, <1>5 DEF IInv, TypeOK, WorkerType
<1>7. KeyOut' /\ Uids'
  BY <1>1, <1>3, <1>4 DEF IInv, KeyOut, Uids
<1>8. Forward
  BY <1>1, Numbers DEF IInv, Forward
<1>9. ASSUME NEW g \in Names PROVE Ordered(g)'
  <2>1. Ordered(g) /\ NoName \notin Names
    BY OperatorAssumption DEF IInv
  <2> QED
    BY <1>1, <1>2, <1>3, <2>1, Numbers DEF IInv, Ordered, Known
<1> QED
  BY <1>6, <1>7, <1>8, <1>9 DEF IInv

-----------------------------------------------------------------------------
(* The invariant holds at the start: there is nothing to order.            *)
LEMMA InitIInv == Init => IInv
<1> SUFFICES ASSUME Init PROVE IInv
  OBVIOUS
<1>1. /\ NoSharePod \in SharePods /\ NoSharePod.spec = 0
      /\ NoDeployment \in Deployments /\ NoDeployment.spec = 0
      /\ NoService \in Services
  BY DEF NoSharePod, SharePods, NoDeployment, Deployments, NoReplicas, NoService, Services
<1>2. Idle \in WorkerType /\ Idle.pc = "idle" /\ Idle.key = NoName /\ Idle.sp = NoSharePod
  BY IdleType
<1>3. EmptyQueue \in QueueType(Names) /\ Consistent(EmptyQueue) /\ EmptyQueue.processing = {}
  BY EmptyFacts DEF EmptyQueue
<1>4. notices \in [Names -> Seq({"enqueue", "delete", "tombstone"})] /\ used \in [Events -> Nat]
  BY DEF Init
<1>5. used["apply"] = 0
  BY DEF Init, Events
<1>6. TypeOK
  BY <1>1, <1>2, <1>3, <1>4 DEF Init, TypeOK, WorkerType
<1>7. KeyOut /\ Uids
  BY <1>2, <1>3 DEF Init, KeyOut, Uids
<1>8. ASSUME NEW f \in Names PROVE Ordered(f)
  BY <1>1, <1>2, <1>5, OperatorAssumption DEF Init, Ordered, Known
<1> QED
  BY <1>6, <1>7, <1>8 DEF IInv

(* Every step keeps the invariant and takes no Deployment back.            *)
LEMMA NextIInv == IInv /\ [Next]_vars => IInv' /\ Forward
<1> SUFFICES ASSUME IInv, [Next]_vars PROVE IInv' /\ Forward
  OBVIOUS
<1>1. CASE WorkerStep
  BY <1>1, TakeKeyKeeps, ReadSharePodKeeps, ReadDeploymentKeeps, CreateDeploymentKeeps,
     EnsureServiceKeeps, UpdateDeploymentKeeps, AnnotateServiceKeeps, FinishKeeps DEF WorkerStep
<1>2. CASE Restart
  BY <1>2, RestartKeeps
<1>3. ASSUME NEW f \in Names, Apply(f) \/ DeleteSharePod(f) \/ ScaleRead(f) \/ ScaleWrite(f)
      PROVE  IInv' /\ Forward
  BY <1>3, ApplyKeeps, DeleteSharePodKeeps, ScaleKeeps
<1>4. ASSUME NEW f \in Names, LoseDeployment(f) \/ ForeignDeployment(f) \/ CollectGarbage(f)
      PROVE  IInv' /\ Forward
  BY <1>4, ClusterKeeps
<1>5. ASSUME NEW f \in Names,
             WatchSharePod(f) \/ WatchDeployment(f) \/ Resync(f) \/ HandleChange(f) \/ Timer(f)
      PROVE  IInv' /\ Forward
  BY <1>5, WatchSharePodKeeps, DeliveryKeeps
<1>6. ASSUME NEW f \in Names, HandleDeleted(f)
      PROVE  IInv' /\ Forward
  BY <1>6, HandleDeletedKeeps
<1>7. CASE UNCHANGED vars
  <2>1. UNCHANGED <<sharepods, deployments, services, spCache, depCache, notices, wq, worker,
                    scaling, used>>
    BY <1>7 DEF vars
  <2>2. TypeOK' /\ KeyOut' /\ Forward
    BY <2>1, Numbers DEF IInv, TypeOK, KeyOut, Forward
  <2>3. \A g \in Names : deployments'[g].owner \in {0, Foreign} => deployments'[g].spec = 0
    BY <2>1 DEF IInv, Ordered
  <2> QED
    BY <2>1, <2>2, <2>3, SameOrder DEF IInv
<1> QED
  BY <1>1, <1>2, <1>3, <1>4, <1>5, <1>6, <1>7 DEF Next

(* The order of the specs is an invariant.                                 *)
LEMMA Invariance == Spec => []IInv
<1> QED
  BY InitIInv, NextIInv, PTL DEF Spec

(* Every state of the operator has its type.                               *)
THEOREM TypeCorrect == Spec => []TypeOK
<1>1. IInv => TypeOK
  BY DEF IInv
<1> QED
  BY <1>1, Invariance, PTL

(* No step of anyone takes a Deployment back to an older spec, however far *)
(* the worker's caches lag behind, whatever fails, and for any number of   *)
(* functions, changes and restarts.                                        *)
THEOREM NeverRolledBack == Spec => NoRollback
<1>1. IInv /\ [Next]_vars =>
        [\A f \in Names :
           deployments'[f].owner \notin {0, Foreign}
             => deployments'[f].spec >= deployments[f].spec]_vars
  BY NextIInv DEF Forward
<1> QED
  BY <1>1, Invariance, PTL DEF Spec, NoRollback

-----------------------------------------------------------------------------
(* getReplicas: a count that is zero or not below the minimum is kept.     *)
LEMMA CountKept ==
  ASSUME NEW sp \in SharePods, NEW dep \in Deployments, dep.replicas = 0 \/ dep.replicas >= sp.min
  PROVE  NewDeployment(sp, dep).replicas = dep.replicas
<1>1. sp.min \in Nat /\ dep.replicas \in Nat \cup {NoReplicas}
  BY DEF SharePods, Deployments
<1>2. dep.replicas \in Nat /\ dep.replicas # NoReplicas
  BY <1>1 DEF NoReplicas
<1>3. GetReplicas(sp.min, dep.replicas) = dep.replicas
  BY <1>1, <1>2 DEF GetReplicas
<1> QED
  BY <1>2, <1>3 DEF NewDeployment, Defaulted

(* Only UpdateDeployment takes the worker from its update on.              *)
LEMMA UpdatesOnly ==
  ASSUME IInv, [Next]_vars, worker.pc = "update", worker'.pc = "annotate"
  PROVE  UpdateDeployment
<1>1. worker' # worker
  OBVIOUS
<1>2. CASE WorkerStep
  BY <1>2 DEF WorkerStep, TakeKey, ReadSharePod, ReadDeployment, CreateDeployment, EnsureService,
     AnnotateService, Finish
<1>3. CASE Restart
  BY <1>3 DEF Restart, Idle
<1>4. ASSUME NEW f \in Names,
             \/ Apply(f) \/ DeleteSharePod(f) \/ ScaleRead(f) \/ ScaleWrite(f)
             \/ LoseDeployment(f) \/ ForeignDeployment(f) \/ CollectGarbage(f)
             \/ WatchSharePod(f) \/ WatchDeployment(f) \/ Resync(f)
             \/ HandleChange(f) \/ HandleDeleted(f) \/ Timer(f)
      PROVE  worker' = worker
  BY <1>4 DEF Apply, DeleteSharePod, ScaleRead, ScaleWrite, LoseDeployment, ForeignDeployment,
     CollectGarbage, WatchSharePod, WatchDeployment, Resync, HandleChange, HandleDeleted, Timer
<1>5. CASE UNCHANGED vars
  BY <1>1, <1>5 DEF vars
<1> QED
  BY <1>1, <1>2, <1>3, <1>4, <1>5 DEF Next

(* The update of a Deployment that is still as the worker has read it      *)
(* keeps a replica count of zero, or one that is not below the minimum:    *)
(* syncHandler takes it from the existing Deployment (getReplicas).        *)
THEOREM ReplicasHeld == Spec => ReplicasKept
<1> DEFINE Kept == \A f \in Names :
                     (/\ worker.key = f /\ worker.pc = "update" /\ worker'.pc = "annotate"
                      /\ worker.dep = deployments[f]
                      /\ (deployments[f].replicas = 0 \/ deployments[f].replicas >= worker.sp.min))
                     => deployments'[f].replicas = deployments[f].replicas
<1>1. ASSUME IInv, [Next]_vars PROVE Kept
  <2> SUFFICES ASSUME NEW f \in Names,
                      worker.key = f, worker.pc = "update", worker'.pc = "annotate",
                      worker.dep = deployments[f],
                      deployments[f].replicas = 0 \/ deployments[f].replicas >= worker.sp.min
               PROVE  deployments'[f].replicas = deployments[f].replicas
    OBVIOUS
  <2>1. UpdateDeployment
    BY <1>1, UpdatesOnly
  <2>2. worker.sp \in SharePods /\ worker.dep \in Deployments /\ deployments \in [Names -> Deployments]
    BY <1>1 DEF IInv, TypeOK
  <2>3. NewDeployment(worker.sp, worker.dep).replicas = deployments[f].replicas
    BY <2>2, CountKept
  <2>4. WriteDeployment(f, NewDeployment(worker.sp, worker.dep)) \/ UNCHANGED deployments
    BY <2>1 DEF UpdateDeployment
  <2> QED
    BY <2>2, <2>3, <2>4 DEF WriteDeployment
<1>2. Spec => [][Kept]_vars
  <2> HIDE DEF Kept
  <2> QED
    BY <1>1, Invariance, PTL DEF Spec
<1> QED
  BY <1>2 DEF ReplicasKept
=============================================================================
