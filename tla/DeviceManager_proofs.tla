------------------------ MODULE DeviceManager_proofs -------------------------
(***************************************************************************)
(* For any number of Deployments, pods, GPUs and goroutines and any        *)
(* faults: what is charged to a GPU is what its list asks for, it goes     *)
(* beyond Whole only by restored pods, no position of the pool is given    *)
(* twice, and entries stay once cleanOrphanDummyPod has run.               *)
(*                                                                         *)
(* The inductive invariant says who may run before the workers do          *)
(* (Goroutines), what initNodesInfo has found (Found), and that the listed *)
(* ports are masked (Masked).                                              *)
(***************************************************************************)
EXTENDS DeviceManager, Workqueue_proofs

(* The worker has a key only when it runs; the queue knows of it.          *)
Working ==
  /\ worker.at # "idle" => proc = "running" /\ worker.key \in wq.processing
  /\ worker.at = "patch" => worker.pod \in Pods

(* Nothing is on the pool before initNodesInfo, and no goroutine runs      *)
(* before its end; those started before the workers are early, and a late  *)
(* one works on a GPU that has an entry.                                   *)
Goroutines ==
  /\ proc \in {"down", "starting"} => DOMAIN gpus = {}
  /\ proc \in {"down", "starting", "restoring"} => go = {}
  /\ proc # "running" => \A t \in go : t.early
  /\ \A t \in go : ~t.early => t.gpu \in DOMAIN gpus

(* What initNodesInfo has found can be listed; what it has listed is what  *)
(* was recorded.                                                           *)
Found ==
  proc = "restoring" =>
    /\ \A pod \in restore.found :
         LET k == Owner[pod.pod] IN
         app[k].request # NoRequest /\ app[k].placed \in DOMAIN gpus
    /\ \A g \in DOMAIN gpus : \A e \in Range(gpus[g].list) :
         app[e.key].placed = g /\ e.port = app[e.key].port

(* A listed port of the pool is masked.                                    *)
Masked ==
  \A g \in DOMAIN gpus : \A e \in Range(gpus[g].list) :
    e.port # PoolFull => e.port \in pool.bitmap.bits

IInv ==
  /\ TypeOK
  /\ Working
  /\ Goroutines
  /\ Found
  /\ Masked
  /\ PortsDistinct
  /\ UsageIsSum

-----------------------------------------------------------------------------
(* Adding all the keys of a list to a work queue leaves it one, and what   *)
(* is being processed as it was.                                           *)
LEMMA AllAddedFacts ==
  ASSUME NEW K, NEW q \in QueueType(K), Consistent(q), NEW list, Len(list) \in Nat,
         \A n \in 1 .. Len(list) : list[n].key \in K
  PROVE  /\ AllAdded(q, list) \in QueueType(K)
         /\ Consistent(AllAdded(q, list))
         /\ AllAdded(q, list).processing = q.processing
<1> DEFINE Q == {x \in QueueType(K) : Consistent(x) /\ x.processing = q.processing}
           N == Len(list)
           key(n) == list[n].key
           s == [n \in 1 .. N |-> [x \in Q |-> Add(x, key(n))]]
           Step(f) == [n \in 0 .. N |-> IF n = 0 THEN q ELSE Add(f[n - 1], key(n))]
           after == CHOOSE f : f = Step(f)
<1>1. AllAdded(q, list) = after[N]
  BY DEF AllAdded
<1>2. \A n \in 1 .. N, x \in Q : Add(x, key(n)) \in Q
  BY AddFacts
<1>3. q \in Q /\ N \in Nat
  OBVIOUS
<1> HIDE DEF Q, N, key
<1>4. s \in [1 .. N -> [Q -> Q]]
  BY <1>2
<1> HIDE DEF s
<1>5. PICK f \in [0 .. N -> Q] : f[0] = q /\ \A n \in 1 .. N : f[n] = s[n][f[n - 1]]
  BY <1>3, <1>4, StepsExist
<1>6. \A n \in 1 .. N : f[n - 1] \in Q /\ f[n] = Add(f[n - 1], key(n))
  <2> TAKE n \in 1 .. N
  <2>1. n - 1 \in 0 .. N
    BY <1>3
  <2>2. f[n - 1] \in Q /\ f[n] = s[n][f[n - 1]]
    BY <1>5, <2>1
  <2> QED
    BY <2>2 DEF s
<1>7. f = Step(f)
  BY <1>3, <1>5, <1>6
<1>8. after = Step(after)
  BY <1>7
<1> HIDE DEF after
<1>9. after[0] = q /\ \A n \in 1 .. N : after[n] = Add(after[n - 1], key(n))
  BY <1>3, <1>8
<1>10. \A n \in 0 .. N : after[n] = f[n]
  <2> DEFINE E == {n \in 0 .. N : after[n] = f[n]}
  <2>1. 0 \in E
    BY <1>3, <1>5, <1>9
  <2>2. \A n \in 1 .. N : n - 1 \in E => n \in E
    BY <1>3, <1>6, <1>9
  <2>3. \A n \in 0 .. N : n \in E
    <3> HIDE DEF E
    <3> QED
      BY <1>3, <2>1, <2>2, CountUp
  <2> QED
    BY <2>3
<1>11. after[N] \in Q
  BY <1>3, <1>5, <1>10
<1> QED
  BY <1>1, <1>11 DEF Q

(* The sum of a list: nothing when it is empty, and what is appended is    *)
(* added.                                                                  *)
LEMMA ChargedSteps ==
  ASSUME NEW list, Len(list) \in Nat, \A n \in 1 .. Len(list) : list[n].req \in Nat
  PROVE  \E f \in [0 .. Len(list) -> Nat] :
           /\ Charged(list) = f[Len(list)]
           /\ f[0] = 0
           /\ \A n \in 1 .. Len(list) : f[n] = f[n - 1] + list[n].req
<1> DEFINE N == Len(list)
           req(n) == list[n].req
           s == [n \in 1 .. N |-> [x \in Nat |-> x + req(n)]]
           Step(f) == [n \in 0 .. N |-> IF n = 0 THEN 0 ELSE f[n - 1] + req(n)]
           upto == CHOOSE f : f = Step(f)
<1>1. Charged(list) = upto[N]
  BY DEF Charged
<1>2. N \in Nat /\ \A n \in 1 .. N : req(n) \in Nat
  OBVIOUS
<1> HIDE DEF N, req
<1>3. s \in [1 .. N -> [Nat -> Nat]]
  BY <1>2
<1> HIDE DEF s
<1>4. PICK f \in [0 .. N -> Nat] : f[0] = 0 /\ \A n \in 1 .. N : f[n] = s[n][f[n - 1]]
  <2> DEFINE S == Nat
             zero == 0
  <2>1. zero \in S /\ s \in [1 .. N -> [S -> S]]
    BY <1>3
  <2> HIDE DEF S, zero
  <2>2. \E f \in [0 .. N -> S] : f[0] = zero /\ \A n \in 1 .. N : f[n] = s[n][f[n - 1]]
    BY <1>2, <2>1, StepsExist
  <2> QED
    BY <2>2 DEF S, zero
<1>5. \A n \in 1 .. N : f[n - 1] \in Nat /\ f[n] = f[n - 1] + req(n)
  <2> TAKE n \in 1 .. N
  <2>1. n - 1 \in 0 .. N
    BY <1>2
  <2>2. f[n - 1] \in Nat /\ f[n] = s[n][f[n - 1]]
    BY <1>4, <2>1
  <2> QED
    BY <2>2 DEF s
<1>6. f = Step(f)
  BY <1>2, <1>4, <1>5
<1>7. upto = Step(upto)
  BY <1>6
<1> HIDE DEF upto
<1>8. upto[0] = 0 /\ \A n \in 1 .. N : upto[n] = upto[n - 1] + req(n)
  BY <1>2, <1>7
<1>9. \A n \in 0 .. N : upto[n] = f[n]
  <2> DEFINE E == {n \in 0 .. N : upto[n] = f[n]}
  <2>1. 0 \in E
    BY <1>2, <1>4, <1>8
  <2>2. \A n \in 1 .. N : n - 1 \in E => n \in E
    BY <1>2, <1>5, <1>8
  <2>3. \A n \in 0 .. N : n \in E
    <3> HIDE DEF E
    <3> QED
      BY <1>2, <2>1, <2>2, CountUp
  <2> QED
    BY <2>3
<1>10. upto[N] = f[N]
  BY <1>2, <1>9
<1> QED
  BY <1>1, <1>4, <1>5, <1>10 DEF N, req

LEMMA ChargedAppend ==
  ASSUME NEW R, NEW list \in Seq(R), NEW e \in R, \A x \in R : x.req \in Nat
  PROVE  /\ Charged(<<>>) = 0
         /\ Charged(Append(list, e)) = Charged(list) + e.req
<1>1. Charged(<<>>) = 0
  <2>1. Len(<<>>) = 0
    OBVIOUS
  <2> QED
    BY <2>1, ChargedSteps
<1>2. Charged(Append(list, e)) = Charged(list) + e.req
  <2> DEFINE N == Len(list)
             more == Append(list, e)
  <2>1. /\ N \in Nat /\ Len(more) = N + 1 /\ more[N + 1] = e
        /\ \A n \in 1 .. N : list[n] \in R /\ more[n] = list[n]
    BY LenProperties, ElementOfSeq, AppendProperties
  <2> HIDE DEF N, more
  <2>2. \A n \in 1 .. N + 1 : more[n].req \in Nat
    BY <2>1
  <2>3. PICK f \in [0 .. N -> Nat] :
          Charged(list) = f[N] /\ f[0] = 0 /\ \A n \in 1 .. N : f[n] = f[n - 1] + list[n].req
    BY <2>1, ChargedSteps DEF N
  <2>4. PICK g \in [0 .. N + 1 -> Nat] :
          Charged(more) = g[N + 1] /\ g[0] = 0 /\ \A n \in 1 .. N + 1 : g[n] = g[n - 1] + more[n].req
    BY <2>1, <2>2, ChargedSteps
  <2>5. \A n \in 0 .. N : f[n] = g[n]
    <3> DEFINE E == {n \in 0 .. N : f[n] = g[n]}
    <3>1. 0 \in E
      BY <2>1, <2>3, <2>4
    <3>2. ASSUME NEW n \in 1 .. N, n - 1 \in E PROVE n \in E
      <4>1. n \in 1 .. N + 1 /\ f[n - 1] = g[n - 1] /\ more[n] = list[n]
        BY <2>1, <3>2
      <4>2. f[n] = f[n - 1] + list[n].req /\ g[n] = g[n - 1] + more[n].req
        BY <2>3, <2>4, <4>1
      <4> QED
        BY <2>1, <4>1, <4>2
    <3>3. \A n \in 0 .. N : n \in E
      <4> HIDE DEF E
      <4> QED
        BY <2>1, <3>1, <3>2, CountUp
    <3> QED
      BY <3>3
  <2>6. g[N + 1] = g[N] + e.req
    <3>1. N + 1 \in 1 .. N + 1 /\ (N + 1) - 1 = N
      BY <2>1
    <3> QED
      BY <2>1, <2>4, <3>1
  <2>7. f[N] = g[N]
    BY <2>1, <2>5
  <2> QED
    BY <2>3, <2>4, <2>6, <2>7 DEF more
<1> QED
  BY <1>1, <1>2

-----------------------------------------------------------------------------
(* The bitmap.  Masking a position that does not abort the process masks   *)
(* it; a port that was never recorded does abort it.                       *)
LEMMA MaskFacts ==
  ASSUME NEW b \in Bitmaps, NEW pos \in Int, ~MaskPanics(b, pos)
  PROVE  /\ Mask(b, pos) \in Bitmaps
         /\ b.bits \subseteq Mask(b, pos).bits
         /\ pos \in Nat => pos \in Mask(b, pos).bits
<1>1. WordOf(pos) \in Int
  BY BitmapAssumption DEF WordOf
<1> QED
  BY <1>1 DEF Mask, MaskPanics, Bitmaps

LEMMA WordOfNat == \A pos \in Nat : WordOf(pos) \in Nat
BY BitmapAssumption DEF WordOf

LEMMA UnsetPanics == \A b : MaskPanics(b, PortUnset)
<1>1. W \in Nat /\ 0 < W /\ W <= 50050
  BY BitmapAssumption, DeviceManagerAssumption DEF PortUnset
<1>2. 50050 \div W >= 1
  BY <1>1
<1>3. WordOf(PortUnset) = -(50050 \div W)
  BY DEF WordOf, PortUnset
<1>4. 50050 \div W \in Int
  BY <1>1
<1> QED
  BY <1>2, <1>3, <1>4 DEF MaskPanics

LEMMA NewPoolType == NewPool \in [bitmap : Bitmaps, cursor : Cursors]
<1>1. EmptyBitmap \in Bitmaps /\ ~MaskPanics(EmptyBitmap, 0)
  BY WordOfNat DEF EmptyBitmap, Bitmaps, MaskPanics
<1> QED
  BY <1>1, MaskFacts, BitmapAssumption DEF NewPool, Cursors

(* A new port is free and gets masked.                                     *)
LEMMA PortFacts ==
  ASSUME pool \in [bitmap : Bitmaps, cursor : Cursors]
  PROVE  /\ TakenPort \in Positions \cup {PoolFull}
         /\ PoolAfter \in [bitmap : Bitmaps, cursor : Cursors]
         /\ pool.bitmap.bits \subseteq PoolAfter.bitmap.bits
         /\ TakenPort # PoolFull =>
              TakenPort \notin pool.bitmap.bits /\ TakenPort \in PoolAfter.bitmap.bits
<1> DEFINE pos == TakenPort
<1>1. CASE NextFree(pool.bitmap, pool.cursor) = {}
  BY <1>1 DEF TakenPort, PoolAfter
<1>2. CASE NextFree(pool.bitmap, pool.cursor) # {}
  <2>1. pos \in Positions \ pool.bitmap.bits
    BY <1>2 DEF TakenPort, NextFree
  <2> HIDE DEF pos
  <2>2. pos \in Nat /\ pos < L /\ pos # PoolFull /\ L \in Nat
    BY <2>1, BitmapAssumption DEF Positions, PoolFull
  <2>3. pool.bitmap \in Bitmaps /\ ~MaskPanics(pool.bitmap, pos)
    BY <2>2, WordOfNat DEF MaskPanics
  <2>4. PoolAfter = [bitmap |-> Mask(pool.bitmap, pos), cursor |-> pos + 1]
    BY <2>2 DEF PoolAfter, pos
  <2>5. pos + 1 \in Cursors
    BY <2>2 DEF Cursors
  <2> QED
    BY <2>1, <2>2, <2>3, <2>4, <2>5, MaskFacts DEF pos
<1> QED
  BY <1>1, <1>2

-----------------------------------------------------------------------------
(* The lists.                                                              *)
Requests == [key : Keys, req : Nat, port : Positions \cup {PoolFull}]

LEMMA NewEntryFacts ==
  /\ NewEntry \in Entries
  /\ NewEntry.usage = Charged(NewEntry.list)
  /\ Range(NewEntry.list) = {}
<1>1. <<>> \in Seq(Requests) /\ Range(<<>>) = {} /\ Len(<<>>) = 0
  BY DEF Range
<1>2. Charged(<<>>) = 0
  BY <1>1, ChargedSteps
<1> QED
  BY <1>1, <1>2 DEF NewEntry, Entries, Requests

(* One request is put on a list, and charged.                              *)
LEMMA ListedFacts ==
  ASSUME NEW entry \in Entries, NEW k \in Keys, NEW port \in Positions \cup {PoolFull},
         app[k].request \in Nat, entry.usage = Charged(entry.list)
  PROVE  /\ Listed(entry, k, port) \in Entries
         /\ Listed(entry, k, port).uuid = entry.uuid
         /\ Listed(entry, k, port).usage = Charged(Listed(entry, k, port).list)
         /\ Range(Listed(entry, k, port).list)
              = Range(entry.list) \cup {[key |-> k, req |-> app[k].request, port |-> port]}
<1> DEFINE r == [key |-> k, req |-> app[k].request, port |-> port]
           list == entry.list
           R == Requests
<1>1. list \in Seq(R) /\ r \in R /\ (\A x \in R : x.req \in Nat) /\ r.req = app[k].request
  BY DEF Entries, Requests
<1>0. Entries = [uuid : Devices \cup {NoUUID}, usage : Nat, list : Seq(R)]
  BY DEF Entries, Requests
<1> HIDE DEF R
<1>2. /\ Append(list, r) \in Seq(R)
      /\ Range(Append(list, r)) = Range(list) \cup {r}
      /\ Charged(Append(list, r)) = Charged(list) + r.req
  BY <1>1, AppendProperties, AppendRange, ChargedAppend
<1>3. /\ Listed(entry, k, port).usage = entry.usage + r.req
      /\ Listed(entry, k, port).list = Append(list, r)
      /\ Listed(entry, k, port).uuid = entry.uuid
  BY <1>1 DEF Listed, Entries
<1>4. Listed(entry, k, port) \in Entries
  <2>1. entry.uuid \in Devices \cup {NoUUID} /\ entry.usage \in Nat /\ app[k].request \in Nat
    BY <1>0
  <2>2. entry.usage + app[k].request \in Nat
    BY <2>1
  <2> DEFINE more == Append(list, r)
  <2>3. Listed(entry, k, port) = [entry EXCEPT !.usage = entry.usage + app[k].request, !.list = more]
    BY DEF Listed
  <2>4. more \in Seq(R)
    BY <1>2
  <2> HIDE DEF more
  <2> QED
    BY <1>0, <2>2, <2>3, <2>4
<1> QED
  BY <1>2, <1>3, <1>4

(* One entry, old or new, gets one request more, whose port is masked now  *)
(* and was listed for no other key: the lists are still right.             *)
LEMMA OneMore ==
  ASSUME IInv, NEW g \in Gpus, NEW r \in Requests, NEW old \in Entries, NEW new \in Entries,
         IF g \in DOMAIN gpus THEN old = gpus[g] ELSE Range(old.list) = {},
         new.usage = Charged(new.list),
         Range(new.list) = Range(old.list) \cup {r},
         DOMAIN gpus' = DOMAIN gpus \cup {g},
         gpus'[g] = new,
         \A h \in DOMAIN gpus \ {g} : gpus'[h] = gpus[h],
         pool.bitmap.bits \subseteq pool'.bitmap.bits,
         r.port # PoolFull => r.port \in pool'.bitmap.bits,
         \A h \in DOMAIN gpus : \A d \in Range(gpus[h].list) :
           d.port = r.port => (h = g /\ d.key = r.key) \/ r.port = PoolFull
  PROVE  /\ DOMAIN gpus' \subseteq Gpus /\ \A h \in DOMAIN gpus' : gpus'[h] \in Entries
         /\ UsageIsSum' /\ Masked' /\ PortsDistinct'
<1>1. DOMAIN gpus' \subseteq Gpus /\ \A h \in DOMAIN gpus' : gpus'[h] \in Entries
  BY DEF IInv, TypeOK
<1>2. UsageIsSum'
  BY DEF IInv, UsageIsSum
<1>3. ASSUME NEW h \in DOMAIN gpus', NEW d \in Range(gpus'[h].list)
      PROVE  (h = g /\ d = r) \/ (h \in DOMAIN gpus /\ d \in Range(gpus[h].list))
  BY <1>3
<1>4. Masked'
  BY <1>3 DEF IInv, Masked
<1>5. PortsDistinct'
  <2> SUFFICES ASSUME NEW h \in DOMAIN gpus', NEW i \in DOMAIN gpus',
                      NEW d \in Range(gpus'[h].list), NEW e \in Range(gpus'[i].list),
                      d.port \in Positions, d.port = e.port
               PROVE  h = i /\ d.key = e.key
    BY DEF PortsDistinct
  <2> PoolFull \notin Positions
    BY BitmapAssumption DEF Positions, PoolFull
  <2>1. CASE h = g /\ d = r
    BY <1>3, <2>1
  <2>2. CASE h \in DOMAIN gpus /\ d \in Range(gpus[h].list)
    <3>1. CASE i = g /\ e = r
      BY <2>2, <3>1
    <3>2. CASE i \in DOMAIN gpus /\ e \in Range(gpus[i].list)
      BY <2>2, <3>2 DEF IInv, PortsDistinct
    <3> QED
      BY <1>3, <3>1, <3>2
  <2> QED
    BY <1>3, <2>1, <2>2
<1> QED
  BY <1>1, <1>2, <1>4, <1>5

(* The lists stay, or some of them go; or only the devices change.         *)
LEMMA FewerEntries ==
  ASSUME IInv, DOMAIN gpus' \subseteq DOMAIN gpus,
         \A g \in DOMAIN gpus' :
           /\ gpus'[g] \in Entries
           /\ gpus'[g].list = gpus[g].list /\ gpus'[g].usage = gpus[g].usage,
         pool' = pool
  PROVE  /\ DOMAIN gpus' \subseteq Gpus
         /\ UsageIsSum' /\ Masked' /\ PortsDistinct'
BY DEF IInv, TypeOK, UsageIsSum, Masked, PortsDistinct

-----------------------------------------------------------------------------
USE DEF memory, work, cluster

Causes == {"none", "killed", "port", "env", "entry", "patch", "unlock"}

(* The process ends, whatever it was doing.                                *)
LEMMA EndsKeeps ==
  ASSUME IInv, NEW cause \in Causes, Ends(cause), UNCHANGED cluster, used' \in [Faults -> Nat]
  PROVE  IInv'
<1>1. EmptyQueue \in QueueType(Keys) /\ Consistent(EmptyQueue)
  BY EmptyFacts
<1>2. DOMAIN gpus' = {}
  BY DEF Ends
<1>3. restore' \in [keys : SUBSET Keys, found : SUBSET [pod : Pods, device : PodDevices],
                    later : SUBSET Gpus]
  BY DEF Ends, NoRestore
<1>4. worker' \in [at : {"idle", "sync", "patch"}, key : Keys \cup {NoKey}, todo : SUBSET Pods,
                   pod : Pods \cup {NoPod}, uuid : Devices \cup {NoUUID}]
  BY DEF Ends, Idle
<1>5. TypeOK'
  BY <1>1, <1>2, <1>3, <1>4, NewPoolType DEF Ends, IInv, TypeOK, Causes
<1>6. Working' /\ Goroutines' /\ Found'
  BY <1>2 DEF Ends, Idle, Working, Goroutines, Found
<1>7. Masked' /\ PortsDistinct' /\ UsageIsSum'
  BY <1>2 DEF Masked, PortsDistinct, UsageIsSum
<1> QED
  BY <1>5, <1>6, <1>7 DEF IInv

LEMMA EntryFacts ==
  ASSUME IInv, NEW g \in DOMAIN gpus
  PROVE  /\ g \in Gpus /\ gpus[g] \in Entries /\ gpus[g].usage \in Nat
         /\ gpus[g].uuid \in Devices \cup {NoUUID}
         /\ gpus[g].list \in Seq(Requests)
         /\ \A e \in Range(gpus[g].list) : e.key \in Keys
<1>1. /\ g \in Gpus /\ gpus[g] \in Entries
  BY DEF IInv, TypeOK
<1>2. /\ gpus[g].usage \in Nat /\ gpus[g].uuid \in Devices \cup {NoUUID}
      /\ gpus[g].list \in Seq(Requests)
  BY <1>1 DEF Entries, Requests
<1>3. \A e \in Range(gpus[g].list) : e \in Requests
  BY <1>2, RangeOfSeq
<1>4. \A e \in Requests : e.key \in Keys
  BY DEF Requests
<1> QED
  BY <1>1, <1>2, <1>3, <1>4

LEMMA UsedFacts ==
  ASSUME IInv, NEW f \in Faults, Happens(f)
  PROVE  used' \in [Faults -> Nat]
BY DEF IInv, TypeOK, Happens

(* Neither the lists nor the pool change.                                  *)
LEMMA PoolSame ==
  ASSUME IInv, UNCHANGED <<proc, gpus, pool, restore, app>>
  PROVE  Found' /\ Masked' /\ PortsDistinct' /\ UsageIsSum'
BY DEF IInv, Found, Masked, PortsDistinct, UsageIsSum

(* What there is of a SharePod and of a request.                           *)
LEMMA AppFacts ==
  ASSUME IInv, NEW k \in Keys
  PROVE  /\ app \in Clusters /\ app[k] \in Apps
         /\ app[k].request # NoRequest => app[k].request \in Nat
BY DeviceManagerAssumption DEF IInv, TypeOK, Apps

-----------------------------------------------------------------------------
(* Starting.                                                               *)
LEMMA StartKeeps ==
  ASSUME IInv, Start
  PROVE  IInv'
<1>1. /\ proc = "down" /\ proc' = "starting" /\ used' \in [Faults -> Nat]
      /\ UNCHANGED <<panic, memory, work, go, depCache, cluster>>
  BY UsedFacts DEF Start, Faults
<1>2. TypeOK'
  BY <1>1 DEF IInv, TypeOK
<1>3. Working' /\ Goroutines' /\ Found'
  BY <1>1 DEF IInv, Working, Goroutines, Found
<1>4. Masked' /\ PortsDistinct' /\ UsageIsSum'
  BY <1>1 DEF IInv, Masked, PortsDistinct, UsageIsSum
<1> QED
  BY <1>2, <1>3, <1>4 DEF IInv

(* The entries initNodesInfo starts with have empty lists.                 *)
LEMMA InitNodesInfoKeeps ==
  ASSUME IInv, InitNodesInfo
  PROVE  IInv'
<1> DEFINE entries == {g \in Gpus : dummy[g].phase # "absent"}
<1>1. /\ proc = "starting" /\ proc' = "restoring" /\ known' = (entries # {})
      /\ gpus' = [g \in entries |-> NewEntry]
      /\ restore' = [NoRestore EXCEPT !.keys = Keys]
      /\ UNCHANGED <<panic, registered, pool, work, go, depCache, cluster, used>>
  BY DEF InitNodesInfo
<1>2. /\ DOMAIN gpus' = entries /\ entries \subseteq Gpus
      /\ \A g \in DOMAIN gpus' :
           gpus'[g] \in Entries /\ Range(gpus'[g].list) = {} /\ gpus'[g].usage = Charged(gpus'[g].list)
  BY <1>1, NewEntryFacts
<1>3. /\ restore' \in [keys : SUBSET Keys, found : SUBSET [pod : Pods, device : PodDevices],
                       later : SUBSET Gpus]
      /\ restore'.found = {}
  BY <1>1 DEF NoRestore
<1> HIDE DEF entries
<1>4. TypeOK'
  BY <1>1, <1>2, <1>3 DEF IInv, TypeOK
<1>5. Working' /\ Goroutines'
  BY <1>1 DEF IInv, Working, Goroutines
<1>6. Found' /\ Masked' /\ PortsDistinct' /\ UsageIsSum'
  BY <1>2, <1>3 DEF Found, Masked, PortsDistinct, UsageIsSum
<1> QED
  BY <1>4, <1>5, <1>6 DEF IInv

LEMMA LookUpKeeps ==
  ASSUME IInv, NEW k \in Keys, LookUp(k)
  PROVE  IInv'
<1> DEFINE wanted == k \in depCache /\ app[k].request # NoRequest /\ app[k].placed \in DOMAIN gpus
           listed == {p \in Pods : Owner[p] = k /\ pods[p].phase = "scheduled"}
           found == IF wanted THEN {[pod |-> p, device |-> pods[p].device] : p \in listed} ELSE {}
<1>1. /\ restore' = [restore EXCEPT !.keys = @ \ {k}, !.found = found]
      /\ UNCHANGED <<proc, panic, registered, known, gpus, pool, work, go, depCache, cluster, used>>
  BY DEF LookUp
<1>2. found \subseteq [pod : Pods, device : PodDevices]
  BY DEF IInv, TypeOK
<1>3. \A pod \in found : wanted /\ Owner[pod.pod] = k
  OBVIOUS
<1> HIDE DEF found
<1>4. restore'.found = found
  BY <1>1 DEF IInv, TypeOK
<1>5. TypeOK'
  <2>1. restore' \in [keys : SUBSET Keys, found : SUBSET [pod : Pods, device : PodDevices],
                      later : SUBSET Gpus]
    BY <1>1, <1>2 DEF IInv, TypeOK
  <2> QED
    BY <1>1, <2>1 DEF IInv, TypeOK
<1>6. Found'
  BY <1>1, <1>3, <1>4 DEF IInv, Found
<1>7. Working' /\ Goroutines' /\ Masked' /\ PortsDistinct' /\ UsageIsSum'
  BY <1>1 DEF IInv, Working, Goroutines, Masked, PortsDistinct, UsageIsSum
<1> QED
  BY <1>5, <1>6, <1>7 DEF IInv

(* A pod that was found is put on the list with the port that was recorded *)
(* for its SharePod, which was recorded for no other.                      *)
LEMMA RestoreListedKeeps ==
  ASSUME IInv, proc = "restoring", NEW pod \in restore.found, RestoreListed(pod), UNCHANGED <<cluster, used>>
  PROVE  IInv'
<1> DEFINE k == Owner[pod.pod]
           g == app[k].placed
           r == [key |-> k, req |-> app[k].request, port |-> app[k].port]
           old == gpus[g]
           uuid == IF HasDevice(pod) /\ old.uuid = NoUUID THEN app[k].device ELSE old.uuid
           new == [Listed(old, k, app[k].port) EXCEPT !.uuid = uuid]
<1>1. pod \in [pod : Pods, device : PodDevices] /\ k \in Keys
  BY DeviceManagerAssumption DEF IInv, TypeOK
<1>2. app[k].request \in Nat /\ g \in DOMAIN gpus /\ g \in Gpus /\ old \in Entries
  BY <1>1, AppFacts DEF IInv, TypeOK, Found
<1>3. /\ app \in Clusters /\ app[k].device \in Devices \cup {NoUUID}
      /\ app[k].port \in Positions \cup {PoolFull, PortUnset}
  BY <1>1, AppFacts DEF Apps
<1>4. /\ ~MaskPanics(pool.bitmap, app[k].port)
      /\ gpus' = [gpus EXCEPT ![g] = [Listed(@, k, app[k].port) EXCEPT !.uuid = uuid]]
      /\ pool' = [pool EXCEPT !.bitmap = Mask(@, app[k].port)]
      /\ wq' \in {wq, Add(wq, k)}
      /\ restore' = [restore EXCEPT
           !.found = @ \ {pod},
           !.later = IF ~HasDevice(pod) /\ gpus[g].uuid = NoUUID THEN @ \cup {g} ELSE @]
      /\ UNCHANGED <<proc, panic, registered, known, worker, go, depCache>>
  BY DEF RestoreListed
<1>5. app[k].port \in Positions \cup {PoolFull}
  BY <1>3, <1>4, UnsetPanics
<1>6. /\ Listed(old, k, app[k].port) \in Entries
      /\ Listed(old, k, app[k].port).uuid = old.uuid
      /\ Listed(old, k, app[k].port).usage = Charged(Listed(old, k, app[k].port).list)
      /\ Range(Listed(old, k, app[k].port).list) = Range(old.list) \cup {r}
  BY <1>1, <1>2, <1>5, ListedFacts DEF IInv, UsageIsSum
<1> DEFINE l == Listed(old, k, app[k].port)
<1>7. gpus' = [gpus EXCEPT ![g] = [l EXCEPT !.uuid = uuid]]
  BY <1>4
<1>8. new \in Entries /\ new.usage = Charged(new.list) /\ Range(new.list) = Range(old.list) \cup {r}
  <2>1. l \in Entries /\ l.usage = Charged(l.list) /\ Range(l.list) = Range(old.list) \cup {r}
    BY <1>6
  <2>2. uuid \in Devices \cup {NoUUID}
    BY <1>2, <1>3 DEF Entries
  <2> HIDE DEF l, uuid, old, r
  <2>3. /\ [l EXCEPT !.uuid = uuid] \in Entries
        /\ [l EXCEPT !.uuid = uuid].usage = l.usage
        /\ [l EXCEPT !.uuid = uuid].list = l.list
    BY <2>1, <2>2 DEF Entries
  <2> QED
    BY <2>1, <2>3 DEF l
<1>9. r \in Requests /\ r.port = app[k].port /\ r.key = k
  BY <1>1, <1>2, <1>5 DEF Requests
<1>10. /\ pool' \in [bitmap : Bitmaps, cursor : Cursors]
       /\ pool.bitmap.bits \subseteq pool'.bitmap.bits
       /\ app[k].port # PoolFull => app[k].port \in pool'.bitmap.bits
  <2>1. app[k].port \in Int /\ (app[k].port # PoolFull => app[k].port \in Nat)
    BY <1>5, BitmapAssumption DEF Positions, PoolFull
  <2>2. pool.bitmap \in Bitmaps /\ pool \in [bitmap : Bitmaps, cursor : Cursors]
    BY DEF IInv, TypeOK
  <2>3. pool'.bitmap = Mask(pool.bitmap, app[k].port) /\ pool' = [pool EXCEPT !.bitmap = Mask(pool.bitmap, app[k].port)]
    BY <1>4, <2>2
  <2> QED
    BY <1>4, <2>1, <2>2, <2>3, MaskFacts
<1>11. DOMAIN gpus' = DOMAIN gpus /\ gpus'[g] = new /\ \A h \in DOMAIN gpus \ {g} : gpus'[h] = gpus[h]
  BY <1>2, <1>7
<1>12. ASSUME NEW h \in DOMAIN gpus, NEW d \in Range(gpus[h].list), d.port = r.port
       PROVE  (h = g /\ d.key = k) \/ r.port = PoolFull
  <2>1. app[d.key].placed = h /\ d.port = app[d.key].port /\ h \in Gpus
    BY DEF IInv, Found, TypeOK
  <2>2. d.key \in Keys
    BY EntryFacts
  <2>3. app[k].placed # NoGpu /\ app[d.key].placed # NoGpu /\ app[k].port # PortUnset
    BY <1>2, <1>4, <2>1, UnsetPanics, DeviceManagerAssumption
  <2>4. k = d.key \/ app[k].port = PoolFull
    BY <1>1, <1>3, <1>9, <1>12, <2>1, <2>2, <2>3, RecordedAssumption
  <2> QED
    BY <1>9, <2>1, <2>4
<1> HIDE DEF k, g, r, old, new, l, uuid
<1>13. /\ DOMAIN gpus' \subseteq Gpus /\ \A h \in DOMAIN gpus' : gpus'[h] \in Entries
       /\ UsageIsSum' /\ Masked' /\ PortsDistinct'
  BY <1>2, <1>8, <1>9, <1>10, <1>11, <1>12, OneMore DEF old
<1>14. wq' \in QueueType(Keys) /\ Consistent(wq') /\ wq'.processing = wq.processing
  BY <1>1, <1>4, AddFacts DEF IInv, TypeOK
<1>15. /\ restore' \in [keys : SUBSET Keys, found : SUBSET [pod : Pods, device : PodDevices],
                        later : SUBSET Gpus]
       /\ restore'.found \subseteq restore.found
  BY <1>2, <1>4 DEF IInv, TypeOK
<1>16. TypeOK'
  BY <1>4, <1>10, <1>13, <1>14, <1>15 DEF IInv, TypeOK
<1>17. Working' /\ Goroutines'
  BY <1>4, <1>11, <1>14 DEF IInv, Working, Goroutines
<1>18. Found'
  <2>1. ASSUME NEW h \in DOMAIN gpus', NEW e \in Range(gpus'[h].list)
        PROVE  app[e.key].placed = h /\ e.port = app[e.key].port
    <3>1. CASE h = g /\ e = r
      BY <1>9, <3>1 DEF g
    <3>2. CASE h \in DOMAIN gpus /\ e \in Range(gpus[h].list)
      BY <3>2 DEF IInv, Found
    <3> QED
      BY <1>8, <1>11, <2>1, <3>1, <3>2 DEF old
  <2> QED
    BY <1>4, <1>11, <1>15, <2>1 DEF IInv, Found
<1> QED
  BY <1>13, <1>16, <1>17, <1>18 DEF IInv

LEMMA RestorePodKeeps ==
  ASSUME IInv, NEW pod \in restore.found, RestorePod(pod)
  PROVE  IInv'
<1>1. proc = "restoring" /\ UNCHANGED <<cluster, used>>
  BY DEF RestorePod
<1>2. CASE RestorePanics(pod)
  <2>1. Ends("port") \/ Ends("env")
    BY <1>2 DEF RestorePanics
  <2>2. used' \in [Faults -> Nat]
    BY <1>1 DEF IInv, TypeOK
  <2> QED
    BY <1>1, <2>1, <2>2, EndsKeeps DEF Causes
<1>3. CASE RestoreListed(pod)
  BY <1>1, <1>3, RestoreListedKeeps
<1> QED
  BY <1>2, <1>3 DEF RestorePod

(* The goroutines that start with the workers are early.                   *)
LEMMA RestoredKeeps ==
  ASSUME IInv, Restored
  PROVE  IInv'
<1>1. /\ proc = "restoring" /\ proc' = "restored" /\ restore' = NoRestore
      /\ go' = {[gpu |-> g, at |-> "get", seen |-> NoUUID, early |-> TRUE] : g \in restore.later}
      /\ UNCHANGED <<panic, registered, known, gpus, pool, work, depCache, cluster, used>>
  BY DEF Restored
<1>2. go' \subseteq Tasks /\ \A t \in go' : t.early
  <2>1. restore.later \subseteq Gpus
    BY DEF IInv, TypeOK
  <2>2. ASSUME NEW g \in Gpus
        PROVE  [gpu |-> g, at |-> "get", seen |-> NoUUID, early |-> TRUE] \in Tasks
    BY DEF Tasks
  <2>3. ASSUME NEW t \in go'
        PROVE  t \in Tasks /\ t.early
    <3>1. PICK g \in restore.later : t = [gpu |-> g, at |-> "get", seen |-> NoUUID, early |-> TRUE]
      BY <1>1
    <3> QED
      BY <2>1, <2>2, <3>1
  <2> QED
    BY <2>3
<1>3. restore' \in [keys : SUBSET Keys, found : SUBSET [pod : Pods, device : PodDevices],
                    later : SUBSET Gpus]
  BY <1>1 DEF NoRestore
<1>4. TypeOK'
  BY <1>1, <1>2, <1>3 DEF IInv, TypeOK
<1>5. Working' /\ Goroutines' /\ Found'
  BY <1>1, <1>2 DEF IInv, Working, Goroutines, Found
<1>6. Masked' /\ PortsDistinct' /\ UsageIsSum'
  BY <1>1 DEF IInv, Masked, PortsDistinct, UsageIsSum
<1> QED
  BY <1>4, <1>5, <1>6 DEF IInv

(* An entry goes while all the goroutines there are are early.             *)
LEMMA CleanOrphanKeeps ==
  ASSUME IInv, NEW g \in Gpus, CleanOrphan(g)
  PROVE  IInv'
<1>1. /\ proc \in {"restored", "cleaning"} /\ proc' = "cleaning"
      /\ gpus' = [h \in DOMAIN gpus \ {g} |-> gpus[h]]
      /\ UNCHANGED <<panic, registered, known, pool, restore, work, go, depCache, app, pods, deps>>
  BY DEF CleanOrphan
<1>2. /\ DOMAIN gpus' \subseteq DOMAIN gpus
      /\ \A h \in DOMAIN gpus' : gpus'[h] \in Entries /\ gpus'[h] = gpus[h]
  BY <1>1, EntryFacts
<1>3. dummy' \in [Gpus -> Dummies] /\ used' \in [Faults -> Nat]
  <2>1. dummy \in [Gpus -> Dummies] /\ used \in [Faults -> Nat] /\ Absent \in Dummies
    BY DEF IInv, TypeOK, Absent, Dummies
  <2>2. CASE dummy' = [dummy EXCEPT ![g] = Absent] /\ used' = used
    BY <2>1, <2>2
  <2>3. CASE dummy' = dummy /\ Happens("error")
    <3>1. used' \in [Faults -> Nat]
      BY <2>3, UsedFacts DEF Faults
    <3> QED
      BY <2>1, <2>3, <3>1
  <2> QED
    BY <2>2, <2>3 DEF CleanOrphan
<1>4. DOMAIN gpus' \subseteq Gpus /\ UsageIsSum' /\ Masked' /\ PortsDistinct'
  BY <1>1, <1>2, FewerEntries
<1>5. TypeOK'
  BY <1>1, <1>2, <1>3, <1>4 DEF IInv, TypeOK
<1>6. Working' /\ Goroutines' /\ Found'
  BY <1>1 DEF IInv, Working, Goroutines, Found
<1> QED
  BY <1>4, <1>5, <1>6 DEF IInv

(* What the workers start with is what is there.                           *)
LEMMA StartWorkersKeeps ==
  ASSUME IInv, StartWorkers
  PROVE  IInv'
<1>1. /\ proc \in {"restored", "cleaning"} /\ proc' = "running"
      /\ UNCHANGED <<panic, memory, work, go, depCache, cluster, used>>
  BY DEF StartWorkers
<1>2. TypeOK'
  BY <1>1 DEF IInv, TypeOK
<1>3. Working' /\ Goroutines' /\ Found'
  BY <1>1 DEF IInv, Working, Goroutines, Found
<1>4. Masked' /\ PortsDistinct' /\ UsageIsSum'
  BY <1>1 DEF IInv, Masked, PortsDistinct, UsageIsSum
<1> QED
  BY <1>2, <1>3, <1>4 DEF IInv

LEMMA RegisterKeeps ==
  ASSUME IInv, Register
  PROVE  IInv'
<1>1. /\ registered' = TRUE /\ known' = TRUE
      /\ UNCHANGED <<proc, panic, gpus, pool, restore, work, go, depCache, cluster, used>>
  BY DEF Register
<1>2. TypeOK'
  BY <1>1 DEF IInv, TypeOK
<1>3. Working' /\ Goroutines'
  BY <1>1 DEF IInv, Working, Goroutines
<1> QED
  BY <1>1, <1>2, <1>3, PoolSame DEF IInv

-----------------------------------------------------------------------------
(* What leaves the lists and the goroutines alone keeps the invariant if   *)
(* it keeps the types and the worker's key.                                *)
LEMMA OthersKeep ==
  ASSUME IInv, UNCHANGED <<proc, panic, memory, go, app>>,
         wq' \in QueueType(Keys), Consistent(wq'),
         worker' \in [at : {"idle", "sync", "patch"}, key : Keys \cup {NoKey},
                      todo : SUBSET Pods, pod : Pods \cup {NoPod}, uuid : Devices \cup {NoUUID}],
         Working',
         depCache' \subseteq Keys, deps' \subseteq Keys, dummy' \in [Gpus -> Dummies],
         pods' \in [Pods -> [phase : {"unscheduled", "scheduled", "gone"}, device : PodDevices]],
         used' \in [Faults -> Nat]
  PROVE  IInv'
<1>1. TypeOK'
  BY DEF IInv, TypeOK
<1>2. Goroutines'
  BY DEF IInv, Goroutines
<1> QED
  BY <1>1, <1>2, PoolSame DEF IInv

(* So does what changes only goroutines, each into one of the same GPU and *)
(* age, or none.                                                           *)
LEMMA TasksKeep ==
  ASSUME IInv, UNCHANGED <<proc, panic, memory, work, depCache, app, pods, deps>>,
         dummy' \in [Gpus -> Dummies], used' \in [Faults -> Nat],
         go' \subseteq Tasks,
         \A n \in go' : \E t \in go : n.gpu = t.gpu /\ n.early = t.early
  PROVE  IInv'
<1>1. TypeOK'
  BY DEF IInv, TypeOK
<1>2. Working'
  BY DEF IInv, Working
<1>3. Goroutines'
  BY DEF IInv, Goroutines
<1> QED
  BY <1>1, <1>2, <1>3, PoolSame DEF IInv

LEMMA DeploymentEventKeeps ==
  ASSUME IInv, NEW k \in Keys, DeploymentEvent(k)
  PROVE  IInv'
<1>1. /\ depCache' = depCache \cup {k} /\ wq' = Add(wq, k)
      /\ UNCHANGED <<proc, panic, memory, worker, go, cluster, used>>
  BY DEF DeploymentEvent
<1>2. wq' \in QueueType(Keys) /\ Consistent(wq') /\ wq'.processing = wq.processing
  BY <1>1, AddFacts DEF IInv, TypeOK
<1>3. Working'
  BY <1>1, <1>2 DEF IInv, Working
<1> QED
  BY <1>1, <1>2, <1>3, OthersKeep DEF IInv, TypeOK

(* The pod's own key is on no list: nothing is found, nothing removed.     *)
LEMMA NothingRemoved ==
  ASSUME IInv, NEW k \in Keys, DeploymentDeleted(k)
  PROVE  /\ depCache' = depCache \ {k}
         /\ UNCHANGED <<proc, panic, memory, work, go, cluster, used>>
<1>1. ASSUME NEW p \in Pods, NEW g \in DOMAIN gpus, NEW e \in Range(gpus[g].list)
      PROVE  e.key # RemovedKey(p)
  <2>1. e.key \in Keys
    BY EntryFacts
  <2> QED
    BY <2>1, DeviceManagerAssumption DEF RemovedKey
<1> QED
  BY <1>1 DEF DeploymentDeleted

LEMMA DeploymentDeletedKeeps ==
  ASSUME IInv, NEW k \in Keys, DeploymentDeleted(k)
  PROVE  IInv'
<1>1. Working'
  BY NothingRemoved DEF IInv, Working
<1> QED
  BY <1>1, NothingRemoved, OthersKeep DEF IInv, TypeOK

(* A goroutine started before the workers is early; one started later has  *)
(* an entry.                                                               *)
LEMMA DummyEventKeeps ==
  ASSUME IInv, NEW g \in Gpus, DummyEvent(g)
  PROVE  IInv'
<1> DEFINE t == NewTask(g, IF dummy[g].phase = "failed" THEN "delete" ELSE "log")
<1>1. /\ proc \notin {"down", "restoring"} /\ g \in DOMAIN gpus
      /\ go' = go \cup {t}
      /\ UNCHANGED <<proc, panic, memory, work, depCache, cluster, used>>
  BY DEF DummyEvent, Unlocked
<1>2. t \in Tasks /\ t.gpu = g /\ t.early = (proc # "running")
  BY DEF NewTask, Tasks
<1> HIDE DEF t
<1>3. TypeOK'
  BY <1>1, <1>2 DEF IInv, TypeOK
<1>4. Working' /\ Goroutines'
  BY <1>1, <1>2 DEF IInv, Working, Goroutines
<1> QED
  BY <1>1, <1>3, <1>4, PoolSame DEF IInv

-----------------------------------------------------------------------------
(* The goroutines.                                                         *)
LEMMA TaskFacts ==
  ASSUME IInv, NEW t \in go,
         NEW at \in {"get", "check", "create", "delete", "log", "set"},
         NEW seen \in Devices \cup {NoUUID}
  PROVE  /\ t \in Tasks /\ t.gpu \in Gpus
         /\ [t EXCEPT !.at = at] \in Tasks
         /\ [t EXCEPT !.at = at].gpu = t.gpu /\ [t EXCEPT !.at = at].early = t.early
         /\ [t EXCEPT !.at = at, !.seen = seen] \in Tasks
         /\ [t EXCEPT !.at = at, !.seen = seen].gpu = t.gpu
         /\ [t EXCEPT !.at = at, !.seen = seen].early = t.early
<1>1. t \in Tasks
  BY DEF IInv, TypeOK
<1> QED
  BY <1>1 DEF Tasks

LEMMA BecomesFacts ==
  ASSUME IInv, NEW t \in go,
         Stops(t) \/ \E at \in {"get", "check", "create", "delete", "log", "set"} : Becomes(t, at)
  PROVE  /\ go' \subseteq Tasks
         /\ \A n \in go' : \E o \in go : n.gpu = o.gpu /\ n.early = o.early
<1>1. go \subseteq Tasks
  BY DEF IInv, TypeOK
<1>2. CASE Stops(t)
  BY <1>1, <1>2 DEF Stops
<1>3. ASSUME NEW at \in {"get", "check", "create", "delete", "log", "set"}, Becomes(t, at)
      PROVE  /\ go' \subseteq Tasks
             /\ \A n \in go' : \E o \in go : n.gpu = o.gpu /\ n.early = o.early
  <2> DEFINE new == [t EXCEPT !.at = at]
  <2>1. go' = (go \ {t}) \cup {new}
    BY <1>3 DEF Becomes
  <2>2. new \in Tasks /\ new.gpu = t.gpu /\ new.early = t.early
    BY TaskFacts
  <2> HIDE DEF new
  <2> QED
    BY <1>1, <2>1, <2>2
<1> QED
  BY <1>2, <1>3

LEMMA GetDummyKeeps ==
  ASSUME IInv, NEW t \in go, GetDummy(t)
  PROVE  IInv'
<1>1. Stops(t) \/ \E at \in {"get", "check", "create", "delete", "log", "set"} : Becomes(t, at)
  BY DEF GetDummy
<1>2. UNCHANGED <<proc, panic, memory, work, depCache, cluster, used>>
  BY DEF GetDummy
<1> QED
  BY <1>1, <1>2, BecomesFacts, TasksKeep DEF IInv, TypeOK

LEMMA CheckEntryKeeps ==
  ASSUME IInv, NEW t \in go, CheckEntry(t)
  PROVE  IInv'
<1>1. Stops(t) \/ \E at \in {"get", "check", "create", "delete", "log", "set"} : Becomes(t, at)
  BY DEF CheckEntry
<1>2. UNCHANGED <<proc, panic, memory, work, depCache, cluster, used>>
  BY DEF CheckEntry
<1> QED
  BY <1>1, <1>2, BecomesFacts, TasksKeep DEF IInv, TypeOK

LEMMA CreateDummyKeeps ==
  ASSUME IInv, NEW t \in go, CreateDummy(t)
  PROVE  IInv'
<1>1. /\ Stops(t)
      /\ dummy' = IF dummy[t.gpu] = Absent THEN [dummy EXCEPT ![t.gpu].phase = "pending"] ELSE dummy
      /\ UNCHANGED <<proc, panic, memory, work, depCache, app, pods, deps, used>>
  BY DEF CreateDummy
<1>2. dummy' \in [Gpus -> Dummies]
  <2>1. dummy \in [Gpus -> Dummies]
    BY DEF IInv, TypeOK
  <2>2. [dummy EXCEPT ![t.gpu].phase = "pending"] \in [Gpus -> Dummies]
    BY <2>1 DEF Dummies
  <2> QED
    BY <1>1, <2>1, <2>2
<1> QED
  BY <1>1, <1>2, BecomesFacts, TasksKeep DEF IInv, TypeOK

LEMMA DeleteFailedKeeps ==
  ASSUME IInv, NEW t \in go, DeleteFailed(t)
  PROVE  IInv'
<1>1. /\ Becomes(t, "get")
      /\ dummy' = [dummy EXCEPT ![t.gpu] = Absent]
      /\ UNCHANGED <<proc, panic, memory, work, depCache, app, pods, deps, used>>
  BY DEF DeleteFailed
<1>2. dummy' \in [Gpus -> Dummies]
  BY <1>1 DEF IInv, TypeOK, Absent, Dummies
<1> QED
  BY <1>1, <1>2, BecomesFacts, TasksKeep DEF IInv, TypeOK

LEMMA ReadLogKeeps ==
  ASSUME IInv, NEW t \in go, ReadLog(t)
  PROVE  IInv'
<1>1. /\ Stops(t) \/ Becomes(t, "get")
         \/ go' = (go \ {t}) \cup {[t EXCEPT !.at = "set", !.seen = dummy[t.gpu].device]}
      /\ UNCHANGED <<proc, panic, memory, work, depCache, cluster, used>>
  BY DEF ReadLog
<1>2. dummy[t.gpu].device \in Devices \cup {NoUUID}
  <2>1. t.gpu \in Gpus /\ dummy \in [Gpus -> Dummies]
    BY DEF IInv, TypeOK, Tasks
  <2> QED
    BY <2>1 DEF Dummies
<1>3. /\ go' \subseteq Tasks
      /\ \A n \in go' : \E o \in go : n.gpu = o.gpu /\ n.early = o.early
  <2>1. CASE Stops(t) \/ Becomes(t, "get")
    BY <2>1, BecomesFacts
  <2>2. CASE go' = (go \ {t}) \cup {[t EXCEPT !.at = "set", !.seen = dummy[t.gpu].device]}
    <3> DEFINE new == [t EXCEPT !.at = "set", !.seen = dummy[t.gpu].device]
    <3>1. go \subseteq Tasks
      BY DEF IInv, TypeOK
    <3>2. new \in Tasks /\ new.gpu = t.gpu /\ new.early = t.early
      BY <1>2, TaskFacts
    <3>3. go' = (go \ {t}) \cup {new}
      BY <2>2
    <3> HIDE DEF new
    <3> QED
      BY <3>1, <3>2, <3>3
  <2> QED
    BY <1>1, <2>1, <2>2
<1> QED
  BY <1>1, <1>3, TasksKeep DEF IInv, TypeOK

LEMMA CallFailsKeeps ==
  ASSUME IInv, NEW t \in go, CallFails(t)
  PROVE  IInv'
<1>1. /\ Stops(t) /\ used' \in [Faults -> Nat]
      /\ UNCHANGED <<proc, panic, memory, work, depCache, cluster>>
  BY UsedFacts DEF CallFails, Faults
<1> QED
  BY <1>1, BecomesFacts, TasksKeep DEF IInv, TypeOK

(* The device is set, and every key of the list added to the queue.        *)
LEMMA SetUUIDKeeps ==
  ASSUME IInv, NEW t \in go, SetUUID(t)
  PROVE  IInv'
<1>1. t \in Tasks /\ t.gpu \in Gpus /\ t.seen \in Devices \cup {NoUUID}
  BY DEF IInv, TypeOK, Tasks
<1>2. CASE t.gpu \in DOMAIN gpus
  <2>1. /\ gpus' = [gpus EXCEPT ![t.gpu].uuid = t.seen]
        /\ wq' = AllAdded(wq, gpus[t.gpu].list)
        /\ Stops(t)
        /\ UNCHANGED <<proc, panic, registered, known, pool, restore, worker, depCache, cluster, used>>
    BY <1>2 DEF SetUUID
  <2>2. /\ DOMAIN gpus' = DOMAIN gpus
        /\ \A g \in DOMAIN gpus' : /\ gpus'[g] \in Entries
                                   /\ gpus'[g].list = gpus[g].list /\ gpus'[g].usage = gpus[g].usage
    <3>1. ASSUME NEW g \in DOMAIN gpus
          PROVE  /\ gpus'[g] \in Entries
                 /\ gpus'[g].list = gpus[g].list /\ gpus'[g].usage = gpus[g].usage
      <4>1. gpus[g] \in Entries
        BY EntryFacts
      <4>2. gpus'[g] = IF g = t.gpu THEN [gpus[g] EXCEPT !.uuid = t.seen] ELSE gpus[g]
        BY <2>1
      <4> QED
        BY <1>1, <4>1, <4>2 DEF Entries
    <3> QED
      BY <2>1, <3>1
  <2>3. DOMAIN gpus' \subseteq Gpus /\ UsageIsSum' /\ Masked' /\ PortsDistinct'
    BY <2>1, <2>2, FewerEntries
  <2>4. wq' \in QueueType(Keys) /\ Consistent(wq') /\ wq'.processing = wq.processing
    <3> DEFINE list == gpus[t.gpu].list
    <3>1. list \in Seq(Requests)
      BY <1>2, EntryFacts
    <3>2. Len(list) \in Nat /\ \A n \in 1 .. Len(list) : list[n] \in Requests
      BY <3>1, LenProperties, ElementOfSeq
    <3>3. \A n \in 1 .. Len(list) : list[n].key \in Keys
      BY <3>2 DEF Requests
    <3> QED
      BY <2>1, <3>2, <3>3, AllAddedFacts DEF IInv, TypeOK
  <2>5. go' \subseteq go
    BY <2>1 DEF Stops
  <2>6. TypeOK'
    BY <2>1, <2>2, <2>3, <2>4, <2>5 DEF IInv, TypeOK
  <2>7. Working' /\ Goroutines'
    BY <2>1, <2>2, <2>4, <2>5 DEF IInv, Working, Goroutines
  <2>8. Found'
    BY <2>1, <2>2 DEF IInv, Found
  <2> QED
    BY <2>3, <2>6, <2>7, <2>8 DEF IInv
<1>3. CASE t.gpu \notin DOMAIN gpus
  <2>1. Ends("entry") /\ UNCHANGED <<cluster, used>>
    BY <1>3 DEF SetUUID
  <2> QED
    BY <2>1, EndsKeeps DEF IInv, TypeOK, Causes
<1> QED
  BY <1>2, <1>3

-----------------------------------------------------------------------------
(* The worker.                                                             *)
Workers == [at : {"idle", "sync", "patch"}, key : Keys \cup {NoKey}, todo : SUBSET Pods,
            pod : Pods \cup {NoPod}, uuid : Devices \cup {NoUUID}]

LEMMA WorkerFacts ==
  ASSUME IInv, worker.at # "idle"
  PROVE  /\ worker \in Workers /\ proc = "running"
         /\ worker.key \in Keys /\ worker.key \in wq.processing
         /\ wq \in QueueType(Keys) /\ Consistent(wq)
<1>1. worker \in Workers /\ wq \in QueueType(Keys) /\ Consistent(wq)
  BY DEF IInv, TypeOK, Workers
<1>2. proc = "running" /\ worker.key \in wq.processing
  BY DEF IInv, Working
<1>3. wq.processing \subseteq Keys
  BY <1>1 DEF QueueType
<1> QED
  BY <1>1, <1>2, <1>3

(* What the next state's worker and queue must be.                         *)
WorkerGood ==
  /\ worker \in Workers
  /\ wq \in QueueType(Keys) /\ Consistent(wq)
  /\ worker.at # "idle" => worker.key \in wq.processing
  /\ worker.at = "patch" => worker.pod \in Pods

LEMMA NextPodFacts ==
  ASSUME IInv, worker.at # "idle", NEW p \in Pods, NextPod(p)
  PROVE  WorkerGood'
<1>1. /\ worker \in Workers /\ worker.key \in wq.processing /\ worker.key \in Keys
      /\ wq \in QueueType(Keys) /\ Consistent(wq)
  BY WorkerFacts
<1>2. CASE worker.todo = {p}
  <2>1. worker' = Idle /\ wq' = Done(wq, worker.key)
    BY <1>2 DEF NextPod
  <2>2. Idle \in Workers /\ Idle.at = "idle"
    BY DEF Idle, Workers
  <2> QED
    BY <1>1, <2>1, <2>2, DoneFacts DEF WorkerGood
<1>3. CASE worker.todo # {p}
  <2>1. /\ worker' = [worker EXCEPT !.at = "sync", !.todo = @ \ {p}, !.pod = NoPod, !.uuid = NoUUID]
        /\ wq' = wq
    BY <1>3 DEF NextPod
  <2>2. worker' \in Workers /\ worker'.at = "sync" /\ worker'.key = worker.key
    BY <1>1, <2>1 DEF Workers
  <2> QED
    BY <1>1, <2>1, <2>2 DEF WorkerGood
<1> QED
  BY <1>2, <1>3

LEMMA PatchingFacts ==
  ASSUME IInv, worker.at # "idle", NEW p \in Pods, NEW uuid \in Devices \cup {NoUUID},
         Patching(p, uuid), wq' = wq
  PROVE  WorkerGood'
<1>1. /\ worker \in Workers /\ worker.key \in wq.processing
      /\ wq \in QueueType(Keys) /\ Consistent(wq)
  BY WorkerFacts
<1>2. worker' = [worker EXCEPT !.at = "patch", !.pod = p, !.uuid = uuid]
  BY DEF Patching
<1>3. worker' \in Workers /\ worker'.at = "patch" /\ worker'.key = worker.key /\ worker'.pod = p
  BY <1>1, <1>2 DEF Workers
<1> QED
  BY <1>1, <1>3 DEF WorkerGood

(* A step of the worker that asks for nothing.                             *)
LEMMA WorkerKeeps ==
  ASSUME IInv, WorkerGood', proc = "running", UNCHANGED <<proc, panic, memory, go, app>>,
         depCache' = depCache, deps' = deps, dummy' = dummy,
         pods' \in [Pods -> [phase : {"unscheduled", "scheduled", "gone"}, device : PodDevices]],
         used' \in [Faults -> Nat]
  PROVE  IInv'
<1>1. Working'
  BY DEF Working, WorkerGood
<1>2. wq' \in QueueType(Keys) /\ Consistent(wq') /\ worker' \in Workers
  BY DEF WorkerGood
<1>3. depCache' \subseteq Keys /\ deps' \subseteq Keys /\ dummy' \in [Gpus -> Dummies]
  BY DEF IInv, TypeOK
<1> QED
  BY <1>1, <1>2, <1>3, OthersKeep DEF Workers

LEMMA TakeKeyKeeps ==
  ASSUME IInv, TakeKey
  PROVE  IInv'
<1> DEFINE k == Head(wq.queue)
<1>1. /\ proc = "running" /\ worker.at = "idle" /\ wq.queue # <<>>
      /\ \E todo \in SUBSET Pods :
           IF todo = {} THEN wq' = Done(Get(wq), k) /\ UNCHANGED worker
           ELSE wq' = Get(wq) /\ worker' = [Idle EXCEPT !.at = "sync", !.key = k, !.todo = todo]
      /\ UNCHANGED <<proc, panic, memory, go, depCache, cluster, used>>
  BY DEF TakeKey
<1>2. wq \in QueueType(Keys) /\ Consistent(wq) /\ worker \in Workers
  BY DEF IInv, TypeOK, Workers
<1>3. /\ k \in Keys
      /\ Get(wq) \in QueueType(Keys) /\ Consistent(Get(wq)) /\ k \in Get(wq).processing
  <2>1. wq.dirty \subseteq Keys
    BY <1>2 DEF QueueType
  <2> QED
    BY <1>1, <1>2, <2>1, GetFacts
<1> HIDE DEF k
<1>4. PICK todo \in SUBSET Pods :
        IF todo = {} THEN wq' = Done(Get(wq), k) /\ UNCHANGED worker
        ELSE wq' = Get(wq) /\ worker' = [Idle EXCEPT !.at = "sync", !.key = k, !.todo = todo]
  BY <1>1
<1>5. WorkerGood'
  <2>1. CASE todo = {}
    BY <1>1, <1>2, <1>3, <1>4, <2>1, DoneFacts DEF WorkerGood
  <2>2. CASE todo # {}
    <3>1. worker' = [Idle EXCEPT !.at = "sync", !.key = k, !.todo = todo] /\ wq' = Get(wq)
      BY <1>4, <2>2
    <3>2. worker' \in Workers /\ worker'.at = "sync" /\ worker'.key = k
      BY <1>3, <3>1 DEF Idle, Workers
    <3> QED
      BY <1>3, <3>1, <3>2 DEF WorkerGood
  <2> QED
    BY <2>1, <2>2
<1> QED
  BY <1>1, <1>5, WorkerKeeps DEF IInv, TypeOK

LEMMA SkipPodKeeps ==
  ASSUME IInv, NEW p \in Pods, SkipPod(p)
  PROVE  IInv'
<1>1. /\ worker.at # "idle" /\ NextPod(p)
      /\ UNCHANGED <<proc, panic, memory, go, depCache, cluster, used>>
  BY DEF SkipPod
<1> QED
  BY <1>1, WorkerFacts, NextPodFacts, WorkerKeeps DEF IInv, TypeOK

LEMMA PlainPodKeeps ==
  ASSUME IInv, NEW p \in Pods, PlainPod(p)
  PROVE  IInv'
<1>1. /\ worker.at # "idle" /\ Patching(p, NoUUID) /\ wq' = wq
      /\ UNCHANGED <<proc, panic, memory, go, depCache, cluster, used>>
  BY DEF PlainPod
<1> QED
  BY <1>1, WorkerFacts, PatchingFacts, WorkerKeeps DEF IInv, TypeOK

LEMMA PatchPodKeeps ==
  ASSUME IInv, PatchPod
  PROVE  IInv'
<1>1. worker.at = "patch" /\ UNCHANGED <<app, dummy, deps>> /\ worker.pod \in Pods
  BY DEF PatchPod, IInv, Working
<1>2. CASE /\ known => pods[worker.pod].phase = "scheduled"
           /\ pods' = IF known /\ app[worker.key].gpuid # NoGpu
                      THEN [pods EXCEPT ![worker.pod].device = Env(@, worker.uuid)] ELSE pods
           /\ NextPod(worker.pod)
           /\ UNCHANGED <<proc, panic, memory, go, depCache, used>>
  <2>1. WorkerGood' /\ proc = "running"
    BY <1>1, <1>2, NextPodFacts, WorkerFacts
  <2>2. pods' \in [Pods -> [phase : {"unscheduled", "scheduled", "gone"}, device : PodDevices]]
    <3> DEFINE PodType == [phase : {"unscheduled", "scheduled", "gone"}, device : PodDevices]
               new == Env(pods[worker.pod].device, worker.uuid)
    <3>1. pods \in [Pods -> PodType]
      BY DEF IInv, TypeOK
    <3>2. worker.uuid \in Devices \cup {NoUUID}
      BY <1>1, WorkerFacts DEF Workers
    <3>3. new \in PodDevices
      BY <1>1, <3>1, <3>2 DEF Env, PodDevices
    <3>4. pods' \in {pods, [pods EXCEPT ![worker.pod].device = new]}
      BY <1>2
    <3> HIDE DEF new
    <3> QED
      BY <1>1, <3>1, <3>3, <3>4
  <2> QED
    BY <1>1, <1>2, <2>1, <2>2, WorkerKeeps DEF IInv, TypeOK
<1>3. CASE /\ known
           /\ IF pods[worker.pod].phase = "gone" THEN UNCHANGED used ELSE Happens("error")
           /\ Ends("patch")
           /\ UNCHANGED pods
  <2>1. used' \in [Faults -> Nat]
    BY <1>3, UsedFacts DEF Faults, IInv, TypeOK
  <2> QED
    BY <1>1, <1>3, <2>1, EndsKeeps DEF Causes
<1> QED
  BY <1>2, <1>3 DEF PatchPod

LEMMA KeyBackKeeps ==
  ASSUME IInv, NEW k \in Keys, KeyBack(k)
  PROVE  IInv'
<1>1. wq' = Fire(wq, k) /\ UNCHANGED <<proc, panic, memory, worker, go, depCache, cluster, used>>
  BY DEF KeyBack
<1>2. wq' \in QueueType(Keys) /\ Consistent(wq') /\ wq'.processing = wq.processing
  BY <1>1, FireFacts DEF IInv, TypeOK
<1>3. Working'
  BY <1>1, <1>2 DEF IInv, Working
<1> QED
  BY <1>1, <1>2, <1>3, OthersKeep DEF IInv, TypeOK

LEMMA KilledKeeps ==
  ASSUME IInv, Killed
  PROVE  IInv'
<1>1. Ends("killed") /\ UNCHANGED <<cluster, used>>
  BY DEF Killed
<1> QED
  BY <1>1, EndsKeeps DEF IInv, TypeOK, Causes

-----------------------------------------------------------------------------
(* A request is put on the list of a GPU with a port that no list has.     *)
LEMMA RequestListed ==
  ASSUME IInv, NEW k \in Keys, app[k].request \in Nat, NEW g \in Gpus,
         NEW old \in Entries, old = IF g \in DOMAIN gpus THEN gpus[g] ELSE NewEntry,
         DOMAIN gpus' = DOMAIN gpus \cup {g},
         gpus'[g] = Listed(old, k, TakenPort),
         \A h \in DOMAIN gpus \ {g} : gpus'[h] = gpus[h],
         pool' = PoolAfter
  PROVE  /\ DOMAIN gpus' \subseteq Gpus /\ \A h \in DOMAIN gpus' : gpus'[h] \in Entries
         /\ pool' \in [bitmap : Bitmaps, cursor : Cursors]
         /\ UsageIsSum' /\ Masked' /\ PortsDistinct'
<1> DEFINE r == [key |-> k, req |-> app[k].request, port |-> TakenPort]
           new == Listed(old, k, TakenPort)
<1>1. /\ TakenPort \in Positions \cup {PoolFull}
      /\ pool' \in [bitmap : Bitmaps, cursor : Cursors]
      /\ pool.bitmap.bits \subseteq pool'.bitmap.bits
      /\ TakenPort # PoolFull =>
           TakenPort \notin pool.bitmap.bits /\ TakenPort \in pool'.bitmap.bits
  BY PortFacts DEF IInv, TypeOK
<1>2. /\ old.usage = Charged(old.list)
      /\ IF g \in DOMAIN gpus THEN old = gpus[g] ELSE Range(old.list) = {}
  BY NewEntryFacts DEF IInv, UsageIsSum
<1>3. /\ new \in Entries /\ new.usage = Charged(new.list)
      /\ Range(new.list) = Range(old.list) \cup {r}
  BY <1>1, <1>2, ListedFacts
<1>4. r \in Requests /\ r.port = TakenPort
  BY <1>1 DEF Requests
<1>5. \A h \in DOMAIN gpus : \A d \in Range(gpus[h].list) : d.port = r.port => r.port = PoolFull
  BY <1>1, <1>4 DEF IInv, Masked
<1> HIDE DEF r
<1>6. gpus'[g] = new
  OBVIOUS
<1> HIDE DEF new
<1> QED
  BY <1>1, <1>2, <1>3, <1>4, <1>5, <1>6, OneMore

(* The state of the worker after a pod of an entry is done with.           *)
LEMMA BoundFacts ==
  ASSUME IInv, worker.at # "idle", NEW p \in Pods, NEW g \in DOMAIN gpus, Bound(p, g)
  PROVE  WorkerGood'
<1>1. gpus[g].uuid \in Devices \cup {NoUUID}
  BY EntryFacts
<1> QED
  BY <1>1, NextPodFacts, PatchingFacts DEF Bound

(* The steps that list a request.                                          *)
LEMMA AskedKeeps ==
  ASSUME IInv, NEW p \in Pods, AskForGPU(p),
         AskNewGPU(worker.key, p, app[Owner[p]].gpuid) \/ AskEntry(worker.key, p, app[Owner[p]].gpuid)
  PROVE  IInv'
<1> DEFINE k == worker.key
           g == app[Owner[p]].gpuid
           old == IF g \in DOMAIN gpus THEN gpus[g] ELSE NewEntry
<1>1. /\ worker.at # "idle" /\ g # NoGpu /\ app[k].request # NoRequest
      /\ UNCHANGED <<proc, panic, registered, known, restore, depCache, cluster, used>>
  BY DEF AskForGPU
<1>2. k \in Keys /\ proc = "running" /\ app[k].request \in Nat
  BY <1>1, WorkerFacts, AppFacts
<1>3. g \in Gpus
  <2>1. Owner[p] \in Keys
    BY DeviceManagerAssumption
  <2> QED
    BY <1>1, <2>1, AppFacts DEF Apps
<1>4. old \in Entries
  BY EntryFacts, NewEntryFacts
<1>5. /\ WorkerGood' /\ pool' = PoolAfter
      /\ DOMAIN gpus' = DOMAIN gpus \cup {g}
      /\ gpus'[g] = Listed(old, k, TakenPort)
      /\ \A h \in DOMAIN gpus \ {g} : gpus'[h] = gpus[h]
      /\ go' = go \/ go' = go \cup {NewTask(g, "get")}
  <2>1. CASE AskNewGPU(k, p, g)
    BY <1>1, <2>1, NextPodFacts DEF AskNewGPU
  <2>2. CASE AskEntry(k, p, g)
    <3>1. /\ g \in DOMAIN gpus /\ Bound(p, g) /\ pool' = PoolAfter /\ go' = go
          /\ gpus' = [gpus EXCEPT ![g] = Listed(@, k, TakenPort)]
      BY <2>2 DEF AskEntry
    <3>2. WorkerGood'
      BY <1>1, <3>1, BoundFacts
    <3>3. /\ DOMAIN gpus' = DOMAIN gpus \cup {g} /\ gpus'[g] = Listed(old, k, TakenPort)
          /\ \A h \in DOMAIN gpus \ {g} : gpus'[h] = gpus[h]
      BY <3>1
    <3> QED
      BY <3>1, <3>2, <3>3
  <2> QED
    BY <2>1, <2>2
<1> HIDE DEF k, g
<1>6. /\ DOMAIN gpus' \subseteq Gpus /\ \A h \in DOMAIN gpus' : gpus'[h] \in Entries
      /\ pool' \in [bitmap : Bitmaps, cursor : Cursors]
      /\ UsageIsSum' /\ Masked' /\ PortsDistinct'
  BY <1>2, <1>3, <1>4, <1>5, RequestListed
<1>7. go' \subseteq Tasks /\ \A t \in go' : ~t.early => t.gpu \in DOMAIN gpus'
  <2> DEFINE n == NewTask(g, "get")
  <2>1. n \in Tasks /\ n.gpu = g
    BY <1>3 DEF NewTask, Tasks
  <2> HIDE DEF n
  <2>2. go' \subseteq go \cup {n}
    BY <1>5 DEF n
  <2>3. go \subseteq Tasks /\ \A t \in go : ~t.early => t.gpu \in DOMAIN gpus
    BY DEF IInv, TypeOK, Goroutines
  <2> QED
    BY <1>5, <2>1, <2>2, <2>3
<1>8. TypeOK'
  BY <1>1, <1>5, <1>6, <1>7 DEF IInv, TypeOK, WorkerGood, Workers
<1>9. Working' /\ Goroutines' /\ Found'
  BY <1>1, <1>2, <1>5, <1>7 DEF Working, Goroutines, Found, WorkerGood
<1> QED
  BY <1>6, <1>8, <1>9 DEF IInv

LEMMA AskForGPUKeeps ==
  ASSUME IInv, NEW p \in Pods, AskForGPU(p)
  PROVE  IInv'
<1> DEFINE k == worker.key
           g == app[Owner[p]].gpuid
<1>1. /\ worker.at # "idle"
      /\ UNCHANGED <<proc, panic, registered, known, restore, depCache, cluster, used>>
      /\ \/ AskNoNode(p) \/ AskNewGPU(k, p, g) \/ AskEntry(k, p, g)
         \/ AskTooMuch(k, p, g) \/ AskAgain(k, p, g)
  BY DEF AskForGPU
<1>2. /\ k \in Keys /\ k \in wq.processing /\ proc = "running"
      /\ wq \in QueueType(Keys) /\ Consistent(wq)
  BY <1>1, WorkerFacts
<1>3. CASE AskNoNode(p) \/ AskTooMuch(k, p, g) \/ AskAgain(k, p, g)
  <2>1. UNCHANGED <<gpus, pool, go>>
    BY <1>3 DEF AskNoNode, AskTooMuch, AskAgain
  <2>2. WorkerGood'
    <3>1. CASE AskNoNode(p)
      BY <1>1, <3>1, PatchingFacts DEF AskNoNode
    <3>2. CASE AskTooMuch(k, p, g)
      <4>1. worker' = Idle /\ wq' = Done(AddRateLimited(wq, k), k)
        BY <3>2 DEF AskTooMuch
      <4>2. Idle \in Workers /\ Idle.at = "idle"
        BY DEF Idle, Workers
      <4>3. /\ AddRateLimited(wq, k) \in QueueType(Keys) /\ Consistent(AddRateLimited(wq, k))
            /\ k \in AddRateLimited(wq, k).processing
        BY <1>2, AddRateLimitedFacts
      <4>4. wq' \in QueueType(Keys) /\ Consistent(wq')
        BY <4>1, <4>3, DoneFacts
      <4> QED
        BY <4>1, <4>2, <4>4 DEF WorkerGood
    <3>3. CASE AskAgain(k, p, g)
      BY <1>1, <3>3, BoundFacts DEF AskAgain
    <3> QED
      BY <1>3, <3>1, <3>2, <3>3
  <2> QED
    BY <1>1, <1>2, <2>1, <2>2, WorkerKeeps DEF IInv, TypeOK
<1>4. CASE AskNewGPU(k, p, g) \/ AskEntry(k, p, g)
  BY <1>4, AskedKeeps
<1> QED
  BY <1>1, <1>3, <1>4

-----------------------------------------------------------------------------
(* The cluster.                                                            *)
LEMMA ClusterKeeps ==
  ASSUME IInv, UNCHANGED <<proc, panic, memory, work, go, depCache, app>>,
         deps' \subseteq Keys, dummy' \in [Gpus -> Dummies],
         pods' \in [Pods -> [phase : {"unscheduled", "scheduled", "gone"}, device : PodDevices]],
         used' \in [Faults -> Nat]
  PROVE  IInv'
<1>1. Working'
  BY DEF IInv, Working
<1> QED
  BY <1>1, OthersKeep DEF IInv, TypeOK

LEMMA DummyChangesKeep ==
  ASSUME IInv, NEW g \in Gpus, DummyStarts(g) \/ DummyPrints(g) \/ DummyFails(g)
  PROVE  IInv'
<1>1. UNCHANGED <<proc, panic, memory, work, go, depCache, app, pods, deps>>
  BY DEF DummyStarts, DummyPrints, DummyFails
<1>2. used' \in [Faults -> Nat]
  BY UsedFacts DEF DummyStarts, DummyPrints, DummyFails, Faults, IInv, TypeOK
<1>3. \E d \in Dummies : dummy' = [dummy EXCEPT ![g] = d]
  <2>1. dummy \in [Gpus -> Dummies] /\ dummy[g] \in Dummies
    BY DEF IInv, TypeOK
  <2>2. CASE DummyStarts(g)
    BY <2>2 DEF DummyStarts, Dummies
  <2>3. CASE DummyPrints(g)
    <3>1. [dummy[g] EXCEPT !.phase = "printed"] \in Dummies
      BY <2>1 DEF Dummies
    <3> QED
      BY <2>3, <3>1 DEF DummyPrints
  <2>4. CASE DummyFails(g)
    <3> DEFINE device == IF dummy[g].phase = "printed" THEN dummy[g].device ELSE NoUUID
               d == [dummy[g] EXCEPT !.phase = "failed", !.device = device]
    <3>1. d \in Dummies
      BY <2>1 DEF Dummies
    <3>2. dummy' = [dummy EXCEPT ![g] = d]
      BY <2>1, <2>4 DEF DummyFails
    <3> HIDE DEF d
    <3> QED
      BY <3>1, <3>2
  <2> QED
    BY <2>2, <2>3, <2>4
<1>4. dummy' \in [Gpus -> Dummies]
  BY <1>3 DEF IInv, TypeOK
<1> QED
  BY <1>1, <1>2, <1>4, ClusterKeeps DEF IInv, TypeOK

LEMMA PodsChangeKeep ==
  ASSUME IInv, NEW p \in Pods, PodScheduled(p) \/ PodGone(p)
  PROVE  IInv'
<1>1. UNCHANGED <<proc, panic, memory, work, go, depCache, app, dummy, deps, used>>
  BY DEF PodScheduled, PodGone
<1>2. pods' \in [Pods -> [phase : {"unscheduled", "scheduled", "gone"}, device : PodDevices]]
  BY DEF PodScheduled, PodGone, PodDevices, IInv, TypeOK
<1> QED
  BY <1>1, <1>2, ClusterKeeps DEF IInv, TypeOK

LEMMA DeleteDeploymentKeeps ==
  ASSUME IInv, NEW k \in Keys, DeleteDeployment(k)
  PROVE  IInv'
<1>1. /\ deps' = deps \ {k} /\ used' \in [Faults -> Nat]
      /\ UNCHANGED <<proc, panic, memory, work, go, depCache, app, dummy, pods>>
  BY UsedFacts DEF DeleteDeployment, Faults
<1> QED
  BY <1>1, ClusterKeeps DEF IInv, TypeOK

-----------------------------------------------------------------------------
LEMMA InitHolds == Init => IInv
<1> SUFFICES ASSUME Init PROVE IInv
  OBVIOUS
<1>1. EmptyQueue \in QueueType(Keys) /\ Consistent(EmptyQueue)
  BY EmptyFacts
<1>2. DOMAIN gpus = {} /\ NewPool \in [bitmap : Bitmaps, cursor : Cursors]
  BY NewPoolType DEF Init
<1>3. worker \in Workers
  BY DEF Init, Idle, Workers
<1>4. dummy \in [Gpus -> Dummies]
  <2>1. ASSUME NEW g \in Gpus
        PROVE  dummy[g] \in Dummies
    <3> DEFINE recorded == \E k \in Keys : app[k].placed = g
               d == CHOOSE d \in Devices : \E k \in Keys : app[k].placed = g /\ app[k].device = d
    <3>1. dummy[g] = IF recorded THEN [phase |-> "printed", device |-> d] ELSE Absent
      BY DEF Init
    <3>2. CASE recorded
      <4>1. \E i \in Keys : app[i].placed = g /\ app[i].device \in Devices
        BY <3>2, RecordedAssumption, DeviceManagerAssumption DEF Init
      <4>2. d \in Devices
        BY <4>1
      <4> HIDE DEF d
      <4> QED
        BY <3>1, <3>2, <4>2 DEF Dummies
    <3>3. CASE ~recorded
      BY <3>1, <3>3 DEF Absent, Dummies
    <3> QED
      BY <3>2, <3>3
  <2> QED
    BY <2>1 DEF Init
<1>5. pods \in [Pods -> [phase : {"unscheduled", "scheduled", "gone"}, device : PodDevices]]
  BY DEF Init, PodDevices
<1>6. restore \in [keys : SUBSET Keys, found : SUBSET [pod : Pods, device : PodDevices],
                   later : SUBSET Gpus]
  BY DEF Init, NoRestore
<1>7. TypeOK
  BY <1>1, <1>2, <1>3, <1>4, <1>5, <1>6 DEF Init, TypeOK, Workers
<1>8. Working /\ Goroutines /\ Found /\ Masked /\ PortsDistinct /\ UsageIsSum
  BY <1>2 DEF Init, Idle, Working, Goroutines, Found, Masked, PortsDistinct, UsageIsSum
<1> QED
  BY <1>7, <1>8 DEF IInv

LEMMA StutterKeeps == IInv /\ UNCHANGED vars => IInv'
BY DEF vars, IInv, TypeOK, Working, Goroutines, Found, Masked, PortsDistinct, UsageIsSum

LEMMA NextKeeps == IInv /\ [Next]_vars => IInv'
<1> SUFFICES ASSUME IInv, [Next]_vars PROVE IInv'
  OBVIOUS
<1>1. CASE Start \/ InitNodesInfo \/ Restored \/ StartWorkers \/ Register \/ Killed
  BY <1>1, StartKeeps, InitNodesInfoKeeps, RestoredKeeps, StartWorkersKeeps, RegisterKeeps, KilledKeeps
<1>2. CASE TakeKey \/ PatchPod
  BY <1>2, TakeKeyKeeps, PatchPodKeeps
<1>3. CASE \E pod \in restore.found : RestorePod(pod)
  BY <1>3, RestorePodKeeps
<1>4. CASE \E k \in Keys : \/ LookUp(k) \/ DeploymentEvent(k) \/ DeploymentDeleted(k)
                           \/ KeyBack(k) \/ DeleteDeployment(k)
  BY <1>4, LookUpKeeps, DeploymentEventKeeps, DeploymentDeletedKeeps, KeyBackKeeps, DeleteDeploymentKeeps
<1>5. CASE \E p \in Pods : \/ SkipPod(p) \/ PlainPod(p) \/ AskForGPU(p)
                           \/ PodScheduled(p) \/ PodGone(p)
  BY <1>5, SkipPodKeeps, PlainPodKeeps, AskForGPUKeeps, PodsChangeKeep
<1>6. CASE \E g \in Gpus : \/ CleanOrphan(g) \/ DummyEvent(g)
                           \/ DummyStarts(g) \/ DummyPrints(g) \/ DummyFails(g)
  BY <1>6, CleanOrphanKeeps, DummyEventKeeps, DummyChangesKeep
<1>7. CASE \E t \in go : TaskStep(t) \/ CallFails(t)
  BY <1>7, GetDummyKeeps, CheckEntryKeeps, CreateDummyKeeps, DeleteFailedKeeps, ReadLogKeeps,
     SetUUIDKeeps, CallFailsKeeps DEF TaskStep
<1>8. CASE UNCHANGED vars
  BY <1>8, StutterKeeps
<1> QED
  BY <1>1, <1>2, <1>3, <1>4, <1>5, <1>6, <1>7, <1>8 DEF Next

(* The inductive invariant holds in every reachable state.                 *)
THEOREM Invariance == Spec => []IInv
BY InitHolds, NextKeeps, PTL DEF Spec

(* The variables keep their types, whatever fails and restarts, and the    *)
(* queue stays consistent.                                                 *)
THEOREM TypeCorrect == Spec => []TypeOK
<1>1. IInv => TypeOK
  BY DEF IInv
<1> QED
  BY <1>1, Invariance, PTL

(* No position of the pool is listed for two keys, whatever the order of   *)
(* requests, restarts and restored pods: initNodesInfo masks what was      *)
(* recorded before getPhysicalGPUuuid takes a new one.                     *)
THEOREM PortsKept == Spec => []PortsDistinct
<1>1. IInv => PortsDistinct
  BY DEF IInv
<1> QED
  BY <1>1, Invariance, PTL

(* What is charged to a GPU is what the requests on its list ask for,      *)
(* however many pods of a Deployment are restored and whatever is asked    *)
(* for, retried and restarted after that.                                  *)
THEOREM UsageHolds == Spec => []UsageIsSum
<1>1. IInv => UsageIsSum
  BY DEF IInv
<1> QED
  BY <1>1, Invariance, PTL

(* handleDeletedSharePodDep removes nothing, and so nothing unlocks the    *)
(* mutex twice; a goroutine that finds no entry is early.                  *)
LEMMA EntriesStayStep ==
  ASSUME IInv, [Next]_vars
  PROVE  /\ panic' = panic \/ panic' # "unlock"
         /\ proc # "down" /\ proc' = "down" /\ panic' = "entry" =>
              \E t \in go : t.at = "set" /\ t.gpu \notin DOMAIN gpus /\ t.early
<1>1. CASE \E k \in Keys : DeploymentDeleted(k)
  BY <1>1, NothingRemoved
<1>2. CASE \E t \in go : SetUUID(t)
  <2>1. PICK t \in go : SetUUID(t)
    BY <1>2
  <2>2. t.at = "set"
    BY <2>1 DEF SetUUID
  <2>3. CASE t.gpu \in DOMAIN gpus
    BY <2>1, <2>3 DEF SetUUID
  <2>4. CASE t.gpu \notin DOMAIN gpus
    <3>1. Ends("entry")
      BY <2>1, <2>4 DEF SetUUID
    <3>2. t.early
      <4>1. t \in Tasks
        BY DEF IInv, TypeOK
      <4> QED
        BY <2>4, <4>1 DEF IInv, Goroutines, Tasks
    <3> QED
      BY <2>2, <2>4, <3>1, <3>2 DEF Ends
  <2> QED
    BY <2>3, <2>4
<1>3. CASE \/ \E pod \in restore.found : RestorePod(pod)
           \/ PatchPod \/ Killed
  BY <1>3 DEF RestorePod, RestorePanics, RestoreListed, PatchPod, Killed, Ends
<1>4. CASE /\ [Next]_vars
           /\ ~(\E k \in Keys : DeploymentDeleted(k)) /\ ~(\E t \in go : SetUUID(t))
           /\ ~((\E pod \in restore.found : RestorePod(pod)) \/ PatchPod \/ Killed)
  <2>1. proc' = proc \/ proc' # "down"
    BY <1>4 DEF Next, vars, Start, InitNodesInfo, Restored, CleanOrphan, StartWorkers, Register, TakeKey, LookUp,
       DeploymentEvent, KeyBack, DeleteDeployment, SkipPod, PlainPod, AskForGPU, PodScheduled, PodGone,
       DummyEvent, DummyStarts, DummyPrints, DummyFails, TaskStep, CallFails,
       GetDummy, CheckEntry, CreateDummy, DeleteFailed, ReadLog
  <2>2. panic' = panic
    BY <1>4 DEF Next, vars, Start, InitNodesInfo, Restored, CleanOrphan, StartWorkers, Register, TakeKey, LookUp,
       DeploymentEvent, KeyBack, DeleteDeployment, SkipPod, PlainPod, AskForGPU, PodScheduled, PodGone,
       DummyEvent, DummyStarts, DummyPrints, DummyFails, TaskStep, CallFails,
       GetDummy, CheckEntry, CreateDummy, DeleteFailed, ReadLog
  <2> QED
    BY <2>1, <2>2
<1> QED
  BY <1>1, <1>2, <1>3, <1>4

(* Once cleanOrphanDummyPod has run, no goroutine finds its entry gone.    *)
THEOREM EntriesStayHolds == Spec => EntriesStay
<1> DEFINE Locked == panic # "unlock"
           Step == /\ panic' # "unlock"
                   /\ proc # "down" /\ proc' = "down" /\ panic' = "entry" =>
                        \E t \in go : t.at = "set" /\ t.gpu \notin DOMAIN gpus /\ t.early
<1>1. Init => Locked
  BY DEF Init
<1>2. IInv /\ Locked /\ [Next]_vars => Locked' /\ Step
  BY EntriesStayStep
<1>3. Spec => [][Step]_vars
  <2> HIDE DEF Locked, Step
  <2> QED
    BY <1>1, <1>2, Invariance, PTL DEF Spec
<1> QED
  BY <1>3 DEF EntriesStay

-----------------------------------------------------------------------------
(* initNodesInfo charges what was recorded without a look at the sum; all  *)
(* that comes later looks.                                                 *)
Within(g) ==
  \/ gpus'[g].usage <= Whole
  \/ proc = "restoring"
  \/ g \in DOMAIN gpus /\ gpus'[g].usage = gpus[g].usage

AllWithin == \A g \in DOMAIN gpus' : Within(g)

LEMMA WithinStep ==
  ASSUME IInv, [Next]_vars
  PROVE  AllWithin
<1>1. CASE Start \/ InitNodesInfo \/ Restored \/ StartWorkers \/ Register \/ Killed \/ TakeKey \/ PatchPod
  <2>1. CASE gpus' = gpus
    BY <2>1 DEF AllWithin, Within
  <2>2. CASE DOMAIN gpus' = {}
    BY <2>2 DEF AllWithin
  <2>3. CASE InitNodesInfo
    <3>1. \A g \in DOMAIN gpus' : gpus'[g].usage = 0
      BY <2>3 DEF InitNodesInfo, NewEntry
    <3> QED
      BY <3>1, DeviceManagerAssumption DEF AllWithin, Within
  <2>4. CASE Killed
    <3>1. gpus' = <<>> /\ DOMAIN <<>> = {}
      BY <2>4 DEF Killed, Ends
    <3> QED
      BY <3>1 DEF AllWithin
  <2>5. CASE PatchPod
    BY <2>1, <2>2, <2>5 DEF PatchPod, Ends
  <2> QED
    BY <1>1, <2>1, <2>3, <2>4, <2>5 DEF Start, Restored, StartWorkers, Register, TakeKey
<1>2. CASE \E g \in Gpus : CleanOrphan(g)
  <2>1. PICK g \in Gpus : CleanOrphan(g)
    BY <1>2
  <2>2. \A h \in DOMAIN gpus' : h \in DOMAIN gpus /\ gpus'[h] = gpus[h]
    BY <2>1 DEF CleanOrphan
  <2> QED
    BY <2>2 DEF AllWithin, Within
<1>3. CASE \E pod \in restore.found : RestorePod(pod)
  BY <1>3 DEF RestorePod, AllWithin, Within
<1>4. CASE \E k \in Keys : \/ LookUp(k) \/ DeploymentEvent(k) \/ DeploymentDeleted(k)
                           \/ KeyBack(k) \/ DeleteDeployment(k)
  <2>1. gpus' = gpus
    BY <1>4, NothingRemoved DEF LookUp, DeploymentEvent, KeyBack, DeleteDeployment
  <2> QED
    BY <2>1 DEF AllWithin, Within
<1>5. CASE \E p \in Pods : \/ SkipPod(p) \/ PlainPod(p) \/ PodScheduled(p) \/ PodGone(p)
  <2>1. gpus' = gpus
    BY <1>5 DEF SkipPod, PlainPod, PodScheduled, PodGone
  <2> QED
    BY <2>1 DEF AllWithin, Within
<1>6. ASSUME NEW p \in Pods, AskForGPU(p)
      PROVE  AllWithin
  <2> DEFINE k == worker.key
             g == app[Owner[p]].gpuid
  <2>1. /\ worker.at # "idle" /\ app[k].request # NoRequest
        /\ \/ AskNoNode(p) \/ AskNewGPU(k, p, g) \/ AskEntry(k, p, g)
           \/ AskTooMuch(k, p, g) \/ AskAgain(k, p, g)
    BY <1>6 DEF AskForGPU
  <2>2. k \in Keys
    BY <2>1, WorkerFacts
  <2>3. app[k].request \in 0 .. Whole
    BY <2>1, <2>2, AppFacts DEF Apps
  <2>4. CASE AskNoNode(p) \/ AskTooMuch(k, p, g) \/ AskAgain(k, p, g)
    BY <2>4 DEF AskNoNode, AskTooMuch, AskAgain, AllWithin, Within
  <2>5. CASE AskNewGPU(k, p, g)
    <3>1. /\ DOMAIN gpus' = DOMAIN gpus \cup {g}
          /\ gpus'[g] = Listed(NewEntry, k, TakenPort)
          /\ \A h \in DOMAIN gpus \ {g} : gpus'[h] = gpus[h]
      BY <2>5 DEF AskNewGPU
    <3>2. gpus'[g].usage = app[k].request
      BY <2>3, <3>1, DeviceManagerAssumption DEF Listed, NewEntry
    <3> QED
      BY <2>3, <3>1, <3>2, DeviceManagerAssumption DEF AllWithin, Within
  <2>6. CASE AskEntry(k, p, g)
    <3>1. /\ g \in DOMAIN gpus /\ gpus[g].usage + app[k].request <= Whole
          /\ gpus' = [gpus EXCEPT ![g] = Listed(@, k, TakenPort)]
      BY <2>6 DEF AskEntry
    <3>2. gpus[g] \in Entries
      BY <3>1, EntryFacts
    <3>3. Listed(gpus[g], k, TakenPort).usage = gpus[g].usage + app[k].request
      BY <3>2 DEF Listed, Entries
    <3>4. /\ DOMAIN gpus' = DOMAIN gpus /\ gpus'[g] = Listed(gpus[g], k, TakenPort)
          /\ \A h \in DOMAIN gpus \ {g} : gpus'[h] = gpus[h]
      BY <3>1
    <3> QED
      BY <3>1, <3>3, <3>4 DEF AllWithin, Within
  <2> QED
    BY <2>1, <2>4, <2>5, <2>6
<1>7. CASE \E g \in Gpus : DummyEvent(g) \/ DummyStarts(g) \/ DummyPrints(g) \/ DummyFails(g)
  BY <1>7 DEF DummyEvent, DummyStarts, DummyPrints, DummyFails, AllWithin, Within
<1>8. ASSUME NEW t \in go, TaskStep(t) \/ CallFails(t)
      PROVE  AllWithin
  <2>1. CASE SetUUID(t) /\ t.gpu \in DOMAIN gpus
    <3>1. gpus' = [gpus EXCEPT ![t.gpu].uuid = t.seen]
      BY <2>1 DEF SetUUID
    <3>2. ASSUME NEW g \in DOMAIN gpus
          PROVE  gpus'[g].usage = gpus[g].usage
      <4>1. gpus[g] \in Entries
        BY EntryFacts
      <4>2. gpus'[g] = IF g = t.gpu THEN [gpus[g] EXCEPT !.uuid = t.seen] ELSE gpus[g]
        BY <3>1
      <4> QED
        BY <4>1, <4>2 DEF Entries
    <3>3. DOMAIN gpus' = DOMAIN gpus
      BY <3>1
    <3> QED
      BY <3>2, <3>3 DEF AllWithin, Within
  <2>2. CASE SetUUID(t) /\ t.gpu \notin DOMAIN gpus
    BY <2>2 DEF SetUUID, Ends, AllWithin
  <2>3. CASE ~SetUUID(t)
    BY <1>8, <2>3 DEF TaskStep, CallFails, GetDummy, CheckEntry, CreateDummy, DeleteFailed, ReadLog,
       AllWithin, Within
  <2> QED
    BY <2>1, <2>2, <2>3
<1>9. CASE UNCHANGED vars
  BY <1>9 DEF vars, AllWithin, Within
<1> QED
  BY <1>1, <1>2, <1>3, <1>4, <1>5, <1>6, <1>7, <1>8, <1>9 DEF Next

(* A GPU is charged beyond Whole by nothing but initNodesInfo, whatever    *)
(* requests, retries and goroutines follow.                                *)
THEOREM OnlyRestoredExceedHolds == Spec => OnlyRestoredExceed
<1> DEFINE Step == \A g \in DOMAIN gpus' :
                     \/ gpus'[g].usage <= Whole
                     \/ proc = "restoring"
                     \/ g \in DOMAIN gpus /\ gpus'[g].usage = gpus[g].usage
<1>1. IInv /\ [Next]_vars => [Step]_vars
  BY WithinStep DEF AllWithin, Within
<1>2. Spec => [][Step]_vars
  <2> HIDE DEF Step
  <2> QED
    BY <1>1, Invariance, PTL DEF Spec
<1> QED
  BY <1>2 DEF OnlyRestoredExceed

=============================================================================
