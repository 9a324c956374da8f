-------------------------- MODULE Scheduler_proofs --------------------------
(***************************************************************************)
(* The scheduler keeps the key of every pod it has to place, once, for any *)
(* number of pods, nodes, failures and restarts.                           *)
(*                                                                         *)
(* The inductive invariant says where keys can be: Excl(p), at most one    *)
(* place; Unseen, nowhere before the informer has seen the pod; NoLost,    *)
(* somewhere while the pod waits.  NoLost is inductive only together with  *)
(* CacheBehind (the worker, which decides by the cache, never drops a pod  *)
(* that waits) and TypeOK (a patch that is applied sets a node), and Excl  *)
(* only together with the consistency of the work queue.                   *)
(*                                                                         *)
(* That a pod is placed where it fits needs no more of the invariant than  *)
(* the types: it rests on what the placement computes, sums over sets of   *)
(* pods, which the lemmas of the first section make tractable.             *)
(***************************************************************************)
EXTENDS Scheduler, Workqueue_proofs, FiniteSetTheorems

(* The cache is a former state of the API server, which sets a pod's node  *)
(* once and its GPUID not before: a pod to be placed is seen as such.      *)
CacheBehind ==
  \A p \in Pods :
    /\ api[p].state = "none" => cache[p] = api[p]
    /\ cache[p].state = "gone" => api[p].state = "gone"
    /\ cache[p].node # NoNode => api[p].node = cache[p].node
    /\ cache[p].gpuid # NoId => cache[p].node # NoNode
    /\ api[p].gpuid # NoId => api[p].node # NoNode

(* Somebody has the key of p.                                              *)
Held(p) ==
  \/ p \in addNotices
  \/ p \in wq.dirty
  \/ p \in wq.delayed
  \/ InList(p)
  \/ InHand(p)

Excl(p) ==
  /\ p \in addNotices => p \notin wq.dirty /\ p \notin wq.delayed /\ ~InList(p) /\ ~InHand(p)
  /\ p \in wq.dirty => p \notin wq.delayed /\ ~InList(p) /\ ~InHand(p)
  /\ p \in wq.delayed => ~InList(p) /\ ~InHand(p)
  /\ InList(p) => ~InHand(p)

Tokens == \A p \in Pods : Excl(p)

NoLost == \A p \in Pods : Waiting(p) => Held(p)

Unseen == \A p \in Pods : cache[p].state = "none" => ~Held(p)

(* A pod with a GPUID is not being placed, and whoever has its key will    *)
(* find the GPUID in the cache - unless replies get lost.                  *)
Settled ==
  faults.reply = 0 =>
    \A p \in Pods : api[p].gpuid # NoId =>
      /\ worker.key = p => worker.pc \in {"read", "finish"}
      /\ Held(p) => cache[p].gpuid # NoId

IInv ==
  /\ TypeOK
  /\ CacheBehind
  /\ QueueConsistent
  /\ Tokens
  /\ IsInjective(pending)
  /\ NoLost
  /\ Unseen
  /\ Settled

-----------------------------------------------------------------------------
(* Sums over finite sets.                                                  *)

(* What holds of a finite set when it holds of the set without any one of  *)
(* its elements holds of all subsets.                                      *)
LEMMA Removals ==
  ASSUME NEW T, IsFiniteSet(T), NEW E,
         \A s \in SUBSET T : (\A x \in s : s \ {x} \in E) => s \in E
  PROVE  \A s \in SUBSET T : s \in E
<1> DEFINE N == Cardinality(T)
           C == {n \in 0 .. N : \A s \in SUBSET T : Cardinality(s) = n => s \in E}
<1>1. \A s \in SUBSET T : IsFiniteSet(s) /\ Cardinality(s) \in 0 .. N
  BY FS_Subset, FS_CardinalityType
<1>2. N \in Nat
  BY FS_CardinalityType
<1>3. 0 \in C
  BY <1>1, <1>2, FS_EmptySet
<1>4. ASSUME NEW n \in 1 .. N, n - 1 \in C PROVE n \in C
  <2> SUFFICES ASSUME NEW s \in SUBSET T, Cardinality(s) = n PROVE s \in E
    BY <1>2
  <2>1. ASSUME NEW x \in s PROVE s \ {x} \in E
    <3>1. Cardinality(s \ {x}) = n - 1 /\ s \ {x} \in SUBSET T
      BY <1>1, FS_RemoveElement
    <3> QED
      BY <1>4, <3>1
  <2> QED
    BY <2>1
<1> HIDE DEF C, N
<1>5. \A n \in 0 .. N : n \in C
  BY <1>2, <1>3, <1>4, CountUp
<1> QED
  BY <1>1, <1>5 DEF C

(* g is the sum of w over each subset of T, as MapThenSumSet defines it.   *)
Some(s) == CHOOSE y \in s : TRUE

SumStep(h, w, T) ==
  [s \in SUBSET T |-> IF s = {} THEN 0 ELSE w[Some(s)] + h[s \ {Some(s)}]]

IsSum(g, w, T) == g = SumStep(g, w, T)

(* A finite set has a sum: build it up, one size of subset after another.  *)
LEMMA SumExists ==
  ASSUME NEW T, IsFiniteSet(T), NEW w \in [T -> Int]
  PROVE  \E g \in [SUBSET T -> Int] : IsSum(g, w, T)
<1> DEFINE S == [SUBSET T -> Int]
           M == Cardinality(T) + 1
           zero == [s \in SUBSET T |-> 0]
           steps == [n \in 1 .. M |-> [h \in S |-> SumStep(h, w, T)]]
<1>1. M \in Nat /\ M # 0 /\ \A s \in SUBSET T : IsFiniteSet(s) /\ Cardinality(s) \in 0 .. M - 1
  BY FS_Subset, FS_CardinalityType
<1>2. \A s \in SUBSET T : s # {} =>
        /\ Some(s) \in s /\ s \ {Some(s)} \in SUBSET T
        /\ Cardinality(s \ {Some(s)}) = Cardinality(s) - 1
  BY <1>1, FS_RemoveElement DEF Some
<1>3. \A s \in SUBSET T : s = {} <=> Cardinality(s) = 0
  BY <1>1, FS_EmptySet
<1>4. ASSUME NEW h \in S PROVE SumStep(h, w, T) \in S
  <2>1. \A s \in SUBSET T : s # {} => w[Some(s)] \in Int /\ h[s \ {Some(s)}] \in Int
    BY <1>2
  <2>2. \A s \in SUBSET T : s # {} => w[Some(s)] + h[s \ {Some(s)}] \in Int
    BY <2>1
  <2> QED
    BY <2>2 DEF SumStep
<1>5. zero \in S /\ steps \in [1 .. M -> [S -> S]]
  BY <1>4
<1>6. PICK f \in [0 .. M -> S] : f[0] = zero /\ \A n \in 1 .. M : f[n] = steps[n][f[n - 1]]
  <2> HIDE DEF S, zero, steps, M
  <2>1. M \in Nat /\ zero \in S /\ steps \in [1 .. M -> [S -> S]]
    BY <1>1, <1>5
  <2>2. \E f \in [0 .. M -> S] : f[0] = zero /\ \A n \in 1 .. M : f[n] = steps[n][f[n - 1]]
    BY <2>1, StepsExist
  <2> QED
    BY <2>2
<1>7. \A n \in 1 .. M : f[n - 1] \in S /\ f[n] = SumStep(f[n - 1], w, T)
  <2> TAKE n \in 1 .. M
  <2>1. n - 1 \in 0 .. M
    BY <1>1
  <2> HIDE DEF S
  <2>2. f[n - 1] \in S
    BY <2>1
  <2> QED
    BY <1>6, <2>2
<1> HIDE DEF M, steps, S
<1> DEFINE E == {n \in 0 .. M :
                   n = 0 \/ \A s \in SUBSET T : Cardinality(s) < n => f[n][s] = f[n - 1][s]}
<1>8. 0 \in E
  BY <1>1
<1>9. ASSUME NEW n \in 1 .. M, n - 1 \in E PROVE n \in E
  <2> SUFFICES ASSUME NEW s \in SUBSET T, Cardinality(s) < n PROVE f[n][s] = f[n - 1][s]
    BY <1>1
  <2>1. f[n] = SumStep(f[n - 1], w, T)
    BY <1>7
  <2>2. CASE n = 1
    <3>1. s = {}
      BY <1>1, <1>3, <2>2
    <3>2. f[n - 1] = zero
      BY <1>6, <2>2
    <3> QED
      BY <2>1, <3>1, <3>2 DEF SumStep
  <2>3. CASE n # 1
    <3>1. n - 1 \in 1 .. M /\ n - 1 # 0
      BY <1>1, <2>3
    <3>2. f[n - 1] = SumStep(f[(n - 1) - 1], w, T)
      BY <1>7, <3>1
    <3>3. CASE s = {}
      BY <2>1, <3>2, <3>3 DEF SumStep
    <3>4. CASE s # {}
      <4> DEFINE r == s \ {Some(s)}
      <4>1. r \in SUBSET T /\ Cardinality(r) < n - 1
        <5>1. r \in SUBSET T /\ Cardinality(r) = Cardinality(s) - 1
          BY <1>2, <3>4
        <5>2. Cardinality(s) \in 0 .. M - 1
          BY <1>1
        <5> HIDE DEF r
        <5> QED
          BY <1>1, <5>1, <5>2
      <4>2. f[n - 1][r] = f[(n - 1) - 1][r]
        BY <1>9, <3>1, <4>1
      <4> HIDE DEF r
      <4>3. f[n][s] = w[Some(s)] + f[n - 1][r] /\ f[n - 1][s] = w[Some(s)] + f[(n - 1) - 1][r]
        BY <2>1, <3>2, <3>4 DEF SumStep, r
      <4> QED
        BY <4>2, <4>3
    <3> QED
      BY <3>3, <3>4
  <2> QED
    BY <2>2, <2>3
<1>10. M \in E
  <2> HIDE DEF E
  <2>1. M \in Nat /\ M \in 0 .. M
    BY <1>1
  <2> QED
    BY <1>8, <1>9, <2>1, CountUp
<1> DEFINE g == f[M]
           h == f[M - 1]
<1>11. g \in S /\ h \in S /\ g = SumStep(h, w, T)
  <2>1. M \in 0 .. M /\ M \in 1 .. M /\ M - 1 \in Nat
    BY <1>1
  <2> QED
    BY <1>6, <1>7, <2>1
<1>12. \A s \in SUBSET T : g[s] = h[s]
  <2>1. M - 1 \in Nat /\ M # 0
    BY <1>1
  <2> QED
    BY <1>1, <1>10, <2>1
<1> HIDE DEF g, h
<1>13. g = h
  BY <1>11, <1>12 DEF S
<1> QED
  BY <1>11, <1>13 DEF S, IsSum

(* The elements can be taken in any order.                                 *)
Additive(g, w, T) ==
  /\ g \in [SUBSET T -> Int]
  /\ g[{}] = 0
  /\ \A s \in SUBSET T : \A x \in s : g[s] = w[x] + g[s \ {x}]

(* The order MapThenSumSet takes does not matter.                          *)
LEMMA SumAnyOrder ==
  ASSUME NEW T, IsFiniteSet(T), NEW w \in [T -> Int], NEW g, IsSum(g, w, T)
  PROVE  Additive(g, w, T)
<1>1. /\ DOMAIN g = SUBSET T /\ g[{}] = 0 /\ g = [s \in SUBSET T |-> g[s]]
      /\ \A s \in SUBSET T : s # {} =>
           Some(s) \in s /\ w[Some(s)] \in Int /\ g[s] = w[Some(s)] + g[s \ {Some(s)}]
  BY DEF IsSum, SumStep, Some
<1>2. \A s \in SUBSET T : g[s] \in Int
  <2> DEFINE E == {s \in SUBSET T : g[s] \in Int}
  <2>1. ASSUME NEW s \in SUBSET T, \A x \in s : s \ {x} \in E PROVE s \in E
    <3>1. CASE s = {}
      BY <1>1, <3>1
    <3>2. CASE s # {}
      <4>1. Some(s) \in s /\ w[Some(s)] \in Int /\ g[s] = w[Some(s)] + g[s \ {Some(s)}]
        BY <1>1, <3>2
      <4>2. g[s \ {Some(s)}] \in Int
        BY <2>1, <4>1
      <4> QED
        BY <4>1, <4>2
    <3> QED
      BY <3>1, <3>2
  <2>2. \A s \in SUBSET T : s \in E
    <3> HIDE DEF E
    <3> QED
      BY <2>1, Removals
  <2> QED
    BY <2>2
<1>3. \A s \in SUBSET T : \A x \in s : g[s] = w[x] + g[s \ {x}]
  <2> DEFINE E == {s \in SUBSET T : \A x \in s : g[s] = w[x] + g[s \ {x}]}
  <2>1. ASSUME NEW s \in SUBSET T, \A x \in s : s \ {x} \in E PROVE s \in E
    <3> SUFFICES ASSUME NEW x \in s PROVE g[s] = w[x] + g[s \ {x}]
      OBVIOUS
    <3> DEFINE c == Some(s)
    <3>1. c \in s /\ w[c] \in Int /\ g[s] = w[c] + g[s \ {c}]
      BY <1>1
    <3> HIDE DEF c
    <3>2. CASE x = c
      BY <3>1, <3>2
    <3>3. CASE x # c
      <4> DEFINE r == s \ {c, x}
      <4>1. /\ (s \ {c}) \ {x} = r /\ (s \ {x}) \ {c} = r
            /\ x \in s \ {c} /\ c \in s \ {x} /\ r \in SUBSET T
        BY <3>1, <3>3
      <4> HIDE DEF r
      <4>2. g[s \ {c}] = w[x] + g[r]
        BY <2>1, <3>1, <4>1
      <4>3. g[s \ {x}] = w[c] + g[r]
        BY <2>1, <3>1, <4>1
      <4>4. w[x] \in Int /\ g[r] \in Int
        BY <1>2, <4>1
      <4> QED
        BY <3>1, <4>2, <4>3, <4>4
    <3> QED
      BY <3>2, <3>3
  <2>2. \A s \in SUBSET T : s \in E
    <3> HIDE DEF E
    <3> QED
      BY <2>1, Removals
  <2> QED
    BY <2>2
<1> QED
  BY <1>1, <1>2, <1>3 DEF Additive

(* The sum over a set is the sum over its image, element for element.      *)
LEMMA SumOfImage ==
  ASSUME NEW T, IsFiniteSet(T), NEW w \in [T -> Int], NEW g, IsSum(g, w, T),
         NEW U, IsFiniteSet(U), NEW v \in [U -> Int], NEW h, IsSum(h, v, U),
         NEW b \in [T -> U], \A x, y \in T : b[x] = b[y] => x = y,
         \A x \in T : w[x] = v[b[x]]
  PROVE  \A s \in SUBSET T : g[s] = h[{b[x] : x \in s}]
<1>1. /\ g[{}] = 0 /\ \A s \in SUBSET T : \A x \in s : g[s] = w[x] + g[s \ {x}]
      /\ h[{}] = 0 /\ \A s \in SUBSET U : \A x \in s : h[s] = v[x] + h[s \ {x}]
  <2>1. Additive(g, w, T)
    BY SumAnyOrder
  <2>2. Additive(h, v, U)
    BY SumAnyOrder
  <2> QED
    BY <2>1, <2>2 DEF Additive
<1> DEFINE Img(s) == {b[x] : x \in s}
           E == {s \in SUBSET T : g[s] = h[Img(s)]}
<1>2. ASSUME NEW s \in SUBSET T, \A x \in s : s \ {x} \in E PROVE s \in E
  <2>1. CASE s = {}
    <3>1. Img(s) = {}
      BY <2>1
    <3> QED
      BY <1>1, <2>1, <3>1
  <2>2. CASE s # {}
    <3> PICK x \in s : TRUE
      BY <2>2
    <3>1. Img(s) \in SUBSET U /\ b[x] \in Img(s)
      OBVIOUS
    <3>2. Img(s \ {x}) = Img(s) \ {b[x]}
      OBVIOUS
    <3>3. g[s \ {x}] = h[Img(s \ {x})]
      BY <1>2
    <3> HIDE DEF Img
    <3>4. g[s] = w[x] + g[s \ {x}] /\ h[Img(s)] = v[b[x]] + h[Img(s) \ {b[x]}]
      BY <1>1, <3>1
    <3> QED
      BY <3>2, <3>3, <3>4
  <2> QED
    BY <2>1, <2>2
<1>3. \A s \in SUBSET T : s \in E
  <2> HIDE DEF E
  <2> QED
    BY <1>2, Removals
<1> QED
  BY <1>3

(* b pairs the elements of T with those of U, of the same weight.          *)
Pairing(b, w, v, T, U) ==
  /\ b \in [T -> U] /\ U = {b[x] : x \in T}
  /\ \A x, y \in T : b[x] = b[y] => x = y
  /\ \A x \in T : w[x] = v[b[x]]

(* Two sums over sets whose elements correspond are equal.                 *)
LEMMA SumsAgree ==
  ASSUME NEW T, IsFiniteSet(T), NEW w \in [T -> Int], NEW g, IsSum(g, w, T),
         NEW U, IsFiniteSet(U), NEW v \in [U -> Int], NEW h, IsSum(h, v, U),
         NEW b, Pairing(b, w, v, T, U)
  PROVE  g[T] = h[U] /\ g[T] \in Int
<1>1. Additive(g, w, T)
  BY SumAnyOrder
<1>2. g[T] \in Int
  BY <1>1 DEF Additive
<1>3. \A s \in SUBSET T : g[s] = h[{b[x] : x \in s}]
  BY SumOfImage DEF Pairing
<1>4. T \in SUBSET T
  OBVIOUS
<1> QED
  BY <1>2, <1>3, <1>4 DEF Pairing

-----------------------------------------------------------------------------
(* The pods that ask a node for whole GPUs, and the listed objects that    *)
(* syncPodResources charges for them.                                      *)
PlainPods(n) ==
  {q \in Pods : cache[q].state = "live" /\ cache[q].node = n /\ ~PodSpec[q].gpuRequest}

Listed(p) ==
  [key |-> p, node |-> cache[p].node, dummy |-> FALSE, owned |-> FALSE, phase |-> "running",
   gpuRequest |-> PodSpec[p].gpuRequest, gpuOther |-> cache[p].gpuid # NoId,
   cpu |-> PodSpec[p].cpu, mem |-> PodSpec[p].mem, gpus |-> PodSpec[p].gpus]

ChargedPods(n) == {p \in ListedPods : p.node = n /\ ~SkippedPod(p)}

(* Every such pod is listed and charged once, for what its manifest says.  *)
LEMMA ListedOnce ==
  ASSUME NEW n
  PROVE  /\ IsFiniteSet(PlainPods(n))
         /\ IsFiniteSet(ChargedPods(n))
         /\ ChargedPods(n) = {Listed(q) : q \in PlainPods(n)}
         /\ \A q \in PlainPods(n) :
              /\ Listed(q).key = q
              /\ Charges(Listed(q)) * Listed(q).cpu = PodSpec[q].cpu
              /\ Charges(Listed(q)) * Listed(q).mem = PodSpec[q].mem
              /\ GpusCharged(Listed(q)) = PodSpec[q].gpus
<1>1. IsFiniteSet(PlainPods(n))
  <2>1. PlainPods(n) \subseteq Pods
    BY DEF PlainPods
  <2> QED
    BY <2>1, SchedulerAssumption, FS_Subset
<1>2. ChargedPods(n) = {Listed(q) : q \in PlainPods(n)}
  <2>1. ListedPods = {Listed(q) : q \in {r \in Pods : cache[r].state = "live"}}
    BY DEF ListedPods, Listed
  <2>2. \A q \in Pods : /\ Listed(q).node = cache[q].node
                        /\ (SkippedPod(Listed(q)) <=> PodSpec[q].gpuRequest)
    BY DEF Listed, SkippedPod
  <2> QED
    BY <2>1, <2>2 DEF ChargedPods, PlainPods
<1>3. IsFiniteSet(ChargedPods(n))
  <2> DEFINE f == [q \in PlainPods(n) |-> Listed(q)]
  <2>1. f \in Surjection(PlainPods(n), ChargedPods(n))
    BY <1>2 DEF Surjection
  <2> QED
    BY <1>1, <2>1, FS_Surjection
<1>4. ASSUME NEW q \in PlainPods(n)
      PROVE  /\ Listed(q).key = q
             /\ Charges(Listed(q)) * Listed(q).cpu = PodSpec[q].cpu
             /\ Charges(Listed(q)) * Listed(q).mem = PodSpec[q].mem
             /\ GpusCharged(Listed(q)) = PodSpec[q].gpus
  <2>1. q \in Pods /\ PodSpec[q].cpu \in Int /\ PodSpec[q].mem \in Int
    BY SchedulerAssumption DEF PlainPods
  <2>2. Charges(Listed(q)) = 1 /\ GpusCharged(Listed(q)) = PodSpec[q].gpus
    BY DEF Listed, Charges, GpusCharged, Terminated
  <2>3. /\ Listed(q).key = q /\ Listed(q).cpu = PodSpec[q].cpu
        /\ Listed(q).mem = PodSpec[q].mem
    BY DEF Listed
  <2> QED
    BY <2>1, <2>2, <2>3
<1> QED
  BY <1>1, <1>2, <1>3, <1>4

(* The CPU charged for a set of listed pods is a sum.                      *)
LEMMA CpuChargedSum ==
  ASSUME NEW S, IsFiniteSet(S), NEW w \in [S -> Int], \A p \in S : w[p] = Charges(p) * p.cpu
  PROVE  \E g : IsSum(g, w, S) /\ CpuCharged(S) = g[S]
<1> DEFINE P(g) == g = [s \in SUBSET S |-> IF s = {} THEN 0
                          ELSE LET x == CHOOSE y \in s : TRUE IN Charges(x) * x.cpu + g[s \ {x}]]
<1>1. PICK f : IsSum(f, w, S)
  BY SumExists
<1>2. \A g : P(g) <=> IsSum(g, w, S)
  <2> TAKE g
  <2>1. \A s \in SUBSET S : s # {} => w[Some(s)] = Charges(Some(s)) * Some(s).cpu
    BY DEF Some
  <2> QED
    BY <2>1 DEF IsSum, SumStep, Some
<1>3. CpuCharged(S) = (CHOOSE g : P(g))[S]
  BY DEF CpuCharged, MapThenSumSet, MapThenFoldSet
<1> HIDE DEF P
<1>4. P(CHOOSE g : P(g))
  BY <1>1, <1>2
<1> QED
  BY <1>2, <1>3, <1>4

(* So is the CPU that the pods of a node ask for.                          *)
LEMMA CpuRequestedSum ==
  ASSUME NEW n, IsFiniteSet(PlainPods(n)), NEW w \in [PlainPods(n) -> Int],
         \A p \in PlainPods(n) : w[p] = PodSpec[p].cpu
  PROVE  \E g : IsSum(g, w, PlainPods(n)) /\ Requested(n, LAMBDA s : s.cpu) = g[PlainPods(n)]
<1> DEFINE S == PlainPods(n)
           P(g) == g = [s \in SUBSET S |-> IF s = {} THEN 0
                          ELSE LET x == CHOOSE y \in s : TRUE IN PodSpec[x].cpu + g[s \ {x}]]
<1>1. PICK f : IsSum(f, w, S)
  BY SumExists
<1>2. \A g : P(g) <=> IsSum(g, w, S)
  <2> TAKE g
  <2>1. \A s \in SUBSET S : s # {} => w[Some(s)] = PodSpec[Some(s)].cpu
    BY DEF Some
  <2> QED
    BY <2>1 DEF IsSum, SumStep, Some
<1>3. Requested(n, LAMBDA s : s.cpu) = (CHOOSE g : P(g))[S]
  BY DEF Requested, MapThenSumSet, MapThenFoldSet, PlainPods
<1> HIDE DEF P
<1>4. P(CHOOSE g : P(g))
  BY <1>1, <1>2
<1> QED
  BY <1>2, <1>3, <1>4

(* They agree: syncPodResources charges a node the CPU asked for.          *)
LEMMA CpuChargedIsRequested ==
  ASSUME NEW n
  PROVE  /\ CpuCharged(ChargedPods(n)) = Requested(n, LAMBDA s : s.cpu)
         /\ Requested(n, LAMBDA s : s.cpu) \in Int
<1> DEFINE T == PlainPods(n)
           U == ChargedPods(n)
           w == [q \in T |-> PodSpec[q].cpu]
           v == [p \in U |-> Charges(p) * p.cpu]
           b == [q \in T |-> Listed(q)]
<1>1. /\ IsFiniteSet(T) /\ IsFiniteSet(U) /\ U = {Listed(q) : q \in T}
      /\ \A q \in T : Listed(q).key = q
  BY ListedOnce
<1>2. \A q \in T : v[Listed(q)] = PodSpec[q].cpu /\ PodSpec[q].cpu \in Int
  <2> TAKE q \in T
  <2>1. Listed(q) \in U /\ Charges(Listed(q)) * Listed(q).cpu = PodSpec[q].cpu
    BY <1>1, ListedOnce
  <2>2. PodSpec[q].cpu \in Int
    BY SchedulerAssumption DEF PlainPods
  <2> HIDE DEF T, U
  <2> QED
    BY <2>1, <2>2
<1>3. w \in [T -> Int] /\ \A q \in T : w[q] = PodSpec[q].cpu
  BY <1>2
<1>4. v \in [U -> Int] /\ \A p \in U : v[p] = Charges(p) * p.cpu
  BY <1>1, <1>2
<1>5. /\ b \in [T -> U] /\ U = {b[q] : q \in T}
      /\ \A x, y \in T : b[x] = b[y] => x = y
  BY <1>1
<1>6. Pairing(b, w, v, T, U)
  <2>1. \A q \in T : w[q] = v[b[q]]
    BY <1>2
  <2> QED
    BY <1>5, <2>1 DEF Pairing
<1> HIDE DEF U, w, v, b
<1>7. PICK g : IsSum(g, w, T) /\ Requested(n, LAMBDA s : s.cpu) = g[T]
  BY <1>1, <1>3, CpuRequestedSum
<1> HIDE DEF T
<1>8. PICK h : IsSum(h, v, U) /\ CpuCharged(U) = h[U]
  BY <1>1, <1>4, CpuChargedSum
<1>9. g[T] = h[U] /\ g[T] \in Int
  BY <1>1, <1>3, <1>4, <1>6, <1>7, <1>8, SumsAgree
<1> QED
  BY <1>7, <1>8, <1>9 DEF U

(* The memory charged for a set of listed pods is a sum.                   *)
LEMMA MemChargedSum ==
  ASSUME NEW S, IsFiniteSet(S), NEW w \in [S -> Int], \A p \in S : w[p] = Charges(p) * p.mem
  PROVE  \E g : IsSum(g, w, S) /\ MemCharged(S) = g[S]
<1> DEFINE P(g) == g = [s \in SUBSET S |-> IF s = {} THEN 0
                          ELSE LET x == CHOOSE y \in s : TRUE IN Charges(x) * x.mem + g[s \ {x}]]
<1>1. PICK f : IsSum(f, w, S)
  BY SumExists
<1>2. \A g : P(g) <=> IsSum(g, w, S)
  <2> TAKE g
  <2>1. \A s \in SUBSET S : s # {} => w[Some(s)] = Charges(Some(s)) * Some(s).mem
    BY DEF Some
  <2> QED
    BY <2>1 DEF IsSum, SumStep, Some
<1>3. MemCharged(S) = (CHOOSE g : P(g))[S]
  BY DEF MemCharged, MapThenSumSet, MapThenFoldSet
<1> HIDE DEF P
<1>4. P(CHOOSE g : P(g))
  BY <1>1, <1>2
<1> QED
  BY <1>2, <1>3, <1>4

(* So is the memory that the pods of a node ask for.                       *)
LEMMA MemRequestedSum ==
  ASSUME NEW n, IsFiniteSet(PlainPods(n)), NEW w \in [PlainPods(n) -> Int],
         \A p \in PlainPods(n) : w[p] = PodSpec[p].mem
  PROVE  \E g : IsSum(g, w, PlainPods(n)) /\ Requested(n, LAMBDA s : s.mem) = g[PlainPods(n)]
<1> DEFINE S == PlainPods(n)
           P(g) == g = [s \in SUBSET S |-> IF s = {} THEN 0
                          ELSE LET x == CHOOSE y \in s : TRUE IN PodSpec[x].mem + g[s \ {x}]]
<1>1. PICK f : IsSum(f, w, S)
  BY SumExists
<1>2. \A g : P(g) <=> IsSum(g, w, S)
  <2> TAKE g
  <2>1. \A s \in SUBSET S : s # {} => w[Some(s)] = PodSpec[Some(s)].mem
    BY DEF Some
  <2> QED
    BY <2>1 DEF IsSum, SumStep, Some
<1>3. Requested(n, LAMBDA s : s.mem) = (CHOOSE g : P(g))[S]
  BY DEF Requested, MapThenSumSet, MapThenFoldSet, PlainPods
<1> HIDE DEF P
<1>4. P(CHOOSE g : P(g))
  BY <1>1, <1>2
<1> QED
  BY <1>2, <1>3, <1>4

(* They agree: syncPodResources charges a node the memory asked for.       *)
LEMMA MemChargedIsRequested ==
  ASSUME NEW n
  PROVE  /\ MemCharged(ChargedPods(n)) = Requested(n, LAMBDA s : s.mem)
         /\ Requested(n, LAMBDA s : s.mem) \in Int
<1> DEFINE T == PlainPods(n)
           U == ChargedPods(n)
           w == [q \in T |-> PodSpec[q].mem]
           v == [p \in U |-> Charges(p) * p.mem]
           b == [q \in T |-> Listed(q)]
<1>1. /\ IsFiniteSet(T) /\ IsFiniteSet(U) /\ U = {Listed(q) : q \in T}
      /\ \A q \in T : Listed(q).key = q
  BY ListedOnce
<1>2. \A q \in T : v[Listed(q)] = PodSpec[q].mem /\ PodSpec[q].mem \in Int
  <2> TAKE q \in T
  <2>1. Listed(q) \in U /\ Charges(Listed(q)) * Listed(q).mem = PodSpec[q].mem
    BY <1>1, ListedOnce
  <2>2. PodSpec[q].mem \in Int
    BY SchedulerAssumption DEF PlainPods
  <2> HIDE DEF T, U
  <2> QED
    BY <2>1, <2>2
<1>3. w \in [T -> Int] /\ \A q \in T : w[q] = PodSpec[q].mem
  BY <1>2
<1>4. v \in [U -> Int] /\ \A p \in U : v[p] = Charges(p) * p.mem
  BY <1>1, <1>2
<1>5. /\ b \in [T -> U] /\ U = {b[q] : q \in T}
      /\ \A x, y \in T : b[x] = b[y] => x = y
  BY <1>1
<1>6. Pairing(b, w, v, T, U)
  <2>1. \A q \in T : w[q] = v[b[q]]
    BY <1>2
  <2> QED
    BY <1>5, <2>1 DEF Pairing
<1> HIDE DEF U, w, v, b
<1>7. PICK g : IsSum(g, w, T) /\ Requested(n, LAMBDA s : s.mem) = g[T]
  BY <1>1, <1>3, MemRequestedSum
<1> HIDE DEF T
<1>8. PICK h : IsSum(h, v, U) /\ MemCharged(U) = h[U]
  BY <1>1, <1>4, MemChargedSum
<1>9. g[T] = h[U] /\ g[T] \in Int
  BY <1>1, <1>3, <1>4, <1>6, <1>7, <1>8, SumsAgree
<1> QED
  BY <1>7, <1>8, <1>9 DEF U

(* The GPUs charged for a set of listed pods is a sum.                     *)
LEMMA GpusChargedSum ==
  ASSUME NEW S, IsFiniteSet(S), NEW w \in [S -> Int], \A p \in S : w[p] = GpusCharged(p)
  PROVE  \E g : IsSum(g, w, S) /\ CountCharged(S) = g[S]
<1> DEFINE P(g) == g = [s \in SUBSET S |-> IF s = {} THEN 0
                          ELSE LET x == CHOOSE y \in s : TRUE IN GpusCharged(x) + g[s \ {x}]]
<1>1. PICK f : IsSum(f, w, S)
  BY SumExists
<1>2. \A g : P(g) <=> IsSum(g, w, S)
  <2> TAKE g
  <2>1. \A s \in SUBSET S : s # {} => w[Some(s)] = GpusCharged(Some(s))
    BY DEF Some
  <2>2. \A s \in SUBSET S :
          (IF s = {} THEN 0 ELSE LET x == CHOOSE y \in s : TRUE IN GpusCharged(x) + g[s \ {x}])
            = (IF s = {} THEN 0 ELSE w[Some(s)] + g[s \ {Some(s)}])
    BY <2>1 DEF Some
  <2> QED
    BY <2>2 DEF IsSum, SumStep
<1>3. CountCharged(S) = (CHOOSE g : P(g))[S]
  BY DEF CountCharged, MapThenSumSet, MapThenFoldSet
<1> HIDE DEF P
<1>4. P(CHOOSE g : P(g))
  BY <1>1, <1>2
<1> QED
  BY <1>2, <1>3, <1>4

(* So is the GPUs that the pods of a node ask for.                         *)
LEMMA GpusRequestedSum ==
  ASSUME NEW n, IsFiniteSet(PlainPods(n)), NEW w \in [PlainPods(n) -> Int],
         \A p \in PlainPods(n) : w[p] = PodSpec[p].gpus
  PROVE  \E g : IsSum(g, w, PlainPods(n)) /\ Requested(n, LAMBDA s : s.gpus) = g[PlainPods(n)]
<1> DEFINE S == PlainPods(n)
           P(g) == g = [s \in SUBSET S |-> IF s = {} THEN 0
                          ELSE LET x == CHOOSE y \in s : TRUE IN PodSpec[x].gpus + g[s \ {x}]]
<1>1. PICK f : IsSum(f, w, S)
  BY SumExists
<1>2. \A g : P(g) <=> IsSum(g, w, S)
  <2> TAKE g
  <2>1. \A s \in SUBSET S : s # {} => w[Some(s)] = PodSpec[Some(s)].gpus
    BY DEF Some
  <2> QED
    BY <2>1 DEF IsSum, SumStep, Some
<1>3. Requested(n, LAMBDA s : s.gpus) = (CHOOSE g : P(g))[S]
  BY DEF Requested, MapThenSumSet, MapThenFoldSet, PlainPods
<1> HIDE DEF P
<1>4. P(CHOOSE g : P(g))
  BY <1>1, <1>2
<1> QED
  BY <1>2, <1>3, <1>4

(* They agree: syncPodResources charges a node the GPUs asked for.         *)
LEMMA GpusChargedIsRequested ==
  ASSUME NEW n
  PROVE  /\ CountCharged(ChargedPods(n)) = Requested(n, LAMBDA s : s.gpus)
         /\ Requested(n, LAMBDA s : s.gpus) \in Int
<1> DEFINE T == PlainPods(n)
           U == ChargedPods(n)
           w == [q \in T |-> PodSpec[q].gpus]
           v == [p \in U |-> GpusCharged(p)]
           b == [q \in T |-> Listed(q)]
<1>1. /\ IsFiniteSet(T) /\ IsFiniteSet(U) /\ U = {Listed(q) : q \in T}
      /\ \A q \in T : Listed(q).key = q
  BY ListedOnce
<1>2. \A q \in T : v[Listed(q)] = PodSpec[q].gpus /\ PodSpec[q].gpus \in Int
  <2> TAKE q \in T
  <2>1. Listed(q) \in U /\ GpusCharged(Listed(q)) = PodSpec[q].gpus
    BY <1>1, ListedOnce
  <2>2. PodSpec[q].gpus \in Int
    BY SchedulerAssumption DEF PlainPods
  <2> HIDE DEF T, U
  <2> QED
    BY <2>1, <2>2
<1>3. w \in [T -> Int] /\ \A q \in T : w[q] = PodSpec[q].gpus
  BY <1>2
<1>4. v \in [U -> Int] /\ \A p \in U : v[p] = GpusCharged(p)
  BY <1>1, <1>2
<1>5. /\ b \in [T -> U] /\ U = {b[q] : q \in T}
      /\ \A x, y \in T : b[x] = b[y] => x = y
  BY <1>1
<1>6. Pairing(b, w, v, T, U)
  <2>1. \A q \in T : w[q] = v[b[q]]
    BY <1>2
  <2> QED
    BY <1>5, <2>1 DEF Pairing
<1> HIDE DEF U, w, v, b
<1>7. PICK g : IsSum(g, w, T) /\ Requested(n, LAMBDA s : s.gpus) = g[T]
  BY <1>1, <1>3, GpusRequestedSum
<1> HIDE DEF T
<1>8. PICK h : IsSum(h, v, U) /\ CountCharged(U) = h[U]
  BY <1>1, <1>4, GpusChargedSum
<1>9. g[T] = h[U] /\ g[T] \in Int
  BY <1>1, <1>3, <1>4, <1>6, <1>7, <1>8, SumsAgree
<1> QED
  BY <1>7, <1>8, <1>9 DEF U

-----------------------------------------------------------------------------
(* The placement: what comes out of scheduleSharePod has the right type.   *)

(* No GPUID is in the map that syncClusterResources builds.                *)
LEMMA NoGpuInMap ==
  /\ DOMAIN ClusterResources \subseteq Nodes
  /\ \A n \in DOMAIN ClusterResources :
       "gpus" \in DOMAIN ClusterResources[n] /\ DOMAIN ClusterResources[n].gpus = {}
<1> DEFINE res == SyncNodes(ListedNodes)
<1>1. DOMAIN res \subseteq Nodes
  BY DEF SyncNodes, ListedNodes
<1>2. \A n \in DOMAIN res : "gpus" \in DOMAIN res[n] /\ DOMAIN res[n].gpus = {}
  BY DEF SyncNodes
<1> HIDE DEF res
<1>3. /\ DOMAIN SyncPods(res, ListedPods) = DOMAIN res
      /\ \A n \in DOMAIN res :
           /\ "gpus" \in DOMAIN SyncPods(res, ListedPods)[n]
           /\ DOMAIN SyncPods(res, ListedPods)[n].gpus = DOMAIN res[n].gpus
  BY <1>2 DEF SyncPods
<1> QED
  BY <1>1, <1>2, <1>3 DEF ClusterResources, res

(* The filters do not add a GPU to a node.                                 *)
LEMMA FilteredEmpty ==
  ASSUME NEW node, NEW pod, NEW r \in Filtered(node, pod),
         "gpus" \in DOMAIN node, DOMAIN node.gpus = {}
  PROVE  DOMAIN r.gpus = {}
<1> DEFINE tagged == GPUAntiAffinityFilter(GPUAffinityFilter(node.gpus, pod.affinity), pod.antiAffinity)
<1>1. DOMAIN tagged = {}
  BY DEF GPUAntiAffinityFilter, GPUAffinityFilter, Restrict
<1>2. PICK g \in GPUExclusionFilter(tagged, pod.exclusion) : r = [node EXCEPT !.gpus = g]
  BY DEF Filtered
<1> HIDE DEF tagged
<1>3. DOMAIN g = {}
  BY <1>1 DEF GPUExclusionFilter, Restrict
<1> QED
  BY <1>2, <1>3

(* A pod is placed on a node of the cluster with a GPUID made up for it.   *)
LEMMA PlacementType ==
  ASSUME NEW p, NEW c \in Placements(p), c # Nowhere
  PROVE  c.node \in Nodes /\ c.gpuid = FreshId
<1> DEFINE res == ClusterResources
           pod == PodSpec[p]
<1>1. PICK f \in [DOMAIN res -> UNION {Filtered(res[n], pod) : n \in DOMAIN res}] :
        /\ \A n \in DOMAIN res : f[n] \in Filtered(res[n], pod)
        /\ c \in BestFitOutcomes(f, pod)
  BY DEF Placements, ScheduleOutcomes
<1>2. DOMAIN f \subseteq Nodes /\ \A n \in DOMAIN f : DOMAIN f[n].gpus = {}
  BY <1>1, NoGpuInMap, FilteredEmpty
<1>3. PICK n \in DOMAIN f : \E y \in NodeCandidates(n, f[n], pod) :
        c = [node |-> y.node, gpuid |-> y.gpuid]
  BY <1>1 DEF BestFitOutcomes, Nowhere
<1>6. PICK x \in NodeCandidates(n, f[n], pod) : c = [node |-> x.node, gpuid |-> x.gpuid]
  BY <1>3
<1>4. Holes(f[n], pod) = {}
  BY <1>2 DEF Holes
<1>5. x.node = n /\ x.gpuid = FreshId
  BY <1>4 DEF NodeCandidates
<1> QED
  BY <1>2, <1>6, <1>5

(* What the lister says of a node.                                         *)
ListedNode(n) ==
  [name |-> n, tainted |-> nodes[n] = "tainted", cpu |-> NodeSpec[n].cpu,
   mem |-> NodeSpec[n].mem, gpus |-> NodeSpec[n].gpus]

(* Every node the informer has seen is listed once.                        *)
LEMMA NodesListed ==
  /\ ListedNodes = {ListedNode(n) : n \in {m \in Nodes : nodes[m] # "absent"}}
  /\ \A n \in Nodes : /\ ListedNode(n).name = n
                      /\ ListedNode(n).tainted <=> nodes[n] = "tainted"
                      /\ ListedNode(n).cpu = NodeSpec[n].cpu
                      /\ ListedNode(n).mem = NodeSpec[n].mem
                      /\ ListedNode(n).gpus = NodeSpec[n].gpus
BY DEF ListedNodes, ListedNode

(* What syncClusterResources leaves of a node: what it can allocate less   *)
(* what the pods without a GPUID of their own ask for.                     *)
LEMMA WhatIsLeft ==
  /\ DOMAIN ClusterResources = {n \in Nodes : nodes[n] # "absent"}
  /\ \A n \in DOMAIN ClusterResources :
       /\ {"cpu", "mem", "count", "gpus"} \subseteq DOMAIN ClusterResources[n]
       /\ ClusterResources[n].cpu = NodeSpec[n].cpu - Requested(n, LAMBDA s : s.cpu)
       /\ ClusterResources[n].mem = NodeSpec[n].mem - Requested(n, LAMBDA s : s.mem)
       /\ ClusterResources[n].count = NodeSpec[n].gpus - Requested(n, LAMBDA s : s.gpus)
<1> DEFINE res == SyncNodes(ListedNodes)
           there == {n \in Nodes : nodes[n] # "absent"}
<1>1. DOMAIN res = there
  <2>1. DOMAIN res = {y.name : y \in ListedNodes}
    BY DEF SyncNodes
  <2> QED
    BY <2>1, NodesListed
<1>2. \A n \in there :
        res[n] = [cpu |-> NodeSpec[n].cpu, mem |-> NodeSpec[n].mem, count |-> NodeSpec[n].gpus,
                  gpus |-> <<>>]
  <2> TAKE n \in there
  <2> DEFINE x == CHOOSE y \in ListedNodes : y.name = n
  <2>1. \E y \in ListedNodes : y.name = n
    BY NodesListed
  <2>2. x \in ListedNodes /\ x.name = n
    BY <2>1
  <2> HIDE DEF x
  <2>3. x.cpu = NodeSpec[n].cpu /\ x.mem = NodeSpec[n].mem /\ x.gpus = NodeSpec[n].gpus
    BY <2>2, NodesListed
  <2>4. res[n] = [cpu |-> x.cpu, mem |-> x.mem, count |-> x.gpus, gpus |-> <<>>]
    BY <1>1 DEF SyncNodes, x
  <2> QED
    BY <2>3, <2>4
<1> HIDE DEF res
<1>3. /\ DOMAIN ClusterResources = there
      /\ \A n \in there :
           ClusterResources[n] =
             [res[n] EXCEPT !.cpu = @ - CpuCharged(ChargedPods(n)),
                            !.mem = @ - MemCharged(ChargedPods(n)),
                            !.count = @ - CountCharged(ChargedPods(n))]
  BY <1>1 DEF ClusterResources, SyncPods, ChargedPods, res
<1>4. ASSUME NEW n \in there
      PROVE  /\ {"cpu", "mem", "count", "gpus"} \subseteq DOMAIN ClusterResources[n]
             /\ ClusterResources[n].cpu = NodeSpec[n].cpu - CpuCharged(ChargedPods(n))
             /\ ClusterResources[n].mem = NodeSpec[n].mem - MemCharged(ChargedPods(n))
             /\ ClusterResources[n].count = NodeSpec[n].gpus - CountCharged(ChargedPods(n))
  <2> DEFINE c == CpuCharged(ChargedPods(n))
             m == MemCharged(ChargedPods(n))
             k == CountCharged(ChargedPods(n))
  <2>1. /\ DOMAIN res[n] = {"cpu", "mem", "count", "gpus"}
        /\ res[n].cpu = NodeSpec[n].cpu /\ res[n].mem = NodeSpec[n].mem
        /\ res[n].count = NodeSpec[n].gpus
    <3>1. res[n] = [cpu |-> NodeSpec[n].cpu, mem |-> NodeSpec[n].mem, count |-> NodeSpec[n].gpus,
                    gpus |-> <<>>]
      BY <1>2
    <3> QED
      BY <3>1
  <2>2. ClusterResources[n] =
          [res[n] EXCEPT !.cpu = res[n].cpu - c, !.mem = res[n].mem - m, !.count = res[n].count - k]
    BY <1>3
  <2> HIDE DEF c, m, k
  <2>3. /\ {"cpu", "mem", "count", "gpus"} \subseteq DOMAIN ClusterResources[n]
        /\ ClusterResources[n].cpu = NodeSpec[n].cpu - c
        /\ ClusterResources[n].mem = NodeSpec[n].mem - m
        /\ ClusterResources[n].count = NodeSpec[n].gpus - k
    BY <2>1, <2>2
  <2> QED
    BY <2>3 DEF c, m, k
<1> HIDE DEF there
<1>5. ASSUME NEW n \in there
      PROVE  /\ ClusterResources[n].cpu = NodeSpec[n].cpu - Requested(n, LAMBDA s : s.cpu)
             /\ ClusterResources[n].mem = NodeSpec[n].mem - Requested(n, LAMBDA s : s.mem)
             /\ ClusterResources[n].count = NodeSpec[n].gpus - Requested(n, LAMBDA s : s.gpus)
  BY <1>4, CpuChargedIsRequested, MemChargedIsRequested, GpusChargedIsRequested
<1> QED
  BY <1>3, <1>4, <1>5 DEF there

(* A node is a candidate exactly when it has room: its CPU, its memory and *)
(* a GPU that no pod asked for.                                            *)
LEMMA CandidateFits ==
  ASSUME NEW p \in Pods, NEW n \in DOMAIN ClusterResources, nodes[n] = "ready",
         NEW r \in Filtered(ClusterResources[n], PodSpec[p])
  PROVE  NodeCandidates(n, r, PodSpec[p]) # {} <=> Fits(p, n)
<1> DEFINE c == ClusterResources[n]
           pod == PodSpec[p]
           cpu == Requested(n, LAMBDA s : s.cpu)
           mem == Requested(n, LAMBDA s : s.mem)
           gpus == Requested(n, LAMBDA s : s.gpus)
<1>1. n \in Nodes /\ "gpus" \in DOMAIN c /\ DOMAIN c.gpus = {}
  BY WhatIsLeft, NoGpuInMap
<1>2. DOMAIN r.gpus = {}
  BY <1>1, FilteredEmpty
<1>3. r.cpu = c.cpu /\ r.mem = c.mem /\ r.count = c.count
  <2>1. {"cpu", "mem", "count", "gpus"} \subseteq DOMAIN c
    BY WhatIsLeft
  <2>2. PICK g : r = [c EXCEPT !.gpus = g]
    BY DEF Filtered
  <2> HIDE DEF c
  <2> QED
    BY <2>1, <2>2
<1>4. /\ c.cpu = NodeSpec[n].cpu - cpu
      /\ c.mem = NodeSpec[n].mem - mem
      /\ c.count = NodeSpec[n].gpus - gpus
  BY WhatIsLeft
<1>5. cpu \in Int /\ mem \in Int /\ gpus \in Int
  BY CpuChargedIsRequested, MemChargedIsRequested, GpusChargedIsRequested
<1>6. /\ pod.cpu \in Int /\ pod.mem \in Int
      /\ NodeSpec[n].cpu \in Int /\ NodeSpec[n].mem \in Int /\ NodeSpec[n].gpus \in Int
  BY <1>1, SchedulerAssumption
<1>7. Fits(p, n) <=> /\ cpu + pod.cpu <= NodeSpec[n].cpu
                     /\ mem + pod.mem <= NodeSpec[n].mem
                     /\ gpus < NodeSpec[n].gpus
  BY DEF Fits
<1>8. NodeCandidates(n, r, pod) # {} <=> ~(r.cpu < pod.cpu \/ r.mem < pod.mem) /\ r.count > 0
  <2>1. Holes(r, pod) = {}
    BY <1>2 DEF Holes
  <2>2. NodeCandidates(n, r, pod) =
          IF r.cpu < pod.cpu \/ r.mem < pod.mem \/ ~(r.count > 0) THEN {}
          ELSE {[node |-> n, gpuid |-> FreshId, point |-> 1000 - pod.req]}
    BY <2>1 DEF NodeCandidates
  <2> DEFINE fresh == [node |-> n, gpuid |-> FreshId, point |-> 1000 - pod.req]
             short == r.cpu < pod.cpu \/ r.mem < pod.mem \/ ~(r.count > 0)
  <2>3. NodeCandidates(n, r, pod) = IF short THEN {} ELSE {fresh}
    BY <2>2
  <2> HIDE DEF fresh, short
  <2>4. NodeCandidates(n, r, pod) # {} <=> ~short
    BY <2>3
  <2> QED
    BY <2>4 DEF short
<1> HIDE DEF c, pod, cpu, mem, gpus
<1> QED
  BY <1>3, <1>4, <1>5, <1>6, <1>7, <1>8 DEF pod

(* scheduleSharePod, once it knows of no tainted node, places a pod where  *)
(* it fits, and nowhere only if it fits nowhere.                           *)
LEMMA PlacementFits ==
  ASSUME NEW p \in Pods, ~SyncNodesBlocks(ListedNodes), nodes \in [Nodes -> NodeStates]
  PROVE  /\ \A c \in Placements(p) \ {Nowhere} : Fits(p, c.node)
         /\ Nowhere \in Placements(p) => \A n \in Nodes : ~Fits(p, n)
<1> DEFINE res == ClusterResources
           pod == PodSpec[p]
<1>1. DOMAIN res = {n \in Nodes : nodes[n] = "ready"}
  <2>1. \A n \in Nodes : nodes[n] # "tainted"
    BY NodesListed DEF SyncNodesBlocks
  <2> QED
    BY <2>1, WhatIsLeft, SchedulerAssumption
<1>2. ASSUME NEW c \in Placements(p)
      PROVE  \E f : /\ DOMAIN f = DOMAIN res
                    /\ \A n \in DOMAIN res : f[n] \in Filtered(res[n], pod)
                    /\ c \in BestFitOutcomes(f, pod)
  BY DEF Placements, ScheduleOutcomes
<1>3. ASSUME NEW c \in Placements(p), c # Nowhere PROVE Fits(p, c.node)
  <2>1. PICK f : /\ DOMAIN f = DOMAIN res
                 /\ \A n \in DOMAIN res : f[n] \in Filtered(res[n], pod)
                 /\ c \in BestFitOutcomes(f, pod)
    BY <1>2
  <2>2. PICK n \in DOMAIN f : \E y \in NodeCandidates(n, f[n], pod) :
          c = [node |-> y.node, gpuid |-> y.gpuid]
    BY <1>3, <2>1 DEF BestFitOutcomes
  <2>3. \A y \in NodeCandidates(n, f[n], pod) : y.node = n
    BY DEF NodeCandidates
  <2>4. c.node = n /\ NodeCandidates(n, f[n], pod) # {}
    BY <2>2, <2>3
  <2> QED
    BY <1>1, <2>1, <2>4, CandidateFits
<1>4. ASSUME Nowhere \in Placements(p), NEW n \in Nodes, Fits(p, n) PROVE FALSE
  <2>1. PICK f : /\ DOMAIN f = DOMAIN res
                 /\ \A m \in DOMAIN res : f[m] \in Filtered(res[m], pod)
                 /\ Nowhere \in BestFitOutcomes(f, pod)
    BY <1>2, <1>4
  <2>2. n \in DOMAIN res /\ nodes[n] = "ready"
    BY <1>1, <1>4 DEF Fits
  <2>3. NodeCandidates(n, f[n], pod) # {}
    BY <1>4, <2>1, <2>2, CandidateFits
  <2>4. PICK m \in DOMAIN f : \E y \in NodeCandidates(m, f[m], pod) :
          Nowhere = [node |-> y.node, gpuid |-> y.gpuid]
    BY <2>1, <2>2, <2>3 DEF BestFitOutcomes
  <2>5. \A y \in NodeCandidates(m, f[m], pod) : y.node = m
    BY DEF NodeCandidates
  <2>6. m = NoNode
    BY <2>4, <2>5 DEF Nowhere
  <2> QED
    BY <1>1, <2>1, <2>6, SchedulerAssumption
<1> QED
  BY <1>3, <1>4

-----------------------------------------------------------------------------
(* The steps that leave queue, list and worker alone: pods and nodes come, *)
(* change and go, and the informer follows.                                *)

(* Where keys are depends on four variables.                               *)
LEMMA SameHolders ==
  ASSUME UNCHANGED <<wq, pending, walk, worker>>
  PROVE  /\ QueueConsistent => QueueConsistent'
         /\ \A p \in Pods : InList(p)' = InList(p) /\ InHand(p)' = InHand(p)
<1>1. QueueConsistent => QueueConsistent'
  BY DEF QueueConsistent
<1>2. \A p \in Pods : InList(p)' = InList(p)
  BY DEF InList
<1>3. \A p \in Pods : InHand(p)' = InHand(p)
  BY DEF InHand
<1> QED
  BY <1>1, <1>2, <1>3

(* Counting one more environment fault keeps the counters' type.           *)
LEMMA FaultsType ==
  ASSUME NEW f \in [patch : Nat, reply : Nat, node : Nat, restart : Nat]
  PROVE  /\ [f EXCEPT !.patch = @ + 1] \in [patch : Nat, reply : Nat, node : Nat, restart : Nat]
         /\ [f EXCEPT !.reply = @ + 1] \in [patch : Nat, reply : Nat, node : Nat, restart : Nat]
         /\ [f EXCEPT !.node = @ + 1] \in [patch : Nat, reply : Nat, node : Nat, restart : Nat]
         /\ [f EXCEPT !.restart = @ + 1] \in [patch : Nat, reply : Nat, node : Nat, restart : Nat]
OBVIOUS

(* CreatePod keeps the invariant: the cache knows nothing of the new pod.  *)
LEMMA CreatePodKeeps ==
  ASSUME IInv, NEW p \in Pods, CreatePod(p)
  PROVE  IInv'
<1> USE DEF IInv, CreatePod, listVars
<1>1. TypeOK'
  BY DEF TypeOK, PodStates
<1>2. CacheBehind'
  BY DEF CacheBehind, TypeOK, PodStates
<1>3. QueueConsistent' /\ \A q \in Pods : InList(q)' = InList(q) /\ InHand(q)' = InHand(q)
  BY SameHolders
<1>4. Tokens' /\ IsInjective(pending)'
  BY <1>3 DEF Tokens, Excl
<1>5. NoLost' /\ Unseen'
  BY <1>3 DEF NoLost, Unseen, Waiting, Held, CacheBehind, TypeOK, PodStates
<1>6. Settled'
  BY <1>3 DEF Settled, Held, TypeOK, PodStates
<1> QED
  BY <1>6, <1>1, <1>2, <1>3, <1>4, <1>5

(* DeletePod keeps it: the pod stops waiting.                              *)
LEMMA DeletePodKeeps ==
  ASSUME IInv, NEW p \in Pods, DeletePod(p)
  PROVE  IInv'
<1> USE DEF IInv, DeletePod, listVars
<1>1. TypeOK'
  BY DEF TypeOK, PodStates
<1>2. CacheBehind'
  BY DEF CacheBehind, TypeOK, PodStates
<1>3. QueueConsistent' /\ \A q \in Pods : InList(q)' = InList(q) /\ InHand(q)' = InHand(q)
  BY SameHolders
<1>4. Tokens' /\ IsInjective(pending)'
  BY <1>3 DEF Tokens, Excl
<1>5. NoLost' /\ Unseen'
  BY <1>3 DEF NoLost, Unseen, Waiting, Held, TypeOK, PodStates
<1>6. Settled'
  BY <1>3 DEF Settled, Held, TypeOK, PodStates
<1> QED
  BY <1>6, <1>1, <1>2, <1>3, <1>4, <1>5

(* DefaultBind keeps it: a bound pod waits no longer.                      *)
LEMMA DefaultBindKeeps ==
  ASSUME IInv, NEW p \in Pods, NEW n \in Nodes, DefaultBind(p, n)
  PROVE  IInv'
<1> USE DEF IInv, DefaultBind, listVars
<1>1. TypeOK'
  <2>1. [api[p] EXCEPT !.node = n] \in PodStates
    BY DEF TypeOK, PodStates
  <2> QED
    BY <2>1 DEF TypeOK
<1>2. CacheBehind'
  BY SchedulerAssumption DEF CacheBehind, TypeOK, PodStates
<1>3. QueueConsistent' /\ \A q \in Pods : InList(q)' = InList(q) /\ InHand(q)' = InHand(q)
  BY SameHolders
<1>4. Tokens' /\ IsInjective(pending)'
  BY <1>3 DEF Tokens, Excl
<1>5. NoLost' /\ Unseen'
  BY <1>3, SchedulerAssumption DEF NoLost, Unseen, Waiting, Held, TypeOK, PodStates
<1>6. Settled'
  BY <1>3, SchedulerAssumption DEF Settled, Held, TypeOK, PodStates, CacheBehind
<1> QED
  BY <1>6, <1>1, <1>2, <1>3, <1>4, <1>5

(* Watch keeps it: the key of a pod seen for the first time was nowhere    *)
(* and is owed an AddFunc call.                                            *)
LEMMA WatchKeeps ==
  ASSUME IInv, NEW p \in Pods, Watch(p)
  PROVE  IInv'
<1> USE DEF IInv, Watch, listVars
<1>1. TypeOK'
  BY DEF TypeOK, PodStates
<1>2. CacheBehind'
  BY DEF CacheBehind, TypeOK, PodStates
<1>3. QueueConsistent' /\ \A q \in Pods : InList(q)' = InList(q) /\ InHand(q)' = InHand(q)
  BY SameHolders
<1>4. Tokens' /\ IsInjective(pending)'
  BY <1>3 DEF Tokens, Excl, Unseen, Held
<1>5. \A q \in Pods : Held(q) => Held(q)'
  BY <1>3 DEF Held
<1>6. cache[p].state = "none" => Held(p)'
  BY DEF Held
<1>7. NoLost'
  BY <1>5, <1>6 DEF NoLost, Waiting, TypeOK, PodStates, CacheBehind
<1>8. Unseen'
  BY <1>3 DEF Unseen, Held, TypeOK, PodStates, CacheBehind
<1>9. Settled'
  BY <1>3 DEF Settled, Held, TypeOK, PodStates, CacheBehind
<1> QED
  BY <1>9, <1>1, <1>2, <1>3, <1>4, <1>7, <1>8

(* WatchNode keeps it: nothing here depends on the nodes.                  *)
LEMMA WatchNodeKeeps ==
  ASSUME IInv, NEW n \in Nodes, NEW s \in NodeStates, WatchNode(n, s)
  PROVE  IInv'
<1> USE DEF IInv, WatchNode, listVars
<1>1. TypeOK'
  BY FaultsType DEF TypeOK
<1>2. CacheBehind'
  BY DEF CacheBehind
<1>3. QueueConsistent' /\ \A q \in Pods : InList(q)' = InList(q) /\ InHand(q)' = InHand(q)
  BY SameHolders
<1>4. Tokens' /\ IsInjective(pending)'
  BY <1>3 DEF Tokens, Excl
<1>5. NoLost' /\ Unseen'
  BY <1>3 DEF NoLost, Unseen, Waiting, Held
<1>6. Settled'
  BY <1>3 DEF Settled, Held
<1> QED
  BY <1>6, <1>1, <1>2, <1>3, <1>4, <1>5

-----------------------------------------------------------------------------
(* The handlers, the ticker and the timers hand keys over.                 *)

(* NoticeAdd keeps the invariant: the owed call becomes a dirty key.       *)
LEMMA NoticeAddKeeps ==
  ASSUME IInv, NEW p \in Pods, NoticeAdd(p)
  PROVE  IInv'
<1> USE DEF IInv, NoticeAdd, listVars
<1>1. /\ wq' \in QueueType(Pods) /\ Consistent(wq')
      /\ wq'.dirty = wq.dirty \cup {p}
      /\ wq'.processing = wq.processing /\ wq'.delayed = wq.delayed
  BY AddFacts DEF TypeOK, QueueConsistent
<1>2. TypeOK'
  BY <1>1 DEF TypeOK
<1>3. CacheBehind'
  BY DEF CacheBehind
<1>4. QueueConsistent'
  BY <1>1 DEF QueueConsistent
<1>5. \A q \in Pods : InList(q)' = InList(q) /\ InHand(q)' = InHand(q)
  BY DEF InList, InHand
<1>6. Tokens' /\ IsInjective(pending)'
  BY <1>1, <1>5 DEF Tokens, Excl
<1>7. \A q \in Pods : Held(q)' = Held(q)
  BY <1>1, <1>5 DEF Held
<1>8. NoLost' /\ Unseen'
  BY <1>7 DEF NoLost, Unseen, Waiting
<1>9. Settled'
  BY <1>7 DEF Settled
<1> QED
  BY <1>9, <1>2, <1>3, <1>4, <1>6, <1>8

(* Timer keeps it: the held-back key becomes a dirty key.                  *)
LEMMA TimerKeeps ==
  ASSUME IInv, NEW p \in Pods, Timer(p)
  PROVE  IInv'
<1> USE DEF IInv, Timer, listVars, apiVars
<1>1. /\ wq' \in QueueType(Pods) /\ Consistent(wq')
      /\ wq'.dirty = wq.dirty \cup {p}
      /\ wq'.processing = wq.processing /\ wq'.delayed = wq.delayed \ {p}
  BY FireFacts DEF TypeOK, QueueConsistent
<1>2. TypeOK'
  BY <1>1 DEF TypeOK
<1>3. CacheBehind'
  BY DEF CacheBehind
<1>4. QueueConsistent'
  BY <1>1 DEF QueueConsistent
<1>5. \A q \in Pods : InList(q)' = InList(q) /\ InHand(q)' = InHand(q)
  BY DEF InList, InHand
<1>6. Tokens' /\ IsInjective(pending)'
  BY <1>1, <1>5 DEF Tokens, Excl
<1>7. \A q \in Pods : Held(q)' = Held(q)
  BY <1>1, <1>5 DEF Held
<1>8. NoLost' /\ Unseen'
  BY <1>7 DEF NoLost, Unseen, Waiting
<1>9. Settled'
  BY <1>7 DEF Settled
<1> QED
  BY <1>9, <1>2, <1>3, <1>4, <1>6, <1>8

(* Taking the list's mutex keeps it: the walk starts before every entry.   *)
LEMMA LockKeeps ==
  ASSUME IInv, NoticeDelete \/ Tick
  PROVE  IInv'
<1> USE DEF IInv, NoticeDelete, Tick, apiVars, MutexFree
<1>1. /\ walk = -1 /\ walk' = 0 /\ deleteNotice' \in BOOLEAN
      /\ UNCHANGED <<api, cache, addNotices, nodes, wq, pending, worker>>
  BY DEF TypeOK
<1>2. TypeOK'
  BY <1>1 DEF TypeOK
<1>3. CacheBehind'
  BY <1>1 DEF CacheBehind
<1>4. QueueConsistent'
  BY <1>1 DEF QueueConsistent
<1>5. \A q \in Pods : InList(q)' = InList(q) /\ InHand(q)' = InHand(q)
  BY <1>1 DEF InList, InHand
<1>6. Tokens' /\ IsInjective(pending)'
  BY <1>1, <1>5 DEF Tokens, Excl
<1>7. \A q \in Pods : Held(q)' = Held(q)
  BY <1>1, <1>5 DEF Held
<1>8. NoLost' /\ Unseen'
  BY <1>1, <1>7 DEF NoLost, Unseen, Waiting
<1>9. Settled'
  BY <1>1, <1>7 DEF Settled
<1> QED
  BY <1>9, <1>2, <1>3, <1>4, <1>6, <1>8

(* PutBack keeps it: the entry at the walk's position becomes a dirty key; *)
(* it is not in the list a second time.                                    *)
LEMMA PutBackKeeps ==
  ASSUME IInv, PutBack
  PROVE  IInv'
<1> USE DEF IInv, PutBack, apiVars
<1>1. walk \in Nat /\ walk + 1 \in 1 .. Len(pending) /\ Len(pending) \in Nat
  BY DEF TypeOK
<1> PICK p \in Pods : p = pending[walk + 1]
  BY <1>1 DEF TypeOK
<1>2. /\ wq' \in QueueType(Pods) /\ Consistent(wq')
      /\ wq'.dirty = wq.dirty \cup {p}
      /\ wq'.processing = wq.processing /\ wq'.delayed = wq.delayed
  BY <1>1, AddFacts DEF TypeOK, QueueConsistent
<1>3. TypeOK'
  BY <1>1, <1>2 DEF TypeOK
<1>4. CacheBehind'
  BY DEF CacheBehind
<1>5. QueueConsistent'
  BY <1>2 DEF QueueConsistent
<1>6. /\ InList(p) /\ ~InList(p)'
      /\ \A q \in Pods \ {p} : InList(q)' = InList(q)
  <2>1. DOMAIN pending = 1 .. Len(pending)
    BY DEF TypeOK
  <2>2. \A i \in 1 .. Len(pending) : pending[i] = p => i = walk + 1
    BY <2>1, <1>1 DEF IsInjective
  <2> QED
    BY <2>2, <1>1 DEF InList
<1>7. \A q \in Pods : InHand(q)' = InHand(q)
  BY DEF InHand
<1>8. Tokens' /\ IsInjective(pending)'
  BY <1>1, <1>2, <1>6, <1>7 DEF Tokens, Excl
<1>9. \A q \in Pods : Held(q)' = Held(q)
  BY <1>2, <1>6, <1>7 DEF Held
<1>10. NoLost' /\ Unseen'
  BY <1>9 DEF NoLost, Unseen, Waiting
<1>11. Settled'
  BY <1>9 DEF Settled
<1> QED
  BY <1>11, <1>3, <1>4, <1>5, <1>8, <1>10

(* ClearList keeps it: no entry is left that was not put back.             *)
LEMMA ClearListKeeps ==
  ASSUME IInv, ClearList
  PROVE  IInv'
<1> USE DEF IInv, ClearList, apiVars
<1>1. TypeOK'
  BY DEF TypeOK
<1>2. CacheBehind'
  BY DEF CacheBehind
<1>3. QueueConsistent'
  BY DEF QueueConsistent
<1>4. \A q \in Pods : ~InList(q) /\ ~InList(q)' /\ InHand(q)' = InHand(q)
  BY DEF InList, InHand, TypeOK
<1>5. IsInjective(pending')
  BY DEF IsInjective
<1>6. Tokens'
  BY <1>4 DEF Tokens, Excl
<1>7. \A q \in Pods : Held(q)' = Held(q)
  BY <1>4 DEF Held
<1>8. NoLost' /\ Unseen'
  BY <1>7 DEF NoLost, Unseen, Waiting
<1>9. Settled'
  BY <1>7 DEF Settled
<1> QED
  BY <1>9, <1>1, <1>2, <1>3, <1>5, <1>6, <1>8

-----------------------------------------------------------------------------
(* The worker.                                                             *)

(* TakeKey keeps the invariant: a dirty key becomes the worker's.          *)
LEMMA TakeKeyKeeps ==
  ASSUME IInv, TakeKey
  PROVE  IInv'
<1> USE DEF IInv, TakeKey, apiVars, listVars
<1> PICK p : p = Head(wq.queue)
  OBVIOUS
<1>1. /\ p \in wq.dirty \ wq.processing
      /\ wq' \in QueueType(Pods) /\ Consistent(wq')
      /\ wq'.dirty = wq.dirty \ {p}
      /\ wq'.processing = wq.processing \cup {p} /\ wq'.delayed = wq.delayed
  BY GetFacts DEF TypeOK, QueueConsistent
<1>2. p \in Pods /\ p # NoId
  BY <1>1, SchedulerAssumption DEF TypeOK, QueueType
<1>3. /\ worker' \in WorkerStates
      /\ worker'.pc = "read" /\ worker'.key = p /\ worker'.failed = FALSE
  BY <1>2 DEF TypeOK, WorkerStates, PCs
<1>4. TypeOK'
  BY <1>1, <1>2, <1>3 DEF TypeOK
<1>5. CacheBehind'
  BY DEF CacheBehind
<1>6. QueueConsistent'
  BY <1>1, <1>3 DEF QueueConsistent
<1>7. /\ \A q \in Pods : InList(q)' = InList(q) /\ ~InHand(q)
      /\ \A q \in Pods : InHand(q)' <=> q = p
  BY <1>3 DEF InList, InHand
<1>8. Tokens' /\ IsInjective(pending)'
  BY <1>1, <1>7 DEF Tokens, Excl
<1>9. \A q \in Pods : Held(q)' <=> Held(q)
  BY <1>1, <1>7 DEF Held
<1>10. NoLost' /\ Unseen'
  BY <1>9 DEF NoLost, Unseen, Waiting
<1>11. Settled'
  BY <1>3, <1>9 DEF Settled
<1> QED
  BY <1>11, <1>4, <1>5, <1>6, <1>8, <1>10

(* A step that changes nothing but the worker, and neither its key nor     *)
(* whether it still answers for it, keeps the invariant.                   *)
LEMMA WorkerKeeps ==
  ASSUME IInv, UNCHANGED <<apiVars, wq, listVars>>, TypeOK',
         worker.pc # "idle", worker'.pc # "idle", worker'.key = worker.key,
         \A q \in Pods : InHand(q)' => InHand(q),
         \A q \in Pods : InHand(q) /\ Waiting(q) => InHand(q)',
         Settled'
  PROVE  IInv'
<1> USE DEF IInv, apiVars, listVars
<1>1. CacheBehind'
  BY DEF CacheBehind
<1>2. QueueConsistent'
  BY DEF QueueConsistent
<1>3. \A q \in Pods : InList(q)' = InList(q)
  BY DEF InList
<1>4. Tokens' /\ IsInjective(pending)'
  BY <1>3 DEF Tokens, Excl
<1>5. NoLost'
  BY <1>3 DEF NoLost, Held, Waiting
<1>6. Unseen'
  BY <1>3 DEF Unseen, Held
<1> QED
  BY <1>1, <1>2, <1>4, <1>5, <1>6

(* ReadPod drops only pods that do not wait: what the guards of syncHandler*)
(* see in the cache is not ahead of the API server.                        *)
LEMMA ReadPodKeeps ==
  ASSUME IInv, ReadPod
  PROVE  IInv'
<1> USE DEF IInv, ReadPod
<1>1. /\ worker' \in WorkerStates /\ worker'.key = worker.key /\ worker.key \in Pods
      /\ worker'.failed = FALSE
      /\ worker'.pc = IF NeedsPlacement(worker.key) THEN "schedule" ELSE "finish"
  BY DEF TypeOK, WorkerStates, PCs
<1>2. TypeOK'
  BY <1>1, SchedulerAssumption DEF TypeOK, apiVars, listVars
<1>3. \A q \in Pods : InHand(q) <=> q = worker.key
  BY DEF InHand
<1>4. \A q \in Pods : InHand(q)' => q = worker.key
  BY <1>1 DEF InHand
<1>5. ASSUME Waiting(worker.key) PROVE NeedsPlacement(worker.key)
  BY <1>1, <1>5 DEF Waiting, NeedsPlacement, CacheBehind
<1>6. \A q \in Pods : InHand(q) /\ Waiting(q) => InHand(q)'
  BY <1>1, <1>3, <1>5 DEF InHand
<1>7. Settled'
  <2>1. \A q \in Pods : Held(q)' => Held(q)
    BY <1>1, <1>3, <1>4 DEF Held, InList, listVars, apiVars
  <2>2. Held(worker.key)
    BY <1>1, <1>3 DEF Held
  <2> QED
    BY <1>1, <2>1, <2>2 DEF Settled, NeedsPlacement, apiVars
<1> QED
  BY <1>7, <1>1, <1>2, <1>3, <1>4, <1>6, WorkerKeeps

(* Schedule keeps the key: the pod is to be parked or patched, or the      *)
(* worker waits for ever.                                                  *)
LEMMA ScheduleKeeps ==
  ASSUME IInv, Schedule
  PROVE  IInv'
<1> USE DEF IInv, Schedule
<1>1. /\ worker' \in WorkerStates /\ worker'.key = worker.key /\ worker.key \in Pods
      /\ worker'.pc \in {"blocked", "park", "patch"} /\ worker'.failed = FALSE
      /\ worker'.pc = "patch" => worker'.node \in Nodes /\ worker'.gpuid \in GPUIDs
  <2>1. worker.key \in Pods
    BY DEF TypeOK, WorkerStates
  <2>2. CASE worker' = [worker EXCEPT !.pc = "blocked"]
    BY <2>1, <2>2 DEF TypeOK, WorkerStates, PCs
  <2>3. CASE worker' = [worker EXCEPT !.pc = "park"]
    BY <2>1, <2>3 DEF TypeOK, WorkerStates, PCs
  <2>4. CASE \E c \in Placements(worker.key) \ {Nowhere} :
             \E id \in IF c.gpuid = FreshId THEN GPUIDs \ GPUIDsInUse ELSE {c.gpuid} :
               worker' = [worker EXCEPT !.pc = "patch", !.node = c.node, !.gpuid = id]
    <3> PICK c \in Placements(worker.key) \ {Nowhere} :
             \E id \in IF c.gpuid = FreshId THEN GPUIDs \ GPUIDsInUse ELSE {c.gpuid} :
               worker' = [worker EXCEPT !.pc = "patch", !.node = c.node, !.gpuid = id]
      BY <2>4
    <3>1. c.node \in Nodes /\ c.gpuid = FreshId
      BY PlacementType
    <3> PICK id \in GPUIDs :
               worker' = [worker EXCEPT !.pc = "patch", !.node = c.node, !.gpuid = id]
      BY <3>1
    <3> QED
      BY <2>1, <3>1 DEF TypeOK, WorkerStates, PCs
  <2> QED
    BY <2>2, <2>3, <2>4
<1>2. TypeOK'
  BY <1>1, SchedulerAssumption DEF TypeOK, apiVars, listVars
<1>3. \A q \in Pods : InHand(q)' <=> InHand(q)
  BY <1>1 DEF InHand
<1>4. Settled'
  BY <1>1, <1>3 DEF Settled, Held, InList, apiVars, listVars
<1> QED
  BY <1>4, <1>1, <1>2, <1>3, WorkerKeeps

(* Park keeps the key: it moves to a list that nobody walks.               *)
LEMMA ParkKeeps ==
  ASSUME IInv, Park
  PROVE  IInv'
<1> USE DEF IInv, Park, apiVars, MutexFree
<1> PICK p : p = worker.key
  OBVIOUS
<1>1. p \in Pods /\ p # NoId
  BY SchedulerAssumption DEF TypeOK, WorkerStates
<1>2. /\ pending' \in Seq(Pods) /\ Len(pending') = Len(pending) + 1 /\ Len(pending) \in Nat
      /\ \A i \in 1 .. Len(pending) : pending'[i] = pending[i]
      /\ pending'[Len(pending) + 1] = p
  BY <1>1 DEF TypeOK
<1>3. /\ worker' \in WorkerStates /\ worker'.pc = "finish" /\ worker'.key = p
      /\ worker'.failed = FALSE
  BY DEF TypeOK, WorkerStates, PCs
<1>4. TypeOK'
  BY <1>1, <1>2, <1>3 DEF TypeOK
<1>5. CacheBehind'
  BY DEF CacheBehind
<1>6. QueueConsistent'
  BY <1>3 DEF QueueConsistent
<1>7. \A q \in Pods : InList(q)' <=> InList(q) \/ q = p
  BY <1>2 DEF InList
<1>8. InHand(p) /\ (\A q \in Pods : InHand(q) => q = p) /\ (\A q \in Pods : ~InHand(q)')
  BY <1>1, <1>3 DEF InHand
<1>9. Tokens'
  BY <1>7, <1>8 DEF Tokens, Excl
<1>10. IsInjective(pending)'
  <2>1. \A i \in 1 .. Len(pending) : pending[i] # p
    BY <1>1, <1>8, <1>2 DEF Tokens, Excl, InList
  <2>2. DOMAIN pending' = 1 .. Len(pending) + 1 /\ DOMAIN pending = 1 .. Len(pending)
    BY <1>2 DEF TypeOK
  <2> QED
    BY <1>2, <2>1, <2>2 DEF IsInjective
<1>11. \A q \in Pods : Held(q)' <=> Held(q)
  BY <1>7, <1>8 DEF Held
<1>12. NoLost' /\ Unseen'
  BY <1>11 DEF NoLost, Unseen, Waiting
<1>13. Settled'
  BY <1>3, <1>8, <1>11 DEF Settled
<1> QED
  BY <1>13, <1>4, <1>5, <1>6, <1>9, <1>10, <1>12

(* A patch that is applied keeps the invariant, whether or not the reply   *)
(* arrives: the pod has a node and waits no longer.                        *)
LEMMA PatchAppliedKeeps ==
  ASSUME IInv, PatchOK \/ PatchReplyLost
  PROVE  IInv'
<1> USE DEF IInv, listVars
<1> PICK p : p = worker.key
  OBVIOUS
<1>1. p \in Pods /\ worker.node \in Nodes /\ worker.gpuid \in GPUIDs /\ worker.pc = "patch"
  BY SchedulerAssumption DEF PatchOK, PatchReplyLost, PatchApplied, TypeOK, WorkerStates
<1>2. /\ worker' \in WorkerStates /\ worker'.pc = "finish" /\ worker'.key = p
      /\ UNCHANGED <<cache, addNotices, deleteNotice, nodes, wq, pending, walk>>
  <2>1. worker \in WorkerStates
    BY DEF TypeOK
  <2> QED
    BY <1>1, <2>1 DEF PatchOK, PatchReplyLost, PatchApplied, WorkerStates, PCs
<1>3. /\ api[p].state = "live" /\ api[p].node \in {NoNode, worker.node}
      /\ api' = [api EXCEPT ![p].node = worker.node, ![p].gpuid = worker.gpuid]
  BY DEF PatchOK, PatchReplyLost, PatchApplied, Accepts
<1>4. /\ api' \in [Pods -> PodStates]
      /\ api'[p].state = "live" /\ api'[p].node = worker.node /\ api'[p].gpuid = worker.gpuid
      /\ \A q \in Pods \ {p} : api'[q] = api[q]
  <2>1. [api[p] EXCEPT !.node = worker.node, !.gpuid = worker.gpuid] \in PodStates
    <3>1. api[p] \in PodStates
      BY <1>1 DEF TypeOK
    <3> QED
      BY <1>1, <3>1 DEF PodStates
  <2> QED
    BY <1>1, <1>3, <2>1 DEF TypeOK, PodStates
<1>5. TypeOK'
  <2>1. faults' \in [patch : Nat, reply : Nat, node : Nat, restart : Nat]
    BY FaultsType DEF PatchOK, PatchReplyLost, TypeOK
  <2> QED
    BY <1>1, <1>2, <1>4, <2>1, SchedulerAssumption DEF TypeOK
<1>6. CacheBehind'
  BY <1>1, <1>2, <1>3, <1>4, SchedulerAssumption DEF CacheBehind
<1>7. QueueConsistent'
  BY <1>1, <1>2 DEF QueueConsistent
<1>8. /\ InHand(p) /\ (\A q \in Pods : InHand(q) => q = p)
      /\ (\A q \in Pods : InHand(q)' => q = p)
      /\ \A q \in Pods : InList(q)' = InList(q)
  BY <1>1, <1>2 DEF InHand, InList
<1>9. Tokens' /\ IsInjective(pending)'
  BY <1>1, <1>2, <1>8 DEF Tokens, Excl
<1>10. NoLost'
  <2>1. ~Waiting(p)'
    BY <1>1, <1>4, SchedulerAssumption DEF Waiting
  <2>2. \A q \in Pods \ {p} : Held(q)' = Held(q) /\ Waiting(q)' = Waiting(q)
    BY <1>2, <1>4, <1>8 DEF Held, Waiting
  <2> QED
    BY <2>1, <2>2 DEF NoLost
<1>11. Unseen'
  BY <1>2, <1>8 DEF Unseen, Held
<1>12. Settled'
  <2> SUFFICES ASSUME faults'.reply = 0, NEW q \in Pods, api'[q].gpuid # NoId
               PROVE  /\ worker'.key = q => worker'.pc \in {"read", "finish"}
                      /\ Held(q)' => cache'[q].gpuid # NoId
    BY DEF Settled
  <2>1. PatchOK
    <3>1. faults.reply \in Nat
      BY DEF TypeOK
    <3>2. PatchReplyLost => faults'.reply = faults.reply + 1
      BY DEF PatchReplyLost, TypeOK
    <3> QED
      BY <3>1, <3>2
  <2>2. ~InHand(p)'
    BY <2>1, <1>1 DEF PatchOK, PatchApplied, InHand, TypeOK, WorkerStates
  <2>3. CASE q = p
    BY <2>3, <2>2, <1>1, <1>2, <1>8 DEF Tokens, Excl, Held
  <2>4. faults.reply = 0
    BY <2>1 DEF PatchOK
  <2>5. CASE q # p
    BY <2>4, <2>5, <1>2, <1>4, <1>8 DEF Settled, Held
  <2> QED
    BY <2>3, <2>5
<1> QED
  BY <1>12, <1>5, <1>6, <1>7, <1>9, <1>10, <1>11

(* A patch that fails keeps the key: the worker reports the error.         *)
LEMMA PatchFailsKeeps ==
  ASSUME IInv, PatchFails
  PROVE  IInv'
<1> USE DEF IInv, PatchFails, listVars
<1>1. /\ worker' \in WorkerStates /\ worker'.key = worker.key /\ worker.key # NoId
      /\ worker'.pc = "finish" /\ worker'.failed = TRUE /\ worker.pc = "patch"
  BY DEF TypeOK, WorkerStates, PCs
<1>2. /\ TypeOK' /\ CacheBehind' /\ QueueConsistent'
      /\ \A q \in Pods : InHand(q)' = InHand(q) /\ InList(q)' = InList(q)
  <2>1. TypeOK'
    BY <1>1 DEF TypeOK
  <2>2. CacheBehind'
    BY DEF CacheBehind
  <2>3. QueueConsistent'
    BY <1>1 DEF QueueConsistent
  <2> QED
    BY <1>1, <2>1, <2>2, <2>3 DEF InHand, InList
<1>3. Tokens' /\ IsInjective(pending)'
  BY <1>2 DEF Tokens, Excl
<1>4. NoLost' /\ Unseen'
  BY <1>2 DEF NoLost, Unseen, Held, Waiting
<1>5. Settled'
  <2>1. faults'.reply = faults.reply
    BY DEF TypeOK
  <2> QED
    BY <2>1, <1>1, <1>2 DEF Settled, Held
<1> QED
  BY <1>5, <1>2, <1>3, <1>4

(* Finish keeps the key of a pod whose handling failed: it is held back to *)
(* be tried again.  Done returns what became dirty meanwhile.              *)
LEMMA FinishKeeps ==
  ASSUME IInv, Finish
  PROVE  IInv'
<1> USE DEF IInv, Finish, apiVars, listVars
<1> PICK p : p = worker.key
  OBVIOUS
<1> DEFINE r == IF worker.failed THEN AddRateLimited(wq, p) ELSE wq
<1>1. p \in Pods /\ wq.processing = {p} /\ worker.failed \in BOOLEAN
  BY DEF TypeOK, WorkerStates, QueueConsistent
<1>2. /\ r \in QueueType(Pods) /\ Consistent(r) /\ r.dirty = wq.dirty /\ r.processing = {p}
      /\ r.delayed = IF worker.failed THEN wq.delayed \cup {p} ELSE wq.delayed
  <2>1. wq \in QueueType(Pods) /\ Consistent(wq)
    BY DEF TypeOK, QueueConsistent
  <2>2. CASE worker.failed
    BY <1>1, <2>1, <2>2, AddRateLimitedFacts
  <2>3. CASE ~worker.failed
    BY <1>1, <2>1, <2>3
  <2> QED
    BY <2>2, <2>3
<1>3. wq' = Done(r, p)
  OBVIOUS
<1> HIDE DEF r
<1>4. /\ wq' \in QueueType(Pods) /\ Consistent(wq')
      /\ wq'.dirty = wq.dirty /\ wq'.processing = {}
      /\ wq'.delayed = IF worker.failed THEN wq.delayed \cup {p} ELSE wq.delayed
  BY <1>2, <1>3, DoneFacts
<1>5. /\ worker' \in WorkerStates
      /\ worker'.pc = "idle" /\ worker'.key = NoId /\ worker'.failed = FALSE
  BY DEF TypeOK, WorkerStates, PCs
<1>6. TypeOK'
  BY <1>4, <1>5 DEF TypeOK
<1>7. CacheBehind'
  BY DEF CacheBehind
<1>8. QueueConsistent'
  BY <1>4, <1>5 DEF QueueConsistent
<1>9. \A q \in Pods : /\ InList(q)' = InList(q) /\ ~InHand(q)'
                      /\ InHand(q) <=> (q = p /\ worker.failed)
  BY <1>1, <1>5 DEF InList, InHand
<1>10. Tokens' /\ IsInjective(pending)'
  BY <1>1, <1>4, <1>9 DEF Tokens, Excl
<1>11. \A q \in Pods : Held(q)' <=> Held(q)
  BY <1>1, <1>4, <1>9 DEF Held
<1>12. NoLost' /\ Unseen'
  BY <1>11 DEF NoLost, Unseen, Waiting
<1>13. Settled'
  BY <1>1, <1>5, <1>11, SchedulerAssumption DEF Settled
<1> QED
  BY <1>13, <1>6, <1>7, <1>8, <1>10, <1>12

(* Restart keeps the invariant: the informer owes an AddFunc call for each *)
(* pod there is, and nobody else has a key.                                *)
LEMMA RestartKeeps ==
  ASSUME IInv, Restart
  PROVE  IInv'
<1> USE DEF IInv, Restart
<1>1. wq' \in QueueType(Pods) /\ Consistent(wq') /\ wq' = EmptyQueue
  BY EmptyFacts
<1>2. /\ worker' \in WorkerStates
      /\ worker'.pc = "idle" /\ worker'.key = NoId /\ worker'.failed = FALSE
  BY DEF Idle, WorkerStates, PCs
<1>3. nodes' \in [Nodes -> NodeStates]
  BY SchedulerAssumption DEF TypeOK
<1>4. TypeOK'
  <2>1. api' \in [Pods -> PodStates] /\ cache' \in [Pods -> PodStates]
    BY DEF TypeOK
  <2>2. pending' \in Seq(Pods) /\ walk' = MutexFree /\ addNotices' \subseteq Pods
    OBVIOUS
  <2>3. faults' \in [patch : Nat, reply : Nat, node : Nat, restart : Nat]
    BY FaultsType DEF TypeOK
  <2> QED
    BY <1>1, <1>2, <1>3, <2>1, <2>2, <2>3 DEF TypeOK
<1>5. CacheBehind'
  BY DEF CacheBehind
<1>6. QueueConsistent'
  BY <1>1, <1>2 DEF QueueConsistent, EmptyQueue
<1>7. IsInjective(pending')
  BY DEF IsInjective
<1>8. \A q \in Pods : /\ ~InList(q)' /\ ~InHand(q)'
                      /\ q \notin wq'.dirty /\ q \notin wq'.delayed
  BY <1>1, <1>2, SchedulerAssumption DEF InList, InHand, EmptyQueue
<1>9. Tokens'
  BY <1>8 DEF Tokens, Excl
<1>10. NoLost'
  BY DEF NoLost, Held, Waiting
<1>11. Unseen'
  BY <1>8 DEF Unseen, Held
<1>12. Settled'
  BY <1>2, SchedulerAssumption DEF Settled
<1> QED
  BY <1>12, <1>4, <1>5, <1>6, <1>7, <1>9, <1>10, <1>11

-----------------------------------------------------------------------------
(* The invariant holds before the first pod exists.                        *)
LEMMA InitIInv == Init => IInv
<1> SUFFICES ASSUME Init PROVE IInv
  OBVIOUS
<1> USE DEF Init, Absent, Idle
<1>1. wq \in QueueType(Pods) /\ Consistent(wq) /\ wq = EmptyQueue
  BY EmptyFacts
<1>2. TypeOK
  <2>1. api \in [Pods -> PodStates] /\ cache \in [Pods -> PodStates]
    BY DEF PodStates
  <2>2. worker \in WorkerStates
    BY DEF WorkerStates, PCs
  <2>3. pending \in Seq(Pods) /\ walk = MutexFree
    OBVIOUS
  <2> QED
    BY <1>1, <2>1, <2>2, <2>3 DEF TypeOK
<1>3. CacheBehind /\ IsInjective(pending)
  BY DEF CacheBehind, IsInjective
<1>4. QueueConsistent
  BY <1>1 DEF QueueConsistent, EmptyQueue
<1>5. \A q \in Pods : ~Held(q) /\ ~Waiting(q)
  BY SchedulerAssumption DEF Held, InList, InHand, EmptyQueue, Waiting
<1>6. Tokens /\ NoLost /\ Unseen /\ Settled
  BY <1>5 DEF Tokens, Excl, NoLost, Unseen, Held, Settled
<1> QED
  BY <1>2, <1>3, <1>4, <1>6 DEF IInv

(* One step of anybody, or a stutter, keeps the invariant.                 *)
LEMMA NextIInv == IInv /\ [Next]_vars => IInv'
<1> SUFFICES ASSUME IInv, [Next]_vars PROVE IInv'
  OBVIOUS
<1>1. CASE WorkerStep
  BY <1>1, TakeKeyKeeps, ReadPodKeeps, ScheduleKeeps, ParkKeeps, PatchAppliedKeeps,
     PatchFailsKeeps, FinishKeeps DEF WorkerStep
<1>2. CASE NoticeDelete \/ Tick
  BY <1>2, LockKeeps
<1>3. CASE PutBack
  BY <1>3, PutBackKeeps
<1>4. CASE ClearList
  BY <1>4, ClearListKeeps
<1>5. CASE Restart
  BY <1>5, RestartKeeps
<1>6. ASSUME NEW p \in Pods,
             \/ CreatePod(p) \/ DeletePod(p) \/ Watch(p) \/ NoticeAdd(p) \/ Timer(p)
             \/ \E n \in Nodes : DefaultBind(p, n)
      PROVE IInv'
  BY <1>6, CreatePodKeeps, DeletePodKeeps, WatchKeeps, NoticeAddKeeps, TimerKeeps, DefaultBindKeeps
<1>7. ASSUME NEW n \in Nodes, NEW s \in NodeStates, WatchNode(n, s) PROVE IInv'
  BY <1>7, WatchNodeKeeps
<1>8. CASE UNCHANGED vars
  BY <1>8 DEF vars, IInv, TypeOK, CacheBehind, QueueConsistent, Tokens, Excl, NoLost, Unseen,
     Settled, Held, Waiting, InList, InHand
<1> QED
  BY <1>1, <1>2, <1>3, <1>4, <1>5, <1>6, <1>7, <1>8 DEF Next

(* The invariant holds in every reachable state.                           *)
LEMMA Invariance == Spec => []IInv
  BY InitIInv, NextIInv, PTL DEF Spec

-----------------------------------------------------------------------------
(* Every variable keeps its type; in particular the walk of resourceChanged*)
(* never leaves the list and a patch always has a node and a GPUID.        *)
THEOREM TypeCorrect == Spec => []TypeOK
<1>1. IInv => TypeOK
  BY DEF IInv
<1> QED
  BY <1>1, Invariance, PTL

(* The scheduler never forgets a pod that waits to be placed.              *)
THEOREM NoPodLost == Spec => []NoLostPod
<1>1. IInv => NoLostPod
  <2> SUFFICES ASSUME IInv, NEW p \in Pods, Waiting(p) PROVE \E place \in Places : At(p, place)
    BY DEF NoLostPod
  <2>1. Held(p)
    BY DEF IInv, NoLost
  <2> QED
    BY <2>1 DEF Held, Places, At
<1> QED
  BY <1>1, Invariance, PTL

(* A pod's key is never in two places nor twice in the list.               *)
THEOREM OneTokenEach == Spec => []OneToken
<1>1. IInv => OneToken
  <2> SUFFICES ASSUME IInv PROVE OneToken
    OBVIOUS
  <2>1. ASSUME NEW p \in Pods, NEW a \in Places, NEW b \in Places, At(p, a), At(p, b)
        PROVE  a = b
    <3>1. Excl(p)
      BY DEF IInv, Tokens
    <3>2. /\ At(p, "notice") = (p \in addNotices)
          /\ At(p, "queue") = (p \in wq.dirty)
          /\ At(p, "timer") = (p \in wq.delayed)
          /\ At(p, "list") = InList(p)
          /\ At(p, "worker") = InHand(p)
      BY DEF At
    <3>3. /\ a \in {"notice", "queue", "timer", "list", "worker"}
          /\ b \in {"notice", "queue", "timer", "list", "worker"}
      BY DEF Places
    <3> QED
      BY <2>1, <3>1, <3>2, <3>3 DEF Excl
  <2> QED
    BY <2>1 DEF OneToken, IInv
<1> QED
  BY <1>1, Invariance, PTL

(* The work queue keeps the relation between queue, dirty and processing   *)
(* that queue.go states, under every interleaving of its users.            *)
THEOREM QueueCorrect == Spec => []QueueConsistent
<1>1. IInv => QueueConsistent
  BY DEF IInv
<1> QED
  BY <1>1, Invariance, PTL

(* As long as every reply of the API server has arrived, the guards against a  *)
(* second placement work although they read a cache that may be behind:    *)
(* a pod's node and GPUID never change once set.                           *)
THEOREM NoSecondPlacement == Spec => PlacedOnce
<1>1. ASSUME IInv, [Next]_vars, NEW p \in Pods, api[p].gpuid # NoId /\ faults.reply = 0
      PROVE  api'[p].gpuid = api[p].gpuid /\ api'[p].node = api[p].node
  <2>1. api[p].node # NoNode /\ api \in [Pods -> PodStates]
    BY <1>1 DEF IInv, CacheBehind, TypeOK
  <2>2. CASE UNCHANGED api
    BY <2>2
  <2>3. CASE PatchOK \/ PatchReplyLost
    <3>1. p # worker.key
      BY <1>1, <2>3 DEF PatchOK, PatchReplyLost, PatchApplied, IInv, Settled
    <3> QED
      BY <2>1, <2>3, <3>1 DEF PatchOK, PatchReplyLost, PatchApplied
  <2>4. ASSUME NEW q \in Pods, CreatePod(q) \/ DeletePod(q) \/ \E n \in Nodes : DefaultBind(q, n)
        PROVE  api'[p].gpuid = api[p].gpuid /\ api'[p].node = api[p].node
    BY <2>1, <2>4 DEF CreatePod, DeletePod, DefaultBind, PodStates
  <2>5. \/ UNCHANGED api
        \/ PatchOK \/ PatchReplyLost
        \/ \E q \in Pods : CreatePod(q) \/ DeletePod(q) \/ \E n \in Nodes : DefaultBind(q, n)
    BY <1>1 DEF Next, WorkerStep, TakeKey, ReadPod, Schedule, Park, PatchFails, Finish,
       NoticeDelete, Tick, PutBack, ClearList, Restart, Watch, NoticeAdd, Timer, WatchNode,
       apiVars, vars
  <2> QED
    BY <2>2, <2>3, <2>4, <2>5
<1>2. IInv /\ [Next]_vars =>
        [\A p \in Pods : api[p].gpuid # NoId /\ faults.reply = 0 =>
            api'[p].gpuid = api[p].gpuid /\ api'[p].node = api[p].node]_vars
  BY <1>1
<1> QED
  BY <1>2, Invariance, PTL DEF Spec, PlacedOnce

(* Of the worker's steps only Schedule decides for a node or for the list. *)
LEMMA StepPlacesWhereItFits ==
  ASSUME TypeOK, [Next]_vars, worker.pc = "schedule"
  PROVE  /\ worker'.pc = "patch" => Fits(worker.key, worker'.node)
         /\ worker'.pc = "park" => \A n \in Nodes : ~Fits(worker.key, n)
<1>1. worker \in WorkerStates /\ worker.key \in Pods /\ nodes \in [Nodes -> NodeStates]
  BY DEF TypeOK, WorkerStates
<1>2. CASE Schedule
  <2>1. CASE worker'.pc = "patch"
    <3>1. PICK c \in Placements(worker.key) \ {Nowhere} : worker'.node = c.node
      BY <1>1, <1>2, <2>1 DEF Schedule, WorkerStates
    <3>2. ~SyncNodesBlocks(ListedNodes)
      BY <1>1, <1>2, <2>1 DEF Schedule, WorkerStates
    <3>3. Fits(worker.key, c.node)
      BY <1>1, <3>2, PlacementFits
    <3> QED
      BY <2>1, <3>1, <3>3
  <2>2. CASE worker'.pc = "park"
    <3>1. Nowhere \in Placements(worker.key) /\ ~SyncNodesBlocks(ListedNodes)
      BY <1>1, <1>2, <2>2 DEF Schedule, WorkerStates
    <3> QED
      BY <1>1, <2>2, <3>1, PlacementFits
  <2> QED
    BY <2>1, <2>2
<1>3. CASE UNCHANGED worker
  BY <1>3
<1>4. CASE Restart
  BY <1>4 DEF Restart, Idle
<1>5. Schedule \/ UNCHANGED worker \/ Restart
  BY DEF Next, WorkerStep, TakeKey, ReadPod, Park, PatchOK, PatchReplyLost, PatchApplied,
     PatchFails, Finish, NoticeDelete, Tick, PutBack, ClearList, CreatePod, DeletePod, Watch,
     NoticeAdd, Timer, DefaultBind, WatchNode, vars
<1> QED
  BY <1>2, <1>3, <1>4, <1>5

(* The chosen node has room for the pod beside the pods that ask for whole *)
(* GPUs, and a pod is parked only when no node has: for any cluster, and   *)
(* whatever order the goroutines and the maps take.                        *)
THEOREM RoomForPlaced == Spec => PlacedWhereItFits
<1>1. TypeOK /\ [Next]_vars =>
        [worker.pc = "schedule" =>
           /\ worker'.pc = "patch" => Fits(worker.key, worker'.node)
           /\ worker'.pc = "park" => \A n \in Nodes : ~Fits(worker.key, n)]_vars
  BY StepPlacesWhereItFits
<1>2. IInv => TypeOK
  BY DEF IInv
<1> QED
  BY <1>1, <1>2, Invariance, PTL DEF Spec, PlacedWhereItFits
=============================================================================
