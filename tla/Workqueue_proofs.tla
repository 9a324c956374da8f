-------------------------- MODULE Workqueue_proofs --------------------------
(***************************************************************************)
(* What each operation of the work queue does to a consistent queue, for   *)
(* any set of keys and any history: the lemmas that the proofs about the   *)
(* controllers cite instead of the queue's code.                           *)
(***************************************************************************)
EXTENDS Workqueue, SequenceLemmas

(* Add makes the key dirty, touches nothing else of the key sets and keeps *)
(* the queue consistent.                                                   *)
LEMMA AddFacts ==
  ASSUME NEW Keys, NEW q \in QueueType(Keys), NEW k \in Keys, Consistent(q)
  PROVE  /\ Add(q, k) \in QueueType(Keys)
         /\ Consistent(Add(q, k))
         /\ Add(q, k).dirty = q.dirty \cup {k}
         /\ Add(q, k).processing = q.processing
         /\ Add(q, k).delayed = q.delayed
<1>1. CASE k \in q.dirty
  BY <1>1 DEF Add
<1>2. CASE k \notin q.dirty /\ k \in q.processing
  BY <1>2 DEF Add, QueueType, Consistent
<1>3. CASE k \notin q.dirty /\ k \notin q.processing
  <2>1. q.queue \in Seq(Keys) /\ IsInjective(q.queue) /\ k \notin Range(q.queue)
    BY <1>3 DEF QueueType, Consistent
  <2>2. /\ Append(q.queue, k) \in Seq(Keys)
        /\ Range(Append(q.queue, k)) = Range(q.queue) \cup {k}
        /\ IsInjective(Append(q.queue, k))
    BY <2>1, AppendNew
  <2>3. Add(q, k) = [q EXCEPT !.dirty = @ \cup {k}, !.queue = Append(@, k)]
    BY <1>3 DEF Add
  <2> QED
    BY <1>3, <2>2, <2>3 DEF QueueType, Consistent
<1> QED
  BY <1>1, <1>2, <1>3

(* Get hands out a dirty key that nobody processes and keeps the queue     *)
(* consistent.                                                             *)
LEMMA GetFacts ==
  ASSUME NEW Keys, NEW q \in QueueType(Keys), Consistent(q), q.queue # <<>>
  PROVE  /\ Head(q.queue) \in q.dirty \ q.processing
         /\ Get(q) \in QueueType(Keys)
         /\ Consistent(Get(q))
         /\ Get(q).dirty = q.dirty \ {Head(q.queue)}
         /\ Get(q).processing = q.processing \cup {Head(q.queue)}
         /\ Get(q).delayed = q.delayed
<1>1. q.queue \in Seq(Keys) /\ IsInjective(q.queue)
  BY DEF QueueType, Consistent
<1>2. /\ Head(q.queue) \in Range(q.queue)
      /\ Tail(q.queue) \in Seq(Keys)
      /\ Range(Tail(q.queue)) = Range(q.queue) \ {Head(q.queue)}
      /\ IsInjective(Tail(q.queue))
  BY <1>1, TailRest
<1> QED
  BY <1>2 DEF Get, QueueType, Consistent

(* Done takes the key out of processing and queues it if it became dirty   *)
(* meanwhile: no Add during the processing is lost.                        *)
LEMMA DoneFacts ==
  ASSUME NEW Keys, NEW q \in QueueType(Keys), NEW k \in q.processing, Consistent(q)
  PROVE  /\ Done(q, k) \in QueueType(Keys)
         /\ Consistent(Done(q, k))
         /\ Done(q, k).dirty = q.dirty
         /\ Done(q, k).processing = q.processing \ {k}
         /\ Done(q, k).delayed = q.delayed
<1>1. CASE k \notin q.dirty
  BY <1>1 DEF Done, QueueType, Consistent
<1>2. CASE k \in q.dirty
  <2>1. q.queue \in Seq(Keys) /\ IsInjective(q.queue) /\ k \notin Range(q.queue) /\ k \in Keys
    BY DEF QueueType, Consistent
  <2>2. /\ Append(q.queue, k) \in Seq(Keys)
        /\ Range(Append(q.queue, k)) = Range(q.queue) \cup {k}
        /\ IsInjective(Append(q.queue, k))
    BY <2>1, AppendNew
  <2> QED
    BY <1>2, <2>1, <2>2 DEF Done, QueueType, Consistent
<1> QED
  BY <1>1, <1>2

(* AddRateLimited only holds the key back.                                 *)
LEMMA AddRateLimitedFacts ==
  ASSUME NEW Keys, NEW q \in QueueType(Keys), NEW k \in Keys, Consistent(q)
  PROVE  /\ AddRateLimited(q, k) \in QueueType(Keys)
         /\ Consistent(AddRateLimited(q, k))
         /\ AddRateLimited(q, k).dirty = q.dirty
         /\ AddRateLimited(q, k).processing = q.processing
         /\ AddRateLimited(q, k).delayed = q.delayed \cup {k}
BY DEF AddRateLimited, QueueType, Consistent

(* A key whose time has come moves from the held-back keys to the dirty.   *)
LEMMA FireFacts ==
  ASSUME NEW Keys, NEW q \in QueueType(Keys), NEW k \in Keys, Consistent(q)
  PROVE  /\ Fire(q, k) \in QueueType(Keys)
         /\ Consistent(Fire(q, k))
         /\ Fire(q, k).dirty = q.dirty \cup {k}
         /\ Fire(q, k).processing = q.processing
         /\ Fire(q, k).delayed = q.delayed \ {k}
<1> DEFINE r == [q EXCEPT !.delayed = @ \ {k}]
<1>1. /\ r \in QueueType(Keys) /\ Consistent(r)
      /\ r.dirty = q.dirty /\ r.processing = q.processing /\ r.delayed = q.delayed \ {k}
  BY DEF QueueType, Consistent
<1> HIDE DEF r
<1>2. Fire(q, k) = Add(r, k)
  BY DEF Fire, r
<1> QED
  BY <1>1, <1>2, AddFacts

(* The queue starts consistent.                                            *)
LEMMA EmptyFacts ==
  ASSUME NEW Keys
  PROVE  EmptyQueue \in QueueType(Keys) /\ Consistent(EmptyQueue)
BY DEF EmptyQueue, QueueType, Consistent, Range, IsInjective
=============================================================================
