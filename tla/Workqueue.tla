----------------------------- MODULE Workqueue ------------------------------
(***************************************************************************)
(* The client-go work queue the scheduler, the device manager and the      *)
(* operator read their keys from (vendored under                           *)
(* src/vendor/k8s.io/client-go/util/workqueue).  A queue is a record:      *)
(*   queue       the keys to hand out, in order                            *)
(*   dirty       the keys that need processing                             *)
(*   processing  the keys handed out and not yet Done                      *)
(*   delayed     the keys a rate-limited Add holds back                    *)
(* Back-off times are abstracted: a delayed key may come back any time.    *)
(* ShutDown is not modelled: the process ends with it.                     *)
(***************************************************************************)
EXTENDS Integers, Sequences, Functions

EmptyQueue == [queue |-> <<>>, dirty |-> {}, processing |-> {}, delayed |-> {}]

QueueType(Keys) ==
  [queue : Seq(Keys), dirty : SUBSET Keys, processing : SUBSET Keys,
   delayed : SUBSET Keys]

(* Add marks the key dirty; a key already dirty is not queued twice, and   *)
(* one being processed is queued by Done.                                  *)
Add(q, k) ==
  IF k \in q.dirty
  THEN q
  ELSE [q EXCEPT !.dirty = @ \cup {k},
                 !.queue = IF k \in q.processing THEN @ ELSE Append(@, k)]

(* Fault for the runs: a key being processed is forgotten, not queued.     *)
DoneDropsDirty(q, k) == [q EXCEPT !.processing = @ \ {k}]

Get(q) ==
  [q EXCEPT !.queue = Tail(@),
            !.processing = @ \cup {Head(q.queue)},
            !.dirty = @ \ {Head(q.queue)}]

Done(q, k) ==
  [q EXCEPT !.processing = @ \ {k},
            !.queue = IF k \in q.dirty THEN Append(@, k) ELSE @]

AddRateLimited(q, k) == [q EXCEPT !.delayed = @ \cup {k}]

(* The delaying queue's timer for the key has run out.                     *)
Fire(q, k) == Add([q EXCEPT !.delayed = @ \ {k}], k)

(* What queue.go says of the three fields: "Every element of queue should  *)
(* be in the dirty set and not in the processing set", and, the other way  *)
(* round, a dirty key that nobody processes is in the queue, once.         *)
Consistent(q) ==
  /\ Range(q.queue) = q.dirty \ q.processing
  /\ IsInjective(q.queue)
=============================================================================
