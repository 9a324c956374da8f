----------------------------- MODULE LogStream ------------------------------
(***************************************************************************)
(* One request for a function's logs: the goroutines of k8s/logs.go and    *)
(* k8s/log.go and the HTTP handler of faas-provider that starts them.      *)
(*                                                                         *)
(*   informer -added-> main -> podLogs(p) + reader(p) -logs-> relay        *)
(*                      ^----finished----'                     |           *)
(*                                       handler <--msgStream--'           *)
(*                                                                         *)
(* A line is <<pod, number>>.  added, logs and msgStream are buffered; done *)
(* and finished are rendezvous, one step of both ends.  A send on a closed *)
(* channel panics, and no goroutine here recovers: the server is down.     *)
(*                                                                         *)
(* Left out: once added is closed, main's select may also receive "" from  *)
(* it and start a podLogs whose request fails; that goroutine then waits   *)
(* on finished, for ever when main has returned.                           *)
(***************************************************************************)
EXTENDS Integers, Sequences, FiniteSets

CONSTANTS
  Pods,         (* instances of the function                               *)
  NoPod,        (* no instance                                             *)
  Lines,        (* Lines[p]: how many lines p writes                       *)
  Unterminated, (* the instances whose last line has no newline            *)
  LogBuffer,    (* LogBufferSize for logs: 1000 in the program             *)
  MsgBuffer     (* LogBufferSize for msgStream: 1000 in the program        *)

ASSUME LogStreamAssumption ==
  /\ NoPod \notin Pods
  /\ IsFiniteSet(Pods)
  /\ Lines \in [Pods -> Nat]
  /\ Unterminated \subseteq {p \in Pods : Lines[p] > 0}
  /\ LogBuffer \in Nat \ {0}
  /\ MsgBuffer \in Nat \ {0}

VARIABLES
  follow,       (* the request's parameter                                 *)
  handler,      (* NewLogHandlerFunc                                       *)
  cancelled,    (* ctx.Done() is closed                                    *)
  received,     (* what the client got of each instance                    *)
  informer,     (* the instance OnAdd is sending, and those it was told of *)
  added,        (* the channel: content, capacity, closed                  *)
  main,         (* the goroutine of GetLogs: where it is, watching         *)
  stream,       (* per instance: podLogs, its reader, lines read           *)
  logs,         (* the channel; closed when main has returned              *)
  relay,        (* the goroutine of Query: where it is, its line           *)
  msgs,         (* msgStream; closed when relay has ended                  *)
  crashed       (* a goroutine has panicked                                *)

request == <<follow, handler, cancelled, received>>
producers == <<informer, added, main, stream>>
vars == <<request, producers, logs, relay, msgs, crashed>>

(* The lines that ReadBytes returns without an error: one without a        *)
(* newline comes back with io.EOF, and the reader drops it.                *)
Terminated(p) == IF p \in Unterminated THEN Lines[p] - 1 ELSE Lines[p]

Line == {line \in Pods \X Nat : line[2] \in 1 .. Lines[line[1]]}

NoStream == [watch |-> "none", reader |-> "none", read |-> 0, clean |-> TRUE]

TypeOK ==
  /\ follow \in BOOLEAN
  /\ handler \in {"query", "serve", "left"}
  /\ cancelled \in BOOLEAN
  /\ received \in [Pods -> Seq(Nat)]
  /\ informer \in [sending : Pods \cup {NoPod}, told : SUBSET Pods]
  /\ added \in [buf : Seq(Pods), cap : 0 .. Cardinality(Pods), closed : BOOLEAN]
  /\ main \in [at : {"none", "select", "returned"}, watching : 0 .. Cardinality(Pods)]
  /\ stream \in [Pods -> [watch : {"none", "open", "wait", "finish", "ended"},
                          reader : {"none", "read", "send", "done", "ended"},
                          read : Nat, clean : BOOLEAN]]
  /\ logs \in Seq(Line) /\ Len(logs) <= LogBuffer
  /\ relay \in [at : {"none", "range", "send", "ended"}, line : Line \cup {NoPod}]
  /\ msgs \in Seq(Line) /\ Len(msgs) <= MsgBuffer
  /\ crashed \in BOOLEAN

Init ==
  /\ follow \in BOOLEAN
  /\ handler = "query"
  /\ cancelled = FALSE
  /\ received = [p \in Pods |-> <<>>]
  /\ informer = [sending |-> NoPod, told |-> {}]
  /\ added = [buf |-> <<>>, cap |-> 0, closed |-> FALSE]
  /\ main = [at |-> "none", watching |-> 0]
  /\ stream = [p \in Pods |-> NoStream]
  /\ logs = <<>>
  /\ relay = [at |-> "none", line |-> NoPod]
  /\ msgs = <<>>
  /\ crashed = FALSE

-----------------------------------------------------------------------------
(* The handler.  Returning runs the deferred cancelQuery.                  *)

Leave == handler' = "left" /\ cancelled' = TRUE

(* Query: startFunctionPodInformer lists the instances, makes added as     *)
(* large as their number and starts the informer, which may find others;   *)
(* without an instance, or when the list fails, the request ends in error. *)
Query ==
  /\ handler = "query"
  /\ \/ /\ handler' = "serve"
        /\ \E listed \in SUBSET Pods \ {{}} : added' = [added EXCEPT !.cap = Cardinality(listed)]
        /\ main' = [main EXCEPT !.at = "select"]
        /\ relay' = [relay EXCEPT !.at = "range"]
        /\ UNCHANGED cancelled
     \/ /\ Leave
        /\ UNCHANGED <<added, main, relay>>
  /\ UNCHANGED <<follow, received, informer, stream, logs, msgs, crashed>>

(* Fault for the runs: the handler goes on after it should have returned.  *)
DeliverAfterReturn ==
  /\ handler # "query"
  /\ msgs # <<>>
  /\ LET line == Head(msgs) IN received' = [received EXCEPT ![line[1]] = Append(@, line[2])]
  /\ msgs' = Tail(msgs)
  /\ UNCHANGED <<follow, handler, cancelled, producers, logs, relay, crashed>>

Deliver ==
  /\ handler = "serve"
  /\ msgs # <<>>
  /\ LET line == Head(msgs) IN received' = [received EXCEPT ![line[1]] = Append(@, line[2])]
  /\ msgs' = Tail(msgs)
  /\ UNCHANGED <<follow, handler, cancelled, producers, logs, relay, crashed>>

EndOfLog ==
  /\ handler = "serve"
  /\ msgs = <<>> /\ relay.at = "ended"
  /\ Leave
  /\ UNCHANGED <<follow, received, producers, logs, relay, msgs, crashed>>

(* The client closes the connection, or a line cannot be written to it.    *)
ClientLeaves ==
  /\ handler = "serve"
  /\ Leave
  /\ UNCHANGED <<follow, received, producers, logs, relay, msgs, crashed>>

(* context.WithTimeout: the handler goes on until the channel is closed.   *)
Timeout ==
  /\ handler = "serve"
  /\ cancelled' = TRUE
  /\ UNCHANGED <<follow, handler, received, producers, logs, relay, msgs, crashed>>

-----------------------------------------------------------------------------
(* The informer.  OnAdd is called for one instance after the other.        *)

InformerSees(p) ==
  /\ main.at # "none" /\ ~cancelled
  /\ p \notin informer.told
  /\ informer.sending = NoPod
  /\ informer' = [sending |-> p, told |-> informer.told \cup {p}]
  /\ UNCHANGED <<request, added, main, stream, logs, relay, msgs, crashed>>

(* Fault for the runs: an instance that finds the channel full is dropped. *)
OnAddDrops ==
  /\ informer.sending # NoPod
  /\ ~added.closed
  /\ added' = IF Len(added.buf) < added.cap
              THEN [added EXCEPT !.buf = Append(@, informer.sending)]
              ELSE added
  /\ informer' = [informer EXCEPT !.sending = NoPod]
  /\ UNCHANGED <<request, main, stream, logs, relay, msgs, crashed>>

OnAdd ==
  /\ informer.sending # NoPod
  /\ \/ /\ added.closed
        /\ crashed' = TRUE
        /\ UNCHANGED <<informer, added>>
     \/ /\ ~added.closed /\ Len(added.buf) < added.cap
        /\ added' = [added EXCEPT !.buf = Append(@, informer.sending)]
        /\ informer' = [informer EXCEPT !.sending = NoPod]
        /\ UNCHANGED crashed
  /\ UNCHANGED <<request, main, stream, logs, relay, msgs>>

CloseAdded ==
  /\ main.at # "none" /\ cancelled /\ ~added.closed
  /\ added' = [added EXCEPT !.closed = TRUE]
  /\ UNCHANGED <<request, informer, main, stream, logs, relay, msgs, crashed>>

-----------------------------------------------------------------------------
(* The goroutine of GetLogs: one select after the other.                   *)

(* Fault for the runs: the select has no case for the context.             *)
ContextDoneMissing == FALSE /\ UNCHANGED vars

ContextDone ==
  /\ main.at = "select" /\ cancelled
  /\ main' = [main EXCEPT !.at = "returned"]
  /\ UNCHANGED <<request, informer, added, stream, logs, relay, msgs, crashed>>

(* Faults for the runs: the first stream to end ends the log; a log that   *)
(* is followed ends with its streams too.                                  *)
FinishedAtFirst(p) ==
  /\ main.at = "select" /\ stream[p].watch = "finish"
  /\ main' = [at |-> IF follow THEN "select" ELSE "returned", watching |-> main.watching - 1]
  /\ stream' = [stream EXCEPT ![p].watch = "ended"]
  /\ UNCHANGED <<request, informer, added, logs, relay, msgs, crashed>>

FinishedEndsFollow(p) ==
  /\ main.at = "select" /\ stream[p].watch = "finish"
  /\ main' = [at |-> IF main.watching = 1 THEN "returned" ELSE "select",
              watching |-> main.watching - 1]
  /\ stream' = [stream EXCEPT ![p].watch = "ended"]
  /\ UNCHANGED <<request, informer, added, logs, relay, msgs, crashed>>

Finished(p) ==
  /\ main.at = "select" /\ stream[p].watch = "finish"
  /\ main' = [at |-> IF main.watching = 1 /\ ~follow THEN "returned" ELSE "select",
              watching |-> main.watching - 1]
  /\ stream' = [stream EXCEPT ![p].watch = "ended"]
  /\ UNCHANGED <<request, informer, added, logs, relay, msgs, crashed>>

(* Fault for the runs: the stream is not counted.                          *)
AddedNotCounted ==
  /\ main.at = "select" /\ added.buf # <<>>
  /\ added' = [added EXCEPT !.buf = Tail(@)]
  /\ stream' = [stream EXCEPT ![Head(added.buf)].watch = "open"]
  /\ UNCHANGED <<request, informer, main, logs, relay, msgs, crashed>>

Added ==
  /\ main.at = "select" /\ added.buf # <<>>
  /\ added' = [added EXCEPT !.buf = Tail(@)]
  /\ main' = [main EXCEPT !.watching = @ + 1]
  /\ stream' = [stream EXCEPT ![Head(added.buf)].watch = "open"]
  /\ UNCHANGED <<request, informer, logs, relay, msgs, crashed>>

-----------------------------------------------------------------------------
(* podLogs and its reader.                                                 *)

(* Fault for the runs: a stream that cannot be opened is not reported.     *)
OpenStreamForgets(p) ==
  /\ stream[p].watch = "open"
  /\ \/ stream' = [stream EXCEPT ![p].watch = "wait", ![p].reader = "read"]
     \/ stream' = [stream EXCEPT ![p].watch = "ended", ![p].clean = FALSE]
  /\ UNCHANGED <<request, informer, added, main, logs, relay, msgs, crashed>>

OpenStream(p) ==
  /\ stream[p].watch = "open"
  /\ \/ stream' = [stream EXCEPT ![p].watch = "wait", ![p].reader = "read"]
     \/ stream' = [stream EXCEPT ![p].watch = "finish", ![p].clean = FALSE]
  /\ UNCHANGED <<request, informer, added, main, logs, relay, msgs, crashed>>

(* Returning closes the stream; the reader is left alone.                  *)
WatchCancelled(p) ==
  /\ stream[p].watch = "wait" /\ cancelled
  /\ stream' = [stream EXCEPT ![p].watch = "finish"]
  /\ UNCHANGED <<request, informer, added, main, logs, relay, msgs, crashed>>

WatchDone(p) ==
  /\ stream[p].watch = "wait" /\ stream[p].reader = "done"
  /\ stream' = [stream EXCEPT ![p].watch = "finish", ![p].reader = "ended"]
  /\ UNCHANGED <<request, informer, added, main, logs, relay, msgs, crashed>>

(* Also from what the bufio.Reader holds of a stream that was closed.      *)
ReadLine(p) ==
  /\ stream[p].reader = "read" /\ stream[p].read < Terminated(p)
  /\ stream' = [stream EXCEPT ![p].reader = "send", ![p].read = @ + 1]
  /\ UNCHANGED <<request, informer, added, main, logs, relay, msgs, crashed>>

(* The stream is closed, has no more terminated lines or, when it is       *)
(* followed, may end with the instance.  What is left of a last line comes *)
(* with io.EOF and goes nowhere.                                           *)
ReadEnds(p) ==
  /\ stream[p].reader = "read"
  /\ stream[p].watch # "wait" \/ stream[p].read = Terminated(p)
  /\ stream' = [stream EXCEPT ![p].reader = "done"]
  /\ UNCHANGED <<request, informer, added, main, logs, relay, msgs, crashed>>

ReadFails(p) ==
  /\ stream[p].reader = "read" /\ stream[p].watch = "wait"
  /\ stream' = [stream EXCEPT ![p].reader = "done", ![p].clean = FALSE]
  /\ UNCHANGED <<request, informer, added, main, logs, relay, msgs, crashed>>

(* Fault for the runs: a line that finds the channel full is dropped.      *)
SendLineDrops(p) ==
  /\ stream[p].reader = "send"
  /\ main.at # "returned"
  /\ logs' = IF Len(logs) < LogBuffer THEN Append(logs, <<p, stream[p].read>>) ELSE logs
  /\ stream' = [stream EXCEPT ![p].reader = "read"]
  /\ UNCHANGED <<request, informer, added, main, relay, msgs, crashed>>

SendLine(p) ==
  /\ stream[p].reader = "send"
  /\ \/ /\ main.at = "returned"
        /\ crashed' = TRUE
        /\ UNCHANGED <<logs, stream>>
     \/ /\ main.at # "returned" /\ Len(logs) < LogBuffer
        /\ logs' = Append(logs, <<p, stream[p].read>>)
        /\ stream' = [stream EXCEPT ![p].reader = "read"]
        /\ UNCHANGED crashed
  /\ UNCHANGED <<request, informer, added, main, relay, msgs>>

-----------------------------------------------------------------------------
(* The goroutine of Query: for msg := range logStream.                     *)

RelayTakes ==
  /\ relay.at = "range"
  /\ \/ /\ logs # <<>>
        /\ relay' = [at |-> "send", line |-> Head(logs)]
        /\ logs' = Tail(logs)
     \/ /\ logs = <<>> /\ main.at = "returned"
        /\ relay' = [relay EXCEPT !.at = "ended"]
        /\ UNCHANGED logs
  /\ UNCHANGED <<request, producers, msgs, crashed>>

RelaySends ==
  /\ relay.at = "send"
  /\ Len(msgs) < MsgBuffer
  /\ msgs' = Append(msgs, relay.line)
  /\ relay' = [at |-> "range", line |-> NoPod]
  /\ UNCHANGED <<request, producers, logs, crashed>>

-----------------------------------------------------------------------------
Handler == Query \/ Deliver \/ EndOfLog
Relay == RelayTakes \/ RelaySends
Reader(p) == ReadLine(p) \/ SendLine(p) \/ (~follow /\ ReadEnds(p))
PodLogs(p) == OpenStream(p) \/ WatchCancelled(p) \/ WatchDone(p)

Next ==
  /\ ~crashed
  /\ \/ Handler \/ ClientLeaves \/ Timeout
     \/ OnAdd \/ CloseAdded
     \/ ContextDone \/ Added
     \/ Relay
     \/ \E p \in Pods :
          \/ InformerSees(p)
          \/ Finished(p)
          \/ PodLogs(p) \/ Reader(p) \/ ReadEnds(p) \/ ReadFails(p)

Spec == Init /\ [][Next]_vars

(* Every goroutine runs; Go's select does not pass over a ready case for   *)
(* ever.  Clients, instances and failures are free, and so are the timeout *)
(* and the end of a log that is followed.                                  *)
Fairness ==
  /\ WF_vars(~crashed /\ Handler)
  /\ WF_vars(~crashed /\ OnAdd) /\ WF_vars(~crashed /\ CloseAdded)
  /\ WF_vars(~crashed /\ ContextDone) /\ WF_vars(~crashed /\ Added)
  /\ WF_vars(~crashed /\ Relay)
  /\ \A p \in Pods :
       /\ WF_vars(~crashed /\ Finished(p))
       /\ WF_vars(~crashed /\ PodLogs(p))
       /\ WF_vars(~crashed /\ Reader(p))

FairSpec == Spec /\ Fairness

-----------------------------------------------------------------------------
(* No goroutine sends on a closed channel while the request is served:     *)
(* logs is closed by counting streams, added by the context alone.         *)
CrashOnlyAfterCancel == crashed => cancelled

(* What is between the readers and the client.                             *)
Way ==
  LET carried == IF relay.at = "send" THEN <<relay.line>> ELSE <<>>
  IN  msgs \o carried \o logs

(* The client has got the first lines of p; the next ones up to number n   *)
(* are on their way, in order, and nothing else of p is.                   *)
PassedOn(p, n) ==
  LET got == Len(received[p]) IN
    /\ got <= n
    /\ \A i \in 1 .. got : received[p][i] = i
    /\ \A j \in 1 .. Len(Way) : Way[j][1] = p => Way[j][2] \in got + 1 .. n
    /\ \A i \in got + 1 .. n : \E j \in 1 .. Len(Way) : Way[j] = <<p, i>>
    /\ \A j, k \in 1 .. Len(Way) :
         j < k /\ Way[j][1] = p /\ Way[k][1] = p => Way[j][2] < Way[k][2]

Sent(p) == IF stream[p].reader = "send" THEN stream[p].read - 1 ELSE stream[p].read

(* What a reader has sent is lost, doubled and overtaken nowhere, however  *)
(* the readers share the channels and whenever the request ends            *)
(* (logs.go:117-128, log.go:48-60, handler.go).                            *)
InOrder == \A p \in Pods : PassedOn(p, Sent(p))

(* The promise behind the goroutines and channels: a line that a reader    *)
(* has sent is in the pipe, one the client got has been taken out, and the *)
(* handler closes it when it returns (logs.go:117-128, log.go:48-60,       *)
(* handler.go).                                                            *)
Pipe == INSTANCE LogPipe WITH sent <- [p \in Pods |-> Sent(p)], open <- handler # "left"

PipeSpec == Pipe!Spec

(* A log that is followed does not end by itself.  When another one does,  *)
(* every stream that was opened and did not fail has been passed on in     *)
(* order, completely but for a last line without a newline                 *)
(* (logs.go:68-95, 117-135).                                               *)
EndIsComplete ==
  main.at = "returned" /\ ~cancelled =>
    /\ ~follow
    /\ \A p \in Pods :
         stream[p].watch # "none" /\ stream[p].clean => PassedOn(p, Terminated(p))

(* An instance that appears while a log is followed gets its stream,       *)
(* however many streams have ended before.                                 *)
NewInstanceFollowed ==
  \A p \in Pods :
    (follow /\ p \in informer.told) ~> (stream[p].watch # "none" \/ cancelled)

(* All lines that were read reach a client that waits for them, however    *)
(* full the channels are.                                                  *)
LineArrives ==
  \A p \in Pods :
    (stream[p].read = Terminated(p)) ~> (Len(received[p]) = Terminated(p) \/ cancelled)

(* The handler does not outlive its context: when the time is out the      *)
(* channels are closed one after the other.                                *)
CancelEnds == cancelled ~> (handler = "left" \/ crashed)

(* A log that is not followed ends by itself once a stream was opened.     *)
FiniteLogEnds ==
  (~follow /\ \E p \in Pods : stream[p].watch = "open") ~> (handler = "left" \/ crashed)

(* Query: "here we depend on the fact that logStream will close when the   *)
(* context is cancelled, this ensures that the go routine will resolve":   *)
(* the relay ends once the context is cancelled.                           *)
RelayResolves == (cancelled /\ relay.at # "none") ~> (relay.at = "ended" \/ crashed)
=============================================================================
