-------------------------- MODULE LogStream_proofs ---------------------------
(***************************************************************************)
(* For any number of instances and lines and channels of any size: no line *)
(* is lost or overtaken between its reader and the client, a log ends by   *)
(* itself only when all of it has been passed on, and a goroutine sends on *)
(* a closed channel only after the context has ended.                      *)
(*                                                                         *)
(* The inductive invariant says what a stream that has ended leaves behind *)
(* while the context has not (Streams), that main counts the streams that  *)
(* have not (Counted), and that each instance is added once (Once).        *)
(***************************************************************************)
EXTENDS LogStream, SequenceLemmas, FiniteSetTheorems

Ended == {"finish", "ended"}

(* Of a stream that has not been opened nobody reads.  While the context   *)
(* has not ended, a stream that has ended has no reader any more, or never *)
(* had one, and, if nothing failed, all its terminated lines were read.    *)
Streams ==
  \A p \in Pods :
    LET s == stream[p] IN
    /\ s.watch \in {"none", "open"} => s.reader = "none"
    /\ s.read <= Terminated(p)
    /\ s.reader = "send" => s.read > 0
    /\ ~cancelled =>
         /\ s.watch \in Ended => s.reader \in {"none", "ended"}
         /\ s.watch \in Ended /\ s.clean => s.reader = "ended" /\ s.read = Terminated(p)
         /\ s.reader = "done" /\ s.clean => s.read = Terminated(p)

(* The streams main has started and not heard of since.                    *)
Watched == {p \in Pods : stream[p].watch \in {"open", "wait", "finish"}}

Counted ==
  /\ main.watching = Cardinality(Watched)
  /\ main.at = "returned" /\ ~cancelled => ~follow /\ Watched = {}

(* An instance is sent by the informer, or on the channel, or has its      *)
(* stream, and all of them have been told of.                              *)
Once ==
  /\ IsInjective(added.buf)
  /\ informer.sending \notin Range(added.buf)
  /\ \A p \in Pods :
       /\ p = informer.sending \/ p \in Range(added.buf) => p \in informer.told /\ stream[p].watch = "none"
       /\ p \notin informer.told => stream[p].watch = "none"

(* What is in the channels is lines; they are closed as the goroutines     *)
(* that close them say.                                                    *)
Channels ==
  /\ handler = "query" => relay.at = "none"
  /\ relay.at = "send" => relay.line \in Line
  /\ added.closed => cancelled

IInv ==
  /\ TypeOK
  /\ Streams
  /\ Counted
  /\ Once
  /\ Channels
  /\ InOrder
  /\ CrashOnlyAfterCancel

-----------------------------------------------------------------------------
USE DEF request, producers

StreamRecords == [watch : {"none", "open", "wait", "finish", "ended"},
                  reader : {"none", "read", "send", "done", "ended"},
                  read : Nat, clean : BOOLEAN]

(* What is on the way is lines, each of an instance and with a number.     *)
LEMMA WayType ==
  ASSUME TypeOK, Channels
  PROVE  /\ Way \in Seq(Line)
         /\ \A j \in 1 .. Len(Way) : Way[j][1] \in Pods /\ Way[j][2] \in Nat
         /\ Len(Way) \in Nat
<1>1. Way \in Seq(Line)
  <2>1. <<>> \in Seq(Line) /\ (relay.at = "send" => <<relay.line>> \in Seq(Line))
    BY DEF Channels
  <2>2. msgs \in Seq(Line) /\ logs \in Seq(Line)
    BY DEF TypeOK
  <2> QED
    BY <2>1, <2>2, ConcatProperties DEF Way
<1>2. \A l \in Line : l[1] \in Pods /\ l[2] \in Nat
  BY DEF Line
<1>3. \A j \in 1 .. Len(Way) : Way[j] \in Line
  BY <1>1, ElementOfSeq
<1> QED
  BY <1>1, <1>2, <1>3, LenProperties

(* Nothing on the way and nothing the client has got changes.              *)
LEMMA SameOrder ==
  ASSUME InOrder, received' = received, Way' = Way, \A p \in Pods : Sent(p)' = Sent(p)
  PROVE  InOrder'
BY DEF InOrder, PassedOn

(* The next line of p is put behind everything on the way.                 *)
LEMMA SendInOrder ==
  ASSUME TypeOK, Channels, InOrder, NEW p \in Pods, NEW i \in Nat, i = Sent(p) + 1, Sent(p) \in Nat,
         received' = received, Way' = Append(Way, <<p, i>>), Sent(p)' = i,
         \A q \in Pods \ {p} : Sent(q)' = Sent(q)
  PROVE  InOrder'
<1> DEFINE w == Way
           v == Append(w, <<p, i>>)
<1>1. /\ Len(w) \in Nat /\ Len(v) = Len(w) + 1
      /\ \A j \in 1 .. Len(w) : v[j] = w[j] /\ w[j][1] \in Pods /\ w[j][2] \in Nat
      /\ v[Len(v)] = <<p, i>>
  BY WayType, AppendProperties
<1> HIDE DEF w, v
<1>2. SUFFICES ASSUME NEW q \in Pods PROVE PassedOn(q, Sent(q))'
  BY DEF InOrder
<1> DEFINE got == Len(received[q])
           n == Sent(q)
           m == IF q = p THEN i ELSE n
<1>3. /\ got <= n
      /\ \A j \in 1 .. got : received[q][j] = j
      /\ \A j \in 1 .. Len(w) : w[j][1] = q => w[j][2] \in got + 1 .. n
      /\ \A k \in got + 1 .. n : \E j \in 1 .. Len(w) : w[j] = <<q, k>>
      /\ \A j, k \in 1 .. Len(w) : j < k /\ w[j][1] = q /\ w[k][1] = q => w[j][2] < w[k][2]
  BY DEF InOrder, PassedOn, w
<1>4. got \in Nat /\ received'[q] = received[q] /\ Len(received'[q]) = got
  BY DEF TypeOK
<1>5. n \in Int /\ m \in Int /\ n <= m /\ (q = p => m = n + 1) /\ m = Sent(q)'
  <2>1. n \in Int
    BY DEF Sent, TypeOK
  <2> QED
    BY <2>1
<1> HIDE DEF got, n, m
<1>6. \A j \in 1 .. Len(v) : j \in 1 .. Len(w) \/ (j = Len(v) /\ v[j] = <<p, i>>)
  BY <1>1
<1>7. \A j \in 1 .. Len(v) : v[j][1] = q => v[j][2] \in got + 1 .. m
  <2> TAKE j \in 1 .. Len(v)
  <2> HAVE v[j][1] = q
  <2>1. CASE j \in 1 .. Len(w)
    <3>1. v[j] = w[j]
      BY <1>1, <2>1
    <3>2. v[j][2] \in got + 1 .. n
      BY <1>3, <2>1, <3>1
    <3> QED
      BY <1>4, <1>5, <3>2
  <2>2. CASE v[j] = <<p, i>>
    <3>1. q = p /\ m = n + 1 /\ v[j][2] = m
      BY <1>5, <2>2 DEF m
    <3> QED
      BY <1>3, <1>4, <1>5, <3>1
  <2> QED
    BY <1>6, <2>1, <2>2
<1>8. \A k \in got + 1 .. m : \E j \in 1 .. Len(v) : v[j] = <<q, k>>
  <2> TAKE k \in got + 1 .. m
  <2>1. CASE k \in got + 1 .. n
    <3> PICK j \in 1 .. Len(w) : w[j] = <<q, k>>
      BY <1>3, <2>1
    <3>1. j \in 1 .. Len(v) /\ v[j] = w[j]
      BY <1>1
    <3> QED
      BY <3>1
  <2>2. CASE k \notin got + 1 .. n
    BY <1>1, <1>4, <1>5, <2>2 DEF m
  <2> QED
    BY <2>1, <2>2
<1>9. \A j, k \in 1 .. Len(v) : j < k /\ v[j][1] = q /\ v[k][1] = q => v[j][2] < v[k][2]
  <2> TAKE j, k \in 1 .. Len(v)
  <2> HAVE j < k /\ v[j][1] = q /\ v[k][1] = q
  <2>1. j \in 1 .. Len(w)
    BY <1>1
  <2>2. v[j] = w[j]
    BY <1>1, <2>1
  <2>3. CASE k \in 1 .. Len(w)
    <3>1. v[k] = w[k]
      BY <1>1, <2>3
    <3> QED
      BY <1>3, <2>1, <2>2, <2>3, <3>1
  <2>4. CASE v[k] = <<p, i>>
    <3>1. v[k][2] = n + 1
      BY <2>4 DEF n
    <3>2. v[j][2] \in got + 1 .. n
      BY <1>3, <2>1, <2>2
    <3> QED
      BY <1>4, <1>5, <3>1, <3>2
  <2> QED
    BY <1>6, <2>3, <2>4
<1>10. Way' = v
  BY DEF v, w
<1>11. got <= m
  BY <1>3, <1>4, <1>5
<1> QED
  BY <1>3, <1>4, <1>5, <1>7, <1>8, <1>9, <1>10, <1>11 DEF PassedOn

(* The first line on the way is the next one of its instance.              *)
LEMMA FirstIsNext ==
  ASSUME TypeOK, Channels, InOrder, Way # <<>>
  PROVE  /\ Way[1][1] \in Pods
         /\ Way[1][2] = Len(received[Way[1][1]]) + 1
         /\ Len(received[Way[1][1]]) + 1 <= Sent(Way[1][1])
<1> DEFINE w == Way
           p == w[1][1]
           i == w[1][2]
           got == Len(received[p])
           n == Sent(p)
<1>1. Len(w) \in Nat /\ Len(w) > 0 /\ 1 \in 1 .. Len(w)
  <2> DEFINE L == Line
  <2>1. w \in Seq(L) /\ w # <<>>
    BY WayType
  <2> HIDE DEF w, L
  <2>2. Len(w) \in Nat /\ Len(w) > 0
    BY <2>1
  <2> QED
    BY <2>2
<1>2. p \in Pods /\ i \in Nat /\ \A j \in 1 .. Len(w) : w[j][2] \in Nat
  BY <1>1, WayType
<1>3. /\ \A j \in 1 .. Len(w) : w[j][1] = p => w[j][2] \in got + 1 .. n
      /\ \A k \in got + 1 .. n : \E j \in 1 .. Len(w) : w[j] = <<p, k>>
      /\ \A j, k \in 1 .. Len(w) : j < k /\ w[j][1] = p /\ w[k][1] = p => w[j][2] < w[k][2]
  BY <1>2 DEF InOrder, PassedOn
<1>4. got \in Nat /\ n \in Int
  BY <1>2 DEF Sent, TypeOK
<1> HIDE DEF w, got, n
<1>5. i \in got + 1 .. n
  BY <1>1, <1>3
<1>6. got + 1 \in got + 1 .. n
  BY <1>4, <1>5
<1> PICK j \in 1 .. Len(w) : w[j] = <<p, got + 1>>
  BY <1>3, <1>6
<1>7. i = got + 1
  <2>1. CASE j = 1
    BY <2>1
  <2>2. CASE j # 1
    <3>1. 1 < j /\ w[j][1] = p /\ w[j][2] = got + 1
      BY <2>2
    <3>2. i < got + 1
      BY <1>1, <1>3, <3>1
    <3> QED
      BY <1>4, <1>5, <3>2
  <2> QED
    BY <2>1, <2>2
<1>8. got + 1 <= n
  BY <1>4, <1>6
<1> QED
  BY <1>2, <1>7, <1>8 DEF w, got, n

(* The client gets the first line on the way, which is the next one of its *)
(* instance.                                                               *)
LEMMA DeliverInOrder ==
  ASSUME TypeOK, Channels, InOrder, Way # <<>>, Way' = Tail(Way),
         received' = [received EXCEPT ![Head(Way)[1]] = Append(@, Head(Way)[2])],
         \A q \in Pods : Sent(q)' = Sent(q)
  PROVE  InOrder'
<1> DEFINE w == Way
           v == Tail(w)
           p == w[1][1]
           i == w[1][2]
<1>1. /\ Len(w) \in Nat /\ Len(w) > 0 /\ Len(v) = Len(w) - 1
      /\ \A j \in 1 .. Len(v) : j + 1 \in 1 .. Len(w) /\ v[j] = w[j + 1]
      /\ \A j \in 1 .. Len(w) : w[j][1] \in Pods /\ w[j][2] \in Nat
      /\ Head(w) = w[1] /\ 1 \in 1 .. Len(w)
  <2> DEFINE L == Line
  <2>1. w \in Seq(L) /\ w # <<>>
    BY WayType
  <2> HIDE DEF w, L
  <2>2. /\ Len(w) \in Nat /\ Len(w) > 0 /\ Len(v) = Len(w) - 1
        /\ \A j \in 1 .. Len(v) : j + 1 \in 1 .. Len(w) /\ v[j] = w[j + 1]
        /\ Head(w) = w[1] /\ 1 \in 1 .. Len(w)
    BY <2>1
  <2> QED
    BY <2>2, WayType DEF w
<1>2. received' = [received EXCEPT ![p] = Append(@, i)] /\ Way' = v
  BY <1>1
<1> HIDE DEF w, v, p, i
<1>3. p \in Pods /\ i \in Nat /\ received \in [Pods -> Seq(Nat)]
  BY <1>1 DEF p, i, TypeOK
<1>4. SUFFICES ASSUME NEW q \in Pods PROVE PassedOn(q, Sent(q))'
  BY DEF InOrder
<1> DEFINE got == Len(received[q])
           now == Len(received'[q])
           n == Sent(q)
<1>5. /\ got <= n
      /\ \A j \in 1 .. got : received[q][j] = j
      /\ \A j \in 1 .. Len(w) : w[j][1] = q => w[j][2] \in got + 1 .. n
      /\ \A k \in got + 1 .. n : \E j \in 1 .. Len(w) : w[j] = <<q, k>>
      /\ \A j, k \in 1 .. Len(w) : j < k /\ w[j][1] = q /\ w[k][1] = q => w[j][2] < w[k][2]
  BY DEF InOrder, PassedOn, w
<1>6. got \in Nat /\ n \in Int /\ Sent(q)' = n
  <2>1. n \in Int
    BY DEF Sent, TypeOK
  <2> QED
    BY <1>3, <2>1
<1>7. ASSUME NEW j \in 1 .. Len(v), NEW k \in 1 .. Len(v), j < k, v[j][1] = q, v[k][1] = q
      PROVE  v[j][2] < v[k][2]
  <2>1. j + 1 \in 1 .. Len(w) /\ k + 1 \in 1 .. Len(w) /\ v[j] = w[j + 1] /\ v[k] = w[k + 1]
    BY <1>1
  <2>2. j + 1 < k + 1
    BY <1>1, <1>7
  <2> QED
    BY <1>5, <1>7, <2>1, <2>2
<1>8. CASE q # p
  <2>1. received'[q] = received[q] /\ now = got
    BY <1>2, <1>3, <1>8
  <2>2. \A k \in got + 1 .. n : \E j \in 1 .. Len(v) : v[j] = <<q, k>>
    <3> TAKE k \in got + 1 .. n
    <3> PICK j \in 1 .. Len(w) : w[j] = <<q, k>>
      BY <1>5
    <3>1. j # 1
      BY <1>8 DEF p
    <3>2. j - 1 \in 1 .. Len(v) /\ (j - 1) + 1 = j
      BY <1>1, <3>1
    <3>3. v[j - 1] = w[j]
      BY <1>1, <3>2
    <3> QED
      BY <3>2, <3>3
  <2>3. \A j \in 1 .. Len(v) : v[j][1] = q => v[j][2] \in got + 1 .. n
    BY <1>1, <1>5
  <2>4. \A j, k \in 1 .. Len(v) : j < k /\ v[j][1] = q /\ v[k][1] = q => v[j][2] < v[k][2]
    BY <1>7
  <2> QED
    BY <1>2, <1>5, <1>6, <2>1, <2>2, <2>3, <2>4 DEF PassedOn
<1>9. CASE q = p
  <2>1. i = got + 1 /\ got + 1 <= n
    BY <1>9, FirstIsNext DEF p, i, w
  <2>2. /\ now = got + 1 /\ received'[q] = Append(received[q], i)
        /\ \A j \in 1 .. now : received'[q][j] = j
    <3>1. received'[q] = Append(received[q], i) /\ received[q] \in Seq(Nat)
      BY <1>2, <1>3, <1>9
    <3>2. /\ now = got + 1 /\ received'[q][got + 1] = i
          /\ \A j \in 1 .. got : received'[q][j] = received[q][j]
      BY <3>1, <1>3, AppendProperties
    <3> QED
      BY <1>5, <1>6, <2>1, <3>1, <3>2
  <2>3. \A j \in 1 .. Len(v) : v[j][1] = q => v[j][2] \in now + 1 .. n
    <3> TAKE j \in 1 .. Len(v)
    <3> HAVE v[j][1] = q
    <3>1. j + 1 \in 1 .. Len(w) /\ v[j] = w[j + 1] /\ 1 < j + 1 /\ w[1][1] = q
      BY <1>1, <1>9 DEF p
    <3>2. w[1][2] < w[j + 1][2] /\ w[j + 1][2] \in got + 1 .. n
      BY <1>1, <1>5, <3>1
    <3>3. w[1][2] = got + 1 /\ now = got + 1
      BY <2>1, <2>2 DEF i
    <3> HIDE DEF got, now, n
    <3>4. w[j + 1][2] \in now + 1 .. n
      BY <1>6, <3>2, <3>3
    <3> QED
      BY <3>1, <3>4
  <2>4. \A k \in now + 1 .. n : \E j \in 1 .. Len(v) : v[j] = <<q, k>>
    <3> TAKE k \in now + 1 .. n
    <3>1. k \in got + 1 .. n /\ k # i
      BY <1>6, <2>1, <2>2
    <3> PICK j \in 1 .. Len(w) : w[j] = <<q, k>>
      BY <1>5, <3>1
    <3>2. j # 1
      BY <3>1 DEF i
    <3>3. j - 1 \in 1 .. Len(v) /\ (j - 1) + 1 = j
      BY <1>1, <3>2
    <3>4. v[j - 1] = w[j]
      BY <1>1, <3>3
    <3> QED
      BY <3>3, <3>4
  <2>5. \A j, k \in 1 .. Len(v) : j < k /\ v[j][1] = q /\ v[k][1] = q => v[j][2] < v[k][2]
    BY <1>7
  <2>6. now <= n
    BY <1>6, <2>1, <2>2
  <2> QED
    BY <1>2, <1>6, <2>2, <2>3, <2>4, <2>5, <2>6 DEF PassedOn
<1> QED
  BY <1>8, <1>9

-----------------------------------------------------------------------------
(* The streams that are watched can be counted; when one is added or taken *)
(* away, the number goes with it.                                          *)
LEMMA WatchedFinite ==
  ASSUME TRUE
  PROVE  IsFiniteSet(Watched) /\ Cardinality(Watched) \in Nat /\ Cardinality(Watched) <= Cardinality(Pods)
BY LogStreamAssumption, FS_Subset, FS_CardinalityType DEF Watched

LEMMA WatchedSame ==
  ASSUME Counted, main' = main, follow' = follow, cancelled => cancelled',
         \A p \in Pods : stream'[p].watch \in {"open", "wait", "finish"}
                           <=> stream[p].watch \in {"open", "wait", "finish"}
  PROVE  Counted'
<1>1. Watched' = Watched
  BY DEF Watched
<1> QED
  BY <1>1 DEF Counted

(* The request is cancelled or has ended.                                  *)
LEMMA CancelKeeps ==
  ASSUME IInv, cancelled' = TRUE, handler' \in {"serve", "left"},
         UNCHANGED <<follow, received, producers, logs, relay, msgs, crashed>>
  PROVE  IInv'
<1>1. TypeOK'
  BY DEF IInv, TypeOK
<1>2. Streams' /\ Counted' /\ Once' /\ Channels' /\ CrashOnlyAfterCancel'
  BY DEF IInv, Streams, Counted, Watched, Once, Channels, CrashOnlyAfterCancel
<1>3. InOrder'
  BY SameOrder DEF IInv, Way, Sent
<1> QED
  BY <1>1, <1>2, <1>3 DEF IInv

(* The request starts, or fails and has ended.                             *)
LEMMA QueryKeeps ==
  ASSUME IInv, Query
  PROVE  IInv'
<1>1. CASE Leave /\ UNCHANGED <<added, main, relay>>
  BY <1>1, CancelKeeps DEF Query, Leave
<1>2. ASSUME NEW listed \in SUBSET Pods, added' = [added EXCEPT !.cap = Cardinality(listed)],
             handler' = "serve",
             main' = [main EXCEPT !.at = "select"],
             relay' = [relay EXCEPT !.at = "range"],
             handler = "query",
             UNCHANGED <<follow, cancelled, received, informer, stream, logs, msgs, crashed>>
      PROVE  IInv'
  <2>1. Cardinality(listed) \in 0 .. Cardinality(Pods)
    BY LogStreamAssumption, FS_Subset, FS_CardinalityType
  <2>2. TypeOK'
    BY <1>2, <2>1 DEF IInv, TypeOK
  <2>3. Streams' /\ Once' /\ Channels' /\ CrashOnlyAfterCancel'
    BY <1>2 DEF IInv, TypeOK, Streams, Once, Channels, CrashOnlyAfterCancel
  <2>4. Counted'
    BY <1>2 DEF IInv, TypeOK, Counted, Watched
  <2>5. InOrder'
    <3>1. relay.at # "send" /\ relay'.at # "send"
      BY <1>2 DEF IInv, TypeOK, Channels
    <3> QED
      BY <1>2, <3>1, SameOrder DEF IInv, Way, Sent
  <2> QED
    BY <2>2, <2>3, <2>4, <2>5 DEF IInv
<1> QED
  BY <1>1, <1>2 DEF Query

(* While msgs holds lines, its first one is the first of all.              *)
LEMMA WayStarts ==
  ASSUME IInv, msgs # <<>>
  PROVE  Way # <<>> /\ Head(Way) = Head(msgs) /\ Way[1] = Head(msgs)
<1>1. /\ msgs \in Seq(Line) /\ logs \in Seq(Line) /\ (relay.at = "send" => <<relay.line>> \in Seq(Line))
      /\ <<>> \in Seq(Line)
  BY DEF IInv, TypeOK, Channels
<1>2. ASSUME NEW m \in Seq(Line)
      PROVE  /\ (msgs \o m) \o logs # <<>> /\ Head((msgs \o m) \o logs) = Head(msgs)
             /\ ((msgs \o m) \o logs)[1] = Head(msgs)
  <2> DEFINE L == Line
             v == (msgs \o m) \o logs
  <2>1. msgs \in Seq(L) /\ m \in Seq(L) /\ logs \in Seq(L)
    BY <1>1, <1>2
  <2> HIDE DEF L
  <2>2. v # <<>> /\ Head(v) = Head(msgs)
    BY <2>1, HeadFirst
  <2>3. v \in Seq(L)
    BY <2>1
  <2> HIDE DEF v
  <2>4. v[1] = Head(v)
    BY <2>2, <2>3
  <2> QED
    BY <2>2, <2>4 DEF v
<1> QED
  BY <1>1, <1>2 DEF Way

(* The client gets the first line on the way.                              *)
LEMMA DeliverKeeps ==
  ASSUME IInv, Deliver
  PROVE  IInv'
<1>1. /\ handler = "serve" /\ msgs # <<>> /\ msgs' = Tail(msgs)
      /\ received' = [received EXCEPT ![Head(msgs)[1]] = Append(@, Head(msgs)[2])]
      /\ UNCHANGED <<follow, handler, cancelled, producers, logs, relay, crashed>>
  BY DEF Deliver
<1>2. /\ msgs \in Seq(Line) /\ logs \in Seq(Line) /\ (relay.at = "send" => <<relay.line>> \in Seq(Line))
      /\ <<>> \in Seq(Line)
  BY DEF IInv, TypeOK, Channels
<1>3. /\ Way # <<>> /\ Head(Way) = Head(msgs) /\ Way' = Tail(Way)
      /\ Head(msgs) \in Line /\ Tail(msgs) \in Seq(Line)
      /\ Len(Tail(msgs)) = Len(msgs) - 1 /\ Len(msgs) \in Nat
  <2>1. /\ Head(msgs) \in Line /\ Tail(msgs) \in Seq(Line)
        /\ Len(Tail(msgs)) = Len(msgs) - 1 /\ Len(msgs) \in Nat
    BY <1>1, <1>2, HeadTailProperties, LenProperties
  <2>2. ASSUME NEW m \in Seq(Line)
        PROVE  (Tail(msgs) \o m) \o logs = Tail((msgs \o m) \o logs)
    <3> DEFINE L == Line
    <3>1. msgs \in Seq(L) /\ m \in Seq(L) /\ logs \in Seq(L) /\ msgs # <<>>
      BY <1>1, <1>2
    <3> HIDE DEF L
    <3> QED
      BY <3>1, TakeFirst
  <2>3. Way' = Tail(Way)
    BY <1>1, <1>2, <2>2 DEF Way
  <2> QED
    BY <1>1, <2>1, <2>3, WayStarts
<1>4. Head(msgs)[1] \in Pods /\ Head(msgs)[2] \in Nat
  BY <1>3 DEF Line
<1>5. received' \in [Pods -> Seq(Nat)]
  BY <1>1, <1>4 DEF IInv, TypeOK
<1>6. TypeOK'
  <2>1. msgs' \in Seq(Line) /\ Len(msgs') <= MsgBuffer
    BY <1>1, <1>3, LogStreamAssumption DEF IInv, TypeOK
  <2> QED
    BY <1>1, <1>5, <2>1 DEF IInv, TypeOK
<1>7. Streams' /\ Counted' /\ Once' /\ Channels' /\ CrashOnlyAfterCancel'
  BY <1>1 DEF IInv, Streams, Counted, Watched, Once, Channels, CrashOnlyAfterCancel
<1>8. InOrder'
  BY <1>1, <1>3, DeliverInOrder DEF IInv, Sent
<1> QED
  BY <1>6, <1>7, <1>8 DEF IInv

-----------------------------------------------------------------------------
(* The informer: an instance is told of once, and sent once.               *)
LEMMA InformerSeesKeeps ==
  ASSUME IInv, NEW p \in Pods, InformerSees(p)
  PROVE  IInv'
<1>1. /\ p \notin informer.told
      /\ informer' = [sending |-> p, told |-> informer.told \cup {p}]
      /\ UNCHANGED <<request, added, main, stream, logs, relay, msgs, crashed>>
  BY DEF InformerSees
<1>2. TypeOK'
  BY <1>1 DEF IInv, TypeOK
<1>3. Streams' /\ Counted' /\ Channels' /\ CrashOnlyAfterCancel'
  BY <1>1 DEF IInv, Streams, Counted, Watched, Channels, CrashOnlyAfterCancel
<1>4. Once'
  BY <1>1 DEF IInv, Once
<1>5. InOrder'
  BY <1>1, SameOrder DEF IInv, Way, Sent
<1> QED
  BY <1>2, <1>3, <1>4, <1>5 DEF IInv

LEMMA OnAddKeeps ==
  ASSUME IInv, OnAdd
  PROVE  IInv'
<1> DEFINE p == informer.sending
           buf == added.buf
<1>1. UNCHANGED <<request, main, stream, logs, relay, msgs>> /\ p # NoPod
  BY DEF OnAdd
<1>2. CASE added.closed /\ crashed' = TRUE /\ UNCHANGED <<informer, added>>
  <2>1. TypeOK' /\ Streams' /\ Counted' /\ Once' /\ Channels' /\ CrashOnlyAfterCancel'
    BY <1>1, <1>2 DEF IInv, TypeOK, Streams, Counted, Watched, Once, Channels, CrashOnlyAfterCancel
  <2>2. InOrder'
    BY <1>1, SameOrder DEF IInv, Way, Sent
  <2> QED
    BY <2>1, <2>2 DEF IInv
<1>3. CASE /\ ~added.closed
           /\ added' = [added EXCEPT !.buf = Append(@, p)]
           /\ informer' = [informer EXCEPT !.sending = NoPod]
           /\ UNCHANGED crashed
  <2>1. p \in Pods /\ buf \in Seq(Pods) /\ IsInjective(buf) /\ p \notin Range(buf)
    BY <1>1 DEF IInv, TypeOK, Once
  <2>2. /\ Append(buf, p) \in Seq(Pods)
        /\ Range(Append(buf, p)) = Range(buf) \cup {p}
        /\ IsInjective(Append(buf, p))
    BY <2>1, AppendNew
  <2>3. /\ added'.buf = Append(buf, p) /\ added'.closed = added.closed
        /\ informer'.sending = NoPod /\ informer'.told = informer.told
    BY <1>3 DEF IInv, TypeOK
  <2>4. TypeOK'
    BY <1>1, <1>3, <2>2 DEF IInv, TypeOK
  <2>5. Once'
    <3>1. NoPod \notin Range(Append(buf, p))
      BY <2>2, RangeOfSeq, LogStreamAssumption
    <3> QED
      BY <1>1, <2>1, <2>2, <2>3, <3>1, LogStreamAssumption DEF IInv, Once
  <2>6. Streams' /\ Counted' /\ Channels' /\ CrashOnlyAfterCancel'
    BY <1>1, <1>3, <2>3 DEF IInv, Streams, Counted, Watched, Channels, CrashOnlyAfterCancel
  <2>7. InOrder'
    BY <1>1, SameOrder DEF IInv, Way, Sent
  <2> QED
    BY <2>4, <2>5, <2>6, <2>7 DEF IInv
<1> QED
  BY <1>2, <1>3 DEF OnAdd

LEMMA CloseAddedKeeps ==
  ASSUME IInv, CloseAdded
  PROVE  IInv'
<1>1. /\ cancelled /\ added' = [added EXCEPT !.closed = TRUE]
      /\ UNCHANGED <<request, informer, main, stream, logs, relay, msgs, crashed>>
  BY DEF CloseAdded
<1>2. TypeOK' /\ added'.buf = added.buf
  BY <1>1 DEF IInv, TypeOK
<1>3. Streams' /\ Counted' /\ Once' /\ Channels' /\ CrashOnlyAfterCancel'
  BY <1>1, <1>2 DEF IInv, Streams, Counted, Watched, Once, Channels, CrashOnlyAfterCancel
<1>4. InOrder'
  BY <1>1, SameOrder DEF IInv, Way, Sent
<1> QED
  BY <1>2, <1>3, <1>4 DEF IInv

-----------------------------------------------------------------------------
(* main: it ends with the context, or when a log that is not followed has  *)
(* no stream any more.                                                     *)
LEMMA ContextDoneKeeps ==
  ASSUME IInv, ContextDone
  PROVE  IInv'
<1>1. /\ cancelled /\ main' = [main EXCEPT !.at = "returned"]
      /\ UNCHANGED <<request, informer, added, stream, logs, relay, msgs, crashed>>
  BY DEF ContextDone
<1>2. TypeOK' /\ main'.watching = main.watching
  BY <1>1 DEF IInv, TypeOK
<1>3. Streams' /\ Counted' /\ Once' /\ Channels' /\ CrashOnlyAfterCancel'
  BY <1>1, <1>2 DEF IInv, Streams, Counted, Watched, Once, Channels, CrashOnlyAfterCancel
<1>4. InOrder'
  BY <1>1, SameOrder DEF IInv, Way, Sent
<1> QED
  BY <1>2, <1>3, <1>4 DEF IInv

LEMMA FinishedKeeps ==
  ASSUME IInv, NEW p \in Pods, Finished(p)
  PROVE  IInv'
<1>1. /\ main.at = "select" /\ stream[p].watch = "finish"
      /\ main' = [at |-> IF main.watching = 1 /\ ~follow THEN "returned" ELSE "select",
                  watching |-> main.watching - 1]
      /\ stream' = [stream EXCEPT ![p].watch = "ended"]
      /\ UNCHANGED <<request, informer, added, logs, relay, msgs, crashed>>
  BY DEF Finished
<1>2. /\ stream' \in [Pods -> StreamRecords]
      /\ stream'[p] = [stream[p] EXCEPT !.watch = "ended"]
      /\ \A q \in Pods \ {p} : stream'[q] = stream[q]
  BY <1>1 DEF IInv, TypeOK, StreamRecords
<1>3. Watched' = Watched \ {p} /\ p \in Watched
  BY <1>1, <1>2 DEF Watched, StreamRecords
<1>4. /\ Cardinality(Watched') = Cardinality(Watched) - 1 /\ IsFiniteSet(Watched')
      /\ Cardinality(Watched') \in Nat
  BY <1>3, WatchedFinite, FS_RemoveElement, FS_CardinalityType
<1>5. TypeOK'
  <2>1. main.watching = Cardinality(Watched) /\ Cardinality(Watched) <= Cardinality(Pods)
    BY WatchedFinite DEF IInv, Counted
  <2>2. main.watching - 1 \in 0 .. Cardinality(Pods)
    BY <1>4, <2>1, WatchedFinite, FS_CardinalityType, LogStreamAssumption
  <2> QED
    BY <1>1, <1>2, <2>2 DEF IInv, TypeOK, StreamRecords
<1>6. Counted'
  <2>1. main'.watching = Cardinality(Watched')
    BY <1>1, <1>4 DEF IInv, Counted
  <2>2. main'.at = "returned" => ~follow /\ Watched' = {}
    BY <1>1, <1>4, FS_EmptySet, WatchedFinite DEF IInv, Counted
  <2> QED
    BY <1>1, <2>1, <2>2 DEF Counted
<1>7. Streams'
  BY <1>1, <1>2 DEF IInv, TypeOK, Streams, Ended, StreamRecords
<1>8. Once' /\ Channels' /\ CrashOnlyAfterCancel'
  BY <1>1, <1>2 DEF IInv, Once, Channels, CrashOnlyAfterCancel, StreamRecords
<1>9. InOrder'
  BY <1>1, <1>2, SameOrder DEF IInv, TypeOK, Way, Sent, StreamRecords
<1> QED
  BY <1>5, <1>6, <1>7, <1>8, <1>9 DEF IInv

LEMMA AddedKeeps ==
  ASSUME IInv, Added
  PROVE  IInv'
<1> DEFINE p == Head(added.buf)
<1>1. /\ main.at = "select" /\ added.buf # <<>>
      /\ added' = [added EXCEPT !.buf = Tail(@)]
      /\ main' = [main EXCEPT !.watching = @ + 1]
      /\ stream' = [stream EXCEPT ![p].watch = "open"]
      /\ UNCHANGED <<request, informer, logs, relay, msgs, crashed>>
  BY DEF Added
<1>2. /\ p \in Range(added.buf) /\ p \in Pods
      /\ Tail(added.buf) \in Seq(Pods) /\ IsInjective(Tail(added.buf))
      /\ Range(Tail(added.buf)) = Range(added.buf) \ {p}
  <2>1. added.buf \in Seq(Pods) /\ IsInjective(added.buf)
    BY DEF IInv, TypeOK, Once
  <2> QED
    BY <1>1, <2>1, TailRest, RangeOfSeq
<1> HIDE DEF p
<1>3. /\ added'.buf = Tail(added.buf) /\ added'.closed = added.closed
      /\ main'.watching = main.watching + 1 /\ main'.at = main.at
  BY <1>1 DEF IInv, TypeOK
<1>4. /\ stream' \in [Pods -> StreamRecords]
      /\ stream'[p] = [stream[p] EXCEPT !.watch = "open"]
      /\ \A q \in Pods \ {p} : stream'[q] = stream[q]
  <2>1. stream \in [Pods -> StreamRecords]
    BY DEF IInv, TypeOK, StreamRecords
  <2> QED
    BY <1>1, <1>2, <2>1 DEF StreamRecords
<1>5. stream[p].watch = "none" /\ stream[p].reader = "none" /\ p # informer.sending
  BY <1>2 DEF IInv, Once, Streams
<1>6. Watched' = Watched \cup {p} /\ p \notin Watched
  BY <1>2, <1>4, <1>5 DEF Watched, IInv, TypeOK
<1>7. /\ Cardinality(Watched') = Cardinality(Watched) + 1
      /\ Cardinality(Watched') <= Cardinality(Pods) /\ Cardinality(Pods) \in Nat
  <2>1. Watched' \subseteq Pods
    BY <1>2, <1>6 DEF Watched
  <2> QED
    BY <1>6, <2>1, WatchedFinite, FS_AddElement, FS_Subset, FS_CardinalityType, LogStreamAssumption
<1>8. main' \in [at : {"none", "select", "returned"}, watching : 0 .. Cardinality(Pods)]
  <2>1. main.watching = Cardinality(Watched)
    BY DEF IInv, Counted
  <2>2. main.watching + 1 \in 0 .. Cardinality(Pods)
    BY <1>7, <2>1, WatchedFinite
  <2> QED
    BY <1>1, <2>2 DEF IInv, TypeOK
<1>9. TypeOK'
  BY <1>1, <1>2, <1>4, <1>8 DEF IInv, TypeOK, StreamRecords
<1>10. Counted'
  BY <1>1, <1>3, <1>7 DEF IInv, Counted
<1>11. Streams'
  <2>1. UNCHANGED cancelled /\ stream'[p].read = stream[p].read /\ stream[p] \in StreamRecords
    BY <1>1, <1>2, <1>4 DEF IInv, TypeOK, StreamRecords, request
  <2>2. stream'[p].watch = "open" /\ stream'[p].reader = "none"
    BY <1>4, <1>5, <2>1 DEF StreamRecords
  <2>3. stream[p].read <= Terminated(p)
    BY <1>2 DEF IInv, Streams
  <2> QED
    BY <1>2, <1>4, <2>1, <2>2, <2>3 DEF IInv, Streams, Ended
<1>12. Once'
  BY <1>1, <1>2, <1>3, <1>4, <1>5 DEF IInv, Once
<1>13. Channels' /\ CrashOnlyAfterCancel'
  BY <1>1, <1>3 DEF IInv, Channels, CrashOnlyAfterCancel
<1>14. InOrder'
  BY <1>1, <1>2, <1>4, SameOrder DEF IInv, TypeOK, Way, Sent, StreamRecords
<1> QED
  BY <1>9, <1>10, <1>11, <1>12, <1>13, <1>14 DEF IInv

-----------------------------------------------------------------------------
(* podLogs and its reader: a step of theirs changes the record of one      *)
(* stream, which is counted after it as before.                            *)
OneStream(p) ==
  /\ stream' \in [Pods -> StreamRecords]
  /\ \A q \in Pods \ {p} : stream'[q] = stream[q]

LEMMA StreamKeeps ==
  ASSUME IInv, NEW p \in Pods, OneStream(p), Sent(p)' = Sent(p),
         UNCHANGED <<request, informer, added, main, logs, relay, msgs, crashed>>,
         stream[p].watch # "none", stream'[p].watch # "none",
         stream'[p].watch = "ended" <=> stream[p].watch = "ended",
         stream'[p].watch = "open" => stream'[p].reader = "none",
         stream'[p].read <= Terminated(p),
         stream'[p].reader = "send" => stream'[p].read > 0,
         ~cancelled =>
           /\ stream'[p].watch \in Ended => stream'[p].reader \in {"none", "ended"}
           /\ stream'[p].watch \in Ended /\ stream'[p].clean
                => stream'[p].reader = "ended" /\ stream'[p].read = Terminated(p)
           /\ stream'[p].reader = "done" /\ stream'[p].clean => stream'[p].read = Terminated(p)
  PROVE  IInv'
<1>1. stream \in [Pods -> StreamRecords] /\ stream' \in [Pods -> StreamRecords]
  BY DEF IInv, TypeOK, StreamRecords, OneStream
<1>2. TypeOK'
  BY <1>1 DEF IInv, TypeOK, StreamRecords
<1>3. Streams'
  <2> SUFFICES ASSUME NEW q \in Pods
               PROVE  LET s == stream'[q] IN
                      /\ s.watch \in {"none", "open"} => s.reader = "none"
                      /\ s.read <= Terminated(q)
                      /\ s.reader = "send" => s.read > 0
                      /\ ~cancelled' =>
                           /\ s.watch \in Ended => s.reader \in {"none", "ended"}
                           /\ s.watch \in Ended /\ s.clean => s.reader = "ended" /\ s.read = Terminated(q)
                           /\ s.reader = "done" /\ s.clean => s.read = Terminated(q)
    BY DEF Streams, Ended
  <2>1. CASE q = p
    BY <2>1
  <2>2. CASE q # p
    BY <2>2 DEF OneStream, IInv, Streams
  <2> QED
    BY <2>1, <2>2
<1>4. Counted'
  <2>1. \A q \in Pods : stream'[q].watch \in {"open", "wait", "finish"}
                          <=> stream[q].watch \in {"open", "wait", "finish"}
    BY <1>1 DEF OneStream, StreamRecords
  <2> QED
    BY <2>1, WatchedSame DEF IInv
<1>5. Once'
  BY DEF IInv, Once, OneStream
<1>6. Channels' /\ CrashOnlyAfterCancel'
  BY DEF IInv, Channels, CrashOnlyAfterCancel
<1>7. InOrder'
  <2>1. \A q \in Pods : Sent(q)' = Sent(q)
    BY DEF OneStream, Sent
  <2> QED
    BY <2>1, SameOrder DEF IInv, Way
<1> QED
  BY <1>2, <1>3, <1>4, <1>5, <1>6, <1>7 DEF IInv

(* At most one line is left over.                                          *)
LEMMA LinesOf ==
  \A p \in Pods : Terminated(p) \in Nat /\ Terminated(p) <= Lines[p] /\ Lines[p] \in Nat
BY LogStreamAssumption DEF Terminated

(* What the invariant says of one stream.                                  *)
LEMMA StreamOf ==
  ASSUME IInv, NEW p \in Pods
  PROVE  /\ stream \in [Pods -> StreamRecords] /\ stream[p] \in StreamRecords
         /\ Terminated(p) \in Nat /\ Terminated(p) <= Lines[p] /\ Lines[p] \in Nat
         /\ stream[p].watch \in {"none", "open"} => stream[p].reader = "none"
         /\ stream[p].read <= Terminated(p)
         /\ stream[p].reader = "send" => stream[p].read > 0
         /\ ~cancelled =>
              /\ stream[p].watch \in Ended => stream[p].reader \in {"none", "ended"}
              /\ stream[p].watch \in Ended /\ stream[p].clean
                   => stream[p].reader = "ended" /\ stream[p].read = Terminated(p)
              /\ stream[p].reader = "done" /\ stream[p].clean => stream[p].read = Terminated(p)
<1>1. stream \in [Pods -> StreamRecords]
  BY DEF IInv, TypeOK, StreamRecords
<1> QED
  BY <1>1, LinesOf DEF IInv, Streams

LEMMA OpenStreamKeeps ==
  ASSUME IInv, NEW p \in Pods, OpenStream(p)
  PROVE  IInv'
<1>1. /\ stream[p].watch = "open"
      /\ UNCHANGED <<request, informer, added, main, logs, relay, msgs, crashed>>
  BY DEF OpenStream
<1>2. CASE stream' = [stream EXCEPT ![p].watch = "wait", ![p].reader = "read"]
  <2>1. /\ OneStream(p) /\ stream'[p].watch = "wait" /\ stream'[p].reader = "read"
        /\ stream'[p].read = stream[p].read
    BY <1>2, StreamOf DEF OneStream, StreamRecords
  <2> QED
    BY <1>1, <2>1, StreamOf, StreamKeeps DEF Sent, Ended
<1>3. CASE stream' = [stream EXCEPT ![p].watch = "finish", ![p].clean = FALSE]
  <2>1. /\ OneStream(p) /\ stream'[p].watch = "finish" /\ stream'[p].reader = stream[p].reader
        /\ stream'[p].read = stream[p].read /\ stream'[p].clean = FALSE
    BY <1>3, StreamOf DEF OneStream, StreamRecords
  <2> QED
    BY <1>1, <2>1, StreamOf, StreamKeeps DEF Sent, Ended
<1> QED
  BY <1>2, <1>3 DEF OpenStream

LEMMA WatchCancelledKeeps ==
  ASSUME IInv, NEW p \in Pods, WatchCancelled(p)
  PROVE  IInv'
<1>1. /\ stream[p].watch = "wait" /\ cancelled
      /\ stream' = [stream EXCEPT ![p].watch = "finish"]
      /\ UNCHANGED <<request, informer, added, main, logs, relay, msgs, crashed>>
  BY DEF WatchCancelled
<1>2. /\ OneStream(p) /\ stream'[p].watch = "finish" /\ stream'[p].reader = stream[p].reader
      /\ stream'[p].read = stream[p].read
  BY <1>1, StreamOf DEF OneStream, StreamRecords
<1> QED
  BY <1>1, <1>2, StreamOf, StreamKeeps DEF Sent, Ended

LEMMA WatchDoneKeeps ==
  ASSUME IInv, NEW p \in Pods, WatchDone(p)
  PROVE  IInv'
<1>1. /\ stream[p].watch = "wait" /\ stream[p].reader = "done"
      /\ stream' = [stream EXCEPT ![p].watch = "finish", ![p].reader = "ended"]
      /\ UNCHANGED <<request, informer, added, main, logs, relay, msgs, crashed>>
  BY DEF WatchDone
<1>2. /\ OneStream(p) /\ stream'[p].watch = "finish" /\ stream'[p].reader = "ended"
      /\ stream'[p].read = stream[p].read /\ stream'[p].clean = stream[p].clean
  BY <1>1, StreamOf DEF OneStream, StreamRecords
<1> QED
  BY <1>1, <1>2, StreamOf, StreamKeeps DEF Sent, Ended

LEMMA ReadLineKeeps ==
  ASSUME IInv, NEW p \in Pods, ReadLine(p)
  PROVE  IInv'
<1>1. /\ stream[p].reader = "read" /\ stream[p].read < Terminated(p)
      /\ stream' = [stream EXCEPT ![p].reader = "send", ![p].read = @ + 1]
      /\ UNCHANGED <<request, informer, added, main, logs, relay, msgs, crashed>>
  BY DEF ReadLine
<1>2. /\ OneStream(p) /\ stream'[p].watch = stream[p].watch /\ stream'[p].reader = "send"
      /\ stream'[p].read = stream[p].read + 1 /\ stream[p].read \in Nat /\ Terminated(p) \in Nat
  BY <1>1, StreamOf DEF OneStream, StreamRecords
<1> QED
  BY <1>1, <1>2, StreamOf, StreamKeeps DEF Sent, Ended

LEMMA ReadEndsKeeps ==
  ASSUME IInv, NEW p \in Pods, ReadEnds(p)
  PROVE  IInv'
<1>1. /\ stream[p].reader = "read" /\ (stream[p].watch # "wait" \/ stream[p].read = Terminated(p))
      /\ stream' = [stream EXCEPT ![p].reader = "done"]
      /\ UNCHANGED <<request, informer, added, main, logs, relay, msgs, crashed>>
  BY DEF ReadEnds
<1>2. /\ OneStream(p) /\ stream'[p].watch = stream[p].watch /\ stream'[p].reader = "done"
      /\ stream'[p].read = stream[p].read
  BY <1>1, StreamOf DEF OneStream, StreamRecords
<1>3. ~cancelled => stream[p].watch = "wait"
  BY <1>1, StreamOf DEF StreamRecords, Ended
<1> QED
  BY <1>1, <1>2, <1>3, StreamOf, StreamKeeps DEF Sent, Ended

LEMMA ReadFailsKeeps ==
  ASSUME IInv, NEW p \in Pods, ReadFails(p)
  PROVE  IInv'
<1>1. /\ stream[p].reader = "read" /\ stream[p].watch = "wait"
      /\ stream' = [stream EXCEPT ![p].reader = "done", ![p].clean = FALSE]
      /\ UNCHANGED <<request, informer, added, main, logs, relay, msgs, crashed>>
  BY DEF ReadFails
<1>2. /\ OneStream(p) /\ stream'[p].watch = "wait" /\ stream'[p].reader = "done"
      /\ stream'[p].read = stream[p].read /\ stream'[p].clean = FALSE
  BY <1>1, StreamOf DEF OneStream, StreamRecords
<1> QED
  BY <1>1, <1>2, StreamOf, StreamKeeps DEF Sent, Ended

-----------------------------------------------------------------------------
(* The channels.  A line is put behind those on the way; while the context *)
(* has not ended, the reader that sends it still has its stream, and so    *)
(* main has not returned.                                                  *)
LEMMA SendLineKeeps ==
  ASSUME IInv, NEW p \in Pods, SendLine(p)
  PROVE  IInv'
<1>1. stream[p].reader = "send" /\ UNCHANGED <<request, informer, added, main, relay, msgs>>
  BY DEF SendLine
<1>2. CASE main.at = "returned" /\ crashed' = TRUE /\ UNCHANGED <<logs, stream>>
  <2>1. cancelled
    <3>1. SUFFICES ASSUME ~cancelled PROVE FALSE
      OBVIOUS
    <3>2. stream[p].watch \notin {"open", "wait", "finish"}
      BY <1>2, <3>1 DEF IInv, Counted, Watched
    <3>3. stream[p].watch \in {"none", "open", "wait", "finish", "ended"}
      BY StreamOf DEF StreamRecords
    <3> QED
      BY <1>1, <3>1, <3>2, <3>3, StreamOf DEF Ended
  <2>2. TypeOK' /\ Streams' /\ Counted' /\ Once' /\ Channels' /\ CrashOnlyAfterCancel'
    BY <1>1, <1>2, <2>1 DEF IInv, TypeOK, Streams, Counted, Watched, Once, Channels, CrashOnlyAfterCancel
  <2>3. InOrder'
    BY <1>1, <1>2, SameOrder DEF IInv, Way, Sent
  <2> QED
    BY <2>2, <2>3 DEF IInv
<1>3. CASE /\ Len(logs) < LogBuffer
           /\ logs' = Append(logs, <<p, stream[p].read>>)
           /\ stream' = [stream EXCEPT ![p].reader = "read"]
           /\ UNCHANGED crashed
  <2> DEFINE line == <<p, stream[p].read>>
  <2>1. /\ OneStream(p) /\ stream'[p].watch = stream[p].watch /\ stream'[p].reader = "read"
        /\ stream'[p].read = stream[p].read /\ stream'[p].clean = stream[p].clean
        /\ stream[p].read \in Nat
    BY <1>3, StreamOf DEF OneStream, StreamRecords
  <2>2. line \in Line
    BY <1>1, <2>1, StreamOf DEF Line
  <2>3. logs' \in Seq(Line) /\ Len(logs') <= LogBuffer
    <3>1. logs \in Seq(Line) /\ LogBuffer \in Nat
      BY LogStreamAssumption DEF IInv, TypeOK
    <3>2. logs' \in Seq(Line) /\ Len(logs') = Len(logs) + 1 /\ Len(logs) \in Nat
      BY <1>3, <2>2, <3>1, AppendProperties, LenProperties
    <3> QED
      BY <1>3, <3>1, <3>2
  <2>4. TypeOK'
    BY <1>1, <1>3, <2>1, <2>3 DEF IInv, TypeOK, OneStream, StreamRecords
  <2>5. Streams'
    <3>1. ~cancelled => stream[p].watch \notin Ended
      BY <1>1, StreamOf
    <3> QED
      BY <1>1, <2>1, <3>1 DEF OneStream, IInv, Streams, Ended
  <2>6. Counted'
    <3>1. \A q \in Pods : stream'[q].watch \in {"open", "wait", "finish"}
                            <=> stream[q].watch \in {"open", "wait", "finish"}
      BY <2>1 DEF OneStream
    <3> QED
      BY <1>1, <3>1, WatchedSame DEF IInv
  <2>7. Once'
    BY <1>1, <2>1 DEF OneStream, IInv, Once
  <2>8. Channels' /\ CrashOnlyAfterCancel'
    BY <1>1, <1>3 DEF IInv, Channels, CrashOnlyAfterCancel
  <2>9. InOrder'
    <3>1. ASSUME NEW m \in Seq(Line)
          PROVE  (msgs \o m) \o logs' = Append((msgs \o m) \o logs, line)
      <4> DEFINE L == Line
                 e == line
      <4>1. msgs \in Seq(L) /\ m \in Seq(L) /\ logs \in Seq(L) /\ e \in L
        BY <2>2 DEF IInv, TypeOK
      <4> HIDE DEF L, e
      <4>2. (msgs \o m) \o Append(logs, e) = Append((msgs \o m) \o logs, e)
        BY <4>1, PutLast
      <4> QED
        BY <1>3, <4>2 DEF e
    <3>2. <<>> \in Seq(Line) /\ (relay.at = "send" => <<relay.line>> \in Seq(Line))
      BY DEF IInv, Channels
    <3>3. Way' = Append(Way, line)
      BY <1>1, <3>1, <3>2 DEF Way
    <3>4. stream[p].read = Sent(p) + 1 /\ Sent(p)' = stream[p].read /\ Sent(p) \in Nat
      BY <1>1, <2>1, StreamOf DEF Sent
    <3>5. \A q \in Pods \ {p} : Sent(q)' = Sent(q)
      BY <2>1 DEF OneStream, Sent
    <3> QED
      BY <1>1, <2>1, <3>3, <3>4, <3>5, SendInOrder DEF IInv
  <2> QED
    BY <2>4, <2>5, <2>6, <2>7, <2>8, <2>9 DEF IInv
<1> QED
  BY <1>2, <1>3 DEF SendLine

(* The relay takes a line from the one channel and puts it into the other: *)
(* what is on the way stays the same.                                      *)
LEMMA RelayTakesKeeps ==
  ASSUME IInv, RelayTakes
  PROVE  IInv'
<1>1. relay.at = "range" /\ UNCHANGED <<request, producers, msgs, crashed>>
  BY DEF RelayTakes
<1>2. msgs \in Seq(Line) /\ logs \in Seq(Line) /\ Len(logs) <= LogBuffer
  BY DEF IInv, TypeOK
<1>3. CASE logs # <<>> /\ relay' = [at |-> "send", line |-> Head(logs)] /\ logs' = Tail(logs)
  <2>1. /\ Head(logs) \in Line /\ Tail(logs) \in Seq(Line)
        /\ Len(Tail(logs)) = Len(logs) - 1 /\ Len(logs) \in Nat
    BY <1>2, <1>3, HeadTailProperties, LenProperties
  <2>2. logs' \in Seq(Line) /\ Len(logs') <= LogBuffer
    BY <1>2, <1>3, <2>1, LogStreamAssumption
  <2>3. TypeOK'
    BY <1>1, <1>3, <2>1, <2>2 DEF IInv, TypeOK
  <2>4. Channels'
    BY <1>1, <1>3, <2>1 DEF IInv, Channels
  <2>5. Way' = Way
    <3>1. (msgs \o <<Head(logs)>>) \o Tail(logs) = (msgs \o <<>>) \o logs
      BY <1>2, <1>3, <2>1, MoveForward
    <3> QED
      BY <1>1, <1>3, <3>1 DEF Way
  <2>6. Streams' /\ Counted' /\ Once' /\ CrashOnlyAfterCancel'
    BY <1>1 DEF IInv, Streams, Counted, Watched, Once, CrashOnlyAfterCancel
  <2>7. InOrder'
    BY <1>1, <2>5, SameOrder DEF IInv, Sent
  <2> QED
    BY <2>3, <2>4, <2>6, <2>7 DEF IInv
<1>4. CASE relay' = [relay EXCEPT !.at = "ended"] /\ UNCHANGED logs
  <2>1. relay'.at = "ended"
    BY <1>4 DEF IInv, TypeOK
  <2>2. TypeOK'
    BY <1>1, <1>4 DEF IInv, TypeOK
  <2>3. Streams' /\ Counted' /\ Once' /\ Channels' /\ CrashOnlyAfterCancel'
    BY <1>1, <1>4, <2>1 DEF IInv, Streams, Counted, Watched, Once, Channels, CrashOnlyAfterCancel
  <2>4. InOrder'
    BY <1>1, <1>4, <2>1, SameOrder DEF IInv, Way, Sent
  <2> QED
    BY <2>2, <2>3, <2>4 DEF IInv
<1> QED
  BY <1>3, <1>4 DEF RelayTakes

LEMMA RelaySendsKeeps ==
  ASSUME IInv, RelaySends
  PROVE  IInv'
<1>1. /\ relay.at = "send" /\ Len(msgs) < MsgBuffer
      /\ msgs' = Append(msgs, relay.line)
      /\ relay' = [at |-> "range", line |-> NoPod]
      /\ UNCHANGED <<request, producers, logs, crashed>>
  BY DEF RelaySends
<1>2. msgs \in Seq(Line) /\ logs \in Seq(Line) /\ relay.line \in Line /\ handler # "query"
  BY <1>1 DEF IInv, TypeOK, Channels
<1>3. msgs' \in Seq(Line) /\ Len(msgs') <= MsgBuffer
  <2>1. msgs' \in Seq(Line) /\ Len(msgs') = Len(msgs) + 1 /\ Len(msgs) \in Nat
    BY <1>1, <1>2, AppendProperties, LenProperties
  <2> QED
    BY <1>1, <2>1, LogStreamAssumption
<1>4. TypeOK'
  BY <1>1, <1>3 DEF IInv, TypeOK
<1>5. Streams' /\ Counted' /\ Once' /\ Channels' /\ CrashOnlyAfterCancel'
  BY <1>1, <1>2 DEF IInv, Streams, Counted, Watched, Once, Channels, CrashOnlyAfterCancel
<1>6. Way' = Way
  <2>1. (Append(msgs, relay.line) \o <<>>) \o logs = (msgs \o <<relay.line>>) \o logs
    BY <1>2, MoveForward
  <2> QED
    BY <1>1, <2>1 DEF Way
<1>7. InOrder'
  BY <1>1, <1>6, SameOrder DEF IInv, Sent
<1> QED
  BY <1>4, <1>5, <1>7 DEF IInv

-----------------------------------------------------------------------------
LEMMA InitHolds ==
  ASSUME Init
  PROVE  IInv
<1>1. TypeOK
  <2>1. Cardinality(Pods) \in Nat
    BY LogStreamAssumption, FS_CardinalityType
  <2>2. 0 \in 0 .. Cardinality(Pods)
    BY <2>1
  <2>3. <<>> \in Seq(Nat) /\ <<>> \in Seq(Pods) /\ <<>> \in Seq(Line) /\ Len(<<>>) = 0
    OBVIOUS
  <2>4. received \in [Pods -> Seq(Nat)] /\ stream \in [Pods -> StreamRecords]
    BY <2>3 DEF Init, NoStream, StreamRecords
  <2>5. /\ added \in [buf : Seq(Pods), cap : 0 .. Cardinality(Pods), closed : BOOLEAN]
        /\ main \in [at : {"none", "select", "returned"}, watching : 0 .. Cardinality(Pods)]
    BY <2>2, <2>3 DEF Init
  <2>6. logs \in Seq(Line) /\ Len(logs) <= LogBuffer /\ msgs \in Seq(Line) /\ Len(msgs) <= MsgBuffer
    BY <2>3, LogStreamAssumption DEF Init
  <2> QED
    BY <2>4, <2>5, <2>6 DEF Init, TypeOK, StreamRecords
<1>2. Streams /\ Channels /\ CrashOnlyAfterCancel
  BY LinesOf DEF Init, Streams, Ended, NoStream, Channels, CrashOnlyAfterCancel
<1>3. Counted
  <2>1. Watched = {}
    BY DEF Init, Watched, NoStream
  <2> QED
    BY <2>1, FS_EmptySet DEF Init, Counted
<1>4. Once
  BY LogStreamAssumption DEF Init, Once, NoStream, IsInjective, Range
<1>5. InOrder
  <2>1. Way = <<>>
    BY DEF Init, Way
  <2>2. \A p \in Pods : Sent(p) = 0 /\ received[p] = <<>>
    BY DEF Init, Sent, NoStream
  <2> QED
    BY <2>1, <2>2 DEF InOrder, PassedOn
<1> QED
  BY <1>1, <1>2, <1>3, <1>4, <1>5 DEF IInv

LEMMA NextKeeps ==
  ASSUME IInv, [Next]_vars
  PROVE  IInv'
<1>1. CASE Handler \/ ClientLeaves \/ Timeout
  <2>1. CASE Query
    BY <2>1, QueryKeeps
  <2>2. CASE Deliver
    BY <2>2, DeliverKeeps
  <2>3. CASE EndOfLog \/ ClientLeaves \/ Timeout
    BY <2>3, CancelKeeps DEF EndOfLog, ClientLeaves, Timeout, Leave
  <2> QED
    BY <1>1, <2>1, <2>2, <2>3 DEF Handler
<1>2. CASE OnAdd
  BY <1>2, OnAddKeeps
<1>3. CASE CloseAdded
  BY <1>3, CloseAddedKeeps
<1>4. CASE ContextDone
  BY <1>4, ContextDoneKeeps
<1>5. CASE Added
  BY <1>5, AddedKeeps
<1>6. CASE Relay
  BY <1>6, RelayTakesKeeps, RelaySendsKeeps DEF Relay
<1>7. ASSUME NEW p \in Pods, InformerSees(p) \/ Finished(p) PROVE IInv'
  BY <1>7, InformerSeesKeeps, FinishedKeeps
<1>8. ASSUME NEW p \in Pods, PodLogs(p) PROVE IInv'
  BY <1>8, OpenStreamKeeps, WatchCancelledKeeps, WatchDoneKeeps DEF PodLogs
<1>9. ASSUME NEW p \in Pods, Reader(p) \/ ReadEnds(p) \/ ReadFails(p) PROVE IInv'
  BY <1>9, ReadLineKeeps, SendLineKeeps, ReadEndsKeeps, ReadFailsKeeps DEF Reader
<1>10. CASE UNCHANGED vars
  <2>1. TypeOK' /\ Streams' /\ Counted' /\ Once' /\ Channels' /\ CrashOnlyAfterCancel'
    BY <1>10 DEF vars, IInv, TypeOK, Streams, Counted, Watched, Once, Channels, CrashOnlyAfterCancel
  <2>2. InOrder'
    BY <1>10, SameOrder DEF vars, IInv, Way, Sent
  <2> QED
    BY <2>1, <2>2 DEF IInv
<1> QED
  BY <1>1, <1>2, <1>3, <1>4, <1>5, <1>6, <1>7, <1>8, <1>9, <1>10 DEF Next

(* The inductive invariant holds in every behaviour.                       *)
THEOREM Invariance == Spec => []IInv
<1>1. Init => IInv
  BY InitHolds
<1>2. IInv /\ [Next]_vars => IInv'
  BY NextKeeps
<1> QED
  BY <1>1, <1>2, PTL DEF Spec

(* Channels never hold more than their size, the lines in them are those   *)
(* the instances write, and no more streams are counted than there are     *)
(* instances.                                                              *)
THEOREM TypeCorrect == Spec => []TypeOK
<1>1. IInv => TypeOK
  BY DEF IInv
<1> QED
  BY <1>1, Invariance, PTL

(* No goroutine sends on a closed channel while the request is served: not *)
(* the readers on logs, which main closes when it has counted its streams  *)
(* down (logs.go:68-95), nor the informer on added.                        *)
THEOREM CrashNeedsCancel == Spec => []CrashOnlyAfterCancel
<1>1. IInv => CrashOnlyAfterCancel
  BY DEF IInv
<1> QED
  BY <1>1, Invariance, PTL

(* However many instances there are and however small the channels, what a *)
(* reader has sent reaches the client or is on its way, once and in order  *)
(* (logs.go:117-128, log.go:48-60, handler.go).                            *)
THEOREM OrderKept == Spec => []InOrder
<1>1. IInv => InOrder
  BY DEF IInv
<1> QED
  BY <1>1, Invariance, PTL

(* A log that ends by itself is the log of every instance whose stream was *)
(* opened and did not fail: all of it that ends in a newline               *)
(* (logs.go:68-95, 117-135).                                               *)
THEOREM EndComplete == Spec => []EndIsComplete
<1>1. IInv => EndIsComplete
  <2> SUFFICES ASSUME IInv, main.at = "returned", ~cancelled
               PROVE  /\ ~follow
                      /\ \A p \in Pods :
                           stream[p].watch # "none" /\ stream[p].clean => PassedOn(p, Terminated(p))
    BY DEF EndIsComplete
  <2>1. ~follow /\ Watched = {}
    BY DEF IInv, Counted
  <2>2. ASSUME NEW p \in Pods, stream[p].watch # "none", stream[p].clean
        PROVE  PassedOn(p, Terminated(p))
    <3>1. stream[p].watch = "ended"
      BY <2>1, <2>2, StreamOf DEF Watched, StreamRecords
    <3>2. Sent(p) = Terminated(p)
      BY <2>2, <3>1, StreamOf DEF Sent, Ended
    <3> QED
      BY <3>2 DEF IInv, InOrder
  <2> QED
    BY <2>1, <2>2
<1> QED
  BY <1>1, Invariance, PTL

-----------------------------------------------------------------------------
(* The pipe.  The client takes a line out ...                              *)
LEMMA DeliverReceives ==
  ASSUME IInv, Deliver
  PROVE  \E p \in Pods : Pipe!Receive(p)
<1> DEFINE line == Head(msgs)
           p == line[1]
<1>1. /\ handler = "serve" /\ msgs # <<>>
      /\ received' = [received EXCEPT ![p] = Append(@, line[2])]
      /\ UNCHANGED <<handler, stream>>
  BY DEF Deliver
<1>2. Way # <<>> /\ Way[1] = line
  BY <1>1, WayStarts DEF IInv
<1>3. p \in Pods /\ line[2] = Len(received[p]) + 1 /\ Len(received[p]) + 1 <= Sent(p)
  BY <1>2, FirstIsNext DEF IInv
<1>4. received \in [Pods -> Seq(Nat)] /\ Len(received[p]) \in Nat /\ Sent(p) \in Int
  <2>1. received \in [Pods -> Seq(Nat)] /\ p \in Pods
    BY <1>3 DEF IInv, TypeOK
  <2> HIDE DEF line, p
  <2>2. Len(received[p]) \in Nat
    BY <2>1, LenProperties
  <2>3. Sent(p) \in Int
    BY <2>1, StreamOf DEF Sent, StreamRecords
  <2> QED
    BY <2>1, <2>2, <2>3
<1> HIDE DEF line, p
<1>5. received' = [received EXCEPT ![p] = Append(@, Len(@) + 1)]
  BY <1>1, <1>3, <1>4
<1>6. \A q \in Pods : Sent(q)' = Sent(q)
  BY <1>1 DEF Sent
<1>7. Pipe!Receive(p)
  BY <1>1, <1>3, <1>4, <1>5, <1>6 DEF Pipe!Receive
<1> QED
  BY <1>3, <1>7

(* ... a reader puts one in, unless it finds the channel closed ...        *)
LEMMA SendLineSends ==
  ASSUME IInv, NEW p \in Pods, SendLine(p)
  PROVE  Pipe!Send(p) \/ UNCHANGED <<stream, received, handler>>
<1> SUFFICES ASSUME stream[p].reader = "send", stream' = [stream EXCEPT ![p].reader = "read"],
                    UNCHANGED <<received, handler>>
             PROVE  Pipe!Send(p)
  BY DEF SendLine
<1>1. /\ stream[p].read \in Nat /\ stream[p].read <= Lines[p] /\ Lines[p] \in Nat
      /\ stream'[p].reader = "read" /\ stream'[p].read = stream[p].read
      /\ \A q \in Pods \ {p} : stream'[q] = stream[q]
  BY StreamOf DEF StreamRecords
<1>2. Sent(p) = stream[p].read - 1 /\ Sent(p)' = stream[p].read
  BY <1>1 DEF Sent
<1>3. \A q \in Pods \ {p} : Sent(q)' = Sent(q)
  BY <1>1 DEF Sent
<1>4. Sent(p) < Lines[p] /\ Sent(p)' = Sent(p) + 1
  BY <1>1, <1>2
<1>5. [q \in Pods |-> Sent(q)'] = [[q \in Pods |-> Sent(q)] EXCEPT ![p] = @ + 1]
  BY <1>3, <1>4
<1> QED
  BY <1>4, <1>5 DEF Pipe!Send

(* ... and the other goroutines leave the lines alone.                     *)
LEMMA SentSame ==
  ASSUME IInv, NEW p \in Pods,
         \/ InformerSees(p) \/ Finished(p) \/ PodLogs(p)
         \/ ReadLine(p) \/ ReadEnds(p) \/ ReadFails(p)
  PROVE  (\A q \in Pods : Sent(q)' = Sent(q)) /\ UNCHANGED <<received, handler>>
<1>1. UNCHANGED <<received, handler>>
  BY DEF InformerSees, Finished, PodLogs, OpenStream, WatchCancelled, WatchDone,
         ReadLine, ReadEnds, ReadFails
<1>2. ASSUME NEW q \in Pods PROVE Sent(q)' = Sent(q)
  <2>1. CASE InformerSees(p)
    BY <2>1 DEF InformerSees, Sent
  <2>2. CASE Finished(p) \/ WatchCancelled(p)
    BY <2>2, StreamOf DEF Finished, WatchCancelled, Sent, StreamRecords
  <2>3. CASE OpenStream(p)
    BY <2>3, StreamOf DEF OpenStream, Sent, StreamRecords
  <2>4. CASE WatchDone(p)
    BY <2>4, StreamOf DEF WatchDone, Sent, StreamRecords
  <2>5. CASE ReadLine(p)
    BY <2>5, StreamOf DEF ReadLine, Sent, StreamRecords
  <2>6. CASE ReadEnds(p) \/ ReadFails(p)
    BY <2>6, StreamOf DEF ReadEnds, ReadFails, Sent, StreamRecords
  <2> QED
    BY <2>1, <2>2, <2>3, <2>4, <2>5, <2>6 DEF PodLogs
<1> QED
  BY <1>1, <1>2

(* The goroutines and channels of a request implement a pipe per instance: *)
(* a reader's send and the handler's write are the pipe's, the handler's   *)
(* return closes it, and every other step is one of the inside.            *)
THEOREM ImplementsPipe == Spec => PipeSpec
<1> DEFINE sent == [p \in Pods |-> Sent(p)]
           Stays == UNCHANGED <<sent, received, handler # "left">>
<1>1. Init => Pipe!Init
  <2> SUFFICES ASSUME Init PROVE Pipe!Init
    OBVIOUS
  <2>1. sent = [p \in Pods |-> 0]
    BY DEF Init, Sent, NoStream
  <2> QED
    BY <2>1 DEF Init, Pipe!Init
<1>2. IInv /\ [Next]_vars => [Pipe!Next]_(Pipe!pipe)
  <2> SUFFICES ASSUME IInv, [Next]_vars PROVE Pipe!Next \/ Stays
    BY DEF Pipe!pipe
  <2>1. CASE Deliver
    BY <2>1, DeliverReceives DEF Pipe!Next
  <2>2. CASE EndOfLog \/ ClientLeaves \/ Query
    <3>1. (\A p \in Pods : Sent(p)' = Sent(p)) /\ UNCHANGED received
      BY <2>2 DEF EndOfLog, ClientLeaves, Query, Sent
    <3>2. handler # "left" /\ handler' \in {"serve", "left"}
      BY <2>2 DEF EndOfLog, ClientLeaves, Query, Leave
    <3> QED
      BY <3>1, <3>2 DEF Pipe!Next, Pipe!Close
  <2>3. CASE \/ Timeout \/ OnAdd \/ CloseAdded \/ ContextDone \/ Relay \/ UNCHANGED vars
    BY <2>3 DEF Timeout, OnAdd, CloseAdded, ContextDone, Relay, RelayTakes, RelaySends, vars, Sent
  <2>4. CASE Added
    <3>1. /\ UNCHANGED <<received, handler>>
          /\ stream' = [stream EXCEPT ![Head(added.buf)].watch = "open"]
      BY <2>4 DEF Added
    <3>2. \A p \in Pods : Sent(p)' = Sent(p)
      BY <3>1, StreamOf DEF Sent, StreamRecords
    <3> QED
      BY <3>1, <3>2
  <2>5. ASSUME NEW p \in Pods, SendLine(p) PROVE Pipe!Next \/ Stays
    BY <2>5, SendLineSends DEF Pipe!Next, Sent
  <2>6. ASSUME NEW p \in Pods,
               \/ InformerSees(p) \/ Finished(p) \/ PodLogs(p)
               \/ ReadLine(p) \/ ReadEnds(p) \/ ReadFails(p)
        PROVE  Stays
    BY <2>6, SentSame
  <2> QED
    BY <2>1, <2>2, <2>3, <2>4, <2>5, <2>6 DEF Next, Handler, Reader
<1> QED
  BY <1>1, <1>2, Invariance, PTL DEF Spec, PipeSpec, Pipe!Spec
=============================================================================
