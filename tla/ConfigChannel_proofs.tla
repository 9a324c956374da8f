------------------------ MODULE ConfigChannel_proofs -------------------------
(***************************************************************************)
(* For any number of connections, lists and pods: the list that was sent   *)
(* is not lost, the file never goes back, and a pod that is on every list  *)
(* keeps its pod manager.                                                  *)
(*                                                                         *)
(* The inductive invariant follows a list from the manager over the        *)
(* connections into the file and the launcher: what is further on the way  *)
(* is never later, and every list on the way is one a manager could send.  *)
(* It rests on who may still write: a connection that holds is the         *)
(* client's own, and a handler that sends has registered.                  *)
(***************************************************************************)
EXTENDS ConfigChannel, SequenceTheorems, TLAPS

Sendable == (1 .. MaxLists) \ Unknown

(* Who talks to whom: a connection that was never made carries nothing,    *)
(* one that holds is the client's, one that nodeStatus has was made; a     *)
(* handler that will send has registered and has a list to send; what was  *)
(* sent with a UUID was sent by a manager that has it.                     *)
Connected ==
  /\ \A c \in Conns :
       /\ handler[c] = "none" => down[c] = <<>> /\ ~reached[c]
       /\ reached[c] /\ ~broken[c] => uuid
       /\ handler[c] # "none" /\ ~broken[c] => client.conn = c
       /\ handler[c] \in {"check", "write", "loop"} => nodeStatus.conn # NoConn
       /\ handler[c] = "write" => list \in Sendable
  /\ nodeStatus.conn # NoConn => handler[nodeStatus.conn] # "none"

(* The lists on a connection that have a name come in order, none later    *)
(* than the manager's.                                                     *)
OnTheWay(m) == m = Nameless \/ (m \in Sendable /\ m <= list)
NoLater(l, m) == m = Nameless \/ l <= m

Queued ==
  \A c \in Conns :
    /\ \A i \in 1 .. Len(down[c]) : OnTheWay(down[c][i])
    /\ \A i, j \in 1 .. Len(down[c]) : i <= j => NoLater(down[c][i], down[c][j])

(* The file is no later than what the client has still to receive, nor     *)
(* than the manager's list; it is of the list that is being written.       *)
Filed ==
  /\ file.list = NoList \/ file.list \in Sendable
  /\ file.list <= list
  /\ \A c \in Conns : client.conn = c => \A i \in 1 .. Len(down[c]) : NoLater(file.list, down[c][i])
  /\ client.writing # NoList => file.list = client.writing

(* The launcher hears of a file that was written, and has read one.        *)
Read ==
  /\ event => file.list # NoList
  /\ launcher # NothingRead => launcher.list \in Sendable

IInv ==
  /\ TypeOK
  /\ Connected
  /\ Queued
  /\ Filed
  /\ Read
  /\ Delivered


-----------------------------------------------------------------------------
USE DEF Conns, NoConn, NoList, Nameless, manager, network, node, pods

(* There is a number for the missing list, and one for the first.          *)
LEMMA Bounds == NoList \in 0 .. MaxLists /\ 1 \in 1 .. MaxLists /\ 1 .. MaxLists \subseteq 0 .. MaxLists
BY ConfigAssumption

(* The numbers of connections and lists are natural numbers, and a sequence *)
(* of lists is a function on its positions.                                 *)
LEMMA Numbers ==
  ASSUME TypeOK
  PROVE  /\ list \in Nat /\ file.list \in Nat /\ client.writing \in Nat
         /\ client.conn \in Nat /\ nodeStatus.conn \in Nat
         /\ \A c \in Conns : c \in Nat /\ Len(down[c]) \in Nat
         /\ \A c \in Conns : \A i \in 1 .. Len(down[c]) : down[c][i] \in Nat
<1>1. \A c \in Conns : down[c] \in Seq(0 .. MaxLists)
  BY DEF TypeOK
<1>2. ASSUME NEW c \in Conns PROVE /\ Len(down[c]) \in Nat
                                     /\ \A i \in 1 .. Len(down[c]) : down[c][i] \in Nat
  <2>1. down[c] \in Seq(0 .. MaxLists)
    BY <1>1
  <2>2. Len(down[c]) \in Nat
    BY <2>1, LenProperties
  <2>3. \A i \in 1 .. Len(down[c]) : down[c][i] \in 0 .. MaxLists
    BY <2>1, ElementOfSeq
  <2> QED
    BY <2>2, <2>3
<1> QED
  BY <1>1, <1>2, ConfigAssumption DEF TypeOK, Files

(* Nothing that carries a list changes.                                    *)
LEMMA SameLists ==
  ASSUME Queued, Filed, Read,
         UNCHANGED <<list, down, client, file, event, launcher>>
  PROVE  Queued' /\ Filed' /\ Read'
BY DEF Queued, Filed, Read, OnTheWay

(* The client dials: the connection it uses is new and carries nothing.    *)
LEMMA ConnectKeeps ==
  ASSUME IInv, NEW c \in Conns, Connect(c)
  PROVE  IInv' /\ file'.list >= file.list
<1>1. /\ handler[c] = "none" /\ handler' = [handler EXCEPT ![c] = "lookup"]
      /\ client.conn = NoConn /\ client' = [client EXCEPT !.conn = c]
      /\ \A d \in Conns : handler[d] = "none" <=> d >= c
      /\ UNCHANGED <<list, uuid, reached, nodeStatus, broken, beat, down, file, event, launcher, running, deaf>>
  BY DEF Connect, At
<1>2. TypeOK'
  BY <1>1, Numbers DEF IInv, TypeOK, HandlerStates
<1>3. \A d \in Conns : handler[d] # "none" => broken[d]
  BY <1>1, Numbers DEF IInv, Connected, TypeOK
<1>4. Connected'
  BY <1>1, <1>3 DEF IInv, Connected, TypeOK
<1>5. Queued' /\ Read'
  BY <1>1 DEF IInv, Queued, Read, OnTheWay
<1>6. Filed'
  BY <1>1, Numbers DEF IInv, Filed, Connected, TypeOK
<1>7. Delivered'
  BY <1>1, <1>3 DEF IInv, Delivered, Connected
<1> QED
  BY <1>1, <1>2, <1>4, <1>5, <1>6, <1>7, Numbers DEF IInv

(* The handler looks the client's pod up: it has sent nothing yet.         *)
LEMMA LookupKeeps ==
  ASSUME IInv, NEW c \in Conns, Lookup(c)
  PROVE  IInv' /\ file'.list >= file.list
<1>1. /\ handler[c] = "lookup"
      /\ \/ handler' = [handler EXCEPT ![c] = "register"] /\ broken' = broken
         \/ handler' = [handler EXCEPT ![c] = "misfiled"] /\ broken' = broken
         \/ handler' = [handler EXCEPT ![c] = "gone"] /\ broken' = [broken EXCEPT ![c] = TRUE]
      /\ UNCHANGED <<list, uuid, reached, nodeStatus, beat, down, client, file, event, launcher, running, deaf>>
  BY DEF Lookup, At
<1>2. ASSUME NEW to \in {"register", "misfiled", "gone"}, handler' = [handler EXCEPT ![c] = to],
             \/ broken' = broken
             \/ broken' = [broken EXCEPT ![c] = TRUE]
      PROVE  TypeOK' /\ Connected' /\ Delivered'
  <2>1. broken \in [Conns -> BOOLEAN]
    BY DEF IInv, TypeOK
  <2>2. \A d \in Conns : ~broken'[d] => ~broken[d]
    <3>1. CASE broken' = broken
      BY <3>1
    <3>2. CASE broken' = [broken EXCEPT ![c] = TRUE]
      BY <2>1, <3>2
    <3> QED
      BY <1>2, <3>1, <3>2
  <2>3. TypeOK'
    BY <1>1, <1>2 DEF IInv, TypeOK, HandlerStates
  <2>4. Connected'
    BY <1>1, <1>2 DEF IInv, Connected, TypeOK
  <2>5. Delivered'
    BY <1>1, <2>2 DEF IInv, Delivered, InFile
  <2> QED
    BY <2>3, <2>4, <2>5
<1> QED
  BY <1>1, <1>2, SameLists, Numbers DEF IInv

(* The node gets the connection; its handler has sent nothing yet.         *)
LEMMA RegisterKeeps ==
  ASSUME IInv, NEW c \in Conns, Register(c)
  PROVE  IInv' /\ file'.list >= file.list
<1>1. /\ handler[c] = "register" /\ handler' = [handler EXCEPT ![c] = "check"]
      /\ nodeStatus' = [conn |-> c, ready |-> TRUE, heard |-> FALSE]
      /\ UNCHANGED <<list, uuid, reached, broken, beat, down, client, file, event, launcher, running, deaf>>
  BY DEF Register, At
<1>2. TypeOK'
  BY <1>1 DEF IInv, TypeOK, HandlerStates
<1>3. Connected'
  BY <1>1 DEF IInv, Connected, TypeOK
<1>4. Delivered'
  BY <1>1 DEF IInv, Delivered, InFile
<1> QED
  BY <1>1, <1>2, <1>3, <1>4, SameLists, Numbers DEF IInv

(* Only a handler that has a list to send and found the node Ready goes on *)
(* to send it; nothing has been sent yet.                                  *)
LEMMA CheckReadyKeeps ==
  ASSUME IInv, NEW c \in Conns, CheckReady(c)
  PROVE  IInv' /\ file'.list >= file.list
<1>1. /\ handler[c] = "check"
      /\ \/ list \notin Unknown /\ handler' = [handler EXCEPT ![c] = "write"]
         \/ handler' = [handler EXCEPT ![c] = "loop"]
      /\ UNCHANGED <<list, uuid, reached, nodeStatus, broken, beat, down, client, file, event, launcher, running, deaf>>
  BY DEF CheckReady, At
<1>2. TypeOK'
  BY <1>1 DEF IInv, TypeOK, HandlerStates
<1>3. Connected'
  BY <1>1 DEF IInv, Connected, TypeOK, Sendable
<1>4. Delivered'
  BY <1>1 DEF IInv, Delivered, InFile
<1> QED
  BY <1>1, <1>2, <1>3, <1>4, SameLists, Numbers DEF IInv

(* A UUID that is learned changes nothing that was sent.                   *)
LEMMA SetUUIDKeeps ==
  ASSUME IInv, SetUUID
  PROVE  IInv' /\ file'.list >= file.list
<1>1. /\ uuid' = TRUE
      /\ UNCHANGED <<list, handler, reached, nodeStatus, broken, beat, down, client, file, event, launcher, running, deaf>>
  BY DEF SetUUID
<1>2. TypeOK'
  BY <1>1 DEF IInv, TypeOK
<1>3. Connected' /\ Delivered'
  BY <1>1 DEF IInv, Connected, Delivered, InFile
<1> QED
  BY <1>1, <1>2, <1>3, SameLists, Numbers DEF IInv

(* The list goes behind everything else on the connection the node has by  *)
(* now, which was made; if it has no name, none was sent there before that *)
(* had one; if the connection is down, nothing is promised of it.          *)
LEMMA WriteConfigKeeps ==
  ASSUME IInv, NEW c \in Conns, WriteConfig(c)
  PROVE  IInv' /\ file'.list >= file.list
<1> DEFINE n == nodeStatus.conn
           m == IF uuid THEN list ELSE Nameless
           longer == Append(down[n], m)
<1>1. /\ handler[c] = "write" /\ handler' = [handler EXCEPT ![c] = "loop"]
      /\ \/ down' = down /\ reached' = reached
         \/ /\ ~broken[n]
            /\ down' = [down EXCEPT ![n] = longer]
            /\ reached' = [reached EXCEPT ![n] = @ \/ uuid]
      /\ UNCHANGED <<list, uuid, nodeStatus, broken, beat, client, file, event, launcher, running, deaf>>
  BY DEF WriteConfig, At
<1>2. /\ n \in Conns /\ handler[n] # "none" /\ list \in Sendable
      /\ OnTheWay(m) /\ NoLater(file.list, m)
      /\ uuid \in BOOLEAN /\ (uuid => m = list) /\ (~uuid => m = Nameless)
  BY <1>1, Numbers DEF IInv, Connected, TypeOK, OnTheWay, NoLater, Filed
<1>3. /\ down[n] \in Seq(0 .. MaxLists) /\ Len(down[n]) \in Nat
      /\ longer \in Seq(0 .. MaxLists) /\ longer # <<>>
      /\ Len(longer) = Len(down[n]) + 1
      /\ longer[Len(longer)] = m
      /\ \A i \in 1 .. Len(down[n]) : longer[i] = down[n][i]
  <2> DEFINE s == down[n]
             x == m
  <2>1. s \in Seq(0 .. MaxLists) /\ x \in 0 .. MaxLists
    BY <1>2, Bounds DEF IInv, TypeOK
  <2> HIDE DEF s, x
  <2>2. /\ Append(s, x) \in Seq(0 .. MaxLists) /\ Append(s, x) # <<>>
        /\ Len(s) \in Nat /\ Len(Append(s, x)) = Len(s) + 1
        /\ Append(s, x)[Len(s) + 1] = x
        /\ \A i \in 1 .. Len(s) : Append(s, x)[i] = s[i]
    BY <2>1
  <2> QED
    BY <2>1, <2>2 DEF s, x
<1> HIDE DEF n, m, longer
<1>4. TypeOK'
  <2>1. /\ down \in [Conns -> Seq(0 .. MaxLists)] /\ reached \in [Conns -> BOOLEAN]
        /\ reached[n] \/ uuid \in BOOLEAN
    BY <1>2 DEF IInv, TypeOK
  <2>2. down' \in [Conns -> Seq(0 .. MaxLists)]
    BY <1>1, <1>3, <2>1
  <2>3. reached' \in [Conns -> BOOLEAN]
    <3>1. CASE reached' = reached
      BY <2>1, <3>1
    <3>2. CASE reached' = [reached EXCEPT ![n] = @ \/ uuid]
      <4> DEFINE r == reached[n] \/ uuid
      <4>1. r \in BOOLEAN
        OBVIOUS
      <4>2. reached' = [reached EXCEPT ![n] = r]
        BY <3>2
      <4> HIDE DEF r
      <4> QED
        BY <2>1, <4>1, <4>2
    <3> QED
      BY <1>1, <3>1, <3>2
  <2> QED
    BY <1>1, <2>2, <2>3 DEF IInv, TypeOK, HandlerStates
<1>5. \A d \in Conns : reached'[d] => reached[d] \/ (d = n /\ uuid)
  BY <1>1, <1>2 DEF IInv, TypeOK
<1>6. Connected'
  <2>1. \A d \in Conns : handler'[d] = "none" => handler[d] = "none" /\ d # n
    BY <1>1, <1>2 DEF IInv, TypeOK
  <2>2. \A d \in Conns : d # n => down'[d] = down[d]
    BY <1>1, <1>2 DEF IInv, TypeOK
  <2>3. \A d \in Conns :
          /\ handler'[d] = "none" => down'[d] = <<>> /\ ~reached'[d]
          /\ reached'[d] /\ ~broken'[d] => uuid'
    BY <1>1, <1>5, <2>1, <2>2 DEF IInv, Connected
  <2>4. \A d \in Conns :
          /\ handler'[d] # "none" /\ ~broken'[d] => client'.conn = d
          /\ handler'[d] \in {"check", "write", "loop"} => nodeStatus'.conn # NoConn
          /\ handler'[d] = "write" => list' \in Sendable
    BY <1>1, <1>2 DEF IInv, Connected, TypeOK, n
  <2>5. handler'[nodeStatus'.conn] # "none"
    BY <1>1, <1>2 DEF IInv, TypeOK, n
  <2> QED
    BY <2>3, <2>4, <2>5 DEF Connected
<1>7. /\ \A i \in 1 .. Len(longer) : OnTheWay(longer[i])
      /\ \A i, j \in 1 .. Len(longer) : i <= j => NoLater(longer[i], longer[j])
      /\ client.conn = n => \A i \in 1 .. Len(longer) : NoLater(file.list, longer[i])
  <2>1. \A i \in 1 .. Len(longer) : i \in 1 .. Len(down[n]) \/ (i = Len(longer) /\ longer[i] = m)
    BY <1>3
  <2>2. /\ \A i \in 1 .. Len(down[n]) : OnTheWay(down[n][i]) /\ down[n][i] \in Nat
        /\ \A i, j \in 1 .. Len(down[n]) : i <= j => NoLater(down[n][i], down[n][j])
        /\ client.conn = n => \A i \in 1 .. Len(down[n]) : NoLater(file.list, down[n][i])
    BY <1>2, Numbers DEF IInv, Queued, Filed
  <2>3. \A i \in 1 .. Len(longer) : OnTheWay(longer[i])
    <3> TAKE i \in 1 .. Len(longer)
    <3>1. CASE i \in 1 .. Len(down[n])
      <4>1. longer[i] = down[n][i]
        BY <1>3, <3>1
      <4> QED
        BY <2>2, <3>1, <4>1
    <3>2. CASE longer[i] = m
      BY <1>2, <3>2
    <3> QED
      BY <2>1, <3>1, <3>2
  <2>4. \A i \in 1 .. Len(longer) : NoLater(longer[i], m)
    BY <1>2, <2>3, Numbers, ConfigAssumption DEF OnTheWay, NoLater, IInv, Sendable
  <2>5. ASSUME NEW i \in 1 .. Len(longer), NEW j \in 1 .. Len(longer), i <= j
        PROVE  NoLater(longer[i], longer[j])
    <3>1. CASE j \in 1 .. Len(down[n])
      <4>1. i \in 1 .. Len(down[n])
        BY <2>5, <3>1, <1>3
      <4> QED
        BY <2>2, <2>5, <3>1, <4>1, <1>3
    <3>2. CASE j = Len(longer) /\ longer[j] = m
      BY <2>4, <3>2
    <3> QED
      BY <2>1, <3>1, <3>2
  <2>6. ASSUME client.conn = n, NEW i \in 1 .. Len(longer)
        PROVE  NoLater(file.list, longer[i])
    <3>1. CASE i \in 1 .. Len(down[n])
      <4>1. longer[i] = down[n][i]
        BY <1>3, <3>1
      <4> QED
        BY <2>2, <2>6, <3>1, <4>1
    <3>2. CASE longer[i] = m
      BY <1>2, <3>2
    <3> QED
      BY <2>1, <3>1, <3>2
  <2> QED
    BY <2>3, <2>5, <2>6
<1>8. \A d \in Conns : down'[d] = down[d] \/ (d = n /\ down'[d] = longer)
  BY <1>1, <1>2 DEF IInv, TypeOK
<1>9. Queued' /\ Filed' /\ Read'
  <2>1. \A d \in Conns :
          /\ \A i \in 1 .. Len(down'[d]) : OnTheWay(down'[d][i])
          /\ \A i, j \in 1 .. Len(down'[d]) : i <= j => NoLater(down'[d][i], down'[d][j])
          /\ client.conn = d => \A i \in 1 .. Len(down'[d]) : NoLater(file.list, down'[d][i])
    BY <1>7, <1>8 DEF IInv, Queued, Filed
  <2> QED
    BY <1>1, <2>1 DEF IInv, Queued, Filed, Read, OnTheWay
<1>10. Delivered'
  <2>1. ASSUME NEW d \in Conns, reached'[d], ~broken[d]
        PROVE  IF down'[d] # <<>> THEN down'[d][Len(down'[d])] = list
                                  ELSE client.writing = list \/ InFile(list)
    <3>1. CASE down'[d] = down[d] /\ (d # n \/ reached' = reached)
      <4>1. reached[d]
        BY <1>1, <1>2, <2>1, <3>1 DEF IInv, TypeOK
      <4> QED
        BY <2>1, <3>1, <4>1 DEF IInv, Delivered
    <3>2. CASE d = n /\ down'[d] = longer
      <4>1. uuid
        BY <1>5, <2>1, <3>2 DEF IInv, Connected
      <4> QED
        BY <1>2, <1>3, <3>2, <4>1
    <3> QED
      BY <1>1, <1>2, <3>1, <3>2 DEF IInv, TypeOK
  <2> QED
    BY <1>1, <2>1 DEF Delivered, InFile
<1> QED
  BY <1>1, <1>4, <1>6, <1>9, <1>10, Numbers DEF IInv

(* A heartbeat makes a node Ready whose handler has registered it.         *)
LEMMA ReceiveKeeps ==
  ASSUME IInv, NEW c \in Conns, Receive(c)
  PROVE  IInv' /\ file'.list >= file.list
<1>1. /\ beat' = [beat EXCEPT ![c] = FALSE]
      /\ \/ nodeStatus' = nodeStatus
         \/ handler[c] = "loop" /\ nodeStatus' = [nodeStatus EXCEPT !.ready = TRUE, !.heard = TRUE]
      /\ UNCHANGED <<list, uuid, handler, reached, broken, down, client, file, event, launcher, running, deaf>>
  BY DEF Receive
<1>2. nodeStatus'.conn = nodeStatus.conn
  BY <1>1 DEF IInv, TypeOK
<1>3. TypeOK'
  BY <1>1 DEF IInv, TypeOK, Connected
<1>4. Connected' /\ Delivered'
  BY <1>1, <1>2 DEF IInv, Connected, Delivered, InFile
<1> QED
  BY <1>1, <1>3, <1>4, SameLists, Numbers DEF IInv

(* A handler that goes takes nothing back of what it has sent.             *)
LEMMA ReadFailsKeeps ==
  ASSUME IInv, NEW c \in Conns, ReadFails(c)
  PROVE  IInv' /\ file'.list >= file.list
<1>1. /\ handler[c] # "none" /\ handler' = [handler EXCEPT ![c] = "gone"]
      /\ \/ nodeStatus' = nodeStatus
         \/ nodeStatus' = [nodeStatus EXCEPT !.ready = FALSE]
      /\ UNCHANGED <<list, uuid, reached, broken, beat, down, client, file, event, launcher, running, deaf>>
  BY DEF ReadFails
<1>2. nodeStatus'.conn = nodeStatus.conn
  BY <1>1 DEF IInv, TypeOK
<1>3. TypeOK'
  BY <1>1 DEF IInv, TypeOK, HandlerStates
<1>4. Connected' /\ Delivered'
  BY <1>1, <1>2 DEF IInv, Connected, Delivered, TypeOK, InFile
<1> QED
  BY <1>1, <1>3, <1>4, SameLists, Numbers DEF IInv

(* The check for heartbeats only makes a node NotReady.                    *)
LEMMA TickKeeps ==
  ASSUME IInv, Tick
  PROVE  IInv' /\ file'.list >= file.list
<1>1. /\ nodeStatus' = [nodeStatus EXCEPT !.heard = FALSE, !.ready = @ /\ nodeStatus.heard]
      /\ UNCHANGED <<list, uuid, handler, reached, broken, beat, down, client, file, event, launcher, running, deaf>>
  BY DEF Tick
<1>2. nodeStatus'.conn = nodeStatus.conn
  BY <1>1 DEF IInv, TypeOK
<1>3. TypeOK'
  BY <1>1 DEF IInv, TypeOK
<1>4. Connected' /\ Delivered'
  BY <1>1, <1>2 DEF IInv, Connected, Delivered, InFile
<1> QED
  BY <1>1, <1>3, <1>4, SameLists, Numbers DEF IInv

(* What a broken connection still carries was carried before.              *)
LEMMA BreakKeeps ==
  ASSUME IInv, NEW c \in Conns, Break(c)
  PROVE  IInv' /\ file'.list >= file.list
<1>1. PICK lost \in BOOLEAN :
        /\ broken' = [broken EXCEPT ![c] = TRUE]
        /\ beat' = [beat EXCEPT ![c] = @ /\ ~lost]
        /\ down' = [down EXCEPT ![c] = IF lost THEN <<>> ELSE @]
        /\ UNCHANGED <<list, uuid, handler, reached, nodeStatus, client, file, event, launcher, running, deaf>>
  BY DEF Break
<1>2. \A d \in Conns : down'[d] = <<>> \/ down'[d] = down[d]
  BY <1>1 DEF IInv, TypeOK
<1>3. TypeOK'
  <2>1. down' \in [Conns -> Seq(0 .. MaxLists)]
    <3>1. <<>> \in Seq(0 .. MaxLists) /\ down \in [Conns -> Seq(0 .. MaxLists)]
      BY DEF IInv, TypeOK
    <3> QED
      BY <1>1, <3>1
  <2> QED
    BY <1>1, <2>1 DEF IInv, TypeOK
<1>4. Connected'
  BY <1>1 DEF IInv, Connected, TypeOK
<1>5. Queued' /\ Filed' /\ Read'
  BY <1>1, <1>2 DEF IInv, Queued, Filed, Read, OnTheWay
<1>6. Delivered'
  <2>1. \A d \in Conns : ~broken'[d] => ~broken[d] /\ down'[d] = down[d]
    BY <1>1 DEF IInv, TypeOK
  <2> QED
    BY <1>1, <2>1 DEF IInv, Delivered, InFile
<1> QED
  BY <1>1, <1>3, <1>4, <1>5, <1>6, Numbers DEF IInv

(* The next manager has a later list and none of the connections.          *)
LEMMA RestartManagerKeeps ==
  ASSUME IInv, RestartManager
  PROVE  IInv' /\ file'.list >= file.list
<1>1. /\ list < MaxLists /\ list' = list + 1 /\ uuid' \in BOOLEAN
      /\ handler' = [c \in Conns |-> IF handler[c] = "none" THEN "none" ELSE "gone"]
      /\ nodeStatus' = NoStatus
      /\ broken' = [c \in Conns |-> handler[c] # "none"]
      /\ UNCHANGED <<reached, beat, down, client, file, event, launcher, running, deaf>>
  BY DEF RestartManager, RestoredUUID
<1>2. TypeOK'
  BY <1>1, ConfigAssumption DEF IInv, TypeOK, HandlerStates, NoStatus
<1>3. \A c \in Conns : reached'[c] => broken'[c]
  BY <1>1 DEF IInv, Connected
<1>4. Connected' /\ Delivered'
  BY <1>1, <1>3 DEF IInv, Connected, Delivered, NoStatus
<1>5. Queued' /\ Read'
  <2>1. \A c \in Conns : \A i \in 1 .. Len(down[c]) : OnTheWay(down[c][i])'
    BY <1>1, Numbers, ConfigAssumption DEF IInv, Queued, OnTheWay, Sendable
  <2> QED
    BY <1>1, <2>1 DEF IInv, Queued, Read
<1>6. Filed'
  BY <1>1, Numbers DEF IInv, Filed
<1> QED
  BY <1>1, <1>2, <1>4, <1>5, <1>6, Numbers DEF IInv

(* A heartbeat is sent.                                                    *)
LEMMA SendHeartbeatKeeps ==
  ASSUME IInv, NEW c \in Conns, SendHeartbeat(c)
  PROVE  IInv' /\ file'.list >= file.list
<1>1. /\ beat' = [beat EXCEPT ![c] = TRUE]
      /\ UNCHANGED <<list, uuid, handler, reached, nodeStatus, broken, down, client, file, event, launcher, running, deaf>>
  BY DEF SendHeartbeat
<1>2. TypeOK'
  BY <1>1 DEF IInv, TypeOK
<1>3. Connected' /\ Delivered'
  BY <1>1 DEF IInv, Connected, Delivered, InFile
<1> QED
  BY <1>1, <1>2, <1>3, SameLists, Numbers DEF IInv

(* What is left of a queue when its first list is taken.                   *)
LEMMA TakenFirst ==
  ASSUME NEW s \in Seq(0 .. MaxLists), s # <<>>
  PROVE  /\ Tail(s) \in Seq(0 .. MaxLists) /\ Len(s) \in Nat /\ Len(s) > 0
         /\ Head(s) = s[1] /\ Head(s) \in 0 .. MaxLists
         /\ Len(Tail(s)) = Len(s) - 1
         /\ \A i \in 1 .. Len(Tail(s)) : i + 1 \in 1 .. Len(s) /\ Tail(s)[i] = s[i + 1]
<1> DEFINE L == 0 .. MaxLists
<1>1. s \in Seq(L)
  OBVIOUS
<1> HIDE DEF L
<1>2. /\ Tail(s) \in Seq(L) /\ Len(s) \in Nat /\ Len(s) > 0
      /\ Head(s) = s[1] /\ Head(s) \in L
      /\ Len(Tail(s)) = Len(s) - 1
      /\ \A i \in 1 .. Len(Tail(s)) : i + 1 \in 1 .. Len(s) /\ Tail(s)[i] = s[i + 1]
  BY <1>1
<1> QED
  BY <1>2 DEF L

(* The first list on the client's connection is no earlier than the file   *)
(* and no later than the others; when it is the last one that was sent,    *)
(* it is the one that is being written.  One without a name is dropped.    *)
LEMMA ReceiveRequestKeeps ==
  ASSUME IInv, NEW c \in Conns, ReceiveRequest(c)
  PROVE  IInv' /\ file'.list >= file.list
<1> DEFINE s == down[c]
           first == Head(s)
           rest == Tail(s)
<1>1. /\ client.conn = c /\ client.writing = NoList /\ s # <<>>
      /\ down' = [down EXCEPT ![c] = rest]
      /\ \/ first = Nameless /\ client' = client /\ file' = file
         \/ /\ first # Nameless
            /\ client' = [client EXCEPT !.writing = first]
            /\ file' = [list |-> first, part |-> "empty"]
      /\ UNCHANGED <<list, uuid, handler, reached, nodeStatus, broken, beat, event, launcher, running, deaf>>
  BY DEF ReceiveRequest
<1>2. s \in Seq(0 .. MaxLists)
  BY DEF IInv, TypeOK
<1>3. /\ rest \in Seq(0 .. MaxLists) /\ Len(s) \in Nat /\ Len(s) > 0
      /\ first = s[1] /\ first \in 0 .. MaxLists
      /\ Len(rest) = Len(s) - 1
      /\ \A i \in 1 .. Len(rest) : i + 1 \in 1 .. Len(s) /\ rest[i] = s[i + 1]
  BY <1>1, <1>2, TakenFirst
<1>4. /\ \A i \in 1 .. Len(s) : OnTheWay(s[i]) /\ NoLater(file.list, s[i])
      /\ \A i, j \in 1 .. Len(s) : i <= j => NoLater(s[i], s[j])
  BY <1>1 DEF IInv, Queued, Filed
<1> HIDE DEF s, first, rest
<1>5. /\ \A d \in Conns : down'[d] = IF d = c THEN rest ELSE down[d]
      /\ client'.conn = c
      /\ \/ first = Nameless /\ client'.writing = NoList /\ file'.list = file.list
         \/ first # Nameless /\ client'.writing = first /\ file'.list = first /\ file'.part = "empty"
  BY <1>1 DEF IInv, TypeOK
<1>6. /\ 1 \in 1 .. Len(s)
      /\ first # Nameless => first \in Sendable /\ first <= list /\ file.list <= first
  BY <1>3, <1>4 DEF OnTheWay, NoLater
<1>7. TypeOK'
  <2>1. down' \in [Conns -> Seq(0 .. MaxLists)]
    BY <1>1, <1>3 DEF IInv, TypeOK
  <2>2. client' \in [conn : Conns \cup {NoConn}, writing : 0 .. MaxLists] /\ file' \in Files
    <3>1. CASE client' = client /\ file' = file
      BY <3>1 DEF IInv, TypeOK
    <3>2. CASE /\ client' = [client EXCEPT !.writing = first]
               /\ file' = [list |-> first, part |-> "empty"]
      BY <1>3, <3>2 DEF IInv, TypeOK, Files, Parts
    <3> QED
      BY <1>1, <3>1, <3>2
  <2> QED
    BY <1>1, <1>5, <2>1, <2>2 DEF IInv, TypeOK
<1>8. Connected'
  BY <1>1, <1>5 DEF IInv, Connected, TypeOK, s
<1>9. /\ \A i \in 1 .. Len(rest) : OnTheWay(rest[i]) /\ NoLater(file'.list, rest[i])
      /\ \A i, j \in 1 .. Len(rest) : i <= j => NoLater(rest[i], rest[j])
  <2>1. ASSUME NEW i \in 1 .. Len(rest)
        PROVE  /\ i + 1 \in 1 .. Len(s) /\ rest[i] = s[i + 1]
               /\ OnTheWay(s[i + 1]) /\ NoLater(file.list, s[i + 1]) /\ NoLater(s[1], s[i + 1])
    BY <1>3, <1>4, <1>6
  <2>2. ASSUME NEW i \in 1 .. Len(rest), NEW j \in 1 .. Len(rest), i <= j
        PROVE  NoLater(s[i + 1], s[j + 1])
    <3>1. i + 1 \in 1 .. Len(s) /\ j + 1 \in 1 .. Len(s) /\ i + 1 <= j + 1
      BY <2>1, <2>2, <1>3
    <3> QED
      BY <3>1, <1>4
  <2>3. file'.list = file.list \/ file'.list = s[1]
    BY <1>3, <1>5
  <2>4. \A i \in 1 .. Len(rest) : OnTheWay(rest[i]) /\ NoLater(file'.list, rest[i])
    <3> TAKE i \in 1 .. Len(rest)
    <3>1. rest[i] = s[i + 1] /\ OnTheWay(s[i + 1])
      BY <2>1
    <3>2. NoLater(file'.list, s[i + 1])
      BY <2>1, <2>3
    <3> QED
      BY <3>1, <3>2
  <2>5. ASSUME NEW i \in 1 .. Len(rest), NEW j \in 1 .. Len(rest), i <= j
        PROVE  NoLater(rest[i], rest[j])
    <3>1. rest[i] = s[i + 1] /\ rest[j] = s[j + 1]
      BY <2>1
    <3> QED
      BY <2>2, <2>5, <3>1
  <2> QED
    BY <2>4, <2>5
<1>10. Queued'
  BY <1>1, <1>5, <1>9 DEF IInv, Queued, OnTheWay
<1>11. Filed'
  BY <1>1, <1>5, <1>6, <1>9 DEF IInv, Filed, TypeOK
<1>12. Read'
  BY <1>1, <1>5 DEF IInv, Read
<1>13. Delivered'
  <2>1. \A d \in Conns \ {c} : reached[d] => broken[d]
    BY <1>1 DEF IInv, Connected, TypeOK
  <2>2. ASSUME reached[c], ~broken[c]
        PROVE  IF rest # <<>> THEN rest[Len(rest)] = list ELSE client'.writing = list
    <3>1. s[Len(s)] = list /\ list # Nameless
      BY <1>1, <2>2 DEF IInv, Delivered, TypeOK, s
    <3>2. CASE rest # <<>>
      <4>1. Len(rest) \in 1 .. Len(rest) /\ Len(rest) + 1 = Len(s)
        BY <1>3, <3>2, EmptySeq
      <4> QED
        BY <1>3, <3>1, <3>2, <4>1
    <3>3. CASE rest = <<>>
      <4>1. Len(s) = 1
        BY <1>3, <3>3, EmptySeq
      <4> QED
        BY <1>3, <1>5, <3>1, <3>3, <4>1
    <3> QED
      BY <3>2, <3>3
  <2> QED
    BY <1>1, <1>5, <2>1, <2>2 DEF Delivered
<1> QED
  BY <1>5, <1>6, <1>7, <1>8, <1>10, <1>11, <1>12, <1>13, Numbers DEF IInv

(* Writing a file does not change whose it is.                             *)
LEMMA WriteFileKeeps ==
  ASSUME IInv, WriteFile
  PROVE  IInv' /\ file'.list >= file.list
<1>1. /\ client.writing # NoList /\ file.part # "whole"
      /\ \E part \in Parts : file' = [file EXCEPT !.part = part]
      /\ UNCHANGED <<list, uuid, handler, reached, nodeStatus, broken, beat, down, client, event, launcher, running, deaf>>
  BY DEF WriteFile, Parts
<1>2. file'.list = file.list
  BY <1>1 DEF IInv, TypeOK, Files
<1>3. TypeOK'
  BY <1>1 DEF IInv, TypeOK, Files
<1>4. Connected' /\ Queued'
  BY <1>1 DEF IInv, Connected, Queued, OnTheWay
<1>5. Filed' /\ Read'
  BY <1>1, <1>2 DEF IInv, Filed, Read
<1>6. Delivered'
  BY <1>1 DEF IInv, Delivered, InFile
<1> QED
  BY <1>2, <1>3, <1>4, <1>5, <1>6, Numbers DEF IInv

(* The list that was being written is in the file when the file is closed. *)
LEMMA CloseFileKeeps ==
  ASSUME IInv, CloseFile
  PROVE  IInv' /\ file'.list >= file.list
<1>1. /\ client.writing # NoList /\ file.part = "whole"
      /\ client' = [client EXCEPT !.writing = NoList]
      /\ event' = TRUE /\ deaf' = FALSE
      /\ UNCHANGED <<list, uuid, handler, reached, nodeStatus, broken, beat, down, file, launcher, running>>
  BY DEF CloseFile
<1>2. client'.conn = client.conn /\ client'.writing = NoList
  BY <1>1 DEF IInv, TypeOK
<1>3. TypeOK'
  <2>1. client' \in [conn : Conns \cup {NoConn}, writing : 0 .. MaxLists]
    BY <1>1, Bounds DEF IInv, TypeOK
  <2> QED
    BY <1>1, <1>2, <2>1 DEF IInv, TypeOK
<1>4. Connected' /\ Queued'
  BY <1>1, <1>2 DEF IInv, Connected, Queued, OnTheWay
<1>5. Filed' /\ Read'
  BY <1>1, <1>2 DEF IInv, Filed, Read
<1>6. client.writing = list => InFile(list)'
  BY <1>1 DEF IInv, Filed, InFile, TypeOK, Files
<1>7. Delivered'
  BY <1>1, <1>2, <1>6 DEF IInv, Delivered, InFile
<1> QED
  BY <1>1, <1>3, <1>4, <1>5, <1>7, Numbers DEF IInv

(* A client without a connection: those there were are down.               *)
LEMMA NoClientKeeps ==
  ASSUME IInv, NEW c \in Conns, client.conn = c, client' = NoClient,
         broken' = [broken EXCEPT ![c] = TRUE] \/ (broken' = broken /\ broken[c]),
         event' = (event \/ client.writing # NoList) \/ event' = event,
         deaf' \in BOOLEAN,
         UNCHANGED <<list, uuid, handler, reached, nodeStatus, beat, down, file, launcher, running>>
  PROVE  IInv' /\ file'.list >= file.list
<1>1. \A d \in Conns : handler[d] # "none" => broken'[d]
  <2> TAKE d \in Conns
  <2>1. CASE d = c
    BY <2>1 DEF IInv, TypeOK
  <2>2. CASE d # c
    BY <2>2 DEF IInv, TypeOK, Connected
  <2> QED
    BY <2>1, <2>2
<1>2. TypeOK'
  BY Bounds DEF IInv, TypeOK, NoClient
<1>3. Connected'
  BY <1>1 DEF IInv, Connected
<1>4. Queued' /\ Filed'
  BY DEF IInv, Queued, Filed, NoClient, OnTheWay
<1>5. Read'
  BY DEF IInv, Read, Filed, TypeOK
<1>6. Delivered'
  BY <1>1 DEF IInv, Delivered, Connected, TypeOK
<1> QED
  BY <1>2, <1>3, <1>4, <1>5, <1>6, Numbers DEF IInv

(* The client ends, by itself or not.                                      *)
LEMMA ReadEndsKeeps ==
  ASSUME IInv, NEW c \in Conns, ReadEnds(c)
  PROVE  IInv' /\ file'.list >= file.list
BY NoClientKeeps DEF ReadEnds, IInv, TypeOK

LEMMA ClientCrashesKeeps ==
  ASSUME IInv, NEW c \in Conns, ClientCrashes(c)
  PROVE  IInv' /\ file'.list >= file.list
<1>1. deaf' \in BOOLEAN
  BY DEF ClientCrashes, IInv, TypeOK
<1> QED
  BY <1>1, NoClientKeeps DEF ClientCrashes

(* The launcher reads a file that was written.                             *)
LEMMA ReadFileKeeps ==
  ASSUME IInv, ReadFile
  PROVE  IInv' /\ file'.list >= file.list
<1>1. /\ event /\ event' = FALSE
      /\ launcher' = file
      /\ UNCHANGED <<list, uuid, handler, reached, nodeStatus, broken, beat, down, client, file, running, deaf>>
  BY DEF ReadFile
<1>2. TypeOK'
  BY <1>1 DEF IInv, TypeOK
<1>3. Connected' /\ Queued' /\ Filed' /\ Delivered'
  BY <1>1 DEF IInv, Connected, Queued, OnTheWay, Filed, Delivered, InFile
<1>4. Read'
  BY <1>1 DEF IInv, Read, Filed
<1> QED
  BY <1>1, <1>2, <1>3, <1>4, Numbers DEF IInv

(* The launcher forgets what it has read; only pods that are listed run.   *)
LEMMA LauncherKeeps ==
  ASSUME IInv, launcher' = NothingRead, event' = event \/ event' = FALSE,
         running' \in SUBSET PodManagers, deaf' \in BOOLEAN,
         UNCHANGED <<list, uuid, handler, reached, nodeStatus, broken, beat, down, client, file>>
  PROVE  IInv' /\ file'.list >= file.list
<1>1. TypeOK'
  BY Bounds DEF IInv, TypeOK, NothingRead, Files, Parts
<1>2. Connected' /\ Queued' /\ Filed' /\ Delivered'
  BY DEF IInv, Connected, Queued, OnTheWay, Filed, Delivered, InFile
<1>3. Read'
  BY DEF IInv, Read, TypeOK
<1> QED
  BY <1>1, <1>2, <1>3, Numbers DEF IInv

LEMMA UpdatePodManagersKeeps ==
  ASSUME IInv, UpdatePodManagers
  PROVE  IInv' /\ file'.list >= file.list
<1>1. running' \in SUBSET PodManagers
  <2>1. PodsIn(launcher) \subseteq PodManagers
    BY ConfigAssumption DEF IInv, TypeOK, Files, PodsIn
  <2> QED
    BY <2>1 DEF UpdatePodManagers, IInv, TypeOK
<1> QED
  BY <1>1, LauncherKeeps DEF UpdatePodManagers, IInv, TypeOK

LEMMA RestartLauncherKeeps ==
  ASSUME IInv, RestartLauncher
  PROVE  IInv' /\ file'.list >= file.list
BY LauncherKeeps DEF RestartLauncher

-----------------------------------------------------------------------------
(* Init has no connection and no list, and the file is missing.            *)
LEMMA InitHolds == Init => IInv
<1> SUFFICES ASSUME Init PROVE IInv
  OBVIOUS
<1>1. TypeOK
  <2>1. <<>> \in Seq(0 .. MaxLists)
    BY EmptySeq
  <2>2. down \in [Conns -> Seq(0 .. MaxLists)]
    BY <2>1 DEF Init
  <2>3. file \in Files /\ launcher \in Files /\ client \in [conn : Conns \cup {NoConn}, writing : 0 .. MaxLists]
    BY Bounds DEF Init, NoClient, NoFile, NothingRead, Files, Parts
  <2> QED
    BY Bounds, <2>2, <2>3 DEF Init, RestoredUUID, TypeOK, HandlerStates, NoStatus, NoClient
<1>2. Connected /\ Delivered
  BY DEF Init, Connected, Delivered, NoStatus
<1>3. Queued /\ Filed /\ Read
  BY DEF Init, Queued, Filed, Read, NoFile, NoClient
<1> QED
  BY <1>1, <1>2, <1>3 DEF IInv

LEMMA NextKeeps ==
  ASSUME IInv, [Next]_vars
  PROVE  IInv' /\ file'.list >= file.list
<1>1. ASSUME NEW c \in Conns, Connect(c) PROVE IInv' /\ file'.list >= file.list
  BY <1>1, ConnectKeeps
<1>2. ASSUME NEW c \in Conns, HandlerStep(c) PROVE IInv' /\ file'.list >= file.list
  BY <1>2, LookupKeeps, RegisterKeeps, CheckReadyKeeps, WriteConfigKeeps, ReceiveKeeps DEF HandlerStep
<1>3. ASSUME NEW c \in Conns, ReadFails(c) \/ Break(c) \/ SendHeartbeat(c) \/ ClientCrashes(c)
      PROVE  IInv' /\ file'.list >= file.list
  BY <1>3, ReadFailsKeeps, BreakKeeps, SendHeartbeatKeeps, ClientCrashesKeeps
<1>4. CASE Tick \/ SetUUID \/ RestartManager
  BY <1>4, TickKeeps, SetUUIDKeeps, RestartManagerKeeps
<1>5. CASE ClientStep
  BY <1>5, WriteFileKeeps, CloseFileKeeps, ReceiveRequestKeeps, ReadEndsKeeps DEF ClientStep
<1>6. CASE LauncherStep \/ RestartLauncher
  BY <1>6, ReadFileKeeps, UpdatePodManagersKeeps, RestartLauncherKeeps DEF LauncherStep
<1>7. CASE UNCHANGED vars
  BY <1>7, SameLists, Numbers
     DEF vars, IInv, TypeOK, Connected, Delivered, InFile
<1> QED
  BY <1>1, <1>2, <1>3, <1>4, <1>5, <1>6, <1>7 DEF Next

THEOREM Invariance == Spec => []IInv
<1>1. IInv /\ [Next]_vars => IInv'
  BY NextKeeps
<1> QED
  BY <1>1, InitHolds, PTL DEF Spec

(* Every variable keeps its type, connections are made in order, and an    *)
(* unregistered node is NotReady (config.go, config-client.go).            *)
THEOREM TypeCorrect == Spec => []TypeOK
<1>1. IInv => TypeOK
  BY DEF IInv
<1> QED
  BY <1>1, Invariance, PTL

(* A list that was sent over a connection that holds is on its way, being  *)
(* written or in the file, however many handlers, connections and          *)
(* managers there are (config.go:159-165, 233-285).                        *)
THEOREM DeliveredHolds == Spec => []Delivered
<1>1. IInv => Delivered
  BY DEF IInv
<1> QED
  BY <1>1, Invariance, PTL

(* The file never goes back to an earlier list (config-client.go:84-126).  *)
THEOREM FilesForwardHolds == Spec => FilesForward
<1>1. IInv /\ [Next]_vars => [file'.list >= file.list]_vars
  BY NextKeeps
<1> QED
  BY <1>1, Invariance, PTL DEF Spec, FilesForward

(* Only UpdatePodManagers and RestartLauncher end pod managers; the former *)
(* acts on a list that a manager could send, or on none.                   *)
LEMMA UpdateKeepsCommon ==
  ASSUME IInv, UpdatePodManagers
  PROVE  running \cap Common \subseteq running'
<1>1. launcher.list \in Sendable /\ launcher.part \in Parts
  BY DEF UpdatePodManagers, IInv, Read, TypeOK, Files
<1>2. Common \subseteq Listed[launcher.list]
  BY <1>1 DEF Common, Sendable
<1>3. CASE launcher.part = "whole"
  BY <1>2, <1>3 DEF UpdatePodManagers, PodsIn, Readable
<1>4. CASE launcher.part # "whole" /\ Readable(launcher)
  BY <1>2, <1>4 DEF Readable
<1>5. CASE ~Readable(launcher)
  BY <1>5 DEF UpdatePodManagers
<1> QED
  BY <1>3, <1>4, <1>5

LEMMA OthersKeepRunning ==
  ASSUME [Next]_vars
  PROVE  UpdatePodManagers \/ RestartLauncher \/ running' = running
BY DEF Next, vars, Connect, HandlerStep, Lookup, Register, CheckReady, WriteConfig, Receive,
       ReadFails, Break, SendHeartbeat, ClientCrashes, Tick, SetUUID, RestartManager, ClientStep,
       WriteFile, CloseFile, ReceiveRequest, ReadEnds, LauncherStep, ReadFile

(* A pod manager whose pod is on every list ends with the launcher only,   *)
(* however much of the file is there when the launcher reads it            *)
(* (launcher.py:33-64, config-client.go:106-125).                          *)
THEOREM CommonKeptHolds == Spec => CommonKept
<1>1. IInv /\ [Next]_vars => [running \cap Common \subseteq running' \/ RestartLauncher]_vars
  BY UpdateKeepsCommon, OthersKeepRunning
<1> QED
  BY <1>1, Invariance, PTL DEF Spec, CommonKept

=============================================================================
