---------------------------- MODULE ConfigChannel ----------------------------
(***************************************************************************)
(* How a node learns which pods use its GPU: pkg/devicemanager/config.go   *)
(* on the master, pkg/configclient and the launcher on the node.           *)
(*                                                                         *)
(* The client process dials the device manager, identifies itself and      *)
(* sends heartbeats.  A handler goroutine per connection enters the        *)
(* connection in nodeStatus, sends the GPU's list of pods over whatever    *)
(* connection nodeStatus holds by then, if the node is Ready by then, and  *)
(* goes on with reading heartbeats.  Every minute a check marks a node     *)
(* NotReady that has sent none.  The client writes a list to a file; the   *)
(* launcher reads the file when it is closed and keeps one pod manager     *)
(* process per pod on the list.                                            *)
(*                                                                         *)
(* One node with one GPU.  Connections are numbered in the order in which  *)
(* they are made.  The list is the one that the manager process restored   *)
(* from the API objects when it started; lists are numbered too.  The file *)
(* on the node is named after the GPU's UUID, which a process may restore, *)
(* or learn later from the GPU's dummy pod: a list that is sent before it  *)
(* is known has no name, and the client cannot write it anywhere.          *)
(***************************************************************************)
EXTENDS Naturals, Sequences

CONSTANTS
  MaxConns,       (* connections the client makes                           *)
  MaxLists,       (* lists, hence processes of the device manager           *)
  PodManagers,    (* pods with their ports                                  *)
  Listed,         (* the pods on each list; list 0 is the missing file      *)
  Unknown         (* processes that found no dummy pod of the GPU: it is    *)
                  (* not in nodesInfo, and there is no list to send         *)

Conns == 1 .. MaxConns
NoConn == 0
NoList == 0

(* On a connection: a list that came with an empty UUID.                   *)
Nameless == 0

ASSUME ConfigAssumption ==
  /\ MaxConns \in Nat /\ MaxLists \in Nat \ {0}
  /\ Listed \in [0 .. MaxLists -> SUBSET PodManagers]
  /\ Listed[NoList] = {}
  /\ Unknown \subseteq 1 .. MaxLists

VARIABLES
  list,           (* the manager's GPUInfo.PodList                          *)
  uuid,           (* the manager has the GPU's UUID                         *)
  handler,        (* clientHandler of each connection: where it is          *)
  reached,        (* a list with its UUID was written to the connection     *)
                  (* while that held (history)                              *)
  nodeStatus,     (* the connection, whether the node is Ready and whether  *)
                  (* LastHeartbeat is later than the last check             *)
  broken,         (* the connection is down                                 *)
  beat,           (* a heartbeat is on its way                              *)
  down,           (* lists on their way to the client                       *)
  client,         (* the client: its connection and the list it is writing  *)
  file,           (* the file: whose list, and how much of it               *)
  event,          (* the launcher has not yet been told of a closed file    *)
  launcher,       (* what the launcher has read and not yet acted on        *)
  running,        (* the pod managers that run                              *)
  deaf            (* the file has not been closed since the launcher started *)

manager == <<list, uuid, handler, reached, nodeStatus>>
network == <<broken, beat, down>>
node == <<client, file, event>>
pods == <<launcher, running, deaf>>
vars == <<manager, network, node, pods>>

HandlerStates == {"none", "lookup", "register", "check", "write", "loop", "misfiled", "gone"}
Parts == {"empty", "count", "whole"}
Files == [list : 0 .. MaxLists, part : Parts]
NoFile == [list |-> NoList, part |-> "whole"]
NothingRead == [list |-> NoList, part |-> "empty"]
NoStatus == [conn |-> NoConn, ready |-> FALSE, heard |-> FALSE]

(* Every variable has its type; connections are used in order; without a   *)
(* connection the client writes nothing; an unregistered node is NotReady. *)
TypeOK ==
  /\ list \in 1 .. MaxLists /\ uuid \in BOOLEAN
  /\ handler \in [Conns -> HandlerStates]
  /\ reached \in [Conns -> BOOLEAN]
  /\ nodeStatus \in [conn : Conns \cup {NoConn}, ready : BOOLEAN, heard : BOOLEAN]
  /\ broken \in [Conns -> BOOLEAN] /\ beat \in [Conns -> BOOLEAN]
  /\ down \in [Conns -> Seq(0 .. MaxLists)]
  /\ client \in [conn : Conns \cup {NoConn}, writing : 0 .. MaxLists]
  /\ file \in Files /\ event \in BOOLEAN
  /\ launcher \in Files /\ running \subseteq PodManagers /\ deaf \in BOOLEAN
  /\ \A c \in Conns : handler[c] = "none" => \A d \in Conns : d > c => handler[d] = "none"
  /\ client.conn = NoConn => client.writing = NoList
  /\ nodeStatus.conn = NoConn => ~nodeStatus.ready

-----------------------------------------------------------------------------
NoClient == [conn |-> NoConn, writing |-> NoList]

(* initNodesInfo: a SharePod may or may not record the device; a GPU that  *)
(* is not in nodesInfo has none.                                           *)
RestoredUUID(l) == IF l \in Unknown THEN {FALSE} ELSE BOOLEAN

Init ==
  /\ list = 1 /\ uuid \in RestoredUUID(1)
  /\ handler = [c \in Conns |-> "none"] /\ reached = [c \in Conns |-> FALSE]
  /\ nodeStatus = NoStatus
  /\ broken = [c \in Conns |-> FALSE] /\ beat = [c \in Conns |-> FALSE]
  /\ down = [c \in Conns |-> <<>>]
  /\ client = NoClient
  /\ file = NoFile /\ event = FALSE
  /\ launcher = NothingRead /\ running = {} /\ deaf = TRUE

At(c, from, to) == handler[c] = from /\ handler' = [handler EXCEPT ![c] = to]

(* The client process is started (again) and dials.                        *)
Connect(c) ==
  /\ client.conn = NoConn
  /\ \A d \in Conns : handler[d] = "none" <=> d >= c
  /\ At(c, "none", "lookup")
  /\ client' = [client EXCEPT !.conn = c]
  /\ UNCHANGED <<list, uuid, reached, nodeStatus, network, file, event, pods>>

-----------------------------------------------------------------------------
(* clientHandler.                                                          *)

(* The handler reads the client's name and looks its pod up.  If the pod   *)
(* is not found, or the connection is down, it returns.  After any other   *)
(* error it takes the pod for one of the node "".                          *)
Lookup(c) ==
  /\ \/ At(c, "lookup", "register") /\ UNCHANGED broken
     \/ At(c, "lookup", "misfiled") /\ UNCHANGED broken
     \/ At(c, "lookup", "gone") /\ broken' = [broken EXCEPT ![c] = TRUE]
  /\ UNCHANGED <<list, uuid, reached, nodeStatus, beat, down, node, pods>>

(* The node gets the new connection, is Ready and was never heard of.      *)
Register(c) ==
  /\ At(c, "register", "check")
  /\ nodeStatus' = [conn |-> c, ready |-> TRUE, heard |-> FALSE]
  /\ UNCHANGED <<list, uuid, reached, network, node, pods>>

(* Two calls to the API server later: syncConfig, under nodesInfoMux,      *)
(* looks whether the node is Ready.  Whether it fails is ignored.          *)
CheckReady(c) ==
  /\ \A d \in Conns : handler[d] # "write"
  /\ IF list \notin Unknown /\ nodeStatus.ready
     THEN At(c, "check", "write")
     ELSE At(c, "check", "loop")
  /\ UNCHANGED <<list, uuid, reached, nodeStatus, network, node, pods>>

(* It writes to the connection the node has now, which may be a later one  *)
(* than c, or one that is dead.  The UUID may still be empty.              *)
WriteConfig(c) ==
  /\ At(c, "write", "loop")
  /\ IF broken[nodeStatus.conn]
     THEN UNCHANGED <<down, reached>>
     ELSE /\ down' = [down EXCEPT ![nodeStatus.conn] = Append(@, IF uuid THEN list ELSE Nameless)]
          /\ reached' = [reached EXCEPT ![nodeStatus.conn] = @ \/ uuid]
  /\ UNCHANGED <<list, uuid, nodeStatus, broken, beat, node, pods>>

(* getAndSetUUIDFromDummyPod, under nodesInfoMux, once the UUID is among   *)
(* those a client of the node has told.  Nothing is sent.                  *)
SetUUID ==
  /\ list \notin Unknown /\ ~uuid
  /\ nodeStatus.conn # NoConn
  /\ \A d \in Conns : handler[d] # "write"
  /\ uuid' = TRUE
  /\ UNCHANGED <<list, handler, reached, nodeStatus, network, node, pods>>

(* Fault for the runs: only the time is noted.                             *)
ReceiveNotesTime(c) ==
  /\ handler[c] \in {"loop", "misfiled"} /\ beat[c]
  /\ beat' = [beat EXCEPT ![c] = FALSE]
  /\ nodeStatus' = IF handler[c] = "misfiled" THEN nodeStatus
                   ELSE [nodeStatus EXCEPT !.heard = TRUE]
  /\ UNCHANGED <<list, uuid, handler, reached, broken, down, node, pods>>

(* A heartbeat arrives.                                                    *)
Receive(c) ==
  /\ handler[c] \in {"loop", "misfiled"} /\ beat[c]
  /\ beat' = [beat EXCEPT ![c] = FALSE]
  /\ nodeStatus' = IF handler[c] = "misfiled" THEN nodeStatus
                   ELSE [nodeStatus EXCEPT !.ready = TRUE, !.heard = TRUE]
  /\ UNCHANGED <<list, uuid, handler, reached, broken, down, node, pods>>

(* Reading fails: the node is NotReady, whatever connection it has by now. *)
ReadFails(c) ==
  /\ handler[c] \in {"loop", "misfiled"} /\ broken[c] /\ ~beat[c]
  /\ handler' = [handler EXCEPT ![c] = "gone"]
  /\ nodeStatus' = IF handler[c] = "misfiled" THEN nodeStatus
                   ELSE [nodeStatus EXCEPT !.ready = FALSE]
  /\ UNCHANGED <<list, uuid, reached, network, node, pods>>

(* Fault for the runs: a node that never sent a heartbeat is passed over.  *)
TickPassesOver ==
  /\ nodeStatus' = [nodeStatus EXCEPT !.heard = FALSE]
  /\ UNCHANGED <<list, uuid, handler, reached, network, node, pods>>

(* periodicallyCheckHeartbeats: every 60 seconds, a node whose last        *)
(* heartbeat is more than 60 seconds old, that is, older than the last     *)
(* check, is NotReady.                                                     *)
Tick ==
  /\ nodeStatus' = [nodeStatus EXCEPT !.heard = FALSE, !.ready = @ /\ nodeStatus.heard]
  /\ UNCHANGED <<list, uuid, handler, reached, network, node, pods>>

-----------------------------------------------------------------------------
(* What happens to connections and processes.                              *)

(* The connection fails; what is on its way may or may not arrive.         *)
Break(c) ==
  /\ handler[c] # "none" /\ ~broken[c]
  /\ broken' = [broken EXCEPT ![c] = TRUE]
  /\ \E lost \in BOOLEAN :
       /\ beat' = [beat EXCEPT ![c] = @ /\ ~lost]
       /\ down' = [down EXCEPT ![c] = IF lost THEN <<>> ELSE @]
  /\ UNCHANGED <<manager, node, pods>>

(* The device manager dies and is started again with what it finds in the  *)
(* API objects.  Its connections end.                                      *)
RestartManager ==
  /\ list < MaxLists
  /\ list' = list + 1 /\ uuid' \in RestoredUUID(list + 1)
  /\ handler' = [c \in Conns |-> IF handler[c] = "none" THEN "none" ELSE "gone"]
  /\ nodeStatus' = NoStatus
  /\ broken' = [c \in Conns |-> handler[c] # "none"]
  /\ UNCHANGED <<reached, beat, down, node, pods>>

-----------------------------------------------------------------------------
(* The client process.                                                     *)

SendHeartbeat(c) ==
  /\ client.conn = c /\ ~broken[c] /\ ~beat[c]
  /\ beat' = [beat EXCEPT ![c] = TRUE]
  /\ UNCHANGED <<manager, broken, down, node, pods>>

(* Fault for the runs: the reader of an earlier connection still runs.     *)
ReceiveRequestOfAny(c) ==
  /\ client.conn # NoConn /\ client.writing = NoList /\ down[c] # <<>>
  /\ down' = [down EXCEPT ![c] = Tail(@)]
  /\ IF Head(down[c]) = Nameless
     THEN UNCHANGED <<client, file>>
     ELSE /\ client' = [client EXCEPT !.writing = Head(down[c])]
          /\ file' = [list |-> Head(down[c]), part |-> "empty"]
  /\ UNCHANGED <<manager, broken, beat, event, pods>>

(* Fault for the runs: a reader made for each request loses what the last  *)
(* one had buffered.                                                       *)
ReceiveRequestUnbuffered(c) ==
  /\ client.conn = c /\ client.writing = NoList /\ down[c] # <<>>
  /\ down' = [down EXCEPT ![c] = <<>>]
  /\ IF Head(down[c]) = Nameless
     THEN UNCHANGED <<client, file>>
     ELSE /\ client' = [client EXCEPT !.writing = Head(down[c])]
          /\ file' = [list |-> Head(down[c]), part |-> "empty"]
  /\ UNCHANGED <<manager, broken, beat, event, pods>>

(* handleRequest truncates the file.  Without a UUID the path is that of   *)
(* the directory, which os.Create refuses: nothing is written.             *)
ReceiveRequest(c) ==
  /\ client.conn = c /\ client.writing = NoList /\ down[c] # <<>>
  /\ down' = [down EXCEPT ![c] = Tail(@)]
  /\ IF Head(down[c]) = Nameless
     THEN UNCHANGED <<client, file>>
     ELSE /\ client' = [client EXCEPT !.writing = Head(down[c])]
          /\ file' = [list |-> Head(down[c]), part |-> "empty"]
  /\ UNCHANGED <<manager, broken, beat, event, pods>>

(* It writes the number of pods, then the pods ...                         *)
WriteFile ==
  /\ client.writing # NoList
  /\ \/ file.part = "empty" /\ file' = [file EXCEPT !.part = "count"]
     \/ file.part = "count" /\ file' = [file EXCEPT !.part = "whole"]
  /\ UNCHANGED <<manager, network, client, event, pods>>

(* Fault for the runs: the launcher's watch misses the closing.            *)
CloseFileUnseen ==
  /\ client.writing # NoList /\ file.part = "whole"
  /\ client' = [client EXCEPT !.writing = NoList]
  /\ deaf' = FALSE
  /\ UNCHANGED <<manager, network, file, event, launcher, running>>

(* ... and closes it.                                                      *)
CloseFile ==
  /\ client.writing # NoList /\ file.part = "whole"
  /\ client' = [client EXCEPT !.writing = NoList]
  /\ event' = TRUE /\ deaf' = FALSE
  /\ UNCHANGED <<manager, network, file, launcher, running>>

(* Reading fails, and the process ends.                                    *)
ReadEnds(c) ==
  /\ client.conn = c /\ client.writing = NoList
  /\ broken[c] /\ down[c] = <<>>
  /\ client' = NoClient
  /\ UNCHANGED <<manager, network, file, event, pods>>

(* Fault for the runs: the list that was being written is still being      *)
(* written when there is nobody to write it.                               *)
ClientCrashesWriting(c) ==
  /\ client.conn = c
  /\ client' = [client EXCEPT !.conn = NoConn]
  /\ broken' = [broken EXCEPT ![c] = TRUE]
  /\ UNCHANGED <<manager, beat, down, file, event, pods>>

(* The process is killed, which closes the file however far it has come.   *)
ClientCrashes(c) ==
  /\ client.conn = c
  /\ client' = NoClient
  /\ broken' = [broken EXCEPT ![c] = TRUE]
  /\ event' = (event \/ client.writing # NoList)
  /\ deaf' = (deaf /\ client.writing = NoList)
  /\ UNCHANGED <<manager, beat, down, file, launcher, running>>

-----------------------------------------------------------------------------
(* The launcher.                                                           *)

(* It is told of a closed file and reads it.                               *)
ReadFile ==
  /\ event /\ launcher = NothingRead
  /\ event' = FALSE
  /\ launcher' = file
  /\ UNCHANGED <<manager, network, client, file, running, deaf>>

(* Fault for the runs: the count is not compared with what is there.       *)
ReadableAnyway(f) == f.part # "empty"

(* An empty file is left alone; when there are fewer pods than the count   *)
(* says, an exception is caught before anything has been started or ended. *)
Readable(f) == f.part = "whole" \/ (f.part = "count" /\ Listed[f.list] = {})

PodsIn(f) == IF f.part = "whole" THEN Listed[f.list] ELSE {}

UpdatePodManagers ==
  /\ launcher # NothingRead
  /\ running' = IF Readable(launcher) THEN PodsIn(launcher) ELSE running
  /\ launcher' = NothingRead
  /\ UNCHANGED <<manager, network, node, deaf>>

(* It dies, and its pod managers with it, and is started again.  It waits  *)
(* for the next closing and does not look at the file that is there.       *)
RestartLauncher ==
  /\ event' = FALSE
  /\ launcher' = NothingRead /\ running' = {} /\ deaf' = TRUE
  /\ UNCHANGED <<manager, network, client, file>>

-----------------------------------------------------------------------------
HandlerStep(c) ==
  \/ Lookup(c)
  \/ Register(c)
  \/ CheckReady(c)
  \/ WriteConfig(c)
  \/ Receive(c)

ClientStep == WriteFile \/ CloseFile \/ \E c \in Conns : ReceiveRequest(c) \/ ReadEnds(c)

LauncherStep == ReadFile \/ UpdatePodManagers

Next ==
  \/ \E c \in Conns :
       \/ Connect(c)
       \/ HandlerStep(c)
       \/ ReadFails(c)
       \/ Break(c)
       \/ SendHeartbeat(c)
       \/ ClientCrashes(c)
  \/ Tick
  \/ SetUUID
  \/ RestartManager
  \/ ClientStep
  \/ LauncherStep
  \/ RestartLauncher

Spec == Init /\ [][Next]_vars

(* Goroutines, the ticker, the client and the launcher are scheduled.  The *)
(* client's own restart is not assumed; nor that reading from a dead       *)
(* connection ever fails at the manager, which sets no deadline.           *)
Fairness ==
  /\ \A c \in Conns : WF_vars(HandlerStep(c)) /\ WF_vars(SendHeartbeat(c))
  /\ WF_vars(Tick)
  /\ WF_vars(ClientStep)
  /\ WF_vars(LauncherStep)

FairSpec == Spec /\ Fairness

-----------------------------------------------------------------------------
(* Properties.                                                             *)

InFile(l) == file = [list |-> l, part |-> "whole"]

(* Once a list has been written with its UUID to a connection that holds,  *)
(* the manager's present list is what the client will have written in the  *)
(* end: it is on its way behind everything else, or being written, or in   *)
(* the file - whichever handlers write to the connection, before the UUID  *)
(* is known and after (config.go:161-165, config-client.go:84-126).        *)
Delivered ==
  \A c \in Conns :
    reached[c] /\ ~broken[c] =>
      IF down[c] # <<>> THEN down[c][Len(down[c])] = list
                        ELSE client.writing = list \/ InFile(list)

(* The file never goes back to an earlier list, although several           *)
(* connections carry lists at the same time (config-client.go:84-126).     *)
FilesForward == [][file'.list >= file.list]_vars

Common == {p \in PodManagers : \A l \in (1 .. MaxLists) \ Unknown : p \in Listed[l]}

(* A pod manager whose pod is on every list ends with the launcher only,   *)
(* whatever the launcher finds in a file that is half written or was left  *)
(* so by a client that died (launcher.py:33-64, config-client.go:106-125). *)
CommonKept == [][running \cap Common \subseteq running' \/ RestartLauncher]_vars

Served(c) == client.conn = c /\ ~broken[c] /\ handler[c] # "misfiled"

(* A node whose client stays connected is Ready again and again, also      *)
(* after handlers of earlier connections have set it NotReady             *)
(* (config.go:178-185).                                                    *)
ReadyAgain == \A c \in Conns : <>[]Served(c) => []<>nodeStatus.ready

(* A node whose client does not come back is NotReady in the end, even if  *)
(* reading from its connections never fails (config.go:219-231).           *)
DeadNoticed == <>[](client.conn = NoConn) => <>[]~nodeStatus.ready

(* A client that stays connected and was sent a list with its UUID ends    *)
(* with the manager's list in the file and exactly its pods running,       *)
(* through any crashes of the launcher before the file was closed.  What   *)
(* was never sent - since the node was NotReady, or another connection had *)
(* been registered, or the UUID was empty - is not promised to arrive      *)
(* (config.go:161-165, config-client.go:84-126, launcher.py:86-93).        *)
ConfigArrives ==
  \A c \in Conns :
    <>[](client.conn = c /\ ~broken[c] /\ reached[c])
      => <>[](InFile(list) /\ (deaf \/ running = Listed[list]))
=============================================================================
