------------------------------ MODULE LogPipe -------------------------------
(***************************************************************************)
(* What a request promises to the client that asks for logs: a pipe per    *)
(* instance.  The instance puts its lines in one after the other, and the  *)
(* client takes out the same ones, until it is closed; how far the client  *)
(* is behind, and why the pipe is closed, is left open.                    *)
(***************************************************************************)
EXTENDS Integers, Sequences

CONSTANTS
  Pods,         (* instances of the function                               *)
  Lines         (* Lines[p]: how many lines p writes                       *)

VARIABLES
  sent,         (* how many lines of each instance have been put in        *)
  received,     (* the numbers of the lines taken out                      *)
  open          (* the client still gets lines                             *)

pipe == <<sent, received, open>>

Init ==
  /\ sent = [p \in Pods |-> 0]
  /\ received = [p \in Pods |-> <<>>]
  /\ open = TRUE

Send(p) ==
  /\ sent[p] < Lines[p]
  /\ sent' = [sent EXCEPT ![p] = @ + 1]
  /\ UNCHANGED <<received, open>>

Receive(p) ==
  /\ open
  /\ Len(received[p]) < sent[p]
  /\ received' = [received EXCEPT ![p] = Append(@, Len(@) + 1)]
  /\ UNCHANGED <<sent, open>>

Close ==
  /\ open
  /\ open' = FALSE
  /\ UNCHANGED <<sent, received>>

Next == Close \/ \E p \in Pods : Send(p) \/ Receive(p)

Spec == Init /\ [][Next]_pipe
=============================================================================
