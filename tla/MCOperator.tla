----------------------------- MODULE MCOperator -----------------------------
(* One function, whose SharePod is applied, deleted and applied again; its *)
(* Deployment is scaled to nothing or up.                                  *)
EXTENDS Operator, TLC

(* Two applies, and what else happens in a behaviour: any two of an error, *)
(* a restart and a lost notification, or one event of any kind.            *)
Tried ==
  {u \in [Events -> 0 .. 2] :
     /\ \A e \in Events \ {"apply"} : u[e] <= 1
     /\ LET troubles == u["error"] + u["restart"] + u["loss"]
            others == u["scale"] + u["foreign"]
        IN  troubles + others <= 1 \/ (others = 0 /\ troubles <= 2)}

(* Two applies and one error.                                              *)
OneError ==
  {u \in [Events -> 0 .. 2] : u["error"] <= 1 /\ \A e \in Events \ {"apply", "error"} : u[e] = 0}
=============================================================================
