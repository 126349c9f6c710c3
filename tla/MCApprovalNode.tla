--------------------------- MODULE MCApprovalNode ---------------------------
(* Three executions of approval nodes and two requests.  Two executions are of  *)
(* one node, as when a join behind a condition gets two messages in one         *)
(* superstep; the third has a node of its own, which approves on timeout.       *)
EXTENDS ApprovalNode, TLC

CONSTANTS e1, e2, e3, n1, n2, r1, r2

MCExec == {e1, e2, e3}
MCReq == {r1, r2}
TwoNodes == {n1, n2}
JoinedAndAlone == e1 :> n1 @@ e2 :> n1 @@ e3 :> n2
AutoSecond == {n2}
================================================================================
