------------------------- MODULE MCRemediationPipeline -------------------------
(***************************************************************************)
(* A finite instance of RemediationPipeline for TLC: an alert, two          *)
(* approvals of its run, and an operator's order on the resource that the   *)
(* run restarts by itself.                                                  *)
(***************************************************************************)
EXTENDS RemediationPipeline, TLC

CONSTANTS a1, p1, p2, o1

MCRunOf == p1 :> a1 @@ p2 :> a1

(* The deployment is restarted, or scaled to zero, which the gate           *)
(* forbids.                                                                 *)
MCOrderRequests ==
  {[action |-> "restart_deployment", target |-> "coredns", breaksRule |-> FALSE],
   [action |-> "scale_deployment", target |-> "coredns", breaksRule |-> TRUE]}

Hyp(title, confident) == [title |-> title, confident |-> confident]

(* One that is executed at once, one that waits for an approval. *)
MCHypotheses ==
  a1 :> <<Hyp("dns_resolution_issue", TRUE), Hyp("memory_leak", FALSE)>>

(* One approval takes what is pending; the other may also name both          *)
(* recommendations, or one that there is not.                               *)
MCIndexLists == p1 :> {} @@ p2 :> {<<2, 1>>, <<3>>}

MCService == a1 :> "web"

MCExecutions == (Tasks \X {1, 2}) \cup Orders
=============================================================================
