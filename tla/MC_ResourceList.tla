---------------------------- MODULE MC_ResourceList ----------------------------
(* Two linked stages, the vertex stage first, up to two storage entries   *)
(* and one vertex input: enough for a list of three resources and for a   *)
(* second build to find the first one's list, or the failed one's count.  *)
EXTENDS ResourceList

TwoStages == 0..1
=============================================================================
