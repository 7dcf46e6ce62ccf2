------------------------------ MODULE MCOnDemand ------------------------------
(* Two requests, one of them streamed, and two process names: one tracked   *)
(* by the hub and one being stopped or escaped.                             *)
EXTENDS OnDemand

(* A request waits for a load for one tick; an idle backend is kept for two. *)
MCWindow == 2
MCDeadline == 1

(* One button press, restart or failed stop, at any moment. *)
MCMaxDisruptions == 1
=============================================================================
