---------------------------- MODULE MCFailoverHub ----------------------------
(* The second of three candidates: in the shipped order it takes over from  *)
(* the first, hands back to it, and is preferred to the third.              *)
EXTENDS FailoverHub

MCSelf == 2
MCHosts == 3

(* A placement may reverse the order, take this hub out of the chain, or    *)
(* leave the model to another host alone.                                   *)
MCPlacements == {AntiFunction(s) : s \in {<<1, 2, 3>>, <<3, 1>>, <<1>>}}

(* Passes are 1 or 2 time units apart: an outage is believed at the next    *)
(* pass, a return in one pass or two, so a failback takes longer than a     *)
(* failover, as in the shipped settings (90 s, 600 s).                      *)
MCFailAfter == 1
MCFailbackAfter == 2
MCMaxAge == 2
=============================================================================
