--------------------------- MODULE MCFailoverFleet ---------------------------
(* Two hosts that list the model, the write host one of them, and one hub   *)
(* outside every chain that only forwards.                                  *)
EXTENDS FailoverFleet

MCHosts == 2
MCHubs == 3
MCWriter == 1

(* A placement may turn the order round or leave the model to one host. *)
MCPlacements == {AntiFunction(s) : s \in {<<1, 2>>, <<2, 1>>, <<1>>}}

(* Outages and returns are believed one time unit after they were first     *)
(* seen; two disruptions let both candidates fail, or a placement go wrong.  *)
MCWindow == 1
MCMaxDisruptions == 2
=============================================================================
