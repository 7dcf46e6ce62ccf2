------------------------------ MODULE DialRoute ------------------------------
(***************************************************************************)
(* Which of a peer's two addresses the hub dials: the liveness cache, the  *)
(* dial cache, the background refresh of a stale route and the probes that *)
(* run inline (src/src/fleet/remote_stats.py). One peer with both a LAN    *)
(* and a tailnet address; probes block, so they interleave with each other *)
(* and with changes of the network.                                        *)
(***************************************************************************)
EXTENDS Integers

CONSTANTS
    Callers,        \* polls and SSH workers that probe inline
    Background,     \* the refresh thread
    MaxRaises       \* probes that raise (bound)

ASSUME DialAssumption == Background \notin Callers /\ MaxRaises \in Nat

VARIABLES
    answers,        \* the addresses whose liveness ports accept
    dial, liveness, \* _dial_cache and _liveness_cache: an address, and not expired
    route,          \* _active_route
    probe,          \* every prober: what it probes, in which pass, and for whom
    refreshing,       \* the host is in _refresh_inflight
    raises

dialVars == <<answers, dial, liveness, route, probe, refreshing, raises>>

Unknown == "none"
Lan == "lan"
Tailnet == "tailnet"
NoProbe == [address |-> Unknown, pass |-> 0, locates |-> FALSE]

(* A probe from the start: the LAN address first; locate has a second pass. *)
Probing(locates) == [address |-> Lan, pass |-> IF locates THEN 1 ELSE 2, locates |-> locates]

DialInit ==
    /\ answers \in SUBSET {Lan, Tailnet}
    /\ dial = [address |-> Unknown, fresh |-> FALSE]
    /\ liveness = [address |-> Unknown, fresh |-> FALSE]
    /\ route = Unknown /\ refreshing = FALSE /\ raises = 0
    /\ probe = [c \in Callers \cup {Background} |-> NoProbe]

(* What dial_address answers without probing. *)
Guess ==
    IF dial.fresh THEN dial.address
    ELSE IF liveness.fresh /\ liveness.address # Unknown THEN liveness.address
    ELSE IF dial.address # Unknown THEN dial.address
    ELSE IF route # Unknown THEN route ELSE Lan

PinLiveness == dial' = [address |-> liveness.address, fresh |-> TRUE]
Starts(c, locates) == probe' = [probe EXCEPT ![c] = Probing(locates)]

(* dial_address: nothing to do while the route is fresh; a fresh liveness  *)
(* reading is pinned; else probe inline, or kick the one refresh thread.   *)
Dial(c, wait) ==
    /\ ~dial.fresh
    /\ \/ /\ liveness.fresh /\ liveness.address # Unknown /\ PinLiveness
          /\ UNCHANGED <<probe, refreshing>>
       \/ /\ ~(liveness.fresh /\ liveness.address # Unknown) /\ UNCHANGED dial
          /\ IF wait THEN probe[c] = NoProbe /\ Starts(c, FALSE) /\ UNCHANGED refreshing
             ELSE ~refreshing /\ refreshing' = TRUE /\ Starts(Background, FALSE)
    /\ UNCHANGED <<answers, liveness, route, raises>>

(* located_address, on a miss of its cache. *)
Locate(c) ==
    /\ ~liveness.fresh /\ probe[c] = NoProbe /\ Starts(c, TRUE)
    /\ UNCHANGED <<answers, dial, liveness, route, refreshing, raises>>

(* The end of a probe: the winner is pinned as the route, or the LAN       *)
(* address when nothing answered; a locate fills the liveness cache, whose *)
(* age counts from before the probe and may be over already.               *)
Ends(c, winner) ==
    /\ probe' = [probe EXCEPT ![c] = NoProbe]
    /\ route' = IF winner = Unknown THEN route ELSE winner
    /\ refreshing' = (refreshing /\ c # Background)
    /\ IF probe[c].locates
       THEN /\ \E fresh \in BOOLEAN : liveness' = [address |-> winner, fresh |-> fresh]
            /\ UNCHANGED dial
       ELSE /\ dial' = [address |-> IF winner = Unknown THEN Lan ELSE winner, fresh |-> TRUE]
            /\ UNCHANGED liveness
    /\ UNCHANGED <<answers, raises>>

(* One address is probed: it answers, or the next one is tried. *)
ProbeStep(c) ==
    LET p == probe[c] IN
    /\ p # NoProbe
    /\ IF p.address \in answers THEN Ends(c, p.address)
       ELSE IF p.address = Tailnet /\ p.pass = 2 THEN Ends(c, Unknown)
       ELSE /\ probe' = [probe EXCEPT ![c] =
                 IF p.address = Lan THEN [p EXCEPT !.address = Tailnet]
                 ELSE [p EXCEPT !.address = Lan, !.pass = 2]]
            /\ UNCHANGED <<answers, dial, liveness, route, refreshing, raises>>

(* Mutant of ProbeRaises: the mark is not cleared. *)
ProbeRaisesMarked(c) ==
    /\ probe[c] # NoProbe /\ raises < MaxRaises /\ raises' = raises + 1
    /\ probe' = [probe EXCEPT ![c] = NoProbe]
    /\ UNCHANGED <<answers, dial, liveness, route, refreshing>>

(* A probe raises: the refresh thread swallows it and clears its mark. *)
ProbeRaises(c) ==
    /\ probe[c] # NoProbe /\ raises < MaxRaises /\ raises' = raises + 1
    /\ probe' = [probe EXCEPT ![c] = NoProbe] /\ refreshing' = (refreshing /\ c # Background)
    /\ UNCHANGED <<answers, dial, liveness, route>>

RouteExpires ==
    /\ dial.fresh /\ dial' = [dial EXCEPT !.fresh = FALSE]
    /\ UNCHANGED <<answers, liveness, route, probe, refreshing, raises>>
LivenessExpires ==
    /\ liveness.fresh /\ liveness' = [liveness EXCEPT !.fresh = FALSE]
    /\ UNCHANGED <<answers, dial, route, probe, refreshing, raises>>

(* The wire, the tailnet or the machine goes away or comes back. *)
NetworkChanges ==
    /\ answers' \in SUBSET {Lan, Tailnet} /\ answers' # answers
    /\ UNCHANGED <<dial, liveness, route, probe, refreshing, raises>>

DialNext ==
    \/ \E c \in Callers : Locate(c) \/ \E wait \in BOOLEAN : Dial(c, wait)
    \/ \E c \in Callers \cup {Background} : ProbeStep(c) \/ ProbeRaises(c)
    \/ RouteExpires \/ LivenessExpires \/ NetworkChanges

DialSpec == DialInit /\ [][DialNext]_dialVars

(* Entries expire, probes time out, and the hub goes on dialling without   *)
(* waiting (its proxy and its polls do so every few seconds).              *)
DialsOn == \E c \in Callers : Dial(c, FALSE)
ProbesEnd ==
    /\ WF_dialVars(RouteExpires) /\ WF_dialVars(LivenessExpires)
    /\ \A c \in Callers \cup {Background} : WF_dialVars(ProbeStep(c))
DialFairness == WF_dialVars(DialsOn) /\ ProbesEnd

(***************************************************************************)
(* Properties.                                                             *)
(***************************************************************************)

(* Once the network stays as it is, the hub in the end dials the LAN       *)
(* address if it answers, the tailnet name if only that does, and the LAN  *)
(* address when the peer is gone: no late probe, no raised one and no      *)
(* order of expiries leaves it on a dead address.                          *)
DialsWhatAnswers ==
    <>[][UNCHANGED answers]_dialVars =>
        <>[](Guess = IF answers = {Tailnet} THEN Tailnet ELSE Lan)
=============================================================================
