-------------------------- MODULE OwnershipTracker --------------------------
(***************************************************************************)
(* The ownership state machine of one hub for one multi-host model         *)
(* (src/src/model_failover.py, class OwnershipTracker), as operators over  *)
(* the tracker's two pieces of state:                                      *)
(*                                                                         *)
(*   obs    what the hub last saw of every candidate: `seen` is None, "up" *)
(*          or "down"; `age` is how long that state has lasted (the code   *)
(*          stores the moment `since` and compares now - since);           *)
(*   owner  the candidate that owns the model, or NoHost before the first  *)
(*          decision.                                                      *)
(*                                                                         *)
(* A chain (the row's `hosts: [a, b, c]`, or what is left of it when       *)
(* dormant hosts are taken out) is a function from its hosts to their      *)
(* places: place 1 is the preferred one, "more preferred" is "<". A        *)
(* placement may put any hosts that list the model in it, in any order.    *)
(***************************************************************************)
EXTENDS Integers, FiniteSets, Functions

CONSTANTS
    N,              \* number of hosts that list the model in `enabled:`
    Placements,     \* the chains a placement may give the model
    FailAfter,      \* fail_after_s: outage before ownership moves on
    FailbackAfter,  \* failback_after_s: stability before it is handed back
    AutoFailback,   \* policy: TRUE is "auto", FALSE is "sticky"
    MaxAge          \* bound: ages are not told apart beyond it

ASSUME ChainAssumption == N \in Nat /\ N >= 1
ASSUME WindowAssumption ==
    /\ FailAfter \in Nat /\ FailbackAfter \in Nat /\ MaxAge \in Nat
    /\ FailAfter <= MaxAge /\ FailbackAfter <= MaxAge
ASSUME PolicyAssumption == AutoFailback \in BOOLEAN

Candidates == 1..N

(* No host twice, no two hosts in one place. *)
IsChain(c) ==
    /\ DOMAIN c \subseteq Candidates
    /\ c \in [DOMAIN c -> 1..N]
    /\ IsInjective(c)

ASSUME PlacementAssumption ==
    /\ Placements # {}
    /\ \A c \in Placements : IsChain(c) /\ DOMAIN c # {}

(* The host of S that stands first in the chain. *)
Best(S, chain) == CHOOSE x \in S : \A y \in S : chain[x] <= chain[y]
First(chain) == Best(DOMAIN chain, chain)

(* eligible_chain: dormant hosts are filtered out at resolution time. *)
EligibleChain(hosts, dormant) == Restrict(hosts, DOMAIN hosts \ dormant)

IsMultiHost(chain) == Cardinality(DOMAIN chain) > 1

NoHost == 0

Observation == [seen : {"none", "up", "down"}, age : 0..MaxAge]

(* _hosts starts empty: _is_up is None and _state_age is 0 for every host. *)
Unobserved == [x \in Candidates |-> [seen |-> "none", age |-> 0]]

(***************************************************************************)
(* Reading the observations.                                               *)
(***************************************************************************)
IsUp(obs, chain) == {x \in DOMAIN chain : obs[x].seen = "up"}
IsUnprobed(obs, chain) == {x \in DOMAIN chain : obs[x].seen = "none"}

Later(age, elapsed) == IF age + elapsed > MaxAge THEN MaxAge ELSE age + elapsed

(***************************************************************************)
(* observe_host for every host of `probed`, `elapsed` after the previous   *)
(* pass: the age restarts only when the answer changes, and a host that    *)
(* was not probed (it was not in the chain) just grows older.              *)
(***************************************************************************)
(* Mutant: `since` kept when the answer changes, so short spells add up. *)
ObserveHostKeepsSince(o, reachable, elapsed) ==
    [seen |-> IF reachable THEN "up" ELSE "down", age |-> Later(o.age, elapsed)]

ObserveHost(o, reachable, elapsed) ==
    LET answer == IF reachable THEN "up" ELSE "down"
    IN  IF o.seen = answer
        THEN [o EXCEPT !.age = Later(@, elapsed)]
        ELSE [seen |-> answer, age |-> 0]

StateAge(o, elapsed) ==
    IF o.seen = "none" THEN o ELSE [o EXCEPT !.age = Later(@, elapsed)]

Observe(obs, probed, reachable, elapsed) ==
    [x \in Candidates |->
        IF x \in probed
        THEN ObserveHost(obs[x], x \in reachable, elapsed)
        ELSE StateAge(obs[x], elapsed)]

(***************************************************************************)
(* decide: which candidate of the eligible chain owns the model now.       *)
(***************************************************************************)
FirstPick(chain, obs) ==
    IF IsUp(obs, chain) # {} THEN Best(IsUp(obs, chain), chain)
    ELSE IF IsUnprobed(obs, chain) # {} THEN Best(IsUnprobed(obs, chain), chain)
    ELSE First(chain)

Expired(current, obs) ==
    obs[current].seen = "down" /\ obs[current].age >= FailAfter

HandBackTargets(current, chain, obs) ==
    {x \in IsUp(obs, chain) :
        chain[x] < chain[current] /\ obs[x].age >= FailbackAfter}

(* Mutant: no hand-back under policy auto. *)
DecideSticky(current, chain, obs) ==
    IF current \notin DOMAIN chain THEN FirstPick(chain, obs)
    ELSE IF Expired(current, obs) /\ IsUp(obs, chain) # {}
         THEN Best(IsUp(obs, chain), chain)
    ELSE current

Decide(current, chain, obs) ==
    IF current \notin DOMAIN chain THEN FirstPick(chain, obs)
    ELSE IF Expired(current, obs)
         THEN IF IsUp(obs, chain) # {} THEN Best(IsUp(obs, chain), chain) ELSE current
    ELSE IF AutoFailback /\ HandBackTargets(current, chain, obs) # {}
         THEN Best(HandBackTargets(current, chain, obs), chain)
    ELSE current

(***************************************************************************)
(* effective_owner: where a hub sends a request for the model. With fewer  *)
(* than two eligible candidates the tracker is not consulted; without a    *)
(* decision the first eligible candidate stands in. An owner that has left *)
(* the chain since it was decided is still routed to.                      *)
(***************************************************************************)
EffectiveOwner(owner, hosts, dormant) ==
    LET chain == EligibleChain(hosts, dormant)
    IN  IF DOMAIN chain = {} THEN First(hosts)
        ELSE IF IsMultiHost(chain) /\ owner # NoHost THEN owner
        ELSE First(chain)
=============================================================================
