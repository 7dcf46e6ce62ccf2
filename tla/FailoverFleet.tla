---------------------------- MODULE FailoverFleet ----------------------------
(***************************************************************************)
(* Every hub of the fleet routing requests for one multi-host model by its *)
(* own tracker (src/src/model_failover.py, effective_owner and             *)
(* failover_pass; src/src/fleet/remote_proxy.py, remote_base_url). Hubs    *)
(* never talk about ownership: each probes the others and decides alone,   *)
(* and a hub that receives a forwarded request resolves the owner afresh.  *)
(*                                                                         *)
(* Hubs 1..N list the model and may be put in its chain; N+1..M never are  *)
(* and only forward. Every hub reads the chain from its own models.yaml. A *)
(* placement changes the write host's file while it runs; a peer gets it   *)
(* later, by a sync, which restarts its hub (ConfigDrift says when). The   *)
(* engine's processes are in FailoverHub; here a hub serves what it routes *)
(* to itself.                                                              *)
(***************************************************************************)
EXTENDS OwnershipTracker

CONSTANTS
    M,              \* number of hubs
    Writer,         \* the write host, the only hub that accepts placements
    MaxDisruptions  \* bound: crashes, restarts, missed probes, dormant
                    \*   switches, placements

ASSUME FleetAssumption == M \in Nat /\ M >= N /\ Writer \in 1..M
ASSUME DisruptionAssumption == MaxDisruptions \in Nat

VARIABLES
    obs, owner,     \* every hub's tracker
    hosts,          \* the chain in every hub's models.yaml
    dormant,        \* every hub's own dormant overlay
    loop,           \* every hub's failover_loop
    up,             \* the hubs that are running
    at,             \* the hub that has the request, or NoHost: it has ended
    hops,           \* history: times it was forwarded since the fleet agrees
    edit, sinceRead,\* history: what the write host has made of its last placement
    disruptions     \* bound counter

trackerVars == <<obs, owner>>
fileVars == <<hosts, edit, sinceRead>>
requestVars == <<at, hops>>
vars == <<obs, owner, hosts, dormant, loop, up, at, hops, edit, sinceRead,
          disruptions>>

Hubs == 1..M

Eligible(h) == EligibleChain(hosts[h], dormant[h])

Route(h) == EffectiveOwner(owner[h], hosts[h], dormant[h])

(* Every hub has the write host's file, and the write host, the only one    *)
(* that reads a new chain without a restart, has settled on it.             *)
Agreed ==
    /\ \A h \in Hubs : hosts[h] = hosts[Writer]
    /\ edit = "settled"

TypeOK ==
    /\ obs \in [Hubs -> [Candidates -> Observation]]
    /\ owner \in [Hubs -> Candidates \cup {NoHost}]
    /\ hosts \in [Hubs -> Placements]
    /\ dormant \in [Hubs -> SUBSET Candidates]
    /\ \A h \in Hubs : h \notin dormant[h]
    /\ loop \in [Hubs -> {"boot", "running", "exited"}]
    /\ up \in SUBSET Hubs
    /\ at \in Hubs \cup {NoHost} /\ hops \in Nat
    /\ edit \in {"settled", "unread", "read"} /\ sinceRead \in 0..MaxAge
    /\ disruptions \in 0..MaxDisruptions

Init ==
    /\ obs = [h \in Hubs |-> Unobserved]
    /\ owner = [h \in Hubs |-> NoHost]
    /\ \E c \in Placements : hosts = [h \in Hubs |-> c]
    /\ dormant = [h \in Hubs |-> {}]
    /\ loop = [h \in Hubs |-> "boot"]
    /\ up = Hubs
    /\ at = NoHost /\ hops = 0
    /\ edit = "settled" /\ sinceRead = 0
    /\ disruptions = 0

Disrupt == disruptions < MaxDisruptions /\ disruptions' = disruptions + 1

-----------------------------------------------------------------------------
(* Hubs.                                                                   *)

LoopStart(h) ==
    /\ h \in up /\ loop[h] = "boot"
    /\ loop' = [loop EXCEPT ![h] = IF IsMultiHost(Eligible(h))
                                   THEN "running" ELSE "exited"]
    /\ UNCHANGED <<trackerVars, fileVars, dormant, up, requestVars, disruptions>>

(* A placement is settled when policy auto has had failback_after_s to act  *)
(* on it since the first pass of the write host that read it.               *)
EditSettles(h, elapsed) ==
    LET since == IF edit = "read" THEN Later(sinceRead, elapsed) ELSE 0
    IN  IF h # Writer \/ edit = "settled"
        THEN UNCHANGED <<edit, sinceRead>>
        ELSE /\ edit' = IF AutoFailback /\ since >= FailbackAfter THEN "settled"
                        ELSE "read"
             /\ sinceRead' = IF edit' = "read" THEN since ELSE 0

Pass(h, elapsed, reached) ==
    /\ h \in up /\ loop[h] = "running"
    /\ IsMultiHost(Eligible(h))
    /\ LET seen == Observe(obs[h], DOMAIN Eligible(h), reached, elapsed)
       IN  /\ obs' = [obs EXCEPT ![h] = seen]
           /\ owner' = [owner EXCEPT ![h] = Decide(@, Eligible(h), seen)]
    /\ EditSettles(h, elapsed)
    /\ UNCHANGED <<hosts, dormant, loop, up, requestVars>>

Answering(h) == DOMAIN Eligible(h) \cap up

(* Every live candidate answers. *)
TruePass(h) ==
    /\ \E elapsed \in 1..MaxAge : Pass(h, elapsed, Answering(h))
    /\ UNCHANGED disruptions

(* Mutant: a hub may miss itself. *)
LossyPassOfSelf(h) ==
    /\ \E elapsed \in 1..MaxAge, missed \in Answering(h) :
           Pass(h, elapsed, Answering(h) \ {missed})
    /\ Disrupt

(* One live peer is missed (a lost probe, a partition); self never is. *)
LossyPass(h) ==
    /\ \E elapsed \in 1..MaxAge, missed \in Answering(h) \ {h} :
           Pass(h, elapsed, Answering(h) \ {missed})
    /\ Disrupt

RequestOver == at' = NoHost /\ hops' = 0

(* What a hub forgets when its process goes: everything but its files. The  *)
(* request it has fails.                                                    *)
Forget(h) ==
    /\ obs' = [obs EXCEPT ![h] = Unobserved]
    /\ owner' = [owner EXCEPT ![h] = NoHost]
    /\ loop' = [loop EXCEPT ![h] = "boot"]
    /\ IF at = h THEN RequestOver ELSE UNCHANGED requestVars
    /\ IF h = Writer THEN edit' = "settled" /\ sinceRead' = 0
                     ELSE UNCHANGED <<edit, sinceRead>>
    /\ UNCHANGED dormant

Crash(h) == h \in up /\ Disrupt /\ up' = up \ {h} /\ Forget(h) /\ UNCHANGED hosts

Restart(h) == h \in up /\ Disrupt /\ Forget(h) /\ UNCHANGED <<up, hosts>>

Recover(h) ==
    /\ h \notin up
    /\ up' = up \cup {h}
    /\ UNCHANGED <<trackerVars, fileVars, dormant, loop, requestVars, disruptions>>

(* Mutant: the switch is accepted for the machine the hub runs on. *)
SetDormantAny(h, x) ==
    /\ h \in up
    /\ Disrupt
    /\ dormant' = [dormant EXCEPT ![h] = IF x \in @ THEN @ \ {x} ELSE @ \cup {x}]
    /\ UNCHANGED <<trackerVars, fileVars, loop, up, requestVars>>

(* set_host_dormant refuses the machine the hub runs on. *)
SetDormant(h, x) ==
    /\ h \in up /\ h # x
    /\ Disrupt
    /\ dormant' = [dormant EXCEPT ![h] = IF x \in @ THEN @ \ {x} ELSE @ \cup {x}]
    /\ UNCHANGED <<trackerVars, fileVars, loop, up, requestVars>>

(* A placement: the write host reads its new file at once, and keeps its    *)
(* tracker. The fleet disagrees until the peers have it too.                *)
Placement(c) ==
    /\ Writer \in up /\ c # hosts[Writer]
    /\ Disrupt
    /\ hosts' = [hosts EXCEPT ![Writer] = c]
    /\ edit' = "unread" /\ sinceRead' = 0
    /\ hops' = 0
    /\ UNCHANGED <<trackerVars, dormant, loop, up, at>>

(* A peer that lags pulls, and restarts. *)
Sync(h) ==
    /\ h \in up /\ Writer \in up /\ hosts[h] # hosts[Writer]
    /\ hosts' = [hosts EXCEPT ![h] = hosts[Writer]]
    /\ Forget(h)
    /\ UNCHANGED <<up, disruptions>>

-----------------------------------------------------------------------------
(* A request. Every hub it reaches resolves the owner again, by its own     *)
(* file and tracker; nothing in the request says where it has been.         *)

Arrive(h) ==
    /\ h \in up /\ at = NoHost
    /\ at' = h /\ hops' = 0
    /\ UNCHANGED <<trackerVars, fileVars, dormant, loop, up, disruptions>>

Serve ==
    /\ at # NoHost /\ Route(at) = at
    /\ RequestOver
    /\ UNCHANGED <<trackerVars, fileVars, dormant, loop, up, disruptions>>

Moves ==
    /\ at' = Route(at)
    /\ hops' = IF Agreed THEN hops + 1 ELSE 0

(* Mutant: a hub that cannot reach the owner keeps trying. *)
ForwardRetries ==
    /\ at # NoHost /\ Route(at) # at /\ Route(at) \in up
    /\ Moves
    /\ UNCHANGED <<trackerVars, fileVars, dormant, loop, up, disruptions>>

(* To the owner's hub; the request fails if that does not answer. *)
Forward ==
    /\ at # NoHost /\ Route(at) # at
    /\ IF Route(at) \in up THEN Moves ELSE RequestOver
    /\ UNCHANGED <<trackerVars, fileVars, dormant, loop, up, disruptions>>

HubStep(h) == LoopStart(h) \/ TruePass(h)
Disruption(h) ==
    \/ LossyPass(h) \/ Crash(h) \/ Restart(h)
    \/ \E x \in Candidates : SetDormant(h, x)

Next ==
    \/ \E h \in Hubs : HubStep(h) \/ Recover(h) \/ Sync(h) \/ Arrive(h) \/ Disruption(h)
    \/ \E c \in Placements : Placement(c)
    \/ Serve \/ Forward

Spec == Init /\ [][Next]_vars

(* A hub's loop makes its passes and a hub answers or forwards what it has. *)
FairSpec ==
    /\ Spec
    /\ \A h \in Hubs : WF_vars(HubStep(h))
    /\ WF_vars(Serve \/ Forward)

-----------------------------------------------------------------------------
(* Properties.                                                             *)

(* No request carries a hop count, so only the trackers keep a request     *)
(* from going round for ever while ownership moves under it. From the      *)
(* moment the hubs agree on the chain it is forwarded at most N times,     *)
(* whatever crashes, partitions and dormant switches do meanwhile: every   *)
(* hub it reaches is preferred to the last. While they disagree (a peer    *)
(* has yet to be synced, or the write host still holds an owner that its   *)
(* new file ranks below it) two hubs may forward to each other.            *)
HopsBounded == hops <= N

(* The same of any one moment: no set of hubs that agree forwards only to  *)
(* itself.                                                                 *)
NoForwardingLoop ==
    Agreed =>
        \A S \in SUBSET Hubs :
            (S # {}) => \E h \in S : Route(h) \notin S \/ Route(h) = h

(* A request does not stay with the hubs for ever, if placements end and   *)
(* the last one reaches every peer and settles.                            *)
RequestEnds ==
    <>[]Agreed => (at # NoHost ~> at = NoHost)

(* Once hubs stop failing, requests stop failing: a hub comes to route, by *)
(* its own file, to the preferred candidate that is up, and hubs with one  *)
(* file and one overlay agree without a master (policy auto, hubs whose    *)
(* loop is running), also after placements.                                *)
RoutesToLive ==
    <>[](\A h \in Hubs :
        \/ h \notin up \/ loop[h] # "running" \/ ~IsMultiHost(Eligible(h))
        \/ Answering(h) = {}
        \/ Route(h) = Best(Answering(h), hosts[h]))

(* What the module docstring promises (model_failover.py, lines 27-30):    *)
(* "the deterministic tie-break (chain order + reachability) means two     *)
(* live candidates always agree on who owns routing". Here two running     *)
(* candidates of one chain that no placement has changed lately, have      *)
(* decided, see each other up and have no dormant overlay between them.    *)
SeesAll(h) ==
    /\ h \in up /\ owner[h] # NoHost /\ dormant[h] = {}
    /\ h \in DOMAIN hosts[h] /\ IsUp(obs[h], hosts[h]) = DOMAIN hosts[h]

LiveCandidatesAgree ==
    Agreed => \A h, k \in Candidates : SeesAll(h) /\ SeesAll(k) => Route(h) = Route(k)
=============================================================================
