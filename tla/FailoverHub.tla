----------------------------- MODULE FailoverHub -----------------------------
(***************************************************************************)
(* The failover engine of one hub for one eager, spawnable multi-host      *)
(* model (src/src/model_failover.py: failover_loop, failover_pass,         *)
(* _ensure_running_local, _release_local), with the world it runs in:      *)
(* peers that come and go, probes that get lost, the operator's dormant    *)
(* switch (config_write.set_host_dormant) and the placement route that      *)
(* edits the model's chain (config_write.apply_placement), the admin start *)
(* and stop buttons, a backend process that exits, and the hub's restarts. *)
(*                                                                         *)
(* A pass is several steps, because the code awaits between them: it reads *)
(* the chain (PassBegin), awaits the probes and decides over the chain it  *)
(* read (PassDecide), awaits is_running in a worker thread (EnsureCheck,   *)
(* ReleaseCheck), then bp.start and the mark (EngineStart, EngineMark), or *)
(* bp.stop, which waits for the child before it forgets it, and the        *)
(* release of the mark (EngineStop, EngineClear, EngineUnmark). Operator   *)
(* and child-process steps fall anywhere between.                          *)
(*                                                                         *)
(* Time passes in PassDecide only: `elapsed` is what the hub's clock       *)
(* advanced from the start of the previous pass to the start of this one.  *)
(***************************************************************************)
EXTENDS OwnershipTracker

CONSTANT
    Self            \* this hub: one of the candidates, or a host that is none

ASSUME SelfAssumption == Self \in Nat /\ Self >= 1

VARIABLES
    obs, owner,     \* TRACKER: _hosts and _owner
    hosts,          \* the model's chain in the parsed models.yaml
    dormant,        \* candidates this hub's machines.local.yaml marks dormant
    loop,           \* failover_loop: in its boot delay, running, or returned
    pc, chain,      \* where the current failover_pass stands, the chain it read
    inst,           \* the model's process on this machine and who started it
    marked,         \* the model is in _ENGINE_STARTED
    stable, live,   \* the world holds still from now on, with these peers up
    sinceFailover,  \* history: time since the last failover of this tracker,
    touched,        \*   and whether the chain or the switch changed since
    edit,           \* history: what passes have made of the last placement,
    sinceRead       \*   and the time since the first one that read it

trackerVars == <<obs, owner>>
engineVars == <<pc, chain, marked>>
worldVars == <<hosts, dormant, live, stable>>
historyVars == <<sinceFailover, touched, edit, sinceRead>>
vars == <<obs, owner, hosts, dormant, loop, pc, chain, inst, marked,
          live, stable, sinceFailover, touched, edit, sinceRead>>

Peers == Candidates \ {Self}

Instances == {"none", "engine", "hand", "external", "inherited"}

(* What bp.is_running sees: a child of this hub, or one it inherited. *)
Running == inst \in {"engine", "hand", "inherited"}

Eligible == EligibleChain(hosts, dormant)

MultiHost == IsMultiHost(Eligible)

RoutesTo == EffectiveOwner(owner, hosts, dormant)

TypeOK ==
    /\ obs \in [Candidates -> Observation]
    /\ owner \in Candidates \cup {NoHost}
    /\ hosts \in Placements
    /\ dormant \in SUBSET Peers
    /\ loop \in {"boot", "running", "exited"}
    /\ pc \in {"idle", "probing", "ensure", "start", "mark",
               "release", "stop", "clear", "unmark"}
    /\ IsChain(chain)
    /\ inst \in Instances
    /\ marked \in BOOLEAN
    /\ live \in SUBSET Peers
    /\ stable \in BOOLEAN
    /\ sinceFailover \in 0..MaxAge
    /\ touched \in BOOLEAN
    /\ edit \in {"settled", "unread", "reading", "read"} /\ sinceRead \in 0..MaxAge

NoChain == [x \in {} |-> x]

(* A hub that has just booted: the tracker and the mark set live in memory. *)
FreshTracker ==
    /\ obs = Unobserved
    /\ owner = NoHost
    /\ loop = "boot"
    /\ pc = "idle" /\ chain = NoChain
    /\ marked = FALSE
    /\ sinceFailover = MaxAge
    /\ touched = FALSE
    /\ edit = "settled" /\ sinceRead = 0

Init ==
    /\ FreshTracker
    /\ hosts \in Placements
    /\ dormant \in SUBSET Peers
    /\ inst = "none"
    /\ stable = FALSE /\ live = {}

-----------------------------------------------------------------------------
(* The background loop.                                                    *)

(* failover_loop after its boot delay: with no multi-host chain in sight it *)
(* returns for good, otherwise it starts making passes.                     *)
LoopStart ==
    /\ loop = "boot"
    /\ loop' = IF MultiHost THEN "running" ELSE "exited"
    /\ UNCHANGED <<trackerVars, engineVars, inst, worldVars, historyVars>>

(* failover_pass reads the clock and the chain. A pass that sees no          *)
(* multi-host chain returns at once and changes nothing.                     *)
PassBegin ==
    /\ loop = "running" /\ pc = "idle"
    /\ MultiHost
    /\ pc' = "probing" /\ chain' = Eligible
    /\ edit' = IF edit = "unread" THEN "reading" ELSE edit
    /\ UNCHANGED <<trackerVars, inst, worldVars, loop, marked,
                   sinceFailover, touched, sinceRead>>

(* Mutant: this hub probes itself over the network like any peer. *)
ProbeAnswersNotOfSelf ==
    {r \in SUBSET DOMAIN chain : stable => r = DOMAIN chain \cap (live \cup {Self})}

(* The answers the probes of one pass may bring. This hub is trivially up.   *)
(* Peers come and go between two probes and probes get lost, so any peer may *)
(* answer or not, until the world holds still.                               *)
ProbeAnswers ==
    {r \in SUBSET DOMAIN chain :
        /\ Self \in DOMAIN chain => Self \in r
        /\ stable => r = DOMAIN chain \cap (live \cup {Self})}

IsFailover(current, next, seen) ==
    /\ current \in DOMAIN chain
    /\ Expired(current, seen)
    /\ next # current

(* A placement is settled when policy auto has had failback_after_s to act  *)
(* on it since the first pass that read it.                                 *)
EditSettles(elapsed) ==
    LET since == IF edit = "read" THEN Later(sinceRead, elapsed) ELSE 0
    IN  /\ edit' = IF edit \notin {"reading", "read"} THEN edit
                   ELSE IF AutoFailback /\ since >= FailbackAfter THEN "settled"
                   ELSE "read"
        /\ sinceRead' = IF edit' = "read" THEN since ELSE 0

(* failover_pass observes what the probes brought and decides over the chain *)
(* it read before them. _release_local returns before its first await when   *)
(* the model is not marked.                                                  *)
PassDecide(elapsed, reached) ==
    /\ pc = "probing"
    /\ LET seen == Observe(obs, DOMAIN chain, reached, elapsed)
           next == Decide(owner, chain, seen)
           moved == IsFailover(owner, next, seen)
       IN  /\ obs' = seen
           /\ owner' = next
           /\ pc' = IF next = Self THEN "ensure"
                    ELSE IF marked THEN "release" ELSE "idle"
           /\ touched' = (touched /\ ~(moved /\ chain = Eligible))
           /\ sinceFailover' = IF touched' THEN MaxAge
                               ELSE IF moved THEN 0 ELSE Later(sinceFailover, elapsed)
    /\ EditSettles(elapsed)
    /\ chain' = NoChain
    /\ UNCHANGED <<loop, marked, inst, worldVars>>

(* _ensure_running_local: is_running, in a worker thread. *)
EnsureCheck ==
    /\ pc = "ensure"
    /\ pc' = IF Running THEN "idle" ELSE "start"
    /\ UNCHANGED <<trackerVars, inst, worldVars, loop, chain, marked, historyVars>>

(* bp.start: it spawns a child, or a process that is running by now or was  *)
(* adopted from outside is left as it is; a spawn may fail.                 *)
EngineStart ==
    /\ pc = "start"
    /\ \/ inst = "none" /\ inst' = "engine" /\ pc' = "mark"
       \/ (inst = "none" => ~stable) /\ pc' = "idle" /\ UNCHANGED inst
    /\ UNCHANGED <<trackerVars, worldVars, loop, chain, marked, historyVars>>

(* Back in the loop after a spawn. *)
EngineMark ==
    /\ pc = "mark"
    /\ pc' = "idle"
    /\ marked' = TRUE
    /\ UNCHANGED <<trackerVars, inst, worldVars, loop, chain, historyVars>>

(* Mutant: the mark outlives a process that has already gone. *)
ReleaseCheckKeepsMark ==
    /\ pc = "release"
    /\ pc' = IF Running THEN "stop" ELSE "idle"
    /\ UNCHANGED <<trackerVars, inst, worldVars, loop, chain, marked, historyVars>>

(* _release_local of a marked model: is_running, in a worker thread. *)
ReleaseCheck ==
    /\ pc = "release"
    /\ IF Running
       THEN pc' = "stop" /\ UNCHANGED marked
       ELSE pc' = "idle" /\ marked' = FALSE
    /\ UNCHANGED <<trackerVars, inst, worldVars, loop, chain, historyVars>>

(* Mutant: the engine stops whatever listens on the model's port. *)
EngineStopByPort ==
    /\ pc = "stop"
    /\ pc' = "unmark"
    /\ inst' = "none"
    /\ UNCHANGED <<trackerVars, worldVars, loop, chain, marked, historyVars>>

(* bp.stop of whatever this hub manages: a child is stopped and waited for, *)
(* an inherited process is killed. It may not work.                         *)
EngineStop ==
    /\ pc = "stop"
    /\ \/ Running /\ inst' = "none"
          /\ pc' = IF inst = "inherited" THEN "unmark" ELSE "clear"
       \/ (Running => ~stable) /\ pc' = "unmark" /\ UNCHANGED inst
    /\ UNCHANGED <<trackerVars, worldVars, loop, chain, marked, historyVars>>

(* After its wait bp.stop empties state.proc, also of a child that another  *)
(* start has put there meanwhile: that child runs on, foreign to the hub.   *)
EngineClear ==
    /\ pc = "clear"
    /\ pc' = "unmark"
    /\ inst' = IF inst \in {"engine", "hand"} THEN "external" ELSE inst
    /\ UNCHANGED <<trackerVars, worldVars, loop, chain, marked, historyVars>>

(* The mark goes whether or not the process could be stopped. *)
EngineUnmark ==
    /\ pc = "unmark"
    /\ pc' = "idle"
    /\ marked' = FALSE
    /\ UNCHANGED <<trackerVars, inst, worldVars, loop, chain, historyVars>>

-----------------------------------------------------------------------------
(* The world around it.                                                    *)

(* POST /start here, forwarded to the owner's hub unless that is this one;  *)
(* the autostart of the hub that a chain names first is such a start too.   *)
HandStart ==
    /\ ~stable
    /\ RoutesTo = Self
    /\ inst = "none"
    /\ inst' = "hand"
    /\ UNCHANGED <<trackerVars, engineVars, worldVars, loop, historyVars>>

(* A process started outside the hub on the model's port (run_model.bat). *)
ExternalStart ==
    /\ ~stable
    /\ Self \in Candidates
    /\ inst = "none"
    /\ inst' = "external"
    /\ UNCHANGED <<trackerVars, engineVars, worldVars, loop, historyVars>>

(* The process ends: the operator stops or force-stops it, or it exits. *)
InstanceEnds ==
    /\ ~stable
    /\ inst # "none"
    /\ inst' = "none"
    /\ UNCHANGED <<trackerVars, engineVars, worldVars, loop, historyVars>>

(* The hub process restarts, after a pull perhaps. Its backends end with    *)
(* it, or survive and are inherited from the port scan; when the scan fails *)
(* they stay foreign.                                                       *)
Restart ==
    /\ ~stable
    /\ hosts' \in Placements
    /\ obs' = Unobserved
    /\ owner' = NoHost
    /\ loop' = "boot"
    /\ pc' = "idle" /\ chain' = NoChain
    /\ marked' = FALSE
    /\ sinceFailover' = MaxAge
    /\ touched' = FALSE
    /\ edit' = "settled" /\ sinceRead' = 0
    /\ inst' \in IF inst = "none" THEN {"none"}
                 ELSE {"none", "inherited", "external"}
    /\ UNCHANGED <<dormant, live, stable>>

(* PUT /admin/api/models/{id}/placement: the parsed file is dropped and the *)
(* next reader sees the new chain, without a restart. Tracker, mark and     *)
(* process are left as they are.                                            *)
Placement(c) ==
    /\ ~stable
    /\ c # hosts
    /\ hosts' = c
    /\ touched' = TRUE /\ sinceFailover' = MaxAge
    /\ edit' = "unread" /\ sinceRead' = 0
    /\ UNCHANGED <<trackerVars, engineVars, inst, loop, dormant, live, stable>>

(* Mutant: the switch is accepted for the machine the hub runs on. *)
SetDormantAny(x) ==
    /\ ~stable
    /\ dormant' = IF x \in dormant THEN dormant \ {x} ELSE dormant \cup {x}
    /\ touched' = TRUE /\ sinceFailover' = MaxAge
    /\ UNCHANGED <<trackerVars, engineVars, inst, loop, hosts, live, stable,
                   edit, sinceRead>>

(* PUT /admin/api/machines/{id}/dormant: never this machine itself. *)
SetDormant(x) ==
    /\ ~stable
    /\ x # Self
    /\ dormant' = IF x \in dormant THEN dormant \ {x} ELSE dormant \cup {x}
    /\ touched' = TRUE /\ sinceFailover' = MaxAge
    /\ UNCHANGED <<trackerVars, engineVars, inst, loop, hosts, live, stable,
                   edit, sinceRead>>

(* From some moment on, peers stay as they are, probes and bp.start and     *)
(* bp.stop succeed, and nobody interferes. It may never come, and does not  *)
(* before the pass under way has ended.                                     *)
Stabilise ==
    /\ ~stable /\ pc = "idle"
    /\ stable' = TRUE
    /\ live' \in SUBSET Peers
    /\ UNCHANGED <<trackerVars, engineVars, inst, loop, hosts, dormant, historyVars>>

EngineActs ==
    \/ PassBegin
    \/ \E elapsed \in 1..MaxAge, reached \in ProbeAnswers : PassDecide(elapsed, reached)
    \/ EnsureCheck \/ EngineStart \/ EngineMark
    \/ ReleaseCheck \/ EngineStop \/ EngineClear \/ EngineUnmark
World ==
    \/ HandStart \/ ExternalStart \/ InstanceEnds \/ Restart \/ Stabilise
    \/ \E x \in Candidates : SetDormant(x)
    \/ \E c \in Placements : Placement(c)

Next == LoopStart \/ EngineActs \/ World

Spec == Init /\ [][Next]_vars

(* The loop is one asyncio task that never dies: its next step is always    *)
(* taken in the end. Nothing is assumed of the world.                       *)
FairSpec == Spec /\ WF_vars(LoopStart) /\ WF_vars(EngineActs)

-----------------------------------------------------------------------------
(* Properties.                                                             *)

(* The failover engine promises that this hub, when it is in the chain,    *)
(* never sends a request to a candidate that stands below it: it is always *)
(* up in its own eyes. A placement that moves this hub above the owner it  *)
(* tracks does not move the owner; policy auto does, by failback_after_s   *)
(* after the first pass that read the new chain, policy sticky need not.   *)
(* (This is what ends every chain of forwards in FailoverFleet: no request *)
(* carries a hop count.)                                                   *)
NeverBelowSelf ==
    Self \in DOMAIN hosts /\ edit = "settled" => hosts[RoutesTo] <= hosts[Self]

(* _ENGINE_STARTED between passes: a process the engine may stop belongs   *)
(* to a hub that owns the model and sends its own requests there. A lost   *)
(* hand-over would leave a marked process running that nobody uses. A      *)
(* placement takes the model away from under the mark; the next pass that  *)
(* reads the new chain hands over (no pass reads a chain of one host).     *)
MarkMeansOwner ==
    marked /\ pc \in {"idle", "probing"} /\ edit \in {"settled", "read"} =>
        owner = Self /\ RoutesTo = Self

(* One step hands ownership back: it goes up the chain from an owner that  *)
(* is in the chain and has not been given up as dead.                      *)
HandBack ==
    /\ pc = "probing" /\ owner \in DOMAIN chain
    /\ owner' \in DOMAIN chain /\ chain[owner'] < chain[owner]
    /\ ~Expired(owner, obs')

(* Failback with hysteresis ("ownership cannot flap", module docstring):   *)
(* after this tracker failed over, it hands ownership back no sooner than  *)
(* failback_after_s later, provided the chain and the dormant switch were  *)
(* left alone.                                                             *)
NoFlap ==
    [][HandBack /\ ~touched => sinceFailover' >= FailbackAfter]_vars

(* One step of the engine (a restart abandons the pass) ends a process here. *)
EngineEndsProcess ==
    /\ pc = "stop" /\ pc' \in {"clear", "unmark"}
    /\ inst # "none" /\ inst' = "none"

(* The additive contract over hub restarts and foreign processes: the      *)
(* engine never ends a process that a previous run of the hub left behind  *)
(* or that was started outside the hub.                                    *)
SparesForeign ==
    [][EngineEndsProcess => inst \notin {"inherited", "external"}]_vars

(* The candidate a request should go to: the preferred one that is up.     *)
Targets == DOMAIN Eligible \cap (live \cup {Self})

Settled ==
    Targets # {} =>
        /\ owner = Best(Targets, hosts)
        /\ owner = Self => inst # "none"
        /\ owner # Self => ~marked

(* Failover and failback happen: once the world holds still, a hub whose   *)
(* loop is running (policy auto) ends up sending requests to the preferred *)
(* live candidate; if that is itself a process serves the model here, and  *)
(* otherwise no engine-started process is left here.                       *)
Converges ==
    <>[]stable => <>[](loop = "running" /\ MultiHost => Settled)

(* What the docstrings promise without the qualifications above.           *)

(* "it stops only an instance this engine itself started (never a          *)
(* hand-started or autostarted one)" (model_failover.py, lines 22-26).     *)
StopsOnlyEngineStarted ==
    [][EngineEndsProcess => inst = "engine"]_vars

(* "the config contract is edit-YAML-then-restart, so there is nothing to  *)
(* re-check later" (failover_loop): a hub that boots while its chain is    *)
(* single-host need not keep the loop, so convergence holds of every hub.  *)
ConvergesWithoutRestart ==
    <>[]stable => <>[](MultiHost => Settled)
=============================================================================
