------------------------------- MODULE OnDemand -------------------------------
(***************************************************************************)
(* One `startup: on_demand` model on the hub that owns it: requests load   *)
(* its backend and use it, a watchdog unloads it when idle                 *)
(* (src/src/on_demand.py), and both go through the same unlocked process   *)
(* table as the operator's start and stop buttons                          *)
(* (src/src/process/backend_process.py, process_supervisor.py).            *)
(*                                                                         *)
(* Requests, the watchdog and the operator's calls run on threads of their *)
(* own; a step is what lies between two points where another thread can    *)
(* matter: a probe, a lock, a spawn, the wait for a process to die.        *)
(*                                                                         *)
(* Processes are named by Pids. The table holds a Popen of a child         *)
(* (`handle`, kept after the child died) or the pid of a process adopted   *)
(* at boot (`inherited`); any other process is a stranger on the port.     *)
(***************************************************************************)
EXTENDS Integers, FiniteSets

CONSTANTS
    Requests,       \* requests, each made at most once
    HandedOff,      \* those whose tracker is started before the response
                    \* generator that finishes it (streamed chat completions)
    Pids, NoPid,    \* bound: names for the processes alive at one time
    NoRequest,
    Window,         \* idle_unload_minutes, in ticks
    Deadline,       \* READY_DEADLINE_S, in ticks
    MaxDisruptions  \* bound: button presses, restarts and failed stops

ASSUME RequestAssumption ==
    /\ IsFiniteSet(Requests) /\ HandedOff \subseteq Requests /\ NoRequest \notin Requests
ASSUME PidAssumption == IsFiniteSet(Pids) /\ NoPid \notin Pids

(* Every shipped window is at least 5 minutes, the deadline is 180 s. *)
ASSUME TimeAssumption == Window \in Nat /\ Deadline \in Nat /\ Deadline < Window
ASSUME BoundAssumption == MaxDisruptions \in Nat

VARIABLES
    proc,               \* what every process is doing
    handle, inherited,  \* _STATES: state.proc and state.inherited_pid
    pc,                 \* where every request is
    lock, waited,       \* the spawn lock's holder, and how long it has polled
    inflight, used,     \* _IN_FLIGHT, and the age of _LAST_USED (or Never)
    call, target,       \* the watchdog's and the operator's calls, and the
                        \* child each is stopping
    disruptions,
    lostTrack           \* history: a process may have escaped the table

tableVars == <<handle, inherited>>
trackVars == <<inflight, used>>
lockVars == <<lock, waited>>
callVars == <<call, target>>
boundVars == <<disruptions, lostTrack>>
vars == <<proc, handle, inherited, pc, lock, waited, inflight, used,
          call, target, disruptions, lostTrack>>

Callers == {"watchdog", "operator"}
Never == -1

Alive == {p \in Pids : proc[p] # "none"}
IsReachable == \E p \in Pids : proc[p] = "ready"
IsRunning == handle \in Alive \/ inherited \in Alive

Tracked == {r \in Requests : pc[r] \in {"handed", "serving"}}
Ended == {r \in Requests : pc[r] \in {"done", "dropped"}}
Loading == {r \in Requests : pc[r] \in {"spawn", "poll"}}

TypeOK ==
    /\ proc \in [Pids -> {"none", "loading", "ready"}]
    /\ handle \in Pids \cup {NoPid} /\ inherited \in Pids \cup {NoPid}
    /\ pc \in [Requests -> {"idle", "lock", "spawn", "poll", "track",
                            "handed", "serving", "done", "dropped"}]
    /\ lock \in Requests \cup {NoRequest} /\ waited \in 0..Deadline
    /\ inflight \in 0..Cardinality(Requests) /\ used \in 0..Window \cup {Never}
    /\ call \in [Callers -> {"idle", "checked", "spawn", "stop", "wait", "clear"}]
    /\ target \in [Callers -> Pids \cup {NoPid}]
    /\ disruptions \in 0..MaxDisruptions /\ lostTrack \in BOOLEAN

Init ==
    /\ proc = [p \in Pids |-> "none"]
    /\ handle = NoPid /\ inherited = NoPid
    /\ pc = [r \in Requests |-> "idle"]
    /\ lock = NoRequest /\ waited = 0
    /\ inflight = 0 /\ used = Never
    /\ call = [c \in Callers |-> "idle"]
    /\ target = [c \in Callers |-> NoPid]
    /\ disruptions = 0 /\ lostTrack = FALSE

Goto(r, from, to) == pc[r] = from /\ pc' = [pc EXCEPT ![r] = to]
Calls(c, from, to) == call[c] = from /\ call' = [call EXCEPT ![c] = to]
Disrupt == disruptions < MaxDisruptions /\ disruptions' = disruptions + 1

-----------------------------------------------------------------------------
(* bp.start's last step: a child is spawned and recorded. Its checks come   *)
(* earlier, and nothing locks the table in between. They also dropped an    *)
(* inherited pid whose process had died.                                    *)

Spawn ==
    \E p \in Pids \ (Alive \cup {handle, inherited, target["watchdog"], target["operator"]}) :
        /\ proc' = [proc EXCEPT ![p] = "loading"]
        /\ handle' = p /\ UNCHANGED inherited

SpawnFails == UNCHANGED <<proc, tableVars>>

-----------------------------------------------------------------------------
(* A request: ensure_ready, then tracking around its use of the backend.   *)

Arrive(r) ==
    /\ Goto(r, "idle", IF IsReachable THEN "track" ELSE "lock")
    /\ UNCHANGED <<proc, tableVars, trackVars, lockVars, callVars, boundVars>>

(* Mutant of Acquire: the spawn lock is not taken. *)
AcquireUnlocked(r) ==
    /\ \/ /\ IsReachable
          /\ Goto(r, "lock", "track")
          /\ UNCHANGED <<lock, waited, used>>
       \/ /\ ~IsReachable
          /\ Goto(r, "lock", IF IsRunning THEN "poll" ELSE "spawn")
          /\ lock' = r /\ waited' = 0 /\ used' = 0
    /\ UNCHANGED <<proc, tableVars, inflight, callVars, boundVars>>

(* Mutant of Acquire: the load does not restart the idle clock. *)
AcquireKeepsClock(r) ==
    /\ lock = NoRequest
    /\ \/ /\ IsReachable
          /\ Goto(r, "lock", "track")
          /\ UNCHANGED <<lock, waited>>
       \/ /\ ~IsReachable
          /\ Goto(r, "lock", IF IsRunning THEN "poll" ELSE "spawn")
          /\ lock' = r /\ waited' = 0
    /\ UNCHANGED <<proc, tableVars, trackVars, callVars, boundVars>>

(* Under the lock the probe is repeated; if the backend is still down the   *)
(* idle clock restarts, and bp.start's checks decide between a spawn and    *)
(* ("already running", "adopted") the poll.                                 *)
Acquire(r) ==
    /\ lock = NoRequest
    /\ \/ /\ IsReachable
          /\ Goto(r, "lock", "track")
          /\ UNCHANGED <<lock, waited, used>>
       \/ /\ ~IsReachable
          /\ Goto(r, "lock", IF IsRunning THEN "poll" ELSE "spawn")
          /\ lock' = r /\ waited' = 0 /\ used' = 0
    /\ UNCHANGED <<proc, tableVars, inflight, callVars, boundVars>>

StartSpawn(r) ==
    /\ \/ Goto(r, "spawn", "poll") /\ Spawn /\ UNCHANGED lock
       \/ Goto(r, "spawn", "done") /\ SpawnFails /\ lock' = NoRequest
    /\ UNCHANGED <<trackVars, waited, callVars, boundVars>>

(* Mutant of Poll: the poll has no deadline. *)
PollForever(r) ==
    /\ IsReachable /\ Goto(r, "poll", "track")
    /\ lock' = NoRequest
    /\ UNCHANGED <<proc, tableVars, trackVars, waited, callVars, boundVars>>

(* OnDemandNotReady after the deadline; the caller answers 503. *)
Poll(r) ==
    /\ \/ IsReachable /\ Goto(r, "poll", "track")
       \/ ~IsReachable /\ waited = Deadline /\ Goto(r, "poll", "done")
    /\ lock' = NoRequest
    /\ UNCHANGED <<proc, tableVars, trackVars, waited, callVars, boundVars>>

(* Mutant of RequestStarted: a tracker already started is entered again. *)
RequestStartedTwice(r) ==
    /\ Goto(r, "track", IF r \in HandedOff THEN "handed" ELSE "serving")
    /\ inflight' = inflight + 2 /\ used' = 0
    /\ UNCHANGED <<proc, tableVars, lockVars, callVars, boundVars>>

RequestStarted(r) ==
    /\ Goto(r, "track", IF r \in HandedOff THEN "handed" ELSE "serving")
    /\ inflight' = inflight + 1 /\ used' = 0
    /\ UNCHANGED <<proc, tableVars, lockVars, callVars, boundVars>>

(* The server asks the response for its first chunk, or the client has      *)
(* disconnected by then: closing a generator that never ran skips `finally`. *)
FirstChunk(r) ==
    /\ Goto(r, "handed", "serving")
    /\ UNCHANGED <<proc, tableVars, trackVars, lockVars, callVars, boundVars>>

EarlyDisconnect(r) ==
    /\ Goto(r, "handed", "dropped")
    /\ UNCHANGED <<proc, tableVars, trackVars, lockVars, callVars, boundVars>>

(* The backend's answer, or a connection error: either way the tracker is   *)
(* finished once.                                                           *)
RequestFinished(r) ==
    /\ Goto(r, "serving", "done")
    /\ inflight' = (IF inflight > 0 THEN inflight - 1 ELSE 0) /\ used' = 0
    /\ UNCHANGED <<proc, tableVars, lockVars, callVars, boundVars>>

-----------------------------------------------------------------------------
(* bp.stop, called by the idle sweep and by the operator.                  *)

(* An inherited process is killed by pid, after it was struck off the       *)
(* table; a kill that fails leaves it running there, a stranger from now on. *)
StopInherited(c) ==
    /\ handle = NoPid /\ inherited \in Alive
    /\ Calls(c, "stop", "idle")
    /\ inherited' = NoPid
    /\ \/ proc' = [proc EXCEPT ![inherited] = "none"] /\ UNCHANGED boundVars
       \/ Disrupt /\ UNCHANGED proc /\ lostTrack' = TRUE
    /\ UNCHANGED <<handle, pc, trackVars, lockVars, target>>

StopNotRunning(c) ==
    /\ handle \notin Alive /\ (handle = NoPid => inherited \notin Alive)
    /\ Calls(c, "stop", "idle")
    /\ handle' = NoPid
    /\ inherited' = IF handle = NoPid THEN NoPid ELSE inherited
    /\ UNCHANGED <<proc, pc, trackVars, lockVars, target, boundVars>>

StopChild(c) ==
    /\ handle \in Alive
    /\ Calls(c, "stop", "wait")
    /\ target' = [target EXCEPT ![c] = handle]
    /\ UNCHANGED <<proc, tableVars, pc, trackVars, lockVars, boundVars>>

(* stop_popen: terminate, wait, kill; it gives up when that raises. *)
StopWait(c) ==
    /\ \/ /\ Calls(c, "wait", "clear")
          /\ proc' = [proc EXCEPT ![target[c]] = "none"]
          /\ UNCHANGED <<target, boundVars>>
       \/ /\ target[c] \in Alive
          /\ Calls(c, "wait", "idle")
          /\ target' = [target EXCEPT ![c] = NoPid]
          /\ Disrupt /\ UNCHANGED <<proc, lostTrack>>
    /\ UNCHANGED <<tableVars, pc, trackVars, lockVars>>

(* state.proc = None, whatever the table holds by now. *)
StopClear(c) ==
    /\ Calls(c, "clear", "idle")
    /\ target' = [target EXCEPT ![c] = NoPid]
    /\ handle' = NoPid
    /\ lostTrack' = (lostTrack \/ handle \in Alive)
    /\ UNCHANGED <<proc, inherited, pc, trackVars, lockVars, disruptions>>

Stop(c) ==
    StopInherited(c) \/ StopNotRunning(c) \/ StopChild(c) \/ StopWait(c) \/ StopClear(c)

-----------------------------------------------------------------------------
(* The idle sweep.                                                         *)

SweepCheck ==
    /\ IsRunning
    /\ Calls("watchdog", "idle", "checked")
    /\ UNCHANGED <<proc, tableVars, pc, trackVars, lockVars, target, boundVars>>

(* Mutant of SweepDecide: a first sighting does not arm the clock. *)
SweepDecideNeverArms ==
    /\ Calls("watchdog", "checked",
             IF inflight = 0 /\ used = Window THEN "stop" ELSE "idle")
    /\ UNCHANGED <<proc, tableVars, pc, trackVars, lockVars, target, boundVars>>

(* The in-flight count and the last use are read under the lock; the stop   *)
(* that follows is not. A first sighting arms the clock.                    *)
SweepDecide ==
    /\ Calls("watchdog", "checked",
             IF inflight = 0 /\ used = Window THEN "stop" ELSE "idle")
    /\ used' = IF used = Never THEN 0 ELSE used
    /\ UNCHANGED <<proc, tableVars, pc, inflight, lockVars, target, boundVars>>

-----------------------------------------------------------------------------
(* The operator, the processes, and time.                                  *)

(* POST /start: bp.start without the spawn lock. *)
OperatorStart ==
    /\ ~IsRunning /\ ~IsReachable
    /\ Calls("operator", "idle", "spawn") /\ Disrupt
    /\ UNCHANGED <<proc, tableVars, pc, trackVars, lockVars, target, lostTrack>>

OperatorSpawn ==
    /\ Calls("operator", "spawn", "idle")
    /\ \/ Spawn /\ lostTrack' = TRUE
       \/ SpawnFails /\ UNCHANGED lostTrack
    /\ UNCHANGED <<pc, trackVars, lockVars, target, disruptions>>

(* POST /stop. *)
OperatorStop ==
    /\ Calls("operator", "idle", "stop") /\ Disrupt
    /\ UNCHANGED <<proc, tableVars, pc, trackVars, lockVars, target, lostTrack>>

(* The load ends: the first process to bind the port serves it. *)
Loaded(p) ==
    /\ proc[p] = "loading"
    /\ proc' = [proc EXCEPT ![p] = IF IsReachable THEN "none" ELSE "ready"]
    /\ UNCHANGED <<tableVars, pc, trackVars, lockVars, callVars, boundVars>>

Exits(p) ==
    /\ proc[p] # "none"
    /\ proc' = [proc EXCEPT ![p] = "none"]
    /\ UNCHANGED <<tableVars, pc, trackVars, lockVars, callVars, boundVars>>

(* The hub restarts and its backends live on. The port scan adopts the one  *)
(* that listens; when it fails nothing is adopted.                          *)
Restart ==
    /\ Disrupt
    /\ handle' = NoPid
    /\ inherited' \in {p \in Pids : proc[p] = "ready"} \cup {NoPid}
    /\ pc' = [r \in Requests |-> IF pc[r] = "idle" THEN "idle" ELSE "done"]
    /\ lock' = NoRequest /\ waited' = 0
    /\ inflight' = 0 /\ used' = Never
    /\ call' = [c \in Callers |-> "idle"]
    /\ target' = [c \in Callers |-> NoPid]
    /\ lostTrack' = (lostTrack \/ \E p \in Alive : p # inherited')
    /\ UNCHANGED proc

(* Time is coarse: bp.start takes less than a tick, and a poll looks at the *)
(* clock within the tick of its deadline.                                   *)
Tick ==
    /\ \A r \in Loading : pc[r] = "poll" /\ waited < Deadline
    /\ used' = IF used \in 0..(Window - 1) THEN used + 1 ELSE used
    /\ waited' = IF Loading # {} THEN waited + 1 ELSE waited
    /\ UNCHANGED <<proc, tableVars, pc, inflight, lock, callVars, boundVars>>

Request(r) ==
    \/ Acquire(r) \/ StartSpawn(r) \/ Poll(r) \/ RequestStarted(r)
    \/ FirstChunk(r) \/ EarlyDisconnect(r) \/ RequestFinished(r)
Watchdog == SweepCheck \/ SweepDecide \/ Stop("watchdog")
Operator == OperatorSpawn \/ Stop("operator")
World ==
    \/ OperatorStart \/ OperatorStop \/ Restart
    \/ \E p \in Pids : Loaded(p) \/ Exits(p)
    \/ \E r \in Requests : Arrive(r)

Next == (\E r \in Requests : Request(r)) \/ Watchdog \/ Operator \/ Tick \/ World

Spec == Init /\ [][Next]_vars

(* Threads run and time passes. A backend need not finish loading.          *)
FairSpec ==
    /\ Spec
    /\ \A r \in Requests : WF_vars(Request(r))
    /\ WF_vars(Watchdog) /\ WF_vars(Operator) /\ WF_vars(Tick)

-----------------------------------------------------------------------------
(* Properties.                                                             *)

(* The spawn lock does its work without a lock on the table: while no       *)
(* process escaped the table (the operator's own start, a restart, a stop   *)
(* that forgets a child spawned under it), requests and the watchdog keep   *)
(* at most one process of the model alive, however they interleave.         *)
OneProcess == ~lostTrack => Cardinality(Alive) <= 1

(* The idle clock restarted by ensure_ready covers the whole load: the      *)
(* sweep never decides to unload a backend that a request is waiting for    *)
(* ("without this refresh the watchdog ... kills the process mid-load").    *)
UnloadSparesLoad ==
    [][Calls("watchdog", "checked", "stop") => Loading = {}]_vars

(* Every request comes to an end, whoever holds the spawn lock and whatever *)
(* becomes of the process it waits for.                                     *)
RequestEnds == \A r \in Requests : pc[r] # "idle" ~> r \in Ended

(* VRAM is reclaimed: once requests and interference cease, the hub no      *)
(* longer runs a process of the model. The exception is a request that was  *)
(* dropped before its response started (see LeasesEnd).                     *)
IdleUnloads == <>[](~IsRunning) \/ <>(\E r \in Requests : pc[r] = "dropped")

(* What comments promise without the qualifications above.                  *)

(* "after that many minutes without a request the hub stops the backend"    *)
(* (on_demand.py, lines 17-19): every process loaded for a request is gone  *)
(* in the end, when nobody but requests and the watchdog ever touched it.   *)
IdleStops == <>[](Alive = {}) \/ <>(disruptions > 0)

(* "A model with work in flight is never idle, however long ago its last    *)
(* arrival was" (on_demand.py, lines 55-56): the sweep ends no process      *)
(* while a request uses it.                                                 *)
UnloadSparesWork == [][Calls("watchdog", "wait", "clear") => inflight = 0]_vars

(* "pair the start here with the finish in the generator's finally (which   *)
(* also runs on a client disconnect, via GeneratorExit)" (openai_chat.py,   *)
(* lines 240-243): when no request is being served, none is counted.        *)
LeasesEnd == Tracked = {} => inflight = 0
=============================================================================
