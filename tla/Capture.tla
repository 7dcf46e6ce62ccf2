-------------------------------- MODULE Capture --------------------------------
(***************************************************************************)
(* Diagnostics captures of one hub: timed runs, one-shots and scheduled    *)
(* one-shots (src/src/diagnostics/sampler.py), the row each has in the     *)
(* store (store.py), and the hub's start and shutdown around them          *)
(* (src/src/server_lifecycle.py).                                          *)
(*                                                                         *)
(* Coroutines run on the event loop; a tick runs in a worker thread, which *)
(* a cancelled await leaves running. The hub may crash at any moment; the  *)
(* store survives it.                                                      *)
(***************************************************************************)
EXTENDS Integers, FiniteSets

CONSTANTS Runs, NoRun      \* names of the captures ever made (bound)

ASSUME RunAssumption == IsFiniteSet(Runs) /\ NoRun \notin Runs

VARIABLES
    hub,            \* "up", "draining" (shutdown handlers run) or "down"
    housekept,      \* close_orphan_runs ran since the boot
    row, kind,      \* every run's status in the store, and what started it
    coroutine,             \* where its coroutine is
    creating,       \* the run whose row the holder of _lock is making
    active,         \* _active, whose task is _task
    stopFlag,       \* _stop_requested
    stopping,       \* the run a stop_run call waits for
    worker,         \* runs with a tick in a worker thread
    cancelled,      \* history: runs whose coroutine was cancelled
    unclosed,       \* history: runs whose final row could not be written
    late            \* history: runs a sample of which landed after their end

captureVars == <<hub, housekept, row, kind, coroutine, creating, active, stopFlag, stopping,
                 worker, cancelled, unclosed, late>>

Live == {r \in Runs : coroutine[r] \in {"ready", "tick"}}
Scheduled == {r \in Runs : kind[r] = "scheduled" /\ coroutine[r] \in {"creating", "ready", "tick"}}

CaptureTypeOK ==
    /\ hub \in {"up", "draining", "down"} /\ housekept \in BOOLEAN
    /\ row \in [Runs -> {"absent", "running", "complete", "stopped", "failed", "interrupted"}]
    /\ kind \in [Runs -> {"none", "timed", "one-shot", "scheduled"}]
    /\ coroutine \in [Runs -> {"none", "creating", "ready", "tick", "ended"}]
    /\ creating \in Runs \cup {NoRun} /\ active \in Runs \cup {NoRun}
    /\ stopFlag \in BOOLEAN /\ stopping \in Runs \cup {NoRun}
    /\ worker \subseteq Runs /\ cancelled \subseteq Runs
    /\ unclosed \subseteq Runs /\ late \subseteq Runs

CaptureInit ==
    /\ hub = "up" /\ housekept = FALSE
    /\ row = [r \in Runs |-> "absent"] /\ kind = [r \in Runs |-> "none"]
    /\ coroutine = [r \in Runs |-> "none"]
    /\ creating = NoRun /\ active = NoRun /\ stopFlag = FALSE /\ stopping = NoRun
    /\ worker = {} /\ cancelled = {} /\ unclosed = {} /\ late = {}

(* Mutant of RequestRun: it does not look whether a capture is active. *)
RequestRunRegardless(r, what) ==
    /\ hub = "up" /\ coroutine[r] = "none" /\ creating = NoRun
    /\ creating' = r /\ coroutine' = [coroutine EXCEPT ![r] = "creating"]
    /\ kind' = [kind EXCEPT ![r] = what]
    /\ UNCHANGED <<hub, housekept, row, active, stopFlag, stopping, worker, cancelled, unclosed, late>>

(* start_run and one_shot: under the lock, refused while a timed run is    *)
(* active. The scheduled loop skips its turn then, and runs one at a time. *)
RequestRun(r, what) ==
    /\ hub = "up" /\ coroutine[r] = "none" /\ creating = NoRun /\ active = NoRun
    /\ what = "scheduled" => Scheduled = {}
    /\ creating' = r /\ coroutine' = [coroutine EXCEPT ![r] = "creating"] /\ kind' = [kind EXCEPT ![r] = what]
    /\ UNCHANGED <<hub, housekept, row, active, stopFlag, stopping, worker, cancelled, unclosed, late>>

(* The row is in the store, or could not be written. A one-shot gives the  *)
(* lock back here and registers nowhere.                                   *)
RunCreated(r) ==
    /\ creating = r /\ coroutine[r] = "creating" /\ creating' = NoRun
    /\ \/ /\ row' = [row EXCEPT ![r] = "running"] /\ coroutine' = [coroutine EXCEPT ![r] = "ready"]
          /\ IF kind[r] = "timed" THEN active' = r /\ stopFlag' = FALSE
             ELSE UNCHANGED <<active, stopFlag>>
       \/ coroutine' = [coroutine EXCEPT ![r] = "ended"] /\ UNCHANGED <<row, active, stopFlag>>
    /\ UNCHANGED <<hub, housekept, kind, stopping, worker, cancelled, unclosed, late>>

(* One tick goes to a worker thread; a stop asked for is seen first. *)
BeginTick(r) ==
    /\ coroutine[r] = "ready" /\ ~(kind[r] = "timed" /\ stopFlag)
    /\ coroutine' = [coroutine EXCEPT ![r] = "tick"] /\ worker' = worker \cup {r}
    /\ UNCHANGED <<hub, housekept, row, kind, creating, active, stopFlag, stopping, cancelled, unclosed, late>>

(* The last write to a run's row. A store that refuses it (locked, full)   *)
(* leaves the row as it is: the error is logged, or reaches the caller.    *)
CloseRow(r, status) ==
    \/ row' = [row EXCEPT ![r] = status] /\ UNCHANGED unclosed
    \/ unclosed' = unclosed \cup {r} /\ UNCHANGED row

(* The worker thread is done, with its sample written or not, whether or   *)
(* not a coroutine still waits for it. A one-shot ends with its one tick.  *)
TickDone(r) ==
    /\ r \in worker /\ worker' = worker \ {r}
    /\ IF coroutine[r] # "tick"
       THEN late' \in {late, late \cup {r}} /\ UNCHANGED <<coroutine, row, unclosed>>
       ELSE /\ UNCHANGED late
            /\ IF kind[r] = "timed"
               THEN coroutine' = [coroutine EXCEPT ![r] = "ready"] /\ UNCHANGED <<row, unclosed>>
               ELSE /\ coroutine' = [coroutine EXCEPT ![r] = "ended"]
                    /\ \E status \in {"complete", "failed"} : CloseRow(r, status)
    /\ UNCHANGED <<hub, housekept, kind, creating, active, stopFlag, stopping, cancelled>>

(* The loop's exits, all through its finally: a stop, the deadline, or an  *)
(* error outside a tick. _active is emptied whether the row is closed or   *)
(* not.                                                                    *)
CloseRun(r, status) ==
    /\ CloseRow(r, status) /\ coroutine' = [coroutine EXCEPT ![r] = "ended"]
    /\ active' = NoRun
(* Mutant of EndRun: a stop is seen in the middle of a tick, too. *)
EndRunMidTick(r) ==
    /\ coroutine[r] \in {"ready", "tick"} /\ kind[r] = "timed" /\ CloseRun(r, "stopped")
    /\ UNCHANGED <<hub, housekept, kind, creating, stopFlag, stopping, worker, cancelled, late>>

EndRun(r) ==
    /\ coroutine[r] = "ready" /\ kind[r] = "timed"
    /\ \E status \in {"complete", "failed"} \cup {s \in {"stopped"} : stopFlag} : CloseRun(r, status)
    /\ UNCHANGED <<hub, housekept, kind, creating, stopFlag, stopping, worker, cancelled, late>>

(* stop_run, from the admin page or from the shutdown handler. *)
StopRun ==
    /\ hub # "down" /\ active # NoRun /\ stopping = NoRun
    /\ stopping' = active /\ stopFlag' = TRUE
    /\ UNCHANGED <<hub, housekept, row, kind, coroutine, creating, active, worker, cancelled, unclosed, late>>
StopReturns ==
    /\ stopping # NoRun /\ coroutine[stopping] = "ended" /\ stopping' = NoRun
    /\ UNCHANGED <<hub, housekept, row, kind, coroutine, creating, active, stopFlag, worker, cancelled, unclosed, late>>

(* Mutant of GraceExpires: the cancelled loop does not close its run. *)
GraceExpiresUnclosed ==
    /\ stopping # NoRun /\ coroutine[stopping] \in {"ready", "tick"}
    /\ coroutine' = [coroutine EXCEPT ![stopping] = "ended"] /\ active' = NoRun
    /\ cancelled' = cancelled \cup {stopping}
    /\ UNCHANGED <<hub, housekept, row, kind, creating, stopFlag, stopping, worker, unclosed, late>>

(* Mutant of GraceExpires: the wait for a tick has no limit. *)
GraceExpiresBetweenTicks ==
    /\ stopping # NoRun /\ coroutine[stopping] = "ready"
    /\ CloseRun(stopping, "stopped") /\ cancelled' = cancelled \cup {stopping}
    /\ UNCHANGED <<hub, housekept, kind, creating, stopFlag, stopping, worker, late>>

(* The grace period is over and the loop has not ended: it is cancelled    *)
(* and closes its run; a worker thread goes on.                            *)
GraceExpires ==
    /\ stopping # NoRun /\ coroutine[stopping] \in {"ready", "tick"}
    /\ CloseRun(stopping, "stopped") /\ cancelled' = cancelled \cup {stopping}
    /\ UNCHANGED <<hub, housekept, kind, creating, stopFlag, stopping, worker, late>>

(* stop_scheduled_snapshots: the settings were saved, or the hub shuts     *)
(* down. A one-shot cut off here is closed by nobody: except Exception     *)
(* does not catch a cancellation. Its row may still be being made.         *)
CancelScheduled(r) ==
    /\ hub # "down" /\ r \in Scheduled
    /\ coroutine' = [coroutine EXCEPT ![r] = "ended"] /\ cancelled' = cancelled \cup {r}
    /\ IF coroutine[r] = "creating"
       THEN creating' = NoRun /\ \E s \in {"absent", "running"} : row' = [row EXCEPT ![r] = s]
       ELSE UNCHANGED <<creating, row>>
    /\ UNCHANGED <<hub, housekept, kind, active, stopFlag, stopping, worker, unclosed, late>>

(* Shutdown begins when the admin requests in flight have been answered.   *)
BeginShutdown ==
    /\ hub = "up" /\ hub' = "draining" /\ stopping = NoRun
    /\ \A r \in Runs : kind[r] = "one-shot" => coroutine[r] \in {"none", "ended"}
    /\ creating # NoRun => kind[creating] = "scheduled"
    /\ UNCHANGED <<housekept, row, kind, coroutine, creating, active, stopFlag, stopping, worker, cancelled, unclosed, late>>

Forget ==
    /\ hub' = "down"
    /\ coroutine' = [r \in Runs |-> IF coroutine[r] = "none" THEN "none" ELSE "ended"]
    /\ creating' = NoRun /\ active' = NoRun /\ stopFlag' = FALSE /\ stopping' = NoRun
    /\ worker' = {}
    /\ UNCHANGED <<housekept, row, kind, cancelled, unclosed, late>>

Exit == hub = "draining" /\ Scheduled = {} /\ active = NoRun /\ stopping = NoRun /\ worker = {} /\ Forget
Crash == hub # "down" /\ Forget

Boot ==
    /\ hub = "down" /\ hub' = "up" /\ housekept' = FALSE
    /\ UNCHANGED <<row, kind, coroutine, creating, active, stopFlag, stopping, worker, cancelled, unclosed, late>>

(* _init_diagnostics runs in the background of the start: close_orphan_runs*)
(* closes whatever the store calls running, a capture begun since included.*)
Housekeep ==
    /\ hub = "up" /\ ~housekept /\ housekept' = TRUE
    /\ row' = [r \in Runs |-> IF row[r] = "running" THEN "interrupted" ELSE row[r]]
    /\ UNCHANGED <<hub, kind, coroutine, creating, active, stopFlag, stopping, worker, cancelled, unclosed, late>>

CaptureNext ==
    \/ \E r \in Runs :
          \/ \E what \in {"timed", "one-shot", "scheduled"} : RequestRun(r, what)
          \/ RunCreated(r) \/ BeginTick(r) \/ TickDone(r) \/ EndRun(r) \/ CancelScheduled(r)
    \/ StopRun \/ StopReturns \/ GraceExpires
    \/ BeginShutdown \/ Exit \/ Crash \/ Boot \/ Housekeep

CaptureSpec == CaptureInit /\ [][CaptureNext]_captureVars

(* The event loop turns and its timers fire. A tick may be wedged for ever.*)
CaptureFairness == WF_captureVars(StopReturns) /\ WF_captureVars(GraceExpires)

(***************************************************************************)
(* Properties.                                                             *)
(***************************************************************************)

(* There is one timed capture at a time, and _active names it: what stop   *)
(* and shutdown act on is the capture that runs.                           *)
ActiveIsTheRun ==
    \A r \in Runs : kind[r] = "timed" => (r \in Live <=> active = r)

(* A sample lands in a run that has ended only when its coroutine had to   *)
(* be cancelled: a graceful stop makes the last write final.               *)
GracefulStopIsFinal == late \subseteq cancelled

(* Once a started hub has done its housekeeping, a row that says running   *)
(* belongs to a capture that runs, whatever crashed, failed or was stopped *)
(* before. Two cases escape: a scheduled one-shot that was cancelled, and  *)
(* a run whose last write the store refused.                               *)
RunningMeansLive ==
    hub = "up" /\ housekept =>
        \A r \in Runs : row[r] = "running" =>
            r \in Live \cup unclosed \/ (kind[r] = "scheduled" /\ r \in cancelled)

(* Stopping never hangs, with a tick that never comes back included. *)
StopEnds == stopping # NoRun ~> stopping = NoRun
=============================================================================
