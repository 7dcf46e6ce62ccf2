---------------------------- MODULE Capture_proofs ----------------------------
(***************************************************************************)
(* Proofs about diagnostics captures, for any number of runs: types, one   *)
(* timed capture which _active names, graceful stops after which nothing   *)
(* is written, and rows that say running only for what runs.               *)
(***************************************************************************)
EXTENDS Capture, TLAPS

(* The lock is held for one run, whose coroutine waits for its row; no     *)
(* timed run is active while it is held.                                   *)
LockInv ==
    /\ \A r \in Runs : coroutine[r] = "creating" <=> creating = r
    /\ creating # NoRun => active = NoRun

(* A run is named once, and what is active or being stopped is timed.      *)
KindInv ==
    /\ \A r \in Runs : coroutine[r] = "none" => kind[r] = "none"
    /\ active # NoRun => kind[active] = "timed"
    /\ stopping # NoRun => kind[stopping] = "timed"

(* A worker thread outlives its coroutine only when that was cancelled.    *)
WorkerInv == \A r \in worker : coroutine[r] = "tick" \/ r \in cancelled

CaptureInv ==
    /\ CaptureTypeOK /\ LockInv /\ KindInv /\ WorkerInv
    /\ ActiveIsTheRun /\ GracefulStopIsFinal /\ RunningMeansLive

USE RunAssumption

LEMMA CaptureInvInit == CaptureInit => CaptureInv
BY DEF CaptureInit, CaptureInv, CaptureTypeOK, LockInv, KindInv, WorkerInv, ActiveIsTheRun,
       GracefulStopIsFinal, RunningMeansLive, Live

LEMMA CaptureTypeStep == CaptureInv /\ [CaptureNext]_captureVars => CaptureTypeOK'
<1> SUFFICES ASSUME CaptureInv, [CaptureNext]_captureVars PROVE CaptureTypeOK'
  OBVIOUS
<1> USE DEF CaptureInv, CaptureTypeOK
<1>1. ASSUME NEW r \in Runs, NEW what \in {"timed", "one-shot", "scheduled"}, RequestRun(r, what)
      PROVE  CaptureTypeOK'
  BY <1>1 DEF RequestRun
<1>2. ASSUME NEW r \in Runs, RunCreated(r) PROVE CaptureTypeOK'
  BY <1>2 DEF RunCreated
<1>3. ASSUME NEW r \in Runs, BeginTick(r) PROVE CaptureTypeOK'
  BY <1>3 DEF BeginTick
<1>4. ASSUME NEW r \in Runs, TickDone(r) PROVE CaptureTypeOK'
  BY <1>4 DEF TickDone, CloseRow
<1>5. ASSUME NEW r \in Runs, EndRun(r) PROVE CaptureTypeOK'
  BY <1>5 DEF EndRun, CloseRun, CloseRow
<1>6. ASSUME NEW r \in Runs, CancelScheduled(r) PROVE CaptureTypeOK'
  BY <1>6 DEF CancelScheduled
<1>7. CASE StopRun
  BY <1>7 DEF StopRun
<1>8. CASE StopReturns
  BY <1>8 DEF StopReturns
<1>9. CASE GraceExpires
  BY <1>9 DEF GraceExpires, CloseRun, CloseRow
<1>10. CASE BeginShutdown
  BY <1>10 DEF BeginShutdown
<1>11. CASE Exit \/ Crash
  BY <1>11 DEF Exit, Crash, Forget
<1>12. CASE Boot
  BY <1>12 DEF Boot
<1>13. CASE Housekeep
  BY <1>13 DEF Housekeep
<1>14. CASE UNCHANGED captureVars
  BY <1>14 DEF captureVars
<1> QED BY <1>1, <1>2, <1>3, <1>4, <1>5, <1>6, <1>7, <1>8, <1>9, <1>10, <1>11, <1>12, <1>13,
           <1>14 DEF CaptureNext

LEMMA CaptureInvStep == CaptureInv /\ [CaptureNext]_captureVars => CaptureInv'
<1> SUFFICES ASSUME CaptureInv, [CaptureNext]_captureVars, CaptureTypeOK'
             PROVE  /\ LockInv' /\ KindInv' /\ WorkerInv'
                    /\ ActiveIsTheRun' /\ GracefulStopIsFinal' /\ RunningMeansLive'
  BY CaptureTypeStep DEF CaptureInv
<1> USE DEF CaptureInv, CaptureTypeOK, LockInv, KindInv, WorkerInv, ActiveIsTheRun,
            GracefulStopIsFinal, RunningMeansLive, Live
<1> DEFINE Goal == /\ LockInv' /\ KindInv' /\ WorkerInv'
                   /\ ActiveIsTheRun' /\ GracefulStopIsFinal' /\ RunningMeansLive'
<1>1. ASSUME NEW r \in Runs, NEW what \in {"timed", "one-shot", "scheduled"}, RequestRun(r, what)
      PROVE  Goal
  BY <1>1 DEF RequestRun
<1>2. ASSUME NEW r \in Runs, RunCreated(r) PROVE Goal
  BY <1>2 DEF RunCreated
<1>3. ASSUME NEW r \in Runs, BeginTick(r) PROVE Goal
  BY <1>3 DEF BeginTick
<1>4. ASSUME NEW r \in Runs, TickDone(r) PROVE Goal
  BY <1>4 DEF TickDone, CloseRow
<1>5. ASSUME NEW r \in Runs, EndRun(r) PROVE Goal
  BY <1>5 DEF EndRun, CloseRun, CloseRow
<1>6. ASSUME NEW r \in Runs, CancelScheduled(r) PROVE Goal
  BY <1>6 DEF CancelScheduled, Scheduled
<1>7. CASE StopRun
  BY <1>7 DEF StopRun
<1>8. CASE StopReturns
  BY <1>8 DEF StopReturns
<1>9. CASE GraceExpires
  BY <1>9 DEF GraceExpires, CloseRun, CloseRow
<1>10. CASE BeginShutdown
  BY <1>10 DEF BeginShutdown
<1>11. CASE Exit \/ Crash
  BY <1>11 DEF Exit, Crash, Forget
<1>12. CASE Boot
  BY <1>12 DEF Boot
<1>13. CASE Housekeep
  BY <1>13 DEF Housekeep
<1>14. CASE UNCHANGED captureVars
  BY <1>14 DEF captureVars
<1> QED BY <1>1, <1>2, <1>3, <1>4, <1>5, <1>6, <1>7, <1>8, <1>9, <1>10, <1>11, <1>12, <1>13,
           <1>14 DEF CaptureNext

LEMMA CaptureInvariant == CaptureSpec => []CaptureInv
BY CaptureInvInit, CaptureInvStep, PTL DEF CaptureSpec

(* The captures' state keeps its types, for any number of runs. *)
THEOREM CaptureTypeCorrect == CaptureSpec => []CaptureTypeOK
BY CaptureInvariant, PTL DEF CaptureInv

(* _active names the timed capture that runs, and there is no other. *)
THEOREM CaptureActiveIsTheRun == CaptureSpec => []ActiveIsTheRun
BY CaptureInvariant, PTL DEF CaptureInv

(* A sample lands after the end of a run only if its coroutine was cancelled. *)
THEOREM CaptureStopIsFinal == CaptureSpec => []GracefulStopIsFinal
BY CaptureInvariant, PTL DEF CaptureInv

(* After the housekeeping of a boot a running row is a running capture's,  *)
(* or that of a scheduled one-shot that was cancelled, or of a run whose   *)
(* last write the store refused.                                           *)
THEOREM CaptureRunningMeansLive == CaptureSpec => []RunningMeansLive
BY CaptureInvariant, PTL DEF CaptureInv
=============================================================================
