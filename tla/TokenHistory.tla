----------------------------- MODULE TokenHistory -----------------------------
(***************************************************************************)
(* The token history of the Usage page (src/src/usage/token_history.py):   *)
(* recalculations on background threads, from logs that grow and are       *)
(* pruned, into a cache in memory that is saved to disk. Saves may fail    *)
(* and the hub may restart at any moment. A day's cell is its token total, *)
(* of one agent; the bridged agent, which is not carried forward, is left  *)
(* out.                                                                    *)
(***************************************************************************)
EXTENDS Integers

CONSTANTS
    Days,
    Threads,        \* recalculation threads
    MaxTokens,      \* tokens of a day (bound)
    Unloaded        \* _state before the cache file was read

ASSUME TokenAssumption == MaxTokens \in Nat /\ \A days \in [Days -> 0..MaxTokens] : days # Unloaded

VARIABLES
    used,           \* tokens really used on a day
    logs,           \* what the transcripts still on disk add up to
    memory, disk,   \* _state["days"] and the cache file
    single,         \* the thread that holds _refresh_lock, as a set
    calc,           \* where every thread is
    days,           \* its local days
    unsaved         \* history: the last save failed

tokenVars == <<used, logs, memory, disk, single, calc, days, unsaved>>

Zero == [d \in Days |-> 0]

TokenTypeOK ==
    /\ used \in [Days -> 0..MaxTokens] /\ logs \in [Days -> 0..MaxTokens]
    /\ disk \in [Days -> 0..MaxTokens] /\ memory \in [Days -> 0..MaxTokens] \cup {Unloaded}
    /\ single \subseteq Threads /\ unsaved \in BOOLEAN
    /\ calc \in [Threads -> {"idle", "begun", "gather", "carry", "publish", "fail"}]
    /\ days \in [Threads -> [Days -> 0..MaxTokens]]

TokenInit ==
    /\ used = Zero /\ logs = Zero /\ disk = Zero /\ memory = Unloaded
    /\ single = {} /\ unsaved = FALSE
    /\ calc = [t \in Threads |-> "idle"] /\ days = [t \in Threads |-> Zero]

Loaded == IF memory = Unloaded THEN disk ELSE memory
GoesOn(t, to) == calc' = [calc EXCEPT ![t] = to]

(* request_refresh looks at the lock and starts a thread, which tries it.  *)
RequestRefresh(t) ==
    /\ calc[t] = "idle" /\ single = {} /\ GoesOn(t, "begun")
    /\ UNCHANGED <<used, logs, memory, disk, single, days, unsaved>>
(* Mutant of TryLock: the lock is not tried for. *)
TryLockNot(t) ==
    /\ calc[t] = "begun" /\ GoesOn(t, "gather") /\ memory' = Loaded
    /\ UNCHANGED <<used, logs, disk, single, days, unsaved>>

TryLock(t) ==
    /\ calc[t] = "begun"
    /\ IF single = {} THEN single' = {t} /\ GoesOn(t, "gather") /\ memory' = Loaded
       ELSE GoesOn(t, "idle") /\ UNCHANGED <<single, memory>>
    /\ UNCHANGED <<used, logs, disk, days, unsaved>>

(* _compute_days reads every transcript, or raises. *)
Gather(t) ==
    /\ calc[t] = "gather"
    /\ \/ days' = [days EXCEPT ![t] = logs] /\ GoesOn(t, "carry")
       \/ GoesOn(t, "fail") /\ UNCHANGED days
    /\ UNCHANGED <<used, logs, memory, disk, single, unsaved>>

(* _carry_forward: the larger cell wins. *)
Carried(new, old) == [d \in Days |-> IF old[d] > new[d] THEN old[d] ELSE new[d]]
CarryForward(t) ==
    /\ calc[t] = "carry" /\ GoesOn(t, "publish")
    /\ days' = [days EXCEPT ![t] = Carried(@, memory)]
    /\ UNCHANGED <<used, logs, memory, disk, single, unsaved>>

(* _save_locked: the file is replaced whole, or left alone and a warning   *)
(* is logged.                                                              *)
Save(content) ==
    \/ disk' = content /\ unsaved' = FALSE
    \/ UNCHANGED disk /\ unsaved' = TRUE
Released(t) == single' = single \ {t} /\ GoesOn(t, "idle") /\ days' = [days EXCEPT ![t] = Zero]
PublishDays(t) ==
    /\ calc[t] = "publish" /\ memory' = days[t] /\ Save(days[t]) /\ Released(t)
    /\ UNCHANGED <<used, logs>>
RecordFailure(t) ==
    /\ calc[t] = "fail" /\ Save(memory) /\ Released(t)
    /\ UNCHANGED <<used, logs, memory>>

(* get_history loads the file if nobody has. *)
GetHistory ==
    /\ memory = Unloaded /\ memory' = disk
    /\ UNCHANGED <<used, logs, disk, single, calc, days, unsaved>>

(* Agents work, and their transcripts are pruned. *)
AgentWorks(d) ==
    /\ used[d] < MaxTokens /\ used' = [used EXCEPT ![d] = @ + 1]
    /\ logs' = [logs EXCEPT ![d] = @ + 1]
    /\ UNCHANGED <<memory, disk, single, calc, days, unsaved>>
Pruned(d) ==
    /\ logs[d] > 0 /\ logs' = [logs EXCEPT ![d] = 0]
    /\ UNCHANGED <<used, memory, disk, single, calc, days, unsaved>>

HubRestarts ==
    /\ memory' = Unloaded /\ single' = {} /\ unsaved' = FALSE
    /\ calc' = [t \in Threads |-> "idle"] /\ days' = [t \in Threads |-> Zero]
    /\ UNCHANGED <<used, logs, disk>>

TokenNext ==
    \/ \E t \in Threads :
          RequestRefresh(t) \/ TryLock(t) \/ Gather(t) \/ CarryForward(t) \/ PublishDays(t)
            \/ RecordFailure(t)
    \/ GetHistory \/ HubRestarts \/ \E d \in Days : AgentWorks(d) \/ Pruned(d)

TokenSpec == TokenInit /\ [][TokenNext]_tokenVars

(***************************************************************************)
(* Properties.                                                             *)
(***************************************************************************)

(* "History never shrinks": what is served for a day goes down neither     *)
(* when logs are pruned in the middle of a recalculation, nor when two     *)
(* recalculations are asked for at once, nor at a restart, unless the last *)
(* save had failed.                                                        *)
HistoryNeverShrinks ==
    [][\A d \in Days : Loaded'[d] >= Loaded[d] \/ (unsaved /\ memory' = Unloaded)]_tokenVars
=============================================================================
