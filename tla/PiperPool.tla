------------------------------ MODULE PiperPool ------------------------------
(***************************************************************************)
(* The resident piper processes of one (voice, speed) of the Piper speech  *)
(* engine (src/src/tts_engines/piper.py): request threads, the process     *)
(* they share under its lock, the reader thread's queue, the pool slot and *)
(* the one-shot fallback. A process may exit or wedge at any moment.       *)
(***************************************************************************)
EXTENDS Sequences, Integers

CONSTANTS
    Requests,           \* speech requests, each on a thread of its own
    Procs, NoProc       \* resident processes ever spawned (bound)

ASSUME PiperAssumption == NoProc \notin Procs

VARIABLES
    pool,       \* _procs for the key
    process,     \* every process: "unborn", "alive" or "exited"
    queued,       \* utterances written to its stdin and not finished
    done,       \* _done: completion lines, or "eof" once it has exited
    holder,     \* who holds its _lock, or "free"
    thread,         \* where a request's thread is
    proc        \* the process a request holds a reference to

piperVars == <<pool, process, queued, done, holder, thread, proc>>

PiperInit ==
    /\ pool = NoProc /\ process = [p \in Procs |-> "unborn"]
    /\ queued = [p \in Procs |-> <<>>] /\ done = [p \in Procs |-> <<>>]
    /\ holder = [p \in Procs |-> "free"]
    /\ thread = [r \in Requests |-> "new"] /\ proc = [r \in Requests |-> NoProc]

Alive(p) == p # NoProc /\ process[p] = "alive"
Goes(r, where) == thread' = [thread EXCEPT ![r] = where]

(* The process exits: its pipe closes and the reader thread says so. *)
Exits(p) ==
    /\ process' = [process EXCEPT ![p] = "exited"]
    /\ queued' = [queued EXCEPT ![p] = <<>>] /\ done' = [done EXCEPT ![p] = Append(@, "eof")]

(* _get_proc: the live process of the slot, or a new one put in it. *)
GetProc(r) ==
    /\ thread[r] = "new" /\ Goes(r, "locking")
    /\ \E p \in Procs :
          /\ IF Alive(pool) THEN p = pool /\ UNCHANGED <<pool, process>>
             ELSE process[p] = "unborn" /\ pool' = p /\ process' = [process EXCEPT ![p] = "alive"]
          /\ proc' = [proc EXCEPT ![r] = p]
    /\ UNCHANGED <<queued, done, holder>>

(* synth under the process's lock: refuse a dead process and drop the      *)
(* lines of earlier utterances, then write this one to its stdin.          *)
Speak(r) ==
    LET p == proc[r] IN
    /\ thread[r] = "locking" /\ holder[p] = "free"
    /\ IF Alive(p)
       THEN /\ Goes(r, "writing")
            /\ holder' = [holder EXCEPT ![p] = r] /\ done' = [done EXCEPT ![p] = <<>>]
       ELSE Goes(r, "failed") /\ UNCHANGED <<holder, done>>
    /\ UNCHANGED <<pool, process, queued, proc>>

(* stdin.write and flush have no time limit: they return once the line is  *)
(* in the pipe, which may take the process to read, or raise once it is    *)
(* gone; its lock is held meanwhile.                                       *)
Written(r) ==
    LET p == proc[r] IN
    /\ thread[r] = "writing" /\ Alive(p) /\ Goes(r, "waiting")
    /\ queued' = [queued EXCEPT ![p] = Append(@, r)]
    /\ UNCHANGED <<pool, process, done, holder, proc>>
WriteRaises(r) ==
    /\ thread[r] = "writing" /\ ~Alive(proc[r]) /\ Goes(r, "failed")
    /\ holder' = [holder EXCEPT ![proc[r]] = "free"]
    /\ UNCHANGED <<pool, process, queued, done, proc>>

(* A thread is in the middle of a write to the process. *)
BeingWritten(p) == \E w \in Requests : thread[w] = "writing" /\ proc[w] = p

(* One line of the queue ends the wait, whoever's it is, and the request's *)
(* own file is read: whole once its own line was printed, and else missing *)
(* or cut short. At eof, or without the file, it fails over to a one-shot. *)
TakeLine(r) ==
    LET p == proc[r] IN
    /\ thread[r] = "waiting" /\ done[p] # <<>>
    /\ done' = [done EXCEPT ![p] = Tail(@)] /\ holder' = [holder EXCEPT ![p] = "free"]
    /\ \/ Head(done[p]) # "eof" /\ Goes(r, "answered")
       \/ (\A i \in DOMAIN done[p] : done[p][i] # r) /\ Goes(r, "failed")
    /\ UNCHANGED <<pool, process, queued, proc>>
(* Mutant of TimesOut: the lock is not given back. *)
TimesOutLocked(r) ==
    /\ thread[r] = "waiting" /\ done[proc[r]] = <<>> /\ Goes(r, "failed")
    /\ UNCHANGED <<pool, process, queued, done, holder, proc>>

TimesOut(r) ==
    /\ thread[r] = "waiting" /\ done[proc[r]] = <<>>
    /\ holder' = [holder EXCEPT ![proc[r]] = "free"] /\ Goes(r, "failed")
    /\ UNCHANGED <<pool, process, queued, done, proc>>

(* Mutant of Drop: the process is taken out of the pool and not closed. *)
DropOnly(r) ==
    /\ thread[r] = "failed" /\ Goes(r, "answered") /\ pool' = NoProc
    /\ UNCHANGED <<process, queued, done, holder, proc>>

(* synthesize's fallback: the slot is emptied, whichever process is in it  *)
(* by now; that one is closed, and this request gets a one-shot.           *)
Drop(r) ==
    /\ thread[r] = "failed" /\ Goes(r, "closing")
    /\ pool' = NoProc /\ proc' = [proc EXCEPT ![r] = pool]
    /\ UNCHANGED <<process, queued, done, holder>>
(* close ends a live process; closing its stdin waits for a write to it.   *)
Close(r) ==
    /\ thread[r] = "closing" /\ Goes(r, "answered")
    /\ IF Alive(proc[r]) THEN ~BeingWritten(proc[r]) /\ Exits(proc[r])
       ELSE UNCHANGED <<process, queued, done>>
    /\ UNCHANGED <<pool, holder, proc>>

(* The process finishes the utterance at hand and prints its line, or exits. *)
Finish(p) ==
    /\ Alive(p) /\ queued[p] # <<>>
    /\ queued' = [queued EXCEPT ![p] = Tail(@)] /\ done' = [done EXCEPT ![p] = Append(@, Head(queued[p]))]
    /\ UNCHANGED <<pool, process, holder, thread, proc>>
ProcessDies(p) == Alive(p) /\ Exits(p) /\ UNCHANGED <<pool, holder, thread, proc>>

RequestStep(r) ==
    GetProc(r) \/ Speak(r) \/ WriteRaises(r) \/ TakeLine(r) \/ TimesOut(r) \/ Drop(r) \/ Close(r)
PiperNext ==
    \/ \E r \in Requests : RequestStep(r) \/ Written(r)
    \/ \E p \in Procs : Finish(p) \/ ProcessDies(p)

PiperSpec == PiperInit /\ [][PiperNext]_piperVars

(* Threads run, locks are handed over and a queue's get times out; nothing *)
(* is asked of the process, which may wedge for good, reading or not.      *)
PiperFairness ==
    \A r \in Requests :
        WF_piperVars(thread[r] # "new" /\ RequestStep(r))

(***************************************************************************)
(* Properties.                                                             *)
(***************************************************************************)

(* Every live process is the one in the pool's slot, or a thread is about  *)
(* to close it: no timeout, crash or race of threads leaves a process with *)
(* a loaded voice that nobody will use or stop.                            *)
NoStrayProcess ==
    \A p \in Procs : Alive(p) =>
        pool = p \/ \E r \in Requests : thread[r] = "closing" /\ proc[r] = p

(* Every request that has begun is answered in the end, by the process or  *)
(* by a one-shot, however many queue on one that has wedged. There is one  *)
(* exception: a write to its process, of this request or of another, that  *)
(* stays blocked for good because the process lives and does not read.     *)
EveryRequestIsAnswered ==
    \A r \in Requests :
        <>[](thread[r] \in {"new", "answered"} \/ BeingWritten(proc[r]))
=============================================================================
