---------------------------- MODULE ParakeetWorker ----------------------------
(***************************************************************************)
(* The speech recognition server and its one Swift worker                  *)
(* (src/src/parakeet_server.py,                                            *)
(* src/mac/parakeet-worker/Sources/ParakeetWorker/main.swift): uploads are *)
(* transcribed one at a time under a lock, over the worker's stdin and the *)
(* queue its stdout is pumped into. The worker may be slow, fail or die.   *)
(***************************************************************************)
EXTENDS Sequences, Integers

CONSTANTS
    Uploads, NoUpload,  \* transcription requests, each made once
    MaxRestarts         \* workers started after the first (bound)

VARIABLES
    worker,     \* "up" or "down"
    input,      \* paths written to its stdin and not transcribed yet
    output,     \* lines in the pump's queue: an upload with its result
    owner,      \* who holds the lock
    call,       \* where every request is, or how it was answered
    text,       \* the upload whose transcript an answered request got
    restarts

parakeetVars == <<worker, input, output, owner, call, text, restarts>>

Line(r, ok) == [of |-> r, ok |-> ok]
Eof == Line(NoUpload, FALSE)    \* the empty line the pump ends with

ParakeetInit ==
    /\ worker \in {"up", "down"} /\ input = <<>> /\ output = <<>> /\ owner = NoUpload
    /\ call = [r \in Uploads |-> "new"] /\ text = [r \in Uploads |-> NoUpload]
    /\ restarts = 0

Answer(r, how) == call' = [call EXCEPT ![r] = how] /\ owner' = NoUpload

(* The lock, then a worker that is alive: a dead one is replaced, with a   *)
(* queue of its own, or the request fails.                                 *)
TakeLock(r) ==
    /\ call[r] = "new" /\ owner = NoUpload /\ UNCHANGED text
    /\ \/ /\ worker = "up" /\ owner' = r /\ call' = [call EXCEPT ![r] = "convert"]
          /\ UNCHANGED <<worker, input, output, restarts>>
       \/ /\ worker = "down" /\ restarts < MaxRestarts /\ restarts' = restarts + 1
          /\ worker' = "up" /\ input' = <<>> /\ output' = <<>>
          /\ owner' = r /\ call' = [call EXCEPT ![r] = "convert"]
       \/ worker = "down" /\ Answer(r, "500") /\ UNCHANGED <<worker, input, output, restarts>>

(* afconvert fails or passes its time limit, or the path goes to stdin;    *)
(* the pipe of a worker that died meanwhile raises.                        *)
Convert(r) ==
    /\ call[r] = "convert"
    /\ \/ \E how \in {"400", "504"} : Answer(r, how) /\ UNCHANGED input
       \/ /\ worker = "up" /\ input' = Append(input, r)
          /\ call' = [call EXCEPT ![r] = "wait"] /\ UNCHANGED owner
       \/ worker = "down" /\ Answer(r, "500") /\ UNCHANGED input
    /\ UNCHANGED <<worker, output, text, restarts>>

(* _roundtrip takes the next line of the queue, whoever's it is. *)
TakeReply(r) ==
    /\ call[r] = "wait" /\ output # <<>> /\ output' = Tail(output)
    /\ LET line == Head(output) IN
       IF line.ok THEN Answer(r, "200") /\ text' = [text EXCEPT ![r] = line.of]
       ELSE Answer(r, "500") /\ UNCHANGED text
    /\ UNCHANGED <<worker, input, restarts>>

(* The deadline passes on an empty queue: 504, and nothing else is done. *)
TimesOutWaiting(r) ==
    /\ call[r] = "wait" /\ output = <<>> /\ Answer(r, "504")
    /\ UNCHANGED <<worker, input, output, text, restarts>>

(* The worker answers its lines in order, one line each. *)
WorkerEmits ==
    /\ worker = "up" /\ input # <<>> /\ input' = Tail(input)
    /\ \E ok \in BOOLEAN : output' = Append(output, Line(Head(input), ok))
    /\ UNCHANGED <<worker, owner, call, text, restarts>>
WorkerDies ==
    /\ worker = "up" /\ worker' = "down" /\ input' = <<>> /\ output' = Append(output, Eof)
    /\ UNCHANGED <<owner, call, text, restarts>>

ParakeetNext ==
    \/ \E r \in Uploads :
          TakeLock(r) \/ Convert(r) \/ TakeReply(r) \/ TimesOutWaiting(r)
    \/ WorkerEmits \/ WorkerDies

ParakeetSpec == ParakeetInit /\ [][ParakeetNext]_parakeetVars

(***************************************************************************)
(* Properties.                                                             *)
(***************************************************************************)

(* Requests are serialized through the worker's pipes, "one JSON result    *)
(* per line" (parakeet_server.py:13-17): the transcript a request is       *)
(* answered with is that of its own upload.                                *)
AnswerIsOwn == \A r \in Uploads : call[r] = "200" => text[r] = r
=============================================================================
