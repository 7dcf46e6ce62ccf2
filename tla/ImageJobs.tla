------------------------------- MODULE ImageJobs -------------------------------
(***************************************************************************)
(* Local image requests and the ComfyUI process they share                 *)
(* (src/src/images/server_images.py, comfyui_client.py): a prompt is       *)
(* posted, its history polled, and a backend whose CUDA context died is    *)
(* stopped so that the next request loads a clean one. The load itself,    *)
(* leases and idle unloads are in OnDemand; here a process is a            *)
(* generation.                                                             *)
(***************************************************************************)
EXTENDS Integers

CONSTANTS
    Images,         \* image requests, each on a worker thread
    Generations     \* ComfyUI processes ever spawned: 1..Generations (bound)

ASSUME ImageAssumption == Generations \in Nat

VARIABLES
    backend,        \* the generation on the model's port, 0 when none
    spawned,        \* how many there were
    wedged,         \* generations whose CUDA context died
    image,          \* every request: where it is and whose prompt queue it is in
    told,           \* history: generations a client was told were stopped
    since           \* history: told when the request began

imageVars == <<backend, spawned, wedged, image, told, since>>

ImageInit ==
    /\ backend = 0 /\ spawned = 0 /\ wedged = {} /\ told = {}
    /\ image = [r \in Images |-> [at |-> "new", on |-> 0]] /\ since = [r \in Images |-> {}]

Moves(r, where) == image' = [image EXCEPT ![r].at = where]

(* ensure_ready: a process that answers is good, wedged or not; else one   *)
(* is spawned, or the request gets a 503.                                  *)
EnsureReady(r) ==
    /\ image[r].at = "new" /\ since' = [since EXCEPT ![r] = told]
    /\ \/ backend # 0 /\ Moves(r, "ready") /\ UNCHANGED <<backend, spawned>>
       \/ /\ backend = 0 /\ spawned < Generations /\ spawned' = spawned + 1
          /\ backend' = spawned' /\ Moves(r, "ready")
       \/ backend = 0 /\ Moves(r, "failed") /\ UNCHANGED <<backend, spawned>>
    /\ UNCHANGED <<wedged, told>>

(* _post_prompt: to whatever process is on the port by now. *)
PostPrompt(r) ==
    /\ image[r].at = "ready"
    /\ \/ backend # 0 /\ image' = [image EXCEPT ![r] = [at |-> "polling", on |-> backend]]
       \/ Moves(r, "failed")
    /\ UNCHANGED <<backend, spawned, wedged, told, since>>

(* _await_history finds a record only in the process that has the prompt:  *)
(* an image or an error that spares the process, or the fatal CUDA error.  *)
Finished(r) ==
    /\ image[r].at = "polling" /\ image[r].on = backend /\ backend \notin wedged
    /\ \E where \in {"answered", "failed"} : Moves(r, where)
    /\ UNCHANGED <<backend, spawned, wedged, told, since>>
SeesWedge(r) ==
    /\ image[r].at = "polling" /\ image[r].on = backend /\ backend \in wedged
    /\ Moves(r, "stopping")
    /\ UNCHANGED <<backend, spawned, wedged, told, since>>
TimesOutPolling(r) ==
    /\ image[r].at = "polling" /\ Moves(r, "failed")
    /\ UNCHANGED <<backend, spawned, wedged, told, since>>

(* Mutant of StopWedged: the result of the stop is not looked at. *)
StopWedgedUnchecked(r) ==
    /\ image[r].at = "stopping" /\ Moves(r, "stopped") /\ backend' \in {backend, 0}
    /\ UNCHANGED <<spawned, wedged, told, since>>

(* _stop_wedged_backend, then the 503 that says what became of it. The     *)
(* stop goes by the model's name: it hits the process of now.              *)
StopWedged(r) ==
    /\ image[r].at = "stopping"
    /\ \/ backend # 0 /\ backend' = 0 /\ Moves(r, "stopped")
       \/ UNCHANGED backend /\ Moves(r, "unstopped")
    /\ UNCHANGED <<spawned, wedged, told, since>>
ReplyWedged(r) ==
    /\ image[r].at \in {"stopped", "unstopped"} /\ Moves(r, "wedged")
    /\ told' = IF image[r].at = "stopped" THEN told \cup {image[r].on} ELSE told
    /\ UNCHANGED <<backend, spawned, wedged, since>>

ContextDies ==
    /\ backend # 0 /\ backend \notin wedged /\ wedged' = wedged \cup {backend}
    /\ UNCHANGED <<backend, spawned, image, told, since>>
BackendGoes ==      \* an idle unload, a stop by hand or a crash
    /\ backend # 0 /\ backend' = 0
    /\ UNCHANGED <<spawned, wedged, image, told, since>>

ImageNext ==
    \/ \E r \in Images :
          \/ EnsureReady(r) \/ PostPrompt(r) \/ Finished(r) \/ SeesWedge(r)
          \/ TimesOutPolling(r) \/ StopWedged(r) \/ ReplyWedged(r)
    \/ ContextDies \/ BackendGoes

ImageSpec == ImageInit /\ [][ImageNext]_imageVars

(***************************************************************************)
(* Properties.                                                             *)
(***************************************************************************)

(* A wedged process claims no second victim: once a client was told that   *)
(* it was stopped, no request that begins later is failed by that same     *)
(* process.                                                                *)
NoSecondVictim ==
    \A r \in Images : image[r].at = "wedged" => image[r].on \notin since[r]
=============================================================================
