----------------------------- MODULE ActionsRunner -----------------------------
(***************************************************************************)
(* Start, stop and install of a GitHub Actions runner service on a peer    *)
(* (src/src/fleet/actions_runner.py): verbs from several admin pages, the  *)
(* status polls and their cache of GitHub's answers, while GitHub hands    *)
(* the runner jobs. SSH commands may fail with or without their effect.    *)
(***************************************************************************)
EXTENDS Integers

CONSTANTS
    Verbs, NoVerb,  \* verb requests, each made once
    MaxJobs         \* jobs GitHub hands out (bound)

ASSUME RunnerAssumption == NoVerb \notin Verbs /\ MaxJobs \in Nat

VARIABLES
    service,    \* the service on the machine
    job, jobs,  \* a job runs there; how many were ever started
    cache,      \* _gh_cache: GitHub's last answer, if not expired
    lock,       \* the verb request that holds the machine's lock
    verb, turn, \* what every request asks, and where it is
    saw,        \* the service state it read
    asked,      \* history: when it asked GitHub, jobs started and the answer
    cut         \* history: jobs cut off by a stop, with `asked` of that stop

runnerVars == <<service, job, jobs, cache, lock, verb, turn, saw, asked, cut>>

Unseen == "unknown"
Unasked == [jobs |-> 0, answer |-> "unknown"]

RunnerInit ==
    /\ service \in {"running", "loaded", "stopped", "not_installed"}
    /\ job = FALSE /\ jobs = 0 /\ cache = "none" /\ lock = NoVerb
    /\ verb = [r \in Verbs |-> "none"] /\ turn = [r \in Verbs |-> "new"]
    /\ saw = [r \in Verbs |-> Unseen]
    /\ asked = [r \in Verbs |-> Unasked] /\ cut = {}

Turns(r, to) == turn' = [turn EXCEPT ![r] = to]

(* _read_github: nothing known of it after an error; "busy" as the listing  *)
(* says, otherwise the runner's state. GitHub shows a job that runs, unless *)
(* it has lost touch with the runner (offline) or the one page asked for    *)
(* does not list its name.                                                  *)
Answers == {"unknown", "busy", "online", "offline", "not_registered"}
Listing == Answers \ (IF job THEN {"online"} ELSE {"busy"})

(* Mutant of GhCached: a cached answer does for every caller. *)
GhCachedAlways(fresh, answer) ==
    IF cache # "none" THEN answer = cache /\ UNCHANGED cache
    ELSE answer \in Listing /\ cache' = IF answer = "unknown" THEN "none" ELSE answer

(* _gh_cached: the cached answer unless a fresh one is asked for; an error *)
(* empties the cache.                                                      *)
GhCached(fresh, answer) ==
    IF cache # "none" /\ ~fresh THEN answer = cache /\ UNCHANGED cache
    ELSE answer \in Listing /\ cache' = IF answer = "unknown" THEN "none" ELSE answer

(* _allowed: the verbs the two readings allow. *)
Allowed(what, seen, github) ==
    \/ what = "start" /\ seen \in {"stopped", "loaded"}
    \/ what = "install" /\ seen = "not_installed"
    \/ /\ what = "stop" /\ seen \in {"running", "loaded"}
       /\ github \in {"online", "offline", "not_registered"}

(* run_verb, refused at once while another verb is in progress. *)
BeginVerb(r, what) ==
    /\ turn[r] = "new" /\ verb' = [verb EXCEPT ![r] = what]
    /\ IF lock = NoVerb THEN lock' = r /\ Turns(r, "service") ELSE Turns(r, "done") /\ UNCHANGED lock
    /\ UNCHANGED <<service, job, jobs, cache, saw, asked, cut>>

(* status, in two readings one after the other. *)
ReadService(r) ==
    /\ turn[r] = "service" /\ Turns(r, "github")
    /\ \E s \in {service, Unseen} : saw' = [saw EXCEPT ![r] = s]
    /\ UNCHANGED <<service, job, jobs, cache, lock, verb, asked, cut>>
ReadGitHub(r) ==
    /\ turn[r] = "github"
    /\ \E answer \in Answers :
          /\ GhCached(TRUE, answer)
          /\ IF Allowed(verb[r], saw[r], answer)
             THEN /\ Turns(r, "command") /\ UNCHANGED lock
                  /\ asked' = [asked EXCEPT ![r] = [jobs |-> jobs, answer |-> answer]]
             ELSE Turns(r, "done") /\ lock' = NoVerb /\ UNCHANGED asked
    /\ saw' = [saw EXCEPT ![r] = Unseen]
    /\ UNCHANGED <<service, job, jobs, verb, cut>>

(* svc.sh over SSH. A stop cuts off the job that runs. *)
Effect(r) ==
    IF verb[r] = "stop"
    THEN /\ service' = "stopped" /\ job' = FALSE
         /\ cut' = IF job THEN cut \cup {[job |-> jobs, asked |-> asked[r]]} ELSE cut
    ELSE service' \in {"running", "loaded"} /\ UNCHANGED <<job, cut>>
HalfInstalled(r) == verb[r] = "install" /\ service' = "stopped" /\ UNCHANGED <<job, cut>>
Command(r) ==
    /\ turn[r] = "command"
    /\ \/ Effect(r) /\ Turns(r, "converge") /\ UNCHANGED lock
       \/ /\ Effect(r) \/ HalfInstalled(r) \/ UNCHANGED <<service, job, cut>>
          /\ Turns(r, "done") /\ lock' = NoVerb
    /\ asked' = [asked EXCEPT ![r] = Unasked] /\ UNCHANGED <<jobs, cache, verb, saw>>

(* Fresh readings until both sources agree or the deadline passes. *)
Converge(r) ==
    /\ turn[r] = "converge"
    /\ \E answer \in Answers : GhCached(TRUE, answer)
    /\ \/ UNCHANGED <<turn, lock>>
       \/ Turns(r, "done") /\ lock' = NoVerb
    /\ UNCHANGED <<service, job, jobs, verb, saw, asked, cut>>

(* The page polls status without asking for a fresh answer. *)
PollStatus ==
    /\ \E answer \in Answers : GhCached(FALSE, answer)
    /\ UNCHANGED <<service, job, jobs, lock, verb, turn, saw, asked, cut>>
CacheExpires ==
    /\ cache # "none" /\ cache' = "none"
    /\ UNCHANGED <<service, job, jobs, lock, verb, turn, saw, asked, cut>>

JobStarts ==
    /\ service = "running" /\ ~job /\ jobs < MaxJobs /\ job' = TRUE /\ jobs' = jobs + 1
    /\ UNCHANGED <<service, cache, lock, verb, turn, saw, asked, cut>>
JobEnds ==
    /\ job /\ job' = FALSE
    /\ UNCHANGED <<service, jobs, cache, lock, verb, turn, saw, asked, cut>>
ServiceDies ==
    /\ service = "running" /\ service' = "loaded" /\ job' = FALSE
    /\ UNCHANGED <<jobs, cache, lock, verb, turn, saw, asked, cut>>
ServiceReturns ==
    /\ service = "loaded" /\ service' = "running"
    /\ UNCHANGED <<job, jobs, cache, lock, verb, turn, saw, asked, cut>>

RunnerNext ==
    \/ \E r \in Verbs :
          \/ \E what \in {"start", "stop", "install"} : BeginVerb(r, what)
          \/ ReadService(r) \/ ReadGitHub(r) \/ Command(r) \/ Converge(r)
    \/ PollStatus \/ CacheExpires \/ JobStarts \/ JobEnds \/ ServiceDies \/ ServiceReturns

RunnerSpec == RunnerInit /\ [][RunnerNext]_runnerVars

(***************************************************************************)
(* Properties.                                                             *)
(***************************************************************************)

(* A stop cuts off only a job that GitHub's answer to that stop could not  *)
(* show: one that started after it asked, or one on a runner that GitHub   *)
(* showed offline or did not list. No answer left in the cache by a poll,  *)
(* and no other verb in between, makes it stop a job GitHub had shown.     *)
StopSparesTheJob ==
    \A c \in cut :
        c.job > c.asked.jobs \/ c.asked.answer \in {"offline", "not_registered"}
=============================================================================
