-------------------------- MODULE HubServices_proofs --------------------------
(***************************************************************************)
(* Proofs about eight of the hub's small services, one section each: the   *)
(* Piper processes, the drift loop, the token history, the runner verbs,   *)
(* the image backend, the polled snapshot, the speech worker and the dial  *)
(* routes, for any number of requests, peers, threads, days, jobs, readers *)
(* and builds.                                                             *)
(***************************************************************************)
EXTENDS PiperPool, ConfigDrift, TokenHistory, ActionsRunner, ImageJobs, Snapshot,
        ParakeetWorker, DialRoute, SequenceTheorems, TLAPS

-----------------------------------------------------------------------------
(* The Piper processes.                                                    *)

PiperFunctions ==
    /\ pool \in Procs \cup {NoProc}
    /\ process \in [Procs -> {"unborn", "alive", "exited"}]
    /\ thread \in [Requests -> {"new", "locking", "writing", "waiting", "failed", "closing", "answered"}]
    /\ proc \in [Requests -> Procs \cup {NoProc}]

PiperInv == PiperFunctions /\ NoStrayProcess

LEMMA PiperInvInit == PiperInit => PiperInv
BY DEF PiperInit, PiperInv, PiperFunctions, NoStrayProcess, Alive

LEMMA PiperInvStep == PiperInv /\ [PiperNext]_piperVars => PiperInv'
<1> SUFFICES ASSUME PiperInv, [PiperNext]_piperVars PROVE PiperInv'
  OBVIOUS
<1> USE PiperAssumption DEF PiperInv, PiperFunctions, NoStrayProcess, Alive, Goes
<1>1. ASSUME NEW r \in Requests, GetProc(r) PROVE PiperInv'
  <2> PICK p \in Procs :
          /\ IF Alive(pool) THEN p = pool /\ UNCHANGED <<pool, process>>
             ELSE process[p] = "unborn" /\ pool' = p /\ process' = [process EXCEPT ![p] = "alive"]
          /\ proc' = [proc EXCEPT ![r] = p]
    BY <1>1 DEF GetProc
  <2> QED BY <1>1 DEF GetProc
<1>2. ASSUME NEW r \in Requests, Speak(r) PROVE PiperInv'
  <2>1. /\ thread[r] = "locking" /\ UNCHANGED <<pool, process, proc>>
        /\ \E where \in {"writing", "failed"} : thread' = [thread EXCEPT ![r] = where]
    BY <1>2 DEF Speak
  <2> QED BY <2>1
<1>10. ASSUME NEW r \in Requests, Written(r) PROVE PiperInv'
  BY <1>10 DEF Written
<1>11. ASSUME NEW r \in Requests, WriteRaises(r) PROVE PiperInv'
  BY <1>11 DEF WriteRaises
<1>3. ASSUME NEW r \in Requests, TakeLine(r) PROVE PiperInv'
  <2>1. /\ thread[r] = "waiting" /\ UNCHANGED <<pool, process, proc>>
        /\ \E where \in {"answered", "failed"} : thread' = [thread EXCEPT ![r] = where]
    BY <1>3 DEF TakeLine
  <2> QED BY <2>1
<1>4. ASSUME NEW r \in Requests, TimesOut(r) PROVE PiperInv'
  BY <1>4 DEF TimesOut
<1>5. ASSUME NEW r \in Requests, Drop(r) PROVE PiperInv'
  BY <1>5 DEF Drop
<1>6. ASSUME NEW r \in Requests, Close(r) PROVE PiperInv'
  BY <1>6 DEF Close, Exits
<1>7. ASSUME NEW p \in Procs, Finish(p) PROVE PiperInv'
  BY <1>7 DEF Finish
<1>8. ASSUME NEW p \in Procs, ProcessDies(p) PROVE PiperInv'
  BY <1>8 DEF ProcessDies, Exits
<1>9. CASE UNCHANGED piperVars
  BY <1>9 DEF piperVars
<1> QED BY <1>1, <1>2, <1>3, <1>4, <1>5, <1>6, <1>7, <1>8, <1>9, <1>10, <1>11
   DEF PiperNext, RequestStep

(* No live piper process is out of the pool unless a thread is about to    *)
(* close it.                                                               *)
THEOREM PiperNoStrayProcess == PiperSpec => []NoStrayProcess
<1>1. PiperInv => NoStrayProcess
  BY DEF PiperInv
<1> QED BY <1>1, PiperInvInit, PiperInvStep, PTL DEF PiperSpec

-----------------------------------------------------------------------------
(* The drift loop.                                                         *)

(* The one sync under way is for the sha of this pass.                     *)
SyncInv ==
    /\ \A p, q \in syncing : p = q
    /\ \A p \in syncing : attempted[p] = target

DriftInv == DriftTypeOK /\ SyncInv /\ AttemptSpentWell

LEMMA DriftInvInit == DriftInit => DriftInv
BY DriftAssumption DEF DriftInit, DriftInv, DriftTypeOK, SyncInv, AttemptSpentWell

LEMMA DriftInvStep == DriftInv /\ [DriftNext]_driftVars => DriftInv'
<1> SUFFICES ASSUME DriftInv, [DriftNext]_driftVars PROVE DriftInv'
  OBVIOUS
<1> USE DriftAssumption DEF DriftInv, DriftTypeOK, SyncInv, AttemptSpentWell
<1>1. CASE Publish
  BY <1>1 DEF Publish
<1>2. CASE CommitByHand
  BY <1>2 DEF CommitByHand
<1>3. CASE PushByHand
  BY <1>3 DEF PushByHand
<1>4. CASE BeginPass
  BY <1>4 DEF BeginPass
<1>5. CASE Restart
  BY <1>5 DEF Restart
<1>6. ASSUME NEW p \in Peers, PostedSync(p) PROVE DriftInv'
  BY <1>6 DEF PostedSync, Pulls
<1>7. ASSUME NEW p \in Peers, LookAt(p) PROVE DriftInv'
  BY <1>7 DEF LookAt
<1>8. ASSUME NEW p \in Peers, DriftSync(p) PROVE DriftInv'
  <2>1. CASE Pulls(p) /\ faulty' = IF origin < target THEN faulty \cup {p} ELSE faulty
    BY <1>8, <2>1 DEF DriftSync, Pulls
  <2>2. CASE UNCHANGED checkout /\ faulty' = faulty \cup {p}
    BY <1>8, <2>2 DEF DriftSync
  <2> QED BY <1>8, <2>1, <2>2 DEF DriftSync
<1>9. ASSUME NEW p \in Peers, PeerDown(p) \/ PeerUp(p) PROVE DriftInv'
  BY <1>9 DEF PeerDown, PeerUp
<1>10. CASE UNCHANGED driftVars
  BY <1>10 DEF driftVars
<1> QED BY <1>1, <1>2, <1>3, <1>4, <1>5, <1>6, <1>7, <1>8, <1>9, <1>10 DEF DriftNext

(* After the one attempt a peer gets for a sha it has that change, unless  *)
(* the sync failed or the commit was not on origin yet.                    *)
THEOREM DriftAttemptSpentWell == DriftSpec => []AttemptSpentWell
<1>1. DriftInv => AttemptSpentWell
  BY DEF DriftInv
<1> QED BY <1>1, DriftInvInit, DriftInvStep, PTL DEF DriftSpec

-----------------------------------------------------------------------------
(* The token history.                                                      *)

Calculating == {"gather", "carry", "publish", "fail"}

TokenTypes ==
    /\ used \in [Days -> 0..MaxTokens] /\ logs \in [Days -> 0..MaxTokens]
    /\ \A d \in Days : logs[d] <= used[d]
    /\ disk \in [Days -> 0..MaxTokens] /\ memory \in [Days -> 0..MaxTokens] \cup {Unloaded}
    /\ single \subseteq Threads
    /\ calc \in [Threads -> {"idle", "begun"} \cup Calculating]
    /\ days \in [Threads -> [Days -> 0..MaxTokens]]

(* One thread calculates, over a cache that is loaded; what it is about to *)
(* publish is no less; and the file is the cache unless a save failed.     *)
CalcInv ==
    /\ \A t, u \in single : t = u
    /\ \A t \in Threads : calc[t] \in Calculating => t \in single
    /\ single # {} => memory # Unloaded
    /\ \A t \in Threads : calc[t] = "publish" => \A d \in Days : days[t][d] >= memory[d]
    /\ memory # Unloaded /\ ~unsaved => disk = memory

TokenInv == TokenTypes /\ CalcInv

LEMMA TokenInvInit == TokenInit => TokenInv
BY TokenAssumption DEF TokenInit, TokenInv, TokenTypes, CalcInv, Zero, Calculating

LEMMA TokenStep ==
    ASSUME TokenInv, [TokenNext]_tokenVars
    PROVE  /\ TokenInv'
           /\ \A d \in Days : Loaded'[d] >= Loaded[d] \/ (unsaved /\ memory' = Unloaded)
<1> USE TokenAssumption DEF TokenInv, TokenTypes, CalcInv, Calculating, Loaded, GoesOn
<1> DEFINE Grows == \A d \in Days : Loaded'[d] >= Loaded[d] \/ (unsaved /\ memory' = Unloaded)
<1>1. ASSUME NEW t \in Threads, RequestRefresh(t) PROVE TokenInv' /\ Grows
  BY <1>1 DEF RequestRefresh
<1>2. ASSUME NEW t \in Threads, TryLock(t) PROVE TokenInv' /\ Grows
  <2>1. CASE single = {}
    BY <1>2, <2>1 DEF TryLock
  <2>2. CASE single # {}
    BY <1>2, <2>2 DEF TryLock
  <2> QED BY <2>1, <2>2
<1>3. ASSUME NEW t \in Threads, Gather(t) PROVE TokenInv' /\ Grows
  <2>1. CASE days' = [days EXCEPT ![t] = logs] /\ GoesOn(t, "carry")
    BY <1>3, <2>1 DEF Gather
  <2>2. CASE GoesOn(t, "fail") /\ UNCHANGED days
    BY <1>3, <2>2 DEF Gather
  <2> QED BY <1>3, <2>1, <2>2 DEF Gather
<1>4. ASSUME NEW t \in Threads, CarryForward(t) PROVE TokenInv' /\ Grows
  BY <1>4 DEF CarryForward, Carried
<1>5. ASSUME NEW t \in Threads, PublishDays(t) PROVE TokenInv' /\ Grows
  BY <1>5 DEF PublishDays, Save, Released, Zero
<1>6. ASSUME NEW t \in Threads, RecordFailure(t) PROVE TokenInv' /\ Grows
  BY <1>6 DEF RecordFailure, Save, Released, Zero
<1>7. CASE GetHistory
  BY <1>7 DEF GetHistory
<1>8. ASSUME NEW d \in Days, AgentWorks(d) \/ Pruned(d) PROVE TokenInv' /\ Grows
  <2>1. CASE AgentWorks(d)
    BY <2>1 DEF AgentWorks
  <2>2. CASE Pruned(d)
    BY <2>2 DEF Pruned
  <2> QED BY <1>8, <2>1, <2>2
<1>9. CASE HubRestarts
  BY <1>9 DEF HubRestarts, Zero
<1>10. CASE UNCHANGED tokenVars
  BY <1>10 DEF tokenVars
<1> QED BY <1>1, <1>2, <1>3, <1>4, <1>5, <1>6, <1>7, <1>8, <1>9, <1>10 DEF TokenNext

(* What is served for a day never goes down, whatever is pruned, asked for *)
(* twice or restarted, unless the last save had failed.                    *)
THEOREM TokenHistoryNeverShrinks == TokenSpec => HistoryNeverShrinks
<1> DEFINE Grows == \A d \in Days : Loaded'[d] >= Loaded[d] \/ (unsaved /\ memory' = Unloaded)
<1>1. TokenInv /\ [TokenNext]_tokenVars => TokenInv'
  BY TokenStep
<1>2. TokenInv /\ [TokenNext]_tokenVars => [Grows]_tokenVars
  BY TokenStep
<1> QED BY <1>1, <1>2, TokenInvInit, PTL DEF TokenSpec, HistoryNeverShrinks

-----------------------------------------------------------------------------
(* The runner verbs.                                                       *)

(* A stop about to be carried out asked GitHub when no job ran, or was     *)
(* answered that it has lost touch with the runner or does not list it.    *)
AskedInv ==
    /\ jobs \in Nat
    /\ asked \in [Verbs -> [jobs : Nat, answer : Answers]]
    /\ turn \in [Verbs -> {"new", "service", "github", "command", "converge", "done"}]
    /\ verb \in [Verbs -> {"none", "start", "stop", "install"}]
    /\ \A r \in Verbs : turn[r] = "command" /\ verb[r] = "stop" =>
          /\ asked[r].jobs <= jobs
          /\ job => asked[r].jobs < jobs \/ asked[r].answer \in {"offline", "not_registered"}

RunnerInv == AskedInv /\ StopSparesTheJob

LEMMA RunnerInvInit == RunnerInit => RunnerInv
BY DEF RunnerInit, RunnerInv, AskedInv, StopSparesTheJob, Unasked, Answers

LEMMA RunnerInvStep == RunnerInv /\ [RunnerNext]_runnerVars => RunnerInv'
<1> SUFFICES ASSUME RunnerInv, [RunnerNext]_runnerVars PROVE RunnerInv'
  OBVIOUS
<1> USE RunnerAssumption DEF RunnerInv, AskedInv, StopSparesTheJob, Turns, Answers, Unasked
<1>1. ASSUME NEW r \in Verbs, NEW what \in {"start", "stop", "install"}, BeginVerb(r, what)
      PROVE  RunnerInv'
  BY <1>1 DEF BeginVerb
<1>2. ASSUME NEW r \in Verbs, ReadService(r) PROVE RunnerInv'
  BY <1>2 DEF ReadService
<1>3. ASSUME NEW r \in Verbs, ReadGitHub(r) PROVE RunnerInv'
  BY <1>3 DEF ReadGitHub, GhCached, Allowed, Listing
<1>4. ASSUME NEW r \in Verbs, Command(r) PROVE RunnerInv'
  BY <1>4 DEF Command, Effect, HalfInstalled
<1>5. ASSUME NEW r \in Verbs, Converge(r) PROVE RunnerInv'
  BY <1>5 DEF Converge
<1>6. CASE PollStatus \/ CacheExpires
  <2>1. UNCHANGED <<job, jobs, verb, turn, asked, cut>>
    BY <1>6 DEF PollStatus, CacheExpires
  <2> QED BY <2>1
<1>7. CASE JobStarts
  BY <1>7 DEF JobStarts
<1>8. CASE JobEnds \/ ServiceDies \/ ServiceReturns
  BY <1>8 DEF JobEnds, ServiceDies, ServiceReturns
<1>9. CASE UNCHANGED runnerVars
  BY <1>9 DEF runnerVars
<1> QED BY <1>1, <1>2, <1>3, <1>4, <1>5, <1>6, <1>7, <1>8, <1>9 DEF RunnerNext

(* A stop cuts off only a job that started after that stop asked GitHub,   *)
(* or one on a runner that GitHub then showed offline or did not list.     *)
THEOREM RunnerStopSparesTheJob == RunnerSpec => []StopSparesTheJob
<1>1. RunnerInv => StopSparesTheJob
  BY DEF RunnerInv
<1> QED BY <1>1, RunnerInvInit, RunnerInvStep, PTL DEF RunnerSpec

-----------------------------------------------------------------------------
(* The image backend.                                                      *)

Posted == {"polling", "stopping", "stopped", "unstopped", "wedged"}

(* A generation a client was told of is not on the port and never will be; *)
(* a prompt was posted to one its request had not been told of.            *)
VictimTypes ==
    /\ spawned \in Nat /\ backend \in Nat /\ backend <= spawned
    /\ told \in SUBSET Nat /\ since \in [Images -> SUBSET Nat]
    /\ image \in [Images -> [at : {"new", "ready", "failed", "answered"} \cup Posted, on : Nat]]
VictimInv ==
    /\ VictimTypes
    /\ \A g \in told : 0 < g /\ g <= spawned /\ g # backend
    /\ \A r \in Images : since[r] \subseteq told
    /\ \A r \in Images : image[r].at \in Posted =>
          0 < image[r].on /\ image[r].on <= spawned /\ image[r].on \notin since[r]
    /\ \A r \in Images : image[r].at = "stopped" => image[r].on # backend

LEMMA VictimInvInit == ImageInit => VictimInv
BY DEF ImageInit, VictimInv, VictimTypes, Posted

LEMMA VictimInvStep == VictimInv /\ [ImageNext]_imageVars => VictimInv'
<1> SUFFICES ASSUME VictimInv, [ImageNext]_imageVars PROVE VictimInv'
  OBVIOUS
<1> USE ImageAssumption DEF VictimInv, VictimTypes, Posted, Moves
<1>1. ASSUME NEW r \in Images, EnsureReady(r) PROVE VictimInv'
  BY <1>1 DEF EnsureReady
<1>2. ASSUME NEW r \in Images, PostPrompt(r) PROVE VictimInv'
  BY <1>2 DEF PostPrompt
<1>3. ASSUME NEW r \in Images, Finished(r) PROVE VictimInv'
  BY <1>3 DEF Finished
<1>4. ASSUME NEW r \in Images, SeesWedge(r) PROVE VictimInv'
  BY <1>4 DEF SeesWedge
<1>5. ASSUME NEW r \in Images, TimesOutPolling(r) PROVE VictimInv'
  BY <1>5 DEF TimesOutPolling
<1>6. ASSUME NEW r \in Images, StopWedged(r) PROVE VictimInv'
  BY <1>6 DEF StopWedged
<1>7. ASSUME NEW r \in Images, ReplyWedged(r) PROVE VictimInv'
  BY <1>7 DEF ReplyWedged
<1>8. CASE ContextDies
  BY <1>8 DEF ContextDies
<1>9. CASE BackendGoes
  BY <1>9 DEF BackendGoes
<1>10. CASE UNCHANGED imageVars
  BY <1>10 DEF imageVars
<1> QED BY <1>1, <1>2, <1>3, <1>4, <1>5, <1>6, <1>7, <1>8, <1>9, <1>10 DEF ImageNext

(* Once a client was told that a wedged process was stopped, that process  *)
(* fails no request that begins later.                                     *)
THEOREM ImagesNoSecondVictim == ImageSpec => []NoSecondVictim
<1>1. VictimInv => NoSecondVictim
  BY DEF VictimInv, Posted, NoSecondVictim
<1> QED BY <1>1, VictimInvInit, VictimInvStep, PTL DEF ImageSpec
-----------------------------------------------------------------------------
(* The polled snapshot: a poll sees the writes marked before it, and the   *)
(* snapshot is rebuilt by one build at a time.                             *)

(* Sequence numbers never run ahead of the changes they stand for. *)
Numbered ==
    /\ seq <= visible /\ stored.seq <= seq
    /\ \A b \in Builds : build[b].seq <= seq

(* A running build of the current number is the one in flight. *)
CurrentIsInFlight ==
    \A b \in Builds : build[b].running /\ build[b].seq = seq => inflight = b

(* What was built for the current number has seen every marked change. *)
BuiltSeesMarked ==
    /\ stored.seq = seq /\ stored.body # Nothing => stored.body >= visible
    /\ \A b \in Builds :
          build[b].running /\ build[b].seq = seq /\ build[b].body # Nothing =>
              build[b].body >= visible

(* A reader awaits a running build that has not probed before it came. *)
AwaitsGoodBuild ==
    \A r \in Readers :
        /\ reader[r].since <= visible
        /\ reader[r].awaits # NoBuild =>
              /\ build[reader[r].awaits].running
              /\ build[reader[r].awaits].body # Nothing =>
                    build[reader[r].awaits].body >= reader[r].since

SnapshotInv ==
    /\ SnapshotTypeOK /\ Numbered /\ CurrentIsInFlight
    /\ BuiltSeesMarked /\ AwaitsGoodBuild /\ SeesItsWrites /\ OneBuildAtATime

(* All that matters of Nothing is that no count of writes is it. *)
LEMMA NothingFacts == Nothing \in Int /\ Nothing < 0
BY DEF Nothing

USE SnapshotAssumption, NothingFacts

LEMMA SnapshotInvInit == SnapshotInit => SnapshotInv
BY DEF SnapshotInit, SnapshotInv, SnapshotTypeOK, Numbered, CurrentIsInFlight, BuiltSeesMarked,
       AwaitsGoodBuild, SeesItsWrites, OneBuildAtATime, Idle

(* A refresh keeps the builds in order, and the one it shares or starts    *)
(* has seen whatever is marked.                                            *)
LEMMA RefreshKeeps ==
    ASSUME SnapshotInv, NEW b \in Builds, Refresh(b)
    PROVE  /\ inflight' \in Builds \cup {NoBuild}
           /\ build' \in [Builds -> [running : BOOLEAN, seq : 0..MaxWrites,
                                     body : Nothing..MaxWrites]]
           /\ \A c \in Builds : build'[c].seq <= seq
           /\ \A c \in Builds : build'[c].running /\ build'[c].seq = seq => inflight' = c
           /\ \A c \in Builds : build'[c].running /\ build'[c].seq = seq /\ build'[c].body # Nothing
                                   => build'[c].body >= visible
           /\ \A c, d \in Builds : build'[c].running /\ build'[d].running
                                     /\ build'[c].seq = build'[d].seq => c = d
           /\ \A c \in Builds : build[c].running => build'[c] = build[c]
           /\ build'[b].running /\ build'[b].seq = seq
<1>1. CASE \E c \in Builds : Shared(c)
  BY <1>1 DEF Refresh, Shared, SnapshotInv, SnapshotTypeOK, Numbered, CurrentIsInFlight,
              BuiltSeesMarked, OneBuildAtATime
<1>2. CASE ~ \E c \in Builds : Shared(c)
  <2>1. /\ ~build[b].running /\ inflight' = b
        /\ build' = [build EXCEPT ![b] = [running |-> TRUE, seq |-> seq, body |-> Nothing]]
    BY <1>2 DEF Refresh
  <2>2. \A c \in Builds : ~(build[c].running /\ build[c].seq = seq)
    BY <1>2 DEF Shared, SnapshotInv, CurrentIsInFlight
  <2> QED
    BY <2>1, <2>2 DEF SnapshotInv, SnapshotTypeOK, Numbered, BuiltSeesMarked, OneBuildAtATime
<1> QED BY <1>1, <1>2

(* A build that ends is stored only for the current number, and answers    *)
(* those who wait for it.                                                  *)
LEMMA BuildEndsKeeps ==
    ASSUME SnapshotInv, NEW b \in Builds, BuildEnds(b)
    PROVE  SnapshotInv'
<1> DEFINE BuildType == [running : BOOLEAN, seq : 0..MaxWrites, body : Nothing..MaxWrites]
           ReaderType == [awaits : Builds \cup {NoBuild}, since : 0..MaxWrites,
                          got : Nothing..MaxWrites]
<1>1. /\ build \in [Builds -> BuildType] /\ reader \in [Readers -> ReaderType]
      /\ writes \in Nat /\ visible \in Nat /\ seq \in 0..MaxWrites /\ NoBuild \notin Builds
  BY DEF SnapshotInv, SnapshotTypeOK
<1>2. /\ build[b].running /\ build[b].body # Nothing
      /\ build[b].body \in Nothing..MaxWrites /\ build[b].body \in Int
  BY <1>1 DEF BuildEnds
<1>3. /\ stored' = IF build[b].seq = seq
                   THEN [seq |-> seq, body |-> build[b].body, age |-> "fresh"] ELSE stored
      /\ UNCHANGED <<writes, visible, seq, inflight>>
  BY DEF BuildEnds
<1>4. /\ build' \in [Builds -> BuildType]
      /\ \A c \in Builds : build'[c] = IF c = b THEN Idle ELSE build[c]
  BY <1>1 DEF BuildEnds, Idle
<1>5. ASSUME NEW r \in Readers
      PROVE  /\ reader'[r] \in ReaderType
             /\ reader'[r].since = reader[r].since
             /\ reader'[r].awaits # NoBuild =>
                   reader'[r].awaits = reader[r].awaits /\ reader[r].awaits # b
             /\ \/ reader'[r].got = reader[r].got
                \/ reader[r].awaits = b /\ reader'[r].got = build[b].body
  <2>1. reader[r] \in ReaderType
    BY <1>1
  <2>2. CASE reader[r].awaits = b
    BY <1>2, <2>1, <2>2 DEF BuildEnds
  <2>3. CASE reader[r].awaits # b
    BY <2>1, <2>3 DEF BuildEnds
  <2> QED BY <2>2, <2>3
<1>6. /\ stored' \in [seq : 0..MaxWrites, body : Nothing..MaxWrites, age : {"fresh", "due", "old"}]
      /\ stored'.seq <= seq
      /\ stored'.seq = seq /\ stored'.body # Nothing => stored'.body >= visible
  BY <1>1, <1>2, <1>3 DEF SnapshotInv, SnapshotTypeOK, Numbered, BuiltSeesMarked
<1>7. SnapshotTypeOK'
  <2>1. reader' \in [Readers -> ReaderType]
    BY <1>5 DEF BuildEnds
  <2> QED BY <1>3, <1>4, <1>6, <2>1 DEF SnapshotInv, SnapshotTypeOK
<1>8. Numbered' /\ CurrentIsInFlight' /\ OneBuildAtATime'
  <2>1. Numbered'
    BY <1>1, <1>3, <1>4, <1>6 DEF Idle, SnapshotInv, Numbered
  <2>2. CurrentIsInFlight'
    BY <1>3, <1>4 DEF Idle, SnapshotInv, CurrentIsInFlight
  <2>3. OneBuildAtATime'
    BY <1>3, <1>4 DEF Idle, SnapshotInv, OneBuildAtATime
  <2> QED BY <2>1, <2>2, <2>3
<1>9. BuiltSeesMarked'
  BY <1>3, <1>4, <1>6 DEF Idle, SnapshotInv, BuiltSeesMarked
<1>10. AwaitsGoodBuild'
  <2> SUFFICES ASSUME NEW r \in Readers
               PROVE  /\ reader'[r].since <= visible
                      /\ reader'[r].awaits # NoBuild =>
                            /\ build'[reader'[r].awaits].running
                            /\ build'[reader'[r].awaits].body # Nothing =>
                                  build'[reader'[r].awaits].body >= reader'[r].since
    BY <1>3 DEF AwaitsGoodBuild
  <2>1. reader'[r].awaits \in Builds \cup {NoBuild}
    BY <1>5
  <2> QED BY <1>4, <1>5, <2>1 DEF SnapshotInv, AwaitsGoodBuild
<1>11. SeesItsWrites'
  BY <1>1, <1>2, <1>5 DEF SnapshotInv, SeesItsWrites, AwaitsGoodBuild
<1> QED BY <1>7, <1>8, <1>9, <1>10, <1>11 DEF SnapshotInv

LEMMA SnapshotInvStep == SnapshotInv /\ [SnapshotNext]_snapshotVars => SnapshotInv'
<1> SUFFICES ASSUME SnapshotInv, [SnapshotNext]_snapshotVars PROVE SnapshotInv'
  OBVIOUS
<1> USE DEF SnapshotInv, SnapshotTypeOK, Numbered, CurrentIsInFlight, BuiltSeesMarked,
            AwaitsGoodBuild, SeesItsWrites, OneBuildAtATime
<1>1. CASE ControlWrites
  BY <1>1 DEF ControlWrites
<1>2. CASE MarkDirty
  BY <1>2 DEF MarkDirty
<1>3. CASE Age
  BY <1>3 DEF Age
<1>4. ASSUME NEW r \in Readers, GetStored(r) PROVE SnapshotInv'
  <2>1. CASE stored.age = "due"
    <3> PICK b \in Builds : Refresh(b) BY <1>4, <2>1 DEF GetStored
    <3> QED BY <1>4, RefreshKeeps DEF GetStored, Current
  <2>2. CASE stored.age # "due"
    BY <1>4, <2>2 DEF GetStored, Current
  <2> QED BY <2>1, <2>2
<1>5. ASSUME NEW r \in Readers, GetInline(r) PROVE SnapshotInv'
  <2> PICK b \in Builds : /\ Refresh(b)
                          /\ reader' = [reader EXCEPT ![r] =
                                [awaits |-> b, since |-> visible, got |-> Nothing]]
    BY <1>5 DEF GetInline
  <2> QED BY <1>5, RefreshKeeps DEF GetInline
<1>6. ASSUME NEW b \in Builds, Probe(b) PROVE SnapshotInv'
  BY <1>6 DEF Probe
<1>7. ASSUME NEW b \in Builds, BuildEnds(b) PROVE SnapshotInv'
  BY <1>7, BuildEndsKeeps
<1>8. ASSUME NEW b \in Builds, BuildFails(b) PROVE SnapshotInv'
  BY <1>8 DEF BuildFails, Idle
<1>9. CASE UNCHANGED snapshotVars
  BY <1>9 DEF snapshotVars
<1> QED BY <1>1, <1>2, <1>3, <1>4, <1>5, <1>6, <1>7, <1>8, <1>9 DEF SnapshotNext

LEMMA SnapshotInvariant == SnapshotSpec => []SnapshotInv
BY SnapshotInvInit, SnapshotInvStep, PTL DEF SnapshotSpec

(* The snapshot's state keeps its types, for any number of readers. *)
THEOREM SnapshotTypeCorrect == SnapshotSpec => []SnapshotTypeOK
BY SnapshotInvariant, PTL DEF SnapshotInv

(* A poll that begins after a control marked its change never shows the    *)
(* services as they were before it.                                        *)
THEOREM SnapshotSeesItsWrites == SnapshotSpec => []SeesItsWrites
BY SnapshotInvariant, PTL DEF SnapshotInv

(* One rebuild runs for one state of the controls. *)
THEOREM SnapshotOneBuildAtATime == SnapshotSpec => []OneBuildAtATime
BY SnapshotInvariant, PTL DEF SnapshotInv

-----------------------------------------------------------------------------
(* The speech worker. A deadline that passes on an empty queue leaves a    *)
(* line of its own to come, and the next request takes it: AnswerIsOwn is  *)
(* refuted by TLC. That is the only way it can break. While no deadline    *)
(* passes, the pipes hold at most the business of the request that has the *)
(* lock: its path, or its line, or the end of the queue of a dead worker.  *)

PatientSpec ==
    ParakeetInit /\ [][ParakeetNext /\ ~\E r \in Uploads : TimesOutWaiting(r)]_parakeetVars

ParakeetFunctions ==
    /\ worker \in {"up", "down"} /\ owner \in Uploads \cup {NoUpload}
    /\ call \in [Uploads -> {"new", "convert", "wait", "200", "400", "500", "504"}]
    /\ text \in [Uploads -> Uploads \cup {NoUpload}]

LockHeld == \A r \in Uploads : call[r] \in {"convert", "wait"} <=> r = owner

Waits == owner # NoUpload /\ call[owner] = "wait"
OwnLines == {Line(owner, ok) : ok \in BOOLEAN}

InThePipes ==
    IF worker = "up"
    THEN \/ ~Waits /\ input = <<>> /\ output = <<>>
         \/ Waits /\ input = <<owner>> /\ output = <<>>
         \/ Waits /\ input = <<>> /\ \E line \in OwnLines : output = <<line>>
    ELSE /\ input = <<>>
         /\ Waits => \/ output = <<Eof>>
                     \/ \E line \in OwnLines : output = <<line, Eof>>

ParakeetInv == ParakeetFunctions /\ LockHeld /\ InThePipes /\ AnswerIsOwn

(* A tuple of one is extended to a pair.                                   *)
LEMMA AppendPair ==
    ASSUME NEW a, NEW b
    PROVE  Append(<<a>>, b) = <<a, b>>
<1>1. <<a>> \in Seq({a, b}) /\ <<a, b>> \in Seq({a, b})
  OBVIOUS
<1>2. Append(<<a>>, b) \in Seq({a, b}) /\ Len(Append(<<a>>, b)) = 2 /\ Len(<<a, b>>) = 2
  BY <1>1
<1>3. \A i \in 1..2 : Append(<<a>>, b)[i] = <<a, b>>[i]
  BY <1>1
<1> QED BY <1>1, <1>2, <1>3, SeqEqual

LEMMA ParakeetInvInit == NoUpload \notin Uploads /\ ParakeetInit => ParakeetInv
BY DEF ParakeetInit, ParakeetInv, ParakeetFunctions, LockHeld, InThePipes, Waits, AnswerIsOwn

LEMMA ParakeetInvStep ==
    ASSUME NoUpload \notin Uploads, ParakeetInv,
           [ParakeetNext /\ ~\E r \in Uploads : TimesOutWaiting(r)]_parakeetVars
    PROVE  ParakeetInv'
<1> USE DEF ParakeetInv, ParakeetFunctions, LockHeld, InThePipes, Waits, OwnLines, AnswerIsOwn
<1>1. ASSUME NEW r \in Uploads, TakeLock(r) PROVE ParakeetInv'
  <2>1. ~Waits /\ call[r] = "new" /\ text' = text
    BY <1>1 DEF TakeLock
  <2>2. CASE owner' = r /\ call' = [call EXCEPT ![r] = "convert"] /\ worker' = "up"
    <3>1. input' = <<>> /\ output' = <<>> /\ owner = NoUpload
      BY <1>1, <2>1, <2>2 DEF TakeLock
    <3> QED BY <2>1, <2>2, <3>1
  <2>3. CASE worker = "down" /\ Answer(r, "500") /\ UNCHANGED <<worker, input, output, restarts>>
    BY <1>1, <2>1, <2>3 DEF TakeLock, Answer
  <2> QED BY <1>1, <2>2, <2>3 DEF TakeLock
<1>2. ASSUME NEW r \in Uploads, Convert(r) PROVE ParakeetInv'
  <2>1. /\ call[r] = "convert" /\ owner = r /\ ~Waits
        /\ UNCHANGED <<worker, output, text>>
    BY <1>2 DEF Convert
  <2>2. ASSUME NEW how \in {"400", "500", "504"}, Answer(r, how), input' = input PROVE ParakeetInv'
    BY <2>1, <2>2 DEF Answer
  <2>3. CASE /\ worker = "up" /\ input' = Append(input, r)
             /\ call' = [call EXCEPT ![r] = "wait"] /\ owner' = owner
    <3>1. input' = <<r>> /\ output' = <<>>
      BY <2>1, <2>3
    <3> QED BY <2>1, <2>3, <3>1
  <2> QED BY <1>2, <2>2, <2>3 DEF Convert
<1>3. ASSUME NEW r \in Uploads, TakeReply(r) PROVE ParakeetInv'
  <2>1. /\ call[r] = "wait" /\ owner = r /\ Waits /\ output # <<>>
        /\ output' = Tail(output) /\ UNCHANGED <<worker, input>>
    BY <1>3 DEF TakeReply
  <2>2. /\ input = <<>> /\ worker = "up" => output' = <<>>
        /\ Head(output) \in OwnLines \cup {Eof}
    <3>1. CASE worker = "up"
      <4>1. input = <<>>
        BY <2>1, <3>1
      <4>2. PICK line \in OwnLines : output = <<line>>
        BY <2>1, <3>1
      <4> QED BY <2>1, <4>1, <4>2
    <3>2. CASE worker = "down"
      BY <2>1, <3>2
    <3> QED BY <3>1, <3>2
  <2>3. owner' = NoUpload /\ ~Waits'
    BY <1>3 DEF TakeReply, Answer
  <2>4. InThePipes'
    BY <2>1, <2>2, <2>3
  <2>5. CASE Head(output).ok
    <3>1. Head(output).of = r
      BY <2>1, <2>2, <2>5 DEF Line, Eof
    <3>2. Answer(r, "200") /\ text' = [text EXCEPT ![r] = r]
      BY <1>3, <2>5, <3>1 DEF TakeReply
    <3> QED BY <2>1, <2>4, <3>2 DEF Answer
  <2>6. CASE ~Head(output).ok
    <3>1. Answer(r, "500") /\ text' = text
      BY <1>3, <2>6 DEF TakeReply
    <3> QED BY <2>1, <2>4, <3>1 DEF Answer
  <2> QED BY <2>5, <2>6
<1>4. CASE WorkerEmits
  <2>1. /\ worker = "up" /\ worker' = "up" /\ input # <<>> /\ input' = Tail(input)
        /\ UNCHANGED <<owner, call, text>>
    BY <1>4 DEF WorkerEmits
  <2>2. Waits /\ input = <<owner>> /\ output = <<>>
    BY <2>1
  <2>3. PICK ok \in BOOLEAN : output' = Append(output, Line(owner, ok))
    BY <1>4, <2>2 DEF WorkerEmits
  <2>4. input' = <<>> /\ output' = <<Line(owner, ok)>>
    BY <2>1, <2>2, <2>3
  <2> QED BY <2>1, <2>2, <2>4
<1>5. CASE WorkerDies
  <2>1. /\ worker = "up" /\ worker' = "down" /\ input' = <<>>
        /\ output' = Append(output, Eof) /\ UNCHANGED <<owner, call, text>>
    BY <1>5 DEF WorkerDies
  <2>2. ASSUME Waits
        PROVE  output' = <<Eof>> \/ \E line \in OwnLines : output' = <<line, Eof>>
    <3>1. output = <<>> \/ \E line \in OwnLines : output = <<line>>
      BY <2>1, <2>2
    <3>2. CASE output = <<>>
      BY <2>1, <3>2
    <3>3. ASSUME NEW line \in OwnLines, output = <<line>> PROVE output' = <<line, Eof>>
      BY <2>1, <3>3, AppendPair
    <3> QED BY <3>1, <3>2, <3>3
  <2> QED BY <2>1, <2>2
<1>6. CASE UNCHANGED parakeetVars
  BY <1>6 DEF parakeetVars, Line
<1> QED
  BY <1>1, <1>2, <1>3, <1>4, <1>5, <1>6 DEF ParakeetNext

(* Requests are answered with the transcript of their own upload as long   *)
(* as none of them gives up waiting, through any number of failed          *)
(* conversions, dead workers and restarts.                                 *)
THEOREM PatientAnswersAreOwn ==
    ASSUME NoUpload \notin Uploads
    PROVE  PatientSpec => []AnswerIsOwn
<1>1. ParakeetInit => ParakeetInv
  BY ParakeetInvInit
<1>2. ParakeetInv /\ [ParakeetNext /\ ~\E r \in Uploads : TimesOutWaiting(r)]_parakeetVars
      => ParakeetInv'
  BY ParakeetInvStep
<1>3. ParakeetInv => AnswerIsOwn
  BY DEF ParakeetInv
<1> QED BY <1>1, <1>2, <1>3, PTL DEF PatientSpec

-----------------------------------------------------------------------------
(* The dial routes. A stale route is refreshed by one thread per peer; its *)
(* mark is set by whoever starts it and cleared by the thread. A mark that *)
(* outlived its thread would pin the route for good, and one cleared early *)
(* would let a second thread in.                                           *)

Probes == [address : {Unknown, Lan, Tailnet}, pass : 0..2, locates : BOOLEAN]

MarkMeansRefresh == refreshing <=> probe[Background] # NoProbe

DialInv ==
    /\ refreshing \in BOOLEAN
    /\ probe \in [Callers \cup {Background} -> Probes]
    /\ MarkMeansRefresh

LEMMA NoProbeIsProbe == NoProbe \in Probes
BY DEF NoProbe, Probes

LEMMA DialInvInit == DialInit => DialInv
BY NoProbeIsProbe DEF DialInit, DialInv, MarkMeansRefresh

LEMMA ProbingIsProbe ==
    ASSUME NEW locates \in BOOLEAN
    PROVE  Probing(locates) \in Probes /\ Probing(locates) # NoProbe
<1>1. Probing(locates) \in Probes
  BY DEF Probing, Probes, Lan
<1>2. Probing(locates).address # NoProbe.address
  BY DEF Probing, NoProbe, Unknown, Lan
<1> QED BY <1>1, <1>2

LEMMA DialInvStep == DialInv /\ [DialNext]_dialVars => DialInv'
<1> SUFFICES ASSUME DialInv, [DialNext]_dialVars PROVE DialInv'
  OBVIOUS
<1> USE DialAssumption DEF DialInv, MarkMeansRefresh
<1>1. ASSUME NEW c \in Callers, NEW wait \in BOOLEAN, Dial(c, wait) PROVE DialInv'
  BY <1>1, ProbingIsProbe DEF Dial, Starts
<1>2. ASSUME NEW c \in Callers, Locate(c) PROVE DialInv'
  BY <1>2, ProbingIsProbe DEF Locate, Starts
<1>3. ASSUME NEW c \in Callers \cup {Background}, NEW winner, Ends(c, winner) PROVE DialInv'
  BY NoProbeIsProbe, <1>3 DEF Ends
<1>4. ASSUME NEW c \in Callers \cup {Background}, ProbeStep(c) PROVE DialInv'
  <2> DEFINE p == probe[c]
             next == IF p.address = Lan THEN [p EXCEPT !.address = Tailnet]
                     ELSE [p EXCEPT !.address = Lan, !.pass = 2]
  <2>1. p \in Probes /\ p # NoProbe
    BY <1>4 DEF ProbeStep
  <2>2. next \in Probes /\ next # NoProbe
    <3> DEFINE q == [p EXCEPT !.address = Lan]
    <3>1. [p EXCEPT !.address = Tailnet] \in Probes /\ q \in Probes
      BY <2>1 DEF Probes
    <3>2. [q EXCEPT !.pass = 2] = [p EXCEPT !.address = Lan, !.pass = 2]
      BY <2>1 DEF Probes
    <3>3. next.address # NoProbe.address
      BY <2>1 DEF Probes, NoProbe, Unknown, Lan, Tailnet
    <3>4. \A r \in Probes : [r EXCEPT !.pass = 2] \in Probes
      BY DEF Probes
    <3> HIDE DEF q
    <3>5. next \in Probes
      BY <3>1, <3>2, <3>4
    <3> HIDE DEF next
    <3> QED BY <3>3, <3>5
  <2>3. CASE probe' = [probe EXCEPT ![c] = next] /\ UNCHANGED refreshing
    <3> HIDE DEF next
    <3> QED BY <2>1, <2>2, <2>3
  <2> QED BY <1>3, <1>4, <2>3 DEF ProbeStep
<1>5. ASSUME NEW c \in Callers \cup {Background}, ProbeRaises(c) PROVE DialInv'
  BY NoProbeIsProbe, <1>5 DEF ProbeRaises
<1>6. CASE UNCHANGED <<probe, refreshing>>
  BY <1>6
<1> QED
  BY <1>1, <1>2, <1>4, <1>5, <1>6
  DEF DialNext, RouteExpires, LivenessExpires, NetworkChanges, dialVars

(* The peer is in _refresh_inflight exactly while the refresh thread runs, *)
(* whether its probes answer, time out or raise: the mark is never left    *)
(* behind and never cleared early.                                         *)
THEOREM DialMarkMeansRefresh == DialSpec => []MarkMeansRefresh
<1>1. DialInv => MarkMeansRefresh
  BY DEF DialInv
<1> QED BY DialInvInit, DialInvStep, <1>1, PTL DEF DialSpec
=============================================================================
