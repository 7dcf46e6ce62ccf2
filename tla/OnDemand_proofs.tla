---------------------------- MODULE OnDemand_proofs ----------------------------
(***************************************************************************)
(* What the on-demand lifecycle guarantees for any number of requests and  *)
(* processes, any idle window and any deadline below it: types, one        *)
(* process at a time, and no unload in the middle of a load.               *)
(***************************************************************************)
EXTENDS OnDemand, FiniteSetTheorems, TLAPS

USE RequestAssumption, PidAssumption, TimeAssumption, BoundAssumption

LEMMA NeverFacts == Never \in Int /\ Never < 0
BY DEF Never

USE NeverFacts

PcStates == {"idle", "lock", "spawn", "poll", "track", "handed", "serving", "done", "dropped"}
CallStates == {"idle", "checked", "spawn", "stop", "wait", "clear"}

(* The requests the in-flight count stands for, the dropped ones included. *)
Counted == {r \in Requests : pc[r] \in {"handed", "serving", "dropped"}}

-----------------------------------------------------------------------------
(* The in-flight count.                                                    *)

CountInv == pc \in [Requests -> PcStates] /\ inflight = Cardinality(Counted)

LEMMA CountedFinite == IsFiniteSet(Counted) /\ Cardinality(Counted) <= Cardinality(Requests)
<1>1. Counted \subseteq Requests
  BY DEF Counted
<1> QED BY <1>1, FS_Subset

(* A request that comes or goes counts for one. *)
LEMMA CountedOneMore ==
    ASSUME NEW r \in Requests, pc \in [Requests -> PcStates],
           pc[r] \notin {"handed", "serving", "dropped"},
           NEW to \in {"handed", "serving"}, pc' = [pc EXCEPT ![r] = to]
    PROVE  Cardinality(Counted') = Cardinality(Counted) + 1
<1>1. Counted' = Counted \cup {r} /\ r \notin Counted
  BY DEF Counted
<1> QED BY <1>1, CountedFinite, FS_AddElement

LEMMA CountedOneLess ==
    ASSUME NEW r \in Requests, pc \in [Requests -> PcStates],
           pc[r] = "serving", pc' = [pc EXCEPT ![r] = "done"]
    PROVE  Cardinality(Counted) = Cardinality(Counted') + 1
<1>1. Counted' = Counted \ {r} /\ r \in Counted
  BY DEF Counted
<1>2. Cardinality(Counted') = Cardinality(Counted) - 1
  BY <1>1, CountedFinite, FS_RemoveElement
<1>3. Cardinality(Counted) \in Nat
  BY CountedFinite, FS_CardinalityType
<1> QED BY <1>2, <1>3

LEMMA CountedSame ==
    ASSUME NEW r \in Requests, pc \in [Requests -> PcStates],
           NEW from, NEW to, pc[r] = from, pc' = [pc EXCEPT ![r] = to],
           from \in {"handed", "serving", "dropped"} <=> to \in {"handed", "serving", "dropped"}
    PROVE  Counted' = Counted
BY DEF Counted

LEMMA CountInvInit == Init => CountInv
<1> SUFFICES ASSUME Init PROVE CountInv
  OBVIOUS
<1>1. Counted = {}
  BY DEF Init, Counted
<1> QED BY <1>1, FS_EmptySet DEF Init, CountInv, PcStates

LEMMA CountInvStep == CountInv /\ [Next]_vars => CountInv'
<1> SUFFICES ASSUME CountInv, [Next]_vars PROVE CountInv'
  OBVIOUS
<1> USE DEF CountInv
<1>1. ASSUME NEW r \in Requests, Arrive(r) \/ Acquire(r) \/ StartSpawn(r) \/ Poll(r)
                                   \/ FirstChunk(r) \/ EarlyDisconnect(r)
      PROVE  CountInv'
  <2>1. /\ inflight' = inflight /\ pc' \in [Requests -> PcStates]
        /\ \E from, to \in PcStates :
              /\ pc[r] = from /\ pc' = [pc EXCEPT ![r] = to]
              /\ from \in {"handed", "serving", "dropped"} <=> to \in {"handed", "serving", "dropped"}
    BY <1>1 DEF Arrive, Acquire, StartSpawn, Poll, FirstChunk, EarlyDisconnect, Goto,
                trackVars, PcStates
  <2> QED BY <2>1, CountedSame
<1>2. ASSUME NEW r \in Requests, RequestStarted(r) PROVE CountInv'
  <2>1. /\ inflight' = inflight + 1 /\ pc' \in [Requests -> PcStates] /\ pc[r] = "track"
        /\ \E to \in {"handed", "serving"} : pc' = [pc EXCEPT ![r] = to]
    BY <1>2 DEF RequestStarted, Goto, PcStates
  <2> QED BY <2>1, CountedOneMore
<1>3. ASSUME NEW r \in Requests, RequestFinished(r) PROVE CountInv'
  <2>1. /\ pc[r] = "serving" /\ pc' = [pc EXCEPT ![r] = "done"]
        /\ pc' \in [Requests -> PcStates]
        /\ inflight' = IF inflight > 0 THEN inflight - 1 ELSE 0
    BY <1>3 DEF RequestFinished, Goto, PcStates
  <2>2. Cardinality(Counted) = Cardinality(Counted') + 1 /\ Cardinality(Counted') \in Nat
    <3>1. IsFiniteSet(Counted')
      <4>1. Counted' \subseteq Requests
        BY DEF Counted
      <4> QED BY <4>1, FS_Subset
    <3> QED BY <2>1, <3>1, CountedOneLess, FS_CardinalityType
  <2> QED BY <2>1, <2>2
<1>4. CASE Restart
  <2>1. pc' \in [Requests -> PcStates] /\ Counted' = {} /\ inflight' = 0
    BY <1>4 DEF Restart, Counted, PcStates
  <2> QED BY <2>1, FS_EmptySet
<1>5. ASSUME UNCHANGED <<pc, inflight>> PROVE CountInv'
  BY <1>5 DEF Counted
<1>6. ASSUME NEW c \in Callers, Stop(c) PROVE UNCHANGED <<pc, inflight>>
  BY <1>6 DEF Stop, StopInherited, StopNotRunning, StopChild, StopWait, StopClear, trackVars
<1>7. SweepCheck \/ SweepDecide \/ OperatorSpawn \/ OperatorStart \/ OperatorStop \/ Tick
        => UNCHANGED <<pc, inflight>>
  BY DEF SweepCheck, SweepDecide, OperatorSpawn, OperatorStart, OperatorStop, Tick, trackVars
<1>8. ASSUME NEW p \in Pids, Loaded(p) \/ Exits(p) PROVE UNCHANGED <<pc, inflight>>
  BY <1>8 DEF Loaded, Exits, trackVars
<1>9. UNCHANGED vars => UNCHANGED <<pc, inflight>>
  BY DEF vars
<1> QED BY <1>1, <1>2, <1>3, <1>4, <1>5, <1>6, <1>7, <1>8, <1>9
           DEF Next, Request, Watchdog, Operator, World, Callers

-----------------------------------------------------------------------------
(* The spawn lock and the two clocks: a request loads only under the lock, *)
(* and the idle clock is no older than the load.                           *)

LoadInv ==
    /\ pc \in [Requests -> PcStates]
    /\ \A r \in Requests : pc[r] \in {"spawn", "poll"} => lock = r
    /\ waited \in 0..Deadline /\ used \in 0..Window \cup {Never}
    /\ (\E r \in Requests : pc[r] \in {"spawn", "poll"}) => used # Never /\ used <= waited

LEMMA LoadInvInit == Init => LoadInv
BY DEF Init, LoadInv, PcStates

LEMMA LoadInvStep == LoadInv /\ [Next]_vars => LoadInv'
<1> SUFFICES ASSUME LoadInv, [Next]_vars PROVE LoadInv'
  OBVIOUS
<1> USE DEF LoadInv, PcStates, Goto, lockVars, trackVars
<1>1. ASSUME NEW r \in Requests, Arrive(r) PROVE LoadInv'
  BY <1>1 DEF Arrive
<1>2. ASSUME NEW r \in Requests, Acquire(r) PROVE LoadInv'
  BY <1>2 DEF Acquire
<1>3. ASSUME NEW r \in Requests, StartSpawn(r) PROVE LoadInv'
  BY <1>3 DEF StartSpawn
<1>4. ASSUME NEW r \in Requests, Poll(r) PROVE LoadInv'
  BY <1>4 DEF Poll
<1>5. ASSUME NEW r \in Requests, RequestStarted(r) PROVE LoadInv'
  BY <1>5 DEF RequestStarted
<1>6. ASSUME NEW r \in Requests, FirstChunk(r) \/ EarlyDisconnect(r) PROVE LoadInv'
  BY <1>6 DEF FirstChunk, EarlyDisconnect
<1>7. ASSUME NEW r \in Requests, RequestFinished(r) PROVE LoadInv'
  BY <1>7 DEF RequestFinished
<1>8. CASE SweepDecide
  BY <1>8 DEF SweepDecide
<1>9. CASE Tick
  BY <1>9 DEF Tick, Loading
<1>10. CASE Restart
  BY <1>10 DEF Restart
<1>11. ASSUME UNCHANGED <<pc, lock, waited, used>> PROVE LoadInv'
  BY <1>11
<1>12. ASSUME NEW c \in Callers, Stop(c) PROVE UNCHANGED <<pc, lock, waited, used>>
  BY <1>12 DEF Stop, StopInherited, StopNotRunning, StopChild, StopWait, StopClear
<1>13. SweepCheck \/ OperatorSpawn \/ OperatorStart \/ OperatorStop
         => UNCHANGED <<pc, lock, waited, used>>
  BY DEF SweepCheck, OperatorSpawn, OperatorStart, OperatorStop
<1>14. ASSUME NEW p \in Pids, Loaded(p) \/ Exits(p) PROVE UNCHANGED <<pc, lock, waited, used>>
  BY <1>14 DEF Loaded, Exits
<1>15. UNCHANGED vars => UNCHANGED <<pc, lock, waited, used>>
  BY DEF vars
<1> QED BY <1>1, <1>2, <1>3, <1>4, <1>5, <1>6, <1>7, <1>8, <1>9, <1>10, <1>11, <1>12, <1>13,
           <1>14, <1>15 DEF Next, Request, Watchdog, Operator, World, Callers

-----------------------------------------------------------------------------
(* The process table. While no process escaped it, what is alive is one    *)
(* process of the table, and none when a request is about to spawn.        *)

TableInv ==
    ~lostTrack =>
        /\ \A p \in Pids : proc[p] # "none" => p = handle \/ p = inherited
        /\ \A p, q \in Pids : proc[p] # "none" /\ proc[q] # "none" => p = q
        /\ \A r \in Requests : pc[r] = "spawn" => \A p \in Pids : proc[p] = "none"

TrackInv == LoadInv /\ proc \in [Pids -> {"none", "loading", "ready"}] /\ TableInv

LEMMA TrackInvInit == Init => TrackInv
BY LoadInvInit DEF Init, TrackInv, TableInv

LEMMA TrackInvStep == TrackInv /\ [Next]_vars => TrackInv'
<1> SUFFICES ASSUME TrackInv, [Next]_vars, LoadInv'
             PROVE  proc' \in [Pids -> {"none", "loading", "ready"}] /\ TableInv'
  BY LoadInvStep DEF TrackInv
<1> DEFINE Goal == proc' \in [Pids -> {"none", "loading", "ready"}] /\ TableInv'
<1> USE DEF TrackInv, LoadInv, TableInv, Goto, tableVars, boundVars, callVars
<1>1. ASSUME NEW r \in Requests, Arrive(r) PROVE Goal
  BY <1>1 DEF Arrive
<1>2. ASSUME NEW r \in Requests, Acquire(r) PROVE Goal
  BY <1>2 DEF Acquire, IsRunning, IsReachable, Alive
<1>3. ASSUME NEW r \in Requests, StartSpawn(r) PROVE Goal
  <2>1. CASE Goto(r, "spawn", "poll") /\ Spawn
    BY <1>3, <2>1 DEF StartSpawn, Spawn
  <2>2. CASE Goto(r, "spawn", "done") /\ SpawnFails
    BY <1>3, <2>2 DEF StartSpawn, SpawnFails
  <2> QED BY <1>3, <2>1, <2>2 DEF StartSpawn
<1>4. ASSUME NEW r \in Requests, Poll(r) PROVE Goal
  BY <1>4 DEF Poll
<1>5. ASSUME NEW r \in Requests, RequestStarted(r) \/ FirstChunk(r) \/ EarlyDisconnect(r)
                                   \/ RequestFinished(r)
      PROVE  Goal
  BY <1>5 DEF RequestStarted, FirstChunk, EarlyDisconnect, RequestFinished
<1>6. ASSUME NEW c \in Callers, StopInherited(c) PROVE Goal
  BY <1>6 DEF StopInherited, Alive
<1>7. ASSUME NEW c \in Callers, StopNotRunning(c) PROVE Goal
  BY <1>7 DEF StopNotRunning, Alive
<1>8. ASSUME NEW c \in Callers, StopChild(c) PROVE Goal
  BY <1>8 DEF StopChild
<1>9. ASSUME NEW c \in Callers, StopWait(c) PROVE Goal
  BY <1>9 DEF StopWait
<1>10. ASSUME NEW c \in Callers, StopClear(c) PROVE Goal
  BY <1>10 DEF StopClear, Alive
<1>11. CASE SweepCheck \/ SweepDecide \/ OperatorStart \/ OperatorStop \/ Tick
  BY <1>11 DEF SweepCheck, SweepDecide, OperatorStart, OperatorStop, Tick
<1>12. CASE OperatorSpawn
  BY <1>12 DEF OperatorSpawn, Spawn, SpawnFails
<1>13. CASE Restart
  BY <1>13 DEF Restart, Alive
<1>14. ASSUME NEW p \in Pids, Loaded(p) PROVE Goal
  BY <1>14 DEF Loaded
<1>15. ASSUME NEW p \in Pids, Exits(p) PROVE Goal
  BY <1>15 DEF Exits
<1>16. CASE UNCHANGED vars
  BY <1>16 DEF vars
<1> QED BY <1>1, <1>2, <1>3, <1>4, <1>5, <1>6, <1>7, <1>8, <1>9, <1>10, <1>11, <1>12, <1>13,
           <1>14, <1>15, <1>16 DEF Next, Request, Watchdog, Operator, World, Stop, Callers

-----------------------------------------------------------------------------
(* Type correctness.                                                       *)

CallInv == call \in [Callers -> CallStates] /\ target \in [Callers -> Pids \cup {NoPid}]

TypeInv ==
    /\ CountInv /\ TrackInv /\ CallInv
    /\ handle \in Pids \cup {NoPid} /\ inherited \in Pids \cup {NoPid}
    /\ lock \in Requests \cup {NoRequest}
    /\ disruptions \in 0..MaxDisruptions /\ lostTrack \in BOOLEAN

LEMMA TypeInvInit == Init => TypeInv
<1> SUFFICES ASSUME Init PROVE TypeInv
  OBVIOUS
<1>1. CallInv
  BY DEF Init, CallInv, Callers, CallStates
<1>2. lostTrack \in BOOLEAN
  BY Zenon DEF Init
<1> QED BY <1>1, <1>2, CountInvInit, TrackInvInit DEF Init, TypeInv

LEMMA TypeInvStep == TypeInv /\ [Next]_vars => TypeInv'
<1> SUFFICES ASSUME TypeInv, [Next]_vars PROVE TypeInv'
  OBVIOUS
<1> DEFINE Rest == /\ CallInv' /\ handle' \in Pids \cup {NoPid} /\ inherited' \in Pids \cup {NoPid}
                   /\ lock' \in Requests \cup {NoRequest}
                   /\ disruptions' \in 0..MaxDisruptions
<1>1. CountInv' /\ TrackInv'
  BY CountInvStep, TrackInvStep DEF TypeInv
<1>2. Rest
  <2> USE DEF TypeInv, CallInv, Callers, CallStates, Calls, Disrupt, tableVars, lockVars,
              callVars, boundVars
  <2>1. ASSUME NEW r \in Requests, Arrive(r) \/ Acquire(r) \/ Poll(r) \/ RequestStarted(r)
                 \/ FirstChunk(r) \/ EarlyDisconnect(r) \/ RequestFinished(r)
        PROVE  Rest
    BY <2>1 DEF Arrive, Acquire, Poll, RequestStarted, FirstChunk, EarlyDisconnect,
                RequestFinished
  <2>2. ASSUME NEW r \in Requests, StartSpawn(r) PROVE Rest
    BY <2>2 DEF StartSpawn, Spawn, SpawnFails
  <2>3. ASSUME NEW c \in Callers, Stop(c) PROVE Rest
    BY <2>3 DEF Stop, StopInherited, StopNotRunning, StopChild, StopWait, StopClear
  <2>4. CASE SweepCheck \/ SweepDecide \/ Tick
    BY <2>4 DEF SweepCheck, SweepDecide, Tick
  <2>5. CASE OperatorStart \/ OperatorStop
    BY <2>5 DEF OperatorStart, OperatorStop
  <2>6. CASE OperatorSpawn
    BY <2>6 DEF OperatorSpawn, Spawn, SpawnFails
  <2>7. CASE Restart
    BY <2>7 DEF Restart
  <2>8. ASSUME NEW p \in Pids, Loaded(p) \/ Exits(p) PROVE Rest
    BY <2>8 DEF Loaded, Exits
  <2>9. CASE UNCHANGED vars
    BY <2>9 DEF vars
  <2> QED BY <2>1, <2>2, <2>3, <2>4, <2>5, <2>6, <2>7, <2>8, <2>9
             DEF Next, Request, Watchdog, Operator, World
<1>3. lostTrack' \in BOOLEAN
  <2> USE DEF TypeInv, boundVars
  <2>1. ASSUME NEW r \in Requests, Arrive(r) \/ Request(r) PROVE lostTrack' \in BOOLEAN
    BY <2>1, Zenon DEF Request, Arrive, Acquire, StartSpawn, Poll, RequestStarted, FirstChunk,
                EarlyDisconnect, RequestFinished
  <2>2. ASSUME NEW c \in Callers, Stop(c) PROVE lostTrack' \in BOOLEAN
    BY <2>2, Zenon DEF Stop, StopInherited, StopNotRunning, StopChild, StopWait, StopClear
  <2>3. CASE SweepCheck \/ SweepDecide \/ Tick \/ OperatorStart \/ OperatorStop \/ OperatorSpawn
    BY <2>3, Zenon DEF SweepCheck, SweepDecide, Tick, OperatorStart, OperatorStop, OperatorSpawn
  <2>4. CASE Restart
    BY <2>4, Zenon DEF Restart
  <2>5. ASSUME NEW p \in Pids, Loaded(p) \/ Exits(p) PROVE lostTrack' \in BOOLEAN
    BY <2>5, Zenon DEF Loaded, Exits
  <2>6. CASE UNCHANGED vars
    BY <2>6, Zenon DEF vars
  <2> QED BY <2>1, <2>2, <2>3, <2>4, <2>5, <2>6 DEF Next, Watchdog, Operator, World, Callers
<1> QED BY <1>1, <1>2, <1>3 DEF TypeInv

LEMMA TypeInvariant == Spec => []TypeInv
BY TypeInvInit, TypeInvStep, PTL DEF Spec

(* The state keeps its types, the in-flight count its bound and both       *)
(* clocks theirs, for any number of requests and any window.               *)
THEOREM OnDemandTypeCorrect == Spec => []TypeOK
<1>1. TypeInv => TypeOK
  <2> SUFFICES ASSUME TypeInv PROVE TypeOK
    OBVIOUS
  <2>1. Cardinality(Requests) \in Nat /\ Cardinality(Counted) \in Nat
    BY CountedFinite, FS_CardinalityType
  <2>2. inflight \in 0..Cardinality(Requests)
    BY <2>1, CountedFinite DEF TypeInv, CountInv
  <2> QED BY <2>2 DEF TypeInv, TypeOK, TrackInv, LoadInv, CallInv, PcStates, CallStates
<1> QED BY <1>1, TypeInvariant, PTL

-----------------------------------------------------------------------------
(* The properties.                                                         *)

(* While no process escaped the table at most one process of the model is  *)
(* alive, however requests and the watchdog interleave.                    *)
THEOREM OnDemandOneProcess == Spec => []OneProcess
<1>1. TypeInv => OneProcess
  <2> SUFFICES ASSUME TypeInv, ~lostTrack PROVE Cardinality(Alive) <= 1
    BY DEF OneProcess
  <2>1. CASE Alive = {}
    BY <2>1, FS_EmptySet
  <2>2. CASE Alive # {}
    <3> PICK p \in Pids : p \in Alive
      BY <2>2 DEF Alive
    <3>1. Alive = {p}
      BY DEF Alive, TypeInv, TrackInv, TableInv
    <3> QED BY <3>1, FS_Singleton
  <2> QED BY <2>1, <2>2
<1> QED BY <1>1, TypeInvariant, PTL

(* Only the sweep's own decision takes the watchdog from its check to a    *)
(* stop, and it takes it when the model was idle for the whole window.     *)
LEMMA OnlyIdleIsStopped ==
    ASSUME TypeInv, [Next]_vars, Calls("watchdog", "checked", "stop")
    PROVE  used = Window
<1> USE DEF TypeInv, CallInv, Callers, CallStates, Calls, callVars
<1>1. call["watchdog"] = "checked" /\ call'["watchdog"] = "stop"
  BY DEF Calls
<1>2. ASSUME NEW r \in Requests, Arrive(r) \/ Request(r) PROVE call' = call
  BY <1>2 DEF Request, Arrive, Acquire, StartSpawn, Poll, RequestStarted, FirstChunk,
              EarlyDisconnect, RequestFinished
<1>3. ASSUME NEW c \in Callers, Stop(c) PROVE call'["watchdog"] # "stop"
  BY <1>1, <1>3 DEF Stop, StopInherited, StopNotRunning, StopChild, StopWait, StopClear
<1>4. CASE SweepCheck \/ OperatorStart \/ OperatorStop \/ OperatorSpawn
  BY <1>1, <1>4 DEF SweepCheck, OperatorStart, OperatorStop, OperatorSpawn
<1>5. CASE SweepDecide
  BY <1>1, <1>5 DEF SweepDecide
<1>6. CASE Restart
  BY <1>1, <1>6 DEF Restart
<1>7. Tick \/ UNCHANGED vars => call' = call
  BY DEF Tick, vars
<1>8. ASSUME NEW p \in Pids, Loaded(p) \/ Exits(p) PROVE call' = call
  BY <1>8 DEF Loaded, Exits
<1> QED BY <1>1, <1>2, <1>3, <1>4, <1>5, <1>6, <1>7, <1>8
           DEF Next, Watchdog, Operator, World

(* The sweep never decides to unload what a request is loading: a load is  *)
(* over, one way or the other, before the idle clock it restarted is.      *)
THEOREM OnDemandUnloadSparesLoad == Spec => UnloadSparesLoad
<1>1. TypeInv /\ [Next]_vars => [Calls("watchdog", "checked", "stop") => Loading = {}]_vars
  <2> SUFFICES ASSUME TypeInv, [Next]_vars, Calls("watchdog", "checked", "stop")
               PROVE  Loading = {}
    OBVIOUS
  <2> QED BY OnlyIdleIsStopped DEF TypeInv, TrackInv, LoadInv, Loading
<1> QED BY <1>1, TypeInvariant, PTL DEF Spec, UnloadSparesLoad

-----------------------------------------------------------------------------
(* Leases. TLC refutes LeasesEnd: a generator that is closed before its    *)
(* first chunk never runs its `finally`. Nothing else leaves a request in  *)
(* the count.                                                              *)

Dropped == {r \in Requests : pc[r] = "dropped"}

(* While no client has disconnected before the first chunk, no request is  *)
(* counted that is not being served, whatever loads fail, backends die and *)
(* restarts do: the count the sweep reads is right.                        *)
THEOREM OnDemandLeasesEnd == Spec => [](Dropped = {} => LeasesEnd)
<1>1. CountInv => (Dropped = {} => LeasesEnd)
  <2> SUFFICES ASSUME CountInv, Dropped = {}, Tracked = {} PROVE inflight = 0
    BY DEF LeasesEnd
  <2>1. Counted = {}
    BY DEF Counted, Dropped, Tracked
  <2> QED BY <2>1, FS_EmptySet DEF CountInv
<1> QED BY <1>1, CountInvInit, CountInvStep, PTL DEF Spec
=============================================================================
