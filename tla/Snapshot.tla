------------------------------- MODULE Snapshot -------------------------------
(***************************************************************************)
(* The polled read answered from memory (src/src/health/snapshot.py), as   *)
(* the Hub tab's services status uses it                                   *)
(* (src/app_web/routers/services.py): readers, builds and the controls     *)
(* that change what a build would see all interleave at their awaits.      *)
(***************************************************************************)
EXTENDS Integers

CONSTANTS
    Readers,            \* polls of /admin/api/services/status in flight
    Builds, NoBuild,    \* tasks, reused once they are done (bound)
    MaxWrites           \* services started or stopped by a control (bound)

ASSUME SnapshotAssumption == MaxWrites \in Nat /\ NoBuild \notin Builds

VARIABLES
    writes,     \* how often a control changed the services
    visible,    \* history: writes when mark_dirty last ran
    seq,        \* _seq
    stored,     \* _stored: the build's number, what it saw and its age class
    inflight,   \* the task of _inflight
    build,      \* every task: running or not, its seq, what its probes saw
    reader      \* every get: the task it awaits, visible at its start, the body it answered

snapshotVars == <<writes, visible, seq, stored, inflight, build, reader>>

Nothing == -1       \* no body
Idle == [running |-> FALSE, seq |-> 0, body |-> Nothing]    \* a task that is done

SnapshotTypeOK ==
    /\ writes \in 0..MaxWrites /\ visible \in 0..writes /\ seq \in 0..MaxWrites
    /\ stored \in [seq : 0..MaxWrites, body : Nothing..MaxWrites, age : {"fresh", "due", "old"}]
    /\ inflight \in Builds \cup {NoBuild}
    /\ build \in [Builds -> [running : BOOLEAN, seq : 0..MaxWrites, body : Nothing..MaxWrites]]
    /\ reader \in [Readers -> [awaits : Builds \cup {NoBuild}, since : 0..MaxWrites,
                               got : Nothing..MaxWrites]]

SnapshotInit ==
    /\ writes = 0 /\ visible = 0 /\ seq = 0
    /\ stored = [seq |-> 0, body |-> Nothing, age |-> "old"]
    /\ inflight = NoBuild
    /\ build = [b \in Builds |-> Idle]
    /\ reader = [r \in Readers |-> [awaits |-> NoBuild, since |-> 0, got |-> Nothing]]

(* A control starts or stops a service and, when it is done, marks the     *)
(* snapshot dirty (_service_action). Probes in between may see the change. *)
ControlWrites ==
    /\ writes < MaxWrites /\ writes' = writes + 1
    /\ UNCHANGED <<visible, seq, stored, inflight, build, reader>>
MarkDirty ==
    /\ visible < writes /\ visible' = writes /\ seq' = seq + 1
    /\ UNCHANGED <<writes, stored, inflight, build, reader>>

(* Mutant of Shared: any task in flight will do. *)
SharedStale(b) == inflight = b /\ build[b].running

(* _refresh: the task in flight for the current _seq, or a new one. *)
Shared(b) == inflight = b /\ build[b].running /\ build[b].seq = seq
(* Mutant of Refresh: every caller starts a task of its own. *)
RefreshAlways(b) ==
    /\ ~build[b].running /\ inflight' = b
    /\ build' = [build EXCEPT ![b] = [running |-> TRUE, seq |-> seq, body |-> Nothing]]

Refresh(b) ==
    IF \E c \in Builds : Shared(c) THEN Shared(b) /\ UNCHANGED <<inflight, build>>
    ELSE /\ ~build[b].running /\ inflight' = b
         /\ build' = [build EXCEPT ![b] = [running |-> TRUE, seq |-> seq, body |-> Nothing]]

(* get: from memory when the stored build is current and not old, with a   *)
(* rebuild behind it when it is due; else the reader awaits a rebuild.     *)
Current == stored.body # Nothing /\ stored.seq = seq /\ stored.age # "old"
GetStored(r) ==
    /\ reader[r].awaits = NoBuild /\ Current
    /\ reader' = [reader EXCEPT ![r] = [awaits |-> NoBuild, since |-> visible, got |-> stored.body]]
    /\ IF stored.age = "due" THEN \E b \in Builds : Refresh(b) ELSE UNCHANGED <<inflight, build>>
    /\ UNCHANGED <<writes, visible, seq, stored>>
GetInline(r) ==
    /\ reader[r].awaits = NoBuild /\ ~Current
    /\ \E b \in Builds :
          /\ Refresh(b)
          /\ reader' = [reader EXCEPT ![r] = [awaits |-> b, since |-> visible, got |-> Nothing]]
    /\ UNCHANGED <<writes, visible, seq, stored>>

(* The probes of a build see the services at some moment while it runs. *)
Probe(b) ==
    /\ build[b].running /\ build[b].body = Nothing
    /\ build' = [build EXCEPT ![b].body = writes]
    /\ UNCHANGED <<writes, visible, seq, stored, inflight, reader>>

(* The build is stored only if nothing was marked dirty meanwhile; those   *)
(* who await it are answered from it either way, or get its exception.     *)
BuildEnds(b) ==
    /\ build[b].running /\ build[b].body # Nothing
    /\ build' = [build EXCEPT ![b] = Idle]
    /\ stored' = IF build[b].seq = seq
                 THEN [seq |-> seq, body |-> build[b].body, age |-> "fresh"] ELSE stored
    /\ reader' = [r \in Readers |-> IF reader[r].awaits = b
                     THEN [awaits |-> NoBuild, since |-> reader[r].since, got |-> build[b].body]
                     ELSE reader[r]]
    /\ UNCHANGED <<writes, visible, seq, inflight>>
BuildFails(b) ==
    /\ build[b].running /\ build' = [build EXCEPT ![b] = Idle]
    /\ reader' = [r \in Readers |-> IF reader[r].awaits = b
                     THEN [reader[r] EXCEPT !.awaits = NoBuild] ELSE reader[r]]
    /\ UNCHANGED <<writes, visible, seq, stored, inflight>>

(* fresh_s, then max_age_s, go by. *)
Age ==
    /\ stored.age # "old"
    /\ stored' = [stored EXCEPT !.age = IF @ = "fresh" THEN "due" ELSE "old"]
    /\ UNCHANGED <<writes, visible, seq, inflight, build, reader>>

SnapshotNext ==
    \/ ControlWrites \/ MarkDirty \/ Age
    \/ \E r \in Readers : GetStored(r) \/ GetInline(r)
    \/ \E b \in Builds : Probe(b) \/ BuildEnds(b) \/ BuildFails(b)

SnapshotSpec == SnapshotInit /\ [][SnapshotNext]_snapshotVars

(***************************************************************************)
(* Properties.                                                             *)
(***************************************************************************)

(* A poll that begins after a control has marked its change never shows    *)
(* the services as they were before it, whichever builds were in flight.   *)
SeesItsWrites ==
    \A r \in Readers : reader[r].got # Nothing => reader[r].got >= reader[r].since

(* However many readers ask, one rebuild runs for one state of the         *)
(* controls: a burst of polls spawns one set of probes.                    *)
OneBuildAtATime ==
    \A b, c \in Builds :
        build[b].running /\ build[c].running /\ build[b].seq = build[c].seq => b = c
=============================================================================
