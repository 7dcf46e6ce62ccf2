----------------------------- MODULE ConfigDrift -----------------------------
(***************************************************************************)
(* How a change of config/models.yaml reaches the peers: the sync fired at *)
(* every peer after a successful placement PUT                             *)
(* (src/app_web/routers/models.py) and the write host's drift loop         *)
(* behind it (src/src/config_write.py), over SSH syncs that may fail       *)
(* (src/src/fleet/remote_bootstrap.py). What a PUT itself does is in       *)
(* ConfigWrite: here a change is a number, and a sha is that number.       *)
(***************************************************************************)
EXTENDS Integers, FiniteSets

CONSTANTS
    Peers,          \* hub_peer_ids, the dormant ones left out
    MaxVersion      \* commits that change models.yaml (bound)

ASSUME DriftAssumption == IsFiniteSet(Peers) /\ MaxVersion \in Nat

VARIABLES
    local,          \* the write host's models.yaml sha
    origin,         \* what origin/main has
    checkout,       \* what every peer has checked out and serves by
    up,             \* peers whose hub answers
    attempted,      \* the loop's memory: sha a peer was last synced for, or 0
    todo,           \* peers the current pass has not looked at
    target,         \* the sha the current pass read at its start
    syncing,        \* the peer the pass awaits a sync of, or none: a set of at most one
    posted,         \* peers a post-write sync is under way for
    faulty          \* history: peers whose last attempt met a failure or an unpushed commit

driftVars == <<local, origin, checkout, up, attempted, todo, target, syncing, posted, faulty>>

DriftTypeOK ==
    /\ local \in 0..MaxVersion /\ origin \in 0..local /\ target \in 0..local
    /\ checkout \in [Peers -> 0..origin] /\ attempted \in [Peers -> 0..local]
    /\ up \subseteq Peers /\ todo \subseteq Peers /\ syncing \subseteq Peers
    /\ posted \subseteq Peers /\ faulty \subseteq Peers

DriftInit ==
    /\ local = 0 /\ origin = 0 /\ checkout = [p \in Peers |-> 0] /\ up = Peers
    /\ attempted = [p \in Peers |-> 0] /\ todo = {} /\ target = 0
    /\ syncing = {} /\ posted = {} /\ faulty = {}

(* A placement PUT commits and pushes, then fires a sync at every peer.    *)
Publish ==
    /\ local = origin /\ local < MaxVersion
    /\ local' = local + 1 /\ origin' = local + 1 /\ posted' = Peers
    /\ UNCHANGED <<checkout, up, attempted, todo, target, syncing, faulty>>

(* Someone commits by hand on the write host, and pushes later. *)
CommitByHand ==
    /\ local = origin /\ local < MaxVersion /\ local' = local + 1
    /\ UNCHANGED <<origin, checkout, up, attempted, todo, target, syncing, posted, faulty>>
PushByHand ==
    /\ origin < local /\ origin' = local
    /\ UNCHANGED <<local, checkout, up, attempted, todo, target, syncing, posted, faulty>>

(* sync: the peer pulls and restarts its hub, if SSH and the pull work.    *)
Pulls(p) == p \in up /\ checkout' = [checkout EXCEPT ![p] = origin]
PostedSync(p) ==
    /\ p \in posted /\ posted' = posted \ {p}
    /\ Pulls(p) \/ UNCHANGED checkout
    /\ UNCHANGED <<local, origin, up, attempted, todo, target, syncing, faulty>>

(* A pass of config_drift_sync_loop reads the sha once, then looks at the  *)
(* peers one by one and waits for the sync of each that lags.              *)
BeginPass ==
    /\ todo = {} /\ syncing = {} /\ todo' = Peers /\ target' = local
    /\ UNCHANGED <<local, origin, checkout, up, attempted, syncing, posted, faulty>>

(* Mutant of Lags: one attempt for a peer, whatever the sha. *)
LagsOnce(p) == p \in up /\ checkout[p] # target /\ attempted[p] = 0

(* A peer that is down, has the sha, or was attempted for it is passed over. *)
Lags(p) == p \in up /\ checkout[p] # target /\ attempted[p] # target
(* Mutant of LookAt: the attempt is booked before the peer is looked at. *)
LookAtBookedFirst(p) ==
    /\ p \in todo /\ syncing = {} /\ todo' = todo \ {p}
    /\ attempted' = [attempted EXCEPT ![p] = target]
    /\ IF Lags(p) THEN syncing' = {p} /\ faulty' = faulty \ {p} ELSE UNCHANGED <<syncing, faulty>>
    /\ UNCHANGED <<local, origin, checkout, up, target, posted>>

LookAt(p) ==
    /\ p \in todo /\ syncing = {} /\ todo' = todo \ {p}
    /\ IF Lags(p)
       THEN /\ attempted' = [attempted EXCEPT ![p] = target] /\ syncing' = {p}
            /\ faulty' = faulty \ {p}
       ELSE UNCHANGED <<attempted, syncing, faulty>>
    /\ UNCHANGED <<local, origin, checkout, up, target, posted>>

(* Its result is logged and otherwise ignored. *)
DriftSync(p) ==
    /\ p \in syncing /\ syncing' = {}
    /\ \/ Pulls(p) /\ faulty' = IF origin < target THEN faulty \cup {p} ELSE faulty
       \/ UNCHANGED checkout /\ faulty' = faulty \cup {p}
    /\ UNCHANGED <<local, origin, up, attempted, todo, target, posted>>

PeerDown(p) ==
    /\ p \in up /\ up' = up \ {p}
    /\ UNCHANGED <<local, origin, checkout, attempted, todo, target, syncing, posted, faulty>>
PeerUp(p) ==
    /\ p \notin up /\ up' = up \cup {p}
    /\ UNCHANGED <<local, origin, checkout, attempted, todo, target, syncing, posted, faulty>>

(* The write host's hub restarts: the loop's memory is lost. *)
Restart ==
    /\ attempted' = [p \in Peers |-> 0] /\ todo' = {} /\ syncing' = {} /\ posted' = {}
    /\ faulty' = {}
    /\ UNCHANGED <<local, origin, checkout, up, target>>

DriftNext ==
    \/ Publish \/ CommitByHand \/ PushByHand \/ BeginPass \/ Restart
    \/ \E p \in Peers : PostedSync(p) \/ LookAt(p) \/ DriftSync(p) \/ PeerDown(p) \/ PeerUp(p)

DriftSpec == DriftInit /\ [][DriftNext]_driftVars

(* The loop's sleep ends, its polls and the SSH commands it waits for time *)
(* out. Nothing is assumed of the peers or of the people.                  *)
PassEnds == \A p \in Peers : WF_driftVars(LookAt(p)) /\ WF_driftVars(DriftSync(p))
DriftFairness == WF_driftVars(BeginPass) /\ PassEnds

(***************************************************************************)
(* Properties.                                                             *)
(***************************************************************************)

(* The one attempt a peer gets for a sha is not wasted: after it the peer  *)
(* has that change or a later one, unless the sync failed or the commit    *)
(* was not on origin yet.                                                  *)
AttemptSpentWell ==
    \A p \in Peers :
        attempted[p] > 0 /\ p \notin syncing \cup faulty => checkout[p] >= attempted[p]

(* A peer that stays up gets, in the end, the write host's models.yaml, or *)
(* has been tried for exactly that sha, whatever it missed while down.     *)
PeersConverge ==
    \A p \in Peers :
        <>[](p \in up) /\ <>[][~Restart]_driftVars =>
            <>[](checkout[p] = local \/ attempted[p] = local)
=============================================================================
