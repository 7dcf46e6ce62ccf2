------------------------------ MODULE Reconcile ------------------------------
(***************************************************************************)
(* The fleet reconcile loop (src/src/fleet/fleet_reconcile.py, its loop in *)
(* src/src/server_lifecycle.py) and the drain marker that tells it to      *)
(* leave a host alone (src/src/fleet/fleet_maintenance.py), with the       *)
(* machines, packets and SSH commands it works through. Two passes may be  *)
(* under way at once: the periodic one and the one that follows a cleared  *)
(* drain (src/app_web/routers/fleet_maintenance.py).                       *)
(***************************************************************************)
EXTENDS Integers, Sequences

CONSTANTS
    Sweep,                  \* the hosts with desired models, in the registry's order
    Self,                   \* the host the loop runs on
    CanSsh, HasMac,         \* the hosts it can bootstrap, and can wake
    MaxFaults               \* breakdowns of machines and models (bound)

Hosts == {Sweep[i] : i \in DOMAIN Sweep}
Passes == {"loop", "clear"}

ASSUME ReconcileAssumption == MaxFaults \in Nat /\ CanSsh \subseteq Hosts /\ HasMac \subseteq Hosts

VARIABLES
    machine,    \* every host: "off", "on" with its hub down, or "serving"
    runs,       \* the hosts whose desired models run
    woken,      \* the hosts a magic packet is on its way to
    drained,    \* the hosts under maintenance
    left,       \* what every pass has still to look at, the current host first
    step,       \* what it is doing to that host
    faults

reconcileVars == <<machine, runs, woken, drained, left, step, faults>>

ReconcileInit ==
    /\ machine \in [Hosts -> {"off", "on", "serving"}] /\ machine[Self] = "serving"
    /\ runs \in SUBSET {h \in Hosts : machine[h] # "off"} /\ woken = {} /\ drained = {}
    /\ left = [x \in Passes |-> <<>>] /\ step = [x \in Passes |-> "look"] /\ faults = 0

(* The pass goes on to its next host, or to the next step of this one. *)
NextHost(x) == left' = [left EXCEPT ![x] = Tail(@)] /\ step' = [step EXCEPT ![x] = "look"]
NextStep(x, s) == step' = [step EXCEPT ![x] = s] /\ UNCHANGED left

BeginLoopPass ==
    /\ left["loop"] = <<>> /\ left' = [left EXCEPT !["loop"] = Sweep]
    /\ UNCHANGED <<machine, runs, woken, drained, step, faults>>

(* Mutant of Look: a peer that does not answer is not woken. *)
LookAsleep(x, h) ==
    /\ step[x] = "look"
    /\ IF h \in drained THEN NextHost(x)
       ELSE IF machine[h] = "serving" THEN NextStep(x, "start")
       ELSE IF h \in CanSsh THEN NextStep(x, "bootstrap") ELSE NextHost(x)
    /\ UNCHANGED <<machine, runs, woken, drained, faults>>

(* reconcile_once's gate, then the host's health, and a magic packet to a  *)
(* peer that does not answer.                                              *)
Look(x, h) ==
    /\ step[x] = "look"
    /\ IF h \in drained THEN NextHost(x) /\ UNCHANGED woken
       ELSE IF machine[h] = "serving" THEN NextStep(x, "start") /\ UNCHANGED woken
       ELSE /\ woken' \in {woken} \cup {woken \cup {g} : g \in {h} \cap HasMac}
            /\ IF h \in CanSsh THEN NextStep(x, "bootstrap") ELSE NextHost(x)
    /\ UNCHANGED <<machine, runs, drained, faults>>

(* bootstrap_host: SSH reaches a machine that is on, and then its hub      *)
(* answers within the poll; or this pass gives the host up.                *)
Bootstrapped(x, h) ==
    /\ step[x] = "bootstrap" /\ machine[h] # "off"
    /\ machine' = [machine EXCEPT ![h] = "serving"] /\ NextStep(x, "start")
    /\ UNCHANGED <<runs, woken, drained, faults>>
NotBootstrapped(x) ==
    /\ step[x] = "bootstrap" /\ NextHost(x)
    /\ UNCHANGED <<machine, runs, woken, drained, faults>>

(* Every desired model is asked to start; one that runs already is fine.   *)
Started(x, h) ==
    /\ step[x] = "start" /\ machine[h] = "serving" /\ runs' = runs \cup {h} /\ NextHost(x)
    /\ UNCHANGED <<machine, woken, drained, faults>>
NotStarted(x) ==
    /\ step[x] = "start" /\ NextHost(x)
    /\ UNCHANGED <<machine, runs, woken, drained, faults>>

(* An exception about one host ends that host's turn, not the sweep. *)
HostRaises(x) ==
    /\ step[x] = "look" => Head(left[x]) \notin drained
    /\ NextHost(x) /\ UNCHANGED <<machine, runs, woken, drained, faults>>

PassStep(x) ==
    /\ left[x] # <<>>
    /\ LET h == Head(left[x]) IN
       Look(x, h) \/ Bootstrapped(x, h) \/ NotBootstrapped(x) \/ Started(x, h) \/ NotStarted(x)
         \/ HostRaises(x)

(* Operators: set_maintenance, its expiry, and clear_maintenance with the  *)
(* pass the DELETE handler runs.                                           *)
Drain(h) ==
    /\ h \notin drained /\ drained' = drained \cup {h}
    /\ UNCHANGED <<machine, runs, woken, left, step, faults>>
DrainExpires(h) ==
    /\ h \in drained /\ drained' = drained \ {h}
    /\ UNCHANGED <<machine, runs, woken, left, step, faults>>
ClearDrain(h) ==
    /\ left["clear"] = <<>> /\ drained' = drained \ {h}
    /\ left' = [left EXCEPT !["clear"] = Sweep]
    /\ UNCHANGED <<machine, runs, woken, step, faults>>

(* Machines boot when woken; hubs, machines and models break down. *)
Boots(h) ==
    /\ h \in woken /\ woken' = woken \ {h}
    /\ machine' = [machine EXCEPT ![h] = IF @ = "off" THEN "on" ELSE @]
    /\ UNCHANGED <<runs, drained, left, step, faults>>
HubOrMachineFails(h) ==
    /\ faults < MaxFaults /\ faults' = faults + 1 /\ h # Self
    /\ \E worse \in {"off", "on"} :
          /\ machine' = [machine EXCEPT ![h] = IF @ = "off" THEN @ ELSE worse]
          /\ runs' \in {runs \ {h}} \cup {runs : w \in {worse} \cap {"on"}}
    /\ UNCHANGED <<woken, drained, left, step>>
ModelFails(h) ==
    /\ faults < MaxFaults /\ faults' = faults + 1 /\ h \in runs /\ runs' = runs \ {h}
    /\ UNCHANGED <<machine, woken, drained, left, step>>

ReconcileNext ==
    \/ BeginLoopPass \/ \E x \in Passes : PassStep(x)
    \/ \E h \in Hosts :
          \/ Drain(h) \/ DrainExpires(h) \/ ClearDrain(h) \/ Boots(h)
          \/ HubOrMachineFails(h) \/ ModelFails(h)

ReconcileSpec == ReconcileInit /\ [][ReconcileNext]_reconcileVars

(* The loop sleeps and goes on, its calls time out, drains expire. Tried   *)
(* again and again, a magic packet goes out and wakes, and a bootstrap and *)
(* a start work, for the hosts that can be helped.                         *)
OnHost(h, A(_, _)) == left["loop"] # <<>> /\ Head(left["loop"]) = h /\ A("loop", h)
LookAndWake(x, h) == Look(x, h) /\ (machine[h] = "off" /\ h \notin drained => h \in woken')
SweepWorks ==
    /\ WF_reconcileVars(PassStep("loop"))
    /\ \A h \in Hosts : WF_reconcileVars(Boots(h)) /\ WF_reconcileVars(DrainExpires(h))
    /\ \A h \in {Self} \cup HasMac : SF_reconcileVars(OnHost(h, LookAndWake))
    /\ \A h \in CanSsh : SF_reconcileVars(OnHost(h, Bootstrapped))
    /\ \A h \in {Self} \cup CanSsh : SF_reconcileVars(OnHost(h, Started))
ReconcileFairness == WF_reconcileVars(BeginLoopPass) /\ SweepWorks

(***************************************************************************)
(* Properties.                                                             *)
(***************************************************************************)

(* A host that can be woken and bootstrapped, and is not kept drained, has *)
(* its desired models running again in the end, whatever broke down on it  *)
(* and whatever the pass meets on the other hosts.                         *)
HealsTheFleet ==
    \A h \in {Self} \cup (CanSsh \cap HasMac) :
        <>[](h \notin drained) => <>[](h \in runs)
=============================================================================
