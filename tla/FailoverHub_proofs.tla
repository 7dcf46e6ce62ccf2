-------------------------- MODULE FailoverHub_proofs --------------------------
(***************************************************************************)
(* What one hub's failover engine guarantees, for every set of placements, *)
(* whether the hub is in its chain or not, every window and both policies. *)
(***************************************************************************)
EXTENDS FailoverHub, OwnershipTracker_proofs

(* A pass under way has a chain to decide over.                            *)
PassInv == pc = "probing" => DOMAIN chain # {}

TypeInv == TypeOK /\ PassInv

(* The chain of the pass under way is an eligible part of the file's chain *)
(* and includes this hub.                                                  *)
Fits ==
    /\ \A x \in DOMAIN chain : x \in DOMAIN hosts /\ chain[x] = hosts[x]
    /\ Self \in DOMAIN hosts => Self \in DOMAIN chain

(* A placement, as far as passes have come with it. One that was read has  *)
(* an owner from its chain, and this hub, if in it, has been seen up since *)
(* then; one that is settled has no owner below this hub.                  *)
EditInv ==
    /\ pc = "probing" /\ edit # "unread" => Fits
    /\ edit \in {"settled", "read"} => owner \in DOMAIN hosts \cup {NoHost}
    /\ edit = "settled" /\ owner # NoHost /\ Self \in DOMAIN hosts
          => hosts[owner] <= hosts[Self]
    /\ edit = "read" /\ Self \in DOMAIN hosts
          => obs[Self].seen = "up" /\ sinceRead <= obs[Self].age

(* The mark, at every point of a pass: the engine only gets to a start     *)
(* while it owns the model, and keeps a mark only until it has released.   *)
MarkInv ==
    /\ pc \in {"ensure", "start", "mark"} => owner = Self
    /\ marked /\ pc \in {"idle", "probing"} => owner = Self

(* An inherited process is not marked, and no stop of it is under way.     *)
InheritedInv ==
    inst = "inherited" => ~marked /\ pc \notin {"mark", "release", "stop"}

(* Since this tracker failed over, a candidate above the owner has been up *)
(* for no longer than that. A pass decides over the eligible chain unless  *)
(* the chain or the dormant switch changed.                                *)
AgeInv ==
    ~touched =>
        /\ pc = "probing" => chain = Eligible
        /\ owner \in DOMAIN Eligible \cup {NoHost}
        /\ \A x \in DOMAIN Eligible :
              owner # NoHost /\ hosts[x] < hosts[owner] /\ obs[x].seen = "up"
                => obs[x].age <= sinceFailover

-----------------------------------------------------------------------------
(* Facts about single actions.                                             *)

EngineStep ==
    \/ EnsureCheck \/ EngineStart \/ EngineMark
    \/ ReleaseCheck \/ EngineStop \/ EngineClear \/ EngineUnmark

ProcessStep == HandStart \/ ExternalStart \/ InstanceEnds

LEMMA NextCases ==
    ASSUME [Next]_vars
    PROVE  \/ LoopStart \/ PassBegin \/ EngineStep
           \/ \E elapsed \in 1..MaxAge, reached \in ProbeAnswers : PassDecide(elapsed, reached)
           \/ ProcessStep \/ Restart \/ Stabilise
           \/ \E x \in Candidates : SetDormant(x)
           \/ \E c \in Placements : Placement(c)
           \/ UNCHANGED vars
BY Zenon DEF Next, EngineActs, World, EngineStep, ProcessStep

(* The engine's own steps outside a decision, and what goes on around it,  *)
(* leave the tracker alone.                                                *)
LEMMA EngineStepLeaves ==
    ASSUME EngineStep
    PROVE  /\ UNCHANGED <<obs, owner, hosts, dormant, loop, chain, stable, live,
                          sinceFailover, touched, edit, sinceRead>>
           /\ pc' # "probing"
BY DEF EngineStep, EnsureCheck, EngineStart, EngineMark, ReleaseCheck, EngineStop,
       EngineClear, EngineUnmark, trackerVars, worldVars, historyVars

LEMMA ProcessStepLeaves ==
    ASSUME ProcessStep
    PROVE  UNCHANGED <<obs, owner, hosts, dormant, loop, pc, chain, marked, stable, live,
                       sinceFailover, touched, edit, sinceRead>>
BY DEF ProcessStep, HandStart, ExternalStart, InstanceEnds, trackerVars, engineVars,
       worldVars, historyVars

LEMMA EligibleFacts ==
    ASSUME TypeOK
    PROVE  /\ IsChain(hosts) /\ IsChain(Eligible)
           /\ DOMAIN Eligible = DOMAIN hosts \ dormant
           /\ \A x \in DOMAIN Eligible : Eligible[x] = hosts[x]
<1>1. IsChain(hosts)
  BY PlacementAssumption DEF TypeOK
<1>. QED  BY <1>1, EligibleIsChain DEF Eligible

(* The observations a decision is made on, and the decision.               *)
LEMMA DecideFacts ==
    ASSUME TypeInv, NEW elapsed \in 1..MaxAge, NEW reached \in ProbeAnswers,
           PassDecide(elapsed, reached)
    PROVE  /\ elapsed \in Nat
           /\ IsChain(chain) /\ DOMAIN chain # {} /\ DOMAIN chain \subseteq Candidates
           /\ obs' = Observe(obs, DOMAIN chain, reached, elapsed)
           /\ obs' \in [Candidates -> Observation]
           /\ owner' = Decide(owner, chain, obs')
           /\ owner' \in DOMAIN chain
<1>1. elapsed \in Nat
  BY WindowAssumption
<1>2. IsChain(chain) /\ DOMAIN chain # {}
  BY DEF TypeInv, TypeOK, PassInv, PassDecide
<1>3. obs' = Observe(obs, DOMAIN chain, reached, elapsed) /\ owner' = Decide(owner, chain, obs')
  BY DEF PassDecide
<1>4. obs' \in [Candidates -> Observation]
  BY <1>1, <1>3, ObserveType DEF TypeInv, TypeOK
<1>5. owner' \in DOMAIN chain
  BY <1>2, <1>3, DecideInChain
<1>6. DOMAIN chain \subseteq Candidates
  BY <1>2 DEF IsChain
<1>. QED  BY <1>1, <1>2, <1>3, <1>4, <1>5, <1>6

-----------------------------------------------------------------------------
(* Type correctness. It needs PassInv: a decision over an empty chain      *)
(* would be no candidate.                                                  *)

LEMMA NoChainIsChain == IsChain(NoChain) /\ DOMAIN NoChain = {}
<1>1. DOMAIN NoChain = {}
  BY DEF NoChain
<1>2. NoChain \in [DOMAIN NoChain -> 1..N]
  BY DEF NoChain
<1>. QED  BY <1>1, <1>2 DEF IsChain, IsInjective

LEMMA TypeInvInit == Init => TypeInv
<1>. SUFFICES ASSUME Init PROVE TypeInv
  OBVIOUS
<1>1. Unobserved \in [Candidates -> Observation]
  BY WindowAssumption DEF Unobserved, Observation
<1>2. marked \in BOOLEAN /\ touched \in BOOLEAN /\ stable \in BOOLEAN
  BY Zenon DEF Init, FreshTracker
<1>3. sinceFailover \in 0..MaxAge /\ sinceRead \in 0..MaxAge
  BY WindowAssumption DEF Init, FreshTracker
<1>4. IsChain(chain)
  BY NoChainIsChain DEF Init, FreshTracker
<1>5. TypeOK
  BY <1>1, <1>2, <1>3, <1>4 DEF Init, FreshTracker, TypeOK, Instances
<1>6. PassInv
  BY DEF Init, FreshTracker, PassInv
<1>. QED  BY <1>5, <1>6 DEF TypeInv

LEMMA TypeInvStep == TypeInv /\ [Next]_vars => TypeInv'
<1>. SUFFICES ASSUME TypeInv, [Next]_vars PROVE TypeInv'
  OBVIOUS
<1>. USE DEF TypeInv, TypeOK, PassInv
<1>1. CASE LoopStart
  BY <1>1 DEF LoopStart, trackerVars, engineVars, worldVars, historyVars
<1>2. CASE PassBegin
  <2>1. DOMAIN Eligible # {} /\ IsChain(Eligible)
    BY <1>2, MultiHostNotEmpty, EligibleFacts DEF PassBegin, MultiHost
  <2>. QED  BY <1>2, <2>1 DEF PassBegin, trackerVars, worldVars
<1>3. ASSUME NEW elapsed \in 1..MaxAge, NEW reached \in ProbeAnswers,
             PassDecide(elapsed, reached)
      PROVE  TypeInv'
  <2>1. obs' \in [Candidates -> Observation] /\ owner' \in Candidates
    BY <1>3, DecideFacts
  <2>2. sinceFailover' \in 0..MaxAge /\ sinceRead' \in 0..MaxAge
    <3>1. 0 \in 0..MaxAge /\ MaxAge \in 0..MaxAge /\ elapsed \in Nat
      BY WindowAssumption
    <3>2. Later(sinceFailover, elapsed) \in 0..MaxAge /\ Later(sinceRead, elapsed) \in 0..MaxAge
      BY <3>1, LaterInRange
    <3>. QED  BY <1>3, <3>1, <3>2 DEF PassDecide, EditSettles
  <2>3. touched' \in BOOLEAN
    BY <1>3 DEF PassDecide
  <2>4. pc' \in {"ensure", "release", "idle"} /\ IsChain(chain')
    BY <1>3, NoChainIsChain DEF PassDecide
  <2>5. edit' \in {"settled", "unread", "reading", "read"}
    BY <1>3 DEF PassDecide, EditSettles
  <2>. QED
    BY <1>3, <2>1, <2>2, <2>3, <2>4, <2>5 DEF PassDecide, worldVars
<1>4. CASE EngineStep
  <2>1. pc' \in {"idle", "start", "mark", "stop", "clear", "unmark"}
        /\ inst' \in Instances /\ marked' \in BOOLEAN
    BY <1>4 DEF EngineStep, EnsureCheck, EngineStart, EngineMark, ReleaseCheck, EngineStop,
                EngineClear, EngineUnmark, Instances
  <2>. QED  BY <1>4, <2>1, EngineStepLeaves
<1>5. CASE ProcessStep
  <2>1. inst' \in Instances
    BY <1>5 DEF ProcessStep, HandStart, ExternalStart, InstanceEnds, Instances
  <2>. QED  BY <1>5, <2>1, ProcessStepLeaves
<1>6. CASE Restart
  <2>1. Unobserved \in [Candidates -> Observation] /\ MaxAge \in 0..MaxAge /\ 0 \in 0..MaxAge
    BY WindowAssumption DEF Unobserved, Observation
  <2>. QED  BY <1>6, <2>1, NoChainIsChain DEF Restart, Instances, NoHost
<1>7. CASE Stabilise
  BY <1>7 DEF Stabilise, trackerVars, engineVars, historyVars
<1>8. ASSUME NEW x \in Candidates, SetDormant(x) PROVE TypeInv'
  <2>1. dormant' \in SUBSET Peers /\ MaxAge \in 0..MaxAge
    BY <1>8, WindowAssumption DEF SetDormant, Peers
  <2>. QED  BY <1>8, <2>1 DEF SetDormant, trackerVars, engineVars
<1>9. ASSUME NEW c \in Placements, Placement(c) PROVE TypeInv'
  <2>1. MaxAge \in 0..MaxAge /\ 0 \in 0..MaxAge
    BY WindowAssumption
  <2>. QED  BY <1>9, <2>1 DEF Placement, trackerVars, engineVars
<1>10. CASE UNCHANGED vars
  BY <1>10 DEF vars
<1>. QED
  BY <1>1, <1>2, <1>3, <1>4, <1>5, <1>6, <1>7, <1>8, <1>9, <1>10, NextCases

LEMMA TypeInvHolds == Spec => []TypeInv
BY TypeInvInit, TypeInvStep, PTL DEF Spec

(* Every variable of the hub keeps its type; in particular the tracker     *)
(* only ever names a candidate as owner.                                   *)
THEOREM TypeCorrect == Spec => []TypeOK
<1>1. TypeInv => TypeOK
  BY DEF TypeInv
<1>. QED  BY <1>1, TypeInvHolds, PTL

-----------------------------------------------------------------------------
(* A hub in the chain routes to nobody below itself.                       *)

(* Over a decision. This hub is in the chain the pass read and always seen *)
(* up there: no owner above it is exchanged for one below, and one that a  *)
(* placement put below it goes when it has been up for the failback window.*)
LEMMA EditInvDecide ==
    ASSUME TypeInv, EditInv,
           NEW elapsed \in 1..MaxAge, NEW reached \in ProbeAnswers,
           PassDecide(elapsed, reached)
    PROVE  EditInv'
<1>1. /\ elapsed \in Nat
      /\ IsChain(chain) /\ DOMAIN chain \subseteq Candidates
      /\ obs' = Observe(obs, DOMAIN chain, reached, elapsed)
      /\ obs' \in [Candidates -> Observation]
      /\ owner' = Decide(owner, chain, obs')
      /\ owner' \in DOMAIN chain
  BY DecideFacts
<1>2. pc = "probing" /\ pc' # "probing" /\ hosts' = hosts
  BY DEF PassDecide, worldVars
<1>3. obs \in [Candidates -> Observation] /\ sinceRead \in 0..MaxAge
  BY DEF TypeInv, TypeOK
<1>4. CASE edit = "unread"
  BY <1>2, <1>4 DEF EditInv, PassDecide, EditSettles
<1>5. CASE edit # "unread"
  <2>1. Fits
    BY <1>2, <1>5 DEF EditInv
  <2>2. owner' \in DOMAIN hosts'
    BY <1>1, <1>2, <2>1 DEF Fits
  <2>3. ASSUME Self \in DOMAIN hosts'
        PROVE  /\ edit' = "settled" => hosts'[owner'] <= hosts'[Self]
               /\ edit' = "read" => obs'[Self].seen = "up" /\ sinceRead' <= obs'[Self].age
    <3>1. Self \in DOMAIN chain /\ Self \in Candidates
      BY <1>1, <1>2, <2>1, <2>3 DEF Fits
    <3>2. obs'[Self].seen = "up"
      BY <1>1, <1>3, <3>1, ObserveSees DEF ProbeAnswers
    <3>3. obs'[Self].age \in Nat
      BY <1>1, <3>1 DEF Observation
    <3>. DEFINE since == IF edit = "read" THEN Later(sinceRead, elapsed) ELSE 0
    <3>4. since <= obs'[Self].age
      <4>1. CASE edit = "read"
        <5>1. obs[Self].seen = "up" /\ sinceRead <= obs[Self].age
          BY <1>2, <2>3, <4>1 DEF EditInv
        <5>2. obs[Self].age \in 0..MaxAge
          BY <1>3, <3>1 DEF Observation
        <5>3. obs'[Self].age = Later(obs[Self].age, elapsed)
          <6>1. obs'[Self] = ObserveHost(obs[Self], TRUE, elapsed)
            BY <1>1, <3>1 DEF Observe, ProbeAnswers
          <6>2. obs[Self] \in Observation
            BY <1>3, <3>1
          <6>. QED  BY <5>1, <6>1, <6>2 DEF ObserveHost, Observation
        <5>. QED  BY <1>1, <1>3, <4>1, <5>1, <5>2, <5>3, LaterMonotonic
      <4>2. CASE edit # "read"
        BY <3>3, <4>2
      <4>. QED  BY <4>1, <4>2
    <3>5. since \in Nat
      BY <1>1, <1>3, LaterInRange
    <3>6. /\ edit' = IF edit \notin {"reading", "read"} THEN edit
                     ELSE IF AutoFailback /\ since >= FailbackAfter THEN "settled"
                     ELSE "read"
          /\ sinceRead' = IF edit' = "read" THEN since ELSE 0
      BY DEF PassDecide, EditSettles
    <3>. HIDE DEF since
    <3>7. ASSUME edit' = "settled" PROVE chain[owner'] <= chain[Self]
      <4>1. CASE edit = "settled"
        <5>1. owner \in DOMAIN chain => chain[owner] <= chain[Self]
          <6>1. NoHost \notin DOMAIN chain
            BY <1>1, ChainAssumption DEF Candidates, NoHost
          <6>. QED  BY <1>2, <2>1, <2>3, <3>1, <4>1, <6>1 DEF EditInv, Fits
        <5>. QED  BY <1>1, <3>1, <3>2, <5>1, DecideNotBelow
      <4>2. CASE edit # "settled"
        <5>1. AutoFailback /\ since >= FailbackAfter
          BY <3>6, <3>7, <4>2
        <5>2. obs'[Self].age >= FailbackAfter
          BY <3>3, <3>4, <3>5, <5>1, WindowAssumption
        <5>. QED  BY <1>1, <3>1, <3>2, <5>1, <5>2, DecideCatchesUp
      <4>. QED  BY <4>1, <4>2
    <3>8. chain[owner'] = hosts'[owner'] /\ chain[Self] = hosts'[Self]
      BY <1>1, <1>2, <2>1, <3>1 DEF Fits
    <3>. QED  BY <3>2, <3>4, <3>6, <3>7, <3>8
  <2>. QED  BY <1>2, <2>2, <2>3 DEF EditInv
<1>. QED  BY <1>4, <1>5

LEMMA EditInvStep == TypeInv /\ EditInv /\ [Next]_vars => EditInv'
<1>. SUFFICES ASSUME TypeInv, EditInv, [Next]_vars PROVE EditInv'
  OBVIOUS
<1>1. CASE LoopStart
  BY <1>1 DEF LoopStart, EditInv, Fits, trackerVars, engineVars, worldVars, historyVars
<1>2. CASE PassBegin
  <2>1. DOMAIN Eligible = DOMAIN hosts \ dormant
        /\ \A x \in DOMAIN Eligible : Eligible[x] = hosts[x]
    BY EligibleFacts DEF TypeInv
  <2>2. Self \notin dormant
    BY DEF TypeInv, TypeOK, Peers
  <2>3. UNCHANGED <<obs, owner, hosts, sinceRead>> /\ chain' = Eligible
    BY <1>2 DEF PassBegin, trackerVars, worldVars
  <2>4. Fits'
    BY <2>1, <2>2, <2>3 DEF Fits
  <2>5. edit' \in {"settled", "read"} => edit' = edit
    BY <1>2 DEF PassBegin
  <2>. QED  BY <2>3, <2>4, <2>5 DEF EditInv
<1>3. ASSUME NEW elapsed \in 1..MaxAge, NEW reached \in ProbeAnswers,
             PassDecide(elapsed, reached)
      PROVE  EditInv'
  BY <1>3, EditInvDecide
<1>4. CASE EngineStep
  BY <1>4, EngineStepLeaves DEF EditInv
<1>5. CASE ProcessStep
  BY <1>5, ProcessStepLeaves DEF EditInv, Fits
<1>6. CASE Restart
  BY <1>6 DEF Restart, EditInv
<1>7. CASE Stabilise
  BY <1>7 DEF Stabilise, EditInv, Fits, trackerVars, engineVars, historyVars
<1>8. ASSUME NEW x \in Candidates, SetDormant(x) PROVE EditInv'
  BY <1>8 DEF SetDormant, EditInv, Fits, trackerVars, engineVars
<1>9. ASSUME NEW c \in Placements, Placement(c) PROVE EditInv'
  BY <1>9 DEF Placement, EditInv
<1>10. CASE UNCHANGED vars
  BY <1>10 DEF vars, EditInv, Fits
<1>. QED
  BY <1>1, <1>2, <1>3, <1>4, <1>5, <1>6, <1>7, <1>8, <1>9, <1>10, NextCases

LEMMA EditInvHolds == Spec => []EditInv
<1>1. Init => EditInv
  BY DEF Init, FreshTracker, EditInv
<1>. QED  BY <1>1, EditInvStep, TypeInvHolds, PTL DEF Spec

(* A hub never sends a request for the model down its chain, whatever its  *)
(* peers, its probes, its operator and its own restarts do; after a        *)
(* placement from the moment that failback_after_s of passes have seen it. *)
THEOREM HubNeverBelowSelf == Spec => []NeverBelowSelf
<1>1. TypeInv /\ EditInv => NeverBelowSelf
  <2>. SUFFICES ASSUME TypeInv, EditInv, Self \in DOMAIN hosts, edit = "settled"
                PROVE  hosts[RoutesTo] <= hosts[Self]
    BY DEF NeverBelowSelf
  <2>1. Self \notin dormant /\ IsChain(hosts)
    BY EligibleFacts DEF TypeInv, TypeOK, Peers
  <2>2. owner # NoHost => owner \in DOMAIN hosts /\ hosts[owner] <= hosts[Self]
    BY DEF EditInv
  <2>. QED  BY <2>1, <2>2, EffectiveOwnerNotBelow DEF RoutesTo
<1>. QED  BY <1>1, EditInvHolds, TypeInvHolds, PTL

-----------------------------------------------------------------------------
(* The mark.                                                               *)

LEMMA MarkInvStep == MarkInv /\ [Next]_vars => MarkInv'
<1>. SUFFICES ASSUME MarkInv, [Next]_vars PROVE MarkInv'
  OBVIOUS
<1>. USE DEF MarkInv
<1>1. CASE LoopStart
  BY <1>1 DEF LoopStart, trackerVars, engineVars
<1>2. CASE PassBegin
  BY <1>2 DEF PassBegin, trackerVars
<1>3. ASSUME NEW elapsed \in 1..MaxAge, NEW reached \in ProbeAnswers,
             PassDecide(elapsed, reached)
      PROVE  MarkInv'
  <2>1. CASE owner' = Self
    BY <1>3, <2>1 DEF PassDecide
  <2>2. CASE owner' # Self /\ marked
    <3>1. pc' = "release"
      BY <1>3, <2>2 DEF PassDecide
    <3>. QED  BY <3>1
  <2>3. CASE owner' # Self /\ ~marked
    <3>1. pc' = "idle" /\ marked' = marked
      BY <1>3, <2>3 DEF PassDecide
    <3>. QED  BY <2>3, <3>1
  <2>. QED  BY <2>1, <2>2, <2>3
<1>4. CASE EnsureCheck \/ EngineStart \/ EngineMark
  BY <1>4 DEF EnsureCheck, EngineStart, EngineMark, trackerVars
<1>5. CASE ReleaseCheck
  BY <1>5 DEF ReleaseCheck, trackerVars
<1>6. CASE EngineStop \/ EngineClear \/ EngineUnmark
  BY <1>6 DEF EngineStop, EngineClear, EngineUnmark, trackerVars
<1>7. CASE ProcessStep
  BY <1>7, ProcessStepLeaves
<1>8. CASE Restart
  BY <1>8 DEF Restart
<1>9. CASE Stabilise
  BY <1>9 DEF Stabilise, trackerVars, engineVars
<1>10. ASSUME NEW x \in Candidates, SetDormant(x) PROVE MarkInv'
  BY <1>10 DEF SetDormant, trackerVars, engineVars
<1>11. ASSUME NEW c \in Placements, Placement(c) PROVE MarkInv'
  BY <1>11 DEF Placement, trackerVars, engineVars
<1>12. CASE UNCHANGED vars
  BY <1>12 DEF vars
<1>. QED
  BY <1>1, <1>2, <1>3, <1>4, <1>5, <1>6, <1>7, <1>8, <1>9, <1>10, <1>11, <1>12,
     NextCases DEF EngineStep

(* Between passes a marked process belongs to a hub that owns the model    *)
(* and routes it to itself, once a pass has read the chain as it stands:   *)
(* no hand-over loses track of a process the engine started, one that a    *)
(* placement brings about included.                                        *)
THEOREM HubMarkMeansOwner == Spec => []MarkMeansOwner
<1>1. Init => MarkInv
  BY DEF Init, FreshTracker, MarkInv
<1>2. TypeInv /\ EditInv /\ MarkInv => MarkMeansOwner
  <2>. SUFFICES ASSUME TypeInv, EditInv, MarkInv, marked, pc \in {"idle", "probing"},
                       edit \in {"settled", "read"}
                PROVE  owner = Self /\ RoutesTo = Self
    BY DEF MarkMeansOwner
  <2>1. owner = Self
    BY DEF MarkInv
  <2>2. Self \in DOMAIN hosts
    BY <2>1, SelfAssumption DEF EditInv, NoHost
  <2>3. Self \notin dormant /\ IsChain(hosts)
    BY EligibleFacts DEF TypeInv, TypeOK, Peers
  <2>. QED  BY <2>1, <2>2, <2>3, EffectiveOwnerIsOwner DEF RoutesTo
<1>. QED  BY <1>1, <1>2, MarkInvStep, EditInvHolds, TypeInvHolds, PTL DEF Spec

LEMMA InheritedInvStep == InheritedInv /\ [Next]_vars => InheritedInv'
<1>. SUFFICES ASSUME InheritedInv, [Next]_vars PROVE InheritedInv'
  OBVIOUS
<1>. USE DEF InheritedInv
<1>1. CASE LoopStart
  BY <1>1 DEF LoopStart, engineVars
<1>2. CASE PassBegin
  BY <1>2 DEF PassBegin
<1>3. ASSUME NEW elapsed \in 1..MaxAge, NEW reached \in ProbeAnswers,
             PassDecide(elapsed, reached)
      PROVE  InheritedInv'
  <2>1. inst' = inst /\ marked' = marked
    BY <1>3 DEF PassDecide
  <2>2. ~marked => pc' \in {"ensure", "idle"}
    BY <1>3 DEF PassDecide
  <2>. QED  BY <2>1, <2>2
<1>4. CASE EngineStep
  BY <1>4 DEF EngineStep, EnsureCheck, EngineStart, EngineMark, ReleaseCheck, EngineStop,
              EngineClear, EngineUnmark
<1>5. CASE ProcessStep
  <2>1. inst' # "inherited"
    BY <1>5 DEF ProcessStep, HandStart, ExternalStart, InstanceEnds
  <2>. QED  BY <2>1
<1>6. CASE Restart
  BY <1>6 DEF Restart
<1>7. CASE Stabilise
  BY <1>7 DEF Stabilise, engineVars
<1>8. ASSUME NEW x \in Candidates, SetDormant(x) PROVE InheritedInv'
  BY <1>8 DEF SetDormant, engineVars
<1>9. ASSUME NEW c \in Placements, Placement(c) PROVE InheritedInv'
  BY <1>9 DEF Placement, engineVars
<1>10. CASE UNCHANGED vars
  BY <1>10 DEF vars
<1>. QED
  BY <1>1, <1>2, <1>3, <1>4, <1>5, <1>6, <1>7, <1>8, <1>9, <1>10, NextCases

(* Only bp.stop's own step ends a process for the engine.                  *)
LEMMA EndsInStop ==
    ASSUME [Next]_vars, EngineEndsProcess
    PROVE  EngineStop /\ Running
<1>1. pc = "stop" /\ pc' \in {"clear", "unmark"} /\ inst # "none" /\ inst' = "none"
  BY DEF EngineEndsProcess
<1>2. ~LoopStart /\ ~PassBegin
  BY <1>1 DEF LoopStart, PassBegin, engineVars
<1>3. ASSUME NEW elapsed \in 1..MaxAge, NEW reached \in ProbeAnswers,
             PassDecide(elapsed, reached)
      PROVE  FALSE
  BY <1>1, <1>3 DEF PassDecide
<1>4. EngineStep => EngineStop /\ Running
  BY <1>1 DEF EngineStep, EnsureCheck, EngineStart, EngineMark, ReleaseCheck, EngineStop,
              EngineClear, EngineUnmark
<1>5. ~ProcessStep
  BY <1>1, ProcessStepLeaves
<1>6. ~Restart /\ ~Stabilise
  BY <1>1 DEF Restart, Stabilise
<1>7. ASSUME NEW x \in Candidates, SetDormant(x) PROVE FALSE
  BY <1>1, <1>7 DEF SetDormant, engineVars
<1>8. ASSUME NEW c \in Placements, Placement(c) PROVE FALSE
  BY <1>1, <1>8 DEF Placement, engineVars
<1>9. CASE UNCHANGED vars
  BY <1>1, <1>9 DEF vars
<1>. QED  BY <1>2, <1>3, <1>4, <1>5, <1>6, <1>7, <1>8, <1>9, NextCases

(* The engine never ends a process that an earlier run of the hub left     *)
(* behind, or one started outside the hub.                                 *)
THEOREM HubSparesForeign == Spec => SparesForeign
<1>1. Init => InheritedInv
  BY DEF Init, InheritedInv
<1>2. InheritedInv /\ [Next]_vars
        => [EngineEndsProcess => inst \notin {"inherited", "external"}]_vars
  <2>. SUFFICES ASSUME InheritedInv, [Next]_vars, EngineEndsProcess
                PROVE  inst \notin {"inherited", "external"}
    OBVIOUS
  <2>1. pc = "stop" /\ Running
    BY EndsInStop DEF EngineEndsProcess
  <2>. QED  BY <2>1 DEF InheritedInv, Running
<1>3. Spec => []InheritedInv
  BY <1>1, InheritedInvStep, PTL DEF Spec
<1>. QED  BY <1>2, <1>3, PTL DEF Spec, SparesForeign

-----------------------------------------------------------------------------
(* Hysteresis.                                                             *)

(* AgeInv over a decision. A candidate above the new owner that is seen up *)
(* was there before this pass, under an owner that still stands, and has   *)
(* grown older by no more than the time since the failover.                *)
LEMMA AgeInvDecide ==
    ASSUME TypeInv, AgeInv,
           NEW elapsed \in 1..MaxAge, NEW reached \in ProbeAnswers,
           PassDecide(elapsed, reached)
    PROVE  AgeInv'
<1>1. /\ elapsed \in Nat
      /\ IsChain(chain) /\ DOMAIN chain \subseteq Candidates
      /\ obs' = Observe(obs, DOMAIN chain, reached, elapsed)
      /\ owner' = Decide(owner, chain, obs')
      /\ owner' \in DOMAIN chain
  BY DecideFacts
<1>2. obs \in [Candidates -> Observation] /\ sinceFailover \in 0..MaxAge
  BY DEF TypeInv, TypeOK
<1>3. Eligible' = Eligible /\ hosts' = hosts /\ pc' # "probing"
  BY DEF PassDecide, worldVars, Eligible
<1>4. ASSUME ~touched' PROVE chain = Eligible
  <2>1. touched => chain = Eligible
    BY <1>4 DEF PassDecide
  <2>. QED  BY <2>1 DEF AgeInv, PassDecide
<1>5. ASSUME ~touched', NEW x \in DOMAIN Eligible, hosts[x] < hosts[owner'],
             obs'[x].seen = "up"
      PROVE  obs'[x].age <= sinceFailover'
  <2>1. x \in DOMAIN chain /\ chain[x] < chain[owner']
    BY <1>1, <1>4, <1>5, EligibleFacts DEF TypeInv
  <2>2. owner \in DOMAIN chain /\ ~Expired(owner, obs') /\ chain[x] < chain[owner]
    BY <1>1, <1>5, <2>1, DecideLeavesNoneUpAbove
  <2>3. ~touched /\ sinceFailover' = Later(sinceFailover, elapsed)
    <3>1. ~IsFailover(owner, Decide(owner, chain, obs'), obs')
      BY <2>2 DEF IsFailover
    <3>. QED  BY <1>1, <1>5, <3>1 DEF PassDecide
  <2>4. CASE obs'[x].age = 0
    <3>1. Later(sinceFailover, elapsed) \in 0..MaxAge
      BY <1>1, <1>2, LaterInRange
    <3>. QED  BY <2>3, <2>4, <3>1
  <2>5. CASE obs[x].seen = "up" /\ obs'[x].age = Later(obs[x].age, elapsed)
    <3>1. hosts[x] < hosts[owner] /\ owner # NoHost
      <4>1. NoHost \notin DOMAIN chain
        BY <1>1, ChainAssumption DEF Candidates, NoHost
      <4>. QED  BY <1>4, <1>5, <2>1, <2>2, <4>1, EligibleFacts DEF TypeInv
    <3>2. obs[x].age <= sinceFailover
      BY <1>5, <2>3, <2>5, <3>1 DEF AgeInv
    <3>3. obs[x].age \in 0..MaxAge
      BY <1>1, <1>2, <2>1 DEF Observation
    <3>. QED  BY <1>1, <1>2, <2>3, <2>5, <3>2, <3>3, LaterMonotonic
  <2>. QED  BY <1>1, <1>2, <1>5, <2>1, <2>4, <2>5, ObserveAge
<1>. QED  BY <1>1, <1>3, <1>4, <1>5 DEF AgeInv

LEMMA AgeInvStep == TypeInv /\ AgeInv /\ [Next]_vars => AgeInv'
<1>. SUFFICES ASSUME TypeInv, AgeInv, [Next]_vars PROVE AgeInv'
  OBVIOUS
<1>1. CASE LoopStart
  BY <1>1 DEF LoopStart, AgeInv, Eligible, trackerVars, engineVars, worldVars, historyVars
<1>2. CASE PassBegin
  BY <1>2 DEF PassBegin, AgeInv, Eligible, trackerVars, worldVars
<1>3. ASSUME NEW elapsed \in 1..MaxAge, NEW reached \in ProbeAnswers,
             PassDecide(elapsed, reached)
      PROVE  AgeInv'
  BY <1>3, AgeInvDecide
<1>4. CASE EngineStep
  BY <1>4, EngineStepLeaves DEF AgeInv, Eligible
<1>5. CASE ProcessStep
  BY <1>5, ProcessStepLeaves DEF AgeInv, Eligible
<1>6. CASE Restart
  BY <1>6 DEF Restart, AgeInv
<1>7. CASE Stabilise
  BY <1>7 DEF Stabilise, AgeInv, Eligible, trackerVars, engineVars, historyVars
<1>8. ASSUME NEW x \in Candidates, SetDormant(x) PROVE AgeInv'
  BY <1>8 DEF SetDormant, AgeInv
<1>9. ASSUME NEW c \in Placements, Placement(c) PROVE AgeInv'
  BY <1>9 DEF Placement, AgeInv
<1>10. CASE UNCHANGED vars
  BY <1>10 DEF vars, AgeInv, Eligible
<1>. QED
  BY <1>1, <1>2, <1>3, <1>4, <1>5, <1>6, <1>7, <1>8, <1>9, <1>10, NextCases

(* After a failover, and as long as chain and dormant switch are left      *)
(* alone, ownership goes back up the chain no sooner than failback_after_s *)
(* later: a host that keeps coming and going cannot take it back early.    *)
THEOREM HubNoFlap == Spec => NoFlap
<1>1. Init => AgeInv
  BY DEF Init, FreshTracker, AgeInv
<1>2. TypeInv /\ AgeInv /\ [Next]_vars
        => [HandBack /\ ~touched => sinceFailover' >= FailbackAfter]_vars
  <2>. SUFFICES ASSUME TypeInv, AgeInv, Next, HandBack, ~touched
                PROVE  sinceFailover' >= FailbackAfter
    OBVIOUS
  <2>1. pc = "probing" /\ owner \in DOMAIN chain /\ owner' \in DOMAIN chain
        /\ chain[owner'] < chain[owner] /\ ~Expired(owner, obs')
    BY DEF HandBack
  <2>2. owner' # owner
    <3>1. chain[owner] \in Nat
      BY <2>1, PlacesOfChain DEF TypeInv, TypeOK
    <3>. QED  BY <2>1, <3>1
  <2>3. ASSUME NEW elapsed \in 1..MaxAge, NEW reached \in ProbeAnswers,
               PassDecide(elapsed, reached)
        PROVE  sinceFailover' >= FailbackAfter
    <3>1. /\ elapsed \in Nat
          /\ IsChain(chain) /\ DOMAIN chain \subseteq Candidates
          /\ obs' = Observe(obs, DOMAIN chain, reached, elapsed)
          /\ owner' = Decide(owner, chain, obs')
      BY <2>3, DecideFacts
    <3>2. obs'[owner'].seen = "up" /\ obs'[owner'].age >= FailbackAfter
      BY <2>1, <2>2, <3>1, DecideHandsBackStable
    <3>3. sinceFailover' = Later(sinceFailover, elapsed)
      <4>1. ~IsFailover(owner, Decide(owner, chain, obs'), obs')
        BY <2>1 DEF IsFailover
      <4>. QED  BY <2>3, <3>1, <4>1 DEF PassDecide
    <3>4. obs \in [Candidates -> Observation] /\ sinceFailover \in 0..MaxAge
      BY DEF TypeInv, TypeOK
    <3>5. chain = Eligible
      BY <2>1 DEF AgeInv
    <3>6. hosts[owner'] < hosts[owner] /\ owner # NoHost
      <4>1. NoHost \notin DOMAIN chain
        BY <3>1, ChainAssumption DEF Candidates, NoHost
      <4>. QED  BY <2>1, <3>5, <4>1, EligibleFacts DEF TypeInv
    <3>7. CASE obs'[owner'].age = 0
      <4>1. FailbackAfter = 0
        BY <3>2, <3>7, WindowAssumption
      <4>2. sinceFailover' \in 0..MaxAge
        BY <3>1, <3>3, <3>4, LaterInRange
      <4>. QED  BY <4>1, <4>2
    <3>8. CASE obs[owner'].seen = "up" /\ obs'[owner'].age = Later(obs[owner'].age, elapsed)
      <4>1. obs[owner'].age <= sinceFailover
        BY <2>1, <3>5, <3>6, <3>8 DEF AgeInv
      <4>2. obs[owner'].age \in 0..MaxAge
        BY <2>1, <3>1, <3>4 DEF Observation
      <4>3. Later(obs[owner'].age, elapsed) <= Later(sinceFailover, elapsed)
        BY <3>1, <3>4, <4>1, <4>2, LaterMonotonic
      <4>4. Later(obs[owner'].age, elapsed) \in 0..MaxAge
            /\ Later(sinceFailover, elapsed) \in 0..MaxAge
        BY <3>1, <3>4, <4>2, LaterInRange
      <4>. QED  BY <3>2, <3>3, <3>8, <4>3, <4>4, WindowAssumption
    <3>. QED  BY <2>1, <3>1, <3>2, <3>4, <3>7, <3>8, ObserveAge
  <2>4. CASE ~\E elapsed \in 1..MaxAge, reached \in ProbeAnswers :
                 PassDecide(elapsed, reached)
    <3>1. owner' \in {owner, NoHost}
      <4>1. CASE EngineStep \/ ProcessStep
        BY <4>1, EngineStepLeaves, ProcessStepLeaves
      <4>2. CASE LoopStart \/ PassBegin \/ Restart \/ Stabilise
        BY <4>2 DEF LoopStart, PassBegin, Restart, Stabilise, trackerVars
      <4>3. ASSUME NEW x \in Candidates, SetDormant(x) PROVE owner' = owner
        BY <4>3 DEF SetDormant, trackerVars
      <4>4. ASSUME NEW c \in Placements, Placement(c) PROVE owner' = owner
        BY <4>4 DEF Placement, trackerVars
      <4>5. CASE UNCHANGED vars
        BY <4>5 DEF vars
      <4>. QED  BY <2>4, <4>1, <4>2, <4>3, <4>4, <4>5, NextCases
    <3>2. NoHost \notin DOMAIN chain
      BY ChainAssumption DEF TypeInv, TypeOK, IsChain, Candidates, NoHost
    <3>. QED  BY <2>1, <2>2, <3>1, <3>2
  <2>. QED  BY <2>3, <2>4
<1>3. Spec => []AgeInv
  BY <1>1, AgeInvStep, TypeInvHolds, PTL DEF Spec
<1>. QED  BY <1>2, <1>3, TypeInvHolds, PTL DEF Spec, NoFlap

-----------------------------------------------------------------------------
(* The mark and the process. TLC refutes StopsOnlyEngineStarted: a marked  *)
(* process may end, or be stopped by hand, and another start take its      *)
(* place under the mark; it may do so before the mark is set, too. From    *)
(* the spawn to the release of the mark the engine holds the model; while  *)
(* nobody else ends a process that it holds, it stops only its own.        *)

Held == marked \/ pc = "mark"

LastingSpec == Init /\ [][Next /\ ~(Held /\ InstanceEnds)]_vars

(* A stop has ended the engine's process by "clear"; what is started after *)
(* that loses the mark with it.                                            *)
OwnInv ==
    /\ Held /\ pc \notin {"clear", "unmark"} => inst = "engine"
    /\ pc \in {"release", "stop"} => marked

LEMMA OwnInvStep == OwnInv /\ [Next /\ ~(Held /\ InstanceEnds)]_vars => OwnInv'
<1>. SUFFICES ASSUME OwnInv, [Next]_vars, ~(Held /\ InstanceEnds) \/ UNCHANGED vars
              PROVE  OwnInv'
  OBVIOUS
<1>. USE DEF OwnInv, Held
<1>1. CASE LoopStart
  BY <1>1 DEF LoopStart, engineVars
<1>2. CASE PassBegin
  BY <1>2 DEF PassBegin
<1>3. ASSUME NEW elapsed \in 1..MaxAge, NEW reached \in ProbeAnswers,
             PassDecide(elapsed, reached)
      PROVE  OwnInv'
  <2>1. pc = "probing" /\ inst' = inst /\ marked' = marked
    BY <1>3 DEF PassDecide
  <2>2. pc' \in {"ensure", "release", "idle"} /\ (pc' = "release" => marked)
    BY <1>3 DEF PassDecide
  <2>. QED  BY <2>1, <2>2
<1>4. CASE EnsureCheck
  BY <1>4 DEF EnsureCheck
<1>5. CASE EngineStart
  BY <1>5 DEF EngineStart
<1>6. CASE EngineMark
  BY <1>6 DEF EngineMark
<1>7. CASE ReleaseCheck
  BY <1>7 DEF ReleaseCheck
<1>8. CASE EngineStop \/ EngineClear \/ EngineUnmark
  BY <1>8 DEF EngineStop, EngineClear, EngineUnmark
<1>9. CASE Restart
  BY <1>9 DEF Restart
<1>10. CASE HandStart \/ ExternalStart
  BY <1>10 DEF HandStart, ExternalStart, engineVars
<1>11. CASE InstanceEnds /\ ~Held
  BY <1>11 DEF InstanceEnds, engineVars
<1>12. CASE Stabilise
  BY <1>12 DEF Stabilise, engineVars
<1>13. ASSUME NEW x \in Candidates, SetDormant(x) PROVE OwnInv'
  BY <1>13 DEF SetDormant, engineVars
<1>14. ASSUME NEW c \in Placements, Placement(c) PROVE OwnInv'
  BY <1>14 DEF Placement, engineVars
<1>15. CASE UNCHANGED vars
  BY <1>15 DEF vars
<1>. QED
  BY <1>1, <1>2, <1>3, <1>4, <1>5, <1>6, <1>7, <1>8, <1>9, <1>10, <1>11, <1>12,
     <1>13, <1>14, <1>15, NextCases DEF EngineStep, ProcessStep

(* The docstring's promise (model_failover.py, lines 22-26) holds of every *)
(* run in which, between the engine's spawn and the release of its mark,   *)
(* no process ends but by the engine: what the engine stops it started     *)
(* itself, whatever is started meanwhile and whatever placements do.       *)
THEOREM HubStopsItsOwn == LastingSpec => StopsOnlyEngineStarted
<1>1. Init => OwnInv
  BY DEF Init, FreshTracker, OwnInv, Held
<1>2. OwnInv /\ [Next /\ ~(Held /\ InstanceEnds)]_vars
        => [EngineEndsProcess => inst = "engine"]_vars
  BY DEF OwnInv, Held, EngineEndsProcess
<1>. QED  BY <1>1, <1>2, OwnInvStep, PTL DEF LastingSpec, StopsOnlyEngineStarted
=============================================================================
