------------------------- MODULE FailoverFleet_proofs -------------------------
(***************************************************************************)
(* Requests end although hubs decide alone and count no hops: for every    *)
(* number of hubs, every set of placements and any number of disruptions,  *)
(* from the moment the hubs agree on the chain.                            *)
(***************************************************************************)
EXTENDS FailoverFleet, OwnershipTracker_proofs

(* A peer reads its file once, when it starts; only the write host can     *)
(* hold an owner from before its file.                                     *)
Follows(h) == h # Writer \/ edit # "unread"
HasSettled(h) == h # Writer \/ edit = "settled"

(* A hub tracks no owner outside its chain and, in the chain, none below   *)
(* itself. The write host takes until its placement settles: it is then    *)
(* seen up, by itself, at least as long as it has known the new chain.     *)
TrackerInv ==
    /\ \A h \in Hubs : Follows(h) => owner[h] \in DOMAIN hosts[h] \cup {NoHost}
    /\ \A h \in Hubs :
          HasSettled(h) /\ owner[h] # NoHost /\ h \in DOMAIN hosts[h]
             => hosts[h][owner[h]] <= hosts[h][h]
    /\ edit = "read" /\ Writer \in DOMAIN hosts[Writer]
          => obs[Writer][Writer].seen = "up" /\ sinceRead <= obs[Writer][Writer].age

(* The request goes up the write host's chain: after k forwards the hub in *)
(* place p that has it satisfies p + k <= N + 1, and a hub outside the     *)
(* chain has it before the first forward.                                  *)
Descent ==
    IF at \in DOMAIN hosts[Writer] THEN hosts[Writer][at] + hops <= N + 1
                                   ELSE hops = 0

-----------------------------------------------------------------------------
(* Facts about single actions.                                             *)

AnyPass(h) ==
    \E elapsed \in 1..MaxAge, reached \in SUBSET Candidates :
        (h \in DOMAIN Eligible(h) => h \in reached) /\ Pass(h, elapsed, reached)

RequestStep == \/ \E h \in Hubs : Arrive(h)
               \/ Serve \/ Forward

LEMMA WriterIsHub == Writer \in Hubs /\ NoHost \notin Hubs /\ Candidates \subseteq Hubs
BY ChainAssumption, FleetAssumption DEF Hubs, NoHost, Candidates

LEMMA HostsFacts ==
    ASSUME TypeOK, NEW h \in Hubs
    PROVE  /\ hosts[h] \in Placements /\ IsChain(hosts[h]) /\ DOMAIN hosts[h] # {}
           /\ DOMAIN hosts[h] \subseteq Candidates
           /\ IsChain(Eligible(h)) /\ DOMAIN Eligible(h) = DOMAIN hosts[h] \ dormant[h]
           /\ \A x \in DOMAIN Eligible(h) : Eligible(h)[x] = hosts[h][x]
<1>1. hosts[h] \in Placements /\ IsChain(hosts[h]) /\ DOMAIN hosts[h] # {}
  BY PlacementAssumption DEF TypeOK
<1>2. DOMAIN hosts[h] \subseteq Candidates
  BY <1>1 DEF IsChain
<1>3. /\ IsChain(Eligible(h)) /\ DOMAIN Eligible(h) = DOMAIN hosts[h] \ dormant[h]
      /\ \A x \in DOMAIN Eligible(h) : Eligible(h)[x] = hosts[h][x]
  <2>1. IsChain(Eligible(h))
    BY <1>1, EligibleIsChain, Zenon DEF Eligible
  <2>2. DOMAIN Eligible(h) = DOMAIN hosts[h] \ dormant[h]
    BY <1>1, EligibleIsChain, Zenon DEF Eligible
  <2>3. \A x \in DOMAIN hosts[h] \ dormant[h] : Eligible(h)[x] = hosts[h][x]
    BY <1>1, EligibleIsChain, Zenon DEF Eligible
  <2>. QED  BY <2>1, <2>2, <2>3
<1>. QED  BY <1>1, <1>2, <1>3

(* A hub that is up always answers its own probe.                          *)
LEMMA PassSeesSelf ==
    ASSUME TypeOK, NEW h \in Hubs, TruePass(h) \/ LossyPass(h)
    PROVE  AnyPass(h)
<1>1. Answering(h) \subseteq Candidates
  BY HostsFacts DEF Answering
<1>2. CASE TruePass(h)
  <2>1. PICK elapsed \in 1..MaxAge : Pass(h, elapsed, Answering(h))
    BY <1>2 DEF TruePass
  <2>2. h \in DOMAIN Eligible(h) => h \in Answering(h)
    BY <2>1 DEF Pass, Answering
  <2>. QED  BY <1>1, <2>1, <2>2 DEF AnyPass
<1>3. CASE LossyPass(h)
  <2>1. PICK elapsed \in 1..MaxAge, missed \in Answering(h) \ {h} :
            Pass(h, elapsed, Answering(h) \ {missed})
    BY <1>3 DEF LossyPass
  <2>2. h \in DOMAIN Eligible(h) => h \in Answering(h) \ {missed}
    BY <2>1 DEF Pass, Answering
  <2>. QED  BY <1>1, <2>1, <2>2 DEF AnyPass
<1>. QED  BY <1>2, <1>3

LEMMA NextCases ==
    ASSUME TypeOK, [Next]_vars
    PROVE  \/ \E h \in Hubs : LoopStart(h) \/ Recover(h)
           \/ \E h \in Hubs : (TruePass(h) \/ LossyPass(h)) /\ AnyPass(h)
           \/ \E h \in Hubs : Crash(h) \/ Restart(h) \/ Sync(h)
           \/ \E h \in Hubs, x \in Candidates : SetDormant(h, x)
           \/ \E c \in Placements : Placement(c)
           \/ RequestStep
           \/ UNCHANGED vars
BY PassSeesSelf DEF Next, HubStep, Disruption, RequestStep

(* A hub that loses its memory, by a crash, a restart or a sync.           *)
LEMMA ForgetFacts ==
    ASSUME TypeOK, NEW h \in Hubs, Crash(h) \/ Restart(h) \/ Sync(h)
    PROVE  /\ Forget(h)
           /\ owner' = [owner EXCEPT ![h] = NoHost]
           /\ hosts' \in [Hubs -> Placements] /\ hosts'[Writer] = hosts[Writer]
           /\ \A k \in Hubs : k # h => /\ owner'[k] = owner[k] /\ obs'[k] = obs[k]
                                       /\ hosts'[k] = hosts[k]
           /\ owner'[h] = NoHost
           /\ h = Writer => edit' = "settled" /\ sinceRead' = 0
           /\ h # Writer => UNCHANGED <<edit, sinceRead>>
           /\ UNCHANGED requestVars \/ RequestOver
<1>1. Forget(h) /\ (hosts' = hosts \/ hosts' = [hosts EXCEPT ![h] = hosts[Writer]])
  BY DEF Crash, Restart, Sync
<1>2. hosts' \in [Hubs -> Placements] /\ hosts'[Writer] = hosts[Writer]
      /\ \A k \in Hubs : k # h => hosts'[k] = hosts[k]
  BY <1>1, WriterIsHub DEF TypeOK
<1>. QED  BY <1>1, <1>2 DEF Forget, TypeOK

(* The observations a decision is made on, and the decision.               *)
LEMMA DecideFacts ==
    ASSUME TypeOK, NEW h \in Hubs, NEW elapsed \in 1..MaxAge, NEW reached,
           Pass(h, elapsed, reached)
    PROVE  /\ elapsed \in Nat /\ DOMAIN Eligible(h) # {}
           /\ obs' = [obs EXCEPT ![h] = obs'[h]] /\ owner' = [owner EXCEPT ![h] = owner'[h]]
           /\ obs'[h] = Observe(obs[h], DOMAIN Eligible(h), reached, elapsed)
           /\ obs'[h] \in [Candidates -> Observation]
           /\ owner'[h] = Decide(owner[h], Eligible(h), obs'[h])
           /\ owner'[h] \in DOMAIN Eligible(h)
           /\ hosts' = hosts
<1>. DEFINE seen == Observe(obs[h], DOMAIN Eligible(h), reached, elapsed)
<1>1. elapsed \in Nat /\ obs[h] \in [Candidates -> Observation]
  BY WindowAssumption DEF TypeOK
<1>2. DOMAIN Eligible(h) # {} /\ IsChain(Eligible(h))
  BY MultiHostNotEmpty, HostsFacts DEF Pass
<1>3. obs' = [obs EXCEPT ![h] = seen]
      /\ owner' = [owner EXCEPT ![h] = Decide(owner[h], Eligible(h), seen)]
  BY DEF Pass
<1>4. seen \in [Candidates -> Observation]
  BY <1>1, ObserveType
<1>5. Decide(owner[h], Eligible(h), seen) \in DOMAIN Eligible(h)
  BY <1>2, DecideInChain
<1>. HIDE DEF seen
<1>6. obs'[h] = seen /\ owner'[h] = Decide(owner[h], Eligible(h), seen)
  BY <1>3 DEF TypeOK
<1>7. hosts' = hosts
  BY DEF Pass
<1>. QED  BY <1>1, <1>2, <1>3, <1>4, <1>5, <1>6, <1>7 DEF seen

-----------------------------------------------------------------------------
(* Where a hub routes to.                                                  *)

LEMMA RouteIsHub ==
    ASSUME TypeOK, NEW h \in Hubs
    PROVE  Route(h) \in Hubs
<1>1. owner[h] \in Candidates \cup {NoHost} /\ hosts[h] \in Placements
  BY DEF TypeOK
<1>2. Route(h) \in Candidates
  BY <1>1, EffectiveOwnerIsCandidate DEF Route
<1>. QED  BY <1>2, WriterIsHub

(* Among hubs that agree, up the chain or nowhere.                         *)
LEMMA RouteUpTheChain ==
    ASSUME TypeOK, TrackerInv, Agreed, NEW h \in Hubs
    PROVE  /\ Route(h) \in DOMAIN hosts[Writer]
           /\ h \in DOMAIN hosts[Writer] => hosts[Writer][Route(h)] <= hosts[Writer][h]
<1>. DEFINE chain == hosts[Writer]
<1>1. hosts[h] = chain
  BY DEF Agreed
<1>2. IsChain(chain) /\ DOMAIN chain # {} /\ h \notin dormant[h]
  BY <1>1, HostsFacts DEF TypeOK
<1>3. owner[h] \in DOMAIN chain \cup {NoHost}
      /\ (owner[h] # NoHost /\ h \in DOMAIN chain => chain[owner[h]] <= chain[h])
  BY <1>1 DEF TrackerInv, Agreed, Follows, HasSettled
<1>4. Route(h) = EffectiveOwner(owner[h], chain, dormant[h])
  BY <1>1 DEF Route
<1>. HIDE DEF chain
<1>5. Route(h) \in DOMAIN chain
  BY <1>2, <1>3, <1>4, EffectiveOwnerInChain
<1>6. h \in DOMAIN chain => chain[Route(h)] <= chain[h]
  BY <1>2, <1>3, <1>4, EffectiveOwnerNotBelow
<1>. QED  BY <1>5, <1>6 DEF chain

-----------------------------------------------------------------------------
(* Type correctness.                                                       *)

LEMMA TypeInit == Init => TypeOK
<1>. SUFFICES ASSUME Init PROVE TypeOK
  OBVIOUS
<1>1. Unobserved \in [Candidates -> Observation]
  BY WindowAssumption DEF Unobserved, Observation
<1>2. 0 \in 0..MaxAge /\ 0 \in 0..MaxDisruptions
  BY WindowAssumption, DisruptionAssumption
<1>3. hosts \in [Hubs -> Placements]
  BY DEF Init
<1>. QED  BY <1>1, <1>2, <1>3 DEF Init, TypeOK

LEMMA DisruptType == TypeOK /\ Disrupt => disruptions' \in 0..MaxDisruptions
BY DisruptionAssumption DEF TypeOK, Disrupt

LEMMA TypeStep == TypeOK /\ [Next]_vars => TypeOK'
<1>. SUFFICES ASSUME TypeOK, [Next]_vars PROVE TypeOK'
  OBVIOUS
<1>1. ASSUME NEW h \in Hubs, LoopStart(h) \/ Recover(h) PROVE TypeOK'
  <2>1. loop' \in [Hubs -> {"boot", "running", "exited"}] /\ up' \in SUBSET Hubs
    BY <1>1 DEF LoopStart, Recover, TypeOK
  <2>. QED
    BY <1>1, <2>1 DEF LoopStart, Recover, TypeOK, trackerVars, fileVars, requestVars
<1>2. ASSUME NEW h \in Hubs, TruePass(h) \/ LossyPass(h), AnyPass(h) PROVE TypeOK'
  <2>1. disruptions' \in 0..MaxDisruptions
    BY <1>2, DisruptType DEF TruePass, LossyPass, TypeOK
  <2>2. PICK elapsed \in 1..MaxAge, reached \in SUBSET Candidates : Pass(h, elapsed, reached)
    BY <1>2 DEF AnyPass
  <2>3. owner'[h] \in Candidates /\ obs'[h] \in [Candidates -> Observation]
    BY <2>2, DecideFacts, HostsFacts
  <2>4. obs' \in [Hubs -> [Candidates -> Observation]]
        /\ owner' \in [Hubs -> Candidates \cup {NoHost}]
    BY <2>2, <2>3, DecideFacts DEF TypeOK
  <2>5. edit' \in {"settled", "unread", "read"} /\ sinceRead' \in 0..MaxAge
    <3>1. 0 \in 0..MaxAge /\ elapsed \in Nat
      BY WindowAssumption
    <3>2. Later(sinceRead, elapsed) \in 0..MaxAge
      BY <3>1, LaterInRange DEF TypeOK
    <3>. QED  BY <2>2, <3>1, <3>2 DEF Pass, EditSettles, TypeOK
  <2>. QED  BY <2>1, <2>2, <2>4, <2>5 DEF Pass, TypeOK, requestVars
<1>3. ASSUME NEW h \in Hubs, Crash(h) \/ Restart(h) \/ Sync(h) PROVE TypeOK'
  <2>1. disruptions' \in 0..MaxDisruptions /\ up' \in SUBSET Hubs
    BY <1>3, DisruptType DEF Crash, Restart, Sync, TypeOK
  <2>2. Unobserved \in [Candidates -> Observation] /\ 0 \in 0..MaxAge
    BY WindowAssumption DEF Unobserved, Observation
  <2>3. obs' \in [Hubs -> [Candidates -> Observation]]
        /\ owner' \in [Hubs -> Candidates \cup {NoHost}]
        /\ loop' \in [Hubs -> {"boot", "running", "exited"}]
    BY <1>3, <2>2, ForgetFacts DEF Forget, TypeOK
  <2>4. at' \in Hubs \cup {NoHost} /\ hops' \in Nat
    BY <1>3, ForgetFacts DEF RequestOver, requestVars, TypeOK
  <2>5. edit' \in {"settled", "unread", "read"} /\ sinceRead' \in 0..MaxAge
    BY <1>3, <2>2, ForgetFacts DEF TypeOK
  <2>6. hosts' \in [Hubs -> Placements] /\ dormant' = dormant
    BY <1>3, ForgetFacts DEF Forget
  <2>. QED  BY <2>1, <2>3, <2>4, <2>5, <2>6 DEF TypeOK
<1>4. ASSUME NEW h \in Hubs, NEW x \in Candidates, SetDormant(h, x) PROVE TypeOK'
  <2>1. disruptions' \in 0..MaxDisruptions
    BY <1>4, DisruptType DEF SetDormant
  <2>2. dormant' \in [Hubs -> SUBSET Candidates]
    BY <1>4 DEF SetDormant, TypeOK
  <2>3. \A k \in Hubs : k \notin dormant'[k]
    BY <1>4 DEF SetDormant, TypeOK
  <2>. QED
    BY <1>4, <2>1, <2>2, <2>3 DEF SetDormant, TypeOK, trackerVars, fileVars, requestVars
<1>5. ASSUME NEW c \in Placements, Placement(c) PROVE TypeOK'
  <2>1. disruptions' \in 0..MaxDisruptions
    BY <1>5, DisruptType DEF Placement
  <2>2. 0 \in 0..MaxAge
    BY WindowAssumption
  <2>3. hosts' \in [Hubs -> Placements]
    BY <1>5 DEF Placement, TypeOK
  <2>. QED  BY <1>5, <2>1, <2>2, <2>3 DEF Placement, TypeOK, trackerVars
<1>6. CASE RequestStep
  <2>1. at' \in Hubs \cup {NoHost} /\ hops' \in Nat
    <3>1. CASE Forward
      <4>1. Route(at) \in Hubs
        BY <3>1, RouteIsHub DEF Forward, TypeOK
      <4>. QED  BY <3>1, <4>1 DEF Forward, Moves, RequestOver, TypeOK
    <3>. QED  BY <1>6, <3>1 DEF RequestStep, Arrive, Serve, RequestOver
  <2>. QED
    BY <1>6, <2>1 DEF RequestStep, Arrive, Serve, Forward, TypeOK, trackerVars, fileVars
<1>7. CASE UNCHANGED vars
  BY <1>7 DEF vars, TypeOK
<1>. QED  BY <1>1, <1>2, <1>3, <1>4, <1>5, <1>6, <1>7, NextCases

(* Every variable of the fleet keeps its type.                             *)
THEOREM FleetTypeCorrect == Spec => []TypeOK
BY TypeInit, TypeStep, PTL DEF Spec

-----------------------------------------------------------------------------
(* Trackers.                                                               *)

(* Over a decision of hub h. In its chain it always sees itself up: no     *)
(* owner above it is exchanged for one below, and one that a placement put *)
(* below it goes when the hub has been up for the failback window.         *)
LEMMA TrackerInvPass ==
    ASSUME TypeOK, TrackerInv, NEW h \in Hubs, AnyPass(h)
    PROVE  TrackerInv'
<1>1. PICK elapsed \in 1..MaxAge, reached \in SUBSET Candidates :
          (h \in DOMAIN Eligible(h) => h \in reached) /\ Pass(h, elapsed, reached)
  BY DEF AnyPass
<1>. DEFINE c == Eligible(h)
<1>2. /\ elapsed \in Nat /\ DOMAIN c # {}
      /\ obs' = [obs EXCEPT ![h] = obs'[h]] /\ owner' = [owner EXCEPT ![h] = owner'[h]]
      /\ obs'[h] = Observe(obs[h], DOMAIN c, reached, elapsed)
      /\ obs'[h] \in [Candidates -> Observation]
      /\ owner'[h] = Decide(owner[h], c, obs'[h])
      /\ owner'[h] \in DOMAIN c
      /\ hosts' = hosts
  BY <1>1, DecideFacts
<1>3. /\ IsChain(c) /\ DOMAIN c = DOMAIN hosts[h] \ dormant[h]
      /\ \A x \in DOMAIN c : c[x] = hosts[h][x]
      /\ DOMAIN c \subseteq Candidates
  BY HostsFacts
<1>4. /\ obs[h] \in [Candidates -> Observation] /\ sinceRead \in 0..MaxAge
      /\ edit \in {"settled", "unread", "read"} /\ h \notin dormant[h]
  BY DEF TypeOK
<1>5. EditSettles(h, elapsed)
  BY <1>1 DEF Pass
<1>6. h \in DOMAIN c => h \in reached
  BY <1>1
<1>. HIDE DEF c
<1>7. \A k \in Hubs : k # h => owner'[k] = owner[k] /\ obs'[k] = obs[k]
  BY <1>2 DEF TypeOK
<1>8. ASSUME NEW k \in Hubs, k # h PROVE Follows(k)' => Follows(k) /\ (HasSettled(k)' => HasSettled(k))
  BY <1>5, <1>8 DEF EditSettles, Follows, HasSettled
<1>9. /\ h # Writer => edit' = edit /\ sinceRead' = sinceRead
      /\ edit' = "unread" => edit = "unread"
  BY <1>5 DEF EditSettles
<1>10. ASSUME h \in DOMAIN hosts[h]
       PROVE  /\ HasSettled(h)' => hosts[h][owner'[h]] <= hosts[h][h]
              /\ h = Writer /\ edit' = "read"
                    => obs'[h][h].seen = "up" /\ sinceRead' <= obs'[h][h].age
  <2>1. h \in DOMAIN c /\ h \in Candidates /\ h \in reached
    BY <1>3, <1>4, <1>6, <1>10
  <2>2. obs'[h][h].seen = "up"
    BY <1>2, <1>4, <2>1, ObserveSees
  <2>3. obs'[h][h].age \in Nat
    BY <1>2, <2>1 DEF Observation
  <2>4. ASSUME HasSettled(h) PROVE c[owner'[h]] <= c[h]
    <3>1. NoHost \notin DOMAIN c
      BY <1>3, ChainAssumption DEF Candidates, NoHost
    <3>2. owner[h] \in DOMAIN c => c[owner[h]] <= c[h]
      BY <1>3, <1>10, <2>1, <2>4, <3>1 DEF TrackerInv
    <3>. QED  BY <1>2, <1>3, <2>1, <2>2, <3>2, DecideNotBelow
  <2>5. CASE HasSettled(h)
    <3>1. h = Writer => edit' # "read"
      BY <1>5, <2>5 DEF EditSettles, HasSettled
    <3>. QED  BY <1>2, <1>3, <2>1, <2>4, <2>5, <3>1
  <2>6. CASE ~HasSettled(h)
    <3>. DEFINE since == IF edit = "read" THEN Later(sinceRead, elapsed) ELSE 0
    <3>1. h = Writer /\ edit # "settled"
      BY <2>6 DEF HasSettled
    <3>2. /\ edit' = IF AutoFailback /\ since >= FailbackAfter THEN "settled" ELSE "read"
          /\ sinceRead' = IF edit' = "read" THEN since ELSE 0
      BY <1>5, <3>1 DEF EditSettles
    <3>3. since <= obs'[h][h].age
      <4>1. CASE edit = "read"
        <5>1. obs[h][h].seen = "up" /\ sinceRead <= obs[h][h].age
          BY <1>10, <3>1, <4>1 DEF TrackerInv
        <5>2. obs[h][h] \in Observation /\ obs[h][h].age \in 0..MaxAge
          BY <1>4, <2>1 DEF Observation
        <5>3. obs'[h][h] = ObserveHost(obs[h][h], TRUE, elapsed)
          BY <1>2, <2>1 DEF Observe
        <5>4. obs'[h][h].age = Later(obs[h][h].age, elapsed)
          BY <5>1, <5>2, <5>3 DEF ObserveHost, Observation
        <5>. QED  BY <1>2, <1>4, <4>1, <5>1, <5>2, <5>4, LaterMonotonic
      <4>2. CASE edit # "read"
        BY <2>3, <4>2
      <4>. QED  BY <4>1, <4>2
    <3>4. since \in Nat
      BY <1>2, <1>4, LaterInRange
    <3>. HIDE DEF since
    <3>5. ASSUME HasSettled(h)' PROVE c[owner'[h]] <= c[h]
      <4>1. AutoFailback /\ since >= FailbackAfter
        BY <3>1, <3>2, <3>5 DEF HasSettled
      <4>2. obs'[h][h].age >= FailbackAfter
        BY <2>3, <3>3, <3>4, <4>1, WindowAssumption
      <4>. QED  BY <1>2, <1>3, <2>1, <2>2, <4>1, <4>2, DecideCatchesUp
    <3>. QED  BY <1>2, <1>3, <2>1, <2>2, <3>2, <3>3, <3>5
  <2>. QED  BY <2>5, <2>6
<1>11. owner'[h] \in DOMAIN hosts[h]
  BY <1>2, <1>3
<1>12. \A k \in Hubs : Follows(k)' => owner'[k] \in DOMAIN hosts'[k] \cup {NoHost}
  BY <1>2, <1>7, <1>8, <1>11 DEF TrackerInv
<1>13. \A k \in Hubs :
          HasSettled(k)' /\ owner'[k] # NoHost /\ k \in DOMAIN hosts'[k]
             => hosts'[k][owner'[k]] <= hosts'[k][k]
  <2>1. \A k \in Hubs : HasSettled(k)' => Follows(k)'
    BY DEF HasSettled, Follows
  <2>. QED  BY <1>2, <1>7, <1>8, <1>10, <2>1 DEF TrackerInv
<1>14. edit' = "read" /\ Writer \in DOMAIN hosts'[Writer]
          => obs'[Writer][Writer].seen = "up" /\ sinceRead' <= obs'[Writer][Writer].age
  <2>1. CASE h = Writer
    BY <1>2, <1>10, <2>1
  <2>2. CASE h # Writer
    BY <1>2, <1>7, <1>9, <2>2, WriterIsHub DEF TrackerInv
  <2>. QED  BY <2>1, <2>2
<1>. QED  BY <1>12, <1>13, <1>14 DEF TrackerInv

LEMMA TrackerInvStep == TypeOK /\ TrackerInv /\ [Next]_vars => TrackerInv'
<1>. SUFFICES ASSUME TypeOK, TrackerInv, [Next]_vars PROVE TrackerInv'
  OBVIOUS
<1>1. ASSUME NEW h \in Hubs, AnyPass(h) PROVE TrackerInv'
  BY <1>1, TrackerInvPass
<1>2. ASSUME NEW h \in Hubs, Crash(h) \/ Restart(h) \/ Sync(h) PROVE TrackerInv'
  <2>1. /\ \A k \in Hubs : k # h => /\ owner'[k] = owner[k] /\ obs'[k] = obs[k]
                                    /\ hosts'[k] = hosts[k]
        /\ owner'[h] = NoHost
        /\ h = Writer => edit' = "settled"
        /\ h # Writer => edit' = edit /\ sinceRead' = sinceRead
    BY <1>2, ForgetFacts
  <2>2. \A k \in Hubs : k # h => (Follows(k)' => Follows(k)) /\ (HasSettled(k)' => HasSettled(k))
    BY <2>1 DEF Follows, HasSettled
  <2>. QED  BY <2>1, <2>2, WriterIsHub DEF TrackerInv
<1>3. ASSUME NEW c \in Placements, Placement(c) PROVE TrackerInv'
  <2>1. /\ \A k \in Hubs : k # Writer => hosts'[k] = hosts[k]
        /\ owner' = owner /\ edit' = "unread"
    BY <1>3 DEF Placement, TypeOK, trackerVars
  <2>2. \A k \in Hubs : /\ Follows(k)' => k # Writer /\ Follows(k)
                        /\ HasSettled(k)' => k # Writer /\ HasSettled(k)
    BY <2>1 DEF Follows, HasSettled
  <2>. QED  BY <2>1, <2>2 DEF TrackerInv
<1>4. ASSUME UNCHANGED <<obs, owner, hosts, edit, sinceRead>> PROVE TrackerInv'
  BY <1>4 DEF TrackerInv, Follows, HasSettled
<1>. QED
  BY <1>1, <1>2, <1>3, <1>4, NextCases
  DEF LoopStart, Recover, SetDormant, RequestStep, Arrive, Serve, Forward,
      trackerVars, fileVars, vars

LEMMA TrackerInvHolds == Spec => []TrackerInv
<1>1. Init => TrackerInv
  BY DEF Init, TrackerInv
<1>. QED  BY <1>1, TrackerInvStep, FleetTypeCorrect, PTL DEF Spec

(* At no moment does a set of hubs that agree forward requests only among  *)
(* itself: the preferred host of the chain among them routes to itself or  *)
(* out of the set, and if there is none of the chain, everyone does.       *)
THEOREM FleetNoForwardingLoop == Spec => []NoForwardingLoop
<1>1. TypeOK /\ TrackerInv => NoForwardingLoop
  <2>. SUFFICES ASSUME TypeOK, TrackerInv, Agreed, NEW S \in SUBSET Hubs, S # {}
                PROVE  \E h \in S : Route(h) \notin S \/ Route(h) = h
    BY DEF NoForwardingLoop
  <2>. DEFINE chain == hosts[Writer]
              inChain == S \cap DOMAIN chain
  <2>1. IsChain(chain)
    BY HostsFacts, WriterIsHub
  <2>2. \A h \in S : /\ Route(h) \in DOMAIN chain
                     /\ h \in DOMAIN chain => chain[Route(h)] <= chain[h]
    BY RouteUpTheChain
  <2>. HIDE DEF chain
  <2>3. CASE inChain = {}
    BY <2>2, <2>3
  <2>4. CASE inChain # {}
    <3>. DEFINE best == Best(inChain, chain)
    <3>1. best \in inChain /\ \A x \in inChain : chain[best] <= chain[x]
      BY <2>1, <2>4, BestOfChain
    <3>. HIDE DEF best
    <3>2. Route(best) \in DOMAIN chain /\ chain[Route(best)] <= chain[best]
      BY <2>2, <3>1
    <3>3. chain[best] \in Nat /\ chain[Route(best)] \in Nat
          /\ (chain[Route(best)] = chain[best] => Route(best) = best)
      BY <2>1, <3>1, <3>2, PlacesOfChain
    <3>4. Route(best) \in S => Route(best) = best
      BY <3>1, <3>2, <3>3
    <3>. QED  BY <3>1, <3>4
  <2>. QED  BY <2>3, <2>4
<1>. QED  BY <1>1, FleetTypeCorrect, TrackerInvHolds, PTL

-----------------------------------------------------------------------------
(* The request.                                                            *)

LEMMA DescentStep ==
    TypeOK /\ TrackerInv /\ Descent /\ [Next]_vars => Descent'
<1>. SUFFICES ASSUME TypeOK, TrackerInv, Descent, [Next]_vars PROVE Descent'
  OBVIOUS
<1>1. ASSUME hops' = 0, hosts'[Writer] \in Placements PROVE Descent'
  <2>1. \A x \in DOMAIN hosts'[Writer] : hosts'[Writer][x] \in 1..N
    BY <1>1, PlacementAssumption DEF IsChain
  <2>. QED  BY <1>1, <2>1, ChainAssumption DEF Descent
<1>2. ASSUME hosts'[Writer] = hosts[Writer], UNCHANGED requestVars PROVE Descent'
  BY <1>2 DEF Descent, requestVars
<1>3. hosts[Writer] \in Placements /\ NoHost \notin DOMAIN hosts[Writer]
  BY WriterIsHub, HostsFacts
<1>4. ASSUME NEW h \in Hubs, Crash(h) \/ Restart(h) \/ Sync(h) PROVE Descent'
  <2>1. hosts'[Writer] = hosts[Writer] /\ (UNCHANGED requestVars \/ hops' = 0)
    BY <1>4, ForgetFacts DEF RequestOver
  <2>. QED  BY <1>1, <1>2, <1>3, <2>1
<1>5. ASSUME NEW c \in Placements, Placement(c) PROVE Descent'
  <2>1. hosts'[Writer] = c /\ hops' = 0
    BY <1>5, WriterIsHub DEF Placement, TypeOK
  <2>. QED  BY <1>1, <2>1
<1>6. CASE Forward
  <2>1. hosts' = hosts
    BY <1>6 DEF Forward, fileVars
  <2>2. CASE Route(at) \in up /\ Agreed
    <3>1. at' = Route(at) /\ hops' = hops + 1 /\ Route(at) # at /\ at \in Hubs /\ hops \in Nat
      BY <1>6, <2>2 DEF Forward, Moves, TypeOK
    <3>. DEFINE chain == hosts[Writer]
    <3>2. Route(at) \in DOMAIN chain
          /\ (at \in DOMAIN chain => chain[Route(at)] <= chain[at])
      BY <2>2, <3>1, RouteUpTheChain
    <3>3. IsChain(chain)
      BY HostsFacts, WriterIsHub
    <3>4. /\ at \in DOMAIN chain => chain[at] + hops <= N + 1
          /\ at \notin DOMAIN chain => hops = 0
      BY DEF Descent
    <3>. HIDE DEF chain
    <3>5. chain[Route(at)] + (hops + 1) <= N + 1
      <4>1. CASE at \in DOMAIN chain
        <5>1. chain[at] \in Nat /\ chain[Route(at)] \in Nat /\ chain[Route(at)] # chain[at]
          BY <3>1, <3>2, <3>3, <4>1, PlacesOfChain
        <5>. QED  BY <3>1, <3>2, <3>4, <4>1, <5>1, ChainAssumption
      <4>2. CASE at \notin DOMAIN chain
        <5>1. chain[Route(at)] \in 1..N
          BY <3>2, <3>3 DEF IsChain
        <5>. QED  BY <3>4, <4>2, <5>1, ChainAssumption
      <4>. QED  BY <4>1, <4>2
    <3>. QED  BY <2>1, <3>1, <3>2, <3>5 DEF Descent, chain
  <2>3. CASE ~(Route(at) \in up /\ Agreed)
    <3>1. hops' = 0
      BY <1>6, <2>3 DEF Forward, Moves, RequestOver
    <3>. QED  BY <1>1, <1>3, <2>1, <3>1
  <2>. QED  BY <2>2, <2>3
<1>7. CASE Serve \/ \E h \in Hubs : Arrive(h)
  BY <1>1, <1>3, <1>7 DEF Serve, RequestOver, Arrive, fileVars
<1>8. ASSUME hosts' = hosts, UNCHANGED requestVars PROVE Descent'
  BY <1>2, <1>8
<1>9. ASSUME NEW h \in Hubs, AnyPass(h) PROVE Descent'
  BY <1>8, <1>9 DEF AnyPass, Pass
<1>. QED
  BY <1>4, <1>5, <1>6, <1>7, <1>8, <1>9, NextCases
  DEF LoopStart, Recover, SetDormant, RequestStep, fileVars, requestVars, vars

(* From the moment the hubs agree a request is forwarded at most N times,  *)
(* although no hop is counted and ownership may move at every hub while it *)
(* is on its way.                                                          *)
THEOREM FleetHopsBounded == Spec => []HopsBounded
<1>1. Init => Descent
  <2>. SUFFICES ASSUME Init PROVE Descent
    OBVIOUS
  <2>1. TypeOK
    BY TypeInit
  <2>2. at \notin DOMAIN hosts[Writer] /\ hops = 0
    BY <2>1, WriterIsHub, HostsFacts DEF Init
  <2>. QED  BY <2>2 DEF Descent
<1>2. TypeOK /\ Descent => HopsBounded
  <2>. SUFFICES ASSUME TypeOK, Descent PROVE hops <= N
    BY DEF HopsBounded
  <2>1. hops \in Nat /\ IsChain(hosts[Writer])
    BY WriterIsHub, HostsFacts DEF TypeOK
  <2>2. at \in DOMAIN hosts[Writer] => hosts[Writer][at] \in 1..N
    BY <2>1 DEF IsChain
  <2>. QED  BY <2>1, <2>2, ChainAssumption DEF Descent
<1>3. Spec => []Descent
  BY <1>1, DescentStep, FleetTypeCorrect, TrackerInvHolds, PTL DEF Spec
<1>. QED  BY <1>2, <1>3, FleetTypeCorrect, PTL

-----------------------------------------------------------------------------
(* Disagreement. Two live candidates may disagree (TLC refutes             *)
(* LiveCandidatesAgree), but while nobody uses the dormant overlay only as *)
(* long as a failback window lasts: a hub keeps a less preferred owner     *)
(* only while what is preferred to it has been up for less than that.      *)

NoOverlay == \A h \in Hubs : dormant[h] = {}
NoOverlaySpec == Init /\ [][Next /\ NoOverlay']_vars

DisagreeWhileYoung ==
    Agreed /\ AutoFailback =>
        \A h, k \in Candidates :
            /\ SeesAll(h) /\ SeesAll(k)
            /\ hosts[Writer][Route(h)] < hosts[Writer][Route(k)]
            => obs[k][Route(h)].age < FailbackAfter

(* Whoever stands above the owner in the chain that the last decision read *)
(* is down or young.                                                       *)
YoungAbove ==
    AutoFailback =>
        \A k \in Hubs : Follows(k) /\ owner[k] # NoHost =>
            \A x \in DOMAIN hosts[k] :
                hosts[k][x] < hosts[k][owner[k]] /\ obs[k][x].seen = "up"
                    => obs[k][x].age < FailbackAfter

LEMMA PassYoungAbove ==
    ASSUME TypeOK, NoOverlay, YoungAbove, NEW h \in Hubs, AnyPass(h)
    PROVE  YoungAbove'
<1>1. PICK elapsed \in 1..MaxAge, reached \in SUBSET Candidates : Pass(h, elapsed, reached)
  BY DEF AnyPass
<1>. SUFFICES ASSUME AutoFailback, NEW k \in Hubs, Follows(k)', owner'[k] # NoHost,
                     NEW x \in DOMAIN hosts'[k],
                     hosts'[k][x] < hosts'[k][owner'[k]], obs'[k][x].seen = "up"
              PROVE  obs'[k][x].age < FailbackAfter
  BY DEF YoungAbove
<1>. DEFINE c == Eligible(h)
<1>2. /\ obs' = [obs EXCEPT ![h] = obs'[h]] /\ owner' = [owner EXCEPT ![h] = owner'[h]]
      /\ obs'[h] \in [Candidates -> Observation]
      /\ owner'[h] = Decide(owner[h], c, obs'[h]) /\ owner'[h] \in DOMAIN c
      /\ hosts' = hosts
  BY <1>1, DecideFacts
<1>3. IsChain(c) /\ DOMAIN c = DOMAIN hosts[h] /\ \A y \in DOMAIN c : c[y] = hosts[h][y]
  BY HostsFacts DEF NoOverlay
<1>. HIDE DEF c
<1>4. CASE k # h
  <2>1. owner'[k] = owner[k] /\ obs'[k] = obs[k]
    BY <1>2, <1>4 DEF TypeOK
  <2>2. Follows(k)
    BY <1>1, <1>4 DEF Pass, EditSettles, Follows
  <2>. QED  BY <1>2, <2>1, <2>2 DEF YoungAbove
<1>5. CASE k = h
  <2>1. x \in DOMAIN c /\ c[x] < c[owner'[h]] /\ obs'[h][x].seen = "up"
    BY <1>2, <1>3, <1>5
  <2>. QED  BY <1>2, <1>3, <1>5, <2>1, DecideLeavesYoungAbove
<1>. QED  BY <1>4, <1>5

LEMMA YoungAboveStep ==
    TypeOK /\ NoOverlay /\ YoungAbove /\ [Next]_vars => YoungAbove'
<1>. SUFFICES ASSUME TypeOK, NoOverlay, YoungAbove, [Next]_vars
              PROVE  YoungAbove'
  OBVIOUS
<1>1. ASSUME NEW h \in Hubs, AnyPass(h) PROVE YoungAbove'
  BY <1>1, PassYoungAbove
<1>2. ASSUME NEW h \in Hubs, Crash(h) \/ Restart(h) \/ Sync(h) PROVE YoungAbove'
  <2>1. /\ \A k \in Hubs : k # h => /\ owner'[k] = owner[k] /\ obs'[k] = obs[k]
                                    /\ hosts'[k] = hosts[k]
        /\ owner'[h] = NoHost
        /\ h # Writer => edit' = edit
    BY <1>2, ForgetFacts
  <2>2. \A k \in Hubs : k # h => (Follows(k)' => Follows(k))
    BY <2>1 DEF Follows
  <2>. QED  BY <2>1, <2>2 DEF YoungAbove
<1>3. ASSUME NEW c \in Placements, Placement(c) PROVE YoungAbove'
  <2>1. /\ \A k \in Hubs : k # Writer => hosts'[k] = hosts[k]
        /\ owner' = owner /\ obs' = obs /\ edit' = "unread"
    BY <1>3 DEF Placement, TypeOK, trackerVars
  <2>2. \A k \in Hubs : Follows(k)' => k # Writer /\ Follows(k)
    BY <2>1 DEF Follows
  <2>. QED  BY <2>1, <2>2 DEF YoungAbove
<1>4. ASSUME UNCHANGED <<obs, owner, hosts, edit>> PROVE YoungAbove'
  BY <1>4 DEF YoungAbove, Follows
<1>. QED
  BY <1>1, <1>2, <1>3, <1>4, NextCases
  DEF LoopStart, Recover, SetDormant, RequestStep, Arrive, Serve, Forward,
      trackerVars, fileVars, vars

(* What is left of the docstring's promise (model_failover.py, lines       *)
(* 27-30): with no dormant overlay in use and policy auto, two candidates  *)
(* that agree on the chain and see all of it up route to different owners  *)
(* only while the preferred of the two has been up, for the other, less    *)
(* than its window.                                                        *)
THEOREM FleetDisagreesWhileYoung == NoOverlaySpec => []DisagreeWhileYoung
<1>. DEFINE Inv == TypeOK /\ TrackerInv /\ NoOverlay /\ YoungAbove
<1>1. Init => Inv
  BY TypeInit DEF Init, NoOverlay, YoungAbove, TrackerInv
<1>2. Inv /\ [Next /\ NoOverlay']_vars => Inv'
  <2>. SUFFICES ASSUME Inv, [Next /\ NoOverlay']_vars PROVE Inv'
    OBVIOUS
  <2>1. NoOverlay'
    BY DEF NoOverlay, vars
  <2>2. TypeOK' /\ TrackerInv'
    BY TypeStep, TrackerInvStep
  <2>. QED  BY <2>1, <2>2, YoungAboveStep
<1>3. Inv => DisagreeWhileYoung
  <2>. SUFFICES ASSUME Inv, Agreed, AutoFailback,
                       NEW h \in Candidates, NEW k \in Candidates,
                       SeesAll(h), SeesAll(k),
                       hosts[Writer][Route(h)] < hosts[Writer][Route(k)]
                PROVE  obs[k][Route(h)].age < FailbackAfter
    BY DEF DisagreeWhileYoung
  <2>1. h \in Hubs /\ k \in Hubs /\ hosts[k] = hosts[Writer]
    BY WriterIsHub DEF Agreed
  <2>2. Route(h) \in DOMAIN hosts[k]
    BY <2>1, RouteUpTheChain
  <2>3. Follows(k) /\ owner[k] \in DOMAIN hosts[k] /\ owner[k] # NoHost /\ dormant[k] = {}
    BY <2>1 DEF Agreed, Follows, SeesAll, TrackerInv
  <2>4. Route(k) = owner[k]
    BY <2>1, <2>3, HostsFacts, EffectiveOwnerIsOwner DEF Route
  <2>5. obs[k][Route(h)].seen = "up"
    BY <2>2 DEF SeesAll, IsUp
  <2>. QED  BY <2>1, <2>2, <2>3, <2>4, <2>5 DEF YoungAbove
<1>. QED  BY <1>1, <1>2, <1>3, PTL DEF NoOverlaySpec
=============================================================================
