----------------------- MODULE OwnershipTracker_proofs -----------------------
(***************************************************************************)
(* What the operators of OwnershipTracker return, for every chain, every   *)
(* window and both policies. The proofs about a hub (FailoverHub) and      *)
(* about the fleet (FailoverFleet) rest on these lemmas.                   *)
(***************************************************************************)
EXTENDS OwnershipTracker, FiniteSetTheorems, WellFoundedInduction, TLAPS

(* Any hosts of a chain have a preferred one among them, and Best picks it. *)
LEMMA BestOfChain ==
    ASSUME NEW c, IsChain(c), NEW S, S \subseteq DOMAIN c, S # {}
    PROVE  /\ Best(S, c) \in S
           /\ \A x \in S : c[Best(S, c)] <= c[x]
<1>. DEFINE places == {c[x] : x \in S}
<1>1. \A x \in S : c[x] \in Nat
  BY ChainAssumption DEF IsChain
<1>2. places \subseteq Nat /\ places # {}
  BY <1>1
<1>. HIDE DEF places
<1>3. PICK p \in places : \A q \in places : ~(<<q, p>> \in OpToRel(<, Nat))
  BY <1>2, NatLessThanWellFounded, WFMin
<1>4. ASSUME NEW q \in places
      PROVE  p <= q
  <2>1. p \in Nat /\ q \in Nat
    BY <1>2
  <2>2. q < p => <<q, p>> \in OpToRel(<, Nat)
    BY <2>1, Zenon DEF OpToRel
  <2>3. ~(q < p)
    BY <1>3, <2>2, Zenon
  <2>. QED  BY <2>1, <2>3
<1>5. PICK x \in S : \A y \in S : c[x] <= c[y]
  BY <1>4 DEF places
<1>. QED  BY <1>5 DEF Best

(* The places of a chain are numbers, and tell its hosts apart.            *)
LEMMA PlacesOfChain ==
    ASSUME NEW c, IsChain(c), NEW x \in DOMAIN c, NEW y \in DOMAIN c
    PROVE  c[x] \in Nat /\ (c[x] = c[y] => x = y)
BY ChainAssumption DEF IsChain, IsInjective

(* What is left of a chain is a chain of the same order.                   *)
LEMMA EligibleIsChain ==
    ASSUME NEW file, IsChain(file), NEW asleep
    PROVE  /\ IsChain(EligibleChain(file, asleep))
           /\ DOMAIN EligibleChain(file, asleep) = DOMAIN file \ asleep
           /\ \A x \in DOMAIN file \ asleep : EligibleChain(file, asleep)[x] = file[x]
<1>. DEFINE c == EligibleChain(file, asleep)
<1>1. DOMAIN c = DOMAIN file \ asleep /\ \A x \in DOMAIN c : c[x] = file[x]
  BY DEF EligibleChain, Restrict
<1>2. c \in [DOMAIN c -> 1..N]
  <2>1. c = [x \in DOMAIN file \ asleep |-> file[x]]
    BY DEF EligibleChain, Restrict
  <2>2. \A x \in DOMAIN file \ asleep : file[x] \in 1..N
    BY DEF IsChain
  <2>. QED  BY <2>1, <2>2
<1>3. DOMAIN c \subseteq Candidates /\ IsInjective(c)
  BY <1>1 DEF IsChain, IsInjective
<1>. QED  BY <1>1, <1>2, <1>3 DEF IsChain

(* A chain of more than one host is not empty.                             *)
LEMMA MultiHostNotEmpty ==
    ASSUME NEW c, IsMultiHost(c)
    PROVE  DOMAIN c # {}
BY FS_EmptySet DEF IsMultiHost

(* Time only makes an age grow, up to the bound.                           *)
LEMMA LaterInRange ==
    ASSUME NEW age \in 0..MaxAge, NEW elapsed \in Nat
    PROVE  Later(age, elapsed) \in 0..MaxAge
BY WindowAssumption DEF Later

LEMMA LaterMonotonic ==
    ASSUME NEW a \in 0..MaxAge, NEW b \in 0..MaxAge, a <= b, NEW elapsed \in Nat
    PROVE  Later(a, elapsed) <= Later(b, elapsed)
BY WindowAssumption DEF Later

LEMMA ObserveType ==
    ASSUME NEW obs \in [Candidates -> Observation], NEW elapsed \in Nat,
           NEW probed, NEW reached
    PROVE  Observe(obs, probed, reached, elapsed) \in [Candidates -> Observation]
<1>. SUFFICES ASSUME NEW x \in Candidates
              PROVE  /\ StateAge(obs[x], elapsed) \in Observation
                     /\ ObserveHost(obs[x], x \in reached, elapsed) \in Observation
  BY DEF Observe
<1>1. obs[x] \in Observation
  OBVIOUS
<1>2. obs[x].age \in 0..MaxAge /\ Later(obs[x].age, elapsed) \in 0..MaxAge
  BY <1>1, LaterInRange DEF Observation
<1>3. StateAge(obs[x], elapsed) \in Observation
  BY <1>1, <1>2 DEF StateAge, Observation
<1>4. 0 \in 0..MaxAge
  BY WindowAssumption
<1>5. ObserveHost(obs[x], x \in reached, elapsed) \in Observation
  BY <1>1, <1>2, <1>4 DEF ObserveHost, Observation
<1>. QED  BY <1>3, <1>5

(* A probed host is seen as its answer says.                               *)
LEMMA ObserveSees ==
    ASSUME NEW obs \in [Candidates -> Observation], NEW elapsed \in Nat,
           NEW probed, NEW reached, NEW x \in Candidates, x \in probed, x \in reached
    PROVE  Observe(obs, probed, reached, elapsed)[x].seen = "up"
<1>1. Observe(obs, probed, reached, elapsed)[x] = ObserveHost(obs[x], TRUE, elapsed)
  BY DEF Observe
<1>2. obs[x] \in Observation
  OBVIOUS
<1>. QED  BY <1>1, <1>2 DEF ObserveHost, Observation

(* The hysteresis window cannot be filled from two spells: a host that is  *)
(* seen up now was seen up before, or its age starts at zero.              *)
LEMMA ObserveAge ==
    ASSUME NEW obs \in [Candidates -> Observation], NEW elapsed \in Nat,
           NEW probed, NEW reached, NEW x \in Candidates,
           NEW seen, seen = Observe(obs, probed, reached, elapsed),
           seen[x].seen = "up"
    PROVE  \/ seen[x].age = 0
           \/ obs[x].seen = "up" /\ seen[x].age = Later(obs[x].age, elapsed)
<1>1. obs[x] \in Observation
  OBVIOUS
<1>2. CASE x \in probed
  <2>1. seen[x] = ObserveHost(obs[x], x \in reached, elapsed)
    BY <1>2 DEF Observe
  <2>. QED  BY <1>1, <2>1 DEF ObserveHost, Observation
<1>3. CASE x \notin probed
  <2>1. seen[x] = StateAge(obs[x], elapsed)
    BY <1>3 DEF Observe
  <2>. QED  BY <1>1, <2>1 DEF StateAge, Observation
<1>. QED  BY <1>2, <1>3

LEMMA FirstPickInChain ==
    ASSUME NEW c, IsChain(c), DOMAIN c # {}, NEW obs
    PROVE  FirstPick(c, obs) \in DOMAIN c
<1>1. IsUp(obs, c) \subseteq DOMAIN c /\ IsUnprobed(obs, c) \subseteq DOMAIN c
  BY DEF IsUp, IsUnprobed
<1>2. IsUp(obs, c) # {} => Best(IsUp(obs, c), c) \in DOMAIN c
  BY <1>1, BestOfChain
<1>3. IsUnprobed(obs, c) # {} => Best(IsUnprobed(obs, c), c) \in DOMAIN c
  BY <1>1, BestOfChain
<1>4. First(c) \in DOMAIN c
  BY BestOfChain DEF First
<1>. QED  BY <1>2, <1>3, <1>4 DEF FirstPick

(* decide answers with a host of the chain it was given.                   *)
LEMMA DecideInChain ==
    ASSUME NEW c, IsChain(c), DOMAIN c # {}, NEW obs, NEW current
    PROVE  Decide(current, c, obs) \in DOMAIN c
<1>1. FirstPick(c, obs) \in DOMAIN c
  BY FirstPickInChain
<1>2. IsUp(obs, c) # {} => Best(IsUp(obs, c), c) \in DOMAIN c
  <2>1. IsUp(obs, c) \subseteq DOMAIN c
    BY DEF IsUp
  <2>. QED  BY <2>1, BestOfChain
<1>3. HandBackTargets(current, c, obs) # {}
        => Best(HandBackTargets(current, c, obs), c) \in DOMAIN c
  <2>1. HandBackTargets(current, c, obs) \subseteq DOMAIN c
    BY DEF HandBackTargets, IsUp
  <2>. QED  BY <2>1, BestOfChain
<1>. QED  BY <1>1, <1>2, <1>3 DEF Decide

(* The preferred of the targets of a hand-back, when there are any.        *)
LEMMA HandBackTarget ==
    ASSUME NEW c, IsChain(c), NEW obs, NEW current, NEW next,
           HandBackTargets(current, c, obs) # {},
           next = Best(HandBackTargets(current, c, obs), c)
    PROVE  /\ next \in DOMAIN c /\ c[next] < c[current]
           /\ obs[next].seen = "up" /\ obs[next].age >= FailbackAfter
           /\ \A x \in HandBackTargets(current, c, obs) : c[next] <= c[x]
<1>1. HandBackTargets(current, c, obs) \subseteq DOMAIN c
  BY DEF HandBackTargets, IsUp
<1>2. next \in HandBackTargets(current, c, obs)
      /\ \A x \in HandBackTargets(current, c, obs) : c[next] <= c[x]
  BY <1>1, BestOfChain
<1>. QED  BY <1>2 DEF HandBackTargets, IsUp

(* decide never prefers anyone to a host that is seen up and has not been  *)
(* passed over before.                                                     *)
LEMMA DecideNotBelow ==
    ASSUME NEW c, IsChain(c), NEW obs, NEW current,
           NEW x \in DOMAIN c, obs[x].seen = "up",
           current \in DOMAIN c => c[current] <= c[x]
    PROVE  c[Decide(current, c, obs)] <= c[x]
<1>1. x \in IsUp(obs, c) /\ IsUp(obs, c) \subseteq DOMAIN c
  BY DEF IsUp
<1>2. c[Best(IsUp(obs, c), c)] <= c[x]
  BY <1>1, BestOfChain
<1>3. c[FirstPick(c, obs)] <= c[x]
  BY <1>1, <1>2 DEF FirstPick
<1>4. ASSUME current \in DOMAIN c, HandBackTargets(current, c, obs) # {}
      PROVE  c[Best(HandBackTargets(current, c, obs), c)] <= c[x]
  <2>. DEFINE next == Best(HandBackTargets(current, c, obs), c)
  <2>1. next \in DOMAIN c /\ c[next] < c[current]
    BY <1>4, HandBackTarget
  <2>. HIDE DEF next
  <2>2. c[next] \in Nat /\ c[current] \in Nat /\ c[x] \in Nat
    BY <1>4, <2>1, PlacesOfChain
  <2>3. c[next] <= c[x]
    BY <1>4, <2>1, <2>2
  <2>. QED  BY <2>3 DEF next
<1>. QED  BY <1>1, <1>2, <1>3, <1>4 DEF Decide

(* Under policy auto not even an owner that was put below it: a host that  *)
(* has been up for the failback window is passed over by nobody.           *)
LEMMA DecideCatchesUp ==
    ASSUME NEW c, IsChain(c), NEW obs, NEW current, AutoFailback,
           NEW x \in DOMAIN c, obs[x].seen = "up", obs[x].age >= FailbackAfter
    PROVE  c[Decide(current, c, obs)] <= c[x]
<1>1. x \in IsUp(obs, c) /\ IsUp(obs, c) \subseteq DOMAIN c
  BY DEF IsUp
<1>2. c[Best(IsUp(obs, c), c)] <= c[x]
  BY <1>1, BestOfChain
<1>3. CASE current \notin DOMAIN c
  BY <1>1, <1>2, <1>3 DEF Decide, FirstPick
<1>4. CASE current \in DOMAIN c /\ Expired(current, obs)
  BY <1>1, <1>2, <1>4 DEF Decide
<1>5. CASE current \in DOMAIN c /\ ~Expired(current, obs)
  <2>1. c[x] \in Nat /\ c[current] \in Nat
    BY <1>5, PlacesOfChain
  <2>2. CASE c[current] <= c[x]
    BY <2>2, DecideNotBelow
  <2>3. CASE c[x] < c[current]
    <3>1. x \in HandBackTargets(current, c, obs)
      BY <1>1, <2>3 DEF HandBackTargets
    <3>2. Decide(current, c, obs) = Best(HandBackTargets(current, c, obs), c)
      BY <1>5, <3>1 DEF Decide
    <3>. QED  BY <3>1, <3>2, HandBackTarget
  <2>. QED  BY <2>1, <2>2, <2>3
<1>. QED  BY <1>3, <1>4, <1>5

(* Whoever is preferred to the new owner and seen up was so already when   *)
(* the old owner, still standing, was confirmed or replaced from above.    *)
LEMMA DecideLeavesNoneUpAbove ==
    ASSUME NEW c, IsChain(c), NEW obs, NEW current,
           NEW x \in DOMAIN c, c[x] < c[Decide(current, c, obs)], obs[x].seen = "up"
    PROVE  current \in DOMAIN c /\ ~Expired(current, obs) /\ c[x] < c[current]
<1>1. x \in IsUp(obs, c) /\ IsUp(obs, c) \subseteq DOMAIN c
  BY DEF IsUp
<1>2. Decide(current, c, obs) \in DOMAIN c
  BY DecideInChain
<1>3. c[x] \in Nat /\ c[Decide(current, c, obs)] \in Nat
  BY <1>2, PlacesOfChain
<1>4. current \in DOMAIN c /\ ~(c[current] <= c[x])
  BY <1>3, DecideNotBelow
<1>5. c[current] \in Nat
  BY <1>4, PlacesOfChain
<1>6. ~Expired(current, obs)
  <2>1. c[Best(IsUp(obs, c), c)] <= c[x]
    BY <1>1, BestOfChain
  <2>2. Decide(current, c, obs) # Best(IsUp(obs, c), c)
    BY <1>3, <2>1
  <2>. QED  BY <1>1, <1>4, <2>2 DEF Decide
<1>. QED  BY <1>3, <1>4, <1>5, <1>6

(* Ownership goes up the chain from a standing owner only to a host that   *)
(* has been up for the whole failback window.                              *)
LEMMA DecideHandsBackStable ==
    ASSUME NEW c, IsChain(c), NEW obs, NEW current \in DOMAIN c,
           ~Expired(current, obs), Decide(current, c, obs) # current
    PROVE  LET next == Decide(current, c, obs)
           IN  next \in DOMAIN c /\ obs[next].seen = "up" /\ obs[next].age >= FailbackAfter
<1>1. HandBackTargets(current, c, obs) # {}
      /\ Decide(current, c, obs) = Best(HandBackTargets(current, c, obs), c)
  BY DEF Decide
<1>. QED  BY <1>1, HandBackTarget

(* Under policy auto, whoever is preferred to the new owner and seen up    *)
(* has not been so for the failback window.                                *)
LEMMA DecideLeavesYoungAbove ==
    ASSUME NEW c, IsChain(c), NEW obs \in [Candidates -> Observation],
           NEW current, AutoFailback,
           NEW x \in DOMAIN c, c[x] < c[Decide(current, c, obs)], obs[x].seen = "up"
    PROVE  obs[x].age < FailbackAfter
<1>1. Decide(current, c, obs) \in DOMAIN c
  BY DecideInChain
<1>2. c[x] \in Nat /\ c[Decide(current, c, obs)] \in Nat
  BY <1>1, PlacesOfChain
<1>3. ~(obs[x].age >= FailbackAfter)
  BY <1>2, DecideCatchesUp
<1>4. obs[x].age \in Nat
  BY DEF Observation, IsChain
<1>. QED  BY <1>3, <1>4, WindowAssumption

(* Every host of the chain has been as it is for its whole window.         *)
LongAsSeen(c, obs) ==
    \A x \in DOMAIN c : \/ obs[x].seen = "up" /\ obs[x].age >= FailbackAfter
                        \/ obs[x].seen = "down" /\ obs[x].age >= FailAfter

(* Once the fleet has settled, history does not matter: under policy auto, *)
(* decide answers with the preferred host of the chain that is up whatever *)
(* owner it remembers, so hubs that see the same agree without talking.    *)
THEOREM SettledDecision ==
    ASSUME AutoFailback, NEW c, IsChain(c), NEW obs, LongAsSeen(c, obs),
           IsUp(obs, c) # {}, NEW current
    PROVE  Decide(current, c, obs) = Best(IsUp(obs, c), c)
<1>. DEFINE best == Best(IsUp(obs, c), c)
            next == Decide(current, c, obs)
<1>1. IsUp(obs, c) \subseteq DOMAIN c
  BY DEF IsUp
<1>2. best \in IsUp(obs, c) /\ \A x \in IsUp(obs, c) : c[best] <= c[x]
  BY <1>1, BestOfChain
<1>3. next \in DOMAIN c
  BY <1>1, DecideInChain
<1>4. c[next] <= c[best]
  <2>1. best \in DOMAIN c /\ obs[best].seen = "up" /\ obs[best].age >= FailbackAfter
    BY <1>2 DEF LongAsSeen, IsUp
  <2>. HIDE DEF best
  <2>. QED  BY <2>1, DecideCatchesUp
<1>5. next \in IsUp(obs, c)
  <2>1. CASE current \notin DOMAIN c
    BY <1>2, <2>1 DEF Decide, FirstPick
  <2>2. CASE current \in DOMAIN c /\ Expired(current, obs)
    BY <1>2, <2>2 DEF Decide
  <2>3. CASE current \in DOMAIN c /\ ~Expired(current, obs)
    <3>1. current \in IsUp(obs, c)
      BY <2>3 DEF LongAsSeen, Expired, IsUp
    <3>2. next # current => next \in DOMAIN c /\ obs[next].seen = "up"
      BY <2>3, DecideHandsBackStable
    <3>. QED  BY <3>1, <3>2 DEF IsUp
  <2>. QED  BY <2>1, <2>2, <2>3
<1>. HIDE DEF best, next
<1>6. c[best] \in Nat /\ c[next] \in Nat /\ (c[best] = c[next] => best = next)
  BY <1>1, <1>2, <1>3, PlacesOfChain
<1>7. next = best
  BY <1>2, <1>4, <1>5, <1>6
<1>. QED  BY <1>7 DEF best, next

(* Where a hub routes to: a host of its chain, or the owner it tracks.     *)
LEMMA EffectiveOwnerIsCandidate ==
    ASSUME NEW file \in Placements, NEW asleep, NEW known \in Candidates \cup {NoHost}
    PROVE  EffectiveOwner(known, file, asleep) \in Candidates
<1>. DEFINE c == EligibleChain(file, asleep)
<1>1. IsChain(file) /\ DOMAIN file # {}
  BY PlacementAssumption
<1>2. IsChain(c)
  BY <1>1, EligibleIsChain
<1>. HIDE DEF c
<1>3. First(file) \in Candidates
  BY <1>1, BestOfChain DEF First, IsChain
<1>4. DOMAIN c # {} => First(c) \in Candidates
  BY <1>2, BestOfChain DEF First, IsChain
<1>5. CASE DOMAIN c = {}
  BY <1>3, <1>5 DEF EffectiveOwner, c
<1>6. CASE DOMAIN c # {} /\ IsMultiHost(c) /\ known # NoHost
  BY <1>6 DEF EffectiveOwner, c
<1>7. CASE DOMAIN c # {} /\ ~(IsMultiHost(c) /\ known # NoHost)
  BY <1>4, <1>7 DEF EffectiveOwner, c
<1>. QED  BY <1>5, <1>6, <1>7

(* A hub that tracks no owner outside its chain routes to none outside it. *)
LEMMA EffectiveOwnerInChain ==
    ASSUME NEW file, IsChain(file), DOMAIN file # {}, NEW asleep,
           NEW known \in DOMAIN file \cup {NoHost}
    PROVE  EffectiveOwner(known, file, asleep) \in DOMAIN file
<1>. DEFINE c == EligibleChain(file, asleep)
<1>1. IsChain(c) /\ DOMAIN c = DOMAIN file \ asleep
  BY EligibleIsChain
<1>2. First(file) \in DOMAIN file
  BY BestOfChain DEF First
<1>3. EffectiveOwner(known, file, asleep) =
        IF DOMAIN c = {} THEN First(file)
        ELSE IF IsMultiHost(c) /\ known # NoHost THEN known ELSE First(c)
  BY DEF EffectiveOwner
<1>. HIDE DEF c
<1>4. DOMAIN c # {} => First(c) \in DOMAIN file
  BY <1>1, BestOfChain DEF First
<1>. QED  BY <1>2, <1>3, <1>4

(* A hub that is in its chain, and tracks no owner below itself, routes to *)
(* none below itself.                                                      *)
LEMMA EffectiveOwnerNotBelow ==
    ASSUME NEW file, IsChain(file), NEW asleep, NEW known,
           NEW x \in DOMAIN file, x \notin asleep,
           known # NoHost => known \in DOMAIN file /\ file[known] <= file[x]
    PROVE  /\ EffectiveOwner(known, file, asleep) \in DOMAIN file
           /\ file[EffectiveOwner(known, file, asleep)] <= file[x]
<1>. DEFINE c == EligibleChain(file, asleep)
<1>1. IsChain(c) /\ DOMAIN c = DOMAIN file \ asleep
      /\ \A y \in DOMAIN c : c[y] = file[y]
  BY EligibleIsChain
<1>2. EffectiveOwner(known, file, asleep) \in {First(c), known}
      /\ (known = NoHost => EffectiveOwner(known, file, asleep) = First(c))
  BY <1>1 DEF EffectiveOwner
<1>. HIDE DEF c
<1>3. x \in DOMAIN c
  BY <1>1
<1>4. First(c) \in DOMAIN c /\ c[First(c)] <= c[x]
  BY <1>1, <1>3, BestOfChain DEF First
<1>5. First(c) \in DOMAIN file /\ file[First(c)] <= file[x]
  BY <1>1, <1>3, <1>4
<1>. QED  BY <1>2, <1>5

(* An eligible owner is routed to.                                         *)
LEMMA EffectiveOwnerIsOwner ==
    ASSUME NEW file, IsChain(file), NEW asleep,
           NEW known \in DOMAIN file, known \notin asleep
    PROVE  EffectiveOwner(known, file, asleep) = known
<1>. DEFINE c == EligibleChain(file, asleep)
<1>1. IsChain(c) /\ DOMAIN c = DOMAIN file \ asleep
  BY EligibleIsChain
<1>2. known # NoHost
  BY ChainAssumption DEF Candidates, NoHost, IsChain
<1>3. ASSUME ~IsMultiHost(c) PROVE First(c) = known
  <2>1. First(c) \in DOMAIN c
    BY <1>1, BestOfChain DEF First
  <2>. HIDE DEF c
  <2>2. IsFiniteSet(DOMAIN c)
    <3>1. IsFiniteSet(Candidates)
      BY FS_Interval, ChainAssumption DEF Candidates
    <3>. QED  BY <1>1, <3>1, FS_Subset DEF IsChain
  <2>3. Cardinality(DOMAIN c) \in Nat /\ Cardinality(DOMAIN c) # 0
    BY <1>1, <2>2, FS_CardinalityType, FS_EmptySet
  <2>4. Cardinality(DOMAIN c) = 1
    BY <1>3, <2>3 DEF IsMultiHost
  <2>5. PICK y : DOMAIN c = {y}
    BY <2>2, <2>4, FS_Singleton
  <2>. QED  BY <1>1, <2>1, <2>5
<1>. QED  BY <1>1, <1>2, <1>3 DEF EffectiveOwner
=============================================================================
