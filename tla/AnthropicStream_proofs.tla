------------------------ MODULE AnthropicStream_proofs ------------------------
(***************************************************************************)
(* Proofs about the streamed response, for any set of tool indexes and any *)
(* number of records: its types, that it implements MessageStream, and     *)
(* that a message without a content block is one whose tool calls were all *)
(* dropped.                                                                *)
(*                                                                         *)
(* The events made and not yet given to the client matter as much as those *)
(* it has, so the argument is about both, wire \o events: every event of   *)
(* it may follow those before it, and while the backend is read the        *)
(* translation state tells what it ends in.                                *)
(***************************************************************************)
EXTENDS AnthropicStream, FunctionTheorems, FiniteSetTheorems, SequenceTheorems, TLAPS

Event ==
    [type : {"message_start", "message_stop", "error"}]
    \cup [type : {"content_block_start"}, index : Nat, block : {"text", "tool_use"}]
    \cup [type : {"content_block_delta", "content_block_stop"}, index : Nat]
    \cup [type : {"message_delta"}, stop : StopReasons]

Starts(s) == Message!Of(s, "content_block_start")
Stops(s) == Message!Of(s, "content_block_stop")

(* Every event may follow those before it. *)
Sound(s) == \A n \in 1..Len(s) : Message!CanFollow(SubSeq(s, 1, n - 1), s[n])

(* The blocks opened so far have the indexes below n, each once. *)
Numbered(s, n) ==
    /\ \A k \in 0..(n - 1) : \E i \in Starts(s) : s[i].index = k
    /\ \A i \in Starts(s) : s[i].index \in 0..(n - 1)
    /\ \A i, j \in Starts(s) : s[i].index = s[j].index => i = j

-----------------------------------------------------------------------------
(* Sequences of events, and counting.                                      *)

(* Induction over a set of numbers: a set that has 0 and with every number *)
(* the next one has no gap, for below a gap n the numbers of the set would *)
(* be as many as their successors, which are among them without 0.         *)
LEMMA NoGap ==
    ASSUME NEW S \in SUBSET Nat, 0 \in S, \A k \in S : k + 1 \in S
    PROVE  S = Nat
<1> SUFFICES ASSUME NEW n \in Nat, n \notin S PROVE FALSE
  OBVIOUS
<1> DEFINE A == S \cap (0..n)
           B == A \ {0}
           f == [k \in A |-> k + 1]
<1>1. IsFiniteSet(A) /\ IsFiniteSet(B) /\ Cardinality(A) \in Nat
      /\ Cardinality(B) = Cardinality(A) - 1
  <2>1. IsFiniteSet(0..n) /\ A \in SUBSET (0..n)
    BY FS_Interval
  <2>2. IsFiniteSet(A)
    BY <2>1, FS_Subset
  <2>3. 0 \in A
    OBVIOUS
  <2> QED BY <2>2, <2>3, FS_RemoveElement, FS_CardinalityType
<1>2. f \in [A -> B]
  <2>1. ASSUME NEW k \in A PROVE k + 1 \in B
    BY <2>1
  <2> QED BY <2>1
<1>3. PICK x, y \in A : x # y /\ f[x] = f[y]
  <2> HIDE DEF A, B, f
  <2> QED BY <1>1, <1>2, FS_PigeonHole
<1> QED BY <1>3

(* The blocks opened so far are as many as their indexes.                  *)
LEMMA NumberedCounts ==
    ASSUME NEW s \in Seq(Event), NEW n \in Nat, Numbered(s, n)
    PROVE  Cardinality(Starts(s)) = n
<1> DEFINE f == [i \in Starts(s) |-> s[i].index]
<1>1. IsFiniteSet(Starts(s))
  <2>1. IsFiniteSet(1..Len(s)) /\ Starts(s) \in SUBSET (1..Len(s))
    BY FS_Interval, LenProperties DEF Starts, Message!Of
  <2> QED BY <2>1, FS_Subset
<1>2. f \in Bijection(Starts(s), 0..(n - 1))
  <2>1. f \in [Starts(s) -> 0..(n - 1)]
    BY DEF Numbered
  <2>2. \A i, j \in Starts(s) : f[i] = f[j] => i = j
    BY DEF Numbered
  <2>3. \A k \in 0..(n - 1) : \E i \in Starts(s) : f[i] = k
    BY DEF Numbered
  <2> HIDE DEF f
  <2> QED BY <2>1, <2>2, <2>3 DEF Bijection, Injection, Surjection, IsInjective
<1>3. ExistsBijection(Starts(s), 0..(n - 1))
  BY <1>2 DEF ExistsBijection
<1>4. Cardinality(0..(n - 1)) = Cardinality(Starts(s))
  BY <1>1, <1>3, FS_Bijection
<1>5. Cardinality(0..(n - 1)) = IF 0 > n - 1 THEN 0 ELSE (n - 1) - 0 + 1
  <2>1. 0 \in Int /\ n - 1 \in Int
    OBVIOUS
  <2> QED BY <2>1, FS_Interval
<1> QED BY <1>4, <1>5

LEMMA SameCardinality == \A S : Message!Cardinality(S) = Cardinality(S)
BY DEF Message!Cardinality, Cardinality

LEMMA Appended ==
    ASSUME NEW s \in Seq(Event), NEW e \in Event
    PROVE  /\ Append(s, e) \in Seq(Event) /\ Len(s) \in Nat /\ Len(Append(s, e)) = Len(s) + 1
           /\ \A i \in 1..Len(s) : Append(s, e)[i] = s[i]
           /\ Append(s, e)[Len(s) + 1] = e
           /\ \A t : Message!Of(Append(s, e), t) =
                         Message!Of(s, t) \cup (IF e.type = t THEN {Len(s) + 1} ELSE {})
<1>1. /\ Append(s, e) \in Seq(Event) /\ Len(s) \in Nat /\ Len(Append(s, e)) = Len(s) + 1
      /\ \A i \in 1..Len(s) : Append(s, e)[i] = s[i]
      /\ Append(s, e)[Len(s) + 1] = e
  BY AppendProperties, LenProperties
<1>2. \A i \in 1..(Len(s) + 1) : i \in 1..Len(s) \/ i = Len(s) + 1
  BY <1>1
<1>3. ASSUME NEW t
      PROVE  Message!Of(Append(s, e), t) =
                 Message!Of(s, t) \cup (IF e.type = t THEN {Len(s) + 1} ELSE {})
  BY <1>1, <1>2 DEF Message!Of
<1> QED BY <1>1, <1>3

LEMMA SoundAppended ==
    ASSUME NEW s \in Seq(Event), NEW e \in Event, Sound(s), Message!CanFollow(s, e)
    PROVE  Sound(Append(s, e))
<1> DEFINE t == Append(s, e)
<1>1. /\ t \in Seq(Event) /\ Len(s) \in Nat /\ Len(t) = Len(s) + 1
      /\ \A i \in 1..Len(s) : t[i] = s[i]
      /\ t[Len(s) + 1] = e
  BY Appended
<1> HIDE DEF t
<1>2. ASSUME NEW n \in 0..Len(s) PROVE SubSeq(t, 1, n) = SubSeq(s, 1, n)
  <2>1. /\ SubSeq(t, 1, n) \in Seq(Event) /\ Len(SubSeq(t, 1, n)) = n
        /\ \A i \in 1..n : SubSeq(t, 1, n)[i] = t[i]
    <3>1. \A i \in 1..n : t[i] \in Event
      BY <1>1, ElementOfSeq
    <3> QED BY <1>1, <3>1, SubSeqProperties
  <2>2. /\ SubSeq(s, 1, n) \in Seq(Event) /\ Len(SubSeq(s, 1, n)) = n
        /\ \A i \in 1..n : SubSeq(s, 1, n)[i] = s[i]
    <3>1. \A i \in 1..n : s[i] \in Event
      BY <1>1, ElementOfSeq
    <3> QED BY <1>1, <3>1, SubSeqProperties
  <2>3. \A i \in 1..n : SubSeq(t, 1, n)[i] = SubSeq(s, 1, n)[i]
    BY <1>1, <2>1, <2>2
  <2> QED BY <1>1, <2>1, <2>2, <2>3, SeqEqual
<1>3. ASSUME NEW n \in 1..Len(t) PROVE Message!CanFollow(SubSeq(t, 1, n - 1), t[n])
  <2>1. CASE n = Len(s) + 1
    <3>1. SubSeq(t, 1, n - 1) = s
      BY <1>1, <1>2, <2>1, SubSeqFull
    <3> QED BY <1>1, <2>1, <3>1
  <2>2. CASE n \in 1..Len(s)
    <3>1. SubSeq(t, 1, n - 1) = SubSeq(s, 1, n - 1) /\ t[n] = s[n]
      BY <1>1, <1>2, <2>2
    <3> QED BY <2>2, <3>1 DEF Sound
  <2> QED BY <1>1, <2>1, <2>2
<1> QED BY <1>3 DEF Sound, t

(* What was sound stays so when it is cut.                                 *)
LEMMA SoundPrefix ==
    ASSUME NEW s \in Seq(Event), NEW t \in Seq(Event), Sound(s \o t)
    PROVE  Sound(s) /\ (t # <<>> => Message!CanFollow(s, Head(t)))
<1> DEFINE u == s \o t
<1>1. /\ u \in Seq(Event) /\ Len(s) \in Nat /\ Len(t) \in Nat /\ Len(u) = Len(s) + Len(t)
      /\ \A i \in 1..Len(u) : u[i] = IF i <= Len(s) THEN s[i] ELSE t[i - Len(s)]
  BY ConcatProperties, LenProperties
<1> HIDE DEF u
<1>2. ASSUME NEW n \in 0..Len(s) PROVE SubSeq(u, 1, n) = SubSeq(s, 1, n)
  <2>1. /\ SubSeq(u, 1, n) \in Seq(Event) /\ Len(SubSeq(u, 1, n)) = n
        /\ \A i \in 1..n : SubSeq(u, 1, n)[i] = u[i]
    <3>1. \A i \in 1..n : u[i] \in Event
      BY <1>1, ElementOfSeq
    <3> QED BY <1>1, <3>1, SubSeqProperties
  <2>2. /\ SubSeq(s, 1, n) \in Seq(Event) /\ Len(SubSeq(s, 1, n)) = n
        /\ \A i \in 1..n : SubSeq(s, 1, n)[i] = s[i]
    <3>1. \A i \in 1..n : s[i] \in Event
      BY <1>1, ElementOfSeq
    <3> QED BY <1>1, <3>1, SubSeqProperties
  <2>3. \A i \in 1..n : SubSeq(u, 1, n)[i] = SubSeq(s, 1, n)[i]
    BY <1>1, <2>1, <2>2
  <2> QED BY <1>1, <2>1, <2>2, <2>3, SeqEqual
<1>3. ASSUME NEW n \in 1..Len(u) PROVE Message!CanFollow(SubSeq(u, 1, n - 1), u[n])
  BY <1>3 DEF Sound, u
<1>4. Sound(s)
  <2>1. ASSUME NEW n \in 1..Len(s) PROVE Message!CanFollow(SubSeq(s, 1, n - 1), s[n])
    <3>1. SubSeq(u, 1, n - 1) = SubSeq(s, 1, n - 1) /\ u[n] = s[n] /\ n \in 1..Len(u)
      BY <1>1, <1>2
    <3> QED BY <1>3, <3>1
  <2> QED BY <2>1 DEF Sound
<1>5. ASSUME t # <<>> PROVE Message!CanFollow(s, Head(t))
  <2>1. Len(t) >= 1 /\ Head(t) = t[1]
    BY <1>1, <1>5, EmptySeq
  <2>2. u[Len(s) + 1] = Head(t) /\ Len(s) + 1 \in 1..Len(u)
    BY <1>1, <2>1
  <2>3. SubSeq(u, 1, Len(s)) = s
    BY <1>1, <1>2, SubSeqFull
  <2>4. Message!CanFollow(SubSeq(u, 1, Len(s) + 1 - 1), u[Len(s) + 1])
    BY <1>3, <2>2
  <2>5. Len(s) + 1 - 1 = Len(s)
    BY <1>1
  <2> QED BY <2>2, <2>3, <2>4, <2>5
<1> QED BY <1>4, <1>5

-----------------------------------------------------------------------------
(* One more event. A message in progress has opened the blocks below n and *)
(* has block o open, or none.                                              *)

InProgress(s, n, o) ==
    /\ s \in Seq(Event) /\ n \in Nat /\ o \in Nat \cup {None} /\ o < n
    /\ Sound(s) /\ Message!InMessage(s) /\ ~Message!Has(s, "message_stop")
    /\ Numbered(s, n)
    /\ \A i \in Stops(s) : s[i].index \in 0..(n - 1)
    /\ \A k \in Nat : Message!IsOpen(s, k) <=> k = o

(* Whether the message used a tool so far is a matter of its blocks.       *)
LEMMA UsesToolAppended ==
    ASSUME NEW s \in Seq(Event), NEW e \in Event
    PROVE  Message!UsesTool(Append(s, e)) <=>
               \/ Message!UsesTool(s)
               \/ e.type = "content_block_start" /\ e.block = "tool_use"
<1> DEFINE t == Append(s, e)
<1>1. /\ Len(s) \in Nat /\ t[Len(s) + 1] = e
      /\ \A i \in Starts(s) : t[i] = s[i]
      /\ Starts(t) = Starts(s) \cup (IF e.type = "content_block_start" THEN {Len(s) + 1} ELSE {})
  BY Appended DEF Starts, Message!Of
<1> HIDE DEF t
<1>2. Message!UsesTool(t) <=> \E i \in Starts(t) : t[i].block = "tool_use"
  BY DEF Message!UsesTool, Starts
<1>3. Message!UsesTool(s) <=> \E i \in Starts(s) : s[i].block = "tool_use"
  BY DEF Message!UsesTool, Starts
<1>4. CASE e.type = "content_block_start"
  BY <1>1, <1>2, <1>3, <1>4 DEF t
<1>5. CASE e.type # "content_block_start"
  BY <1>1, <1>2, <1>3, <1>5 DEF t
<1> QED BY <1>4, <1>5

LEMMA AfterStart ==
    LET s == Append(<<>>, [type |-> "message_start"])
    IN  InProgress(s, 0, None) /\ ~Message!UsesTool(s)
<1> DEFINE e == [type |-> "message_start"]
           s == Append(<<>>, e)
<1>1. <<>> \in Seq(Event) /\ Len(<<>>) = 0 /\ e \in Event /\ e.type = "message_start"
  BY EmptySeq DEF Event
<1>2. \A t : Message!Of(<<>>, t) = {}
  BY <1>1 DEF Message!Of
<1>3. /\ s \in Seq(Event)
      /\ \A t : Message!Of(s, t) = IF t = "message_start" THEN {1} ELSE {}
  <2> HIDE DEF e
  <2>1. /\ s \in Seq(Event)
        /\ \A t : Message!Of(s, t) =
                  Message!Of(<<>>, t) \cup (IF e.type = t THEN {Len(<<>>) + 1} ELSE {})
    BY <1>1, Appended
  <2> HIDE DEF s
  <2>2. Len(<<>>) + 1 = 1 /\ e.type = "message_start"
    BY <1>1
  <2>3. ASSUME NEW t PROVE Message!Of(s, t) = IF t = "message_start" THEN {1} ELSE {}
    <3>1. Message!Of(s, t) = Message!Of(<<>>, t) \cup (IF e.type = t THEN {Len(<<>>) + 1} ELSE {})
      BY <2>1
    <3> QED BY <1>2, <2>2, <3>1
  <2> QED BY <2>1, <2>3
<1>4. Sound(s)
  <2>1. Message!CanFollow(<<>>, e)
    BY <1>1 DEF Message!CanFollow
  <2>2. Sound(<<>>)
    BY <1>1 DEF Sound
  <2> HIDE DEF e
  <2> QED BY <1>1, <2>1, <2>2, SoundAppended
<1> HIDE DEF s
<1>5. InProgress(s, 0, None)
  BY <1>3, <1>4 DEF InProgress, Numbered, Starts, Stops, None, Message!InMessage, Message!Has, Message!IsOpen
<1>6. ~Message!UsesTool(s)
  BY <1>3 DEF Message!UsesTool
<1> QED BY <1>5, <1>6 DEF s

LEMMA AfterOpen ==
    ASSUME NEW s, NEW n, InProgress(s, n, None), NEW block \in {"text", "tool_use"}
    PROVE  /\ InProgress(Append(s, Opened(n, block)), n + 1, n)
           /\ Message!UsesTool(Append(s, Opened(n, block))) <=>
                  Message!UsesTool(s) \/ block = "tool_use"
<1> DEFINE e == Opened(n, block)
           t == Append(s, e)
<1>1. /\ s \in Seq(Event) /\ n \in Nat /\ Sound(s)
      /\ e \in Event /\ e.type = "content_block_start" /\ e.index = n /\ e.block = block
  BY DEF InProgress, Event, Opened
<1>2. Message!CanFollow(s, e)
  <2>1. Message!Cardinality(Starts(s)) = n
    BY <1>1, NumberedCounts, SameCardinality DEF InProgress
  <2>2. Message!NoneOpen(s)
    BY DEF InProgress, Numbered, Starts, Message!NoneOpen, None
  <2> QED BY <1>1, <2>1, <2>2 DEF InProgress, Starts, Message!CanFollow
<1> HIDE DEF e
<1>3. Sound(t)
  BY <1>1, <1>2, SoundAppended
<1>4. /\ t \in Seq(Event) /\ Len(s) \in Nat
      /\ \A i \in 1..Len(s) : t[i] = s[i]
      /\ t[Len(s) + 1] = e
      /\ \A ty : Message!Of(t, ty) =
                    Message!Of(s, ty) \cup (IF e.type = ty THEN {Len(s) + 1} ELSE {})
  BY <1>1, Appended
<1>5. Message!UsesTool(t) <=> Message!UsesTool(s) \/ block = "tool_use"
  BY <1>1, UsesToolAppended
<1> HIDE DEF t
<1>6. /\ Starts(t) = Starts(s) \cup {Len(s) + 1} /\ Stops(t) = Stops(s)
      /\ \A i \in Starts(s) \cup Stops(s) : i \in 1..Len(s) /\ t[i] = s[i]
  <2>1. Starts(t) = Starts(s) \cup (IF e.type = "content_block_start" THEN {Len(s) + 1} ELSE {})
        /\ Stops(t) = Stops(s) \cup (IF e.type = "content_block_stop" THEN {Len(s) + 1} ELSE {})
    BY <1>4 DEF Starts, Stops
  <2>2. \A i \in Starts(s) \cup Stops(s) : i \in 1..Len(s)
    BY DEF Starts, Stops, Message!Of
  <2> QED BY <1>1, <1>4, <2>1, <2>2
<1>7. Message!InMessage(t) /\ ~Message!Has(t, "message_stop")
  BY <1>1, <1>4 DEF InProgress, Message!InMessage, Message!Has
<1>8. Numbered(t, n + 1)
  <2>1. Numbered(s, n)
    BY DEF InProgress
  <2>2. \A k \in 0..n : k \in 0..(n - 1) \/ k = n
    BY <1>1
  <2>3. \A k \in 0..n : \E i \in Starts(t) : t[i].index = k
    BY <1>1, <1>4, <1>6, <2>1, <2>2 DEF Numbered
  <2>4. \A i \in Starts(t) : t[i].index \in 0..n
    BY <1>1, <1>4, <1>6, <2>1 DEF Numbered
  <2>5. ASSUME NEW i \in Starts(t), NEW j \in Starts(t), t[i].index = t[j].index PROVE i = j
    <3>1. \A k \in Starts(s) : t[k].index \in 0..(n - 1)
      BY <1>6, <2>1 DEF Numbered
    <3>2. t[Len(s) + 1].index = n /\ n \notin 0..(n - 1)
      BY <1>1, <1>4
    <3> QED BY <1>6, <2>1, <2>5, <3>1, <3>2 DEF Numbered
  <2>6. (n + 1) - 1 = n
    BY <1>1
  <2> QED BY <2>3, <2>4, <2>5, <2>6 DEF Numbered
<1>9. \A i \in Stops(t) : t[i].index \in 0..n
  BY <1>1, <1>6 DEF InProgress
<1>10. ASSUME NEW k \in Nat PROVE Message!IsOpen(t, k) <=> k = n
  <2>1. Message!IsOpen(t, k) <=> /\ \E i \in Starts(t) : t[i].index = k
                                 /\ \A i \in Stops(t) : t[i].index # k
    BY DEF Message!IsOpen, Starts, Stops
  <2>2. ~Message!IsOpen(s, k)
    BY DEF InProgress, None
  <2>3. ~ /\ \E i \in Starts(s) : s[i].index = k
          /\ \A i \in Stops(s) : s[i].index # k
    BY <2>2 DEF Message!IsOpen, Starts, Stops
  <2>4. \A i \in Stops(s) : s[i].index # n
    BY <1>1 DEF InProgress
  <2> QED BY <1>1, <1>4, <1>6, <2>1, <2>3, <2>4
<1>11. InProgress(t, n + 1, n)
  BY <1>1, <1>3, <1>4, <1>7, <1>8, <1>9, <1>10 DEF InProgress
<1> QED BY <1>5, <1>11 DEF e, t

LEMMA AfterClose ==
    ASSUME NEW s, NEW n, NEW o, InProgress(s, n, o), o # None
    PROVE  /\ InProgress(Append(s, Closed(o)), n, None)
           /\ Message!UsesTool(Append(s, Closed(o))) <=> Message!UsesTool(s)
<1> DEFINE e == Closed(o)
           t == Append(s, e)
<1>1. /\ s \in Seq(Event) /\ n \in Nat /\ o \in Nat /\ o < n /\ Sound(s)
      /\ e \in Event /\ e.type = "content_block_stop" /\ e.index = o
  BY DEF InProgress, Event, Closed
<1>2. Message!CanFollow(s, e)
  BY <1>1 DEF InProgress, Message!CanFollow
<1> HIDE DEF e
<1>3. Sound(t)
  BY <1>1, <1>2, SoundAppended
<1>4. /\ t \in Seq(Event) /\ Len(s) \in Nat
      /\ \A i \in 1..Len(s) : t[i] = s[i]
      /\ t[Len(s) + 1] = e
      /\ \A ty : Message!Of(t, ty) =
                    Message!Of(s, ty) \cup (IF e.type = ty THEN {Len(s) + 1} ELSE {})
  BY <1>1, Appended
<1>5. Message!UsesTool(t) <=> Message!UsesTool(s)
  BY <1>1, UsesToolAppended
<1> HIDE DEF t
<1>6. /\ Starts(t) = Starts(s) /\ Stops(t) = Stops(s) \cup {Len(s) + 1}
      /\ \A i \in Starts(s) \cup Stops(s) : i \in 1..Len(s) /\ t[i] = s[i]
  <2>1. Starts(t) = Starts(s) \cup (IF e.type = "content_block_start" THEN {Len(s) + 1} ELSE {})
        /\ Stops(t) = Stops(s) \cup (IF e.type = "content_block_stop" THEN {Len(s) + 1} ELSE {})
    BY <1>4 DEF Starts, Stops
  <2>2. \A i \in Starts(s) \cup Stops(s) : i \in 1..Len(s)
    BY DEF Starts, Stops, Message!Of
  <2> QED BY <1>1, <1>4, <2>1, <2>2
<1>7. Message!InMessage(t) /\ ~Message!Has(t, "message_stop")
  BY <1>1, <1>4 DEF InProgress, Message!InMessage, Message!Has
<1>8. Numbered(t, n)
  BY <1>6 DEF InProgress, Numbered
<1>9. \A i \in Stops(t) : t[i].index \in 0..(n - 1)
  BY <1>1, <1>4, <1>6 DEF InProgress
<1>10. ASSUME NEW k \in Nat PROVE ~Message!IsOpen(t, k)
  <2>1. Message!IsOpen(t, k) <=> /\ \E i \in Starts(t) : t[i].index = k
                                 /\ \A i \in Stops(t) : t[i].index # k
    BY DEF Message!IsOpen, Starts, Stops
  <2>2. Message!IsOpen(s, k) <=> k = o
    BY DEF InProgress
  <2>3. Message!IsOpen(s, k) <=> /\ \E i \in Starts(s) : s[i].index = k
                                 /\ \A i \in Stops(s) : s[i].index # k
    BY DEF Message!IsOpen, Starts, Stops
  <2> QED BY <1>1, <1>4, <1>6, <2>1, <2>2, <2>3
<1>11. InProgress(t, n, None)
  BY <1>1, <1>3, <1>4, <1>7, <1>8, <1>9, <1>10 DEF InProgress, None
<1> QED BY <1>5, <1>11 DEF e, t

LEMMA AfterPart ==
    ASSUME NEW s, NEW n, NEW o, InProgress(s, n, o), o # None
    PROVE  /\ InProgress(Append(s, Part(o)), n, o)
           /\ Message!UsesTool(Append(s, Part(o))) <=> Message!UsesTool(s)
<1> DEFINE e == Part(o)
           t == Append(s, e)
<1>1. /\ s \in Seq(Event) /\ n \in Nat /\ o \in Nat /\ o < n /\ Sound(s)
      /\ e \in Event /\ e.type = "content_block_delta" /\ e.index = o
  BY DEF InProgress, Event, Part
<1>2. Message!CanFollow(s, e)
  BY <1>1 DEF InProgress, Message!CanFollow
<1> HIDE DEF e
<1>3. Sound(t)
  BY <1>1, <1>2, SoundAppended
<1>4. /\ t \in Seq(Event) /\ Len(s) \in Nat
      /\ \A i \in 1..Len(s) : t[i] = s[i]
      /\ \A ty : Message!Of(t, ty) =
                    Message!Of(s, ty) \cup (IF e.type = ty THEN {Len(s) + 1} ELSE {})
  BY <1>1, Appended
<1>5. Message!UsesTool(t) <=> Message!UsesTool(s)
  BY <1>1, UsesToolAppended
<1> HIDE DEF t
<1>6. /\ Starts(t) = Starts(s) /\ Stops(t) = Stops(s)
      /\ \A i \in Starts(s) \cup Stops(s) : t[i] = s[i]
  <2>1. Starts(t) = Starts(s) \cup (IF e.type = "content_block_start" THEN {Len(s) + 1} ELSE {})
        /\ Stops(t) = Stops(s) \cup (IF e.type = "content_block_stop" THEN {Len(s) + 1} ELSE {})
    BY <1>4 DEF Starts, Stops
  <2>2. \A i \in Starts(s) \cup Stops(s) : i \in 1..Len(s)
    BY DEF Starts, Stops, Message!Of
  <2> QED BY <1>1, <1>4, <2>1, <2>2
<1>7. Message!InMessage(t) /\ ~Message!Has(t, "message_stop")
  BY <1>1, <1>4 DEF InProgress, Message!InMessage, Message!Has
<1>8. Numbered(t, n) /\ \A i \in Stops(t) : t[i].index \in 0..(n - 1)
  BY <1>6 DEF InProgress, Numbered
<1>9. ASSUME NEW k \in Nat PROVE Message!IsOpen(t, k) <=> k = o
  BY <1>6 DEF InProgress, Message!IsOpen, Starts, Stops
<1> QED BY <1>1, <1>3, <1>4, <1>5, <1>7, <1>8, <1>9 DEF InProgress, e, t

(* The last two events of a message. *)
LEMMA AfterEnd ==
    ASSUME NEW s, NEW n, InProgress(s, n, None),
           NEW stop \in StopReasons, stop = "tool_use" <=> Message!UsesTool(s)
    PROVE  LET d == [type |-> "message_delta", stop |-> stop]
               e == [type |-> "message_stop"]
               t == Append(Append(s, d), e)
           IN  d \in Event /\ e \in Event /\ Sound(t) /\ Starts(t) = Starts(s)
<1> DEFINE d == [type |-> "message_delta", stop |-> stop]
           e == [type |-> "message_stop"]
           u == Append(s, d)
           t == Append(u, e)
<1>1. /\ s \in Seq(Event) /\ Sound(s) /\ Message!InMessage(s) /\ ~Message!Has(s, "message_stop")
      /\ Message!NoneOpen(s)
  BY DEF InProgress, Numbered, Starts, Message!NoneOpen, None
<1>2. /\ d \in Event /\ d.type = "message_delta" /\ d.stop = stop
      /\ e \in Event /\ e.type = "message_stop"
  BY DEF Event
<1>3. Message!CanFollow(s, d)
  BY <1>1, <1>2 DEF Message!CanFollow
<1> HIDE DEF d, e
<1>4. /\ u \in Seq(Event) /\ Sound(u) /\ Starts(u) = Starts(s)
      /\ Message!Of(u, "message_delta") # {}
      /\ Message!Of(u, "error") = Message!Of(s, "error")
      /\ Message!Of(u, "message_stop") = Message!Of(s, "message_stop")
  <2>1. /\ u \in Seq(Event) /\ Len(s) \in Nat
        /\ \A ty : Message!Of(u, ty) =
                      Message!Of(s, ty) \cup (IF d.type = ty THEN {Len(s) + 1} ELSE {})
    BY <1>1, <1>2, Appended
  <2>2. Sound(u)
    BY <1>1, <1>2, <1>3, SoundAppended
  <2> HIDE DEF u
  <2> QED BY <1>2, <2>1, <2>2 DEF Starts
<1> HIDE DEF u
<1>5. Message!CanFollow(u, e)
  BY <1>1, <1>2, <1>4 DEF Message!CanFollow, Message!Has, Message!InMessage
<1>6. Sound(t) /\ Starts(t) = Starts(u)
  <2>1. \A ty : Message!Of(t, ty) =
                   Message!Of(u, ty) \cup (IF e.type = ty THEN {Len(u) + 1} ELSE {})
    BY <1>2, <1>4, Appended
  <2>2. Sound(t)
    BY <1>2, <1>4, <1>5, SoundAppended
  <2> HIDE DEF t
  <2> QED BY <1>2, <2>1, <2>2 DEF Starts
<1> QED BY <1>2, <1>4, <1>6 DEF d, e, u

(* An error may come at any point before the end, once. *)
LEMMA AfterError ==
    ASSUME NEW s \in Seq(Event), Sound(s), ~Message!Has(s, "message_stop"), ~Message!Has(s, "error")
    PROVE  LET e == [type |-> "error"]
           IN  e \in Event /\ Sound(Append(s, e))
               /\ Message!Of(Append(s, e), "message_stop") = {}
<1> DEFINE e == [type |-> "error"]
<1>1. e \in Event /\ e.type = "error" /\ Message!CanFollow(s, e)
  BY DEF Event, Message!CanFollow
<1> HIDE DEF e
<1>2. Sound(Append(s, e)) /\ Message!Of(Append(s, e), "message_stop") = Message!Of(s, "message_stop")
  <2>1. \A ty : Message!Of(Append(s, e), ty) =
                   Message!Of(s, ty) \cup (IF e.type = ty THEN {Len(s) + 1} ELSE {})
    BY <1>1, Appended
  <2>2. Message!Of(Append(s, e), "message_stop") =
            Message!Of(s, "message_stop") \cup (IF e.type = "message_stop" THEN {Len(s) + 1} ELSE {})
    BY <2>1
  <2>3. Sound(Append(s, e))
    BY <1>1, SoundAppended
  <2> QED BY <1>1, <2>2, <2>3
<1> QED BY <1>1, <1>2 DEF e, Message!Has

LEMMA ConcatAppend ==
    ASSUME NEW w \in Seq(Event), NEW v \in Seq(Event), NEW e \in Event
    PROVE  w \o Append(v, e) = Append(w \o v, e)
<1>1. Append(v, e) = v \o <<e>> /\ <<e>> \in Seq(Event)
  BY AppendIsConcat
<1>2. w \o v \in Seq(Event) /\ Append(w \o v, e) = (w \o v) \o <<e>>
  BY AppendIsConcat, ConcatProperties
<1> QED BY <1>1, <1>2, ConcatAssociative

-----------------------------------------------------------------------------
(* The adapters' helpers. The events made for x, after those the client    *)
(* has, end in what x's state says.                                        *)

States == [started : BOOLEAN, stopped : BOOLEAN, next : Nat, open : Nat \cup {None},
           text : Nat \cup {None}, said : BOOLEAN,
           calls : [ToolIndexes -> Calls], stop : StopReasons]
Pairs == [state : States, events : Seq(Event)]

Fits(w, x) ==
    /\ w \in Seq(Event) /\ x \in Pairs
    /\ x.state.open < x.state.next /\ x.state.text < x.state.next
    /\ x.state.started => InProgress(w \o x.events, x.state.next, x.state.open)
    /\ ~x.state.started => w \o x.events = <<>> /\ x.state.next = 0

(* What every helper but the last one leaves alone. *)
Keeps(w, x, y) ==
    /\ Fits(w, y) /\ y.state.started
    /\ y.state.calls = x.state.calls /\ y.state.stop = x.state.stop
    /\ y.state.stopped = x.state.stopped /\ y.state.next >= x.state.next
    /\ Message!UsesTool(w \o y.events) <=> Message!UsesTool(w \o x.events)

LEMMA StartKeeps ==
    ASSUME NEW w, NEW x, Fits(w, x)
    PROVE  LET y == Start(x)
           IN  Keeps(w, x, y) /\ y.state.open = x.state.open /\ y.state.text = x.state.text
<1> DEFINE y == Start(x)
<1>1. CASE x.state.started
  <2>1. y = x /\ x.state.next \in Nat
    BY <1>1 DEF Start, Fits, Pairs, States
  <2> QED BY <1>1, <2>1 DEF Keeps
<1>2. CASE ~x.state.started
  <2> DEFINE e == [type |-> "message_start"]
  <2>1. /\ w \in Seq(Event) /\ x.events \in Seq(Event) /\ x.state \in States
        /\ w \o x.events = <<>> /\ x.state.next = 0
        /\ x.state.open = None /\ x.state.text = None
    BY <1>2 DEF Fits, Pairs, States, None
  <2>2. /\ y = [state |-> [x.state EXCEPT !.started = TRUE], events |-> Append(x.events, e)]
        /\ e \in Event
    BY <1>2 DEF Start, Event
  <2>3. InProgress(Append(<<>>, e), 0, None) /\ ~Message!UsesTool(Append(<<>>, e))
    BY AfterStart
  <2> HIDE DEF e
  <2>4. w \o y.events = Append(<<>>, e) /\ y.events \in Seq(Event)
    <3>1. y.events = Append(x.events, e)
      BY <2>2
    <3>2. w \o Append(x.events, e) = Append(w \o x.events, e) /\ Append(x.events, e) \in Seq(Event)
      BY <2>1, <2>2, ConcatAppend, AppendProperties
    <3> QED BY <2>1, <3>1, <3>2
  <2>5. /\ y.state \in States /\ y.state.started /\ y.state.next = 0
        /\ y.state.open = None /\ y.state.text = None /\ y.state.calls = x.state.calls
        /\ y.state.stop = x.state.stop /\ y.state.stopped = x.state.stopped
    <3>1. y.state = [x.state EXCEPT !.started = TRUE]
      BY <2>2
    <3> QED BY <2>1, <3>1 DEF States
  <2>6. y \in Pairs
    BY <2>2, <2>4, <2>5 DEF Pairs
  <2>7. ~Message!UsesTool(<<>>)
    BY EmptySeq DEF Message!UsesTool, Message!Of
  <2> HIDE DEF y
  <2>8. Fits(w, y)
    BY <2>1, <2>3, <2>4, <2>5, <2>6 DEF Fits, None
  <2> QED BY <2>1, <2>3, <2>4, <2>5, <2>7, <2>8 DEF Keeps, y
<1> QED BY <1>1, <1>2

LEMMA CloseKeeps ==
    ASSUME NEW w, NEW x, Fits(w, x), x.state.started
    PROVE  LET y == CloseOpenBlock(x)
           IN  /\ Keeps(w, x, y) /\ y.state.open = None
               /\ y.state.next = x.state.next /\ y.state.text = x.state.text
<1> DEFINE y == CloseOpenBlock(x)
<1>1. /\ w \in Seq(Event) /\ x.events \in Seq(Event) /\ x.state \in States
      /\ x.state.next \in Nat /\ x.state.open \in Nat \cup {None} /\ x.state.text < x.state.next
      /\ InProgress(w \o x.events, x.state.next, x.state.open)
  BY DEF Fits, Pairs, States
<1>2. CASE x.state.open = None
  <2>1. y = x
    BY <1>2 DEF CloseOpenBlock
  <2> QED BY <1>1, <1>2, <2>1 DEF Keeps
<1>3. CASE x.state.open # None
  <2> DEFINE e == Closed(x.state.open)
  <2>1. /\ y = [state |-> [x.state EXCEPT !.open = None], events |-> Append(x.events, e)]
        /\ e \in Event
    BY <1>1, <1>3 DEF CloseOpenBlock, Closed, Event
  <2>2. /\ InProgress(Append(w \o x.events, e), x.state.next, None)
        /\ Message!UsesTool(Append(w \o x.events, e)) <=> Message!UsesTool(w \o x.events)
    BY <1>1, <1>3, AfterClose
  <2> HIDE DEF e
  <2>3. w \o y.events = Append(w \o x.events, e) /\ y.events \in Seq(Event)
    BY <1>1, <2>1, ConcatAppend, AppendProperties
  <2>4. /\ y.state \in States /\ y.state.started /\ y.state.next = x.state.next
        /\ y.state.open = None /\ y.state.text = x.state.text /\ y.state.calls = x.state.calls
        /\ y.state.stop = x.state.stop /\ y.state.stopped = x.state.stopped
    <3>1. y.state = [x.state EXCEPT !.open = None]
      BY <2>1
    <3> QED BY <1>1, <3>1 DEF States, Fits
  <2>5. y \in Pairs
    BY <2>1, <2>3, <2>4 DEF Pairs
  <2> HIDE DEF y
  <2>6. Fits(w, y)
    BY <1>1, <2>2, <2>3, <2>4, <2>5 DEF Fits, None
  <2> QED BY <1>1, <2>2, <2>3, <2>4, <2>6 DEF Keeps, y
<1> QED BY <1>2, <1>3

LEMMA OpenKeeps ==
    ASSUME NEW w, NEW x, Fits(w, x), x.state.started, NEW block \in {"text", "tool_use"}
    PROVE  LET y == OpenBlock(x, block)
           IN  /\ Fits(w, y) /\ y.state.started
               /\ y.state.calls = x.state.calls /\ y.state.stop = x.state.stop
               /\ y.state.stopped = x.state.stopped /\ y.state.text = x.state.text
               /\ y.state.next = x.state.next + 1 /\ y.state.open = x.state.next
               /\ Message!UsesTool(w \o y.events) <=>
                      Message!UsesTool(w \o x.events) \/ block = "tool_use"
<1> DEFINE y == OpenBlock(x, block)
           c == CloseOpenBlock(x)
           e == Opened(c.state.next, block)
<1>1. Keeps(w, x, c) /\ c.state.open = None /\ c.state.next = x.state.next /\ c.state.text = x.state.text
  BY CloseKeeps
<1> HIDE DEF c
<1>2. /\ w \in Seq(Event) /\ c.events \in Seq(Event) /\ c.state \in States
      /\ c.state.next \in Nat /\ c.state.text < c.state.next
      /\ InProgress(w \o c.events, c.state.next, None)
  BY <1>1 DEF Keeps, Fits, Pairs, States
<1>3. /\ y = [state |-> [c.state EXCEPT !.next = @ + 1, !.open = c.state.next],
              events |-> Append(c.events, e)]
      /\ e \in Event
  BY <1>2 DEF OpenBlock, Opened, Event, c
<1>4. /\ InProgress(Append(w \o c.events, e), c.state.next + 1, c.state.next)
      /\ Message!UsesTool(Append(w \o c.events, e)) <=>
             Message!UsesTool(w \o c.events) \/ block = "tool_use"
  BY <1>2, AfterOpen
<1> HIDE DEF e
<1>5. w \o y.events = Append(w \o c.events, e) /\ y.events \in Seq(Event)
  <2>1. y.events = Append(c.events, e)
    BY <1>3
  <2> QED BY <1>2, <1>3, <2>1, ConcatAppend, AppendProperties
<1>6. /\ y.state \in States /\ y.state.started = c.state.started /\ y.state.next = c.state.next + 1
      /\ y.state.open = c.state.next /\ y.state.text = c.state.text /\ y.state.calls = c.state.calls
      /\ y.state.stop = c.state.stop /\ y.state.stopped = c.state.stopped
  <2> DEFINE m == [c.state EXCEPT !.next = c.state.next + 1]
  <2>1. y.state = [m EXCEPT !.open = c.state.next]
    BY <1>3
  <2>2. /\ m \in States /\ m.started = c.state.started /\ m.next = c.state.next + 1
        /\ m.text = c.state.text /\ m.calls = c.state.calls
        /\ m.stop = c.state.stop /\ m.stopped = c.state.stopped
    BY <1>2 DEF States
  <2> HIDE DEF m, y
  <2> QED BY <1>2, <2>1, <2>2 DEF States
<1>7. y \in Pairs
  BY <1>3, <1>5, <1>6 DEF Pairs
<1> HIDE DEF y
<1>8. y.state.started
  BY <1>1, <1>6 DEF Keeps
<1>9. Fits(w, y)
  BY <1>2, <1>4, <1>5, <1>6, <1>7, <1>8 DEF Fits, States, None
<1> QED BY <1>1, <1>4, <1>5, <1>6, <1>8, <1>9 DEF Keeps, y

LEMMA StartTextKeeps ==
    ASSUME NEW w, NEW x, Fits(w, x)
    PROVE  LET y == StartTextBlock(x)
           IN  /\ Keeps(w, x, y) /\ y.state.open = y.state.text
               /\ y.state.open # None /\ y.state.next > 0
<1> DEFINE y == StartTextBlock(x)
           s == Start(x)
           b == OpenBlock(s, "text")
<1>1. Keeps(w, x, s)
  BY StartKeeps
<1> HIDE DEF s
<1>2. s \in Pairs /\ s.state \in States /\ s.state.next \in Nat /\ x.state.next \in Nat
      /\ s.state.open < s.state.next
  BY <1>1 DEF Keeps, Fits, Pairs, States
<1>3. CASE s.state.text # None /\ s.state.open = s.state.text
  <2>1. y = s
    BY <1>3 DEF StartTextBlock, s
  <2>2. s.state.open \in Nat
    BY <1>2, <1>3 DEF States
  <2>3. s.state.next > 0
    BY <1>2, <2>2
  <2> HIDE DEF y
  <2>4. Keeps(w, x, y) /\ y.state.open = y.state.text /\ y.state.open # None /\ y.state.next > 0
    BY <1>1, <1>3, <2>1, <2>3
  <2> QED BY <2>4 DEF y
<1>4. CASE ~(s.state.text # None /\ s.state.open = s.state.text)
  <2>1. /\ Fits(w, b) /\ b.state.started
        /\ b.state.calls = s.state.calls /\ b.state.stop = s.state.stop
        /\ b.state.stopped = s.state.stopped
        /\ b.state.next = s.state.next + 1 /\ b.state.open = s.state.next
        /\ Message!UsesTool(w \o b.events) <=> Message!UsesTool(w \o s.events)
    BY <1>1, OpenKeeps DEF Keeps
  <2>2. y = [b EXCEPT !.state.text = b.state.open]
    BY <1>4 DEF StartTextBlock, s
  <2> HIDE DEF b
  <2>3. b \in Pairs /\ b.state \in States /\ b.state.open \in Nat
    BY <1>2, <2>1 DEF Fits, Pairs
  <2>4. y.events = b.events /\ y.state = [b.state EXCEPT !.text = b.state.open] /\ y \in Pairs
    BY <2>2, <2>3 DEF Pairs, States
  <2> HIDE DEF y
  <2>5. /\ y.state.started = b.state.started /\ y.state.next = b.state.next
        /\ y.state.open = b.state.open /\ y.state.text = b.state.open /\ y.state.calls = b.state.calls
        /\ y.state.stop = b.state.stop /\ y.state.stopped = b.state.stopped
    BY <2>3, <2>4 DEF States
  <2>6. Fits(w, y)
    BY <2>1, <2>4, <2>5 DEF Fits
  <2>7. y.state.next > 0 /\ y.state.open # None /\ y.state.next >= x.state.next
    BY <1>1, <1>2, <2>1, <2>3, <2>5 DEF Keeps, None
  <2> QED BY <1>1, <2>1, <2>4, <2>5, <2>6, <2>7 DEF Keeps, y
<1> QED BY <1>3, <1>4

LEMMA TextKeeps ==
    ASSUME NEW w, NEW x, Fits(w, x)
    PROVE  Keeps(w, x, TextDelta(x))
<1> DEFINE y == TextDelta(x)
           b == StartTextBlock(x)
           e == Part(b.state.text)
<1>1. Keeps(w, x, b) /\ b.state.open = b.state.text /\ b.state.open # None
  BY StartTextKeeps
<1> HIDE DEF b
<1>2. /\ w \in Seq(Event) /\ b.events \in Seq(Event) /\ b.state \in States
      /\ b.state.next \in Nat /\ b.state.text \in Nat /\ b.state.text < b.state.next
      /\ InProgress(w \o b.events, b.state.next, b.state.open)
  BY <1>1 DEF Keeps, Fits, Pairs, States
<1>3. /\ y = [state |-> [b.state EXCEPT !.said = TRUE], events |-> Append(b.events, e)]
      /\ e \in Event
  BY <1>2 DEF TextDelta, Part, Event, b
<1>4. /\ InProgress(Append(w \o b.events, e), b.state.next, b.state.open)
      /\ Message!UsesTool(Append(w \o b.events, e)) <=> Message!UsesTool(w \o b.events)
  BY <1>1, <1>2, AfterPart
<1> HIDE DEF e
<1>5. w \o y.events = Append(w \o b.events, e) /\ y.events \in Seq(Event)
  <2>1. y.events = Append(b.events, e)
    BY <1>3
  <2> QED BY <1>2, <1>3, <2>1, ConcatAppend, AppendProperties
<1>6. /\ y.state \in States /\ y.state.started = b.state.started /\ y.state.next = b.state.next
      /\ y.state.open = b.state.open /\ y.state.text = b.state.text /\ y.state.calls = b.state.calls
      /\ y.state.stop = b.state.stop /\ y.state.stopped = b.state.stopped
  <2>1. y.state = [b.state EXCEPT !.said = TRUE]
    BY <1>3
  <2> QED BY <1>2, <2>1 DEF States
<1>7. y \in Pairs
  BY <1>3, <1>5, <1>6 DEF Pairs
<1> HIDE DEF y
<1>8. Fits(w, y)
  BY <1>1, <1>2, <1>4, <1>5, <1>6, <1>7 DEF Keeps, Fits
<1> QED BY <1>1, <1>4, <1>5, <1>6, <1>8 DEF Keeps, y

(* The blocks of j named calls, the last left open.                        *)
Blocks(first, j) == [k \in 1..(3 * j - 1) |-> ToolEvent(first, k - 1)]

LEMMA ToolEvents ==
    ASSUME NEW first \in Nat, NEW m \in Nat
    PROVE  /\ ToolEvent(first, 3 * m) = Opened(first + m, "tool_use")
           /\ ToolEvent(first, 3 * m + 1) = Part(first + m)
           /\ ToolEvent(first, 3 * m + 2) = Closed(first + m)
<1>1. /\ (3 * m) \div 3 = m /\ (3 * m) % 3 = 0
      /\ (3 * m + 1) \div 3 = m /\ (3 * m + 1) % 3 = 1
      /\ (3 * m + 2) \div 3 = m /\ (3 * m + 2) % 3 = 2
  BY SMT
<1> QED BY <1>1 DEF ToolEvent

LEMMA ToolEventsAre ==
    ASSUME NEW first \in Nat, NEW k \in Nat
    PROVE  ToolEvent(first, k) \in Event
<1>1. first + (k \div 3) \in Nat
  BY SMT
<1> QED BY <1>1 DEF ToolEvent, Event, Opened, Part, Closed

LEMMA FirstBlock ==
    ASSUME NEW first \in Nat
    PROVE  Blocks(first, 1) = Append(Append(<<>>, Opened(first, "tool_use")), Part(first))
<1>1. ToolEvent(first, 0) = Opened(first, "tool_use") /\ ToolEvent(first, 1) = Part(first)
  <2>1. /\ ToolEvent(first, 3 * 0) = Opened(first + 0, "tool_use")
        /\ ToolEvent(first, 3 * 0 + 1) = Part(first + 0)
    BY ToolEvents
  <2> QED BY <2>1
<1>2. 3 * 1 - 1 = 2
  OBVIOUS
<1> QED BY <1>1, <1>2 DEF Blocks

LEMMA NextBlock ==
    ASSUME NEW first \in Nat, NEW j \in Nat, j >= 1
    PROVE  /\ Blocks(first, j) \in Seq(Event)
           /\ Blocks(first, j + 1) = Append(Append(Append(Blocks(first, j),
                  Closed(first + j - 1)), Opened(first + j, "tool_use")), Part(first + j))
<1> DEFINE a == Closed(first + j - 1)
           b == Opened(first + j, "tool_use")
           c == Part(first + j)
           B == Blocks(first, j)
           C == Blocks(first, j + 1)
           D == Append(Append(Append(B, a), b), c)
<1>1. a \in Event /\ b \in Event /\ c \in Event
  BY DEF Event, Closed, Opened, Part
<1>2. /\ ToolEvent(first, 3 * j - 1) = a
      /\ ToolEvent(first, 3 * j) = b
      /\ ToolEvent(first, 3 * j + 1) = c
  <2>1. j - 1 \in Nat /\ 3 * (j - 1) + 2 = 3 * j - 1 /\ first + (j - 1) = first + j - 1
    OBVIOUS
  <2> QED BY <2>1, ToolEvents
<1> HIDE DEF a, b, c
<1>3. /\ B \in Seq(Event) /\ Len(B) = 3 * j - 1
      /\ \A k \in 1..(3 * j - 1) : B[k] = ToolEvent(first, k - 1)
  <2>1. 3 * j - 1 \in Nat /\ \A k \in 1..(3 * j - 1) : k - 1 \in Nat
    OBVIOUS
  <2>2. \A k \in 1..(3 * j - 1) : ToolEvent(first, k - 1) \in Event
    BY <2>1, ToolEventsAre
  <2> QED BY <2>1, <2>2 DEF Blocks
<1>4. /\ C \in Seq(Event) /\ Len(C) = 3 * j + 2
      /\ \A k \in 1..(3 * j + 2) : C[k] = ToolEvent(first, k - 1)
  <2>1. 3 * (j + 1) - 1 = 3 * j + 2 /\ 3 * j + 2 \in Nat /\ \A k \in 1..(3 * j + 2) : k - 1 \in Nat
    OBVIOUS
  <2>2. \A k \in 1..(3 * j + 2) : ToolEvent(first, k - 1) \in Event
    BY <2>1, ToolEventsAre
  <2> QED BY <2>1, <2>2 DEF Blocks
<1> HIDE DEF B, C
<1>5. /\ D \in Seq(Event) /\ Len(D) = 3 * j + 2
      /\ \A k \in 1..(3 * j - 1) : D[k] = B[k]
      /\ D[3 * j] = a /\ D[3 * j + 1] = b /\ D[3 * j + 2] = c
  <2> DEFINE B1 == Append(B, a)
             B2 == Append(B1, b)
  <2>1. /\ B1 \in Seq(Event) /\ Len(B1) = 3 * j
        /\ \A k \in 1..(3 * j - 1) : B1[k] = B[k]
        /\ B1[3 * j] = a
    <3>1. /\ B1 \in Seq(Event) /\ Len(B1) = Len(B) + 1 /\ B1[Len(B) + 1] = a
          /\ \A k \in 1..Len(B) : B1[k] = B[k]
      BY <1>1, <1>3, Appended
    <3>2. Len(B) = 3 * j - 1 /\ Len(B) + 1 = 3 * j
      BY <1>1, <1>3
    <3> HIDE DEF B1
    <3> QED BY <3>1, <3>2
  <2> HIDE DEF B1
  <2>2. /\ B2 \in Seq(Event) /\ Len(B2) = 3 * j + 1
        /\ \A k \in 1..(3 * j) : B2[k] = B1[k]
        /\ B2[3 * j + 1] = b
    <3>1. /\ B2 \in Seq(Event) /\ Len(B2) = Len(B1) + 1 /\ B2[Len(B1) + 1] = b
          /\ \A k \in 1..Len(B1) : B2[k] = B1[k]
      BY <1>1, <2>1, Appended
    <3>2. Len(B1) = 3 * j /\ Len(B1) + 1 = 3 * j + 1
      BY <1>1, <2>1
    <3> HIDE DEF B2
    <3> QED BY <3>1, <3>2
  <2> HIDE DEF B2
  <2>3. /\ D \in Seq(Event) /\ Len(D) = 3 * j + 2
        /\ \A k \in 1..(3 * j + 1) : D[k] = B2[k]
        /\ D[3 * j + 2] = c
    <3>1. /\ D \in Seq(Event) /\ Len(D) = Len(B2) + 1 /\ D[Len(B2) + 1] = c
          /\ \A k \in 1..Len(B2) : D[k] = B2[k]
      BY <1>1, <2>2, Appended DEF B1, B2
    <3>2. Len(B2) = 3 * j + 1 /\ Len(B2) + 1 = 3 * j + 2
      BY <1>1, <2>2
    <3> HIDE DEF D
    <3> QED BY <3>1, <3>2
  <2> HIDE DEF D
  <2> QED BY <2>1, <2>2, <2>3
<1> HIDE DEF D
<1>6. \A k \in 1..(3 * j + 2) : C[k] = D[k]
  <2>1. \A k \in 1..(3 * j + 2) : k \in 1..(3 * j - 1) \/ k = 3 * j \/ k = 3 * j + 1 \/ k = 3 * j + 2
    OBVIOUS
  <2>2. \A k \in 1..(3 * j - 1) : C[k] = D[k]
    BY <1>3, <1>4, <1>5
  <2>3. C[3 * j] = D[3 * j] /\ C[3 * j + 1] = D[3 * j + 1] /\ C[3 * j + 2] = D[3 * j + 2]
    <3>1. /\ C[3 * j] = ToolEvent(first, 3 * j - 1)
          /\ C[3 * j + 1] = ToolEvent(first, 3 * j + 1 - 1)
          /\ C[3 * j + 2] = ToolEvent(first, 3 * j + 2 - 1)
      BY <1>4
    <3>2. 3 * j + 1 - 1 = 3 * j /\ 3 * j + 2 - 1 = 3 * j + 1
      OBVIOUS
    <3> QED BY <1>2, <1>5, <3>1, <3>2
  <2> QED BY <2>1, <2>2, <2>3
<1>7. C = D
  BY <1>4, <1>5, <1>6, SeqEqual
<1> QED BY <1>3, <1>7 DEF B, C, D, a, b, c

(* Replayed calls are blocks of the message, numbered on from the first.   *)
LEMMA BlocksRun ==
    ASSUME NEW w \in Seq(Event), NEW v \in Seq(Event), NEW first,
           InProgress(w \o v, first, None), NEW n \in Nat, n >= 1
    PROVE  LET s == w \o (v \o Blocks(first, n))
           IN  InProgress(s, first + n, first + n - 1) /\ Message!UsesTool(s)
<1> DEFINE s(j) == w \o (v \o Blocks(first, j))
           P(j) == InProgress(s(j), first + j, first + j - 1) /\ Message!UsesTool(s(j))
           T == {j \in Nat : j >= 1 => P(j)}
<1>1. first \in Nat /\ w \o v \in Seq(Event)
  BY ConcatProperties DEF InProgress
<1>2. P(1)
  <2> DEFINE a == Opened(first, "tool_use")
             b == Part(first)
             u == Append(w \o v, a)
  <2>1. a \in Event /\ b \in Event
    BY <1>1 DEF Event, Opened, Part
  <2>2. InProgress(u, first + 1, first) /\ Message!UsesTool(u)
    BY AfterOpen
  <2>3. first # None
    BY <1>1 DEF None
  <2> HIDE DEF u
  <2>4. InProgress(Append(u, b), first + 1, first) /\ Message!UsesTool(Append(u, b))
    BY <2>2, <2>3, AfterPart
  <2>5. Blocks(first, 1) = Append(Append(<<>>, a), b)
    BY <1>1, FirstBlock
  <2> HIDE DEF a, b
  <2>6. s(1) = Append(u, b)
    <3> DEFINE e == Append(<<>>, a)
    <3>1. /\ e \in Seq(Event) /\ v \o e = Append(v, a) /\ Append(v, a) \in Seq(Event)
      <4>1. <<>> \in Seq(Event) /\ v \o <<>> = v
        BY EmptySeq, ConcatEmptySeq
      <4>2. v \o e = Append(v \o <<>>, a)
        BY <2>1, <4>1, ConcatAppend
      <4> QED BY <2>1, <4>1, <4>2, AppendProperties
    <3>2. v \o Blocks(first, 1) = Append(Append(v, a), b)
      <4> HIDE DEF e
      <4>1. v \o Append(e, b) = Append(v \o e, b)
        BY <2>1, <3>1, ConcatAppend
      <4> QED BY <2>5, <3>1, <4>1 DEF e
    <3>3. w \o Append(Append(v, a), b) = Append(w \o Append(v, a), b) /\ w \o Append(v, a) = u
      BY <2>1, <3>1, ConcatAppend DEF u
    <3> QED BY <3>2, <3>3
  <2>7. first + 1 - 1 = first
    BY <1>1
  <2> HIDE DEF s
  <2> QED BY <2>4, <2>6, <2>7
<1>3. ASSUME NEW j \in Nat, j >= 1, P(j) PROVE P(j + 1)
  <2> DEFINE o == first + j - 1
             a == Closed(o)
             b == Opened(first + j, "tool_use")
             c == Part(first + j)
             u == Append(s(j), a)
             z == Append(u, b)
  <2>1. o \in Nat /\ first + j \in Nat /\ a \in Event /\ b \in Event /\ c \in Event
        /\ o # None /\ first + j # None /\ (first + j) + 1 = first + (j + 1)
        /\ first + (j + 1) - 1 = first + j
    BY <1>1, <1>3 DEF Event, Opened, Closed, Part, None
  <2>2. InProgress(u, first + j, None) /\ Message!UsesTool(u)
    <3>1. InProgress(s(j), first + j, o) /\ Message!UsesTool(s(j))
      BY <1>3
    <3> HIDE DEF s, o
    <3> QED BY <2>1, <3>1, AfterClose
  <2> HIDE DEF u
  <2>3. InProgress(z, (first + j) + 1, first + j) /\ Message!UsesTool(z)
    BY <2>2, AfterOpen
  <2> HIDE DEF z
  <2>4. InProgress(Append(z, c), (first + j) + 1, first + j) /\ Message!UsesTool(Append(z, c))
    BY <2>1, <2>3, AfterPart
  <2>5. s(j + 1) = Append(z, c)
    <3> DEFINE B == Blocks(first, j)
    <3>1. /\ B \in Seq(Event)
          /\ Blocks(first, j + 1) = Append(Append(Append(B, a), b), c)
      BY <1>1, <1>3, NextBlock
    <3> HIDE DEF B, a, b, c, o
    <3>2. /\ Append(B, a) \in Seq(Event) /\ Append(Append(B, a), b) \in Seq(Event)
          /\ v \o B \in Seq(Event)
      BY <2>1, <3>1, AppendProperties, ConcatProperties
    <3>3. /\ v \o Append(B, a) = Append(v \o B, a)
          /\ v \o Append(Append(B, a), b) = Append(v \o Append(B, a), b)
          /\ v \o Append(Append(Append(B, a), b), c) = Append(v \o Append(Append(B, a), b), c)
      BY <2>1, <3>1, <3>2, ConcatAppend
    <3> DEFINE V1 == Append(v \o B, a)
               V2 == Append(V1, b)
    <3>4. V1 \in Seq(Event) /\ V2 \in Seq(Event)
      BY <2>1, <3>2, AppendProperties
    <3>5. /\ w \o Append(v \o B, a) = Append(w \o (v \o B), a)
          /\ w \o Append(V1, b) = Append(w \o V1, b)
          /\ w \o Append(V2, c) = Append(w \o V2, c)
      BY <2>1, <3>2, <3>4, ConcatAppend
    <3>6. w \o (v \o B) = s(j)
      BY DEF B
    <3>7. s(j + 1) = w \o Append(V2, c)
      BY <3>1, <3>3
    <3> QED BY <3>5, <3>6, <3>7 DEF z, u
  <2> HIDE DEF s, a, b, c
  <2> QED BY <2>1, <2>4, <2>5
<1> HIDE DEF P
<1>4. T = Nat
  <2>1. T \in SUBSET Nat /\ 0 \in T
    OBVIOUS
  <2>2. ASSUME NEW k \in T PROVE k + 1 \in T
    <3>1. CASE k = 0
      BY <1>2, <3>1
    <3>2. CASE k # 0
      <4>1. k \in Nat /\ k >= 1 /\ k + 1 \in Nat
        BY <3>2
      <4>2. P(k + 1)
        BY <1>3, <4>1
      <4> QED BY <4>1, <4>2
    <3> QED BY <3>1, <3>2
  <2> HIDE DEF T
  <2> QED BY <2>1, <2>2, NoGap
<1>5. P(n)
  BY <1>4
<1> QED BY <1>5 DEF P

LEMMA ToolBlocksKeep ==
    ASSUME NEW w, NEW x, Fits(w, x), x.state.started
    PROVE  LET y == ToolBlocks(x)
           IN  /\ Fits(w, y) /\ y.state.started
               /\ y.state.calls = x.state.calls /\ y.state.stop = x.state.stop
               /\ y.state.stopped = x.state.stopped /\ y.state.next >= x.state.next
               /\ Message!UsesTool(w \o y.events) <=>
                      \/ Message!UsesTool(w \o x.events)
                      \/ \E i \in ToolIndexes : x.state.calls[i] = "named"
<1> DEFINE named == {i \in ToolIndexes : x.state.calls[i] = "named"}
           n == Cardinality(named)
           c == CloseOpenBlock(x)
           y == ToolBlocks(x)
<1>1. n \in Nat /\ (n = 0 <=> named = {})
  <2>1. IsFiniteSet(named)
    <3>1. named \in SUBSET ToolIndexes /\ IsFiniteSet(ToolIndexes)
      BY StreamAssumption
    <3> QED BY <3>1, FS_Subset
  <2> HIDE DEF named
  <2> QED BY <2>1, FS_CardinalityType, FS_EmptySet
<1>2. named = {} <=> ~ \E i \in ToolIndexes : x.state.calls[i] = "named"
  OBVIOUS
<1>3. y = IF n = 0 THEN x
          ELSE [state |-> [c.state EXCEPT !.next = @ + n, !.open = c.state.next + n - 1],
                events |-> c.events \o Blocks(c.state.next, n)]
  BY DEF ToolBlocks, Blocks
<1>4. Keeps(w, x, c) /\ c.state.open = None /\ c.state.next = x.state.next
  BY CloseKeeps
<1> HIDE DEF named, n, c, y
<1>5. CASE n = 0
  <2>1. y = x /\ x.state.next \in Nat
    BY <1>3, <1>5 DEF Fits, Pairs, States
  <2>2. ~ \E i \in ToolIndexes : x.state.calls[i] = "named"
    BY <1>1, <1>2, <1>5
  <2>3. Message!UsesTool(w \o y.events) <=> Message!UsesTool(w \o x.events)
    BY <2>1
  <2> QED BY <2>1, <2>2, <2>3 DEF y
<1>6. CASE n # 0
  <2>1. /\ w \in Seq(Event) /\ c.events \in Seq(Event) /\ c.state \in States /\ n >= 1
        /\ c.state.next \in Nat /\ c.state.text < c.state.next /\ c.state.text \in Nat \cup {None}
        /\ c.state.started /\ InProgress(w \o c.events, c.state.next, None)
    BY <1>1, <1>4, <1>6 DEF Keeps, Fits, Pairs, States
  <2> DEFINE o == c.state.next + n - 1
             v == c.events \o Blocks(c.state.next, n)
  <2>2. /\ y.state = [c.state EXCEPT !.next = c.state.next + n, !.open = o]
        /\ y.events = v /\ y = [state |-> y.state, events |-> v]
    BY <1>3, <1>6
  <2>3. InProgress(w \o v, c.state.next + n, o) /\ Message!UsesTool(w \o v)
    BY <1>1, <2>1, BlocksRun
  <2>4. v \in Seq(Event)
    <3>1. Blocks(c.state.next, n) \in Seq(Event)
      BY <1>1, <2>1, NextBlock
    <3> QED BY <2>1, <3>1, ConcatProperties
  <2>5. o \in Nat /\ o < c.state.next + n /\ c.state.next + n \in Nat
    BY <1>1, <2>1
  <2> HIDE DEF o, v
  <2>6. /\ y.state \in States /\ y.state.started /\ y.state.next = c.state.next + n
        /\ y.state.open = o /\ y.state.text = c.state.text /\ y.state.calls = c.state.calls
        /\ y.state.stop = c.state.stop /\ y.state.stopped = c.state.stopped
    <3> DEFINE m == [c.state EXCEPT !.next = c.state.next + n]
    <3>1. y.state = [m EXCEPT !.open = o]
      BY <2>2
    <3>2. /\ m \in States /\ m.started = c.state.started /\ m.next = c.state.next + n
          /\ m.text = c.state.text /\ m.calls = c.state.calls
          /\ m.stop = c.state.stop /\ m.stopped = c.state.stopped
      BY <2>1, <2>5 DEF States
    <3> HIDE DEF m
    <3> QED BY <2>1, <2>5, <3>1, <3>2 DEF States
  <2>7. y \in Pairs
    BY <2>2, <2>4, <2>6 DEF Pairs
  <2>8. y.state.open < y.state.next /\ y.state.text < y.state.next /\ y.state.next >= x.state.next
    <3>1. y.state.open < y.state.next
      BY <2>5, <2>6
    <3>2. y.state.text < y.state.next
      BY <1>1, <2>1, <2>6 DEF None
    <3>3. y.state.next >= x.state.next
      BY <1>1, <1>4, <2>1, <2>6
    <3> QED BY <3>1, <3>2, <3>3
  <2>9. Fits(w, y)
    BY <2>1, <2>2, <2>3, <2>6, <2>7, <2>8 DEF Fits
  <2>10. \E i \in ToolIndexes : x.state.calls[i] = "named"
    BY <1>1, <1>2, <1>6
  <2>11. Message!UsesTool(w \o y.events)
    BY <2>2, <2>3
  <2>12. y.state.calls = x.state.calls /\ y.state.stop = x.state.stop /\ y.state.stopped = x.state.stopped
    BY <1>4, <2>6 DEF Keeps
  <2> QED BY <2>6, <2>8, <2>9, <2>10, <2>11, <2>12 DEF y
<1> QED BY <1>5, <1>6

(* Fits is about the events and four fields of the state.                  *)
LEMMA FitsSame ==
    ASSUME NEW w, NEW x, Fits(w, x), NEW y \in Pairs, y.events = x.events,
           y.state.started = x.state.started, y.state.next = x.state.next,
           y.state.open = x.state.open, y.state.text = x.state.text
    PROVE  Fits(w, y)
BY DEF Fits

LEMMA EmitKeeps ==
    ASSUME NEW w, NEW x, Fits(w, x), x.state.started, ~Message!UsesTool(w \o x.events)
    PROVE  LET y == EmitToolBlocks(x)
           IN  /\ Fits(w, y) /\ y.state.started
               /\ y.state.calls = x.state.calls /\ y.state.stopped = x.state.stopped
               /\ y.state.next >= x.state.next
               /\ y.state.stop = "tool_use" <=> Message!UsesTool(w \o y.events)
               /\ (\E i \in ToolIndexes : x.state.calls[i] = "named") =>
                      Message!UsesTool(w \o y.events)
<1> DEFINE named == \E i \in ToolIndexes : x.state.calls[i] = "named"
           b == ToolBlocks(x)
           st == IF named THEN "tool_use"
                 ELSE IF b.state.stop = "tool_use" THEN "end_turn" ELSE b.state.stop
           y == EmitToolBlocks(x)
<1>1. /\ Fits(w, b) /\ b.state.started
      /\ b.state.calls = x.state.calls /\ b.state.stopped = x.state.stopped
      /\ b.state.next >= x.state.next
      /\ Message!UsesTool(w \o b.events) <=> named
  BY ToolBlocksKeep
<1>2. b \in Pairs /\ b.state \in States /\ b.state.stop \in StopReasons
  BY <1>1 DEF Fits, Pairs, States
<1>3. y = [b EXCEPT !.state.stop = st]
  BY DEF EmitToolBlocks
<1> HIDE DEF b, named
<1>4. st \in StopReasons /\ (st = "tool_use" <=> named)
  BY <1>2 DEF StopReasons
<1> HIDE DEF st, y
<1>5. y \in Pairs /\ y.events = b.events /\ y.state = [b.state EXCEPT !.stop = st]
  BY <1>2, <1>3, <1>4 DEF Pairs, States
<1>6. /\ y.state.started = b.state.started /\ y.state.next = b.state.next
      /\ y.state.open = b.state.open /\ y.state.text = b.state.text /\ y.state.calls = b.state.calls
      /\ y.state.stop = st /\ y.state.stopped = b.state.stopped
  BY <1>2, <1>5 DEF States
<1>7. Fits(w, y)
  BY <1>1, <1>5, <1>6, FitsSame
<1>8. Message!UsesTool(w \o y.events) <=> named
  BY <1>1, <1>5
<1> QED BY <1>1, <1>4, <1>6, <1>7, <1>8 DEF y, named

(* The message is finished, with whatever it still lacks.                  *)
LEMMA FinishEnds ==
    ASSUME NEW w, NEW x, Fits(w, x), ~x.state.stopped, ~Message!UsesTool(w \o x.events)
    PROVE  LET y == FinishStream(x)
           IN  /\ y \in Pairs /\ y.state.open < y.state.next /\ y.state.text < y.state.next
               /\ y.state.calls = x.state.calls
               /\ Sound(w \o y.events)
               /\ \/ Starts(w \o y.events) # {}
                  \/ \E i \in ToolIndexes : x.state.calls[i] = "nameless"
<1> DEFINE noCalls == \A i \in ToolIndexes : x.state.calls[i] = "absent"
           s == IF x.state.next = 0 /\ noCalls THEN StartTextBlock(x) ELSE Start(x)
           t == EmitToolBlocks(s)
           c == CloseOpenBlock(t)
           y == FinishStream(x)
           d == [type |-> "message_delta", stop |-> c.state.stop]
           e == [type |-> "message_stop"]
<1>1. Keeps(w, x, s) /\ (x.state.next = 0 /\ noCalls => s.state.next > 0)
  BY StartKeeps, StartTextKeeps
<1>2. y = [state |-> [c.state EXCEPT !.stopped = TRUE], events |-> c.events \o <<d, e>>]
  BY DEF FinishStream
<1> HIDE DEF s
<1>3. Fits(w, s) /\ s.state.started /\ s.state.calls = x.state.calls
      /\ s.state.next >= x.state.next /\ ~Message!UsesTool(w \o s.events)
  BY <1>1 DEF Keeps
<1>4. /\ Fits(w, t) /\ t.state.started
      /\ t.state.calls = s.state.calls /\ t.state.next >= s.state.next
      /\ t.state.stop = "tool_use" <=> Message!UsesTool(w \o t.events)
      /\ (\E i \in ToolIndexes : s.state.calls[i] = "named") => Message!UsesTool(w \o t.events)
  BY <1>3, EmitKeeps
<1> HIDE DEF t
<1>5. Keeps(w, t, c) /\ c.state.open = None /\ c.state.next = t.state.next
  BY <1>4, CloseKeeps
<1> HIDE DEF c
<1>6. /\ w \in Seq(Event) /\ c.events \in Seq(Event) /\ c.state \in States
      /\ c.state.next \in Nat /\ c.state.text < c.state.next /\ c.state.stop \in StopReasons
      /\ InProgress(w \o c.events, c.state.next, None)
      /\ c.state.stop = "tool_use" <=> Message!UsesTool(w \o c.events)
  BY <1>4, <1>5 DEF Keeps, Fits, Pairs, States
<1> DEFINE u == Append(Append(w \o c.events, d), e)
<1>7. d \in Event /\ e \in Event /\ Sound(u) /\ Starts(u) = Starts(w \o c.events)
  BY <1>6, AfterEnd
<1> HIDE DEF d, e
<1>8. w \o y.events = u /\ y.events \in Seq(Event)
  <2> DEFINE v == Append(c.events, d)
  <2>1. v \in Seq(Event) /\ Append(v, e) \in Seq(Event)
    BY <1>6, <1>7, AppendProperties
  <2>2. Append(v, e) = c.events \o <<d, e>>
    <3>1. <<d, e>> = Append(<<d>>, e) /\ <<d>> \in Seq(Event)
      BY <1>7
    <3>2. c.events \o Append(<<d>>, e) = Append(c.events \o <<d>>, e)
      BY <1>6, <1>7, <3>1, ConcatAppend
    <3>3. c.events \o <<d>> = v
      BY <1>6, <1>7, AppendIsConcat
    <3> QED BY <3>1, <3>2, <3>3
  <2>3. w \o v = Append(w \o c.events, d)
    BY <1>6, <1>7, ConcatAppend
  <2> HIDE DEF v
  <2>4. w \o Append(v, e) = Append(w \o v, e)
    BY <1>6, <1>7, <2>1, ConcatAppend
  <2>5. y.events = Append(v, e)
    BY <1>2, <2>2
  <2> QED BY <2>1, <2>3, <2>4, <2>5
<1> HIDE DEF y, u
<1>9. /\ y.state \in States /\ y.state.next = c.state.next /\ y.state.open = None
      /\ y.state.text = c.state.text /\ y.state.calls = c.state.calls
  <2>1. y.state = [c.state EXCEPT !.stopped = TRUE]
    BY <1>2
  <2> QED BY <1>5, <1>6, <2>1 DEF States
<1>10. y \in Pairs /\ y.state.open < y.state.next /\ y.state.text < y.state.next
       /\ y.state.calls = x.state.calls
  <2>1. y \in Pairs
    BY <1>2, <1>8, <1>9 DEF Pairs
  <2> QED BY <1>3, <1>4, <1>5, <1>6, <1>9, <2>1 DEF Keeps, None
<1>11. \/ Starts(w \o y.events) # {}
       \/ \E i \in ToolIndexes : x.state.calls[i] = "nameless"
  <2>1. Starts(w \o y.events) = Starts(w \o c.events)
    BY <1>7, <1>8
  <2>2. CASE c.state.next > 0
    <3>1. 0 \in 0..(c.state.next - 1)
      BY <1>6, <2>2
    <3> QED BY <1>6, <2>1, <3>1 DEF InProgress, Numbered
  <2>3. CASE ~(c.state.next > 0)
    <3>1. x.state.next = 0 /\ ~(s.state.next > 0)
      <4>1. x.state.next \in Nat /\ s.state.next \in Nat /\ t.state.next \in Nat
        BY <1>3, <1>4 DEF Fits, Pairs, States
      <4> QED BY <1>3, <1>4, <1>5, <2>3, <4>1
    <3>2. ~noCalls
      BY <1>1, <3>1
    <3>3. PICK i \in ToolIndexes : x.state.calls[i] # "absent"
      BY <3>2
    <3>4. x.state.calls[i] \in Calls
      BY <3>3 DEF Fits, Pairs, States
    <3>5. CASE x.state.calls[i] = "named"
      <4>1. Message!UsesTool(w \o c.events)
        BY <1>3, <1>4, <1>5, <3>3, <3>5 DEF Keeps
      <4> QED BY <2>1, <4>1 DEF Message!UsesTool, Starts
    <3> QED BY <3>3, <3>4, <3>5 DEF Calls
  <2> QED BY <2>2, <2>3
<1> QED BY <1>7, <1>8, <1>10, <1>11 DEF y

-----------------------------------------------------------------------------
(* The inductive invariant. What is on its way to the client is sound;     *)
(* while the backend is read it fits the state, and no tool call was       *)
(* replayed yet; once it is complete it has a block or dropped calls.      *)
StreamInv ==
    /\ upstream \in {"claude", "openai", "gemini"}
    /\ phase \in {"begin", "reading", "finishing", "ended", "failed", "gone"}
    /\ records \in 0..MaxRecords
    /\ state \in States /\ state.open < state.next /\ state.text < state.next
    /\ wire \in Seq(Event) /\ events \in Seq(Event)
    /\ Sound(wire \o events)
    /\ phase \in {"begin", "reading"} =>
           /\ Fits(wire, [state |-> state, events |-> events])
           /\ ~state.stopped /\ ~Message!UsesTool(wire \o events)
    /\ phase = "begin" => events = <<>>
    /\ Message!Has(wire \o events, "message_stop") =>
           \/ Starts(wire \o events) # {}
           \/ \E i \in ToolIndexes : state.calls[i] = "nameless"

(* What the adapters make of a record before the end. *)
Good(w, x) == Fits(w, x) /\ ~x.state.stopped /\ ~Message!UsesTool(w \o x.events)

LEMMA GoodMeans ==
    ASSUME NEW w, NEW x, Fits(w, x)
    PROVE  /\ w \o x.events \in Seq(Event) /\ Sound(w \o x.events)
           /\ ~Message!Has(w \o x.events, "message_stop") /\ ~Message!Has(w \o x.events, "error")
<1>1. CASE x.state.started
  BY <1>1 DEF Fits, InProgress, Message!InMessage
<1>2. CASE ~x.state.started
  <2>1. w \o x.events = <<>> /\ <<>> \in Seq(Event) /\ Len(<<>>) = 0
    BY <1>2, EmptySeq DEF Fits
  <2> QED BY <2>1 DEF Sound, Message!Has, Message!Of
<1> QED BY <1>1, <1>2

LEMMA GoodRemains ==
    ASSUME NEW w, NEW x, Good(w, x)
    PROVE  /\ Good(w, Start(x)) /\ Good(w, TextDelta(x))
           /\ \A stop \in StopReasons : Good(w, [x EXCEPT !.state.stop = stop])
           /\ \A i \in ToolIndexes, call \in Calls : Good(w, [x EXCEPT !.state.calls[i] = call])
<1>1. Good(w, Start(x)) /\ Good(w, TextDelta(x))
  BY StartKeeps, TextKeeps DEF Keeps, Good
<1>2. x \in Pairs /\ x.state \in States
  BY DEF Good, Fits, Pairs
<1>3. ASSUME NEW stop \in StopReasons
      PROVE  Good(w, [x EXCEPT !.state.stop = stop])
  <2> DEFINE y == [x EXCEPT !.state.stop = stop]
  <2>1. y \in Pairs /\ y.events = x.events /\ y.state = [x.state EXCEPT !.stop = stop]
    BY <1>2 DEF Pairs, States
  <2> HIDE DEF y
  <2>2. /\ y.state.started = x.state.started /\ y.state.next = x.state.next
        /\ y.state.open = x.state.open /\ y.state.text = x.state.text
        /\ y.state.stopped = x.state.stopped
    BY <1>2, <2>1 DEF States
  <2>3. Good(w, y)
    BY <2>1, <2>2, FitsSame DEF Good
  <2> QED BY <2>3 DEF y
<1>4. ASSUME NEW i \in ToolIndexes, NEW call \in Calls
      PROVE  Good(w, [x EXCEPT !.state.calls[i] = call])
  <2> DEFINE cs == [x.state.calls EXCEPT ![i] = call]
             y == [x EXCEPT !.state.calls[i] = call]
  <2>1. cs \in [ToolIndexes -> Calls]
    BY <1>2 DEF States
  <2>2. y = [x EXCEPT !.state.calls = cs]
    BY <1>2 DEF Pairs, States
  <2> HIDE DEF y, cs
  <2>3. y \in Pairs /\ y.events = x.events /\ y.state = [x.state EXCEPT !.calls = cs]
    BY <1>2, <2>1, <2>2 DEF Pairs, States
  <2>4. /\ y.state.started = x.state.started /\ y.state.next = x.state.next
        /\ y.state.open = x.state.open /\ y.state.text = x.state.text
        /\ y.state.stopped = x.state.stopped
    BY <1>2, <2>3 DEF States
  <2>5. Good(w, y)
    BY <2>3, <2>4, FitsSame DEF Good
  <2> QED BY <2>5 DEF y
<1> QED BY <1>1, <1>3, <1>4

LEMMA StreamInitially == StreamInit => StreamInv
<1> SUFFICES ASSUME StreamInit PROVE StreamInv
  OBVIOUS
<1>1. /\ state \in States /\ state.next = 0 /\ state.open = None /\ state.text = None
      /\ ~state.started /\ ~state.stopped
  BY DEF StreamInit, States, None, Calls, StopReasons
<1>2. events = <<>> /\ wire = <<>> /\ <<>> \in Seq(Event) /\ <<>> \o <<>> = <<>> /\ Len(<<>>) = 0
  BY EmptySeq, ConcatEmptySeq DEF StreamInit
<1>3. Fits(wire, [state |-> state, events |-> events])
  BY <1>1, <1>2 DEF Fits, Pairs, None
<1>4. Sound(<<>>) /\ ~Message!UsesTool(<<>>) /\ ~Message!Has(<<>>, "message_stop")
  BY <1>2 DEF Sound, Message!UsesTool, Message!Has, Message!Of
<1>5. 0 \in 0..MaxRecords
  BY StreamAssumption
<1> QED BY <1>1, <1>2, <1>3, <1>4, <1>5 DEF StreamInit, StreamInv, None

(* A step that translates something before the end.                        *)
LEMMA GoodStep ==
    ASSUME NEW y, Good(wire, y), Translate(y), phase' = "reading",
           upstream' \in {"claude", "openai", "gemini"}, records' \in 0..MaxRecords, wire' = wire
    PROVE  StreamInv'
<1>1. /\ wire \in Seq(Event) /\ y \in Pairs /\ state' = y.state /\ events' = y.events
      /\ y.state \in States /\ y.events \in Seq(Event)
      /\ y.state.open < y.state.next /\ y.state.text < y.state.next
  BY DEF Good, Fits, Pairs, Translate
<1>2. Sound(wire \o y.events) /\ ~Message!Has(wire \o y.events, "message_stop")
  BY GoodMeans DEF Good
<1>3. y = [state |-> y.state, events |-> y.events]
  BY <1>1 DEF Pairs
<1>4. Fits(wire', [state |-> state', events |-> events'])
  BY <1>1, <1>3 DEF Good
<1>5. ~state'.stopped /\ ~Message!UsesTool(wire' \o events')
  BY <1>1 DEF Good
<1>6. Sound(wire' \o events') /\ ~Message!Has(wire' \o events', "message_stop")
  BY <1>1, <1>2
<1> QED BY <1>1, <1>4, <1>5, <1>6 DEF StreamInv

(* A step that ends the reading with an error event.                       *)
LEMMA ErrorStep ==
    ASSUME StreamInv, phase = "reading", events = <<>>, phase' = "failed",
           events' = <<[type |-> "error"]>>, records' \in 0..MaxRecords,
           UNCHANGED <<upstream, state, wire>>
    PROVE  StreamInv'
<1> DEFINE e == [type |-> "error"]
           x == [state |-> state, events |-> events]
<1>1. /\ wire \in Seq(Event) /\ <<>> \in Seq(Event) /\ wire \o <<>> = wire
  BY EmptySeq, ConcatEmptySeq DEF StreamInv
<1>2. Sound(wire) /\ ~Message!Has(wire, "message_stop") /\ ~Message!Has(wire, "error")
  <2>1. Fits(wire, x)
    BY DEF StreamInv
  <2>2. Sound(wire \o x.events) /\ ~Message!Has(wire \o x.events, "message_stop")
        /\ ~Message!Has(wire \o x.events, "error")
    BY <2>1, GoodMeans
  <2> QED BY <1>1, <2>2
<1>3. e \in Event /\ Sound(Append(wire, e)) /\ Message!Of(Append(wire, e), "message_stop") = {}
  BY <1>1, <1>2, AfterError
<1> HIDE DEF e
<1>4. wire \o <<e>> = Append(wire, e) /\ <<e>> \in Seq(Event)
  BY <1>1, <1>3, AppendIsConcat
<1>5. wire' = wire /\ events' = <<e>>
  BY DEF e
<1>6. Sound(wire' \o events') /\ ~Message!Has(wire' \o events', "message_stop")
  BY <1>3, <1>4, <1>5 DEF Message!Has
<1> QED BY <1>4, <1>5, <1>6 DEF StreamInv

LEMMA ReadStep ==
    ASSUME StreamInv, Begin \/ ClaudeRecord \/ OpenAIChunk \/ Envelope
    PROVE  StreamInv'
<1>1. upstream \in {"claude", "openai", "gemini"} /\ records \in 0..MaxRecords
      /\ MaxRecords \in Nat /\ 1 \in Nat
  BY StreamAssumption DEF StreamInv
<1>2. events = <<>> /\ phase \in {"begin", "reading"} /\ wire' = wire /\ upstream' = upstream
  <2>1. phase = "begin" => events = <<>>
    BY DEF StreamInv
  <2>2. CASE Begin
    BY <2>1, <2>2 DEF Begin
  <2>3. CASE ClaudeRecord
    BY <2>3 DEF ClaudeRecord, Reads
  <2>4. CASE OpenAIChunk
    BY <2>4 DEF OpenAIChunk, Reads
  <2>5. CASE Envelope
    BY <2>5 DEF Envelope, Reads
  <2> QED BY <2>2, <2>3, <2>4, <2>5
<1>3. records' \in 0..MaxRecords
  <2>1. records' = records \/ (Reads /\ records < MaxRecords)
    BY DEF Begin, ClaudeRecord, OpenAIChunk, Envelope, Reads
  <2> QED BY <1>1, <2>1 DEF Reads
<1>4. Good(wire, Now)
  BY <1>2 DEF StreamInv, Good, Now
<1>5. CASE Begin
  <2>1. PICK y : Good(wire, y) /\ Translate(y)
    BY <1>4, <1>5, GoodRemains DEF Begin
  <2>2. phase' = "reading"
    BY <1>5 DEF Begin
  <2> QED BY <1>1, <1>2, <1>3, <2>1, <2>2, GoodStep
<1>6. CASE ClaudeRecord
  <2>1. CASE /\ phase' = "failed" /\ events' = <<[type |-> "error"]>> /\ UNCHANGED state
    BY <1>2, <1>3, <1>6, <2>1, ErrorStep DEF ClaudeRecord, Reads
  <2>2. CASE ~(phase' = "failed" /\ events' = <<[type |-> "error"]>> /\ UNCHANGED state)
    <3>1. PICK y : Good(wire, y) /\ Translate(y)
      <4>1. CASE UNCHANGED <<phase, state, events>>
        BY <1>2, <1>4, <4>1 DEF Translate, Now
      <4>2. CASE \E stop \in StopReasons : Translate([Now EXCEPT !.state.stop = stop])
        BY <1>4, <4>2, GoodRemains
      <4>3. CASE \/ Translate(Start(Now)) \/ Translate(TextDelta(Now))
                 \/ Translate(IF state.said THEN Now ELSE TextDelta(Now))
        BY <1>4, <4>3, GoodRemains
      <4> QED BY <1>6, <2>2, <4>1, <4>2, <4>3 DEF ClaudeRecord
    <3>2. phase' = "reading"
      BY <1>6, <2>2 DEF ClaudeRecord, Reads
    <3> QED BY <1>1, <1>2, <1>3, <3>1, <3>2, GoodStep
  <2> QED BY <2>1, <2>2
<1>7. CASE OpenAIChunk
  <2>1. PICK content \in BOOLEAN, i \in ToolIndexes, call \in Calls, finish \in StopReasons \cup {"none"} :
          LET said == IF content THEN TextDelta(Now) ELSE Now
              named == call = "named" \/ said.state.calls[i] = "named"
              folded == IF call = "absent" THEN said
                        ELSE [said EXCEPT !.state.calls[i] = IF named THEN "named" ELSE "nameless"]
          IN  Translate([folded EXCEPT !.state.stop = IF finish = "none" THEN @ ELSE finish])
    BY <1>7 DEF OpenAIChunk
  <2> DEFINE said == IF content THEN TextDelta(Now) ELSE Now
             named == call = "named" \/ said.state.calls[i] = "named"
             became == IF named THEN "named" ELSE "nameless"
             folded == IF call = "absent" THEN said ELSE [said EXCEPT !.state.calls[i] = became]
             stop == IF finish = "none" THEN folded.state.stop ELSE finish
             y == [folded EXCEPT !.state.stop = stop]
  <2>2. Translate(y)
    BY <2>1
  <2>3. Good(wire, said)
    BY <1>4, GoodRemains
  <2>4. became \in Calls
    BY DEF Calls
  <2> HIDE DEF said, became
  <2>5. Good(wire, folded)
    BY <2>3, <2>4, GoodRemains
  <2> HIDE DEF folded
  <2>6. stop \in StopReasons
    BY <2>5 DEF Good, Fits, Pairs, States
  <2> HIDE DEF stop
  <2>7. Good(wire, y)
    BY <2>5, <2>6, GoodRemains
  <2> HIDE DEF y
  <2>8. phase' = "reading"
    BY <1>7 DEF OpenAIChunk, Reads
  <2> QED BY <1>1, <1>2, <1>3, <2>2, <2>7, <2>8, GoodStep
<1>8. CASE Envelope
  <2>1. PICK stop \in StopReasons, said \in BOOLEAN :
          LET s == Start([Now EXCEPT !.state.stop = stop])
          IN  Translate(IF said THEN TextDelta(s) ELSE s)
    BY <1>8 DEF Envelope
  <2> DEFINE b == [Now EXCEPT !.state.stop = stop]
             s == Start(b)
             y == IF said THEN TextDelta(s) ELSE s
  <2>2. Good(wire, b)
    BY <1>4, GoodRemains
  <2> HIDE DEF b
  <2>3. Good(wire, s)
    BY <2>2, GoodRemains
  <2>4. Translate(y)
    BY <2>1 DEF b
  <2> HIDE DEF s
  <2>5. Good(wire, y)
    BY <2>3, GoodRemains
  <2> HIDE DEF y
  <2>6. phase' = "reading"
    BY <1>8 DEF Envelope, Reads
  <2> QED BY <1>1, <1>2, <1>3, <2>4, <2>5, <2>6, GoodStep
<1> QED BY <1>5, <1>6, <1>7, <1>8

LEMMA EndStep ==
    ASSUME StreamInv, BackendEnds
    PROVE  StreamInv'
<1> DEFINE y == FinishStream(Now)
<1>1. /\ phase = "reading" /\ events = <<>> /\ phase' = "finishing" /\ Translate(y)
      /\ upstream' = upstream /\ records' = records /\ wire' = wire
  BY DEF BackendEnds
<1>2. Good(wire, Now)
  BY <1>1 DEF StreamInv, Good, Now
<1>3. /\ y \in Pairs /\ y.state.open < y.state.next /\ y.state.text < y.state.next
      /\ Now.state = state /\ y.state.calls = state.calls
      /\ Sound(wire \o y.events)
      /\ \/ Starts(wire \o y.events) # {}
         \/ \E i \in ToolIndexes : state.calls[i] = "nameless"
  <2>1. Now.state = state
    BY DEF Now
  <2> QED BY <1>2, <2>1, FinishEnds DEF Good
<1> HIDE DEF y
<1>4. state' = y.state /\ events' = y.events /\ wire \o y.events = wire' \o events'
  BY <1>1 DEF Translate
<1>5. y.state \in States /\ y.events \in Seq(Event)
  BY <1>3 DEF Pairs
<1> QED BY <1>1, <1>3, <1>4, <1>5 DEF StreamInv

LEMMA YieldStep ==
    ASSUME StreamInv, Yield
    PROVE  StreamInv' /\ Message!CanFollow(wire, Head(events))
<1> DEFINE h == Head(events)
           t == Tail(events)
<1>1. /\ events # <<>> /\ phase # "gone" /\ wire' = Append(wire, h) /\ events' = t
      /\ wire \in Seq(Event) /\ events \in Seq(Event) /\ Sound(wire \o events)
      /\ UNCHANGED <<upstream, records, state>>
  BY DEF Yield, StreamInv
<1>2. h \in Event /\ t \in Seq(Event) /\ <<h>> \in Seq(Event)
  BY <1>1, HeadTailProperties
<1>3. events = <<h>> \o t
  BY <1>1, HeadTailProperties, ConcatSimplifications
<1>4. wire' \o events' = wire \o events /\ wire' \in Seq(Event)
  <2> HIDE DEF h, t
  <2>1. Append(wire, h) = wire \o <<h>> /\ Append(wire, h) \in Seq(Event)
    BY <1>1, <1>2, AppendIsConcat
  <2>2. (wire \o <<h>>) \o t = wire \o (<<h>> \o t)
    BY <1>1, <1>2, ConcatAssociative
  <2> QED BY <1>1, <1>3, <2>1, <2>2
<1>5. Message!CanFollow(wire, h)
  BY <1>1, SoundPrefix
<1> HIDE DEF h, t
<1>6. phase' \in {"begin", "reading", "finishing", "ended", "failed", "gone"}
      /\ (phase' \in {"begin", "reading"} => phase' = phase) /\ phase' # "begin"
  BY <1>1 DEF Yield, StreamInv
<1>7. phase' = "reading" => Fits(wire', [state |-> state', events |-> events'])
  <2> SUFFICES ASSUME phase' = "reading" PROVE Fits(wire', [state |-> state', events |-> events'])
    OBVIOUS
  <2> DEFINE x == [state |-> state, events |-> events]
             y == [state |-> state', events |-> events']
  <2>1. Fits(wire, x)
    BY <1>6 DEF StreamInv
  <2>2. y \in Pairs /\ y.state = x.state /\ wire' \o y.events = wire \o x.events
    BY <1>1, <1>2, <1>4 DEF StreamInv, Pairs
  <2> HIDE DEF x, y
  <2>3. Fits(wire', y)
    BY <1>4, <2>1, <2>2 DEF Fits
  <2> QED BY <2>3 DEF y
<1>8. phase' = "reading" => ~state'.stopped /\ ~Message!UsesTool(wire' \o events')
  BY <1>1, <1>4, <1>6 DEF StreamInv
<1>9. /\ Sound(wire' \o events')
      /\ Message!Has(wire' \o events', "message_stop") =>
             \/ Starts(wire' \o events') # {}
             \/ \E i \in ToolIndexes : state'.calls[i] = "nameless"
  BY <1>1, <1>4 DEF StreamInv
<1>10. StreamInv'
  <2>1. /\ upstream' \in {"claude", "openai", "gemini"} /\ records' \in 0..MaxRecords
        /\ state' \in States /\ state'.open < state'.next /\ state'.text < state'.next
    BY <1>1 DEF StreamInv
  <2> QED BY <1>1, <1>2, <1>4, <1>6, <1>7, <1>8, <1>9, <2>1 DEF StreamInv
<1> QED BY <1>5, <1>10 DEF h

(* In a sound sequence blocks open before the message_delta, and it comes  *)
(* before the message_stop: a message that was stopped has all its blocks. *)
LEMMA StopIsLast ==
    ASSUME NEW s \in Seq(Event), Sound(s), NEW m \in Message!Of(s, "message_stop"),
           NEW i \in Starts(s)
    PROVE  i < m
<1>1. /\ Len(s) \in Nat /\ m \in 1..Len(s) /\ i \in 1..Len(s)
      /\ s[m].type = "message_stop" /\ s[i].type = "content_block_start"
  BY LenProperties DEF Message!Of, Starts
<1>2. ASSUME NEW n \in 1..Len(s)
      PROVE  /\ Len(SubSeq(s, 1, n - 1)) = n - 1
             /\ \A k \in 1..(n - 1) : SubSeq(s, 1, n - 1)[k] = s[k]
  <2>1. n - 1 \in Nat /\ \A k \in 1..(n - 1) : s[k] \in Event
    BY <1>1, ElementOfSeq
  <2> QED BY <2>1, SubSeqProperties
<1>3. Message!CanFollow(SubSeq(s, 1, m - 1), s[m]) /\ Message!CanFollow(SubSeq(s, 1, i - 1), s[i])
  BY <1>1 DEF Sound
<1>4. Message!Has(SubSeq(s, 1, m - 1), "message_delta")
  BY <1>1, <1>3 DEF Message!CanFollow
<1>5. ~Message!Has(SubSeq(s, 1, i - 1), "message_delta")
  BY <1>1, <1>3 DEF Message!CanFollow, Message!InMessage
<1>6. PICK d \in 1..(m - 1) : s[d].type = "message_delta"
  BY <1>1, <1>2, <1>4 DEF Message!Has, Message!Of
<1>7. ~(d < i)
  <2> SUFFICES ASSUME d < i PROVE FALSE
    OBVIOUS
  <2>1. d \in 1..(i - 1)
    BY <1>1
  <2> QED BY <1>1, <1>2, <1>5, <1>6, <2>1 DEF Message!Has, Message!Of
<1>8. d # i
  BY <1>1, <1>6
<1> QED BY <1>1, <1>6, <1>7, <1>8

LEMMA ContentInWire ==
    ASSUME StreamInv, Message!Has(wire, "message_stop")
    PROVE  \/ Starts(wire) # {}
           \/ \E i \in ToolIndexes : state.calls[i] = "nameless"
<1> DEFINE s == wire \o events
<1>1. /\ wire \in Seq(Event) /\ Len(wire) \in Nat /\ s \in Seq(Event) /\ Sound(s)
      /\ Len(s) \in Nat /\ Len(s) >= Len(wire)
      /\ \A k \in 1..Len(wire) : s[k] = wire[k]
  BY ConcatProperties, LenProperties DEF StreamInv
<1>2. Message!Has(s, "message_stop") =>
          Starts(s) # {} \/ \E i \in ToolIndexes : state.calls[i] = "nameless"
  BY DEF StreamInv
<1> HIDE DEF s
<1>3. PICK m \in 1..Len(wire) : wire[m].type = "message_stop"
  BY DEF Message!Has, Message!Of
<1>4. m \in Message!Of(s, "message_stop")
  BY <1>1, <1>3 DEF Message!Of
<1>5. CASE Starts(s) # {}
  <2>1. PICK i \in Starts(s) : TRUE
    BY <1>5
  <2>2. i < m /\ i \in 1..Len(s) /\ s[i].type = "content_block_start"
    BY <1>1, <1>4, StopIsLast DEF Starts, Message!Of
  <2>3. i \in 1..Len(wire) /\ wire[i].type = "content_block_start"
    BY <1>1, <1>3, <2>2
  <2> QED BY <2>3 DEF Starts, Message!Of
<1> QED BY <1>2, <1>4, <1>5 DEF Message!Has

LEMMA DisconnectStep ==
    ASSUME StreamInv, Disconnect
    PROVE  StreamInv'
<1>1. /\ phase' = "gone" /\ events' = <<>> /\ wire' = wire /\ state' = state
      /\ upstream' = upstream /\ records' = records
      /\ wire \in Seq(Event) /\ events \in Seq(Event) /\ Sound(wire \o events)
  BY DEF Disconnect, StreamInv
<1>2. <<>> \in Seq(Event) /\ wire' \o events' = wire
  BY <1>1, EmptySeq, ConcatEmptySeq
<1>3. Sound(wire)
  BY <1>1, SoundPrefix
<1>4. Message!Has(wire, "message_stop") =>
          \/ Starts(wire) # {}
          \/ \E i \in ToolIndexes : state.calls[i] = "nameless"
  BY ContentInWire DEF StreamInv
<1> QED BY <1>1, <1>2, <1>3, <1>4 DEF StreamInv

LEMMA StreamStep ==
    ASSUME StreamInv, [StreamNext]_streamVars
    PROVE  StreamInv'
<1>1. CASE Begin \/ ClaudeRecord \/ OpenAIChunk \/ Envelope
  BY <1>1, ReadStep
<1>2. CASE BackendEnds
  BY <1>2, EndStep
<1>3. CASE BackendFails
  <2>1. records' \in 0..MaxRecords
    BY <1>3 DEF BackendFails, StreamInv
  <2> QED BY <1>3, <2>1, ErrorStep DEF BackendFails
<1>4. CASE Yield
  BY <1>4, YieldStep
<1>5. CASE Disconnect
  BY <1>5, DisconnectStep
<1>6. CASE UNCHANGED streamVars
  <2>1. /\ upstream' = upstream /\ phase' = phase /\ records' = records
        /\ state' = state /\ events' = events /\ wire' = wire
    BY <1>6 DEF streamVars
  <2> QED BY <2>1 DEF StreamInv
<1> QED BY <1>1, <1>2, <1>3, <1>4, <1>5, <1>6 DEF StreamNext

LEMMA StreamInvariant == StreamSpec => []StreamInv
<1>1. StreamInv /\ [StreamNext]_streamVars => StreamInv'
  BY StreamStep
<1> QED BY <1>1, StreamInitially, PTL DEF StreamSpec

(* The translation state keeps its types: above all, no block is open or   *)
(* holds the text whose index was not given out.                           *)
THEOREM StreamTypeCorrect == StreamSpec => []StreamTypeOK
<1>1. StreamInv => StreamTypeOK
  BY DEF StreamInv, StreamTypeOK, States
<1> QED BY <1>1, StreamInvariant, PTL

(* What the client receives is an Anthropic event sequence, for any number *)
(* of tool calls, fragments, records and failures (anthropic_sse.py).      *)
THEOREM StreamImplementsMessage == StreamSpec => ImplementsMessageStream
<1>1. StreamInit => Message!MessageInit
  BY DEF StreamInit, Message!MessageInit
<1>2. ASSUME StreamInv, [StreamNext]_streamVars
      PROVE  [Message!MessageNext]_wire
  <2>1. CASE Yield
    <3> DEFINE h == Head(events)
    <3>1. Message!CanFollow(wire, h) /\ wire' = Append(wire, h)
      BY <1>2, <2>1, YieldStep DEF Yield
    <3>2. wire \in Seq(Event) /\ h \in Event
      BY <1>2, <2>1, HeadTailProperties DEF StreamInv, Yield
    <3> HIDE DEF h
    <3>3. Len(wire') = Len(wire) + 1 /\ wire'[Len(wire')] = h
      BY <3>1, <3>2, AppendProperties
    <3> QED BY <3>1, <3>3 DEF Message!MessageNext
  <2>2. CASE ~Yield
    BY <1>2, <2>2 DEF StreamNext, Begin, ClaudeRecord, OpenAIChunk, Envelope, BackendEnds,
                      BackendFails, Disconnect, streamVars
  <2> QED BY <2>1, <2>2
<1> QED BY <1>1, <1>2, StreamInvariant, PTL DEF StreamSpec, ImplementsMessageStream, Message!MessageSpec

(* A message that was stopped has a content block, unless tool calls of it *)
(* were dropped: FinishStream adds the empty text block                    *)
(* (anthropic_sse.py:211-234), and no block can come after the stop.       *)
THEOREM MessagesCarryContent == StreamSpec => []ContentUnlessDropped
<1>1. StreamInv => ContentUnlessDropped
  BY ContentInWire DEF ContentUnlessDropped, Starts, Message!Has
<1> QED BY <1>1, StreamInvariant, PTL
=============================================================================
