--------------------------- MODULE ConfigWrite_proofs ---------------------------
(***************************************************************************)
(* Proofs about the write host's placement edits, for any number of PUTs   *)
(* and models, any memory budget and any amount of work by hand.           *)
(***************************************************************************)
EXTENDS ConfigWrite, SequenceTheorems, FiniteSetTheorems, TLAPS

USE PutAssumption, ModelAssumption, CeilingAssumption

PcStates == {"idle", "preflight", "read", "edit", "write", "verify", "prehead",
             "add", "commit", "push", "reset", "restore", "finish", "done"}

-----------------------------------------------------------------------------
(* Histories.                                                              *)

(* A commit made here is the last one, and the others stay.                *)
LEMMA Appended ==
    ASSUME NEW s \in Seq(Commits), NEW c \in Commits
    PROVE  /\ Append(s, c) \in Seq(Commits) /\ Append(s, c) # <<>>
           /\ Len(s) \in Nat /\ Len(Append(s, c)) = Len(s) + 1
           /\ \A i \in 1..Len(s) : Append(s, c)[i] = s[i]
           /\ Append(s, c)[Len(s) + 1] = c
BY AppendProperties, LenProperties

(* Last of a history that is not empty. *)
LEMMA LastCommit ==
    ASSUME NEW s \in Seq(Commits), s # <<>>
    PROVE  /\ Len(s) \in Nat /\ Len(s) >= 1
           /\ Last(s) = s[Len(s)] /\ Last(s) \in Commits /\ Last(s).rows \in Placements
<1>1. Len(s) \in Nat /\ Len(s) >= 1
  BY EmptySeq, LenProperties
<1>2. Last(s) = s[Len(s)] /\ s[Len(s)] \in Commits
  BY <1>1, ElementOfSeq DEF Last
<1> QED BY <1>1, <1>2 DEF Commits

(* What a fast-forward keeps. *)
LEMMA PrefixKeeps ==
    ASSUME NEW s \in Seq(Commits), NEW t \in Seq(Commits), IsPrefix(s, t)
    PROVE  Len(s) <= Len(t) /\ \A i \in 1..Len(s) : t[i] = s[i]
<1>1. Len(s) \in Nat /\ Len(t) \in Nat /\ Len(s) <= Len(t)
      /\ SubSeq(s, 1, Len(s)) = SubSeq(t, 1, Len(s))
  BY LenProperties DEF IsPrefix
<1>2. \A i \in 1..Len(s) : s[i] \in Commits /\ t[i] \in Commits
  BY <1>1, ElementOfSeq
<1>3. \A i \in 1..Len(s) : SubSeq(s, 1, Len(s))[i] = s[i]
  BY <1>1, <1>2, SubSeqProperties
<1>4. \A i \in 1..Len(s) : SubSeq(t, 1, Len(s))[i] = t[i]
  BY <1>1, <1>2, SubSeqProperties
<1> QED BY <1>1, <1>3, <1>4

-----------------------------------------------------------------------------
(* Types. A reset needs a commit to go back to.                            *)

DataTypes ==
    /\ file \in Placements /\ index \in Placements /\ other \in States
    /\ head \in Seq(Commits) /\ head # <<>>
    /\ origin \in Seq(Commits) /\ origin # <<>>
    /\ registry = Unread \/ registry \in Placements
    /\ pc \in [Puts -> PcStates] /\ edit \in [Puts -> Edits]
    /\ original \in [Puts -> Placements] /\ draft \in [Puts -> Placements]
    /\ pre \in [Puts -> Seq(Commits)] /\ answer \in [Puts -> Answers]
    /\ hands \in 0..MaxHand
    /\ \A p \in Puts : pc[p] \in {"add", "commit", "push", "reset"} => pre[p] # <<>>

FlagTypes ==
    /\ disturbed \in [Puts -> BOOLEAN] /\ stuck \in [Puts -> BOOLEAN]
    /\ trusted \in BOOLEAN /\ stagedLate \in SUBSET Puts

ConfigTypeInv == DataTypes /\ FlagTypes

LEMMA ConfigTypeInit == ConfigInit => ConfigTypeInv
<1> SUFFICES ASSUME ConfigInit PROVE ConfigTypeInv
  OBVIOUS
<1>1. [by |-> Human, rows |-> index, other |-> "clean", id |-> 0] \in Commits /\ <<>> \in Seq(Commits)
  BY EmptySeq DEF ConfigInit, Commits, States
<1>2. head \in Seq(Commits) /\ head # <<>> /\ origin = head
  BY <1>1 DEF ConfigInit
<1>3. \E m \in Models : edit = [p \in Puts |-> [model |-> m, placed |-> FALSE]]
  BY DEF ConfigInit
<1>4. edit \in [Puts -> Edits]
  BY <1>3 DEF Edits
<1>5. DataTypes
  <2>1. /\ file \in Placements /\ index \in Placements /\ other \in States
        /\ registry = Unread \/ registry \in Placements
    BY DEF ConfigInit
  <2>2. pc \in [Puts -> PcStates] /\ answer \in [Puts -> Answers]
    BY DEF ConfigInit, PcStates, Answers
  <2>3. original \in [Puts -> Placements] /\ draft \in [Puts -> Placements]
    <3>1. {} \in Placements
      BY DEF Placements
    <3> QED BY <3>1 DEF ConfigInit
  <2>4. pre \in [Puts -> Seq(Commits)]
    BY <1>1 DEF ConfigInit
  <2>5. hands \in 0..MaxHand
    BY CeilingAssumption DEF ConfigInit
  <2>6. \A p \in Puts : pc[p] = "idle"
    BY DEF ConfigInit
  <2> QED BY <1>2, <1>4, <2>1, <2>2, <2>3, <2>4, <2>5, <2>6 DEF DataTypes
<1>6. FlagTypes
  BY Zenon DEF ConfigInit, FlagTypes
<1> QED BY <1>5, <1>6 DEF ConfigTypeInv

LEMMA Applied == ASSUME NEW e \in Edits, NEW rows \in Placements PROVE Apply(e, rows) \in Placements
BY DEF Apply, Edits, Placements

(* The end of a call leaves its locals well-typed. *)
LEMMA ReplyTypes ==
    ASSUME DataTypes, NEW p \in Puts, NEW what \in Answers, Reply(p, what)
    PROVE  /\ original' \in [Puts -> Placements] /\ draft' \in [Puts -> Placements]
           /\ pre' \in [Puts -> Seq(Commits)] /\ answer' \in [Puts -> Answers]
           /\ \A q \in Puts : q # p => pre'[q] = pre[q]
<1>1. {} \in Placements /\ <<>> \in Seq(Commits)
  BY EmptySeq DEF Placements
<1> QED BY <1>1 DEF DataTypes, Reply

LEMMA DataTypesStep == DataTypes /\ [ConfigNext]_configVars => DataTypes'
<1> SUFFICES ASSUME DataTypes, [ConfigNext]_configVars PROVE DataTypes'
  OBVIOUS
<1> USE DEF DataTypes, PcStates, Step, NoReply, Fails, Expires, checkoutVars, putVars, historyVars
<1>1. ASSUME NEW p \in Puts, NEW e \in Edits, Validate(p, e) PROVE DataTypes'
  <2>1. registry' \in Placements
    BY <1>1 DEF Validate, Registry
  <2>2. CASE Overcommits(e, Registry)
    <3>1. Reply(p, "refused") /\ "refused" \in Answers
      BY <1>1, <2>2 DEF Validate, Answers
    <3> QED BY <1>1, <2>1, <2>2, <3>1, ReplyTypes DEF Validate
  <2>3. CASE ~Overcommits(e, Registry)
    BY <1>1, <2>1, <2>3 DEF Validate
  <2> QED BY <2>2, <2>3
<1>2. ASSUME NEW p \in Puts, Preflight(p) PROVE DataTypes'
  <2>1. CASE Step(p, "preflight", "done") /\ Reply(p, "refused")
    <3>1. "refused" \in Answers
      BY DEF Answers
    <3> QED BY <1>2, <2>1, <3>1, ReplyTypes DEF Preflight
  <2> QED BY <1>2, <2>1 DEF Preflight
<1>3. ASSUME NEW p \in Puts, ReadOriginal(p) PROVE DataTypes'
  BY <1>3 DEF ReadOriginal
<1>4. ASSUME NEW p \in Puts, ReadAndEdit(p) PROVE DataTypes'
  <2>1. CASE Apply(edit[p], file) = file
    <3>1. Reply(p, "same") /\ "same" \in Answers
      BY <1>4, <2>1 DEF ReadAndEdit, Answers
    <3> QED BY <1>4, <2>1, <3>1, ReplyTypes DEF ReadAndEdit
  <2>2. CASE Apply(edit[p], file) # file
    <3>1. Apply(edit[p], file) \in Placements
      BY Applied
    <3>2. draft' = [draft EXCEPT ![p] = Apply(edit[p], file)]
      BY <1>4, <2>2 DEF ReadAndEdit
    <3>3. draft' \in [Puts -> Placements]
      BY <3>1, <3>2
    <3> QED BY <1>4, <2>2, <3>3 DEF ReadAndEdit
  <2> QED BY <2>1, <2>2
<1>5. ASSUME NEW p \in Puts, WriteFile(p) PROVE DataTypes'
  BY <1>5 DEF WriteFile
<1>6. ASSUME NEW p \in Puts, Verify(p) PROVE DataTypes'
  BY <1>6 DEF Verify
<1>7. ASSUME NEW p \in Puts, ReadHead(p) PROVE DataTypes'
  <2>1. CASE Step(p, "prehead", "add") /\ pre' = [pre EXCEPT ![p] = head]
    BY <1>7, <2>1 DEF ReadHead
  <2>2. CASE Step(p, "prehead", "restore") /\ UNCHANGED pre
    BY <1>7, <2>2 DEF ReadHead
  <2> QED BY <1>7, <2>1, <2>2 DEF ReadHead
<1>8. ASSUME NEW p \in Puts, Add(p) PROVE DataTypes'
  BY <1>8 DEF Add, States
<1>9. ASSUME NEW p \in Puts, Commit(p) PROVE DataTypes'
  <2>1. head' = Append(head, [by |-> p, rows |-> index, other |-> other, id |-> 0]) \/ head' = head
    BY <1>9 DEF Commit
  <2>2. [by |-> p, rows |-> index, other |-> other, id |-> 0] \in Commits
    BY DEF Commits, States
  <2>3. head' \in Seq(Commits) /\ head' # <<>>
    <3>1. CASE head' = Append(head, [by |-> p, rows |-> index, other |-> other, id |-> 0])
      BY <2>2, <3>1, Appended
    <3>2. CASE head' = head
      BY <3>2
    <3> QED BY <2>1, <3>1, <3>2
  <2>4. other' \in States
    BY <1>9 DEF Commit, States
  <2> QED BY <1>9, <2>3, <2>4 DEF Commit
<1>10. ASSUME NEW p \in Puts, Push(p) PROVE DataTypes'
  BY <1>10 DEF Push
<1>11. ASSUME NEW p \in Puts, Reset(p) PROVE DataTypes'
  <2>1. pre[p] \in Seq(Commits) /\ pre[p] # <<>> /\ Last(pre[p]).rows \in Placements
    BY <1>11, LastCommit DEF Reset
  <2> QED BY <1>11, <2>1 DEF Reset, States
<1>12. ASSUME NEW p \in Puts, Restore(p) PROVE DataTypes'
  <2>1. Reply(p, "error") /\ "error" \in Answers
    BY <1>12 DEF Restore, Answers
  <2> QED BY <1>12, <2>1, ReplyTypes DEF Restore
<1>13. ASSUME NEW p \in Puts, Finish(p) PROVE DataTypes'
  <2>1. CASE Step(p, "finish", "done") /\ Reply(p, "ok") /\ registry' = Unread
    <3>1. "ok" \in Answers
      BY DEF Answers
    <3> QED BY <1>13, <2>1, <3>1, ReplyTypes DEF Finish
  <2>2. CASE Expires(p, "finish") /\ NoReply /\ UNCHANGED registry
    BY <1>13, <2>2 DEF Finish
  <2> QED BY <1>13, <2>1, <2>2 DEF Finish
<1>14. CASE ReadRegistry \/ DropRegistry
  BY <1>14 DEF ReadRegistry, DropRegistry
<1>15. CASE HandEdit \/ HandEditOther \/ HandStageOther \/ HandPush
  BY <1>15 DEF HandEdit, HandEditOther, HandStageOther, HandPush, ByHand, States
<1>16. CASE HandCommit
  <2>1. [by |-> Human, rows |-> file, other |-> other, id |-> hands'] \in Commits
    BY <1>16 DEF HandCommit, ByHand, Commits, States
  <2>2. head' \in Seq(Commits) /\ head' # <<>>
    BY <1>16, <2>1, Appended DEF HandCommit
  <2> QED BY <1>16, <2>2 DEF HandCommit, ByHand, States
<1>17. CASE HandRestore
  <2>1. Committed \in Placements
    BY LastCommit DEF Committed
  <2> QED BY <1>17, <2>1 DEF HandRestore, ByHand, States
<1>18. CASE HandPull
  <2>1. Last(origin).rows \in Placements
    BY LastCommit
  <2> QED BY <1>18, <2>1 DEF HandPull, ByHand
<1>19. CASE OthersPush
  <2> PICK rows \in Placements :
          origin' = Append(origin, [by |-> Human, rows |-> rows, other |-> "clean", id |-> hands'])
    BY <1>19 DEF OthersPush
  <2>1. [by |-> Human, rows |-> rows, other |-> "clean", id |-> hands'] \in Commits
    BY <1>19 DEF OthersPush, ByHand, Commits, States
  <2>2. origin' \in Seq(Commits) /\ origin' # <<>>
    BY <2>1, Appended
  <2> QED BY <1>19, <2>2 DEF OthersPush, ByHand
<1>20. CASE UNCHANGED configVars
  BY <1>20 DEF configVars
<1> QED BY <1>1, <1>2, <1>3, <1>4, <1>5, <1>6, <1>7, <1>8, <1>9, <1>10, <1>11, <1>12, <1>13,
           <1>14, <1>15, <1>16, <1>17, <1>18, <1>19, <1>20 DEF ConfigNext, PutStep, Others

LEMMA FlagTypesStep == FlagTypes /\ [ConfigNext]_configVars => FlagTypes'
<1> SUFFICES ASSUME FlagTypes, [ConfigNext]_configVars PROVE FlagTypes'
  OBVIOUS
<1> USE DEF FlagTypes, Fails, Expires, checkoutVars, putVars, historyVars
<1>1. ASSUME NEW p \in Puts, NEW e \in Edits, Validate(p, e) PROVE FlagTypes'
  BY <1>1, Zenon DEF Validate
<1>2. ASSUME NEW p \in Puts, PutStep(p) PROVE FlagTypes'
  <2>1. /\ trusted' = trusted /\ disturbed' = disturbed
        /\ stuck' = stuck \/ stuck' = [stuck EXCEPT ![p] = TRUE]
        /\ stagedLate' = stagedLate
    BY <1>2, Zenon DEF PutStep, Preflight, ReadOriginal, ReadAndEdit, WriteFile, Verify, ReadHead,
                Add, Commit, Push, Reset, Restore, Finish
  <2> QED BY <2>1, Zenon
<1>3. CASE Others
  <2>1. ASSUME ByHand, Meddles PROVE trusted' \in BOOLEAN /\ disturbed' \in [Puts -> BOOLEAN]
    BY <2>1, Zenon DEF Meddles
  <2> QED BY <1>3, <2>1, Zenon DEF Others, ReadRegistry, DropRegistry, HandEdit, HandEditOther, HandStageOther,
             HandCommit, HandRestore, HandPush, HandPull, OthersPush, ByHand
<1>4. CASE UNCHANGED configVars
  BY <1>4, Zenon DEF configVars
<1> QED BY <1>1, <1>2, <1>3, <1>4 DEF ConfigNext

LEMMA ConfigTypeInvariant == ConfigSpec => []ConfigTypeInv
BY ConfigTypeInit, DataTypesStep, FlagTypesStep, PTL DEF ConfigSpec, ConfigTypeInv

(* The checkout, the PUTs' locals and the histories keep their types.      *)
THEOREM ConfigTypeCorrect == ConfigSpec => []ConfigTypeOK
<1>1. ConfigTypeInv => ConfigTypeOK
  BY DEF ConfigTypeInv, DataTypes, FlagTypes, PcStates, ConfigTypeOK
<1> QED BY <1>1, ConfigTypeInvariant, PTL
-----------------------------------------------------------------------------
(* The budget. While everything is trusted at most one PUT is in flight,   *)
(* so what it was judged on is still what it edits, stages and commits; and *)
(* what it may have to go back to is a history that fits.                  *)

Rest == {"idle", "done"}
Fits(h) == \A i \in 1..Len(h) : Cardinality(h[i].rows) <= Ceiling
Alone == \A p, q \in Puts : p # q => pc[p] \in Rest \/ pc[q] \in Rest

PutFacts(p) ==
    /\ pc[p] \in {"preflight", "read", "edit"} =>
           registry \in {Unread, file} /\ ~Overcommits(edit[p], file)
    /\ pc[p] \in {"read", "edit"} => file = Committed
    /\ pc[p] \in {"edit", "write"} => original[p] = file
    /\ pc[p] = "write" => Cardinality(draft[p]) <= Ceiling
    /\ pc[p] \in {"verify", "prehead", "add"} => Cardinality(file) <= Ceiling
    /\ pc[p] = "commit" => Cardinality(index) <= Ceiling
    /\ pc[p] \in {"add", "commit", "push", "reset"} => Fits(pre[p])
    /\ pc[p] \notin Rest \cup {"preflight", "read", "edit"} => registry \in {Unread, original[p]}

TrustFacts ==
    /\ Alone /\ Fits(head)
    /\ (\A p \in Puts : pc[p] \in Rest) => registry \in {Unread, file}
    /\ \A p \in Puts : PutFacts(p)

TrustInv == trusted => TrustFacts

LEMMA FitsAppended ==
    ASSUME NEW s \in Seq(Commits), NEW c \in Commits, Fits(s), Cardinality(c.rows) <= Ceiling
    PROVE  Fits(Append(s, c))
<1>1. \A i \in 1..(Len(s) + 1) : i \in 1..Len(s) \/ i = Len(s) + 1
  BY Appended
<1> QED BY <1>1, Appended DEF Fits

(* An edit that passed the budget on a placement that fits, fits.          *)
LEMMA EditFits ==
    ASSUME NEW e \in Edits, NEW rows \in Placements,
           ~Overcommits(e, rows), Cardinality(rows) <= Ceiling
    PROVE  Cardinality(Apply(e, rows)) <= Ceiling
<1>1. Apply(e, rows) \in Placements
  BY Applied
<1>2. IsFiniteSet(rows) /\ IsFiniteSet(Apply(e, rows))
  BY <1>1, FS_Subset DEF Placements
<1>3. Cardinality(rows) \in Nat /\ Cardinality(Apply(e, rows)) \in Nat
  BY <1>2, FS_CardinalityType
<1>4. CASE e.placed
  BY <1>3, <1>4 DEF Overcommits
<1>5. CASE ~e.placed
  <2>1. Apply(e, rows) \subseteq rows
    BY <1>5 DEF Apply
  <2> QED BY <1>2, <1>3, <2>1, FS_Subset
<1> QED BY <1>4, <1>5

LEMMA TrustInit == ConfigInit => TrustInv
<1> SUFFICES ASSUME ConfigInit, trusted PROVE TrustFacts
  BY DEF TrustInv
<1>1. \A p \in Puts : pc[p] = "idle"
  BY DEF ConfigInit
<1>2. Fits(head)
  BY DEF ConfigInit, Fits
<1>3. registry = file
  BY DEF ConfigInit
<1> QED BY <1>1, <1>2, <1>3 DEF TrustFacts, Alone, Rest, PutFacts

(* A step of the only PUT in flight: what there is to show is about that   *)
(* PUT.                                                                    *)
LEMMA OwnStep ==
    ASSUME DataTypes, TrustFacts, NEW p \in Puts, NEW a, NEW b, Step(p, a, b), a \notin Rest,
           Fits(head)', PutFacts(p)', b \in Rest => registry' \in {Unread, file'}
    PROVE  TrustFacts'
<1>1. \A q \in Puts : q # p => pc'[q] = pc[q] /\ pc[q] \in Rest
  BY DEF DataTypes, Step, TrustFacts, Alone
<1>2. pc'[p] = b
  BY DEF DataTypes, Step
<1>3. \A q \in Puts : q # p => PutFacts(q)'
  BY <1>1 DEF PutFacts, Rest
<1>4. Alone'
  BY <1>1 DEF Alone
<1> QED BY <1>2, <1>3, <1>4 DEF TrustFacts

LEMMA TrustStep == DataTypes /\ TrustInv /\ [ConfigNext]_configVars => TrustInv'
<1> SUFFICES ASSUME DataTypes, TrustInv, [ConfigNext]_configVars, trusted' PROVE TrustFacts'
  BY DEF TrustInv
<1> USE DEF checkoutVars, putVars, historyVars
<1>1. ASSUME NEW p \in Puts, NEW e \in Edits, Validate(p, e) PROVE TrustFacts'
  <2>1. trusted /\ InFlight = {}
    BY <1>1, Zenon DEF Validate
  <2>2. TrustFacts /\ \A q \in Puts : pc[q] \in Rest
    BY <2>1 DEF TrustInv, InFlight, Rest
  <2>3. registry' = file /\ Registry = file
    BY <1>1, <2>2 DEF Validate, Registry, TrustFacts
  <2>4. \A q \in Puts : q # p => pc'[q] \in Rest
    BY <1>1, <2>2 DEF Validate, Step, DataTypes
  <2>5. file' = file /\ head' = head /\ Fits(head')
    BY <1>1, <2>2 DEF Validate, TrustFacts
  <2>6. PutFacts(p)' /\ (pc'[p] = "preflight" \/ pc'[p] = "done")
    <3>1. CASE Overcommits(e, Registry)
      BY <1>1, <3>1 DEF Validate, Step, DataTypes, PutFacts, Rest
    <3>2. CASE ~Overcommits(e, Registry)
      <4>1. pc'[p] = "preflight" /\ edit'[p] = e
        BY <1>1, <3>2 DEF Validate, Step, DataTypes
      <4>2. ~Overcommits(edit'[p], file')
        BY <2>3, <2>5, <3>2, <4>1
      <4>3. (~Overcommits(edit[p], file))'
        BY <4>2 DEF Overcommits, Apply
      <4> QED BY <2>3, <2>5, <4>1, <4>3 DEF PutFacts, Rest
    <3> QED BY <3>1, <3>2
  <2>7. \A q \in Puts : PutFacts(q)'
    BY <2>4, <2>6 DEF PutFacts, Rest
  <2>8. Alone'
    BY <2>4 DEF Alone
  <2> QED BY <2>3, <2>5, <2>7, <2>8 DEF TrustFacts, Fits
<1>2. ASSUME NEW p \in Puts, PutStep(p) PROVE TrustFacts'
  <2>0. trusted /\ TrustFacts /\ PutFacts(p) /\ Fits(head)
    <3>1. trusted' = trusted
      BY <1>2, Zenon DEF PutStep, Preflight, ReadOriginal, ReadAndEdit, WriteFile, Verify, ReadHead,
                  Add, Commit, Push, Reset, Restore, Finish
    <3> QED BY <3>1, Zenon DEF TrustInv, TrustFacts
  <2> USE <2>0 DEF Rest, Step, Fails, Expires, NoReply, Reply
  <2>1. CASE Preflight(p)
    <3>1. Fits(head)'
      BY <2>1 DEF Preflight, Fits
    <3>2. CASE ~Dirty /\ Step(p, "preflight", "read") /\ NoReply
      <4>1. PutFacts(p)'
        BY <2>1, <3>2 DEF Preflight, DataTypes, PutFacts, Dirty, OwnDirty, Committed, Overcommits, Apply
      <4> QED BY <3>1, <3>2, <4>1, OwnStep
    <3>3. CASE Step(p, "preflight", "done") /\ Reply(p, "refused")
      <4>1. PutFacts(p)' /\ registry' \in {Unread, file'}
        BY <2>1, <3>3 DEF Preflight, DataTypes, PutFacts
      <4> QED BY <3>1, <3>3, <4>1, OwnStep
    <3> QED BY <2>1, <3>2, <3>3 DEF Preflight
  <2>2. CASE ReadOriginal(p)
    <3>1. Fits(head)' /\ PutFacts(p)' /\ Step(p, "read", "edit")
      BY <2>2 DEF ReadOriginal, DataTypes, PutFacts, Committed, Overcommits, Apply, Fits
    <3> QED BY <3>1, OwnStep
  <2>3. CASE ReadAndEdit(p)
    <3>1. Fits(head)'
      BY <2>3 DEF ReadAndEdit, Fits
    <3>2. CASE Step(p, "edit", "done")
      <4>1. PutFacts(p)' /\ registry' \in {Unread, file'}
        BY <2>3, <3>2 DEF ReadAndEdit, DataTypes, PutFacts
      <4> QED BY <3>1, <3>2, <4>1, OwnStep
    <3>3. CASE Step(p, "edit", "write") /\ draft' = [draft EXCEPT ![p] = Apply(edit[p], file)]
      <4>1. Cardinality(file) <= Ceiling /\ ~Overcommits(edit[p], file)
        <5>1. file = Last(head).rows /\ ~Overcommits(edit[p], file)
          BY <3>3, Zenon DEF PutFacts, Committed
        <5>2. Last(head) = head[Len(head)] /\ Len(head) \in 1..Len(head)
          BY LastCommit DEF DataTypes
        <5>3. Cardinality(head[Len(head)].rows) <= Ceiling
          BY <5>2, Zenon DEF Fits
        <5> QED BY <5>1, <5>2, <5>3
      <4>2. Cardinality(Apply(edit[p], file)) <= Ceiling
        BY <4>1, EditFits DEF DataTypes
      <4>3. draft'[p] = Apply(edit[p], file)
        BY <3>3 DEF DataTypes
      <4>4. PutFacts(p)'
        BY <2>3, <3>3, <4>2, <4>3 DEF ReadAndEdit, DataTypes, PutFacts
      <4> QED BY <3>1, <3>3, <4>4, OwnStep
    <3> QED BY <2>3, <3>2, <3>3 DEF ReadAndEdit
  <2>4. CASE WriteFile(p)
    <3>1. Fits(head)' /\ PutFacts(p)' /\ Step(p, "write", "verify")
      BY <2>4 DEF WriteFile, DataTypes, PutFacts, Fits
    <3> QED BY <3>1, OwnStep
  <2>5. CASE Verify(p)
    <3>1. Fits(head)' /\ PutFacts(p)'
      BY <2>5 DEF Verify, DataTypes, PutFacts, Fits
    <3> QED BY <2>5, <3>1, OwnStep DEF Verify
  <2>6. CASE ReadHead(p)
    <3>1. Fits(head)' /\ PutFacts(p)'
      BY <2>6 DEF ReadHead, DataTypes, PutFacts, Fits
    <3> QED BY <2>6, <3>1, OwnStep DEF ReadHead
  <2>7. CASE Add(p)
    <3>1. Fits(head)' /\ PutFacts(p)'
      BY <2>7 DEF Add, DataTypes, PutFacts, Fits
    <3> QED BY <2>7, <3>1, OwnStep DEF Add
  <2>8. CASE Commit(p)
    <3> DEFINE made == Append(head, [by |-> p, rows |-> index, other |-> other, id |-> 0])
    <3>1. [by |-> p, rows |-> index, other |-> other, id |-> 0] \in Commits /\ Cardinality(index) <= Ceiling
      BY <2>8 DEF Commit, DataTypes, Commits, PutFacts
    <3>2. Fits(made)
      BY <3>1, FitsAppended DEF DataTypes
    <3>3. head' = made \/ head' = head
      BY <2>8 DEF Commit
    <3>4. Fits(head)'
      BY <3>2, <3>3 DEF Fits
    <3>5. PutFacts(p)'
      BY <2>8 DEF Commit, DataTypes, PutFacts, Fits
    <3> QED BY <2>8, <3>4, <3>5, OwnStep DEF Commit
  <2>9. CASE Push(p)
    <3>1. Fits(head)' /\ PutFacts(p)'
      BY <2>9 DEF Push, DataTypes, PutFacts, Fits
    <3> QED BY <2>9, <3>1, OwnStep DEF Push
  <2>10. CASE Reset(p)
    <3>1. Fits(head)'
      BY <2>10 DEF Reset, PutFacts, Fits
    <3>2. PutFacts(p)'
      BY <2>10 DEF Reset, DataTypes, PutFacts
    <3> QED BY <2>10, <3>1, <3>2, OwnStep DEF Reset
  <2>11. CASE Restore(p)
    <3>1. Fits(head)' /\ PutFacts(p)' /\ registry' \in {Unread, file'}
      BY <2>11 DEF Restore, DataTypes, PutFacts, Fits
    <3> QED BY <2>11, <3>1, OwnStep DEF Restore
  <2>12. CASE Finish(p)
    <3>1. Fits(head)' /\ PutFacts(p)'
      BY <2>12 DEF Finish, DataTypes, PutFacts, Fits
    <3> QED BY <2>12, <3>1, OwnStep DEF Finish
  <2> QED BY <1>2, <2>1, <2>2, <2>3, <2>4, <2>5, <2>6, <2>7, <2>8, <2>9, <2>10, <2>11, <2>12
          DEF PutStep
<1>3. CASE ReadRegistry
  <2>1. trusted /\ InFlight = {}
    BY <1>3, Zenon DEF ReadRegistry
  <2>2. \A p \in Puts : pc[p] \in Rest
    BY <2>1 DEF InFlight, Rest
  <2> QED BY <1>3, <2>1, <2>2 DEF ReadRegistry, TrustInv, TrustFacts, Alone, Fits, PutFacts, Rest
<1>4. CASE DropRegistry \/ HandEditOther \/ HandStageOther \/ HandPush \/ OthersPush \/ UNCHANGED configVars
  <2>1. /\ trusted' = trusted /\ file' = file /\ index' = index /\ head' = head
        /\ registry' = registry \/ registry' = Unread
        /\ UNCHANGED <<pc, edit, original, draft, pre>>
    BY <1>4, Zenon DEF DropRegistry, HandEditOther, HandStageOther, HandPush, OthersPush, ByHand, configVars
  <2>2. TrustFacts
    BY <2>1, Zenon DEF TrustInv
  <2> QED BY <2>1, <2>2 DEF TrustFacts, Alone, Fits, PutFacts, Committed, Overcommits, Apply
<1>5. CASE HandEdit \/ HandCommit \/ HandRestore \/ HandPull
  BY <1>5, Zenon DEF HandEdit, HandCommit, HandRestore, HandPull, Meddles
<1> QED BY <1>1, <1>2, <1>3, <1>4, <1>5 DEF ConfigNext, Others

(* Placement edits made one at a time never commit more models to the host *)
(* than its memory holds.                                                  *)
THEOREM ConfigKeepsBudget == ConfigSpec => []BudgetKept
<1>1. TrustInv => BudgetKept
  BY DEF TrustInv, TrustFacts, Fits, BudgetKept
<1>2. ConfigTypeInv => DataTypes
  BY DEF ConfigTypeInv
<1> QED BY <1>1, <1>2, ConfigTypeInvariant, TrustInit, TrustStep, PTL DEF ConfigSpec

(* Between two PUTs the hub runs on the placement in the file.             *)
THEOREM ConfigRegistryFollows == ConfigSpec => []RegistryFollowsFile
<1>1. TrustInv => RegistryFollowsFile
  BY DEF TrustInv, TrustFacts, InFlight, Rest, RegistryFollowsFile
<1>2. ConfigTypeInv => DataTypes
  BY DEF ConfigTypeInv
<1> QED BY <1>1, <1>2, ConfigTypeInvariant, TrustInit, TrustStep, PTL DEF ConfigSpec
-----------------------------------------------------------------------------
(* What is acknowledged is on origin. A PUT that had the checkout to itself *)
(* carries its edit from the draft to the file, the index and the last     *)
(* commit, and a push that succeeds leaves that commit in origin, which    *)
(* only ever grows.                                                        *)

Fixed(p, rows) == Apply(edit[p], rows) = rows
Pushed(p) == \E i \in CommitsOf(p, origin) : Fixed(p, origin[i].rows)

AckFacts(p) ==
    /\ pc[p] \notin Rest => \A q \in Puts : q # p => pc[q] \in Rest
    /\ pc[p] = "write" => Fixed(p, draft[p])
    /\ pc[p] \in {"verify", "prehead", "add"} => Fixed(p, file)
    /\ pc[p] = "commit" => Fixed(p, index)
    /\ pc[p] = "push" => Last(head).by = p /\ Fixed(p, Last(head).rows)
    /\ pc[p] = "finish" => Pushed(p)
    /\ answer[p] = "ok" => Pushed(p)

AckInv == \A p \in Puts : /\ answer[p] = "ok" => pc[p] = "done"
                          /\ ~disturbed[p] => AckFacts(p)

LEMMA ApplyTwice ==
    ASSUME NEW e \in Edits, NEW rows \in Placements
    PROVE  Apply(e, Apply(e, rows)) = Apply(e, rows)
BY DEF Apply, Edits, Placements

(* What a push may do to origin, and what it may not when it succeeds. *)
LEMMA PushEffect ==
    ASSUME DataTypes, NEW p \in Puts, Push(p)
    PROVE  /\ origin' = origin \/ (origin' = head /\ IsPrefix(origin, head))
           /\ pc'[p] = "finish" => origin' = head \/ (IsPrefix(head, origin) /\ origin' = origin)
<1> DEFINE forward == IsPrefix(origin, head)
<1>1. CASE /\ Step(p, "push", "finish")
           /\ (forward /\ origin' = head) \/ (IsPrefix(head, origin) /\ origin' = origin)
  BY <1>1, Zenon
<1>2. CASE Fails(p, "push", "reset") /\ origin' = origin
  <2>1. pc'[p] = "reset"
    BY <1>2 DEF Fails, Step, DataTypes
  <2> QED BY <1>2, <2>1
<1>3. CASE Expires(p, "push") /\ origin' \in {origin} \cup {h \in {head} : forward}
  <2>1. pc'[p] = "restore"
    BY <1>3 DEF Expires, Step, DataTypes
  <2>2. origin' = origin \/ (origin' = head /\ forward)
    BY <1>3
  <2> QED BY <2>1, <2>2
<1> QED BY <1>1, <1>2, <1>3, Zenon DEF Push

(* No step takes a commit off origin. *)
LEMMA OriginGrows ==
    ASSUME DataTypes, [ConfigNext]_configVars
    PROVE  \A i \in 1..Len(origin) : i \in 1..Len(origin') /\ origin'[i] = origin[i]
<1> USE DEF checkoutVars
<1>1. CASE origin' = origin
  BY <1>1
<1>2. CASE origin' = head /\ IsPrefix(origin, head)
  <2>1. Len(origin) <= Len(head) /\ \A i \in 1..Len(origin) : head[i] = origin[i]
    BY <1>2, PrefixKeeps DEF DataTypes
  <2>2. Len(origin) \in Nat /\ Len(head) \in Nat
    BY LenProperties DEF DataTypes
  <2> QED BY <1>2, <2>1, <2>2
<1>3. CASE OthersPush
  <2> PICK rows \in Placements :
          origin' = Append(origin, [by |-> Human, rows |-> rows, other |-> "clean", id |-> hands'])
    BY <1>3 DEF OthersPush
  <2>1. [by |-> Human, rows |-> rows, other |-> "clean", id |-> hands'] \in Commits
    BY <1>3 DEF OthersPush, ByHand, Commits, States, DataTypes
  <2> QED BY <2>1, Appended DEF DataTypes
<1>4. ASSUME NEW p \in Puts, Push(p) PROVE origin' = origin \/ (origin' = head /\ IsPrefix(origin, head))
  BY <1>4, PushEffect, Zenon
<1>5. HandPush => origin' = head /\ IsPrefix(origin, head)
  BY DEF HandPush, IsStrictPrefix
<1>6. ASSUME NEW p \in Puts, PutStep(p) PROVE Push(p) \/ origin' = origin
  BY <1>6, Zenon DEF PutStep, Preflight, ReadOriginal, ReadAndEdit, WriteFile, Verify, ReadHead,
              Add, Commit, Push, Reset, Restore, Finish
<1>7. Others => HandPush \/ OthersPush \/ origin' = origin
  BY Zenon DEF Others, ReadRegistry, DropRegistry, HandEdit, HandEditOther, HandStageOther, HandCommit,
               HandRestore, HandPull
<1>8. ASSUME NEW p \in Puts, NEW e \in Edits, Validate(p, e) PROVE origin' = origin
  BY <1>8, Zenon DEF Validate
<1>9. UNCHANGED configVars => origin' = origin
  BY Zenon DEF configVars
<1> QED BY <1>1, <1>2, <1>3, <1>4, <1>5, <1>6, <1>7, <1>8, <1>9 DEF ConfigNext

LEMMA PushedStays ==
    ASSUME DataTypes, [ConfigNext]_configVars, NEW p \in Puts, Pushed(p), edit'[p] = edit[p]
    PROVE  Pushed(p)'
<1>1. PICK i \in 1..Len(origin) : origin[i].by = p /\ Fixed(p, origin[i].rows)
  BY DEF Pushed, CommitsOf
<1>2. i \in 1..Len(origin') /\ origin'[i] = origin[i]
  BY OriginGrows
<1>3. i \in CommitsOf(p, origin)' /\ Fixed(p, origin[i].rows)'
  BY <1>1, <1>2 DEF CommitsOf, Fixed, Apply
<1> QED BY <1>3 DEF Pushed

(* A push that succeeded left the last commit here on origin. *)
LEMMA PushPublishes ==
    ASSUME DataTypes, NEW p \in Puts, Last(head).by = p, Fixed(p, Last(head).rows),
           origin' \in Seq(Commits), edit' = edit,
           \/ origin' = head
           \/ IsPrefix(head, origin) /\ origin' = origin
    PROVE  Pushed(p)'
<1>1. Len(head) \in Nat /\ Len(head) >= 1 /\ Last(head) = head[Len(head)]
  BY LastCommit DEF DataTypes
<1>2. Len(head) \in 1..Len(origin') /\ origin'[Len(head)] = Last(head)
  <2>1. CASE origin' = head
    BY <1>1, <2>1
  <2>2. CASE IsPrefix(head, origin) /\ origin' = origin
    <3>1. Len(head) <= Len(origin) /\ \A i \in 1..Len(head) : origin[i] = head[i]
      BY <2>2, PrefixKeeps DEF DataTypes
    <3>2. Len(origin) \in Nat
      BY LenProperties DEF DataTypes
    <3> QED BY <1>1, <2>2, <3>1, <3>2
  <2> QED BY <2>1, <2>2
<1>3. PICK i \in 1..Len(origin') : origin'[i] = Last(head)
  BY <1>2
<1>4. i \in CommitsOf(p, origin)' /\ Fixed(p, origin[i].rows)'
  BY <1>3 DEF CommitsOf, Fixed, Apply
<1> QED BY <1>4 DEF Pushed

LEMMA AckInit == ConfigInit => AckInv
<1> SUFFICES ASSUME ConfigInit, NEW p \in Puts
             PROVE pc[p] = "idle" /\ answer[p] = "none"
  BY DEF AckInv, AckFacts, Rest, ConfigInit
<1> QED BY DEF ConfigInit

(* A step of the PUT itself. *)
LEMMA AckOwnStep ==
    ASSUME DataTypes, DataTypes', [ConfigNext]_configVars, NEW q \in Puts, AckFacts(q),
           answer[q] = "ok" => pc[q] = "done", PutStep(q)
    PROVE  AckFacts(q)' /\ (answer'[q] = "ok" => pc'[q] = "done")
<1> USE DEF checkoutVars, putVars, historyVars, Rest, Step, Fails, Expires, NoReply, Reply
<1>0. edit' = edit
  BY Zenon DEF PutStep, Preflight, ReadOriginal, ReadAndEdit, WriteFile, Verify, ReadHead,
        Add, Commit, Push, Reset, Restore, Finish
<1>1. \E a, b \in PcStates : a \notin Rest /\ Step(q, a, b)
  BY DEF PutStep, Preflight, ReadOriginal, ReadAndEdit, WriteFile, Verify, ReadHead,
        Add, Commit, Push, Reset, Restore, Finish, PcStates
<1>2. pc'[q] \notin Rest => \A p \in Puts : p # q => pc'[p] \in Rest
  BY <1>1 DEF DataTypes, AckFacts
<1>3. answer[q] # "ok" /\ pc'[q] \in PcStates
  BY <1>1 DEF DataTypes
<1>4. Pushed(q) => Pushed(q)'
  BY <1>0, PushedStays
<1>5. CASE Preflight(q) \/ ReadOriginal(q)
  BY <1>2, <1>3, <1>5 DEF Preflight, ReadOriginal, DataTypes, AckFacts
<1>6. CASE ReadAndEdit(q)
  <2>1. CASE Step(q, "edit", "done") /\ Reply(q, "same")
    BY <1>2, <1>3, <1>6, <2>1 DEF DataTypes, AckFacts
  <2>2. CASE Step(q, "edit", "write") /\ draft' = [draft EXCEPT ![q] = Apply(edit[q], file)]
             /\ UNCHANGED answer
    <3>1. Apply(edit[q], draft'[q]) = draft'[q]
      BY <2>2, ApplyTwice DEF DataTypes
    <3>2. Fixed(q, draft[q])'
      BY <1>0, <3>1 DEF Fixed, Apply
    <3> QED BY <1>2, <1>3, <2>2, <3>2 DEF DataTypes, AckFacts
  <2> QED BY <1>6, <2>1, <2>2 DEF ReadAndEdit
<1>7. CASE WriteFile(q)
  <2>1. Fixed(q, file)'
    BY <1>7 DEF WriteFile, AckFacts, Fixed, Apply
  <2> QED BY <1>2, <1>3, <1>7, <2>1 DEF WriteFile, DataTypes, AckFacts
<1>8. CASE Verify(q) \/ ReadHead(q)
  BY <1>2, <1>3, <1>8 DEF Verify, ReadHead, DataTypes, AckFacts, Fixed, Apply
<1>9. CASE Add(q)
  BY <1>2, <1>3, <1>9 DEF Add, DataTypes, AckFacts, Fixed, Apply
<1>10. CASE Commit(q)
  <2>1. CASE Step(q, "commit", "push")
             /\ head' = Append(head, [by |-> q, rows |-> index, other |-> other, id |-> 0])
    <3>1. [by |-> q, rows |-> index, other |-> other, id |-> 0] \in Commits
      BY DEF DataTypes, Commits, States
    <3>2. /\ Len(head') = Len(head) + 1 /\ Len(head) \in Nat
          /\ head'[Len(head) + 1] = [by |-> q, rows |-> index, other |-> other, id |-> 0]
      BY <2>1, <3>1, Appended DEF DataTypes
    <3>3. Last(head)' = head'[Len(head')]
      BY LastCommit, <3>2 DEF DataTypes, Last
    <3>4. Last(head)'.by = q /\ Last(head)'.rows = index
      BY <3>2, <3>3
    <3>5. Fixed(q, index)
      BY <2>1 DEF AckFacts
    <3>6. (Last(head).by = q /\ Fixed(q, Last(head).rows))'
      BY <1>0, <3>4, <3>5 DEF Fixed, Apply
    <3> QED BY <1>2, <1>3, <1>10, <2>1, <3>6 DEF Commit, DataTypes, AckFacts
  <2>2. CASE pc'[q] \in {"reset", "restore"}
    BY <1>2, <1>3, <1>10, <2>2 DEF Commit, AckFacts
  <2> QED BY <1>10, <2>1, <2>2 DEF Commit, DataTypes
<1>11. CASE Push(q)
  <2>1. CASE Step(q, "push", "finish")
    <3>1. Last(head).by = q /\ Fixed(q, Last(head).rows)
      BY <2>1 DEF AckFacts
    <3>2. origin' = head \/ (IsPrefix(head, origin) /\ origin' = origin)
      <4>1. pc'[q] = "finish"
        BY <2>1 DEF DataTypes
      <4> QED BY <1>11, <4>1, PushEffect, Zenon
    <3>3. Pushed(q)'
      BY <1>0, <3>1, <3>2, PushPublishes DEF DataTypes
    <3> QED BY <1>2, <1>3, <1>11, <2>1, <3>3 DEF Push, DataTypes, AckFacts
  <2>2. CASE pc'[q] \in {"reset", "restore"}
    BY <1>2, <1>3, <1>11, <2>2 DEF Push, AckFacts
  <2> QED BY <1>11, <2>1, <2>2 DEF Push, DataTypes
<1>12. CASE Reset(q) \/ Restore(q)
  BY <1>2, <1>3, <1>12 DEF Reset, Restore, DataTypes, AckFacts
<1>13. CASE Finish(q)
  <2>1. Pushed(q)'
    BY <1>4, <1>13 DEF Finish, AckFacts
  <2> QED BY <1>2, <1>3, <1>13, <2>1 DEF Finish, DataTypes, AckFacts
<1> QED BY <1>5, <1>6, <1>7, <1>8, <1>9, <1>10, <1>11, <1>12, <1>13 DEF PutStep

(* A PUT that is not in flight only needs its commit to stay on origin.    *)
LEMMA AckAtRest ==
    ASSUME DataTypes, [ConfigNext]_configVars, NEW q \in Puts, AckFacts(q), pc[q] \in Rest,
           pc'[q] = pc[q], answer'[q] = answer[q], edit'[q] = edit[q]
    PROVE  AckFacts(q)'
<1>1. Pushed(q) => Pushed(q)'
  BY PushedStays
<1> QED BY <1>1 DEF AckFacts, Rest

LEMMA AckStep == DataTypes /\ DataTypes' /\ FlagTypes /\ AckInv /\ [ConfigNext]_configVars => AckInv'
<1> SUFFICES ASSUME DataTypes, DataTypes', FlagTypes, AckInv, [ConfigNext]_configVars, NEW q \in Puts
             PROVE  /\ (answer[q] = "ok" => pc[q] = "done")'
                    /\ ~disturbed'[q] => AckFacts(q)'
  BY DEF AckInv
<1>0. answer[q] = "ok" => pc[q] = "done"
  BY DEF AckInv
<1> USE DEF checkoutVars, putVars, historyVars
<1>1. ASSUME NEW p \in Puts, NEW e \in Edits, Validate(p, e)
      PROVE  /\ (answer[q] = "ok" => pc[q] = "done")'
             /\ ~disturbed'[q] => AckFacts(q)'
  <2>1. CASE p = q
    <3>1. pc[q] = "idle" /\ answer[q] # "ok"
      BY <1>0, <1>1, <2>1 DEF Validate
    <3>2. CASE Overcommits(e, Registry)
      <4>1. pc'[q] = "done" /\ answer'[q] = "refused"
        BY <1>1, <2>1, <3>2 DEF Validate, Step, Reply, DataTypes
      <4> QED BY <4>1 DEF AckFacts, Rest
    <3>3. CASE ~Overcommits(e, Registry)
      <4>1. pc'[q] = "preflight" /\ answer' = answer /\ pc' = [pc EXCEPT ![q] = "preflight"]
        BY <1>1, <2>1, <3>3 DEF Validate, Step, NoReply, DataTypes
      <4>2. disturbed' = [r \in Puts |-> disturbed[r] \/ r \in InFlight \/ (r = p /\ InFlight # {})]
        BY <1>1, <3>3, Zenon DEF Validate
      <4>3. ~disturbed'[q] => InFlight = {}
        BY <2>1, <4>2, Zenon
      <4>4. InFlight = {} => \A r \in Puts : r # q => pc'[r] \in Rest
        BY <4>1 DEF InFlight, Rest, DataTypes
      <4> QED BY <3>1, <4>1, <4>3, <4>4 DEF AckFacts, Rest
    <3> QED BY <3>2, <3>3
  <2>2. CASE p # q
    <3>1. /\ pc'[q] = pc[q] /\ answer'[q] = answer[q] /\ edit'[q] = edit[q]
          /\ file' = file /\ index' = index /\ head' = head /\ draft'[q] = draft[q]
      BY <1>1, <2>2 DEF Validate, Step, Reply, NoReply, DataTypes
    <3>2. ~disturbed'[q] => ~disturbed[q] /\ (pc[q] \in Rest \/ Overcommits(e, Registry))
      <4>1. CASE Overcommits(e, Registry)
        BY <1>1, <4>1, Zenon DEF Validate
      <4>2. CASE ~Overcommits(e, Registry)
        <5>1. disturbed' = [r \in Puts |-> disturbed[r] \/ r \in InFlight \/ (r = p /\ InFlight # {})]
          BY <1>1, <4>2, Zenon DEF Validate
        <5>2. disturbed'[q] = (disturbed[q] \/ q \in InFlight \/ (q = p /\ InFlight # {}))
          BY <5>1, Zenon
        <5>3. pc[q] \notin Rest => q \in InFlight
          BY DEF InFlight, Rest
        <5> QED BY <5>2, <5>3, Zenon
      <4> QED BY <4>1, <4>2
    <3>3. ASSUME ~disturbed'[q] PROVE AckFacts(q)'
      <4>1. AckFacts(q)
        BY <3>2, <3>3 DEF AckInv
      <4>2. CASE pc[q] \in Rest
        BY <3>1, <4>1, <4>2, AckAtRest
      <4>3. CASE Overcommits(e, Registry)
        <5>1. \A r \in Puts : pc[r] \in Rest => pc'[r] \in Rest
          BY <1>1, <4>3 DEF Validate, Step, DataTypes, Rest
        <5>2. Pushed(q) => Pushed(q)'
          BY <3>1, PushedStays
        <5> QED BY <3>1, <4>1, <5>1, <5>2 DEF AckFacts, Fixed, Apply
      <4> QED BY <3>2, <3>3, <4>2, <4>3
    <3> QED BY <1>0, <3>1, <3>3
  <2> QED BY <2>1, <2>2
<1>2. ASSUME NEW p \in Puts, PutStep(p)
      PROVE  /\ (answer[q] = "ok" => pc[q] = "done")'
             /\ ~disturbed'[q] => AckFacts(q)'
  <2>1. disturbed' = disturbed /\ edit' = edit
    BY <1>2, Zenon DEF PutStep, Preflight, ReadOriginal, ReadAndEdit, WriteFile, Verify, ReadHead,
                Add, Commit, Push, Reset, Restore, Finish
  <2>2. CASE p = q /\ ~disturbed[q]
    <3>1. AckFacts(q)
      BY <2>2 DEF AckInv
    <3> QED BY <1>0, <1>2, <2>2, <3>1, AckOwnStep
  <2>3. answer'[q] = "ok" => pc'[q] = "done"
    BY <1>0, <1>2 DEF PutStep, Preflight, ReadOriginal, ReadAndEdit, WriteFile, Verify, ReadHead,
          Add, Commit, Push, Reset, Restore, Finish, Step, Fails, Expires, Reply, NoReply, DataTypes
  <2>4. CASE p # q /\ ~disturbed[q]
    <3>1. AckFacts(q)
      BY <2>4 DEF AckInv
    <3>2. pc[p] \notin Rest /\ pc'[q] = pc[q] /\ answer'[q] = answer[q]
      BY <1>2, <2>4 DEF PutStep, Preflight, ReadOriginal, ReadAndEdit, WriteFile, Verify, ReadHead,
            Add, Commit, Push, Reset, Restore, Finish, Step, Fails, Expires, Reply, NoReply,
            DataTypes, Rest
    <3>3. pc[q] \in Rest
      BY <2>4, <3>1, <3>2 DEF AckFacts
    <3> QED BY <2>1, <2>3, <3>1, <3>2, <3>3, AckAtRest
  <2>5. CASE disturbed[q]
    BY <2>1, <2>3, <2>5
  <2> QED BY <2>2, <2>4, <2>5
<1>3. CASE Others \/ UNCHANGED configVars
  <2>1. UNCHANGED <<pc, edit, original, draft, pre, answer>>
    BY <1>3, Zenon DEF Others, ReadRegistry, DropRegistry, HandEdit, HandEditOther, HandStageOther, HandCommit,
                HandRestore, HandPush, HandPull, OthersPush, ByHand, configVars
  <2>2. \/ UNCHANGED <<file, index, head, disturbed>>
        \/ Meddles
    BY <1>3, Zenon DEF Others, ReadRegistry, DropRegistry, HandEdit, HandEditOther, HandStageOther, HandCommit,
                HandRestore, HandPush, HandPull, OthersPush, ByHand, configVars
  <2>3. ASSUME ~disturbed'[q] PROVE AckFacts(q)'
    <3>1. ~disturbed[q] /\ (Meddles => q \notin InFlight)
      BY <2>2, <2>3, Zenon DEF Meddles
    <3>2. AckFacts(q)
      BY <3>1 DEF AckInv
    <3>3. CASE pc[q] \in Rest
      BY <2>1, <3>2, <3>3, AckAtRest
    <3>4. CASE pc[q] \notin Rest
      <4>1. UNCHANGED <<file, index, head>>
        BY <2>2, <3>1, <3>4 DEF InFlight, Rest
      <4>2. Pushed(q) => Pushed(q)'
        BY <2>1, PushedStays
      <4> QED BY <2>1, <3>2, <4>1, <4>2 DEF AckFacts, Fixed, Apply
    <3> QED BY <3>3, <3>4
  <2> QED BY <1>0, <2>1, <2>3
<1> QED BY <1>1, <1>2, <1>3 DEF ConfigNext

(* A PUT answered ok that had the checkout to itself is on origin, whatever *)
(* git commands timed out or failed along the way.                         *)
THEOREM ConfigAckedIsPushed == ConfigSpec => []AckedIsPushed
<1>1. AckInv => AckedIsPushed
  BY DEF AckInv, AckFacts, Pushed, Fixed, AckedIsPushed
<1>2. ConfigTypeInv => DataTypes /\ FlagTypes
  BY DEF ConfigTypeInv
<1> QED BY <1>1, <1>2, ConfigTypeInvariant, AckInit, AckStep, PTL DEF ConfigSpec
-----------------------------------------------------------------------------
(* What is committed, and what is rolled back. The preflight refuses a     *)
(* dirty checkout, so a PUT that has it to itself starts from the committed *)
(* placement, and every later step of it is known in terms of that one. A  *)
(* history that appears anywhere was there before, or adds one commit.     *)

NoneBy(p, h) == CommitsOf(p, h) = {}
Own(p, h) ==
    \A i \in CommitsOf(p, h) : i > 1 /\ h[i].rows = Apply(edit[p], h[i - 1].rows)

Early == {"idle", "preflight", "read", "edit", "write", "verify", "prehead", "add", "commit"}

HistoryFacts(p) ==
    /\ Own(p, head) /\ Own(p, origin) /\ \A q \in Puts : Own(p, pre[q])
    /\ pc[p] = "idle" => NoneBy(p, head) /\ NoneBy(p, origin) /\ \A q \in Puts : NoneBy(p, pre[q])

StageFacts(p) ==
    /\ pc[p] \notin Rest => \A q \in Puts : q # p => pc[q] \in Rest
    /\ pc[p] \in Early => NoneBy(p, head)
    /\ pc[p] \in {"read", "edit", "write", "verify", "prehead", "add"} => index = Committed
    /\ pc[p] \in {"read", "edit"} => file = Committed
    /\ pc[p] \in {"edit", "write", "verify", "prehead", "add", "commit"} => original[p] = Committed
    /\ pc[p] = "write" => draft[p] = Apply(edit[p], Committed)
    /\ pc[p] \in {"verify", "prehead", "add"} => file = Apply(edit[p], Committed)
    /\ pc[p] = "commit" => index = Apply(edit[p], Committed)
    /\ pc[p] \in {"write", "verify", "prehead", "add", "commit"} =>
           Apply(edit[p], Committed) # Committed
    /\ pc[p] \in {"add", "commit", "push", "reset"} =>
           Last(pre[p]).rows = original[p] /\ NoneBy(p, pre[p])
    /\ pc[p] = "restore" => \/ stuck[p]
                            \/ index = Committed /\ original[p] = Committed /\ NoneBy(p, head)

OwnInv == \A p \in Puts : ~disturbed[p] => HistoryFacts(p) /\ StageFacts(p)

(* Adding a commit of someone else changes nothing for p. *)
LEMMA OthersCommit ==
    ASSUME NEW s \in Seq(Commits), NEW c \in Commits, NEW p \in Puts, c.by # p
    PROVE  /\ CommitsOf(p, Append(s, c)) = CommitsOf(p, s)
           /\ Own(p, s) => Own(p, Append(s, c))
<1>1. /\ Len(s) \in Nat /\ Len(Append(s, c)) = Len(s) + 1
      /\ \A i \in 1..Len(s) : Append(s, c)[i] = s[i]
      /\ Append(s, c)[Len(s) + 1] = c
  BY Appended
<1>2. \A i \in 1..(Len(s) + 1) : i \in 1..Len(s) \/ i = Len(s) + 1
  BY <1>1
<1>3. CommitsOf(p, Append(s, c)) = CommitsOf(p, s)
  BY <1>1, <1>2 DEF CommitsOf
<1>4. ASSUME Own(p, s), NEW i \in CommitsOf(p, s)
      PROVE  i > 1 /\ Append(s, c)[i].rows = Apply(edit[p], Append(s, c)[i - 1].rows)
  <2>1. i \in 1..Len(s) /\ i > 1 /\ s[i].rows = Apply(edit[p], s[i - 1].rows)
    BY <1>4 DEF Own, CommitsOf
  <2>2. i - 1 \in 1..Len(s)
    BY <1>1, <2>1
  <2> QED BY <1>1, <2>1, <2>2
<1> QED BY <1>3, <1>4 DEF Own

(* Where a history that a step leaves behind comes from. *)
From(q, h) ==
    \E g \in {head, origin, <<>>} \cup {pre[r] : r \in Puts} :
        \/ h = g
        \/ \E c \in Commits : c.by # q /\ h = Append(g, c)

LEMMA HistoryStep ==
    ASSUME DataTypes, [ConfigNext]_configVars, NEW q \in Puts, ~Commit(q)
    PROVE  From(q, head') /\ From(q, origin') /\ \A r \in Puts : From(q, pre'[r])
<1> USE DEF checkoutVars, putVars, historyVars
<1> DEFINE H == {head, origin, <<>>} \cup {pre[r] : r \in Puts}
<1>1. ASSUME NEW h \in H PROVE From(q, h)
  BY <1>1 DEF From
<1>2. ASSUME NEW c \in Commits, c.by # q PROVE From(q, Append(head, c)) /\ From(q, Append(origin, c))
  BY <1>2 DEF From
<1>3. head' \in H \/ \E c \in Commits : c.by # q /\ head' = Append(head, c)
  <2>1. ASSUME NEW p \in Puts, Commit(p) PROVE head' = head \/ (p # q /\ head' = Append(head, [by |-> p, rows |-> index, other |-> other, id |-> 0]))
    BY <2>1 DEF Commit
  <2>2. ASSUME NEW p \in Puts, p # q PROVE [by |-> p, rows |-> index, other |-> other, id |-> 0] \in Commits
    BY DEF DataTypes, Commits, States
  <2>3. ASSUME NEW p \in Puts, Reset(p) PROVE head' = pre[p] \/ head' = head
    BY <2>3, Zenon DEF Reset
  <2>4. HandCommit => [by |-> Human, rows |-> file, other |-> other, id |-> hands'] \in Commits
                       /\ head' = Append(head, [by |-> Human, rows |-> file, other |-> other, id |-> hands'])
    BY DEF HandCommit, ByHand, Commits, States, DataTypes
  <2>5. HandPull => head' = origin
    BY Zenon DEF HandPull
  <2>6. \/ head' = head \/ HandCommit \/ HandPull
        \/ \E p \in Puts : Commit(p) \/ Reset(p)
    BY Zenon DEF ConfigNext, Validate, PutStep, Preflight, ReadOriginal, ReadAndEdit, WriteFile, Verify,
          ReadHead, Add, Push, Restore, Finish, Others, ReadRegistry, DropRegistry, HandEdit,
          HandEditOther, HandStageOther, HandRestore, HandPush, OthersPush, configVars
  <2> QED BY <2>1, <2>2, <2>3, <2>4, <2>5, <2>6
<1>4. origin' \in H \/ \E c \in Commits : c.by # q /\ origin' = Append(origin, c)
  <2>1. ASSUME NEW p \in Puts, Push(p) PROVE origin' = origin \/ origin' = head
    BY <2>1, PushEffect, Zenon
  <2>2. HandPush => origin' = head
    BY Zenon DEF HandPush
  <2>3. OthersPush => \E c \in Commits : c.by = Human /\ origin' = Append(origin, c)
    <3> SUFFICES ASSUME OthersPush PROVE \E c \in Commits : c.by = Human /\ origin' = Append(origin, c)
      OBVIOUS
    <3> PICK rows \in Placements :
            origin' = Append(origin, [by |-> Human, rows |-> rows, other |-> "clean", id |-> hands'])
      BY DEF OthersPush
    <3> DEFINE c == [by |-> Human, rows |-> rows, other |-> "clean", id |-> hands']
    <3>1. c \in Commits
      BY DEF OthersPush, ByHand, Commits, States, DataTypes
    <3>2. c.by = Human /\ origin' = Append(origin, c)
      OBVIOUS
    <3> HIDE DEF c
    <3> QED BY <3>1, <3>2
  <2>4. \/ origin' = origin \/ HandPush \/ OthersPush \/ \E p \in Puts : Push(p)
    BY Zenon DEF ConfigNext, Validate, PutStep, Preflight, ReadOriginal, ReadAndEdit, WriteFile, Verify,
          ReadHead, Add, Commit, Reset, Restore, Finish, Others, ReadRegistry, DropRegistry, HandEdit,
          HandEditOther, HandStageOther, HandCommit, HandRestore, HandPull, configVars
  <2> QED BY <2>1, <2>2, <2>3, <2>4
<1>5. ASSUME NEW r \in Puts PROVE pre'[r] \in H
  <2>1. \/ pre' = pre
        \/ \E p \in Puts : pre' = [pre EXCEPT ![p] = <<>>] \/ pre' = [pre EXCEPT ![p] = head]
    BY Zenon DEF ConfigNext, Validate, PutStep, Preflight, ReadOriginal, ReadAndEdit, WriteFile, Verify,
          ReadHead, Add, Commit, Push, Reset, Restore, Finish, Others, ReadRegistry, DropRegistry,
          HandEdit, HandEditOther, HandStageOther, HandCommit, HandRestore, HandPush, HandPull, OthersPush, ByHand,
          Reply, NoReply, configVars
  <2>2. pre'[r] \in {pre[r], <<>>, head}
    BY <2>1 DEF DataTypes
  <2> QED BY <2>2
<1> QED BY <1>1, <1>2, <1>3, <1>4, <1>5

LEMMA FromKeeps ==
    ASSUME DataTypes, NEW q \in Puts, HistoryFacts(q), edit'[q] = edit[q], NEW h, From(q, h)
    PROVE  /\ \A i \in CommitsOf(q, h) : i > 1 /\ h[i].rows = Apply(edit'[q], h[i - 1].rows)
           /\ pc[q] = "idle" => CommitsOf(q, h) = {}
<1>1. PICK g \in {head, origin, <<>>} \cup {pre[r] : r \in Puts} :
          \/ h = g
          \/ \E c \in Commits : c.by # q /\ h = Append(g, c)
  BY DEF From
<1>2. g \in Seq(Commits) /\ CommitsOf(q, <<>>) = {}
  <2>1. <<>> \in Seq(Commits) /\ Len(<<>>) = 0
    BY EmptySeq
  <2>2. 1..0 = {}
    OBVIOUS
  <2>3. CommitsOf(q, <<>>) = {}
    BY <2>1, <2>2, Zenon DEF CommitsOf
  <2>4. g \in Seq(Commits)
    <3>1. \A r \in Puts : pre[r] \in Seq(Commits)
      BY DEF DataTypes
    <3>2. head \in Seq(Commits) /\ origin \in Seq(Commits)
      BY DEF DataTypes
    <3> QED BY <1>1, <2>1, <3>1, <3>2, Zenon
  <2> QED BY <2>3, <2>4
<1>3. Own(q, <<>>) /\ NoneBy(q, <<>>)
  BY <1>2 DEF Own, NoneBy
<1>4. Own(q, g) /\ (pc[q] = "idle" => NoneBy(q, g))
  BY <1>1, <1>3 DEF HistoryFacts
<1>5. Own(q, h) /\ (pc[q] = "idle" => NoneBy(q, h))
  BY <1>1, <1>2, <1>4, OthersCommit DEF NoneBy
<1> QED BY <1>5 DEF Own, NoneBy, Apply

(* Whoever moves, unless it is this PUT's own commit or its arrival.       *)
LEMMA HistoryKept ==
    ASSUME DataTypes, [ConfigNext]_configVars, NEW q \in Puts, ~Commit(q),
           HistoryFacts(q), edit'[q] = edit[q], pc'[q] = "idle" => pc[q] = "idle"
    PROVE  HistoryFacts(q)'
<1>1. From(q, head') /\ From(q, origin') /\ \A r \in Puts : From(q, pre'[r])
  BY HistoryStep
<1>2. ASSUME NEW h, From(q, h)
      PROVE  /\ \A i \in CommitsOf(q, h) : i > 1 /\ h[i].rows = Apply(edit'[q], h[i - 1].rows)
             /\ pc[q] = "idle" => CommitsOf(q, h) = {}
  BY <1>2, FromKeeps
<1>3. Own(q, head)' /\ (pc[q] = "idle" => NoneBy(q, head)')
  <2>1. /\ \A i \in CommitsOf(q, head') : i > 1 /\ head'[i].rows = Apply(edit'[q], head'[i - 1].rows)
        /\ pc[q] = "idle" => CommitsOf(q, head') = {}
    BY <1>1, <1>2
  <2> QED BY <2>1 DEF Own, NoneBy, CommitsOf, Apply
<1>4. Own(q, origin)' /\ (pc[q] = "idle" => NoneBy(q, origin)')
  <2>1. /\ \A i \in CommitsOf(q, origin') : i > 1 /\ origin'[i].rows = Apply(edit'[q], origin'[i - 1].rows)
        /\ pc[q] = "idle" => CommitsOf(q, origin') = {}
    BY <1>1, <1>2
  <2> QED BY <2>1 DEF Own, NoneBy, CommitsOf, Apply
<1>5. ASSUME NEW r \in Puts PROVE Own(q, pre[r])' /\ (pc[q] = "idle" => NoneBy(q, pre[r])')
  <2>1. /\ \A i \in CommitsOf(q, pre'[r]) : i > 1 /\ pre'[r][i].rows = Apply(edit'[q], pre'[r][i - 1].rows)
        /\ pc[q] = "idle" => CommitsOf(q, pre'[r]) = {}
    BY <1>1, <1>2
  <2> QED BY <2>1 DEF Own, NoneBy, CommitsOf, Apply
<1> QED BY <1>3, <1>4, <1>5 DEF HistoryFacts
LEMMA OwnInit == ConfigInit => OwnInv
<1> SUFFICES ASSUME ConfigInit, NEW p \in Puts PROVE HistoryFacts(p) /\ StageFacts(p)
  BY DEF OwnInv
<1>1. pc[p] = "idle" /\ \A q \in Puts : pre[q] = <<>>
  BY DEF ConfigInit
<1>2. CommitsOf(p, <<>>) = {}
  <2>1. Len(<<>>) = 0 /\ 1..0 = {}
    BY EmptySeq
  <2> QED BY <2>1, Zenon DEF CommitsOf
<1>3. CommitsOf(p, head) = {} /\ origin = head
  BY DEF ConfigInit, CommitsOf
<1>4. HistoryFacts(p)
  BY <1>1, <1>2, <1>3 DEF HistoryFacts, Own, NoneBy
<1>5. StageFacts(p)
  BY <1>1, <1>3 DEF StageFacts, Rest, NoneBy
<1> QED BY <1>4, <1>5

LEMMA ExpiresSticks ==
    ASSUME FlagTypes, NEW p \in Puts, NEW from, Expires(p, from)
    PROVE  stuck'[p]
BY Zenon DEF FlagTypes, Expires

(* A PUT's own commit sits on the committed placement, with its edit.      *)
LEMMA OwnCommit ==
    ASSUME DataTypes, NEW q \in Puts, HistoryFacts(q), StageFacts(q), Commit(q)
    PROVE  HistoryFacts(q)'
<1> DEFINE c == [by |-> q, rows |-> index, other |-> other, id |-> 0]
<1>1. pc[q] = "commit" /\ UNCHANGED <<origin, edit, pre>> /\ pc'[q] # "idle"
  BY DEF Commit, Step, Fails, Expires, DataTypes
<1>2. head' = head \/ head' = Append(head, c)
  BY DEF Commit
<1>3. Own(q, head')
  <2>1. CASE head' = head
    BY <2>1 DEF HistoryFacts
  <2>2. CASE head' = Append(head, c)
    <3>1. c \in Commits /\ c.rows = index
      BY DEF DataTypes, Commits, States
    <3> HIDE DEF c
    <3>2. /\ Len(head) \in Nat /\ Len(head') = Len(head) + 1
          /\ \A i \in 1..Len(head) : head'[i] = head[i]
          /\ head'[Len(head) + 1] = c
      BY <2>2, <3>1, Appended DEF DataTypes
    <3>3. \A i \in 1..(Len(head) + 1) : i \in 1..Len(head) \/ i = Len(head) + 1
      BY <3>2
    <3>4. CommitsOf(q, head) = {}
      BY <1>1 DEF StageFacts, Early, NoneBy
    <3>5. \A i \in 1..Len(head) : head[i].by # q
      BY <3>4 DEF CommitsOf
    <3>6. ASSUME NEW i \in CommitsOf(q, head') PROVE i = Len(head) + 1
      BY <3>2, <3>3, <3>5, <3>6 DEF CommitsOf
    <3>7. Len(head) >= 1 /\ head[Len(head)].rows = Committed
      BY LastCommit DEF DataTypes, Committed
    <3>8. index = Apply(edit[q], Committed)
      BY <1>1 DEF StageFacts
    <3>9. head'[Len(head) + 1].rows = Apply(edit[q], head'[Len(head)].rows)
      BY <3>1, <3>2, <3>7, <3>8
    <3>10. ASSUME NEW i \in CommitsOf(q, head') PROVE i > 1 /\ i - 1 = Len(head)
      BY <3>2, <3>6, <3>7
    <3> QED BY <3>6, <3>9, <3>10 DEF Own
  <2> QED BY <1>2, <2>1, <2>2
<1>4. Own(q, head)'
  BY <1>1, <1>3 DEF Own, CommitsOf, Apply
<1>5. Own(q, origin)' /\ \A r \in Puts : Own(q, pre[r])'
  <2>1. Own(q, origin) /\ \A r \in Puts : Own(q, pre[r])
    BY DEF HistoryFacts
  <2> QED BY <1>1, <2>1 DEF Own, CommitsOf, Apply
<1> QED BY <1>1, <1>4, <1>5 DEF HistoryFacts

LEMMA StageOwnStep ==
    ASSUME DataTypes, FlagTypes, NEW q \in Puts, StageFacts(q), PutStep(q)
    PROVE  StageFacts(q)'
<1> USE DEF checkoutVars, putVars, historyVars, Rest, Step, Fails, NoReply, Reply
<1>0. edit' = edit /\ \A from : Expires(q, from) => pc'[q] = "restore" /\ stuck'[q]
  <2>1. edit' = edit
    BY Zenon DEF PutStep, Preflight, ReadOriginal, ReadAndEdit, WriteFile, Verify, ReadHead,
          Add, Commit, Push, Reset, Restore, Finish, Expires
  <2>2. ASSUME NEW from, Expires(q, from) PROVE pc'[q] = "restore"
    BY <2>2 DEF Expires, DataTypes
  <2> QED BY <2>1, <2>2, ExpiresSticks
<1>1. pc'[q] \notin Rest => \A p \in Puts : p # q => pc'[p] \in Rest
  <2>1. \E a, b \in PcStates : a \notin Rest /\ Step(q, a, b)
    BY DEF PutStep, Preflight, ReadOriginal, ReadAndEdit, WriteFile, Verify, ReadHead,
          Add, Commit, Push, Reset, Restore, Finish, Expires, PcStates
  <2> QED BY <2>1 DEF DataTypes, StageFacts
<1>2. ASSUME NEW from, Expires(q, from) PROVE StageFacts(q)'
  BY <1>0, <1>1, <1>2 DEF StageFacts, Early
<1>3. CASE Preflight(q)
  BY <1>1, <1>3 DEF Preflight, Dirty, OwnDirty, Committed, DataTypes, StageFacts, Early, NoneBy, CommitsOf
<1>4. CASE ReadOriginal(q)
  BY <1>1, <1>4 DEF ReadOriginal, Committed, DataTypes, StageFacts, Early, NoneBy, CommitsOf
<1>5. CASE ReadAndEdit(q)
  <2>1. CASE Step(q, "edit", "done")
    BY <1>1, <2>1 DEF DataTypes, StageFacts, Early
  <2>2. CASE Step(q, "edit", "write") /\ draft' = [draft EXCEPT ![q] = Apply(edit[q], file)]
             /\ UNCHANGED <<original, pre>>
    <3>1. pc'[q] = "write" /\ draft'[q] = Apply(edit[q], Committed) /\ original'[q] = Committed
      BY <2>2 DEF DataTypes, StageFacts
    <3>2. UNCHANGED <<head, index, file>>
      BY <1>5 DEF ReadAndEdit
    <3>3. Apply(edit[q], Committed) # Committed
      <4>1. file = Committed
        BY <2>2 DEF StageFacts
      <4>2. Apply(edit[q], file) # file
        BY <1>5, <2>2 DEF ReadAndEdit, DataTypes
      <4> QED BY <4>1, <4>2
    <3> QED BY <1>0, <1>1, <2>2, <3>1, <3>2, <3>3 DEF StageFacts, Early, Committed, Apply, NoneBy, CommitsOf
  <2> QED BY <1>5, <2>1, <2>2 DEF ReadAndEdit
<1>6. CASE WriteFile(q)
  BY <1>0, <1>1, <1>6 DEF WriteFile, Committed, DataTypes, StageFacts, Early, Apply, NoneBy, CommitsOf
<1>7. CASE Verify(q)
  BY <1>0, <1>1, <1>7 DEF Verify, Committed, DataTypes, StageFacts, Early, Apply, NoneBy, CommitsOf
<1>8. CASE ReadHead(q)
  BY <1>0, <1>1, <1>8 DEF ReadHead, Committed, DataTypes, StageFacts, Early, Apply, NoneBy, CommitsOf
<1>9. CASE Add(q)
  <2>1. CASE Step(q, "add", "commit") /\ index' = file
    BY <1>0, <1>1, <1>9, <2>1 DEF Add, Committed, DataTypes, StageFacts, Early, Apply, NoneBy, CommitsOf
  <2>2. CASE Fails(q, "add", "restore") /\ UNCHANGED index
    BY <1>0, <1>1, <1>9, <2>2 DEF Add, Committed, DataTypes, StageFacts, Early, NoneBy, CommitsOf
  <2> QED BY <1>2, <1>9, <2>1, <2>2 DEF Add
<1>10. CASE Commit(q)
  <2>1. CASE pc'[q] \in {"push", "reset"} /\ UNCHANGED <<original, pre>>
    BY <1>1, <1>10, <2>1 DEF Commit, Expires, DataTypes, StageFacts, Early, NoneBy, CommitsOf
  <2>2. pc'[q] \in {"push", "reset"} \/ Expires(q, "commit")
    BY <1>10 DEF Commit, DataTypes
  <2> QED BY <1>2, <1>10, <2>1, <2>2 DEF Commit
<1>11. CASE Push(q)
  <2>1. CASE pc'[q] \in {"finish", "reset"} /\ UNCHANGED <<original, pre>>
    BY <1>1, <1>11, <2>1 DEF Push, Expires, DataTypes, StageFacts, Early, NoneBy, CommitsOf
  <2>2. pc'[q] \in {"finish", "reset"} \/ Expires(q, "push")
    BY <1>11 DEF Push, DataTypes
  <2> QED BY <1>2, <1>11, <2>1, <2>2 DEF Push
<1>12. CASE Reset(q)
  <2>1. CASE Step(q, "reset", "restore") /\ head' = pre[q] /\ index' = Last(pre[q]).rows
    <3>1. index' = Last(head').rows /\ original'[q] = index'
      BY <1>12, <2>1 DEF Reset, StageFacts
    <3>2. NoneBy(q, head')
      BY <2>1 DEF StageFacts
    <3> QED BY <1>1, <2>1, <3>1, <3>2 DEF Committed, DataTypes, StageFacts, Early, NoneBy, CommitsOf
  <2>2. \/ Expires(q, "reset")
        \/ Step(q, "reset", "restore") /\ head' = pre[q] /\ index' = Last(pre[q]).rows
    <3>1. CASE file' = Last(pre[q]).rows /\ index' = file' /\ Step(q, "reset", "restore") /\ head' = pre[q]
      BY <3>1
    <3> QED BY <1>12, <3>1, Zenon DEF Reset
  <2> QED BY <1>2, <2>1, <2>2
<1>13. CASE Restore(q)
  BY <1>1, <1>13 DEF Restore, DataTypes, StageFacts, Early
<1>14. CASE Finish(q)
  <2>1. CASE Step(q, "finish", "done")
    BY <1>1, <2>1 DEF DataTypes, StageFacts, Early
  <2> QED BY <1>2, <1>14, <2>1 DEF Finish
<1> QED BY <1>3, <1>4, <1>5, <1>6, <1>7, <1>8, <1>9, <1>10, <1>11, <1>12, <1>13, <1>14 DEF PutStep
LEMMA OwnStepKeeps ==
    DataTypes /\ FlagTypes /\ OwnInv /\ [ConfigNext]_configVars => OwnInv'
<1> SUFFICES ASSUME DataTypes, FlagTypes, OwnInv, [ConfigNext]_configVars,
                    NEW q \in Puts, ~disturbed'[q]
             PROVE  HistoryFacts(q)' /\ StageFacts(q)'
  BY DEF OwnInv
<1> USE DEF checkoutVars, putVars, historyVars
<1>1. ASSUME NEW p \in Puts, NEW e \in Edits, Validate(p, e)
      PROVE  HistoryFacts(q)' /\ StageFacts(q)'
  <2>1. /\ disturbed' = disturbed /\ Overcommits(e, Registry)
        \/ disturbed' = [r \in Puts |-> disturbed[r] \/ r \in InFlight \/ (r = p /\ InFlight # {})]
    BY <1>1, Zenon DEF Validate
  <2>2. ~disturbed[q]
    BY <2>1, Zenon
  <2>3. HistoryFacts(q) /\ StageFacts(q)
    BY <2>2 DEF OwnInv
  <2>4. /\ UNCHANGED <<file, index, head, origin>> /\ pc[p] = "idle"
        /\ \A r \in Puts : r # p => /\ pc'[r] = pc[r] /\ edit'[r] = edit[r]
                                    /\ original'[r] = original[r] /\ draft'[r] = draft[r]
        /\ pc'[p] = "preflight" \/ pc'[p] = "done"
        /\ \A r \in Puts : pre'[r] = pre[r] \/ pre'[r] = <<>>
    BY <1>1 DEF Validate, Step, Reply, NoReply, DataTypes
  <2>5. ~Commit(q)
    <3>1. Commit(q) => pc[q] = "commit" /\ pc'[q] # "commit"
      BY DEF Commit, Step, Fails, Expires, DataTypes
    <3> QED BY <2>4, <3>1
  <2>6. CASE p = q
    <3>1. NoneBy(q, head) /\ NoneBy(q, origin) /\ \A r \in Puts : NoneBy(q, pre[r])
      BY <2>3, <2>4, <2>6 DEF HistoryFacts
    <3>2. CommitsOf(q, <<>>) = {}
      <4>1. Len(<<>>) = 0 /\ 1..0 = {}
        BY EmptySeq
      <4> QED BY <4>1, Zenon DEF CommitsOf
    <3>3. CommitsOf(q, head') = {} /\ CommitsOf(q, origin') = {}
          /\ \A r \in Puts : CommitsOf(q, pre'[r]) = {}
      BY <2>4, <3>1, <3>2 DEF NoneBy
    <3>4. HistoryFacts(q)'
      BY <3>3 DEF HistoryFacts, Own, NoneBy, CommitsOf
    <3>5. pc'[q] \notin Rest => \A r \in Puts : r # q => pc'[r] \in Rest
      <4>1. pc'[q] \notin Rest => ~Overcommits(e, Registry)
        BY <1>1, <2>6 DEF Validate, Step, DataTypes, Rest
      <4>2. ~Overcommits(e, Registry) => InFlight = {}
        <5>1. ~Overcommits(e, Registry) =>
                disturbed' = [r \in Puts |-> disturbed[r] \/ r \in InFlight \/ (r = p /\ InFlight # {})]
          BY <1>1, Zenon DEF Validate
        <5> QED BY <2>6, <5>1, Zenon
      <4>3. InFlight = {} => \A r \in Puts : pc[r] \in Rest
        BY DEF InFlight, Rest
      <4> QED BY <2>4, <2>6, <4>1, <4>2, <4>3
    <3>6. StageFacts(q)'
      BY <2>4, <2>6, <3>3, <3>5 DEF StageFacts, Rest, Early, NoneBy, CommitsOf
    <3> QED BY <3>4, <3>6
  <2>7. CASE p # q
    <3>1. HistoryFacts(q)'
      BY <2>3, <2>5, <2>4, <2>7, HistoryKept
    <3>2. pc[q] \in Rest \/ disturbed' = disturbed
      <4>1. ASSUME disturbed' = [r \in Puts |-> disturbed[r] \/ r \in InFlight \/ (r = p /\ InFlight # {})]
            PROVE  q \notin InFlight
        BY <4>1, Zenon
      <4>2. q \notin InFlight => pc[q] \in Rest
        BY DEF InFlight, Rest
      <4> QED BY <2>1, <4>1, <4>2, Zenon
    <3>3. CASE pc[q] \in Rest
      <4>1. pc'[q] = pc[q]
        BY <2>4, <2>7
      <4>2. pc[q] = "idle" => NoneBy(q, head)'
        BY <3>1, <4>1 DEF HistoryFacts
      <4>3. StageFacts(q)'
        BY <3>3, <4>1, <4>2 DEF StageFacts, Rest, Early
      <4> QED BY <3>1, <4>3
    <3>4. CASE pc[q] \notin Rest
      <4>1. Overcommits(e, Registry)
        <5>1. ASSUME disturbed' = [r \in Puts |-> disturbed[r] \/ r \in InFlight \/ (r = p /\ InFlight # {})]
              PROVE  q \notin InFlight
          BY <5>1, Zenon
        <5>2. q \in InFlight
          BY <3>4 DEF InFlight, Rest
        <5> QED BY <1>1, <5>1, <5>2, Zenon DEF Validate
      <4>2. pc' = [pc EXCEPT ![p] = "done"] /\ pre' = [pre EXCEPT ![p] = <<>>] /\ stuck' = stuck
        BY <1>1, <4>1, Zenon DEF Validate, Step, Reply
      <4>3. /\ \A r \in Puts : pc[r] \in Rest => pc'[r] \in Rest
            /\ pre'[q] = pre[q]
        BY <2>7, <4>2 DEF DataTypes, Rest
      <4>4. /\ pc'[q] = pc[q] /\ edit'[q] = edit[q] /\ original'[q] = original[q]
            /\ draft'[q] = draft[q] /\ UNCHANGED <<file, index, head, stuck>>
        BY <2>4, <2>7, <4>2
      <4>5. StageFacts(q)'
        BY <2>3, <4>3, <4>4 DEF StageFacts, Committed, Apply, NoneBy, CommitsOf
      <4> QED BY <3>1, <4>5
    <3> QED BY <3>1, <3>3, <3>4
  <2> QED BY <2>6, <2>7
<1>2. ASSUME NEW p \in Puts, PutStep(p) PROVE HistoryFacts(q)' /\ StageFacts(q)'
  <2>1. disturbed' = disturbed /\ edit' = edit
    BY <1>2, Zenon DEF PutStep, Preflight, ReadOriginal, ReadAndEdit, WriteFile, Verify, ReadHead,
                Add, Commit, Push, Reset, Restore, Finish
  <2>2. HistoryFacts(q) /\ StageFacts(q)
    BY <2>1 DEF OwnInv
  <2>3. /\ pc[p] \notin Rest
        /\ \A r \in Puts : r # p => pc'[r] = pc[r]
        /\ pc'[q] = "idle" => pc[q] = "idle"
    BY <1>2 DEF PutStep, Preflight, ReadOriginal, ReadAndEdit, WriteFile, Verify, ReadHead,
          Add, Commit, Push, Reset, Restore, Finish, Step, Fails, Expires, DataTypes, Rest
  <2>4. HistoryFacts(q)'
    <3>1. CASE Commit(q)
      BY <2>2, <3>1, OwnCommit
    <3>2. CASE ~Commit(q)
      BY <2>1, <2>2, <2>3, <3>2, HistoryKept
    <3> QED BY <3>1, <3>2
  <2>5. CASE p = q
    BY <1>2, <2>2, <2>4, <2>5, StageOwnStep
  <2>6. CASE p # q
    <3>1. pc[q] \in Rest /\ pc'[q] = pc[q]
      BY <2>2, <2>3, <2>6 DEF StageFacts
    <3>2. pc[q] = "idle" => NoneBy(q, head)'
      BY <2>4, <3>1 DEF HistoryFacts
    <3>3. StageFacts(q)'
      BY <3>1, <3>2 DEF StageFacts, Rest, Early
    <3> QED BY <2>4, <3>3
  <2> QED BY <2>5, <2>6
<1>3. CASE Others \/ UNCHANGED configVars
  <2>1. UNCHANGED <<pc, edit, original, draft, pre, stuck>>
    BY <1>3, Zenon DEF Others, ReadRegistry, DropRegistry, HandEdit, HandEditOther, HandStageOther, HandCommit,
                HandRestore, HandPush, HandPull, OthersPush, ByHand, configVars
  <2>2. UNCHANGED <<file, index, head, disturbed>> \/ Meddles
    BY <1>3, Zenon DEF Others, ReadRegistry, DropRegistry, HandEdit, HandEditOther, HandStageOther, HandCommit,
                HandRestore, HandPush, HandPull, OthersPush, ByHand, configVars
  <2>3. ~disturbed[q] /\ (Meddles => q \notin InFlight)
    BY <2>2, Zenon DEF Meddles
  <2>4. HistoryFacts(q) /\ StageFacts(q)
    BY <2>3 DEF OwnInv
  <2>5. HistoryFacts(q)'
    <3>1. CASE Commit(q)
      BY <2>4, <3>1, OwnCommit
    <3>2. CASE ~Commit(q)
      BY <2>1, <2>4, <3>2, HistoryKept
    <3> QED BY <3>1, <3>2
  <2>6. CASE pc[q] \in Rest
    <3>1. pc[q] = "idle" => NoneBy(q, head)'
      BY <2>1, <2>5 DEF HistoryFacts
    <3>2. StageFacts(q)'
      BY <2>1, <2>6, <3>1 DEF StageFacts, Rest, Early
    <3> QED BY <2>5, <3>2
  <2>7. CASE pc[q] \notin Rest
    <3>1. q \in InFlight
      BY <2>7 DEF InFlight, Rest
    <3>2. UNCHANGED <<file, index, head>>
      BY <2>2, <2>3, <3>1, Zenon
    <3>3. StageFacts(q)'
      BY <2>1, <2>4, <3>2 DEF StageFacts, Committed, Apply, NoneBy, CommitsOf
    <3> QED BY <2>5, <3>3
  <2> QED BY <2>6, <2>7
<1> QED BY <1>1, <1>2, <1>3 DEF ConfigNext

LEMMA OwnInvariant == ConfigSpec => []OwnInv
<1>1. ConfigTypeInv => DataTypes /\ FlagTypes
  BY DEF ConfigTypeInv
<1> QED BY <1>1, ConfigTypeInvariant, OwnInit, OwnStepKeeps, PTL DEF ConfigSpec

(* A commit that took other files along did so because a person had staged *)
(* them after the PUT's check.                                             *)
Window == {"prehead", "add", "commit"}
Explained(p, h) == \A i \in CommitsOf(p, h) : h[i].other = "staged" => p \in stagedLate

BundleInv ==
    \A p \in Puts :
        /\ Explained(p, head) /\ Explained(p, origin) /\ \A r \in Puts : Explained(p, pre[r])
        /\ pc[p] \in Window /\ other = "staged" => p \in stagedLate

LEMMA BundleInit == ConfigInit => BundleInv
<1> SUFFICES ASSUME ConfigInit, NEW p \in Puts
             PROVE  /\ CommitsOf(p, head) = {} /\ CommitsOf(p, <<>>) = {} /\ origin = head
                    /\ \A r \in Puts : pre[r] = <<>> /\ pc[p] \notin Window
  BY DEF BundleInv, Explained
<1>1. CommitsOf(p, <<>>) = {}
  <2>1. Len(<<>>) = 0 /\ 1..0 = {}
    BY EmptySeq
  <2> QED BY <2>1, Zenon DEF CommitsOf
<1>2. CommitsOf(p, head) = {} /\ origin = head
  BY DEF ConfigInit, CommitsOf
<1>3. pc[p] \notin Window /\ \A r \in Puts : pre[r] = <<>>
  BY DEF ConfigInit, Window
<1> QED BY <1>1, <1>2, <1>3

(* What was staged late stays so. *)
LEMMA LateGrows == FlagTypes /\ [ConfigNext]_configVars => stagedLate \subseteq stagedLate'
BY Zenon DEF ConfigNext, Validate, PutStep, Preflight, ReadOriginal, ReadAndEdit, WriteFile, Verify,
      ReadHead, Add, Commit, Push, Reset, Restore, Finish, Others, ReadRegistry, DropRegistry,
      HandEdit, HandEditOther, HandStageOther, HandCommit, HandRestore, HandPush, HandPull,
      OthersPush, historyVars, configVars

(* A history that comes from an explained one by the commits of others.    *)
LEMMA FromExplained ==
    ASSUME DataTypes, NEW q \in Puts, BundleInv, stagedLate \subseteq stagedLate',
           NEW h, From(q, h)
    PROVE  \A i \in CommitsOf(q, h) : h[i].other = "staged" => q \in stagedLate'
<1>1. PICK g \in {head, origin, <<>>} \cup {pre[r] : r \in Puts} :
          \/ h = g
          \/ \E c \in Commits : c.by # q /\ h = Append(g, c)
  BY DEF From
<1>2. CommitsOf(q, <<>>) = {} /\ <<>> \in Seq(Commits)
  <2>1. Len(<<>>) = 0 /\ 1..0 = {} /\ <<>> \in Seq(Commits)
    BY EmptySeq
  <2> QED BY <2>1, Zenon DEF CommitsOf
<1>3. g \in Seq(Commits)
  <2>1. head \in Seq(Commits) /\ origin \in Seq(Commits) /\ \A r \in Puts : pre[r] \in Seq(Commits)
    BY DEF DataTypes
  <2> QED BY <1>1, <1>2, <2>1, Zenon
<1>4. Explained(q, g)
  <2>1. Explained(q, <<>>)
    BY <1>2 DEF Explained
  <2> QED BY <1>1, <2>1, Zenon DEF BundleInv
<1>5. ASSUME NEW c \in Commits, c.by # q, h = Append(g, c)
      PROVE  CommitsOf(q, h) = CommitsOf(q, g) /\ \A i \in CommitsOf(q, g) : h[i] = g[i]
  BY <1>3, <1>5, OthersCommit, Appended DEF CommitsOf
<1> QED BY <1>1, <1>4, <1>5 DEF Explained

LEMMA BundleStep ==
    DataTypes /\ FlagTypes /\ BundleInv /\ [ConfigNext]_configVars => BundleInv'
<1> SUFFICES ASSUME DataTypes, FlagTypes, BundleInv, [ConfigNext]_configVars, NEW q \in Puts
             PROVE  /\ Explained(q, head)' /\ Explained(q, origin)'
                    /\ \A r \in Puts : Explained(q, pre[r])'
                    /\ pc'[q] \in Window /\ other' = "staged" => q \in stagedLate'
  BY DEF BundleInv
<1> USE DEF checkoutVars, putVars, historyVars
<1>1. stagedLate \subseteq stagedLate'
  BY LateGrows
<1>2. CASE ~Commit(q)
  <2>1. From(q, head') /\ From(q, origin') /\ \A r \in Puts : From(q, pre'[r])
    BY <1>2, HistoryStep
  <2>2. ASSUME NEW h, From(q, h)
        PROVE  \A i \in CommitsOf(q, h) : h[i].other = "staged" => q \in stagedLate'
    BY <1>1, <2>2, FromExplained
  <2>3. Explained(q, head)' /\ Explained(q, origin)' /\ \A r \in Puts : Explained(q, pre[r])'
    BY <2>1, <2>2 DEF Explained, CommitsOf
  <2>4. ASSUME pc'[q] \in Window, other' = "staged" PROVE q \in stagedLate'
    <3>1. ASSUME NEW p \in Puts, NEW e \in Edits, Validate(p, e) PROVE q \in stagedLate'
      BY <1>1, <2>4, <3>1 DEF Validate, Step, DataTypes, Window, BundleInv
    <3>2. ASSUME NEW p \in Puts, PutStep(p) PROVE q \in stagedLate'
      <4>1. CASE pc'[q] = pc[q] /\ other = "staged"
        BY <1>1, <2>4, <4>1 DEF BundleInv
      <4>2. other = "staged"
        BY <2>4, <3>2 DEF PutStep, Preflight, ReadOriginal, ReadAndEdit, WriteFile, Verify,
              ReadHead, Add, Commit, Push, Reset, Restore, Finish
      <4>3. pc[q] \in Window
        BY <1>2, <2>4, <3>2, <4>2 DEF PutStep, Preflight, ReadOriginal, ReadAndEdit, WriteFile,
              Verify, ReadHead, Add, Commit, Push, Reset, Restore, Finish, Step, Fails, Expires,
              DataTypes, Window
      <4> QED BY <1>1, <4>2, <4>3 DEF BundleInv
    <3>3. CASE Others \/ UNCHANGED configVars
      <4>1. pc' = pc /\ (other' = other \/ other' # "staged" \/ HandStageOther)
        BY <3>3 DEF Others, ReadRegistry, DropRegistry, HandEdit, HandEditOther,
              HandCommit, HandRestore, HandPush, HandPull, OthersPush, HandStageOther, ByHand, configVars
      <4>2. CASE HandStageOther
        BY <2>4, <4>1, <4>2 DEF HandStageOther, Window
      <4> QED BY <1>1, <2>4, <4>1, <4>2 DEF BundleInv
    <3> QED BY <3>1, <3>2, <3>3 DEF ConfigNext
  <2> QED BY <2>3, <2>4
<1>3. CASE Commit(q)
  <2> DEFINE c == [by |-> q, rows |-> index, other |-> other, id |-> 0]
  <2>1. /\ pc[q] = "commit" /\ UNCHANGED <<origin, pre, stagedLate>> /\ pc'[q] \notin Window
        /\ head' = head \/ head' = Append(head, c)
    BY <1>3 DEF Commit, Step, Fails, Expires, DataTypes, Window
  <2>2. c \in Commits /\ c.other = other
    BY DEF DataTypes, Commits
  <2>3. other = "staged" => q \in stagedLate
    BY <2>1 DEF BundleInv, Window
  <2> HIDE DEF c
  <2>4. Explained(q, head)'
    <3>1. CASE head' = head
      BY <2>1, <3>1 DEF BundleInv, Explained, CommitsOf
    <3>2. CASE head' = Append(head, c)
      <4>1. /\ Len(head) \in Nat /\ Len(head') = Len(head) + 1
            /\ \A i \in 1..Len(head) : head'[i] = head[i]
            /\ head'[Len(head) + 1] = c
        BY <2>2, <3>2, Appended DEF DataTypes
      <4>2. \A i \in 1..(Len(head) + 1) : i \in 1..Len(head) \/ i = Len(head) + 1
        BY <4>1
      <4> QED BY <2>1, <2>2, <2>3, <4>1, <4>2 DEF BundleInv, Explained, CommitsOf
    <3> QED BY <2>1, <3>1, <3>2
  <2> QED BY <2>1, <2>4 DEF BundleInv, Explained, CommitsOf
<1> QED BY <1>2, <1>3

(* A config-bot commit changes its parent's placement by the edit that was *)
(* asked for and by nothing else, and takes other files along only when a  *)
(* person staged them after the PUT's check.                               *)
THEOREM ConfigCommitsOwnEdit == ConfigSpec => []CommitsOwnEdit
<1>1. OwnInv /\ BundleInv => CommitsOwnEdit
  BY DEF OwnInv, HistoryFacts, Own, BundleInv, Explained, CommitsOwnEdit
<1>2. ConfigTypeInv => DataTypes /\ FlagTypes
  BY DEF ConfigTypeInv
<1> QED BY <1>1, <1>2, ConfigTypeInvariant, OwnInvariant, BundleInit, BundleStep, PTL DEF ConfigSpec

(* A PUT that fails with every git command answering leaves no commit, and *)
(* the file, the index and HEAD in agreement.                              *)
THEOREM ConfigRollsBack == ConfigSpec => RollsBack
<1> DEFINE A == \A p \in Puts :
          pc[p] = "restore" /\ pc'[p] = "done" /\ ~disturbed[p] /\ ~stuck[p] =>
              CommitsOf(p, head') = {} /\ ~OwnDirty' /\ file' = original[p]
<1>1. ASSUME DataTypes, FlagTypes, OwnInv, ConfigNext, NEW p \in Puts,
             pc[p] = "restore", pc'[p] = "done", ~disturbed[p], ~stuck[p]
      PROVE  CommitsOf(p, head') = {} /\ ~OwnDirty' /\ file' = original[p]
  <2>1. StageFacts(p)
    BY <1>1 DEF OwnInv
  <2>2. index = Committed /\ original[p] = Committed /\ CommitsOf(p, head) = {}
    BY <1>1, <2>1 DEF StageFacts, NoneBy
  <2>3. Restore(p)
    <3>1. ~Others
      <4>1. Others => pc' = pc
        BY Zenon DEF Others, ReadRegistry, DropRegistry, HandEdit, HandEditOther, HandStageOther, HandCommit,
                HandRestore, HandPush, HandPull, OthersPush, ByHand, putVars
      <4> QED BY <1>1, <4>1
    <3>2. ASSUME NEW r \in Puts, NEW e \in Edits, Validate(r, e) PROVE FALSE
      <4>1. pc[r] = "idle" /\ (pc' = [pc EXCEPT ![r] = "done"] \/ pc' = [pc EXCEPT ![r] = "preflight"])
        BY <3>2 DEF Validate, Step
      <4> QED BY <1>1, <4>1 DEF DataTypes
    <3>3. ASSUME NEW r \in Puts, PutStep(r) PROVE r = p
      <4>1. \A s \in Puts : s # r => pc'[s] = pc[s]
        BY <1>1, <3>3 DEF PutStep, Preflight, ReadOriginal, ReadAndEdit, WriteFile, Verify, ReadHead,
              Add, Commit, Push, Reset, Restore, Finish, Step, Fails, Expires, DataTypes
      <4> QED BY <1>1, <4>1
    <3>4. PutStep(p) => Restore(p)
      BY <1>1 DEF PutStep, Preflight, ReadOriginal, ReadAndEdit, WriteFile, Verify, ReadHead,
            Add, Commit, Push, Reset, Finish, Step, Fails, Expires
    <3> QED BY <1>1, <3>1, <3>2, <3>3, <3>4 DEF ConfigNext
  <2>4. file' = original[p] /\ index' = index /\ head' = head
    BY <2>3, Zenon DEF Restore
  <2> QED BY <2>2, <2>4 DEF OwnDirty, Committed
<1>2. DataTypes /\ FlagTypes /\ OwnInv /\ [ConfigNext]_configVars => [A]_configVars
  BY <1>1
<1>3. ConfigTypeInv => DataTypes /\ FlagTypes
  BY DEF ConfigTypeInv
<1>4. ConfigSpec => [][A]_configVars
  BY <1>2, <1>3, ConfigTypeInvariant, OwnInvariant, PTL DEF ConfigSpec
<1> QED BY <1>4 DEF RollsBack
-----------------------------------------------------------------------------
(* No silent divergence. The commit of a PUT that had the checkout to      *)
(* itself and is over is on origin, or is nowhere, or was left here by a   *)
(* git command that failed: then what was committed is not what the restore *)
(* put back, so the checkout is dirty, and while nobody touches it no later *)
(* PUT gets past its preflight to move HEAD, the index or the file.        *)

Absent(p) == NoneBy(p, head) /\ \A q \in Puts : NoneBy(p, pre[q])
Waiting == \A q \in Puts : pc[q] \in Rest \cup {"preflight"}
Stranded(p) == answer[p] = "error" /\ stuck[p] /\ (hands = 0 => OwnDirty /\ Waiting)

DivergeFacts(p) ==
    /\ NoneBy(p, pre[p])
    /\ pc[p] \in {"push", "reset", "restore", "finish"} =>
           NoneBy(p, head) \/ index # original[p]
    /\ pc[p] = "done" => Absent(p) \/ ~NoneBy(p, origin) \/ Stranded(p)

(* The locals of a call that is over are gone. *)
PreGone == \A q \in Puts : pc[q] \in Rest => pre[q] = <<>>

DivergeInv == PreGone /\ \A p \in Puts : ~disturbed[p] => DivergeFacts(p)

LEMMA NoneByEmpty == ASSUME NEW p PROVE NoneBy(p, <<>>)
<1>1. Len(<<>>) = 0 /\ 1..0 = {}
  BY EmptySeq
<1> QED BY <1>1, Zenon DEF NoneBy, CommitsOf

LEMMA DivergeInit == ConfigInit => DivergeInv
<1> SUFFICES ASSUME ConfigInit PROVE DivergeInv
  OBVIOUS
<1>1. \A p \in Puts : pc[p] = "idle" /\ pre[p] = <<>>
  BY DEF ConfigInit
<1> QED BY <1>1, NoneByEmpty DEF DivergeInv, PreGone, DivergeFacts

(* A PUT that left no commit in any history here leaves none later.        *)
LEMMA AbsentStays ==
    ASSUME DataTypes, [ConfigNext]_configVars, NEW q \in Puts, ~Commit(q),
           Absent(q), NoneBy(q, origin)
    PROVE  Absent(q)'
<1>1. ASSUME NEW h, From(q, h) PROVE NoneBy(q, h)
  <2>1. PICK g \in {head, origin, <<>>} \cup {pre[r] : r \in Puts} :
            \/ h = g
            \/ \E c \in Commits : c.by # q /\ h = Append(g, c)
    BY <1>1 DEF From
  <2>2. g \in Seq(Commits)
    <3>1. <<>> \in Seq(Commits) /\ head \in Seq(Commits) /\ origin \in Seq(Commits)
          /\ \A r \in Puts : pre[r] \in Seq(Commits)
      BY EmptySeq DEF DataTypes
    <3> QED BY <2>1, <3>1, Zenon
  <2>3. NoneBy(q, g)
    <3>1. NoneBy(q, <<>>) /\ NoneBy(q, head) /\ NoneBy(q, origin) /\ \A r \in Puts : NoneBy(q, pre[r])
      BY NoneByEmpty DEF Absent
    <3> QED BY <2>1, <3>1, Zenon
  <2>4. ASSUME NEW c \in Commits, c.by # q PROVE NoneBy(q, Append(g, c))
    BY <2>2, <2>3, <2>4, OthersCommit DEF NoneBy
  <2> QED BY <2>1, <2>3, <2>4
<1>2. NoneBy(q, head') /\ \A r \in Puts : NoneBy(q, pre'[r])
  BY <1>1, HistoryStep
<1> QED BY <1>2 DEF Absent, NoneBy, CommitsOf

LEMMA OnOriginStays ==
    ASSUME DataTypes, [ConfigNext]_configVars, NEW q \in Puts, ~NoneBy(q, origin)
    PROVE  ~NoneBy(q, origin)'
<1>1. PICK i \in 1..Len(origin) : origin[i].by = q
  BY DEF NoneBy, CommitsOf
<1>2. i \in 1..Len(origin') /\ origin'[i] = origin[i]
  BY OriginGrows
<1> QED BY <1>1, <1>2 DEF NoneBy, CommitsOf

(* A call that ends empties its locals, and no other call ends with it.    *)
LEMMA PreGoneStep == DataTypes /\ PreGone /\ [ConfigNext]_configVars => PreGone'
<1> SUFFICES ASSUME DataTypes, PreGone, [ConfigNext]_configVars, NEW q \in Puts, pc'[q] \in Rest
             PROVE  pre'[q] = <<>>
  BY DEF PreGone
<1> USE DEF DataTypes, PcStates, Rest, Step, Fails, Expires, Reply, NoReply
<1>1. ASSUME NEW p \in Puts, NEW e \in Edits, Validate(p, e) PROVE pre'[q] = <<>>
  BY <1>1 DEF Validate, PreGone
<1>2. ASSUME NEW p \in Puts, PutStep(p) PROVE pre'[q] = <<>>
  <2>1. CASE p # q
    <3>1. pc'[q] = pc[q] /\ pre'[q] = pre[q]
      BY <1>2, <2>1 DEF PutStep, Preflight, ReadOriginal, ReadAndEdit, WriteFile, Verify, ReadHead,
            Add, Commit, Push, Reset, Restore, Finish
    <3> QED BY <3>1 DEF PreGone
  <2>2. CASE p = q
    <3>1. Reply(p, "refused") \/ Reply(p, "same") \/ Reply(p, "error") \/ Reply(p, "ok")
      BY <1>2, <2>2 DEF PutStep, Preflight, ReadOriginal, ReadAndEdit, WriteFile, Verify, ReadHead,
            Add, Commit, Push, Reset, Restore, Finish
    <3> QED BY <2>2, <3>1
  <2> QED BY <2>1, <2>2
<1>3. CASE Others \/ UNCHANGED configVars
  <2>1. pc' = pc /\ pre' = pre
    BY <1>3, Zenon DEF Others, ReadRegistry, DropRegistry, HandEdit, HandEditOther, HandStageOther, HandCommit,
              HandRestore, HandPush, HandPull, OthersPush, ByHand, putVars, configVars
  <2> QED BY <2>1 DEF PreGone
<1> QED BY <1>1, <1>2, <1>3 DEF ConfigNext

(* A step of the PUT itself, while it is alone.                            *)
LEMMA DivergeOwnStep ==
    ASSUME DataTypes, FlagTypes, [ConfigNext]_configVars, NEW q \in Puts, PutStep(q),
           StageFacts(q), AckFacts(q), DivergeFacts(q), PreGone, PreGone'
    PROVE  DivergeFacts(q)'
<1> USE DEF checkoutVars, putVars, historyVars, Step, Fails, NoReply, Reply
<1>1. /\ pc[q] \notin Rest
      /\ \A p \in Puts : p # q => pc[p] \in Rest /\ pc'[p] = pc[p]
  <2>1. \E a, b \in PcStates : a \notin Rest /\ Step(q, a, b)
    BY DEF PutStep, Preflight, ReadOriginal, ReadAndEdit, WriteFile, Verify, ReadHead,
          Add, Commit, Push, Reset, Restore, Finish, Expires, PcStates, Rest
  <2> QED BY <2>1 DEF DataTypes, StageFacts
<1>2. ASSUME pc'[q] = "done" PROVE NoneBy(q, pre[q])' /\ \A p \in Puts : NoneBy(q, pre[p])'
  <2>1. \A p \in Puts : pre'[p] = <<>>
    BY <1>1, <1>2 DEF PreGone, Rest
  <2> QED BY <2>1, NoneByEmpty DEF NoneBy, CommitsOf
<1>3. ASSUME pc[q] \in Early, pc'[q] # "push",
             \/ UNCHANGED <<head, pre>>
             \/ pc'[q] = "done" /\ UNCHANGED head
      PROVE  DivergeFacts(q)'
  <2>1. NoneBy(q, head)'
    BY <1>3 DEF StageFacts, NoneBy, CommitsOf
  <2>2. NoneBy(q, pre[q])'
    BY <1>2, <1>3 DEF DivergeFacts, NoneBy, CommitsOf
  <2> QED BY <1>2, <2>1, <2>2 DEF DivergeFacts, Absent
<1>4. ASSUME pc'[q] # "done", UNCHANGED <<head, pre, index, original>>,
             pc[q] \in {"push", "reset", "restore", "finish"}
      PROVE  DivergeFacts(q)'
  BY <1>4 DEF DivergeFacts, NoneBy, CommitsOf
<1>5. CASE Preflight(q) \/ ReadOriginal(q) \/ ReadAndEdit(q) \/ WriteFile(q) \/ Verify(q) \/ Add(q)
  BY <1>3, <1>5 DEF Preflight, ReadOriginal, ReadAndEdit, WriteFile, Verify, Add, Expires, Early, DataTypes
<1>6. CASE ReadHead(q)
  <2>1. CASE Step(q, "prehead", "add") /\ pre' = [pre EXCEPT ![q] = head]
    <3>1. pre'[q] = head /\ pc'[q] = "add"
      BY <2>1 DEF DataTypes
    <3>2. NoneBy(q, head)
      BY <2>1 DEF StageFacts, Early
    <3> QED BY <3>1, <3>2 DEF DivergeFacts, NoneBy, CommitsOf
  <2>2. CASE Step(q, "prehead", "restore") /\ UNCHANGED pre
    BY <1>3, <1>6, <2>2 DEF ReadHead, Early, DataTypes
  <2> QED BY <1>6, <2>1, <2>2 DEF ReadHead
<1>7. CASE Commit(q)
  <2>1. index # Committed
    BY <1>7 DEF Commit, StageFacts, Expires
  <2>2. index' # original'[q] /\ NoneBy(q, pre[q])' /\ pc'[q] # "done"
    BY <1>7, <2>1 DEF Commit, Expires, StageFacts, DivergeFacts, DataTypes, NoneBy, CommitsOf
  <2> QED BY <2>2 DEF DivergeFacts
<1>8. CASE Push(q)
  BY <1>4, <1>8 DEF Push, Expires, DataTypes
<1>9. CASE Reset(q)
  <2>1. CASE head' = pre[q]
    <3>1. NoneBy(q, head)' /\ NoneBy(q, pre[q])' /\ pc'[q] # "done"
      BY <1>9, <2>1 DEF Reset, Expires, DivergeFacts, DataTypes, NoneBy, CommitsOf
    <3> QED BY <3>1 DEF DivergeFacts
  <2>2. CASE Expires(q, "reset") /\ UNCHANGED <<head, file, index, other>>
    BY <1>4, <1>9, <2>2 DEF Reset, Expires, DataTypes
  <2> QED BY <1>9, <2>1, <2>2, Zenon DEF Reset
<1>10. CASE Restore(q)
  <2>1. /\ pc[q] = "restore" /\ pc'[q] = "done" /\ answer'[q] = "error" /\ file' = original[q]
        /\ UNCHANGED <<index, head, origin>>
    BY <1>10 DEF Restore, DataTypes
  <2>2. stuck' = stuck
    BY <1>10, Zenon DEF Restore
  <2>3. CASE NoneBy(q, head)
    BY <1>2, <2>1, <2>3 DEF DivergeFacts, Absent, NoneBy, CommitsOf
  <2>4. CASE ~NoneBy(q, head)
    <3>1. index # original[q] /\ stuck[q]
      BY <2>1, <2>4 DEF DivergeFacts, StageFacts
    <3>2. OwnDirty' /\ Waiting'
      BY <1>1, <2>1, <3>1 DEF OwnDirty, Waiting, Rest
    <3> QED BY <1>2, <2>1, <2>2, <3>1, <3>2 DEF DivergeFacts, Stranded
  <2> QED BY <2>3, <2>4
<1>11. CASE Finish(q)
  <2>1. CASE Step(q, "finish", "done")
    <3>1. ~NoneBy(q, origin)
      BY <2>1 DEF AckFacts, Pushed, NoneBy
    <3>2. pc'[q] = "done" /\ ~NoneBy(q, origin)'
      BY <2>1, <3>1, OnOriginStays DEF DataTypes
    <3> QED BY <1>2, <3>2 DEF DivergeFacts
  <2>2. CASE Expires(q, "finish") /\ NoReply
    BY <1>4, <1>11, <2>2 DEF Finish, Expires, DataTypes
  <2> QED BY <1>11, <2>1, <2>2 DEF Finish
<1> QED BY <1>5, <1>6, <1>7, <1>8, <1>9, <1>10, <1>11 DEF PutStep

(* Someone else's step, for a PUT that is over.                            *)
LEMMA DivergeAtEnd ==
    ASSUME DataTypes, [ConfigNext]_configVars, NEW q \in Puts, DivergeFacts(q), PreGone',
           pc[q] = "done", pc'[q] = "done", answer'[q] = answer[q], stuck'[q] = stuck[q]
    PROVE  DivergeFacts(q)'
<1> USE DEF checkoutVars, putVars, historyVars, Step, Fails, Expires, NoReply, Reply
<1>0. NoneBy(q, pre[q])'
  BY NoneByEmpty DEF PreGone, Rest, NoneBy, CommitsOf
<1>1. CASE ~NoneBy(q, origin)
  BY <1>0, <1>1, OnOriginStays DEF DivergeFacts
<1>2. CASE Absent(q) /\ NoneBy(q, origin)
  <2>1. ~Commit(q)
    BY DEF Commit
  <2> QED BY <1>0, <1>2, <2>1, AbsentStays DEF DivergeFacts
<1>3. CASE Stranded(q)
  <2>1. CASE hands' # 0
    BY <1>0, <1>3, <2>1 DEF Stranded, DivergeFacts
  <2>2. CASE hands' = 0
    <3>1. hands = 0 /\ ~ByHand
      <4>1. ByHand => hands' = hands + 1
        BY DEF ByHand
      <4>2. hands' = hands \/ ByHand
        BY Zenon DEF ConfigNext, Validate, PutStep, Preflight, ReadOriginal, ReadAndEdit, WriteFile,
              Verify, ReadHead, Add, Commit, Push, Reset, Restore, Finish, Others, ReadRegistry,
              DropRegistry, HandEdit, HandEditOther, HandStageOther, HandCommit, HandRestore, HandPush, HandPull,
              OthersPush, configVars
      <4> QED BY <2>2, <4>1, <4>2 DEF DataTypes
    <3>2. OwnDirty /\ Waiting
      BY <1>3, <3>1 DEF Stranded
    <3>3. UNCHANGED <<file, index, head>> /\ Waiting'
      <4>1. ASSUME NEW p \in Puts, NEW e \in Edits, Validate(p, e)
            PROVE  UNCHANGED <<file, index, head>> /\ Waiting'
        BY <3>2, <4>1 DEF Validate, Waiting, Rest, DataTypes
      <4>2. ASSUME NEW p \in Puts, PutStep(p) PROVE UNCHANGED <<file, index, head>> /\ Waiting'
        <5>1. Preflight(p)
          BY <3>2, <4>2 DEF PutStep, ReadOriginal, ReadAndEdit, WriteFile, Verify, ReadHead,
                Add, Commit, Push, Reset, Restore, Finish, Waiting, Rest
        <5>2. pc' = [pc EXCEPT ![p] = "done"] /\ UNCHANGED <<file, index, head>>
          BY <3>2, <5>1 DEF Preflight, Dirty
        <5> QED BY <3>2, <5>2 DEF Waiting, Rest, DataTypes
      <4>3. CASE Others
        <5>1. ReadRegistry \/ DropRegistry
          BY <3>1, <4>3, Zenon DEF Others, HandEdit, HandEditOther, HandStageOther, HandCommit,
                HandRestore, HandPush, HandPull, OthersPush
        <5>2. UNCHANGED <<file, index, head, pc>>
          BY <5>1, Zenon DEF ReadRegistry, DropRegistry
        <5> QED BY <3>2, <5>2 DEF Waiting
      <4>4. CASE UNCHANGED configVars
        BY <3>2, <4>4 DEF configVars, Waiting
      <4> QED BY <4>1, <4>2, <4>3, <4>4 DEF ConfigNext
    <3> QED BY <1>0, <1>3, <3>2, <3>3 DEF Stranded, DivergeFacts, OwnDirty, Committed
  <2> QED BY <2>1, <2>2
<1> QED BY <1>1, <1>2, <1>3 DEF DivergeFacts

LEMMA DivergeStep ==
    DataTypes /\ FlagTypes /\ OwnInv /\ AckInv /\ DivergeInv /\ [ConfigNext]_configVars => DivergeInv'
<1> SUFFICES ASSUME DataTypes, FlagTypes, OwnInv, AckInv, DivergeInv, [ConfigNext]_configVars,
                    PreGone', NEW q \in Puts, ~disturbed'[q]
             PROVE  DivergeFacts(q)'
  BY PreGoneStep DEF DivergeInv
<1> USE DEF checkoutVars, putVars, historyVars
<1>0. PreGone
  BY DEF DivergeInv
<1>1. ASSUME ~disturbed[q] PROVE HistoryFacts(q) /\ StageFacts(q) /\ AckFacts(q) /\ DivergeFacts(q)
  BY <1>1 DEF OwnInv, AckInv, DivergeInv
<1>2. ASSUME NEW p \in Puts, NEW e \in Edits, Validate(p, e) PROVE DivergeFacts(q)'
  <2>1. /\ disturbed' = disturbed /\ Overcommits(e, Registry)
        \/ disturbed' = [r \in Puts |-> disturbed[r] \/ r \in InFlight \/ (r = p /\ InFlight # {})]
    BY <1>2, Zenon DEF Validate
  <2>2. ~disturbed[q]
    BY <2>1, Zenon
  <2>3. /\ UNCHANGED <<file, index, head, origin, stuck>> /\ pc[p] = "idle"
        /\ \A r \in Puts : r # p => /\ pc'[r] = pc[r] /\ pre'[r] = pre[r]
                                    /\ original'[r] = original[r] /\ answer'[r] = answer[r]
        /\ pc'[p] = "preflight" \/ pc'[p] = "done"
        /\ pre'[p] = pre[p] \/ pre'[p] = <<>>
    BY <1>2 DEF Validate, Step, Reply, NoReply, DataTypes
  <2>4. CASE p = q
    <3>1. NoneBy(q, head) /\ NoneBy(q, origin) /\ \A r \in Puts : NoneBy(q, pre[r])
      BY <1>1, <2>2, <2>3, <2>4 DEF HistoryFacts
    <3>2. NoneBy(q, head)' /\ \A r \in Puts : NoneBy(q, pre[r])'
      BY <2>3, <2>4, <3>1, NoneByEmpty DEF NoneBy, CommitsOf
    <3> QED BY <3>2 DEF DivergeFacts, Absent
  <2>5. CASE p # q
    <3>1. CASE pc[q] = "done"
      BY <1>1, <2>2, <2>3, <2>5, <3>1, DivergeAtEnd
    <3>2. CASE pc[q] # "done"
      BY <1>1, <2>2, <2>3, <2>5, <3>2 DEF DivergeFacts, NoneBy, CommitsOf
    <3> QED BY <3>1, <3>2
  <2> QED BY <2>4, <2>5
<1>3. ASSUME NEW p \in Puts, PutStep(p) PROVE DivergeFacts(q)'
  <2>1. ~disturbed[q]
    <3>1. disturbed' = disturbed
      BY <1>3, Zenon DEF PutStep, Preflight, ReadOriginal, ReadAndEdit, WriteFile, Verify, ReadHead,
                Add, Commit, Push, Reset, Restore, Finish
    <3> QED BY <3>1
  <2>2. CASE p = q
    BY <1>0, <1>1, <1>3, <2>1, <2>2, DivergeOwnStep
  <2>3. CASE p # q
    <3>1. /\ pc[p] \notin Rest
          /\ pc'[q] = pc[q] /\ pre'[q] = pre[q] /\ answer'[q] = answer[q]
      BY <1>3, <2>3 DEF PutStep, Preflight, ReadOriginal, ReadAndEdit, WriteFile, Verify, ReadHead,
            Add, Commit, Push, Reset, Restore, Finish, Step, Fails, Expires, Reply, NoReply,
            DataTypes, Rest
    <3>2. pc[q] \in Rest
      BY <1>1, <2>1, <2>3, <3>1 DEF StageFacts
    <3>3. stuck'[q] = stuck[q]
      BY <1>3, <2>3, Zenon DEF PutStep, Preflight, ReadOriginal, ReadAndEdit, WriteFile, Verify,
            ReadHead, Add, Commit, Push, Reset, Restore, Finish, Fails, Expires, FlagTypes
    <3>4. CASE pc[q] = "done"
      BY <1>1, <2>1, <3>1, <3>3, <3>4, DivergeAtEnd
    <3>5. CASE pc[q] = "idle"
      BY <1>1, <2>1, <3>1, <3>5 DEF DivergeFacts, NoneBy, CommitsOf
    <3> QED BY <3>2, <3>4, <3>5 DEF Rest
  <2> QED BY <2>2, <2>3
<1>4. CASE Others \/ UNCHANGED configVars
  <2>1. UNCHANGED <<pc, original, pre, answer, stuck>>
    BY <1>4, Zenon DEF Others, ReadRegistry, DropRegistry, HandEdit, HandEditOther, HandStageOther, HandCommit,
                HandRestore, HandPush, HandPull, OthersPush, ByHand, configVars
  <2>2. UNCHANGED <<index, head, disturbed>> \/ Meddles
    BY <1>4, Zenon DEF Others, ReadRegistry, DropRegistry, HandEdit, HandEditOther, HandStageOther, HandCommit,
                HandRestore, HandPush, HandPull, OthersPush, ByHand, configVars
  <2>3. ~disturbed[q] /\ (Meddles => q \notin InFlight)
    BY <2>2, Zenon DEF Meddles
  <2>4. CASE pc[q] = "done"
    BY <1>1, <2>1, <2>3, <2>4, DivergeAtEnd
  <2>5. CASE pc[q] = "idle"
    BY <1>1, <2>1, <2>3, <2>5 DEF DivergeFacts, NoneBy, CommitsOf
  <2>6. CASE pc[q] \notin Rest
    <3>1. UNCHANGED <<index, head>>
      BY <2>2, <2>3, <2>6, Zenon DEF InFlight, Rest
    <3> QED BY <1>1, <2>1, <2>3, <2>6, <3>1 DEF DivergeFacts, NoneBy, CommitsOf, Rest
  <2> QED BY <2>4, <2>5, <2>6 DEF Rest
<1> QED BY <1>2, <1>3, <1>4 DEF ConfigNext

(* A config-bot commit that is here and not on origin belongs to a PUT in  *)
(* flight, or to one that was answered with an error, and then the checkout *)
(* is dirty and no later PUT commits on top of it until a person has come. *)
THEOREM ConfigNeverDivergesSilently == ConfigSpec => []NoSilentDivergence
<1>1. ConfigTypeInv => DataTypes /\ FlagTypes
  BY DEF ConfigTypeInv
<1>2. DataTypes /\ OwnInv /\ DivergeInv => NoSilentDivergence
  <2> SUFFICES ASSUME DataTypes, OwnInv, DivergeInv, NEW p \in Puts, ~NoneBy(p, head),
                      NoneBy(p, origin), p \notin InFlight, ~disturbed[p]
               PROVE  answer[p] = "error" /\ stuck[p] /\ (hands > 0 \/ Dirty)
    BY DEF NoSilentDivergence, NoneBy
  <2>1. pc[p] # "idle"
    BY DEF OwnInv, HistoryFacts
  <2>2. pc[p] = "done"
    BY <2>1 DEF InFlight
  <2>3. Stranded(p)
    BY <2>2 DEF DivergeInv, DivergeFacts, Absent
  <2>4. hands > 0 \/ hands = 0
    BY DEF DataTypes
  <2> QED BY <2>3, <2>4 DEF Stranded, Dirty
<1> QED BY <1>1, <1>2, ConfigTypeInvariant, OwnInvariant, AckInit, AckStep, DivergeInit, DivergeStep, PTL
        DEF ConfigSpec
=============================================================================
