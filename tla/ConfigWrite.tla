------------------------------ MODULE ConfigWrite ------------------------------
(***************************************************************************)
(* The write host's placement edits: a PUT of the admin page becomes an    *)
(* edit of config/models.yaml, a commit and a push (src/src/config_write.py*)
(* and the placement route of src/app_web/routers/models.py).              *)
(*                                                                         *)
(* Every PUT runs on a worker thread of its own and there is no lock       *)
(* between two of them; a person works in the same checkout and others     *)
(* push to the same origin. A step is one git command, or one read or      *)
(* write of the file. Every git command has a time limit, and one that     *)
(* passes it may or may not have had its effect.                           *)
(*                                                                         *)
(* The file is the set of models placed on one host whose video memory     *)
(* holds Ceiling of them; all other tracked files are one, `other`: dirty  *)
(* or not, and staged or not. Branches are left out: being off main is one *)
(* way for the preflight to refuse.                                        *)
(***************************************************************************)
EXTENDS Integers, FiniteSets, Sequences, SequencesExt

CONSTANTS
    Puts,       \* placement requests, each made once
    Models,     \* models whose placement can be edited
    Ceiling,    \* how many of them the host holds (vram_mb over est_vram_mb)
    Human,      \* author of the commits no PUT made
    Unread,     \* the registry cache before the file is read again
    MaxHand     \* bound: what people do in the checkout and on origin

ASSUME PutAssumption == IsFiniteSet(Puts) /\ Human \notin Puts
ASSUME ModelAssumption == IsFiniteSet(Models) /\ \A rows \in SUBSET Models : Unread # rows
ASSUME CeilingAssumption == Ceiling \in Nat /\ MaxHand \in Nat

VARIABLES
    file, index,    \* models.yaml in the checkout, and as staged
    other,          \* another tracked file: "clean", "edited" or also "staged"
    head, origin,   \* main here and on origin: sequences of commits
    registry,       \* _CONFIG_CACHE
    pc, edit,       \* where every PUT is, and what it asks for
    original,       \* the file as apply_placement found it
    draft,          \* the file as it is about to write it
    pre,            \* pre_head
    answer,
    disturbed,      \* history: someone else used the checkout during the PUT
    stagedLate,     \* history: PUTs that had checked the checkout and not yet
                    \* committed when a person staged another file
    stuck,          \* history: a git command of the PUT passed its time limit,
                    \* or one that may not fail did
    trusted,        \* history: never two PUTs in flight, a registry read during
                    \* one, or work by a person on the placement
    hands

checkoutVars == <<file, index, other, head, origin>>
putVars == <<pc, edit, original, draft, pre, answer>>
historyVars == <<disturbed, stagedLate, stuck, trusted, hands>>
configVars == <<file, index, other, head, origin, registry, pc, edit, original,
                draft, pre, answer, disturbed, stagedLate, stuck, trusted, hands>>

Placements == SUBSET Models
Edits == [model : Models, placed : BOOLEAN]
States == {"clean", "edited", "staged"}
(* A commit, with the state other files were in: it takes what is staged. *)
Commits == [by : Puts \cup {Human}, rows : Placements, other : States, id : Nat]
Answers == {"none", "refused", "same", "ok", "error"}

(* edit_models_yaml: the file with one model's placement changed. *)
Apply(e, rows) == IF e.placed THEN rows \cup {e.model} ELSE rows \ {e.model}

(* Mutant of Overcommits: the models already there are counted, without    *)
(* the one that comes.                                                     *)
OvercommitsAlready(e, rows) == e.placed /\ Cardinality(rows) > Ceiling

(* _overcommit_errors: judged on the registry with the edit applied. *)
Overcommits(e, rows) == e.placed /\ Cardinality(Apply(e, rows)) > Ceiling

Committed == Last(head).rows
OwnDirty == file # index \/ index # Committed
Dirty == OwnDirty \/ other # "clean"
Registry == IF registry = Unread THEN file ELSE registry
InFlight == {p \in Puts : pc[p] \notin {"idle", "done"}}
CommitsOf(p, history) == {i \in 1..Len(history) : history[i].by = p}

ConfigTypeOK ==
    /\ file \in Placements /\ index \in Placements /\ other \in States
    /\ head \in Seq(Commits) /\ head # <<>>
    /\ origin \in Seq(Commits) /\ origin # <<>>
    /\ registry = Unread \/ registry \in Placements
    /\ pc \in [Puts -> {"idle", "preflight", "read", "edit", "write", "verify", "prehead",
                        "add", "commit", "push", "reset", "restore", "finish", "done"}]
    /\ edit \in [Puts -> Edits]
    /\ original \in [Puts -> Placements] /\ draft \in [Puts -> Placements]
    /\ pre \in [Puts -> Seq(Commits)] /\ answer \in [Puts -> Answers]
    /\ disturbed \in [Puts -> BOOLEAN] /\ stuck \in [Puts -> BOOLEAN]
    /\ stagedLate \subseteq Puts /\ trusted \in BOOLEAN /\ hands \in 0..MaxHand

(* The hub boots on whatever the checkout holds, an edit that a person has *)
(* not committed yet included; the committed placement fits the host.      *)
ConfigInit ==
    /\ index \in {rows \in Placements : Cardinality(rows) <= Ceiling}
    /\ file \in Placements /\ registry = file
    /\ other \in States
    /\ head = <<[by |-> Human, rows |-> index, other |-> "clean", id |-> 0]>> /\ origin = head
    /\ pc = [p \in Puts |-> "idle"]
    /\ \E m \in Models : edit = [p \in Puts |-> [model |-> m, placed |-> FALSE]]
    /\ original = [p \in Puts |-> {}] /\ draft = [p \in Puts |-> {}]
    /\ pre = [p \in Puts |-> <<>>] /\ answer = [p \in Puts |-> "none"]
    /\ disturbed = [p \in Puts |-> FALSE] /\ stuck = [p \in Puts |-> FALSE]
    /\ stagedLate = {} /\ trusted = (file = index) /\ hands = 0

Step(p, from, to) == pc[p] = from /\ pc' = [pc EXCEPT ![p] = to]

(* The answer ends the call, and its locals with it. *)
Reply(p, what) ==
    /\ answer' = [answer EXCEPT ![p] = what]
    /\ original' = [original EXCEPT ![p] = {}] /\ draft' = [draft EXCEPT ![p] = {}]
    /\ pre' = [pre EXCEPT ![p] = <<>>]
NoReply == UNCHANGED <<answer, original, draft, pre>>

(* A PUT arrives and validate_placement judges it on the registry as this  *)
(* hub last read it; nothing is touched.                                   *)
Validate(p, e) ==
    /\ pc[p] = "idle"
    /\ registry' = Registry
    /\ edit' = [edit EXCEPT ![p] = e]
    /\ IF Overcommits(e, Registry)
       THEN Step(p, "idle", "done") /\ Reply(p, "refused") /\ UNCHANGED disturbed
       ELSE /\ Step(p, "idle", "preflight") /\ NoReply
            /\ disturbed' = [q \in Puts |-> \/ disturbed[q]
                                            \/ q \in InFlight
                                            \/ q = p /\ InFlight # {}]
    /\ trusted' = (trusted /\ InFlight = {})
    /\ UNCHANGED <<checkoutVars, stagedLate, stuck, hands>>

(* Mutant of Preflight: a dirty checkout is not refused. *)
PreflightUnchecked(p) ==
    /\ Step(p, "preflight", "read") /\ NoReply
    /\ UNCHANGED <<checkoutVars, registry, edit, historyVars>>

(* git_preflight: any dirty tracked file, another branch or a failing git  *)
(* command refuses the PUT before it touches anything.                     *)
Preflight(p) ==
    /\ \/ ~Dirty /\ Step(p, "preflight", "read") /\ NoReply
       \/ Step(p, "preflight", "done") /\ Reply(p, "refused")
    /\ UNCHANGED <<checkoutVars, registry, edit, historyVars>>

ReadOriginal(p) ==
    /\ Step(p, "read", "edit")
    /\ original' = [original EXCEPT ![p] = file]
    /\ UNCHANGED <<checkoutVars, registry, edit, draft, pre, answer, historyVars>>

(* edit_models_yaml reads the file again, and answers at once when the     *)
(* placement already matches.                                              *)
ReadAndEdit(p) ==
    /\ IF Apply(edit[p], file) = file
       THEN Step(p, "edit", "done") /\ Reply(p, "same")
       ELSE /\ Step(p, "edit", "write")
            /\ draft' = [draft EXCEPT ![p] = Apply(edit[p], file)]
            /\ UNCHANGED <<original, pre, answer>>
    /\ UNCHANGED <<checkoutVars, registry, edit, historyVars>>

WriteFile(p) ==
    /\ Step(p, "write", "verify")
    /\ file' = draft[p]
    /\ UNCHANGED <<index, other, head, origin, registry, edit, original, draft,
                   pre, answer, historyVars>>

(* commit_and_push: models.yaml must be the only dirty tracked file. *)
Verify(p) ==
    /\ \/ OwnDirty /\ other = "clean" /\ Step(p, "verify", "prehead")
       \/ Step(p, "verify", "restore")
    /\ UNCHANGED <<checkoutVars, registry, edit, original, draft, pre, answer, historyVars>>

ReadHead(p) ==
    /\ \/ Step(p, "prehead", "add") /\ pre' = [pre EXCEPT ![p] = head]
       \/ Step(p, "prehead", "restore") /\ UNCHANGED pre
    /\ UNCHANGED <<checkoutVars, registry, edit, original, draft, answer, historyVars>>

(* A git command that answered in time and failed, or that never answered: *)
(* the first goes on at `next`, the second always at the restore.          *)
Expires(p, from) == Step(p, from, "restore") /\ stuck' = [stuck EXCEPT ![p] = TRUE]
Fails(p, from, next) == Step(p, from, next) /\ UNCHANGED stuck

Add(p) ==
    /\ \/ Step(p, "add", "commit") /\ index' = file /\ UNCHANGED stuck
       \/ Fails(p, "add", "restore") /\ UNCHANGED index
       \/ Expires(p, "add") /\ index' \in {index, file}
    /\ UNCHANGED <<file, other, head, origin, registry, edit, original, draft, pre,
                   answer, disturbed, stagedLate, trusted, hands>>

(* git commit takes the whole index, not models.yaml alone: what a person  *)
(* has staged by now goes in as well.                                      *)
Commit(p) ==
    LET made == [by |-> p, rows |-> index, other |-> other, id |-> 0]
        Makes == /\ index # Committed \/ other = "staged"  \* else nothing to commit
                 /\ head' = Append(head, made)
                 /\ other' = IF other = "staged" THEN "clean" ELSE other
    IN  /\ \/ Makes /\ Step(p, "commit", "push") /\ UNCHANGED stuck
           \/ Fails(p, "commit", "reset") /\ UNCHANGED <<other, head>>
           \/ Expires(p, "commit") /\ (Makes \/ UNCHANGED <<other, head>>)
        /\ UNCHANGED <<file, index, origin, registry, edit, original, draft, pre,
                       answer, disturbed, stagedLate, trusted, hands>>

(* Mutant of Push: its return code is not looked at. *)
PushUnchecked(p) ==
    /\ Fails(p, "push", "finish")
    /\ origin' \in {origin} \cup {h \in {head} : IsPrefix(origin, head)}
    /\ UNCHANGED <<file, index, other, head, registry, edit, original, draft, pre,
                   answer, disturbed, stagedLate, trusted, hands>>

(* Mutant of Push: a rejected push does not reset the branch. *)
PushWithoutReset(p) ==
    /\ \/ Step(p, "push", "finish") /\ UNCHANGED stuck /\ IsPrefix(origin, head) /\ origin' = head
       \/ Fails(p, "push", "restore") /\ UNCHANGED origin
    /\ UNCHANGED <<file, index, other, head, registry, edit, original, draft, pre,
                   answer, disturbed, stagedLate, trusted, hands>>

(* git push: origin takes main when that only adds to it; when main is     *)
(* behind or equal the command succeeds and changes nothing.               *)
Push(p) ==
    LET forward == IsPrefix(origin, head)
    IN  /\ \/ /\ Step(p, "push", "finish") /\ UNCHANGED stuck
              /\ \/ forward /\ origin' = head
                 \/ IsPrefix(head, origin) /\ head # origin /\ UNCHANGED origin
           \/ Fails(p, "push", "reset") /\ UNCHANGED origin
           \/ Expires(p, "push") /\ origin' \in {origin} \cup {h \in {head} : forward}
        /\ UNCHANGED <<file, index, other, head, registry, edit, original, draft, pre,
                       answer, disturbed, stagedLate, trusted, hands>>

(* Mutant of Reset: one commit too many is taken back. *)
ResetPastParent(p) ==
    /\ Step(p, "reset", "restore")
    /\ head' = Front(pre[p]) /\ UNCHANGED <<file, index, other>> /\ stuck' = stuck
    /\ UNCHANGED <<origin, registry, edit, original, draft, pre, answer, disturbed, stagedLate, trusted, hands>>

(* Mutant of Reset: a soft reset, which keeps the index and the file. *)
ResetSoft(p) ==
    /\ Step(p, "reset", "restore") /\ head' = pre[p] /\ UNCHANGED <<file, index, other, stuck>>
    /\ UNCHANGED <<origin, registry, edit, original, draft, pre, answer, disturbed, stagedLate, trusted, hands>>

(* git reset --hard pre_head, whose own result is only reported. It throws *)
(* away what anyone else had not committed.                                *)
Reset(p) ==
    /\ \/ /\ Step(p, "reset", "restore")
          /\ head' = pre[p] /\ file' = Last(pre[p]).rows /\ index' = file'
          /\ other' = "clean"
          /\ stuck' \in {stuck, [stuck EXCEPT ![p] = TRUE]}
       \/ Expires(p, "reset") /\ UNCHANGED <<head, file, index, other>>
    /\ UNCHANGED <<origin, registry, edit, original, draft, pre, answer, disturbed, stagedLate, trusted, hands>>

(* The except clauses of apply_placement: the original bytes go back. *)
Restore(p) ==
    /\ Step(p, "restore", "done") /\ Reply(p, "error")
    /\ file' = original[p]
    /\ UNCHANGED <<index, other, head, origin, registry, edit, historyVars>>

(* Mutant of Finish: the parsed config is kept. *)
FinishKeepsRegistry(p) ==
    /\ Step(p, "finish", "done") /\ Reply(p, "ok") /\ UNCHANGED <<registry, stuck>>
    /\ UNCHANGED <<checkoutVars, edit, disturbed, stagedLate, trusted, hands>>

(* The push is through. Reading the new sha may still fail, and then the   *)
(* original bytes go back all the same; else the parsed config is dropped. *)
Finish(p) ==
    /\ \/ Step(p, "finish", "done") /\ Reply(p, "ok") /\ registry' = Unread /\ UNCHANGED stuck
       \/ Expires(p, "finish") /\ NoReply /\ UNCHANGED registry
    /\ UNCHANGED <<checkoutVars, edit, disturbed, stagedLate, trusted, hands>>

(***************************************************************************)
(* Everyone else.                                                          *)
(***************************************************************************)

(* Any reader of the registry loads the file when the cache is empty. *)
ReadRegistry ==
    /\ registry = Unread /\ registry' = file
    /\ trusted' = (trusted /\ InFlight = {})
    /\ UNCHANGED <<checkoutVars, putVars, disturbed, stagedLate, stuck, hands>>

(* set_host_dormant drops the parsed config of both files. *)
DropRegistry ==
    /\ registry # Unread /\ registry' = Unread
    /\ UNCHANGED <<checkoutVars, putVars, historyVars>>

ByHand ==
    /\ hands < MaxHand /\ hands' = hands + 1
    /\ UNCHANGED <<registry, putVars, stuck>>
Meddles ==
    /\ trusted' = FALSE
    /\ disturbed' = [p \in Puts |-> disturbed[p] \/ p \in InFlight]

HandEdit ==
    /\ ByHand /\ Meddles
    /\ file' \in Placements \ {file}
    /\ UNCHANGED <<index, other, head, origin, stagedLate>>
HandEditOther ==
    /\ ByHand /\ other = "clean" /\ other' = "edited"
    /\ UNCHANGED <<file, index, head, origin, trusted, disturbed, stagedLate>>
HandStageOther ==
    /\ ByHand /\ other # "staged" /\ other' = "staged"
    /\ stagedLate' = stagedLate \cup {p \in Puts : pc[p] \in {"prehead", "add", "commit"}}
    /\ UNCHANGED <<file, index, head, origin, trusted, disturbed>>
HandCommit ==
    /\ ByHand /\ Meddles
    /\ Dirty /\ index' = file /\ other' = "clean"
    /\ head' = Append(head, [by |-> Human, rows |-> file, other |-> other, id |-> hands'])
    /\ UNCHANGED <<file, origin, stagedLate>>
HandRestore ==
    /\ ByHand /\ Meddles
    /\ Dirty /\ file' = Committed /\ index' = Committed /\ other' = "clean"
    /\ UNCHANGED <<head, origin, stagedLate>>
HandPush ==
    /\ ByHand
    /\ IsStrictPrefix(origin, head) /\ origin' = head
    /\ UNCHANGED <<file, index, other, head, trusted, disturbed, stagedLate>>
HandPull ==
    /\ ByHand /\ Meddles
    /\ IsStrictPrefix(head, origin) /\ ~Dirty
    /\ head' = origin /\ file' = Last(origin).rows /\ index' = file'
    /\ UNCHANGED <<other, origin, stagedLate>>
OthersPush ==
    /\ ByHand
    /\ \E rows \in Placements :
          origin' = Append(origin,
                           [by |-> Human, rows |-> rows, other |-> "clean", id |-> hands'])
    /\ UNCHANGED <<file, index, other, head, trusted, disturbed, stagedLate>>

PutStep(p) ==
    \/ Preflight(p) \/ ReadOriginal(p) \/ ReadAndEdit(p) \/ WriteFile(p) \/ Verify(p)
    \/ ReadHead(p) \/ Add(p) \/ Commit(p) \/ Push(p) \/ Reset(p) \/ Restore(p) \/ Finish(p)
Others ==
    \/ ReadRegistry \/ DropRegistry \/ HandEdit \/ HandEditOther \/ HandStageOther
    \/ HandCommit \/ HandRestore \/ HandPush \/ HandPull \/ OthersPush

ConfigNext ==
    \/ \E p \in Puts : PutStep(p) \/ \E e \in Edits : Validate(p, e)
    \/ Others

ConfigSpec == ConfigInit /\ [][ConfigNext]_configVars

(***************************************************************************)
(* Properties.                                                             *)
(***************************************************************************)

(* A PUT answered ok that had the checkout to itself is on origin: its     *)
(* edit is in the commit it made there. (With a second PUT in flight it    *)
(* may not be: that one's failing commit resets the branch over this one's *)
(* commit, and the push that follows finds nothing to do.)                 *)
AckedIsPushed ==
    \A p \in Puts :
        answer[p] = "ok" /\ ~disturbed[p] =>
            \E i \in CommitsOf(p, origin) :
                Apply(edit[p], origin[i].rows) = origin[i].rows

(* No silent local-only divergence: a config-bot commit that is here and   *)
(* not on origin belongs to a PUT still in flight, or to one that was      *)
(* answered with an error after a git command failed it, and then, until a *)
(* person has been at the checkout, the file differs from the commit and   *)
(* every later PUT is refused.                                             *)
NoSilentDivergence ==
    \A p \in Puts :
        CommitsOf(p, head) # {} /\ CommitsOf(p, origin) = {} =>
            \/ p \in InFlight \/ disturbed[p]
            \/ answer[p] = "error" /\ stuck[p] /\ (hands > 0 \/ Dirty)

(* A config-bot commit changes its parent's placement by the edit the PUT  *)
(* asked for and by nothing else, whatever was dirty in the checkout when  *)
(* the PUT came in; and it takes other files along only when a person      *)
(* staged them between the PUT's check of the checkout and its commit.     *)
CommitsOwnEdit ==
    \A p \in Puts : \A i \in CommitsOf(p, head) :
        /\ ~disturbed[p] => head[i].rows = Apply(edit[p], head[i - 1].rows)
        /\ head[i].other = "staged" => p \in stagedLate

(* A PUT that fails with every git command answering leaves the checkout   *)
(* as it found it: the commit is gone, and models.yaml, the index and HEAD *)
(* agree again.                                                            *)
RollsBack ==
    [][\A p \in Puts :
          pc[p] = "restore" /\ pc'[p] = "done" /\ ~disturbed[p] /\ ~stuck[p] =>
              CommitsOf(p, head') = {} /\ ~OwnDirty' /\ file' = original[p]
      ]_configVars

(* Placement edits made one at a time never commit more models to the host *)
(* than its memory holds, although the budget is judged on the registry as *)
(* last parsed and the edit is made on the file.                           *)
BudgetKept ==
    trusted => \A i \in 1..Len(head) : Cardinality(head[i].rows) <= Ceiling

(* When no PUT is in flight the hub runs on the placement in the file: an  *)
(* edit that was rolled back is not in force, one that was answered ok is. *)
RegistryFollowsFile ==
    trusted /\ InFlight = {} => registry \in {Unread, file}
=============================================================================
