----------------------------- MODULE MCHubServices -----------------------------
(***************************************************************************)
(* The hub's services that share no state: a response stream, the          *)
(* diagnostics captures, a polled snapshot, the Piper processes, the drift *)
(* loop, the reconcile loop, a peer's dial route, a peer's runner service, *)
(* the token history and the image backend. Every behaviour explores one   *)
(* of them, its focus; the others rest in an initial state. Since none     *)
(* reads another's state nothing is lost, and the state space is the sum   *)
(* of theirs and not the product.                                          *)
(***************************************************************************)
EXTENDS AnthropicStream, Capture, Snapshot, PiperPool, ConfigDrift, Reconcile, DialRoute,
        ActionsRunner, TokenHistory, ImageJobs

VARIABLE focus

Services == {"stream", "captures", "snapshot", "piper", "drift", "reconcile", "dial", "runner",
             "tokens", "images"}

(* A component with several initial states rests in one of them. *)
Resting ==
    /\ focus = "stream" \/ upstream = "claude"
    /\ focus = "reconcile" \/ (runs = Hosts /\ \A h \in Hosts : machine[h] = "serving")
    /\ focus = "dial" \/ answers = {}
    /\ focus = "runner" \/ service = "running"

ServicesInit ==
    /\ focus \in Services
    /\ StreamInit /\ CaptureInit /\ SnapshotInit /\ PiperInit /\ DriftInit /\ ReconcileInit
    /\ DialInit /\ RunnerInit /\ TokenInit /\ ImageInit
    /\ Resting

Rests(name, vars) == IF focus = name THEN TRUE ELSE UNCHANGED vars

Focus(name) ==
    /\ focus = name /\ UNCHANGED focus
    /\ Rests("stream", streamVars) /\ Rests("captures", captureVars)
    /\ Rests("snapshot", snapshotVars) /\ Rests("piper", piperVars)
    /\ Rests("drift", driftVars) /\ Rests("reconcile", reconcileVars)
    /\ Rests("dial", dialVars) /\ Rests("runner", runnerVars)
    /\ Rests("tokens", tokenVars) /\ Rests("images", imageVars)

StreamMoves == Focus("stream") /\ StreamNext
CaptureMoves == Focus("captures") /\ CaptureNext
SnapshotMoves == Focus("snapshot") /\ SnapshotNext
PiperMoves == Focus("piper") /\ PiperNext
DriftMoves == Focus("drift") /\ DriftNext
ReconcileMoves == Focus("reconcile") /\ ReconcileNext
DialMoves == Focus("dial") /\ DialNext
RunnerMoves == Focus("runner") /\ RunnerNext
TokenMoves == Focus("tokens") /\ TokenNext
ImageMoves == Focus("images") /\ ImageNext

ServicesNext ==
    \/ StreamMoves \/ CaptureMoves \/ SnapshotMoves \/ PiperMoves \/ DriftMoves
    \/ ReconcileMoves \/ DialMoves \/ RunnerMoves \/ TokenMoves \/ ImageMoves

servicesVars == <<focus, streamVars, captureVars, snapshotVars, piperVars, driftVars,
                  reconcileVars, dialVars, runnerVars, tokenVars, imageVars>>

(* The components' fairness. A loop that could start a pass at any moment  *)
(* must do so only where it has the focus.                                 *)
ServicesFairness ==
    /\ CaptureFairness /\ PiperFairness /\ PassEnds /\ SweepWorks /\ ProbesEnd
    /\ WF_driftVars(focus = "drift" /\ BeginPass)
    /\ WF_reconcileVars(focus = "reconcile" /\ BeginLoopPass)
    /\ WF_dialVars(focus = "dial" /\ DialsOn)

ServicesSpec == ServicesInit /\ [][ServicesNext]_servicesVars /\ ServicesFairness

(***************************************************************************)
(* The instances.                                                          *)
(***************************************************************************)
MCToolIndexes == {0, 1}
MCSweep == <<"here", "peer">>
MCPeerOnly == {"peer"}
=============================================================================
