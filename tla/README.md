# A TLA+ verification of local-llm-hub

local-llm-hub is a FastAPI process (a *hub*) that runs on every machine of a
small fleet, supervises local model servers (llama-server, whisper-server,
TTS shims, ComfyUI), and serves OpenAI- and Anthropic-shaped requests for them,
forwarding to a peer hub when the model lives there. This directory holds TLA+
models of its concurrent core, the TLC runs that check them, and proofs that
TLAPS checks. Paths are those of the repository with `src/` in front
(`src/src/model_failover.py`).

## 1. Inventory

| Component | State | Operations | What is hard | What makes it correct |
|---|---|---|---|---|
| Failover engine, `model_failover.py` | per host: reachable, since; per model: owner; `_ENGINE_STARTED` | `failover_loop`, `failover_pass`, `decide`, `_ensure_running_local`, `_release_local` | every hub decides alone from lossy probes; awaits between probe, decision and action; placements and dormancy change the chain at run time; restarts forget everything | no flapping, additive contract with other starters, convergence |
| Cross-hub routing, `fleet/remote_proxy.py`, `chat_translation.py` | none of its own | `remote_base_url`, `resolve_openai_upstream` | the receiver resolves the owner again, by its own `models.yaml`; no hop count | no forwarding loop among hubs that agree on the chain, requests end, live owner reached |
| On-demand lifecycle, `on_demand.py` | `_LAST_USED`, `_IN_FLIGHT`, spawn locks | `ensure_ready`, `RequestTracking`, `idle_unload_pass` | worker threads, streams that outlive their handler, check-then-act on the process table | one process, no unload of a loading or used backend, VRAM reclaimed |
| Process table, `process/backend_process.py`, `process_supervisor.py` | `_STATES`: Popen or inherited pid | `start`, `stop`, `is_running`, `is_reachable`, `inherit_running_backends` | no lock; adoption across restarts | what runs is what the table says |
| Hub lifecycle, `server_lifecycle.py`, `hub_process_control.py` | background tasks, restart flag | startup, shutdown, restart | teardown while worker threads spawn | no orphan after a shutdown, survivors after a restart |
| Placement editing and drift, `config_write.py` | `models.yaml`, git index, HEAD, origin, the parsed registry, attempted shas | `apply_placement`, `commit_and_push`, `set_host_dormant`, the post-write sync, the drift loop | a git transaction command by command, time limits, several PUTs and a person in one checkout | what is acknowledged is pushed, what fails is rolled back, satellites converge |
| Fleet reconcile, `fleet/fleet_reconcile.py`, `fleet_maintenance.py` | maintenance windows | reconcile pass, arm, clear | two passes at once, minutes of waking and bootstrapping per host, hosts that fail meanwhile | every host that can be helped runs its models again |
| Peer routes, `fleet/remote_stats.py` | dial and liveness caches, pinned route, refresh mark | `dial_address`, `located_address`, background refresh | probes that block, raise or end after the network changed | a live address is dialled in the end |
| Actions runner, `fleet/actions_runner.py` | a lock per machine, cached GitHub answers | status, start, stop, install | state read over SSH and over GitHub, jobs handed out meanwhile | a stop spares a job that GitHub showed |
| Anthropic streaming, `translation/anthropic_sse.py`, `routes/anthropic_messages.py` | open block, next index, pending tool calls | text, tool fragments, finish, error, disconnect | fragments interleave, backends differ | well-formed event order |
| Diagnostics capture, `diagnostics/sampler.py` | active run, task handle, stop flag, rows | start, stop, one-shot, scheduled loop, housekeeping | awaits around module globals, worker threads that outlive a cancel, crashes | one timed capture, every row closed |
| Health snapshot and alerts, `health/` | cached body, sequence, cooldowns | read, mark dirty, alert | concurrent rebuilds | no stale answer served as fresh |
| Speech, `tts_engines/piper.py`, `parakeet_server.py` | pool of resident processes, their locks and line queues; one ASR worker | synthesis, one-shot fallback; transcription | threads share a process and a queue, deadlines, exits | no stray process, the answer is one's own |
| Images, `images/` | the ComfyUI process and its prompts | generate, poll, stop a wedged backend | several requests, one process, stops by name | a wedged process claims no second victim |
| Token history, `usage/token_history.py` | cells in memory and on disk | recalculate, carry forward, save | threads, pruned logs, restarts | history never shrinks |
| Event fan-out, `async_fanout.py`, `hub_observability.py` | queues, ring buffers | publish, subscribe | other threads publish | per-subscriber order |
| Login lockout, `login_lockout.py` | failure streaks | failure, success, eviction | boundaries | a streak is not forgotten early |
| Request translation, usage reports, admin UI, tray, CLI wrappers | files, browser | conversion, reports, pages | little concurrency | not a subject of this project |

How they interact: the request path calls `effective_owner` (a read of the
failover tracker), then either forwards or calls `ensure_ready` and enters
tracking; the failover engine, the idle watchdog, the admin buttons, boot
autostart and fleet reconcile all end in the same `backend_process.start` and
`stop`; the dormant overlay written by the admin page changes the chain every
one of them resolves. A placement edit on the write host changes the chains of
the whole fleet once the drift loop or the post-write sync has brought every peer
to it. The other services (streams, captures, snapshots, speech, images, runner,
token history) keep their state to themselves. `PROJECT.json` lists the hazards,
each at its line, with the properties that cover it.

## 2. Modules

| Module | Models |
|---|---|
| `OwnershipTracker` | `class OwnershipTracker` and `effective_owner` as operators: one hub, one model, a chain as a function from hosts to places |
| `FailoverHub` | one hub's failover loop and the world around it, placements included, as an action system over those operators |
| `FailoverFleet` | M hubs, each with its own tracker and its own copy of the chain, routing one request at a time |
| `OnDemand` | one on-demand model: requests, the idle watchdog, the operator, the process table |
| `ConfigWrite` | the write host's checkout, its placement PUTs, the people in it and the origin |
| `ConfigDrift` | how a commit of `models.yaml` reaches the peers: post-write sync and drift loop |
| `Reconcile` | the periodic reconcile pass, the pass after a cleared drain, drains, machines and hubs |
| `DialRoute` | one peer's dial and liveness caches, inline probes and the refresh thread |
| `ActionsRunner` | verbs and polls on one machine's runner service, GitHub's cached answers |
| `AnthropicStream` | one streamed `/v1/messages` response of any of the three adapters |
| `MessageStream` | abstract: what a client may see on the wire; `AnthropicStream` implements it |
| `Capture` | diagnostics captures of one hub, their rows, shutdown, crash and boot |
| `Snapshot` | one polled read answered from memory |
| `PiperPool` | the resident Piper processes of one voice |
| `ParakeetWorker` | the Parakeet server and its one worker |
| `ImageJobs` | local image requests and the ComfyUI processes under them |
| `TokenHistory` | recalculations of the token history, its memory, file and logs |
| `*_proofs` | lemmas and theorems, eight modules; `HubServices_proofs` holds those of `PiperPool`, `ConfigDrift`, `TokenHistory`, `ActionsRunner`, `ImageJobs`, `Snapshot`, `ParakeetWorker` and `DialRoute` |
| `MC*` | instances for TLC |

`FailoverHub` and `FailoverFleet` both extend `OwnershipTracker`, so what is
proved of `Decide` and `Observe` serves both.

### From code to model

*Tracker.* The code stores the moment a host entered its state and compares
`now - since` with the windows; the model stores the age. Ages are cut off at
`MaxAge`, which is at least both windows, so no comparison can tell the
difference. `owner` is the `_owner` entry (`NoHost` when absent). `Decide` follows
`decide` branch by branch. Candidates are the hosts that list the model in
`enabled:`; a chain orders some of them (`validate_placement` admits no others and
none twice), and `Placements` are the chains a placement may choose from.

*FailoverHub.* `failover_pass` awaits its probes, `is_running`, `start` and
`stop`, and every stretch between two awaits is an action: `PassBegin` (the
chain is read), `PassDecide` (observations and decision, over the chain read
before), `EnsureCheck`, `EngineStart` (`bp.start` in its thread), `EngineMark` (back
in the loop), `ReleaseCheck`, `EngineStop` (`bp.stop` up to the end of its wait),
`EngineClear` (`state.proc = None`, of whatever child is there by then) and
`EngineUnmark`. `inst` says who started the model's process here; `Running` is what
`is_running` can see (children and inherited processes, not foreign ones). Hand
starts, foreign starts, exits, dormant switches, placements and restarts fall
between any two of them. A placement changes the chain the next reader sees and
nothing else (`_invalidate_caches`): the tracker, the mark and the process stay, and
a pass under way goes on with the chain it read. A restart forgets tracker and
marks; backends survive it or not, and the port scan finds them or fails. The probe answers are any subset of the chain that
contains this hub, because peers and the network may do anything.

*FailoverFleet.* There a pass is one step (what a pass reads of its own hub
cannot change in it but for the overlay and the file, which `FailoverHub`
interleaves), so that several hubs fit. Candidates are hubs 1..N, hubs N+1..M only
forward. Every hub has its own `models.yaml`: a placement changes the `Writer`'s
while it runs, and a peer gets it by a later `Sync`, which restarts its hub. Until
then two hubs may hold chains that send a request back and forth. A
request sits at one hub and is served there or forwarded to that hub's owner; a
hub that is down fails the request. Each hub has its own dormant overlay,
because `machines.local.yaml` is local.

*OnDemand.* Requests take the steps of `ensure_ready` (probe, spawn lock, second
probe, clock refresh, start, poll), of tracking, and of their use of the
backend. `HandedOff` requests start their tracker before the generator that
finishes it, as streamed chat does. The watchdog's check, decision and stop are
separate steps, as is each part of `stop` (signal, wait, clearing the table
entry). Taking the spawn lock and the checks that follow it are one step: until
the spawn they only read, and nobody else can take the lock. A process is named
by a pid; a tracked name is not used for another process.

*ConfigWrite.* A PUT is a process that takes one git command, or one read or write
of `models.yaml`, per step, in the order of `apply_placement` and
`commit_and_push`: validation on the cached registry, preflight, the kept
original, the edit (which reads the file again), the write, the second look at
what is dirty, HEAD, add, commit, push, then the reset or the new sha. Every
command may succeed, fail, or pass its time limit with or without its effect; the
last goes to the `except` clauses, which put the original bytes back and reset
nothing. The file is the set of models placed on one host that holds `Ceiling` of
them, all other tracked files are one that is clean, edited or staged, histories
are sequences of commits. `git commit` takes the whole index: another file that is
staged by then goes in. There is no lock between two PUTs, and none in the model. A
person may edit, stage, commit, restore, push or pull in the checkout and others
may push, at any moment (`MaxHand` times in all).

*ConfigDrift.* A change is a number, and a sha is that number. The pass reads the
write host's sha once, books an attempt before it awaits the sync, and ignores
its result. Peers go down and come back, commits are made by hand and pushed later.

*Reconcile.* `machine` is off, on with its hub down, or serving. Look, wake,
bootstrap and start are steps of their own, any of which may fail or raise; the
drain is looked at once per host and pass, as in `reconcile_once`.

*DialRoute.* A probe is a sequence of addresses tried in order, one per step, so
that expiries, other probes and changes of the network fall in between; `Guess`
is what `dial_address` answers meanwhile.

*ActionsRunner.* `run_verb` is: lock or refuse, read the service over SSH, read
GitHub, run the command, poll until both agree. Every SSH command may fail with or
without its effect. GitHub's listing may show the runner offline or leave it out at
any moment (only its first 100 entries are read), and a stop is then allowed as if
it were idle.

*AnthropicStream.* The adapters' helpers are operators on a pair of translation
state and events made; a step reads one record or yields one event. `wire` is
what the client has. The refinement maps `sent` to `wire`; the state that runs
ahead of the wire has no counterpart. The loop that replays the pending tool calls is
written by what it yields (`ToolBlocks`): n calls make 3n - 1 events, a start, a
delta and a stop for each, numbered on from the first, and the last block is left
open for the finish to close.

*Capture.* A run's coroutine, its row in the store and its worker thread are
separate, because a cancelled await leaves the thread behind and a crash leaves
the row behind. The last write to a row may be refused by the store (`CloseRow`),
which the code only logs. `RequestRun` takes the lock that `RunCreated` gives back.

*Snapshot.* What a build saw is the number of control writes at its probe; the
body's age has the three classes `get` tells apart.

*PiperPool.* Lines in the process's queue name the utterance they complete; a
request ends its wait with whichever line comes first, as the code does. The write
to its stdin is a step of its own (`Speak`, then `Written` or `WriteRaises`) that
may never come, with the process's lock held; `close` waits for it too.

*ParakeetWorker*, *ImageJobs*, *TokenHistory* are as small as their comments say. A
process of ComfyUI is a generation; a day's cell is its token total.

## 3. Runs

| Run | Bounds | Result |
|---|---|---|
| `failover_hub` | 3 hosts list the model, this hub the second; chains 1-2-3, 3-1 and 1 alone; windows 1 and 2, passes 1 or 2 apart | passes |
| `hub_hand_started` | same | `StopsOnlyEngineStarted` violated |
| `hub_loop_exit` | same | `ConvergesWithoutRestart` violated |
| `failover_fleet` | 2 hosts list the model, 3 hubs; chains 1-2, 2-1 and 1 alone, placed on hub 1; windows of 1, 2 disruptions | passes |
| `fleet_agreement` | same | `LiveCandidatesAgree` violated |
| `on_demand` | 2 requests (one streamed), 2 process names, window 2, deadline 1, 1 disruption | passes |
| `on_demand_unload` | same, no streamed request | `UnloadSparesWork` violated |
| `on_demand_lease` | same as `on_demand` | `LeasesEnd` violated |
| `on_demand_escape` | same as `on_demand_unload` | `IdleStops` violated |
| `config_write` | 2 PUTs, 2 models, a host that holds 1, one thing done by hand or by others | passes |
| `hub_services` | per service: 2 tool indexes and 3 records; 2 captures; 2 readers, 2 build tasks, 1 write; 2 speech requests, 2 processes; 2 peers, 2 commits; 2 hosts, 1 breakdown; 1 caller and the refresh thread, 1 raise; 2 verbs, 1 job; 1 day, 2 threads, 2 tokens; 2 image requests, 2 processes | passes |
| `parakeet_late_answer` | 3 uploads, 1 replaced worker | `AnswerIsOwn` violated |

`hub_services` checks ten services in one run. They share no state, so the run
gives every behaviour a `focus`: one service moves and the others rest in an
initial state. The states explored are those of ten separate runs put together,
and an invariant of one service is evaluated in all of them.

What the passing runs show:

- `NeverBelowSelf`: a hub of the chain never sends a request down the chain past
  itself. A placement that moves this hub above the owner it tracks does not move
  the owner; policy auto does so within `failback_after_s` of the first pass that
  read the new chain, and the property holds again from then.
- `MarkMeansOwner`: between passes an `_ENGINE_STARTED` mark belongs to a hub that
  owns the model and routes to itself, so no hand-over leaves a process behind, one
  that a placement brings about included: the next pass that reads the new chain
  does it. No pass reads a chain of one host. When a placement or the dormant switch
  leaves another host alone in the chain, the marked process here stays, for good or
  until the chain grows again: a hazard of the code (`model_failover.py:312`) that
  the property's premise leaves out by name.
- `NoFlap`: after a failover, hand-back waits for `failback_after_s`, unless a
  placement or the dormant switch changed the chain in between.
- `SparesForeign`: the engine never ends a process that an earlier hub run left or
  that was started outside.
- `Converges`: once the world holds still, a hub whose loop runs ends up routing
  to the preferred live candidate, with a process here if that is itself and
  none of its own otherwise.
- `HopsBounded`, `NoForwardingLoop`: from when the hubs agree on the chain
  (`Agreed`) there is no forwarding loop, at any moment or over time, though no
  request carries a hop count. Before that there are loops: right after a placement
  that turns 1-2 into 2-1, the write host 1 forwards to 2, and 2, which has not been
  synced, back to 1; and a write host that moved itself up keeps its old owner for
  up to `failback_after_s` while synced peers forward to it. TLC finds both within a
  few steps when `Agreed` is taken out of the properties.
- `RequestEnds` (fleet), `RoutesToLive`: requests end, if the hubs come to agree, and
  once disruptions end every hub routes to the preferred live candidate of its chain.
- `OneProcess`: the spawn lock alone keeps the model to one process as long as
  nothing escaped the unlocked table.
- `UnloadSparesLoad`: the sweep never picks a backend that is loading for a request.
- `RequestEnds` (on-demand), `IdleUnloads`: every request gets its answer or its
  503, and a tracked backend is unloaded in the end.
- `AckedIsPushed`, `RollsBack`, `CommitsOwnEdit`: a PUT that had the checkout to
  itself and is answered ok is on origin, and origin never loses it; one that fails
  while git answers leaves no commit, nothing staged and the file as it found it; a
  config-bot commit differs from its parent by the edit asked for, and holds another
  file only if a person staged it after the PUT's last look at the checkout
  (`git commit` has no path, which the module's docstring, lines 19-22, passes over).
- `NoSilentDivergence`: a bot commit that stays local belongs to a PUT in flight or
  to one that was told of the error, and then every later PUT is refused until a
  person has been there.
- `BudgetKept`, `RegistryFollowsFile`: edits made one at a time keep the host's
  budget although judgement and edit read different copies, and with no PUT in
  flight the hub runs on the placement in the file.
- `AttemptSpentWell`, `PeersConverge`: the one attempt a peer gets per sha is wasted
  only by a failed sync or an unpushed commit, and a peer that stays up gets the
  write host's placement or has been tried for exactly that.
- `HealsTheFleet`: a host that can be woken and bootstrapped and is not kept
  drained has its models running in the end, whatever breaks on it or elsewhere.
- `DialsWhatAnswers`: once the network rests, so does the address dialled, and it is
  the LAN's if that answers.
- `StopSparesTheJob`: a stop cuts off only a job that began after that stop asked
  GitHub, or one on a runner that GitHub's answer showed offline or did not list.
- `ImplementsMessageStream`, `ContentUnlessDropped`: whatever the backend sends, the
  client sees a well-formed message, with content unless every tool call was
  dropped for want of a name.
- `ActiveIsTheRun`, `GracefulStopIsFinal`, `RunningMeansLive`, `StopEnds`: one timed
  capture, which is the one that stop acts on; no sample after a graceful stop; no
  row left running, but for a cancelled scheduled one-shot and a row whose last write
  the store refused; a stop that ends.
- `SeesItsWrites`, `OneBuildAtATime`: a poll never shows the services as they were
  before a control it follows, and a burst of polls spawns one rebuild.
- `NoStrayProcess`, `EveryRequestIsAnswered`: no timeout, crash or race leaves a
  Piper process nobody will use or stop, and every request is answered, unless a
  write to its process's stdin, its own or another's, is blocked for good by a process
  that lives and does not read.
- `NoSecondVictim`: no request is failed by a ComfyUI process that an earlier client
  was told is stopped.
- `HistoryNeverShrinks`: what is served for a day never goes down, but at a restart
  after a failed save.

The qualifiers in these properties are where the code stops promising.
`edit` and `Agreed` say how far a placement has come with the passes and the peers.
`disturbed` PUTs shared the checkout with another PUT or a person: two at once can
reset each other's commits, since nothing locks them. `stagedLate` ones had another
file staged by a person between their last look and their commit. `stuck` ones met a git
command that passed its limit. `trusted` excludes two PUTs at once, a registry read
during one, and hand edits of the placement. `faulty`, `cancelled`, `unclosed`,
`unsaved` and "nameless" calls name the failures the code answers with a log line only.

What the violations show (quoted in `PROJECT.json`, "findings"):

1. An engine mark outlives its process, and the engine then stops a hand-started
   one: engine start, exit, hand start, a placement that moves the model away, stop.
2. A hub that boots with a single-host chain never starts tracking when a placement
   or the dormant switch makes it longer.
3. Two live candidates that see each other up can disagree on the owner until the
   failback window passes, because a first decision has no hysteresis.
4. The idle sweep can stop a backend under a request that has just started.
5. A stream dropped before its first chunk keeps its in-flight mark for ever,
   because closing a generator that never ran does not run its `finally`.
6. `stop` clears the table entry of a child that another thread spawned while it
   waited, and that process is never unloaded. The window lies between the old
   child's death and the assignment that ends `stop`; it is short, but open.
7. A transcription that times out leaves its upload with the Parakeet worker, and
   the late line answers the next client's upload; from then on every answer is
   one behind until the worker is replaced.

### Why the bounds are enough

The tracker only compares places and compares ages with two windows. With this
hub in the middle of three it has a host it prefers and one it does not, and with
windows 1 and 2 and passes 1 or 2 apart the failback window may take one pass or
several, and failback takes longer than failover, as shipped (90 s and 600 s, probed
every 30 s). Between them the three chains turn the order round, take this hub out
and put it back, and leave the model to one host. In the fleet, two disruptions let
both candidates fail, one fail and one be missed, or a placement meet a failure; the
write host, another candidate and a pure forwarder are all the roles there are. The safety properties of both are proved for every size (section 5). On
demand, two requests contend for the lock, the second process name lets a child be
spawned while another dies or is untracked, and the deadline is shorter than the
window as in every shipped configuration (180 s, at least 5 min). One disruption
is one button press, restart or failed stop, at any moment: what it can leave
behind (a stranger, a cleared entry, an adopted process without a clock) is then
met by every interleaving of both requests and the sweep. Two disruptions and
three names were tried without liveness and found nothing more.

In `config_write` two PUTs are what it takes to disturb each other, a host that
holds one of two models is the smallest that can be overcommitted, and a checkout
that is dirty at boot plus one act by hand puts a stranger's change before,
between or after any two commands. Its seven properties are proved for every
size. In `hub_services` two of everything that contends contend; two commits let a
peer fall behind twice; one breakdown can hit the host at hand or the next; one
raised probe can be the inline or the background one; two tokens let a day grow
before and after its log is pruned; a second ComfyUI process is the clean one after
the wedged; three records are a text, a call and a finish in any order. Three
uploads let one time out, one be answered wrongly and one follow.

`failover_hub`, `config_write`, `hub_services` and `parakeet_late_answer` switch
the deadlock check off: a hub whose loop has returned in a world that holds still,
and requests that are all answered, have nothing left to do.

### Fairness

- `FailoverHub`: weak fairness of the loop's next step. The loop is one task that
  catches every exception and sleeps between passes. Nothing is assumed of the
  world; `Converges` speaks of executions in which it comes to rest (`<>[]stable`:
  peers stay, probes, starts and stops work, nobody interferes).
- `FailoverFleet`: weak fairness of each hub's loop and of serving or forwarding.
  A crashed hub need not come back, and a peer need not be synced.
- `OnDemand`: weak fairness of every started request, the watchdog, the operator's
  call once made, and of time. A backend need not finish loading, and a
  request need not arrive.
- `ConfigDrift`: weak fairness of the loop's pass, of each look at a peer and of
  each sync once begun (SSH has a time limit). Nothing of peers or people;
  `PeersConverge` speaks of a peer that is up in the end and a hub that no longer
  restarts.
- `Reconcile`: weak fairness of the loop, its steps, expiring drains and booting
  machines; and, as an assumption about the world and not the code, strong fairness
  of a wake, a bootstrap and a start that work on the hosts that can be helped:
  tried again and again, they succeed at last.
- `DialRoute`: cache entries expire, a probe's next step comes (connects have a time
  limit), and the hub goes on dialling. The network is free until it rests.
- `PiperPool`: threads that were started run, locks are handed on and the wait for a
  line times out. Nothing is asked of the process, not even that it reads: a write
  to it (`Written`) need never return.
- `Capture`: the wait of `stop_run` ends, by the loop's end or its grace period. A
  tick may be wedged for ever.

In `hub_services` the fairness of a pass that could begin at any moment is asked
only where its service has the focus.

## 4. Abstractions

- One model at a time. Models share host observations, which are the same
  function of the probes for each; a pass that waits for one model's action delays
  the next, which the arbitrary time between passes covers.
- This hub is never dormant in its own overlay: `set_host_dormant` refuses it.
- A placement changes the chain. It may also switch the model to on demand, which
  takes the engine's hands off it; that is not modelled.
- `bp.start`'s own look at the process and its spawn are one step in `FailoverHub`;
  `OnDemand` separates them. So does the late `state.proc = None` of an operator's
  stop, which is in `OnDemand` only.
- In the fleet a peer reads a new file only by a sync, which restarts its hub. A
  pull by hand whose file a peer reads again without a restart is not modelled.
- The world comes to rest (`Stabilise`) between two passes, not in the middle of one.
- A Piper process whose stdin cannot be closed is not terminated by `close`; in the
  model `close` ends a live process.
- Time passes between passes (failover) or in ticks (on demand); clock steps
  backward are not modelled.
- Prompts, answers, addresses, log and YAML text are left out.
- One checkout file and one host's budget stand for `models.yaml`; branches are one
  reason for a refused preflight.
- A host's desired models start as one; a peer's pull and restart are one step.
- `stable`, `live`, `sinceFailover`, `touched`, `edit` and `sinceRead` (of the two
  failover modules), `hops`, `disruptions`, `lostTrack`,
  `disturbed`, `stuck`, `stagedLate`, `trusted`, `hands`, `faulty`, `cancelled`,
  `unclosed`, `late`, `visible`,
  `unsaved`, `asked`, `cut`, `told`, `since` do not exist in the code: they name
  assumptions, history and bounds.

## 5. Proofs

TLAPS checks the following for every number of hosts and hubs, every set of
placements, every write host, windows and policy that satisfy the named assumptions
(`ChainAssumption`, `PlacementAssumption`, `WindowAssumption`, `PolicyAssumption`,
`SelfAssumption`, `FleetAssumption`, `DisruptionAssumption` and the assumption each other module
names; all of them hold of every configuration the code accepts, with `MaxAge`,
`MaxHand` and the other `Max` constants bounds of the models).

`OwnershipTracker_proofs` has the lemmas on the operators: `Observe` yields
observations, `Decide` yields a member of a non-empty chain, what dormancy leaves
of a chain is one, a candidate observed up is never passed over for a lesser one, a hand-back target has been up for the
failback window. `SettledDecision` is the safety half of `Converges` and `RoutesToLive`:
when every candidate has been up or down for its whole window, `Decide` under
policy auto picks the preferred one that is up, whatever owner it is given.

- `TypeCorrect`, `FleetTypeCorrect`: type invariants. The one of `FailoverHub`
  needs `PassInv` (what the chain of a pass in progress looks like).
- `HubNeverBelowSelf`: from `EditInv`, which follows the last placement. Once a
  pass has read it the owner is in its chain, and this hub has been up in its own
  eyes ever since, because the chain of every pass that has a place for this hub
  contains it (`Fits`), whatever the dormant switch does meanwhile. So an owner below
  this hub is given up within `failback_after_s`, and after that none is
  chosen again.
- `HubMarkMeansOwner`: from `MarkInv`, which follows the mark through the steps of a
  pass: a marked hub that has lost ownership is on its way through the release steps.
  With `EditInv` an owner that is this hub is also where it routes.
- `HubSparesForeign`: from `InheritedInv`: no mark, and no stop under way, survives
  beside an inherited process, because a restart clears the marks and only a start from nothing sets one.
- `HubNoFlap`: from `AgeInv`, which ties every age of an up candidate above the
  owner to the time since the last failover: it cannot be older than the failover,
  because at that moment it was not chosen.
- `FleetNoForwardingLoop`: from the fleet's `TrackerInv`: a hub tracks no owner
  outside its own chain and, once a placement on it has settled, none below itself. A
  hub of the agreed chain routes to itself or strictly up, one outside it routes into
  it, so the most preferred host of a set that forwards only to itself would have to
  leave it.
- `FleetHopsBounded`: from `Descent`, which ties the hops made since the hubs agree to
  the place reached: in place p after k forwards, p + k is at most N + 1.

`OnDemand_proofs`:

- `OnDemandTypeCorrect`, `OnDemandOneProcess`: one process follows from an invariant
  about the holder of the spawn lock: until `lostTrack` says that something escaped,
  every live process is the tracked one, and only the lock's holder, having seen
  none, adds one.
- `OnDemandUnloadSparesLoad`: a loading request has set the clock on taking the lock
  and polls no longer than the deadline, so the clock is younger than the window
  when the sweep decides.

`ConfigWrite_proofs`:

- `ConfigTypeCorrect`: `ConfigTypeInv`, which adds to the types that histories are
  never empty and what a PUT keeps belongs to its stage.
- `ConfigKeepsBudget`, `ConfigRegistryFollows`: `TrustInv`. While `trusted` there is
  at most one PUT in flight; the invariant says for each stage of it what file, index,
  draft and registry are relative to the committed placement, and that the draft
  fits the budget, which the judgement on the registry gives because registry and
  file agree when a trusted PUT begins.
- `ConfigAckedIsPushed`: `AckInv` carries the edit of an undisturbed PUT from draft to
  file, index, last commit and origin; origin only grows.
- `ConfigCommitsOwnEdit`, `ConfigRollsBack`: `OwnInv`, of two parts. Every history
  anywhere (HEAD, origin, a kept `pre_head`) is one that was there before or adds
  one commit to it, so that a bot commit's parent never changes; and each stage of an
  undisturbed PUT is tied to the committed placement, so that a reset and a restore
  give the same file.
- `ConfigNeverDivergesSilently`: `DivergeInv`, on top of `OwnInv` and `AckInv`. The
  commit of an undisturbed PUT that is over is nowhere in any history here (`Absent`,
  and then it stays away), or on origin, or *stranded*: the PUT was answered with an
  error after git failed it and, as nobody has touched the checkout since, the file
  is not what is committed, so no PUT gets past its preflight to move HEAD or the file
  again. For that the invariant says of every PUT between its commit and its end that
  its commit is not there yet or what is staged differs from the bytes it will restore.

`AnthropicStream_proofs`:

- `StreamTypeCorrect`, `StreamImplementsMessage`: `StreamInv`. What is on the wire and
  what is made but not yet yielded are one sequence of events, and that sequence is
  *sound*: every event may follow those before it. While the adapter reads, the
  translation state agrees with the sequence (`InProgress`): the blocks below `next`
  were opened once each and the block `open`, if any, is the one not stopped. Yielding
  moves an event from one part to the other, so a step either yields an event that
  may follow the wire or leaves the wire alone. That the replay of n tool calls is sound
  is an induction over n. The library's induction theorem cannot be used, so it goes
  by counting: a set of numbers that has 0 and every successor has no gap (`NoGap`), or
  the numbers below the gap would be as many as their successors.
- `MessagesCarryContent`: the same invariant ties a stop that has been made to a block
  that was opened; the wire may not hold all that was made, but in a sound sequence
  every block opens before the stop (`StopIsLast`), so a client that has the stop has
  the block.

`Capture_proofs`: from an invariant that ties `_active`, the lock, a row's status and
its coroutine.

`HubServices_proofs`: eight components whose inductive invariants are short; each
says what is known between a check and its use. A dropped Piper process is held by the
thread that closes it; a sync attempt in progress is not yet counted; what a
recalculation carries is at least what it read, and it is alone in doing so; a
job that runs when a stop is about to be carried out is younger than its question to
GitHub, or the answer did not show the runner online; a generation that a client was told is stopped is not the backend; a
snapshot's build has a number of at most `_seq`, and one of the current number saw at
least what was visible when its readers began. `DialMarkMeansRefresh` is what
`DialsWhatAnswers` needs of safety: the refresh mark is set exactly while the thread
runs, so it can neither pin a route for good nor let in a second thread.

### What holds where a promise fails

Four of the promises that TLC refutes are proved of the behaviours in which what
breaks them is ruled out. So nothing but what the last column names can break them:

| Theorem | Promise | Holds when |
|---|---|---|
| `HubStopsItsOwn` | `StopsOnlyEngineStarted` | no process ends, but by the engine, between the engine's spawn and the release of its mark (`LastingSpec`) |
| `FleetDisagreesWhileYoung` | `LiveCandidatesAgree` | nobody uses the dormant overlay (`NoOverlaySpec`), policy auto, and the preferred of the two routes has been up for the window in the eyes of the hub that routes elsewhere |
| `OnDemandLeasesEnd` | `LeasesEnd` | no request was dropped before its first chunk |
| `PatientAnswersAreOwn` | `AnswerIsOwn` | no request gives up waiting for its line (`PatientSpec`); conversions may fail, the worker may die and be replaced |

Each hypothesis restricts what happens and nothing else; the steps of the
components are those of the specification. The invariants behind them (`OwnInv` of
the hub, `YoungAbove`, `CountInv`, `InThePipes`) are in the proof modules.

Only model-checked: liveness, because fairness and ENABLED are out of the prover's
reach (`Converges`, `RequestEnds` of the fleet and on demand, `RoutesToLive`,
`IdleUnloads`, `StopEnds`, `EveryRequestIsAnswered`, `PeersConverge`, `HealsTheFleet`,
`DialsWhatAnswers`). Every safety invariant and every action property of the passing
runs is proved for all values of the constants.

## 6. Not modelled

- Request and response translation that is not streamed, usage reports, log parsing,
  YAML and markup: conversions of data, with no state between calls.
- Login lockout and event fan-out: sequential under one lock, or best-effort by design.
- The health watch and alert cooldowns, the terminal and console pages, the session
  files: small state, one task each.
- Shutdown of backends against worker threads still in `start`
  (`server_lifecycle.py:84`): it needs the process table without the spawn lock.
- Update and restart verbs of a peer beyond the SSH sync; dormant hosts in the
  reconcile pass.
- The scripts that lint the repository (`scripts/*_ratchet.py`), the installer, the
  CLI wrappers, the tray and the browser code. They are most of the repository's
  lines, run to completion alone, and keep nothing that another actor could disturb;
  the map's share of the implementation is small for that reason.

What would come next: the teardown at shutdown; an abstract lease specification
(every unload happens with no lease held) that `OnDemand` would refine if the stop
were made under the lock; the alerts' cooldowns.
