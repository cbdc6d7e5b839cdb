# PhotonPort in TLA+

PhotonPort is a macOS sender that streams a virtual display to an iPad or
iPhone over Wi-Fi (Bonjour, TCP with TLS-PSK) or a cable (usbmuxd). This
directory holds TLA+ models of the sender and of the scripts around it (evidence,
cross-repository matrix, readiness, update feed), the TLC configurations that check
them and TLAPS proofs about them. Definitions carry the names the code uses;
`PROJECT.json` maps each one to the source lines it stands for.

    tlc -workers 2 -config conn.cfg MCSenderConnection     # and so on, see Runs
    tlapm SenderConnectionProofs.tla                        # and every other *Proofs module

## 1. The system

| Component | State it keeps | Operations | Talks to | What is hard |
|---|---|---|---|---|
| **Sender connection** (`Mac/MacSender.swift`) | `connection`, `connectionReady`, pending and bound session, `dialGeneration`, `everConnected`, `disconnectedSince`, deadlines | `connect`, `connectTCP`, `connectUSB`, `becomeReady`, `receiveControl`, `handleControl`, `activateBoundSession`, `scheduleReconnect`, `scheduleWatchdog`, `forceReconnect`, `stop` | Network.framework callbacks, async usbmux dials, the controller (`onDisconnected`, `onHello`) | late callbacks of replaced connections, two retry chains, deadlines nobody armed, stop against everything in flight |
| **Video path** (`MacSender.swift`) | `pendingEncodes`, `pendingSends`, `needsKeyframe`, the compression session, the last frame | `reserveFrameAdmission`, `encode`, its output handler, `sendFramed`, `setupEncoder`, `reconfigure` | capture callbacks, VideoToolbox, the connection | completions of an earlier generation, a rebuild on another task, gates that leak and shut for ever |
| **Sender controller** (`Mac/OpenSidecarMacApp.swift`) | `sessions`, `SessionLifecycleState`, `usbDevices`, `discovered`, `installIDByUDID`, opt-outs and remembered devices | `connect`, `end`, `disconnect`, `disconnectAll`, `restartAll`, `autoConnect`, `dedupeSessions`, the sender callbacks | user, usbmux watcher, Bonjour, one sender per session | one receiver reachable over two transports, a session that is still ending, identity learned late |
| **Capture lifecycle** (`MacSender.swift`) | `stream`, `cgStream`, `virtualDisplay`, `reconfiguring`, the hello's continuation, recovery timers | `start`, `setupExtend`, `startCapture`, `reconfigure`, capture recovery | the queue, `stop()`, ScreenCaptureKit | awaits between teardown and setup, a rotation during a rebuild, recovery during a reconnect |
| **Audio** (`MacSender.swift`, `Mac/SystemAudioTap.swift`) | audio connection and handshake, queue, `pendingAudioSends`, PCM slots | `dialAudioConnection`, `drainAudioQueue`, slot claim and release | realtime thread, queue, main session keys | a lock-free pool, redials against a handshake in progress |
| **USB records and preface** (`Mac/Pairing.swift`, `Mac/Usbmux.swift`) | token, stage, sequence numbers | client and server preface, record framing | usbmuxd socket | strict order, 5 s deadline |
| **usbmuxd watcher** (`Mac/Usbmux.swift`) | attachment generations | attach, detach, name lookup | controller | a lookup that outlives its attachment |
| **Pairing** (`Mac/Pairing.swift`) | exchange stage, Keychain, receiver index | commit, reveal, store, forget | controller, UI | resume exactly once, two stores updated in turn |
| **Discovery** (`OpenSidecarMacApp.swift`) | browser generation, backoff | start, restart, publish | controller | results of a cancelled browser |
| **Input** (`Mac/InputInjector.swift`, `Mac/ScrollEventCoalescer.swift`) | pending scroll, timer, generation | enqueue, drain, stop | control messages, window server | a timer firing while it is stopped |
| **Test pattern, virtual display** | windows, retry generation | show, hide | capture | a retry loop against hide |
| **Protocol parser, session cryptography, EDR conversion, views** | none that outlives a call | validation, key schedule, pixel arithmetic | | pure functions |
| **Evidence lifecycle** (`scripts/evidence/`) | six create-once records, the files of Lock-A and Lock-B, a release and a disposal context | allocate, acquire, close, prepare and finalize the release, dispose | file system, `flock`, git, the supervisor that holds Lock-B | scripts that run at once, a kill between two system calls, a failing fsync |
| **Cross-repository matrix** (`run-cross-repo-matrix.py`, `verify-cross-repo-compatibility.py`) | failures, receipts, pins of one run; its directory | bind, suites, builds, exchange, three compatibility checks, report | three live checkouts, swift, xcodebuild | checkouts edited during a run of minutes, a failure among sixty commands, files of an earlier run |
| **Sealed matrix** (`evidence/run-sealed-cross-repo-matrix.py`, `seal-source-root.py`, `verify-sealed-matrix.py`) | seals and attestations, an evidence directory | seal, admit, run inside a sandbox, recheck, report, verify | the matrix runner, Lock-B, the lifecycle records | disturbances that are undone between two checks, a kill half way, two programs that must agree on a report |
| **Receipts and readiness** (`evidence/verify_receipt.py`, `verify-ios-transition-readiness.py`) | receipt files, one report | decode, validate, verify, six gates between two snapshots | issuers, the repositories, the clock | replays, expiry, a commit between two readings |
| **Release and update feed** (`release-mac.sh`, `.github/workflows/pages.yml`, the three appcast scripts) | `dist/`, releases, the Pages site | build, attach, publish, select, fetch, verify, deploy | GitHub, Sparkle's tools | assets replaced one by one under a deployment, events in any order |
| **R01 validators** (`evidence/verify-r01-fresh-build.py`, `validate-r01-runtime-rollback.py`, `validate-r01-generation-classification.py`) | a result file | read a request, a root of evidence and its receipt; judge; write | the campaign that fills the root, CI, the iOS checkout | pieces of several campaigns, a file replaced between two reads |
| **R01 mutation run, provenance tooling, device capture** (`scripts/`) | none that outlives a run | | | sequential |

Threads. All of a sender's connection and encode state lives on one serial
dispatch queue, `sender.video`; the controller lives on the main actor. Inside
either one a handler is atomic, and the models make it one step. What is not
atomic, and is interleaved: the order in which callbacks, timers, dial results
and user actions reach the queue; `stop()`, which sets a flag and then queues
`stopOnQueue`; `reconfigure()` and `setupEncoder()`, which run on a Swift task
and write fields of the queue; and the senders' answers to the controller. The
scripts are processes that share only the file system: between any two of their system
calls another script may run, a developer may edit a checkout, or a signal may end them.

What would make each part correct:

* *connection*: nothing is sent on a stream that is not authenticated; one chain
  of dials; late callbacks are inert; every outage is measured from its own
  start and ends in streaming again or in the controller being told; stop is
  final.
* *video path*: the gates count what is in flight and no more, the backlog is
  bounded, the gates reopen, and every session and every request gets a
  keyframe.
* *controller*: one session per receiver, a tap ends in the chosen session, an
  opt-out is kept, a restart rebuilds what it tore down.
* *evidence lifecycle*: the records are a chain that is never undone, Lock-B goes
  only by the handoff, a worktree is removed at most once and only under a claim,
  and what a crash left half done stays visible.
* *capture lifecycle*: what is recorded matches its encoder and display, the last
  rotation wins, recovery goes on until capture is back, and stop leaves nothing.
* *matrices*: a pass means that every command passed and that what was built, checked
  and hashed is the tuple; a run that nothing spoiled is not lost.
* *R01 validators*: what passes is one campaign, and a production key signed for it.
* *readiness*: an eligible report rests on receipts for the gates, the attempt and the
  commits it names.
* *update feed*: what is served is for the release it should be for, and signs the DMG.
* *the parts not modelled yet*: listed hazard by hazard in `PROJECT.json`.

## 2. Modules

| Module | What it is |
|---|---|
| `SenderConnection` | the connection machine: one action per handler of the queue |
| `SessionContract` | what a sender promises its surroundings; the abstract specification |
| `SenderConnectionProofs` | inductive invariant, safety theorems, the refinement |
| `FrameAdmission` | the video path, with the connection reduced to its effects on it |
| `FrameAdmissionProofs` | inductive invariant and safety theorems of the video path |
| `SenderController` | which device is streamed to over which transport |
| `SenderControllerProofs` | no twins, takeovers honoured, opt-outs kept |
| `CaptureReconfigure` | the capture pipeline from one await to the next |
| `CaptureReconfigureProofs` | its safety and action properties |
| `EvidenceLifecycle` | the evidence scripts as concurrent processes over one file system |
| `EvidenceLifecycleProofs` | its four safety properties, for any number of scripts |
| `MatrixRun` | the matrix runner over live checkouts, with the compatibility verifier |
| `SealedMatrix` | a matrix run over sealed roots, and its verifier |
| `MatrixProofs` | the safety of both matrices |
| `R01Evidence` | the three R01 validators over an evidence root that is rewritten |
| `R01EvidenceProofs` | what a passed validation means |
| `ReceiptReadiness` | what a receipt is worth, and the readiness run that asks |
| `AppcastFeed` | the update feed from a release build to Pages |
| `ReleaseGatesProofs` | the safety of the readiness run and of the feed |
| `MC*` | what TLC runs; `MCVideoPipeline`, `MCMatrixRuns` and `MCReleaseGates` put independent modules in one run |

### SenderConnection

`Init` is the state `start()` leaves: `stopped` false, one `connect()` queued, the
watchdog armed. `connection` is `self.connection`; `net[c]` is what
Network.framework does with an object (`dialing`, `ready`, `failed`, `closing`
after `cancel()`, `closed` after `.cancelled`, `free` once nothing refers to it),
so a replaced object still delivers its callbacks, out of order with those of its
successor. `currentDial` stands for `dialGeneration`: an asynchronous USB dial
reports as current only if no newer generation began. `pendingSession` and
`boundSession` are the session objects, named by the connection their hello came
in on. `retries` counts the `asyncAfter` blocks that will call `connect()`.

`ScheduleReconnect(s, ready, since)` is the whole of `scheduleReconnect()`, the
early return of a stopped sender and the grace branch included; the handlers that
call it pass what they left in the fields it reads. `Stop` sets the flag,
`StopOnQueue` is the block it queues. Time is reduced to what the code compares: a
deadline is not running, running or passed.

Keys, proofs and framing are abstracted to their verdict. `AcceptVerified` needs a
session opened on the same object, because the proof binds the transcript.

### FrameAdmission

`CaptureFrame` is reserve, convert, admit and encode, one block of the queue.
`encodes` lists the frames inside VideoToolbox whose output handler belongs to the
current generation, each with whether it was forced to be a keyframe; `sends`
counts sends on the current connection whose completion is due. A completion of an
older generation or connection changes nothing, so dropping it from the model is
exact. `SetupEncoder` is a data race in the code (a plain store from a task against
the queue's decrement): the model lets the store win or the handler's stale value
survive.

`Opened`, `Bound`, `Unusable`, `ScheduleReconnect`, `Overlapped`, `Stop` and
`StopOnQueue` are what `SenderConnection` does to these fields, in any order that
module allows.

### SenderController

One event is one step of the main actor. `ctl` is the controller's state; `EndAll`,
`Create`, `Connect`, `Dedupe` and `AutoConnect` are functions from one `ctl` to the next,
so that an event that calls several of them is still one step. Where the code loops over
sessions or targets the model treats the set at once: `end()` of one session does not look
at another, and cables do not cover each other. The exception is the last completion of a
restart, whose list may hold both sides of a device: `Reconnect` takes them in either
order. `lifecycle` is `SessionLifecycleState`; `.connected` and `.failed` are one value,
`settled`, since the controller treats them alike. `completion` is the closure handed to
`end()`, as the three things it can do. `Slots` are session objects, each with the target
it was made for; as no two sessions share a target, a session that leaves and its successor
need two objects and no more. A `start()` that returns after its session was ended finds
that `owns()` refuses it, and is left out.
Opt-outs, remembered devices and install ids start arbitrary: they are persisted.
`autoConnectEnabled` is arbitrary as well and never changes: it is `-autostart` of the
command line, and without it `AutoConnect` returns before it looks for twins or dials.

### EvidenceLifecycle

`records[l][s]` is the file of state `s` in lifecycle directory `l`: absent, torn
(created, not completely written) or full. `mutex[l]` is Lock-B's file, `supervisor[l]`
the process that holds it, `context[l]` the release context, `disposalContext` the one
context a registry has for disposals, `registryLock` the holder of Lock-A.

A script is a record `run[p]`: which script, on which lifecycle, at which system call,
towards which state. `Allocate`, `Acquire`, `Close`, `Prepare`, `Finalize` and `Dispose`
are what a script asks for before its first write; `Check`, `Create`, `Write` and `Sync`
are `_run()`, which every script goes through, and the others are the calls before and
after it. `Held` is what `flock` on a fresh descriptor sees: the lock belongs to the
open file description, so a script that inherited the supervisor's descriptor keeps it
locked after the supervisor closed its own. `Killed` ends a script anywhere and drops
its descriptors. Power loss is not modelled: files are what other processes see.

### CaptureReconfigure

`build` is the one Swift task that builds: by whom (`start`, a rotation, recovery), at
which await, for which geometry. One step is the code between two awaits, so
`TearDownCapture` to `StartStream` interleave with hellos, lost sessions, `stop()` and
timers. `waiter` is the continuation of `waitForHello`, `rotations` the tasks that sleep
300 ms, `timers` and `rechecks` the two halves of `scheduleCaptureRecovery`. `CGDisplayStream` and
ScreenCaptureKit's stream are two variables, since code that looks at `stream == nil`
sees only one of them. Two ghosts mark what the code does not claim: `missed`, a hello
that asks for no build, and `overtaken`, a `stop()` that came before `start()` or inside
a build.

### MatrixRun

One action per stage of `main()`. `tree` is the live checkouts, `committed` what the
expected commits hold; the pin (or, of the protocol checkout, contract and vectors) is
the expected bytes, the same value formatted otherwise, another value, or malformed.
`Refusal` is `run()` of the compatibility verifier, which the runner starts three times:
on the live trees, on a clone with a changed pin, on three fresh clones. `Works` and
`Breaks` are the two ways a command ends. `WriteReport` and `ReportUnbound` differ in a
local of the code: `positive_suite_covered` is assigned only when no positive suite
failed.

### SealedMatrix

`seal` and `live` are the two create-once files of `seal-source-root.py`, `stage` the
place in the sealed runner, the directory is `inputs`, `inner`, `copied`, `sealedReport`
and `binding`. A root has a content and a version that stands for its modification times,
which is how `source_manifest` sees an edit that was undone. Lock-B is locked through one
description that the supervisor shares with what it starts: `Unlock` and `Relock` are
whoever holds it, and `ProbeMutexes` is `require_held_mutexes`, whose own `flock` locks
again the first Lock-B it finds unlocked before the run dies of it. The ghost `relocked`
says that Lock-B was locked again after the inner command saw it and before the last
check. `VerifierAccepts` is `verify-sealed-matrix.py`, reduced to the bindings between
the files.

### R01Evidence

`tool` says which validator the evidence root is for; the three share the shape of a run
and nothing else. A file is its `id`, which stands for its hash, and what its writer saw
of the root: `RunCommand`, `ObserveAgain`, `ProveAgain` and `Attest` are the campaign, which
may redo any piece at any time. `StepsOf` is the order in which a validator reads,
`ReadNext` one read with every check made on it (`FreshAccepts`, `RollbackAccepts`,
`GenerationAccepts`), and `seen` what was read. `RootsAccepted` looks at the checkout once,
before the first read. The rollback validator goes on after a piece it refuses and writes
over its last result (`WriteOver`); the others end and create theirs once (`WriteOnce`), so a
result torn by a kill stays. Contents that were overwritten are never put back. `Signers`
are CI, another production issuer and a test key: the fresh build and the generation ask for
CI, while `signed_observation` expects no gate, kind, attempt or issuer, so that the rollback
takes a receipt of any gate under any production key.

### ReceiptReadiness

A receipt is a record of what the verifiers compare: form, id, gate, attempt, source
tuple, policy and schema digest, issuer, key, status, expiry, children. `Admissible`,
`Contradictory`, `SignatureRefused` and `VerifyEnvelope` are `verify_envelope` and what it
calls; `GateResult` is `gate_result`. The run itself is `Start` (arguments and what the
repositories preserve), `FirstSnapshot`, one `CheckGate` per gate, `SecondSnapshot`,
`WriteReadiness`; one gate is read and judged in one step. A receipt of one gate in the
set of another is always refused, since the expected schema digest is the target gate's;
`Tests/test_receipt_envelope.py:143` says the same. A receipt carries the source tuple it
was signed for, and `Expectation` has none: `verify()` passes the commits as separate keys,
which `_validate_payload` does not look at.

### AppcastFeed

`dist` and `ready` are the release machine, `releases` GitHub's, `pending` and `job` the
concurrency group of the Pages workflow. A build stands for its DMG and for the appcast
that signs it. `GeneratedAppcast` makes an item of every DMG in `dist/`, so an older DMG
there makes the check refuse until `dist/` is cleaned. `Fetch` is one `curl` each.

### How they compose

`SenderConnection` implements `SessionContract`, and that contract is what the other
two rely on: `FrameAdmission`'s `link` moves only as its phase may, and
`SenderController`'s senders call `onHello` and `onDisconnected` at any time, which
includes every time the connection machine would. `CaptureReconfigure` keeps of the
connection the two fields it reads, and its `TearDownCapture`, `BuildEncoder` and
`BuildFails` are `Teardown`, `SetupEncoder` and `SetupFails` of `FrameAdmission`, which
sees them from the gates' side. `SealedMatrix` reads the
lifecycle states and Lock-B of `EvidenceLifecycle` as two Booleans per root, and the inner
command it starts is `MatrixRun`, reduced to pass, fail or no report.

## 3. Runs

| Run | Checks | Bounds |
|---|---|---|
| `conn` | every invariant, the action property, the contract and liveness of `SenderConnection` | 3 connection objects, all transports, 2 presses of Reconnect, 1 fault of a receiver that is present (one that left misbehaves without bound) |
| `conn_overlap` | `UsableOnlyAfterAccept`: **violated** | the same, without liveness |
| `conn_eof` | `GoneEndsSession`: **violated** | no presses |
| `video` | `FrameAdmission` with reconnects, rebuilds, lost handlers, stop; `CaptureReconfigure` | gates of 2 and 2, 1 replay; 2 geometries, 4 hellos, 3 faults (lost sessions, failed builds, stopped streams) |
| `ctl` | `SenderController`, with automatic connections on or off | 1 device, 2 transports with 2 session objects each, 2 restarts |
| `ctl_restart` | `RestartRebuilds`: **violated** | the same, 1 restart |
| `capture_recovery` | `RecoveryPersists`: **violated** | 2 geometries |
| `evid` | `EvidenceLifecycle`, an fsync may fail | 2 lifecycles under one registry, 2 scripts at a time, any number one after another |
| `matrix` | `MatrixRun`, `SealedMatrix` and `R01Evidence` | 3 negative vectors on 2 platforms, 2 runs, 2 edits, 1 command that goes wrong; 2 sealed roots, 2 sealed runs, 2 disturbances; each R01 validator, 3 changes, 1 validation |
| `sealed_production` | `CleanRunIsSealed`: **violated** | 1 sealed run, 1 disturbance |
| `gates` | `ReceiptReadiness` and `AppcastFeed` | 2 repositories, 1 gate, 2 issuers besides the receipt on file, 3 changes, 1 readiness run; 2 versions, 2 builds, 5 edits, 2 workflow events |
| `gates_replay` | `EligibleIsCurrent`: **violated** | the readiness half of `gates` |

Why the bounds are enough. For every safety and action property of a passing run the
theorems of section 5 remove the bounds; these arguments are for the liveness properties,
and say why a run would have shown a violation. Three connection objects hold the current
one, a replaced one whose callbacks are outstanding and a third in the dial; a dial waits
when no object is free, which only delays it. Two presses are needed for an overlap, and
the second is spent on the overlapped sender. One fault starts an outage whose length is
up to `GraceExpires`. In the video path the counters differ from what is in flight by
which events come between a frame's admission and its completion, not by how many frames
there are: a gate of two lets one frame be overtaken by another. Two session objects of a
target hold a session that ends and its successor. Devices do not interact in the
controller except through `restartAll` and `disconnectAll`, which treat sessions alike.
Evidence scripts race in pairs, over one create-once file or one lock, and two lifecycles
are needed for what they share, Lock-A and the disposal context; the number of scripts
over time is not bounded. In the capture pipeline a second geometry, and a return to the
first, are what makes a rebuild stale; four hellos give a first session, two rotations
inside a rebuild and another session after a loss. In the matrices two runs are one and
its predecessor in the same directory, and two edits or disturbances an edit and its
undoing; one fault is enough, since a failure must survive to the verdict alone. Three
changes to an evidence root (`MaxWrites` counts the first campaign too) let a piece be
redone, attested and asked for again, before or between the reads of a validation; what an
earlier validation leaves behind is the result file, which starts absent or torn. Three
changes to a readiness run let a receipt be issued, copied and outdated; gates are judged
one after the other by the same code and meet only in the conjunction at the end. Five
edits replace all three assets and withdraw a release under a deployment.

`matrix` holds three modules, `video` and `gates` two that share nothing: in each behaviour
one of them moves, so that the run checks them all without their product.

`CHECK_DEADLOCK FALSE` everywhere: a sender that was stopped, and a controller
with nothing plugged in, do stop; a lifecycle that is disposed of, or that a kill left
half done, allows no script to begin; a bounded number of matrix runs, readiness runs,
hellos and workflow events comes to its end.

### Fairness

* `SenderConnection`: dispatch runs queued and delayed blocks, a dial ends one way
  or the other, `cancel()` is answered by `.cancelled`, clocks advance, the
  watchdog re-arms itself, the controller answers `onDisconnected` by stopping the
  sender. A receiver that is present greets a new stream and answers
  session-open. Nothing obliges an open socket to report that its peer is gone, nor
  the user to do anything.
* `FrameAdmission`: VideoToolbox answers every frame it accepted and
  Network.framework every send. No frame, request or reconnect need happen.
* `SenderController`: `stop()` returns, since it waits for one block of a serial
  queue.
* The other modules state safety and action properties only: nothing obliges a developer,
  an issuer, GitHub or ScreenCaptureKit to do anything, and every script ends by itself.

## 4. What the checks show

Hold, over every interleaving within the bounds:

* **SingleChain, UsableUnlessOverlapped**: without a press of Reconnect during a
  pending retry there is at most one of a queued retry, a current USB dial and an
  adopted connection, and frames go only to a stream whose own accept verified.
* **LateCallbacksIgnored, StopIsFinal**: callbacks of replaced objects, and dials
  that end after `stop()`, change nothing.
* **ArmedUnlessStranded, GoneEndsUnlessStranded, RecoversOrEnds**: something is
  always armed to bring the sender forward, and it does get there, unless the
  stream of a bound session ended.
* **GraceStartsWithOutage**: no outage inherits the clock of an earlier one.
* **SendsCountedUnlessReplaced, EncodesNotOvercounted, BacklogBounded,
  GateReopens**: the gates are exact on the connection in use, never count a
  handler that will not run, bound the backlog and reopen.
* **FirstFrameIsKeyframe, KeyframeDemandKept**: whatever an earlier session left in the
  encoder; and a demand made while no unforced frame is in the encoder stands until a
  keyframe is sent, whichever frames fail.
* **RecordsIntoItsEncoder, LatestBuiltUnlessMissed**: while a stream runs, encoder and
  display are those of its geometry; once a session has settled it is the last geometry
  the receiver announced, unless the hello that announced it asked for no build.
* **StopLeavesNothing, RecoveryPersistsUnlessOffline**: nothing records or builds after
  `stop()`, unless it overtook `start()` or came inside a build; recovery is never given
  up except for a capture that is back, a stop, or a timer that found no hello.
* **NoTwins**: a target never has two sessions, and no step leads to a device that is
  streamed to over both transports except one: a cable plugged back in under
  `-autostart NO`. Twins that were made so are gone after the next hello.
* **TakeoverHonoured, OptOutKept, RestartRebuildsUnlessRefused**: an accepted takeover ends
  in the session the user chose, an opt-out stands until a tap or a restart that was already
  under way, and a restart whose completions were all taken rebuilds.
* **ChainContiguous**: whatever scripts race or are killed, a record exists only after all
  earlier ones were complete, and while it does they stay, unless an fsync failed.
* **ReleasedByHandoff**: Lock-B's file goes only after the supervisor closed it with a
  release context on disk.
* **RemovedOnce, UnfinishedIsNamed**: no disposal is retried after its claim, and one that
  a kill interrupted is named by the registry's context.
* **PassedMeansAll, PassedIsOfTheTuple**: a matrix report that says passed had no command
  that went wrong and every negative vector rejected on its own platform; its receipts are
  of this run and its pins of the tuple, whatever the live checkouts went through.
* **ReportsUnlessSuiteFailed**: a run that comes to its end leaves a report, provided that
  no positive suite failed.
* **AcceptedWasUndisturbed, OneRunPerDirectory, CleanTestRunIsSealed**: what the verifier
  of a sealed matrix accepts ran on undisturbed roots and open lifecycles, although nothing
  looks during the run, and under Lock-B, unless that was unlocked and locked again before
  the next check; a directory never mixes two runs; a test run that nothing spoiled ends in
  a report.
* **FreshIsOneBuild, RollbackIsObserved, GenerationIsDurable**: a fresh build that passed
  is one build, of one source, of a project generated where none was, attested by CI as it
  was read; the artifacts of a rollback that passed are of one observation, and a
  production key signed it unless its receipt was replaced after it was verified; a
  durable generation is the tip of a chain each link of which was made on the very one
  before it.
* **EligibleIsBacked, EligibleKeepsUnlessMoved**: an eligible report rests on unexpired
  production receipts for its gates and attempt (not for its commits, see `gates_replay`),
  and on a Mac commit that still keeps the GPL target, unless a commit landed between the
  two readings.
* **FeedSignsItsDmg, FeedIsTheReleaseToServe**: what Pages serves signs the DMG that was
  fetched with it, and is for the release the event named or the highest published.

Each is broken by a plausible bug in the code it speaks of; the mutants are the
operators marked as such, beside the definitions they change.

### Where code and comments disagree

1. `conn_eof`: when the stream of a bound session ends, `receiveControl` only
   cancels it. `.cancelled` lowers `connectionReady`; the handshake deadline is off
   and the idle deadline needs `connectionReady`, so nothing reconnects and
   `onDisconnected` is never called (`MacSender.swift:1875` against the comment at
   397).
2. `conn_overlap`: Reconnect pressed while a retry is pending starts a second
   chain. It later replaces a stream that works by one that is not authenticated
   while `connectionReady` is still true (`MacSender.swift:1627`, comment at 1332).
3. `ctl_restart`: `end()` drops the completion of a session that is already
   ending, so a restart that counts on it never reconnects the others
   (`OpenSidecarMacApp.swift:898`, comment at 909).
4. `sealed_production`: a production run of the sealed matrix cannot end in a report. Its
   sandbox grants the literal path `inner-matrix.json`, and the runner writes a temporary
   file beside it to rename; and the validator's exact set of coverage fields lacks four
   that the runner writes (`run-sealed-cross-repo-matrix.py:356` and 218 against the
   runner's lines 68 and 907 to 921). The keys of the adversarial cases, the suite labels
   and the text of `unexecutablePolicy` differ as well. The tests run the test-only
   command, which writes what the validator wants.
5. `capture_recovery`: a recovery timer that fires while `lastHello` is nil, which is
   every reconnect, is not scheduled again, and no code of the next session looks at the
   capture (`MacSender.swift:1303`, comment at 1299).

6. `gates_replay`: the readiness run passes the commits to `verify_envelope` as separate
   keys, and the source tuple of a receipt is compared only with a `sourceTuple`, which is
   not among them (`verify-ios-transition-readiness.py:336` to 338 and 452,
   `verify_receipt.py:428`). A production receipt of the attempt that was signed for an
   earlier commit makes retirement eligible for the present one, although the script has the
   reason `old_source_tuple` for it (line 50). The test of that reason
   (`Tests/test_ios_transition_readiness.py:295`) replaces the verifier by one that gives it.

Read in the code and carried as a proviso of a property rather than as a run:

* A frame already in the encoder when the receiver asks for a keyframe clears the request
  when it is sent (`MacSender.swift:2517`, comment at 2125): the proviso of
  `KeyframeDemandKept`. New sessions and rebuilds raise the flag again.
* After an unplug, `dedupeSessions` lets the dying cable session win over the Wi-Fi session
  the user tapped (`OpenSidecarMacApp.swift:689`, comments at 685 and 741).
* Under `-autostart NO`, `autoConnect` returns before `dedupeSessions`
  (`OpenSidecarMacApp.swift:648`, comments at 684 and 736): unplug, tap the device on Wi-Fi,
  plug the cable back in during the grace of its session, and both stream until the next
  hello: the proviso of `NoTwins`.
* A Lock-B that is unlocked while the inner command runs and locked again before the next
  check, be it by a check of another run (`run-sealed-cross-repo-matrix.py:337`), is not
  noticed: the proviso of `AcceptedWasUndisturbed`.
* An acquisition admitted before another one recorded `source-active` rewrites Lock-B's
  file before it loses the create of the record. Killed between its truncate and its
  write, it leaves a source in use whose Lock-B names nobody, and no release can begin
  (`acquire-source-root-mutex.py:202`; the test of the duplicate acquisition runs the two
  one after the other).
* A record has its final name before its fsync returns; if the fsync fails it is unlinked
  although its successor may exist (`transition-lifecycle-state.py:168`): the proviso of
  `ChainContiguous`.
* A hello of a new session with another geometry, one that comes while `start()` builds, and
  one after a failed rebuild ask for no build, and a failed rebuild of a rotation starts no
  recovery (`MacSender.swift:602` and 674: "Loops until the built display matches the latest
  hello"): the ghost `missed`. `stop()` inside a build is not looked for: the ghost
  `overtaken`. Recovery looks at `stream == nil` alone, so it also rebuilds a
  `CGDisplayStream` that works, and looks again afterwards.
* `signed_observation` verifies the rollback receipt by path and then decodes it again
  (`validate-r01-runtime-rollback.py:206`): the proviso of `RollbackIsObserved`. The verifier
  digests it demands are the receipt's own, so a receipt made for other verifiers passes, and
  it expects no gate, kind, attempt or issuer (lines 201 to 203), so a production receipt of
  any gate does.
  A request it refuses leaves the result of the last one in place.
* When a positive suite failed, the matrix runner reads `positive_suite_covered` before it
  was assigned and ends without a report: the proviso of `ReportsUnlessSuiteFailed`. The
  Mac product is built from the live checkout, so its pin may be another formatting that
  was restored later; the changed-pin control also passes when the live contract file
  `build-pin.schema.json` was edited, for its name contains "pin".
* A deployment for a later event of an older version serves the older feed, and a run that
  waits is replaced by a newer one; both are what the workflow asks for.

## 5. Proofs

`SenderConnectionProofs` proves, for every set of connection objects, every subset of
the transports and every bound, `Spec => []P` for `TypeOK`, `SingleChain`,
`UsableUnlessOverlapped`, `ArmedUnlessStranded`, `GraceStartsWithOutage` and
`StopIsFinal`, the action property `LateCallbacksIgnored`, and `ImplementsContract`.
The assumptions are the module's: `NoConn` is no connection object, the
transports are among the three of the code, the bounds are natural numbers.

The invariants are not inductive alone. `IInv` adds

* `StopInv`: the flag and the stop sequence agree. Without it a retry that
  fires after `stopOnQueue` could be thought to dial.
* `ReadyInv`: `connectionReady` belongs to an object, and a session is pending or
  bound, never both. It carries `UsableUnlessOverlapped` through the handlers that
  change only one of the two.
* `DialInv`: only the USB transport has a current dial, and it is still dialing;
  what `self.connection` refers to exists and is no such dial. It is what makes a
  callback's object either the current one or irrelevant, so `SingleChain` survives.
* `CoverInv`: for every state of the connection, what is armed. It is
  `ArmedUnlessStranded` with the cases spelt out, in the form one handler hands to
  the next.

`SocketStep` to `WorldStep` prove the type invariant a group of variables at a time;
`StopStep`, `ReadyStep`, `GraceStep`, `DialStep`, `ChainStep`, `UsableStep`,
`CoverStep` prove one conjunct of `IInv` each, with one step per action; `Inductive`
puts them together. `RefineStep` maps each handler, under `Phase`, to a step of
`SessionContract` or to a stutter; `ReconnectRefines` does so once for every handler
that ends in `scheduleReconnect`.

`FrameAdmissionProofs` proves, for gates of every size and every bound on replays, `Spec
=> []P` for `TypeOK`, `SendsCountedUnlessReplaced`, `EncodesNotOvercounted`,
`BacklogBounded`, `FirstFrameIsKeyframe` and `KeyframeDemandKept`, from the assumption
that the two gates are at least 1. Its `IInv` adds

* `PhaseInv`: a stopped sender has no connection, a rebuild has no encoder.
* `SendInv`: the send gate is exact on a connection that was lost as well, since its
  completions still arrive.
* `EncodeInv`: while frames can be admitted the encode gate counts at least what is
  in the encoder. `EncodesNotOvercounted` is the other half; the bound of the
  backlog needs this one, for the gate limits the counter and not the queue.
* `SyncInv`: nothing of a generation is in the encoder before its session is bound,
  and until the first keyframe is sent every frame in it was forced and the next
  one will be. `FirstFrameIsKeyframe` speaks of the moment of a send; this says why
  the head of the queue is right at that moment.

* `KeyInv`: while a keyframe is owed, every frame in the encoder was forced and the next
  will be. `KeyframeDemandKept` asks for either; only both together survive the loss of a
  frame.

`SenderControllerProofs` proves `NoTwins` and the action properties `TakeoverHonoured` and
`OptOutKept` for every set of devices, any number of restarts and of session objects from
two on. A step applies the controller's functions to one another, so the lemmas say what
each one keeps of *any* state of it, and that it makes no twins (`MakesNoTwins`;
`EndAllKeeps`, `CreateKeeps`, `CreateApart`, `DedupeKeeps`, `AutoConnectKeeps`,
`ConnectKeeps`, `OptOutKeeps`, `LeaveKeeps`), and a step strings them together. That a
device has no twins is no invariant, since a replug may make some, but a property of every
other step. `IInv` is

* `Listed`: the list holds exactly the sessions that have not stopped, one for each target.
  It is why there is always an object for a new session, and why the stop that returns
  finds no other session that covers the target of its takeover.
* `Fits`: a takeover waits only on the other side of a device that is known, which is
  what `connect()` needs to be allowed to dial when the completion runs.

`CaptureReconfigureProofs` proves `[]P` for `RecordsIntoItsEncoder`, `StopLeavesNothing` and
`LatestBuiltUnlessMissed`, and the action property `RecoveryPersistsUnlessOffline`, for
every set of geometries and any number of hellos and faults; `None` is no geometry. `IInv`
follows the one build from await to await:

* `BuildInv`: who builds, and that nothing else runs before `start()` does.
* `PipelineInv`: what a build has set up so far has the geometry it builds for, and nothing
  records meanwhile.
* `StopInv`: the flag and the fence agree, unless `start()` came after `stop()`.
* `LatestInv`: a hello that changed the geometry and was not missed is what was built, has a
  rotation that sleeps, or comes before `reconfigure()` looks at `lastHello` again.

`EvidenceLifecycleProofs` proves `[]P` for `ChainContiguous`, `ReleasedByHandoff`,
`RemovedOnce` and `UnfinishedIsNamed`, for any number of lifecycles and of scripts at a
time, each of which may be killed between any two of its system calls. The assumption is
that the two values for "nobody" and "nowhere" are no process and no lifecycle. `IInv` is
what a script relies on from one system call to the next:

* `RecordInv`: a record that is being written has one writer (`O_EXCL`).
* `ChainInv`: what `_run()` found complete up to its target stays so until the create.
* `ReleaseInv`: a finalizer's probe stays true, because a supervisor that has closed
  Lock-B never takes it again; the file goes only in that state, and a record or a whole
  context of the release outlives it.
* `ContextInv`: a release context has one writer.
* `DisposalInv`: the process past `register` is the one that holds Lock-A, the context names
  its lifecycle until the disposal is recorded, and the worktree goes between the two.

`MatrixProofs` proves `[]P` for `PassedMeansAll`, `PassedIsOfTheTuple` and
`ReportsUnlessSuiteFailed` of `MatrixRun`, for every set of vectors and any number of runs,
edits and faults, and for `AcceptedWasUndisturbed` and `OneRunPerDirectory` of
`SealedMatrix`, with the action property `CleanTestRunIsSealed`, for every set of roots and
any number of runs and disturbances. The assumption is that a vector is of one platform,
as `load_negative_cases` makes it. `MatrixInv` adds

* `VerdictInv`: what went wrong is among the failures, which are only ever added to until
  the report, and a vector is accepted as rejected only by a command of its platform.
* `ProgressInv`: for each step of `main()`, what a run without failures has established
  when it gets there. A passed report is this at the last step, kept by `PassedInv` while
  the checkouts go on changing.

`SealedInv` adds

* `DirectoryInv`: what is in the directory is of the run that created its inputs.
* `SealInv`: the second file of a seal repeats the first.
* `WatchInv`: manifest, roots during the inner command and roots later are in this order,
  and a root whose version did not move did not change. Two equal looks at the ends
  therefore say what nobody looked at in between. A lock has no version: for Lock-B
  it says that one that is locked now and was not then has been `relocked`.
* `CleanInv`: without a disturbance the roots are what was sealed at every stage.

`R01EvidenceProofs` proves `[]P` for `FreshIsOneBuild`, `RollbackIsObserved` and
`GenerationIsDurable`, for any number of writes and validations, without assumptions. The
files of one verdict are read at different times. `WriteInv` says that every write has an
id of its own, so that two equal hashes are one write; `TrailInv` that a run which may
still pass has read the steps before its own, and no others; `OrderInv` that an attestation
read later is not an older one, so that a receipt which is the same at the first look and
the last was the same in between; `FreshInv`, `RollbackInv` and `GenerationInv` what the
run was accepted for so far.

`ReleaseGatesProofs` proves `[]P` for `EligibleIsBacked` and `EligibleKeepsUnlessMoved` of
`ReceiptReadiness`, for every set of gates among the six of the code, every set of
repositories with the Mac's among them and any number of changes and runs, and for
`FeedSignsItsDmg` and `FeedIsTheReleaseToServe` of `AppcastFeed`, for any number of
versions, builds, edits and events. `ReceiptInv`: a gate that passed was judged from one
reading, against the attempt, which does not change during a run (`ResultInv`); a log only
grows, so that what the snapshot names is what was looked at unless it `moved`
(`KeepInv`). `FeedInv` says of the workflow run in progress what the properties say of the
feed: what it has chosen and fetched is out of reach of the edits.

Only model-checked: `GoneEndsUnlessStranded`, `RecoversOrEnds`, `GateReopens` and
`RestartRebuildsUnlessRefused`, since liveness under fairness is out of TLAPS's reach
here. Every other property of a passing run has a theorem. `TypeOK` of the two modules
that define it is proved, and no run repeats it; what the other modules need of types is
in their inductive invariants.

## 6. Not modelled, and the plan

Not modelled because there is nothing to interleave or because it is I/O: the R01
mutation run, device capture and provenance scripts, the parser, cryptography, pixel
conversion and views. Within the modelled parts: wording of statuses, logging, frame
contents, bitrates and pacing; the manual host of the command line, receivers that are
unpaired or announce no id; the sessions of a sender whose `start()` overruled its
`stop()`, and the late error of a stream that was replaced; canonical JSON, schema shape and
digests, which are the verdict that they match; the command line of `verify_receipt.py`,
and a tree that is edited and restored between the two snapshots of a readiness run;
the replay of transcripts by `verify-sealed-matrix.py`; a receipt file replaced while it
is read by the readiness run, and one that is replaced and put back between two reads of an
R01 validator; `release-ios.sh`, notarization and signing.

Next, in this order:

1. Abstract specifications and their refinements, beyond `SessionContract`: for
   `EvidenceLifecycle` a linear sequence of states that only the holder of the source may
   leave, implemented by the chain of records; for `FrameAdmission` a bounded FIFO of
   generations; for `SenderController` one session per device that follows the user.
2. `AudioChannel` and `PcmPool`: redial, handshake, queue and generation; slots
   between the realtime thread and the queue. Abstract specification: a bounded
   FIFO that drops, never blocks and never hands a slot to two owners.
3. `UsbPreface` and `UsbRecords`: both ends of the preface with the deadline; a
   record is accepted once and in order, refining a reliable channel that closes.
4. `ScrollCoalescer`, `PairingExchange` and `PairingStore`, `UsbmuxWatcher`,
   `DiscoveryBrowser`, `TestPattern`: one small module each.
