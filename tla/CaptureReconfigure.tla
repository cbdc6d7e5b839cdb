------------------------- MODULE CaptureReconfigure -------------------------
(***************************************************************************)
(* The capture pipeline of an extending MacSender: the virtual display,    *)
(* the encoder and the capture stream that start() builds for the first    *)
(* session and reconfigure() rebuilds when the receiver rotates or when    *)
(* ScreenCaptureKit gives up.                                              *)
(*                                                                         *)
(* Builds run in Swift tasks and suspend at every await; hellos, session   *)
(* changes, stop() and the recovery timer run on the sender's queue        *)
(* meanwhile.  A step of a build is the code from one await to the next.   *)
(* The guard of reconfigure() and what it sets are one step, and so are    *)
(* its last look at lastHello and its return: a rotation that comes after  *)
(* that look sleeps for 300 ms before it asks.  Of the connection only     *)
(* lastHello and boundStreamSession are kept; SenderConnection has it.     *)
(***************************************************************************)
EXTENDS Naturals

CONSTANTS
  Geometries,   \* pixel sizes a receiver announces
  MaxHellos,    \* bound: hellos
  MaxFaults     \* bound: lost sessions, failed builds, streams that stop

VARIABLES
  stopped,                \* stop() was called and start() has not undone it
  fence,                  \* stopOnQueue(): "none", "queued", "run"
  bound, lastHello,       \* geometry of boundStreamSession and of lastHello, or None
  waiter,                 \* the continuation of waitForHello()
  build,                  \* the build in progress: by whom, where it is, target
  display, encoderSize,   \* what is built, by geometry
  stream, cgStream,
  rotations,              \* per geometry, the rotation tasks that sleep
  timers, rechecks,       \* recovery timers, and recovery tasks about to look again
  hellos, faults,
  missed,                 \* ghost: a hello changed the geometry and asked for no build
  overtaken               \* ghost: stop() came before start(), or inside a build

lifecycle == <<stopped, fence, overtaken>>
session == <<bound, lastHello>>
pipeline == <<display, encoderSize, stream, cgStream>>
recovery == <<timers, rechecks>>
bounds == <<hellos, faults>>
captureVars == <<lifecycle, session, waiter, build, pipeline, rotations, recovery, bounds, missed>>

None == "none"                                \* nil
ASSUME NoneAssumption == None \notin Geometries
Idle == [by |-> None, step |-> "idle", target |-> None]
Building == build.step \notin {"created", "idle"}
Rebuilding == Building /\ build.by # "start"   \* reconfiguring
Recording == stream # None \/ cgStream # None
RecoveryPending == timers > 0 \/ rechecks > 0 \/ build.by = "recovery"

GoesTo(step) == build' = [build EXCEPT !.step = step]
Fault == faults < MaxFaults /\ faults' = faults + 1 /\ UNCHANGED hellos

CaptureInit ==
  /\ stopped = FALSE /\ fence = "none" /\ overtaken = FALSE
  /\ bound = None /\ lastHello = None
  /\ waiter = None
  /\ build = [by |-> "start", step |-> "created", target |-> None]
  /\ display = None /\ encoderSize = None /\ stream = None /\ cgStream = None
  /\ rotations = [g \in Geometries |-> 0]
  /\ timers = 0 /\ rechecks = 0
  /\ hellos = 0 /\ faults = 0
  /\ missed = FALSE
-----------------------------------------------------------------------------
(* start() and stop(): the controller's tasks for them may begin in either  *)
(* order.                                                                   *)

Start ==
  /\ build.step = "created"
  /\ stopped' = FALSE /\ overtaken' = (fence # "none")
  /\ GoesTo("permission")
  /\ UNCHANGED <<fence, session, waiter, pipeline, rotations, recovery, bounds, missed>>

\* Granted, or a poll that finds the sender stopped.
Permission ==
  /\ build.step = "permission"
  /\ GoesTo("hello") \/ (stopped /\ build' = Idle)
  /\ UNCHANGED <<lifecycle, session, waiter, pipeline, rotations, recovery, bounds, missed>>

\* waitForHello: a bound session answers at once, otherwise a block on the queue
\* stores the continuation, unless a session was bound in between.
Await(from, to) ==
  /\ waiter = from
  /\ \/ bound # None /\ waiter' = None
        /\ build' = [build EXCEPT !.step = "display", !.target = bound]
     \/ bound = None /\ waiter' = to /\ UNCHANGED build
  /\ UNCHANGED <<lifecycle, session, pipeline, rotations, recovery, bounds, missed>>

WaitForHello == build.step = "hello" /\ Await(None, "queued")
StoreWaiter == Await("queued", "stored")

StopCapture ==
  /\ fence = "none"
  /\ stopped' = TRUE /\ fence' = "queued"
  /\ UNCHANGED <<overtaken, session, waiter, build, pipeline, rotations, recovery, bounds, missed>>

Fence ==
  /\ fence = "queued" /\ fence' = "run"
  /\ overtaken' = (overtaken \/ (Building /\ waiter # "stored"))
  /\ bound' = None
  /\ waiter' = IF waiter = "stored" THEN None ELSE waiter
  /\ build' = IF waiter = "stored" THEN Idle ELSE build
  /\ display' = None /\ encoderSize' = None /\ stream' = None
  /\ UNCHANGED <<stopped, lastHello, rotations, recovery, bounds, missed>>

\* Mutant: the CGDisplayStream is left running.
StopOnQueueKeepsCG == Fence /\ UNCHANGED cgStream

StopCaptureOnQueue == Fence /\ cgStream' = None
-----------------------------------------------------------------------------
(* Sessions and hellos (bound: a sender whose stop() was overruled by its   *)
(* start() is not followed into the sessions it goes on to have).           *)

Says(g) == hellos < MaxHellos /\ hellos' = hellos + 1 /\ lastHello' = g /\ UNCHANGED faults

\* The hello of a new session starts its handshake and asks for no build.
FirstHello(g) ==
  /\ ~stopped /\ fence # "run" /\ build.step # "created" /\ lastHello = None
  /\ Says(g)
  /\ missed' = (missed \/ (~Rebuilding /\ {display, build.target} \ {None, g} # {}))
  /\ UNCHANGED <<lifecycle, bound, waiter, build, pipeline, rotations, recovery>>

\* activateBoundSession
Activate ==
  /\ bound = None /\ ~stopped /\ fence # "run" /\ lastHello # None
  /\ bound' = lastHello
  /\ waiter' = IF waiter = "stored" THEN None ELSE waiter
  /\ build' = IF waiter = "stored"
              THEN [build EXCEPT !.step = "display", !.target = lastHello] ELSE build
  /\ UNCHANGED <<lifecycle, lastHello, pipeline, rotations, recovery, bounds, missed>>

\* handleControl: a changed geometry asks for a rebuild while something records.
HelloWhileBound(g) ==
  /\ bound # None /\ g # lastHello
  /\ Says(g)
  /\ rotations' = IF Recording THEN [rotations EXCEPT ![g] = @ + 1] ELSE rotations
  /\ missed' = (missed \/ (~Recording /\ ~Rebuilding))
  /\ UNCHANGED <<lifecycle, bound, waiter, build, pipeline, recovery>>

\* scheduleReconnect, with the becomeReady of the next connection
LoseSession ==
  /\ lastHello # None /\ ~stopped
  /\ Fault
  /\ bound' = None /\ lastHello' = None
  /\ UNCHANGED <<lifecycle, waiter, build, pipeline, rotations, recovery, missed>>
-----------------------------------------------------------------------------
(* setupExtend(), from one await to the next *)

Ends == build' = Idle /\ rechecks' = rechecks + (IF build.by = "recovery" THEN 1 ELSE 0)

\* Something records: start() has nothing more to do, reconfigure() looks again.
Built == build' = IF build.by = "start" THEN Idle ELSE [build EXCEPT !.step = "check"]

Step(from) ==
  /\ build.step = from
  /\ UNCHANGED <<lifecycle, session, waiter, rotations, timers, missed>>

\* The virtual display cannot be made or found, the encoder or the stream not be
\* started: what was built so far stays.
BuildFails ==
  /\ \E step \in {"display", "find", "encoder", "capture"} : Step(step)
  /\ Fault /\ Ends
  /\ UNCHANGED pipeline

CreateDisplay ==
  /\ Step("display") /\ display' = build.target
  /\ GoesTo("find")
  /\ UNCHANGED <<encoderSize, stream, cgStream, rechecks, bounds>>

FindDisplay ==
  /\ Step("find") /\ GoesTo("encoder")
  /\ UNCHANGED <<pipeline, rechecks, bounds>>

\* startCapture: the encoder, then the CGDisplayStream if it is wanted and starts,
\* otherwise on to ScreenCaptureKit's stream, which is kept once it runs.
BuildEncoder ==
  /\ Step("encoder") /\ encoderSize' = build.target
  /\ \/ cgStream' = build.target /\ Built
     \/ UNCHANGED cgStream /\ GoesTo("capture")
  /\ UNCHANGED <<display, stream, rechecks, bounds>>

StartStream ==
  /\ Step("capture") /\ stream' = build.target /\ Built
  /\ UNCHANGED <<display, encoderSize, cgStream, rechecks, bounds>>
-----------------------------------------------------------------------------
(* reconfigure() *)

Rebuild(by, g) == build' = [by |-> by, step |-> "teardown", target |-> g]

\* Mutant: the CGDisplayStream of the old display is not stopped.
TeardownKeepsCG ==
  /\ Step("teardown") /\ GoesTo("display")
  /\ display' = None /\ encoderSize' = None /\ stream' = None
  /\ UNCHANGED <<cgStream, rechecks, bounds>>

\* The streams have stopped, the encoder and the display follow.
TearDownCapture ==
  /\ Step("teardown") /\ GoesTo("display")
  /\ display' = None /\ encoderSize' = None /\ stream' = None /\ cgStream' = None
  /\ UNCHANGED <<rechecks, bounds>>

\* Mutant: a rebuild does not look for a rotation that came meanwhile.
CheckOnce == Step("check") /\ Ends /\ UNCHANGED <<pipeline, bounds>>

\* Round again for a hello with another geometry.
Check ==
  /\ Step("check")
  /\ IF lastHello \notin {None, build.target} /\ ~stopped
     THEN Rebuild(build.by, lastHello) /\ UNCHANGED rechecks
     ELSE Ends
  /\ UNCHANGED <<pipeline, bounds>>

Reconfigure(by, g) == ~Building /\ ~stopped /\ Rebuild(by, g)

\* The task of a rotation after its 300 ms.
RotationDue(g) ==
  /\ rotations[g] > 0
  /\ rotations' = [rotations EXCEPT ![g] = @ - 1]
  /\ \/ lastHello = g /\ Reconfigure("rotation", g)
     \/ (lastHello # g \/ Building \/ stopped) /\ UNCHANGED build
  /\ UNCHANGED <<lifecycle, session, waiter, pipeline, recovery, bounds, missed>>
-----------------------------------------------------------------------------
(* Capture recovery *)

\* didStopWithError of the stream in use.
StreamStops ==
  /\ stream # None /\ Fault
  /\ \/ stopped /\ UNCHANGED <<stream, timers>>
     \/ ~stopped /\ stream' = None /\ timers' = timers + 1
  /\ UNCHANGED <<lifecycle, session, waiter, build, display, encoderSize, cgStream, rotations,
                 rechecks, missed>>

\* The timer of scheduleCaptureRecovery.
RecoveryDue ==
  /\ timers > 0 /\ timers' = timers - 1
  /\ IF stopped \/ stream # None \/ lastHello = None THEN UNCHANGED <<build, rechecks>>
     ELSE \/ Reconfigure("recovery", lastHello) /\ UNCHANGED rechecks
          \/ Building /\ rechecks' = rechecks + 1 /\ UNCHANGED build
  /\ UNCHANGED <<lifecycle, session, waiter, pipeline, rotations, bounds, missed>>

LooksAgain(due) ==
  /\ rechecks > 0 /\ rechecks' = rechecks - 1
  /\ timers' = timers + (IF due THEN 1 ELSE 0)
  /\ UNCHANGED <<lifecycle, session, waiter, build, pipeline, rotations, bounds, missed>>

\* Mutant: recovery tries once.
LookAgainNever == LooksAgain(FALSE)

LookAgain == LooksAgain(stream = None)

CaptureNext ==
  \/ Start \/ Permission \/ WaitForHello \/ StoreWaiter \/ StopCapture \/ StopCaptureOnQueue
  \/ Activate \/ LoseSession
  \/ \E g \in Geometries : FirstHello(g) \/ HelloWhileBound(g) \/ RotationDue(g)
  \/ CreateDisplay \/ FindDisplay \/ BuildEncoder \/ StartStream \/ BuildFails
  \/ TearDownCapture \/ Check
  \/ StreamStops \/ RecoveryDue \/ LookAgain

CaptureSpec == CaptureInit /\ [][CaptureNext]_captureVars
-----------------------------------------------------------------------------
(* Properties *)

\* Until stop() reached the queue, whatever records does so into an encoder of
\* its own geometry and from a display of that geometry: startCapture builds the
\* encoder first, and reconfigure() stops the streams before it takes either away.
RecordsIntoItsEncoder ==
  fence # "run" => \A s \in {stream, cgStream} \ {None} : encoderSize = s /\ display = s

\* Once stop() went through, nothing is left of the pipeline and nothing comes
\* back: no rotation that slept and no recovery timer builds again.  It is
\* otherwise when stop() overtook start() or came while a build was suspended,
\* which setupExtend() does not look for.
StopLeavesNothing ==
  fence = "run" /\ ~overtaken => display = None /\ encoderSize = None /\ ~Recording /\ ~Building

\* When a session has settled and something records, the display has the latest
\* geometry the receiver announced: rotations that arrive during a rebuild, and
\* rotations in quick succession, are not lost.  Excepted are the hellos that ask
\* for no build: the first of a session, and one while start() builds or after a
\* build failed.
Settled == bound # None /\ ~stopped /\ ~Building /\ \A g \in Geometries : rotations[g] = 0

LatestBuiltUnlessMissed == Settled /\ Recording /\ ~missed => display = lastHello

\* Recovery is given up only when capture is back, the sender was stopped, or the
\* timer fired while there was no hello to build for.
RecoveryPersistsUnlessOffline ==
  [][RecoveryPending /\ ~RecoveryPending' =>
       stream' # None \/ stopped \/ lastHello = None]_captureVars

\* As the comment on scheduleCaptureRecovery has it ("Retry until capture is
\* back"): also across a reconnect.
RecoveryPersists ==
  [][RecoveryPending /\ ~RecoveryPending' => stream' # None \/ stopped]_captureVars
=============================================================================
