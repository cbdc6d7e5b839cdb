------------------------ MODULE CaptureReconfigureProofs ------------------------
(***************************************************************************)
(* Proofs about CaptureReconfigure, for any set of geometries and any      *)
(* number of hellos and faults.  The inductive invariant follows the one   *)
(* build that may be under way from await to await: what it has built so   *)
(* far has the geometry it builds for, and a hello that changed the        *)
(* geometry is remembered by a rotation that sleeps, by lastHello which    *)
(* reconfigure() compares before it returns, or by the ghost `missed`.     *)
(***************************************************************************)
EXTENDS CaptureReconfigure, TLAPS

\* Where a build is: before it knows what to build, while it builds, and where
\* only reconfigure() goes.
Early == {"created", "permission", "hello"}
Middle == {"display", "find", "encoder", "capture"}
Around == {"teardown", "check"}
Maybe == Geometries \cup {None}

Types ==
    /\ stopped \in BOOLEAN /\ overtaken \in BOOLEAN /\ missed \in BOOLEAN
    /\ fence \in {"none", "queued", "run"}
    /\ bound \in Maybe /\ lastHello \in Maybe
    /\ waiter \in {None, "queued", "stored"}
    /\ build \in [by : {"start", "rotation", "recovery", None},
                  step : Early \cup Middle \cup Around \cup {"idle"}, target : Maybe]
    /\ display \in Maybe /\ encoderSize \in Maybe /\ stream \in Maybe /\ cgStream \in Maybe
    /\ rotations \in [Geometries -> Nat]
    /\ timers \in Nat /\ rechecks \in Nat

\* Who builds, and what; before start() runs nothing else does.
BuildInv ==
    /\ build.step = "idle" => build.by = None /\ build.target = None
    /\ build.step \in Early => build.by = "start" /\ build.target = None
    /\ build.step \in Middle \cup Around => build.target # None
    /\ build.step \in Around => build.by # "start"
    /\ waiter # None => build.step = "hello"
    /\ build.step = "created" =>
          /\ lastHello = None /\ stream = None /\ timers = 0 /\ rechecks = 0
          /\ \A g \in Geometries : rotations[g] = 0
    /\ bound # None => lastHello # None

\* What is built so far.
PipelineInv ==
    fence # "run" =>
        /\ RecordsIntoItsEncoder
        /\ build.step \in Early \cup Middle => ~Recording
        /\ build.step \in {"find", "encoder", "capture", "check"} => display = build.target
        /\ build.step = "capture" => encoderSize = build.target

\* stop(): nothing clears the flag again unless start() runs after it.
StopInv ==
    /\ fence # "none" /\ ~overtaken => stopped
    /\ fence = "run" => bound = None
    /\ StopLeavesNothing

\* While no hello was missed, one that changed the geometry is what was built, or
\* has a rotation that sleeps, or comes before reconfigure() looks again.
LatestInv ==
    ~missed /\ fence # "run" =>
        /\ build.step \in Early /\ bound # None => bound = lastHello
        /\ build.by = "start" /\ build.step \in Middle => lastHello \in {None, build.target}
        /\ build.step = "idle" /\ Recording /\ ~stopped =>
              lastHello \in {None, display} \/ rotations[lastHello] > 0

IInv == Types /\ BuildInv /\ PipelineInv /\ StopInv /\ LatestInv

-----------------------------------------------------------------------------
(* The parts of the invariant, one by one                                    *)

\* A build goes through the steps of setupExtend() and reconfigure().
LEMMA TypesStep ==
  ASSUME Types, CaptureNext
  PROVE  Types'
<1> USE NoneAssumption DEF None, Types, BuildInv, Early, Middle, Around, Maybe, Idle, GoesTo,
        Building, lifecycle, session, pipeline, recovery, bounds
<1>1. ASSUME Start PROVE Types'
  BY <1>1 DEF Start
<1>2. ASSUME Permission PROVE Types'
  BY <1>2 DEF Permission
<1>3. ASSUME WaitForHello PROVE Types'
  <2>1. CASE /\ bound # None /\ waiter' = None
             /\ build' = [build EXCEPT !.step = "display", !.target = bound]
    BY <1>3, <2>1 DEF WaitForHello, Await
  <2>2. CASE bound = None /\ UNCHANGED build
    BY <1>3, <2>2 DEF WaitForHello, Await
  <2>3. QED
    BY <1>3, <2>1, <2>2 DEF WaitForHello, Await
<1>4. ASSUME StoreWaiter PROVE Types'
  <2>1. CASE /\ bound # None /\ waiter' = None
             /\ build' = [build EXCEPT !.step = "display", !.target = bound]
    BY <1>4, <2>1 DEF StoreWaiter, Await
  <2>2. CASE bound = None /\ UNCHANGED build
    BY <1>4, <2>2 DEF StoreWaiter, Await
  <2>3. QED
    BY <1>4, <2>1, <2>2 DEF StoreWaiter, Await
<1>5. ASSUME StopCapture PROVE Types'
  BY <1>5 DEF StopCapture
<1>6. ASSUME StopCaptureOnQueue PROVE Types'
  BY <1>6 DEF StopCaptureOnQueue, Fence
<1>7. ASSUME Activate PROVE Types'
  BY <1>7 DEF Activate
<1>8. ASSUME LoseSession PROVE Types'
  BY <1>8 DEF LoseSession, Fault
<1>9. ASSUME NEW g \in Geometries, FirstHello(g) PROVE Types'
  BY <1>9 DEF FirstHello, Says
<1>10. ASSUME NEW g \in Geometries, HelloWhileBound(g) PROVE Types'
  BY <1>10 DEF HelloWhileBound, Says
<1>11. ASSUME NEW g \in Geometries, RotationDue(g) PROVE Types'
  BY <1>11 DEF RotationDue, Reconfigure, Rebuild
<1>12. ASSUME CreateDisplay PROVE Types'
  BY <1>12 DEF CreateDisplay, Step
<1>13. ASSUME FindDisplay PROVE Types'
  BY <1>13 DEF FindDisplay, Step
<1>14. ASSUME BuildEncoder PROVE Types'
  BY <1>14 DEF BuildEncoder, Step, Built
<1>15. ASSUME StartStream PROVE Types'
  BY <1>15 DEF StartStream, Step, Built
<1>16. ASSUME BuildFails PROVE Types'
  BY <1>16 DEF BuildFails, Step, Ends, Fault
<1>17. ASSUME TearDownCapture PROVE Types'
  BY <1>17 DEF TearDownCapture, Step
<1>18. ASSUME Check PROVE Types'
  BY <1>18 DEF Check, Step, Ends, Rebuild
<1>19. ASSUME StreamStops PROVE Types'
  BY <1>19 DEF StreamStops, Fault
<1>20. ASSUME RecoveryDue PROVE Types'
  BY <1>20 DEF RecoveryDue, Reconfigure, Rebuild
<1>21. ASSUME LookAgain PROVE Types'
  BY <1>21 DEF LookAgain, LooksAgain
<1>22. QED
  BY <1>1, <1>2, <1>3, <1>4, <1>5, <1>6, <1>7, <1>8, <1>9, <1>10, <1>11, <1>12, <1>13, <1>14,
     <1>15, <1>16, <1>17, <1>18, <1>19, <1>20, <1>21 DEF CaptureNext

\* Until start() has begun there is nothing to build for, and only one build goes on.
LEMMA BuildInvStep ==
  ASSUME Types, BuildInv, CaptureNext
  PROVE  BuildInv'
<1> USE NoneAssumption DEF None, Types, BuildInv, Early, Middle, Around, Maybe, Idle, GoesTo,
        Building, lifecycle, session, pipeline, recovery, bounds
<1>1. ASSUME Start PROVE BuildInv'
  BY <1>1 DEF Start
<1>2. ASSUME Permission PROVE BuildInv'
  BY <1>2 DEF Permission
<1>3. ASSUME WaitForHello PROVE BuildInv'
  BY <1>3 DEF WaitForHello, Await
<1>4. ASSUME StoreWaiter PROVE BuildInv'
  BY <1>4 DEF StoreWaiter, Await
<1>5. ASSUME StopCapture PROVE BuildInv'
  BY <1>5 DEF StopCapture
<1>6. ASSUME StopCaptureOnQueue PROVE BuildInv'
  BY <1>6 DEF StopCaptureOnQueue, Fence
<1>7. ASSUME Activate PROVE BuildInv'
  BY <1>7 DEF Activate
<1>8. ASSUME LoseSession PROVE BuildInv'
  BY <1>8 DEF LoseSession, Fault
<1>9. ASSUME NEW g \in Geometries, FirstHello(g) PROVE BuildInv'
  BY <1>9 DEF FirstHello, Says
<1>10. ASSUME NEW g \in Geometries, HelloWhileBound(g) PROVE BuildInv'
  BY <1>10 DEF HelloWhileBound, Says
<1>11. ASSUME NEW g \in Geometries, RotationDue(g) PROVE BuildInv'
  BY <1>11 DEF RotationDue, Reconfigure, Rebuild
<1>12. ASSUME CreateDisplay PROVE BuildInv'
  BY <1>12 DEF CreateDisplay, Step
<1>13. ASSUME FindDisplay PROVE BuildInv'
  BY <1>13 DEF FindDisplay, Step
<1>14. ASSUME BuildEncoder PROVE BuildInv'
  BY <1>14 DEF BuildEncoder, Step, Built
<1>15. ASSUME StartStream PROVE BuildInv'
  BY <1>15 DEF StartStream, Step, Built
<1>16. ASSUME BuildFails PROVE BuildInv'
  BY <1>16 DEF BuildFails, Step, Ends, Fault
<1>17. ASSUME TearDownCapture PROVE BuildInv'
  BY <1>17 DEF TearDownCapture, Step
<1>18. ASSUME Check PROVE BuildInv'
  BY <1>18 DEF Check, Step, Ends, Rebuild
<1>19. ASSUME StreamStops PROVE BuildInv'
  BY <1>19 DEF StreamStops, Fault
<1>20. ASSUME RecoveryDue PROVE BuildInv'
  BY <1>20 DEF RecoveryDue, Reconfigure, Rebuild
<1>21. ASSUME LookAgain PROVE BuildInv'
  BY <1>21 DEF LookAgain, LooksAgain
<1>22. QED
  BY <1>1, <1>2, <1>3, <1>4, <1>5, <1>6, <1>7, <1>8, <1>9, <1>10, <1>11, <1>12, <1>13, <1>14,
     <1>15, <1>16, <1>17, <1>18, <1>19, <1>20, <1>21 DEF CaptureNext

\* The encoder is there before anything records into it, and goes after it stopped.
LEMMA PipelineInvStep ==
  ASSUME Types, BuildInv, PipelineInv, CaptureNext
  PROVE  PipelineInv'
<1> USE NoneAssumption DEF None, Types, BuildInv, Early, Middle, Around, Maybe, Idle, GoesTo,
        Building, lifecycle, session, pipeline, recovery, bounds, PipelineInv,
        RecordsIntoItsEncoder, Recording
<1>1. ASSUME Start PROVE PipelineInv'
  BY <1>1 DEF Start
<1>2. ASSUME Permission PROVE PipelineInv'
  BY <1>2 DEF Permission
<1>3. ASSUME WaitForHello PROVE PipelineInv'
  BY <1>3 DEF WaitForHello, Await
<1>4. ASSUME StoreWaiter PROVE PipelineInv'
  BY <1>4 DEF StoreWaiter, Await
<1>5. ASSUME StopCapture PROVE PipelineInv'
  BY <1>5 DEF StopCapture
<1>6. ASSUME StopCaptureOnQueue PROVE PipelineInv'
  BY <1>6 DEF StopCaptureOnQueue, Fence
<1>7. ASSUME Activate PROVE PipelineInv'
  BY <1>7 DEF Activate
<1>8. ASSUME LoseSession PROVE PipelineInv'
  BY <1>8 DEF LoseSession, Fault
<1>9. ASSUME NEW g \in Geometries, FirstHello(g) PROVE PipelineInv'
  BY <1>9 DEF FirstHello, Says
<1>10. ASSUME NEW g \in Geometries, HelloWhileBound(g) PROVE PipelineInv'
  BY <1>10 DEF HelloWhileBound, Says
<1>11. ASSUME NEW g \in Geometries, RotationDue(g) PROVE PipelineInv'
  BY <1>11 DEF RotationDue, Reconfigure, Rebuild
<1>12. ASSUME CreateDisplay PROVE PipelineInv'
  BY <1>12 DEF CreateDisplay, Step
<1>13. ASSUME FindDisplay PROVE PipelineInv'
  BY <1>13 DEF FindDisplay, Step
<1>14. ASSUME BuildEncoder PROVE PipelineInv'
  BY <1>14 DEF BuildEncoder, Step, Built
<1>15. ASSUME StartStream PROVE PipelineInv'
  BY <1>15 DEF StartStream, Step, Built
<1>16. ASSUME BuildFails PROVE PipelineInv'
  BY <1>16 DEF BuildFails, Step, Ends, Fault
<1>17. ASSUME TearDownCapture PROVE PipelineInv'
  BY <1>17 DEF TearDownCapture, Step
<1>18. ASSUME Check PROVE PipelineInv'
  BY <1>18 DEF Check, Step, Ends, Rebuild
<1>19. ASSUME StreamStops PROVE PipelineInv'
  BY <1>19 DEF StreamStops, Fault
<1>20. ASSUME RecoveryDue PROVE PipelineInv'
  BY <1>20 DEF RecoveryDue, Reconfigure, Rebuild
<1>21. ASSUME LookAgain PROVE PipelineInv'
  BY <1>21 DEF LookAgain, LooksAgain
<1>22. QED
  BY <1>1, <1>2, <1>3, <1>4, <1>5, <1>6, <1>7, <1>8, <1>9, <1>10, <1>11, <1>12, <1>13, <1>14,
     <1>15, <1>16, <1>17, <1>18, <1>19, <1>20, <1>21 DEF CaptureNext

\* stop() ends the only build that may be under way, and nothing starts another one.
LEMMA StopInvStep ==
  ASSUME Types, BuildInv, StopInv, CaptureNext
  PROVE  StopInv'
<1> USE NoneAssumption DEF None, Types, BuildInv, Early, Middle, Around, Maybe, Idle, GoesTo,
        Building, lifecycle, session, pipeline, recovery, bounds, StopInv, StopLeavesNothing,
        Recording
<1>1. ASSUME Start PROVE StopInv'
  BY <1>1 DEF Start
<1>2. ASSUME Permission PROVE StopInv'
  BY <1>2 DEF Permission
<1>3. ASSUME WaitForHello PROVE StopInv'
  BY <1>3 DEF WaitForHello, Await
<1>4. ASSUME StoreWaiter PROVE StopInv'
  BY <1>4 DEF StoreWaiter, Await
<1>5. ASSUME StopCapture PROVE StopInv'
  BY <1>5 DEF StopCapture
<1>6. ASSUME StopCaptureOnQueue PROVE StopInv'
  BY <1>6 DEF StopCaptureOnQueue, Fence
<1>7. ASSUME Activate PROVE StopInv'
  BY <1>7 DEF Activate
<1>8. ASSUME LoseSession PROVE StopInv'
  BY <1>8 DEF LoseSession, Fault
<1>9. ASSUME NEW g \in Geometries, FirstHello(g) PROVE StopInv'
  BY <1>9 DEF FirstHello, Says
<1>10. ASSUME NEW g \in Geometries, HelloWhileBound(g) PROVE StopInv'
  BY <1>10 DEF HelloWhileBound, Says
<1>11. ASSUME NEW g \in Geometries, RotationDue(g) PROVE StopInv'
  BY <1>11 DEF RotationDue, Reconfigure, Rebuild
<1>12. ASSUME CreateDisplay PROVE StopInv'
  BY <1>12 DEF CreateDisplay, Step
<1>13. ASSUME FindDisplay PROVE StopInv'
  BY <1>13 DEF FindDisplay, Step
<1>14. ASSUME BuildEncoder PROVE StopInv'
  BY <1>14 DEF BuildEncoder, Step, Built
<1>15. ASSUME StartStream PROVE StopInv'
  BY <1>15 DEF StartStream, Step, Built
<1>16. ASSUME BuildFails PROVE StopInv'
  BY <1>16 DEF BuildFails, Step, Ends, Fault
<1>17. ASSUME TearDownCapture PROVE StopInv'
  BY <1>17 DEF TearDownCapture, Step
<1>18. ASSUME Check PROVE StopInv'
  BY <1>18 DEF Check, Step, Ends, Rebuild
<1>19. ASSUME StreamStops PROVE StopInv'
  BY <1>19 DEF StreamStops, Fault
<1>20. ASSUME RecoveryDue PROVE StopInv'
  BY <1>20 DEF RecoveryDue, Reconfigure, Rebuild
<1>21. ASSUME LookAgain PROVE StopInv'
  BY <1>21 DEF LookAgain, LooksAgain
<1>22. QED
  BY <1>1, <1>2, <1>3, <1>4, <1>5, <1>6, <1>7, <1>8, <1>9, <1>10, <1>11, <1>12, <1>13, <1>14,
     <1>15, <1>16, <1>17, <1>18, <1>19, <1>20, <1>21 DEF CaptureNext

\* Whatever step a new geometry falls into, something still knows of it.
LEMMA LatestInvStep ==
  ASSUME Types, BuildInv, PipelineInv, LatestInv, CaptureNext
  PROVE  LatestInv'
<1> USE NoneAssumption DEF None, Types, BuildInv, Early, Middle, Around, Maybe, Idle, GoesTo,
        Building, lifecycle, session, pipeline, recovery, bounds, PipelineInv,
        RecordsIntoItsEncoder, LatestInv, Recording, Rebuilding
<1>1. ASSUME Start PROVE LatestInv'
  BY <1>1 DEF Start
<1>2. ASSUME Permission PROVE LatestInv'
  BY <1>2 DEF Permission
<1>3. ASSUME WaitForHello PROVE LatestInv'
  BY <1>3 DEF WaitForHello, Await
<1>4. ASSUME StoreWaiter PROVE LatestInv'
  BY <1>4 DEF StoreWaiter, Await
<1>5. ASSUME StopCapture PROVE LatestInv'
  BY <1>5 DEF StopCapture
<1>6. ASSUME StopCaptureOnQueue PROVE LatestInv'
  BY <1>6 DEF StopCaptureOnQueue, Fence
<1>7. ASSUME Activate PROVE LatestInv'
  BY <1>7 DEF Activate
<1>8. ASSUME LoseSession PROVE LatestInv'
  BY <1>8 DEF LoseSession, Fault
<1>9. ASSUME NEW g \in Geometries, FirstHello(g) PROVE LatestInv'
  BY <1>9 DEF FirstHello, Says
<1>10. ASSUME NEW g \in Geometries, HelloWhileBound(g) PROVE LatestInv'
  <2>1. CASE Recording
    BY <1>10, <2>1 DEF HelloWhileBound, Says
  <2>2. CASE ~Recording
    BY <1>10, <2>2 DEF HelloWhileBound, Says
  <2>3. QED
    BY <2>1, <2>2
<1>11. ASSUME NEW g \in Geometries, RotationDue(g) PROVE LatestInv'
  BY <1>11 DEF RotationDue, Reconfigure, Rebuild
<1>12. ASSUME CreateDisplay PROVE LatestInv'
  BY <1>12 DEF CreateDisplay, Step
<1>13. ASSUME FindDisplay PROVE LatestInv'
  BY <1>13 DEF FindDisplay, Step
<1>14. ASSUME BuildEncoder PROVE LatestInv'
  BY <1>14 DEF BuildEncoder, Step, Built
<1>15. ASSUME StartStream PROVE LatestInv'
  BY <1>15 DEF StartStream, Step, Built
<1>16. ASSUME BuildFails PROVE LatestInv'
  BY <1>16 DEF BuildFails, Step, Ends, Fault
<1>17. ASSUME TearDownCapture PROVE LatestInv'
  BY <1>17 DEF TearDownCapture, Step
<1>18. ASSUME Check PROVE LatestInv'
  BY <1>18 DEF Check, Step, Ends, Rebuild
<1>19. ASSUME StreamStops PROVE LatestInv'
  BY <1>19 DEF StreamStops, Fault
<1>20. ASSUME RecoveryDue PROVE LatestInv'
  BY <1>20 DEF RecoveryDue, Reconfigure, Rebuild
<1>21. ASSUME LookAgain PROVE LatestInv'
  BY <1>21 DEF LookAgain, LooksAgain
<1>22. QED
  BY <1>1, <1>2, <1>3, <1>4, <1>5, <1>6, <1>7, <1>8, <1>9, <1>10, <1>11, <1>12, <1>13, <1>14,
     <1>15, <1>16, <1>17, <1>18, <1>19, <1>20, <1>21 DEF CaptureNext

-----------------------------------------------------------------------------
(* The theorems                                                             *)

\* A controller has made the sender and its task for start() has not begun.
LEMMA InitIInv ==
  ASSUME CaptureInit
  PROVE  IInv
<1> USE DEF CaptureInit, Early, Middle, Around, Maybe, None, Recording
<1>1. Types /\ BuildInv
  BY DEF Types, BuildInv
<1>2. PipelineInv /\ StopInv /\ LatestInv
  BY DEF PipelineInv, RecordsIntoItsEncoder, StopInv, StopLeavesNothing, LatestInv
<1>3. QED
  BY <1>1, <1>2 DEF IInv

\* IInv is inductive.
LEMMA StepIInv ==
  ASSUME IInv, [CaptureNext]_captureVars
  PROVE  IInv'
<1>1. CASE CaptureNext
  BY <1>1, TypesStep, BuildInvStep, PipelineInvStep, StopInvStep, LatestInvStep DEF IInv
<1>2. CASE UNCHANGED captureVars
  <2> USE <1>2 DEF captureVars, lifecycle, session, pipeline, recovery, IInv
  <2>1. Types' /\ BuildInv'
    BY DEF Types, BuildInv
  <2>2. PipelineInv' /\ LatestInv'
    BY DEF PipelineInv, RecordsIntoItsEncoder, LatestInv, Recording
  <2>3. StopInv'
    BY DEF StopInv, StopLeavesNothing, Recording, Building
  <2>4. QED
    BY <2>1, <2>2, <2>3
<1>3. QED
  BY <1>1, <1>2

\* The invariant holds in every behaviour.
LEMMA Inductive == CaptureSpec => []IInv
<1>1. CaptureInit => IInv
  BY InitIInv
<1>2. IInv /\ [CaptureNext]_captureVars => IInv'
  BY StepIInv
<1>3. QED
  BY <1>1, <1>2, PTL DEF CaptureSpec

\* Until stop() reached the queue, a stream that records has an encoder and a
\* display of its own geometry, across every rebuild and every failure of one.
THEOREM StreamsHaveTheirEncoder == CaptureSpec => []RecordsIntoItsEncoder
<1>1. IInv => RecordsIntoItsEncoder
  BY DEF IInv, PipelineInv, RecordsIntoItsEncoder
<1>2. QED
  BY <1>1, Inductive, PTL

\* stop() leaves nothing of the pipeline, for good, unless it overtook start() or
\* came inside a build.
THEOREM StopIsFinal == CaptureSpec => []StopLeavesNothing
<1>1. IInv => StopLeavesNothing
  BY DEF IInv, StopInv
<1>2. QED
  BY <1>1, Inductive, PTL

\* A settled session records the latest geometry its receiver announced, unless a
\* hello asked for no build.
THEOREM LatestGeometryIsBuilt == CaptureSpec => []LatestBuiltUnlessMissed
<1>1. IInv => LatestBuiltUnlessMissed
  <2> SUFFICES ASSUME IInv, Settled, Recording, ~missed PROVE display = lastHello
    BY DEF LatestBuiltUnlessMissed
  <2>1. fence # "run" /\ lastHello # None
    BY DEF IInv, StopInv, BuildInv, Settled
  <2>2. build.step = "idle"
    BY <2>1 DEF IInv, BuildInv, Types, Settled, Building
  <2>3. lastHello \in {None, display} \/ rotations[lastHello] > 0
    BY <2>1, <2>2 DEF IInv, LatestInv, Settled
  <2>4. rotations[lastHello] = 0
    BY <2>1 DEF IInv, Types, Maybe, Settled
  <2>5. QED
    BY <2>1, <2>3, <2>4
<1>2. QED
  BY <1>1, Inductive, PTL

\* No step gives capture recovery up unless capture is back, the sender was
\* stopped, or there is no hello to build for.
THEOREM RecoveryIsNotLost == CaptureSpec => RecoveryPersistsUnlessOffline
<1> DEFINE Persists == RecoveryPending /\ ~RecoveryPending' =>
                          stream' # None \/ stopped \/ lastHello = None
<1>1. ASSUME IInv, CaptureNext PROVE Persists
  <2> USE <1>1, NoneAssumption DEF None, RecoveryPending, IInv, Types, BuildInv, Early, Middle,
          Around, Maybe, Idle, GoesTo, Building, lifecycle, session, pipeline, recovery, bounds
  <2>1. CASE \/ Start \/ Permission \/ WaitForHello \/ StoreWaiter \/ Activate
    BY <2>1 DEF Start, Permission, WaitForHello, StoreWaiter, Await, Activate
  <2>2. CASE StopCapture \/ StopCaptureOnQueue
    BY <2>2 DEF StopCapture, StopCaptureOnQueue, Fence
  <2>3. CASE LoseSession \/ \E g \in Geometries : FirstHello(g) \/ HelloWhileBound(g)
    BY <2>3 DEF LoseSession, Fault, FirstHello, HelloWhileBound, Says
  <2>4. ASSUME NEW g \in Geometries, RotationDue(g) PROVE Persists
    BY <2>4 DEF RotationDue, Reconfigure, Rebuild
  <2>5. CASE CreateDisplay \/ FindDisplay \/ TearDownCapture
    BY <2>5 DEF CreateDisplay, FindDisplay, TearDownCapture, Step
  <2>6. CASE BuildEncoder \/ StartStream
    BY <2>6 DEF BuildEncoder, StartStream, Step, Built
  <2>7. CASE BuildFails \/ Check
    BY <2>7 DEF BuildFails, Check, Step, Ends, Rebuild, Fault
  <2>8. CASE StreamStops
    BY <2>8 DEF StreamStops, Fault
  <2>9. CASE RecoveryDue
    BY <2>9 DEF RecoveryDue, Reconfigure, Rebuild
  <2>10. CASE LookAgain
    BY <2>10 DEF LookAgain, LooksAgain
  <2>11. QED
    BY <1>1, <2>1, <2>2, <2>3, <2>4, <2>5, <2>6, <2>7, <2>8, <2>9, <2>10 DEF CaptureNext
<1>2. IInv /\ [CaptureNext]_captureVars => [Persists]_captureVars
  BY <1>1
<1>3. QED
  BY <1>2, Inductive, PTL DEF CaptureSpec, RecoveryPersistsUnlessOffline
=============================================================================
