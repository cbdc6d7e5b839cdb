------------------------ MODULE EvidenceLifecycleProofs ------------------------
(***************************************************************************)
(* Proofs about EvidenceLifecycle, for any number of lifecycles and of     *)
(* scripts that run at once.  The inductive invariant has a part for each  *)
(* thing the scripts rely on between two system calls: a record that is    *)
(* being written has one writer (O_EXCL), a chain that _run() found        *)
(* complete stays so, a finalizer's probe stays true because Lock-B is     *)
(* never taken again, a context has one writer, and one disposal at a time *)
(* is past Lock-A.                                                         *)
(***************************************************************************)
EXTENDS EvidenceLifecycle, TLAPS

Transition == {"check", "create", "write", "sync"}
Points ==
    {"start", "check", "create", "write", "sync", "truncate", "bind", "intent", "attest",
     "probe", "unlink", "forget", "register", "inspect", "remove", "retire"}

\* What each script does, and the record it is after.
Doing(x) ==
    \/ x.script = "none" /\ x.at = "start"
    \/ /\ x.on \in Lifecycles
       /\ \/ x.script = "allocate" /\ x.target = Allocated /\ x.at \in Transition
          \/ /\ x.script = "acquire" /\ x.target = SourceActive
             /\ x.at \in {"truncate", "bind"} \cup Transition
          \/ x.script = "close" /\ x.target = SourceClosing /\ x.at \in Transition
          \/ x.script = "prepare" /\ x.target = SourceReleased /\ x.at \in {"intent", "attest"}
          \/ /\ x.script = "finalize" /\ x.target = SourceReleased
             /\ x.at \in {"probe", "unlink", "forget"} \cup Transition
          \/ /\ x.script = "dispose" /\ x.target = Disposing
             /\ x.at \in {"register", "inspect", "remove"} \cup Transition
          \/ x.script = "dispose" /\ x.target = Disposed /\ x.at \in {"retire"} \cup Transition

RunType ==
    [script : Scripts \cup {"none"}, on : Lifecycles \cup {NoLifecycle}, at : Points,
     target : States]
RunTypes == run \in [Procs -> RunType] /\ \A p \in Procs : Doing(run[p])

FileTypes ==
    /\ records \in [Lifecycles -> [States -> {"absent", "torn", "full"}]]
    /\ mutex \in [Lifecycles -> {"blank", "bound", "absent"}]
    /\ supervisor \in [Lifecycles -> {"holding", "closed", "dead"}]
    /\ context \in [Lifecycles -> {"absent", "torn", "full"}]
    /\ worktree \in [Lifecycles -> BOOLEAN]
    /\ removals \in [Lifecycles -> Nat]
    /\ disposalContext \in Lifecycles \cup {NoLifecycle}
    /\ registryLock \in Procs \cup {NoProc}

Types == RunTypes /\ FileTypes

\* A record that is being written belongs to the one process that created it.
Writing(p, l, s) == run[p].on = l /\ run[p].target = s /\ run[p].at \in {"write", "sync"}
RecordInv ==
    \A p \in Procs :
        /\ At(p, "write") => records[On(p)][run[p].target] = "torn"
        /\ At(p, "sync") => records[On(p)][run[p].target] = "full"
        /\ \A q \in Procs, l \in Lifecycles, s \in States :
              Writing(p, l, s) /\ Writing(q, l, s) => p = q

\* Who passed _run()'s checks has found the chain complete up to its target.
ChainInv ==
    /\ ChainContiguous
    /\ \A p \in Procs :
          run[p].at \in {"create", "write", "sync"} /\ On(p) \notin unsynced =>
              \A t \in 0..(run[p].target - 1) : records[On(p)][t] = "full"

\* A release that nobody can take back any more.
Durable(l) ==
    records[l][SourceReleased] = "full" /\ \A p \in Procs : ~Writing(p, l, SourceReleased)

\* What a finalizer relies on from one of its system calls to the next.
ReleaseInv ==
    /\ \A p \in Procs : run[p].script = "finalize" =>
          /\ supervisor[On(p)] = "closed"
          /\ context[On(p)] = "full" \/ Durable(On(p))
          /\ ~At(p, "probe") => ~Held(On(p))
          /\ run[p].at \in Transition \cup {"forget"} => mutex[On(p)] = "absent"
          /\ At(p, "forget") => Durable(On(p))
    /\ \A l \in Lifecycles :
          /\ mutex[l] = "absent" => /\ supervisor[l] = "closed" /\ ~Held(l)
                                    /\ context[l] = "full" \/ Durable(l)
          /\ Exists(l, SourceReleased) => mutex[l] = "absent"

\* A context that is being written belongs to the process that created it.
ContextInv ==
    \A p \in Procs : At(p, "attest") =>
        /\ context[On(p)] = "torn"
        /\ \A q \in Procs : At(q, "attest") /\ On(q) = On(p) => q = p

\* One disposal at a time is past Lock-A, and what it relies on there.
DisposalInv ==
    /\ \A p \in Procs : run[p].script = "dispose" /\ ~At(p, "register") =>
          /\ registryLock = p
          /\ ~At(p, "inspect") => disposalContext = On(p)
          /\ run[p].target = Disposing => removals[On(p)] = 0 \/ At(p, "inspect")
          /\ At(p, "remove") => records[On(p)][Disposing] = "full"
          /\ run[p].target = Disposed =>
                /\ removals[On(p)] = 1 /\ ~worktree[On(p)]
                /\ At(p, "retire") => records[On(p)][Disposed] = "full"
    /\ RemovedOnce
    /\ UnfinishedIsNamed

IInv == Types /\ RecordInv /\ ChainInv /\ ReleaseInv /\ ContextInv /\ DisposalInv

-----------------------------------------------------------------------------
(* How a process moves                                                      *)

Others(p) == \A q \in Procs \ {p} : run'[q] = run[q]
Went(p, point) ==
    /\ Others(p)
    /\ run'[p].script = run[p].script /\ run'[p].on = run[p].on
    /\ run'[p].target = run[p].target /\ run'[p].at = point
Ended(p) ==
    /\ Others(p)
    /\ run'[p].script = "none" /\ run'[p].on = NoLifecycle /\ run'[p].at = "start"
    /\ registryLock' = IF registryLock = p THEN NoProc ELSE registryLock
Started(p, script, l, point, target) ==
    /\ Others(p)
    /\ run[p].script = "none" /\ run[p].at = "start"
    /\ run'[p].script = script /\ run'[p].on = l
    /\ run'[p].at = point /\ run'[p].target = target

\* A process that goes on keeps its script, its lifecycle and its record.
LEMMA GoesMoves ==
  ASSUME RunTypes, NEW p \in Procs, NEW point \in Points, Goes(p, point)
  PROVE  run' \in [Procs -> RunType] /\ Went(p, point)
  BY DEF RunTypes, RunType, Goes, Went, Others

\* A process that ends is idle again, and Lock-A is free if it was its own.
LEMMA EndsMoves ==
  ASSUME RunTypes, NEW p \in Procs, Ends(p)
  PROVE  run' \in [Procs -> RunType] /\ Ended(p)
<1>1. /\ Idle \in RunType
      /\ Idle.script = "none" /\ Idle.on = NoLifecycle /\ Idle.at = "start"
  BY DEF Idle, RunType, Points, States, Allocated
<1>2. QED
  BY <1>1 DEF RunTypes, Ends, Ended, Others

\* A process that starts was idle.
LEMMA StartsMoves ==
  ASSUME RunTypes, NEW p \in Procs, NEW script \in Scripts, NEW l \in Lifecycles,
         NEW point \in Points, NEW target \in States, Starts(p, script, l, point, target)
  PROVE  run' \in [Procs -> RunType] /\ Started(p, script, l, point, target)
<1>1. run[p].script = "none" /\ run[p].at = "start"
  BY DEF Starts, Idle
<1>2. run' = [run EXCEPT ![p] = [script |-> script, on |-> l, at |-> point, target |-> target]]
  BY DEF Starts
<1>3. [script |-> script, on |-> l, at |-> point, target |-> target] \in RunType
  BY DEF RunType
<1>4. QED
  BY <1>1, <1>2, <1>3 DEF RunTypes, Started, Others

\* A disposal that removed the worktree goes on to its last record.
LEMMA RemoveMoves ==
  ASSUME RunTypes, NEW p \in Procs, run' = [run EXCEPT ![p].at = "check", ![p].target = Disposed]
  PROVE  /\ run' \in [Procs -> RunType] /\ Others(p)
         /\ run'[p].script = run[p].script /\ run'[p].on = run[p].on
         /\ run'[p].at = "check" /\ run'[p].target = Disposed
<1> DEFINE moved == [run[p] EXCEPT !.at = "check", !.target = Disposed]
<1>1. run[p] \in RunType
  BY DEF RunTypes
<1>2. /\ moved.script = run[p].script /\ moved.on = run[p].on
      /\ moved.at = "check" /\ moved.target = Disposed
  BY <1>1 DEF RunType
<1>3. "check" \in Points /\ Disposed \in States
  BY DEF Points, States, Disposed
<1>4. moved \in RunType
  BY <1>1, <1>3 DEF RunType
<1> HIDE DEF moved
<1>5. run' = [run EXCEPT ![p] = moved]
  BY DEF moved, RunTypes
<1>6. QED
  BY <1>2, <1>4, <1>5 DEF RunTypes, Others

\* The files and locks keep their types.
LEMMA FileTypesStep ==
  ASSUME Types, Next
  PROVE  FileTypes'
<1> USE DEF Types, FileTypes, locks, files, world
<1>1. ASSUME NEW p \in Procs, Ends(p) PROVE registryLock' \in Procs \cup {NoProc}
  BY <1>1 DEF Ends
<1>2. ASSUME NEW p \in Procs, Check(p) PROVE FileTypes'
  BY <1>2 DEF Check, Ends
<1>3. ASSUME NEW p \in Procs, Create(p) PROVE FileTypes'
  <2>1. CASE Ends(p) /\ UNCHANGED records
    BY <1>1, <1>3, <2>1 DEF Create
  <2>2. CASE /\ records' = [records EXCEPT ![On(p)][run[p].target] = "torn"]
             /\ UNCHANGED locks
    BY <1>3, <2>2 DEF Create
  <2>3. QED
    BY <1>3, <2>1, <2>2 DEF Create
<1>4. ASSUME NEW p \in Procs, Write(p) PROVE FileTypes'
  BY <1>4 DEF Write, Ends
<1>5. ASSUME NEW p \in Procs, Sync(p) PROVE FileTypes'
  <2>1. UNCHANGED locks \/ Ends(p)
    BY <1>5 DEF Sync, Continues
  <2>2. registryLock' \in Procs \cup {NoProc}
    BY <1>1, <2>1
  <2>3. \/ UNCHANGED records
        \/ records' = [records EXCEPT ![On(p)][run[p].target] = "absent"]
    BY <1>5 DEF Sync
  <2>4. QED
    BY <1>5, <2>2, <2>3 DEF Sync
<1>6. ASSUME NEW p \in Procs, Truncate(p) \/ Bind(p) PROVE FileTypes'
  BY <1>6 DEF Truncate, Bind, Ends
<1>7. ASSUME NEW p \in Procs, Intent(p) \/ Attest(p) PROVE FileTypes'
  BY <1>7 DEF Intent, Attest, Ends
<1>8. ASSUME NEW p \in Procs, Probe(p) PROVE FileTypes'
  BY <1>8 DEF Probe, Ends
<1>9. ASSUME NEW p \in Procs, Unlink(p) PROVE FileTypes'
  BY <1>9 DEF Unlink, Ends
<1>10. ASSUME NEW p \in Procs, Forget(p) \/ Register(p) PROVE FileTypes'
  BY <1>10 DEF Forget, Register, Ends
<1>11. ASSUME NEW p \in Procs, Inspect(p) PROVE FileTypes'
  <2>1. CASE Ends(p) /\ UNCHANGED disposalContext
    BY <1>1, <1>11, <2>1 DEF Inspect
  <2>2. CASE disposalContext' = On(p) /\ UNCHANGED locks
    <3>1. On(p) \in Lifecycles \cup {NoLifecycle}
      BY DEF On, RunTypes, RunType
    <3>2. QED
      BY <1>11, <2>2, <3>1 DEF Inspect
  <2>3. QED
    BY <1>11, <2>1, <2>2 DEF Inspect
<1>12. ASSUME NEW p \in Procs, Remove(p) PROVE FileTypes'
  <2>1. registryLock' \in Procs \cup {NoProc}
    BY <1>1, <1>12 DEF Remove
  <2>2. worktree' \in [Lifecycles -> BOOLEAN]
    BY <1>12 DEF Remove
  <2>3. removals' \in [Lifecycles -> Nat]
    <3>1. removals' = [removals EXCEPT ![On(p)] = removals[On(p)] + 1]
      BY <1>12 DEF Remove
    <3>2. On(p) \in Lifecycles => removals[On(p)] + 1 \in Nat
      OBVIOUS
    <3>3. QED
      BY <3>1, <3>2
  <2>4. QED
    BY <1>12, <2>1, <2>2, <2>3 DEF Remove
<1>13. ASSUME NEW p \in Procs, Retire(p) \/ Killed(p) PROVE FileTypes'
  BY <1>13 DEF Retire, Killed, Ends
<1>14. ASSUME NEW p \in Procs, NEW l \in Lifecycles, Launch(p, l) PROVE FileTypes'
  BY <1>14 DEF Launch, Allocate, Acquire, Close, Prepare, Finalize, Dispose
<1>15. ASSUME NEW l \in Lifecycles, SupervisorCloses(l) \/ SupervisorDies(l) PROVE FileTypes'
  BY <1>15 DEF SupervisorCloses, SupervisorDies
<1>16. QED
  BY <1>2, <1>3, <1>4, <1>5, <1>6, <1>7, <1>8, <1>9, <1>10, <1>11, <1>12, <1>13, <1>14, <1>15
     DEF Next, Step

\* A process goes from one place of its script to the next.
LEMMA RunTypesStep ==
  ASSUME Types, Next
  PROVE  RunTypes'
<1> USE DEF Points, Transition, States, Allocated, SourceActive, SourceClosing, SourceReleased,
            Disposing, Disposed, Scripts
<1>1. RunTypes /\ FileTypes
  BY DEF Types
<1>2. ASSUME NEW p \in Procs, run' \in [Procs -> RunType], Others(p), Doing(run'[p])
      PROVE  RunTypes'
  BY <1>1, <1>2 DEF RunTypes, Others
<1>3. ASSUME NEW p \in Procs, Ends(p) PROVE RunTypes'
  BY <1>1, <1>2, <1>3, EndsMoves DEF Ended, Doing
<1>4. ASSUME NEW p \in Procs, NEW point \in Points, Goes(p, point),
             \/ At(p, "check") /\ point = "create"
             \/ At(p, "create") /\ point = "write"
             \/ At(p, "write") /\ point = "sync"
             \/ At(p, "sync") /\ run[p].script = "finalize" /\ point = "forget"
             \/ At(p, "sync") /\ run[p].target = Disposing /\ point = "remove"
             \/ At(p, "sync") /\ run[p].target = Disposed /\ point = "retire"
             \/ At(p, "truncate") /\ point = "bind"
             \/ At(p, "bind") /\ point = "check"
             \/ At(p, "intent") /\ point = "attest"
             \/ At(p, "probe") /\ point = "unlink"
             \/ At(p, "unlink") /\ point = "check"
             \/ At(p, "register") /\ point = "inspect"
             \/ At(p, "inspect") /\ point = "check"
      PROVE  RunTypes'
  <2>1. run' \in [Procs -> RunType] /\ Went(p, point) /\ Doing(run[p])
    BY <1>1, <1>4, GoesMoves DEF RunTypes
  <2>2. Doing(run'[p])
    BY <1>4, <2>1 DEF At, Went, Doing
  <2>3. QED
    BY <1>2, <2>1, <2>2 DEF Went
<1>5. ASSUME NEW p \in Procs, NEW script \in Scripts, NEW l \in Lifecycles,
             NEW point \in Points, NEW target \in States, Starts(p, script, l, point, target),
             \/ script = "allocate" /\ point = "check" /\ target = Allocated
             \/ script = "acquire" /\ point = "truncate" /\ target = SourceActive
             \/ script = "close" /\ point = "check" /\ target = SourceClosing
             \/ script = "prepare" /\ point = "intent" /\ target = SourceReleased
             \/ script = "finalize" /\ point = "probe" /\ target = SourceReleased
             \/ script = "dispose" /\ point = "register" /\ target = Disposing
      PROVE  RunTypes'
  <2>1. run' \in [Procs -> RunType] /\ Started(p, script, l, point, target)
    BY <1>1, <1>5, StartsMoves
  <2>2. Doing(run'[p])
    BY <1>5, <2>1 DEF Started, Doing
  <2>3. QED
    BY <1>2, <2>1, <2>2 DEF Started
<1>6. ASSUME NEW p \in Procs, Check(p) PROVE RunTypes'
  BY <1>3, <1>4, <1>6 DEF Check
<1>7. ASSUME NEW p \in Procs, Create(p) PROVE RunTypes'
  BY <1>3, <1>4, <1>7 DEF Create
<1>8. ASSUME NEW p \in Procs, Write(p) PROVE RunTypes'
  BY <1>3, <1>4, <1>8 DEF Write
<1>9. ASSUME NEW p \in Procs, Sync(p) PROVE RunTypes'
  BY <1>3, <1>4, <1>9 DEF Sync, Continues
<1>10. ASSUME NEW p \in Procs, Truncate(p) \/ Bind(p) PROVE RunTypes'
  BY <1>3, <1>4, <1>10 DEF Truncate, Bind
<1>11. ASSUME NEW p \in Procs, Intent(p) \/ Attest(p) PROVE RunTypes'
  BY <1>3, <1>4, <1>11 DEF Intent, Attest
<1>12. ASSUME NEW p \in Procs, Probe(p) \/ Unlink(p) \/ Forget(p) PROVE RunTypes'
  BY <1>3, <1>4, <1>12 DEF Probe, Unlink, Forget
<1>13. ASSUME NEW p \in Procs, Register(p) \/ Inspect(p) \/ Retire(p) PROVE RunTypes'
  BY <1>3, <1>4, <1>13 DEF Register, Inspect, Retire
<1>14. ASSUME NEW p \in Procs, Remove(p) PROVE RunTypes'
  <2>1. CASE Ends(p)
    BY <1>3, <2>1
  <2>2. CASE run' = [run EXCEPT ![p].at = "check", ![p].target = Disposed]
    <3>1. /\ run' \in [Procs -> RunType] /\ Others(p)
          /\ run'[p].script = run[p].script /\ run'[p].on = run[p].on
          /\ run'[p].at = "check" /\ run'[p].target = Disposed
      BY <1>1, <2>2, RemoveMoves
    <3>2. Doing(run'[p])
      BY <1>1, <1>14, <3>1 DEF Remove, At, RunTypes, Doing
    <3>3. QED
      BY <1>2, <3>1, <3>2
  <2>3. QED
    BY <1>14, <2>1, <2>2 DEF Remove
<1>15. ASSUME NEW p \in Procs, NEW l \in Lifecycles, Launch(p, l) PROVE RunTypes'
  <2>1. CASE Allocate(p, l)
    BY <1>5, <2>1 DEF Allocate
  <2>2. CASE Acquire(p, l)
    BY <1>5, <2>2 DEF Acquire
  <2>3. CASE Close(p, l)
    BY <1>5, <2>3 DEF Close
  <2>4. CASE Prepare(p, l)
    BY <1>5, <2>4 DEF Prepare
  <2>5. CASE Finalize(p, l)
    BY <1>5, <2>5 DEF Finalize
  <2>6. CASE Dispose(p, l)
    BY <1>5, <2>6 DEF Dispose
  <2>7. QED
    BY <1>15, <2>1, <2>2, <2>3, <2>4, <2>5, <2>6 DEF Launch
<1>16. ASSUME NEW p \in Procs, Killed(p) PROVE RunTypes'
  BY <1>3, <1>16 DEF Killed
<1>17. ASSUME NEW l \in Lifecycles, SupervisorCloses(l) \/ SupervisorDies(l) PROVE RunTypes'
  BY <1>1, <1>17 DEF SupervisorCloses, SupervisorDies, RunTypes
<1>18. QED
  BY <1>6, <1>7, <1>8, <1>9, <1>10, <1>11, <1>12, <1>13, <1>14, <1>15, <1>16, <1>17
     DEF Next, Step

-----------------------------------------------------------------------------
(* The records                                                              *)

\* A transition is made in a lifecycle, for one of the records.
LEMMA TransitionOn ==
  ASSUME RunTypes, NEW p \in Procs, run[p].at \in Transition
  PROVE  On(p) \in Lifecycles /\ run[p].target \in States
  BY DEF RunTypes, RunType, Doing, Transition, On

\* What a step of a transition does to the record, and to no other.
Puts(p, v) == records' = [records EXCEPT ![On(p)][run[p].target] = v]

\* Putting a record changes that one alone.
LEMMA RecordPut ==
  ASSUME FileTypes, NEW p \in Procs, NEW v, On(p) \in Lifecycles, run[p].target \in States,
         Puts(p, v)
  PROVE  /\ records'[On(p)][run[p].target] = v
         /\ \A k \in Lifecycles, t \in States :
               k # On(p) \/ t # run[p].target => records'[k][t] = records[k][t]
  BY DEF FileTypes, Puts

\* All other steps leave the records alone, and enter a transition through
\* _run()'s checks.
LEMMA QuietStep ==
  ASSUME Types, NEW p \in Procs,
         \/ Check(p) \/ Truncate(p) \/ Bind(p) \/ Intent(p) \/ Attest(p) \/ Probe(p)
         \/ Unlink(p) \/ Forget(p) \/ Register(p) \/ Inspect(p) \/ Remove(p) \/ Retire(p)
         \/ Killed(p) \/ \E l \in Lifecycles : Launch(p, l)
  PROVE  /\ Others(p) /\ UNCHANGED <<records, unsynced>>
         /\ run'[p].at \notin {"write", "sync"}
         /\ run'[p].at = "create" =>
               /\ At(p, "check") /\ HistoryBefore(On(p), run[p].target)
               /\ Went(p, "create")
<1> USE DEF world, Points
<1>1. RunTypes
  BY DEF Types
<1>2. ASSUME Ends(p) PROVE Others(p) /\ run'[p].at = "start"
  BY <1>1, <1>2, EndsMoves DEF Ended
<1>3. ASSUME NEW point \in Points, Goes(p, point)
      PROVE  Others(p) /\ run'[p].at = point /\ Went(p, point)
  BY <1>1, <1>3, GoesMoves DEF Went
<1>4. ASSUME NEW script \in Scripts, NEW l \in Lifecycles, NEW point \in Points,
             NEW target \in States, Starts(p, script, l, point, target)
      PROVE  Others(p) /\ run'[p].at = point
  BY <1>1, <1>4, StartsMoves DEF Started
<1>5. CASE Check(p)
  BY <1>2, <1>3, <1>5 DEF Check
<1>6. CASE Truncate(p) \/ Bind(p)
  BY <1>2, <1>3, <1>6 DEF Truncate, Bind
<1>7. CASE Intent(p) \/ Attest(p)
  BY <1>2, <1>3, <1>7 DEF Intent, Attest
<1>8. CASE Probe(p) \/ Unlink(p) \/ Forget(p)
  BY <1>2, <1>3, <1>8 DEF Probe, Unlink, Forget
<1>9. CASE Register(p) \/ Inspect(p) \/ Retire(p)
  BY <1>2, <1>3, <1>9 DEF Register, Inspect, Retire
<1>10. CASE Remove(p)
  BY <1>1, <1>2, <1>10, RemoveMoves DEF Remove
<1>11. CASE Killed(p)
  BY <1>2, <1>11 DEF Killed
<1>12. ASSUME NEW l \in Lifecycles, Launch(p, l)
       PROVE  Others(p) /\ UNCHANGED <<records, unsynced>>
              /\ run'[p].at \in {"check", "truncate", "intent", "probe", "register"}
  <2> USE DEF Scripts, States, Allocated, SourceActive, SourceClosing, SourceReleased, Disposing
  <2>1. CASE Allocate(p, l)
    BY <1>4, <2>1 DEF Allocate
  <2>2. CASE Acquire(p, l)
    BY <1>4, <2>2 DEF Acquire
  <2>3. CASE Close(p, l)
    BY <1>4, <2>3 DEF Close
  <2>4. CASE Prepare(p, l)
    BY <1>4, <2>4 DEF Prepare
  <2>5. CASE Finalize(p, l)
    BY <1>4, <2>5 DEF Finalize
  <2>6. CASE Dispose(p, l)
    BY <1>4, <2>6 DEF Dispose
  <2>7. QED
    BY <1>12, <2>1, <2>2, <2>3, <2>4, <2>5, <2>6 DEF Launch
<1>13. QED
  BY <1>5, <1>6, <1>7, <1>8, <1>9, <1>10, <1>11, <1>12

\* What the three steps of a transition do.
LEMMA TransitionStep ==
  ASSUME Types, NEW p \in Procs, Create(p) \/ Write(p) \/ Sync(p)
  PROVE  /\ Others(p) /\ On(p) \in Lifecycles /\ run[p].target \in States
         /\ run'[p].at # "create"
         /\ \/ /\ UNCHANGED <<records, unsynced>>
               /\ run'[p].at \notin {"write", "sync"}
            \/ /\ At(p, "create") /\ ~Exists(On(p), run[p].target)
               /\ Puts(p, "torn") /\ Went(p, "write") /\ UNCHANGED unsynced
            \/ At(p, "write") /\ Puts(p, "full") /\ Went(p, "sync") /\ UNCHANGED unsynced
            \/ /\ At(p, "write") /\ Puts(p, "absent") /\ Ended(p) /\ UNCHANGED unsynced
            \/ /\ At(p, "sync") /\ Puts(p, "absent") /\ Ended(p)
               /\ unsynced = {} /\ unsynced' = {On(p)}
<1> USE DEF Points
<1>1. RunTypes
  BY DEF Types
<1>2. ASSUME Ends(p) PROVE Ended(p) /\ Others(p) /\ run'[p].at = "start"
  BY <1>1, <1>2, EndsMoves DEF Ended
<1>3. ASSUME NEW point \in Points, Goes(p, point)
      PROVE  Others(p) /\ Went(p, point) /\ run'[p].at = point
  BY <1>1, <1>3, GoesMoves DEF Went
<1>4. On(p) \in Lifecycles /\ run[p].target \in States
  BY <1>1, TransitionOn DEF Create, Write, Sync, At, Transition
<1>5. CASE Create(p)
  <2>1. CASE Ends(p) /\ UNCHANGED records
    BY <1>2, <1>4, <1>5, <2>1 DEF Create, world
  <2>2. CASE /\ ~Exists(On(p), run[p].target)
             /\ records' = [records EXCEPT ![On(p)][run[p].target] = "torn"]
             /\ Goes(p, "write")
    BY <1>3, <1>4, <1>5, <2>2 DEF Create, Puts, world
  <2>3. QED
    BY <1>5, <2>1, <2>2 DEF Create
<1>6. CASE Write(p)
  <2>1. CASE /\ records' = [records EXCEPT ![On(p)][run[p].target] = "full"]
             /\ Goes(p, "sync")
    BY <1>3, <1>4, <1>6, <2>1 DEF Write, Puts, world
  <2>2. CASE /\ records' = [records EXCEPT ![On(p)][run[p].target] = "absent"]
             /\ Ends(p)
    BY <1>2, <1>4, <1>6, <2>2 DEF Write, Puts, world
  <2>3. QED
    BY <1>6, <2>1, <2>2 DEF Write
<1>7. CASE Sync(p)
  <2>1. CASE Continues(p) /\ UNCHANGED <<records, unsynced>>
    <3>1. Others(p) /\ run'[p].at \in {"forget", "remove", "retire", "start"}
      BY <1>2, <1>3, <2>1 DEF Continues
    <3>2. QED
      BY <1>4, <2>1, <3>1
  <2>2. CASE /\ unsynced = {} /\ unsynced' = {On(p)}
             /\ records' = [records EXCEPT ![On(p)][run[p].target] = "absent"]
             /\ Ends(p)
    BY <1>2, <1>4, <1>7, <2>2 DEF Sync, Puts
  <2>3. QED
    BY <1>7, <2>1, <2>2 DEF Sync
<1>8. QED
  BY <1>5, <1>6, <1>7

\* A step is one of the two kinds, or the supervisor's.
LEMMA StepKinds ==
  ASSUME Next
  PROVE  \/ \E p \in Procs :
              \/ Check(p) \/ Truncate(p) \/ Bind(p) \/ Intent(p) \/ Attest(p) \/ Probe(p)
              \/ Unlink(p) \/ Forget(p) \/ Register(p) \/ Inspect(p) \/ Remove(p) \/ Retire(p)
              \/ Killed(p) \/ \E l \in Lifecycles : Launch(p, l)
         \/ \E p \in Procs : Create(p) \/ Write(p) \/ Sync(p)
         \/ /\ \E l \in Lifecycles : SupervisorCloses(l) \/ SupervisorDies(l)
            /\ UNCHANGED <<records, unsynced, run>>
  BY DEF Next, Step, SupervisorCloses, SupervisorDies

\* O_EXCL makes a record its creator's.
LEMMA RecordStep ==
  ASSUME Types, RecordInv, Next
  PROVE  RecordInv'
<1> USE DEF At, On
<1>1. ASSUME NEW p \in Procs, Others(p), UNCHANGED records, run'[p].at \notin {"write", "sync"}
      PROVE  RecordInv'
  BY <1>1 DEF RecordInv, Writing, Others
<1>2. ASSUME NEW p \in Procs, Others(p), On(p) \in Lifecycles, run[p].target \in States,
             At(p, "create"), ~Exists(On(p), run[p].target), Puts(p, "torn"), Went(p, "write")
      PROVE  RecordInv'
  <2>1. /\ records'[On(p)][run[p].target] = "torn"
        /\ \A k \in Lifecycles, t \in States :
              k # On(p) \/ t # run[p].target => records'[k][t] = records[k][t]
    BY <1>2, RecordPut DEF Types
  <2>2. \A q \in Procs : ~Writing(q, On(p), run[p].target)
    BY <1>2 DEF RecordInv, Writing, Exists
  <2>3. ASSUME NEW q \in Procs, q # p, run[q].at \in {"write", "sync"}
        PROVE  /\ run'[q] = run[q]
               /\ records'[On(q)][run[q].target] = records[On(q)][run[q].target]
    <3>1. On(q) \in Lifecycles /\ run[q].target \in States
      BY <2>3, TransitionOn DEF Types, Transition
    <3>2. QED
      BY <1>2, <2>1, <2>2, <2>3, <3>1 DEF Others, Writing
  <2>4. QED
    BY <1>2, <2>1, <2>2, <2>3 DEF RecordInv, Writing, Went, Others
<1>3. ASSUME NEW p \in Procs, NEW v \in {"absent", "full"},
             Others(p), On(p) \in Lifecycles, run[p].target \in States,
             run[p].at \in {"write", "sync"}, Puts(p, v),
             \/ Went(p, "sync") /\ v = "full"
             \/ Ended(p)
      PROVE  RecordInv'
  <2>1. /\ records'[On(p)][run[p].target] = v
        /\ \A k \in Lifecycles, t \in States :
              k # On(p) \/ t # run[p].target => records'[k][t] = records[k][t]
    BY <1>3, RecordPut DEF Types
  <2>2. \A q \in Procs : q # p => ~Writing(q, On(p), run[p].target)
    BY <1>3 DEF RecordInv, Writing
  <2>3. ASSUME NEW q \in Procs, q # p, run[q].at \in {"write", "sync"}
        PROVE  /\ run'[q] = run[q]
               /\ records'[On(q)][run[q].target] = records[On(q)][run[q].target]
    <3>1. On(q) \in Lifecycles /\ run[q].target \in States
      BY <2>3, TransitionOn DEF Types, Transition
    <3>2. QED
      BY <1>3, <2>1, <2>2, <2>3, <3>1 DEF Others, Writing
  <2>4. QED
    BY <1>3, <2>1, <2>2, <2>3 DEF RecordInv, Writing, Went, Ended, Others
<1>4. CASE UNCHANGED <<records, run>>
  BY <1>4 DEF RecordInv, Writing
<1>5. QED
  BY <1>1, <1>2, <1>3, <1>4, StepKinds, QuietStep, TransitionStep

\* A record disappears or is torn only where no other was built on it.
LEMMA ChainStep ==
  ASSUME Types, RecordInv, ChainInv, Next
  PROVE  ChainInv'
<1>1. ASSUME NEW p \in Procs, Others(p), UNCHANGED <<records, unsynced>>,
             run'[p].at \notin {"write", "sync"},
             run'[p].at = "create" =>
                 /\ At(p, "check") /\ HistoryBefore(On(p), run[p].target) /\ Went(p, "create")
      PROVE  ChainInv'
  <2>1. ChainContiguous'
    BY <1>1 DEF ChainInv, ChainContiguous, Exists
  <2>2. ASSUME NEW q \in Procs, run'[q].at \in {"create", "write", "sync"},
               On(q)' \notin unsynced', NEW t \in 0..(run'[q].target - 1)
        PROVE  records'[On(q)'][t] = "full"
    <3>1. CASE q # p
      BY <1>1, <2>2, <3>1 DEF ChainInv, Others, On
    <3>2. CASE q = p
      <4>1. /\ run'[p].at = "create" /\ run'[p].target = run[p].target
            /\ On(p)' = On(p) /\ On(p) \notin unsynced
        BY <1>1, <2>2, <3>2 DEF Went, On
      <4>2. /\ On(p) \in Lifecycles /\ run[p].target \in States
            /\ HistoryBefore(On(p), run[p].target)
        BY <1>1, <4>1, TransitionOn DEF Types, Transition, At
      <4>3. t \in States /\ run[p].target - 1 \in States /\ run[p].target > 0
        BY <2>2, <3>2, <4>1, <4>2 DEF States
      <4>4. Exists(On(p), run[p].target - 1) /\ records[On(p)][run[p].target - 1] = "full"
        BY <4>2, <4>3 DEF HistoryBefore, States, Allocated
      <4>5. \A u \in 0..(run[p].target - 2) : records[On(p)][u] = "full"
        BY <4>1, <4>2, <4>3, <4>4 DEF ChainInv, ChainContiguous, States
      <4>6. records[On(p)][t] = "full"
        BY <2>2, <3>2, <4>1, <4>2, <4>4, <4>5 DEF States
      <4>7. QED
        BY <1>1, <3>2, <4>1, <4>6
    <3>3. QED
      BY <3>1, <3>2
  <2>3. QED
    BY <2>1, <2>2 DEF ChainInv
<1>2. ASSUME NEW p \in Procs, Others(p), On(p) \in Lifecycles, run[p].target \in States,
             NEW v \in {"torn", "full", "absent"}, Puts(p, v), run'[p].at # "create",
             \/ /\ At(p, "create") /\ ~Exists(On(p), run[p].target)
                /\ v = "torn" /\ Went(p, "write") /\ UNCHANGED unsynced
             \/ At(p, "write") /\ v = "full" /\ Went(p, "sync") /\ UNCHANGED unsynced
             \/ At(p, "write") /\ v = "absent" /\ Ended(p) /\ UNCHANGED unsynced
             \/ At(p, "sync") /\ v = "absent" /\ Ended(p) /\ unsynced' = {On(p)} /\ unsynced = {}
      PROVE  ChainInv'
  <2> DEFINE here == On(p)
             this == run[p].target
  <2>1. /\ records'[here][this] = v
        /\ \A k \in Lifecycles, t \in States :
              k # here \/ t # this => records'[k][t] = records[k][t]
    BY <1>2, RecordPut DEF Types
  <2>2. unsynced \subseteq unsynced'
    BY <1>2
  \* The chain below the record is complete.
  <2>3. here \notin unsynced => \A t \in 0..(this - 1) : records[here][t] = "full"
    BY <1>2 DEF ChainInv, At
  \* Nothing was built on a record that is not full, unless an fsync just failed.
  <2>4. here \notin unsynced' => records[here][this] # "full"
    BY <1>2 DEF RecordInv, Exists, At, On
  <2>5. ASSUME here \notin unsynced', NEW s \in States, s > this PROVE ~Exists(here, s)
    <3>1. here \notin unsynced /\ this \in 0..(s - 1)
      BY <1>2, <2>2, <2>5 DEF States
    <3>2. QED
      BY <1>2, <2>4, <2>5, <3>1 DEF ChainInv, ChainContiguous
  <2>6. ASSUME NEW q \in Procs, q # p, run[q].at \in {"create", "write", "sync"},
               On(q) = here, here \notin unsynced'
        PROVE  ~(run[q].target > this)
    <3>1. here \notin unsynced
      BY <2>2, <2>6
    <3>2. \A t \in 0..(run[q].target - 1) : records[here][t] = "full"
      BY <2>6, <3>1 DEF ChainInv
    <3>3. run[q].target \in States
      BY <2>6, TransitionOn DEF Types, Transition
    <3>4. QED
      BY <1>2, <2>4, <2>6, <3>2, <3>3 DEF States
  <2>7. ChainContiguous'
    <3> SUFFICES ASSUME NEW l \in Lifecycles \ unsynced', NEW s \in States, Exists(l, s)',
                        NEW t \in 0..(s - 1)
                 PROVE  records'[l][t] = "full"
      BY DEF ChainContiguous
    <3>1. t \in States /\ l \notin unsynced
      BY <2>2 DEF States
    <3>2. CASE l # here
      BY <2>1, <3>1, <3>2 DEF ChainInv, ChainContiguous, Exists
    <3>3. CASE l = here /\ s = this
      BY <1>2, <2>1, <2>3, <3>1, <3>3 DEF States
    <3>4. CASE l = here /\ s # this
      <4>1. Exists(here, s)
        BY <1>2, <2>1, <3>4 DEF Exists
      <4>2. s < this
        BY <1>2, <2>5, <3>4, <4>1 DEF States
      <4>3. records[here][t] = "full" /\ t # this
        BY <1>2, <3>1, <3>4, <4>1, <4>2 DEF ChainInv, ChainContiguous, States
      <4>4. QED
        BY <1>2, <2>1, <3>1, <3>4, <4>3
    <3>5. QED
      BY <3>2, <3>3, <3>4
  <2>8. ASSUME NEW q \in Procs, run'[q].at \in {"create", "write", "sync"},
               On(q)' \notin unsynced', NEW t \in 0..(run'[q].target - 1)
        PROVE  records'[On(q)'][t] = "full"
    <3>1. CASE q = p
      <4>1. On(p)' = here /\ run'[p].target = this /\ here \notin unsynced
        BY <1>2, <2>2, <2>8, <3>1 DEF Went, Ended, On
      <4>2. t \in States /\ t # this
        BY <1>2, <2>8, <3>1, <4>1 DEF States
      <4>3. QED
        BY <1>2, <2>1, <2>3, <2>8, <3>1, <4>1, <4>2
    <3>2. CASE q # p
      <4>1. run'[q] = run[q]
        BY <1>2, <3>2 DEF Others
      <4>2. On(q) \in Lifecycles /\ run[q].target \in States
        BY <2>8, <4>1, TransitionOn DEF Types, Transition
      <4>3. On(q)' = On(q) /\ On(q) \notin unsynced /\ t \in States
        BY <2>2, <2>8, <4>1, <4>2 DEF On, States
      <4>4. records[On(q)][t] = "full"
        BY <2>8, <4>1, <4>3 DEF ChainInv
      <4>5. On(q) = here => t # this
        BY <1>2, <2>6, <2>8, <3>2, <4>1, <4>2, <4>3 DEF States
      <4>6. QED
        BY <2>1, <4>2, <4>3, <4>4, <4>5
    <3>3. QED
      BY <3>1, <3>2
  <2>9. QED
    BY <2>7, <2>8 DEF ChainInv
<1>3. CASE UNCHANGED <<records, unsynced, run>>
  BY <1>3 DEF ChainInv, ChainContiguous, Exists, On
<1>4. ASSUME NEW p \in Procs, Create(p) \/ Write(p) \/ Sync(p) PROVE ChainInv'
  <2>1. CASE UNCHANGED <<records, unsynced>> /\ run'[p].at \notin {"write", "sync"}
    BY <1>1, <1>4, <2>1, TransitionStep
  <2>2. CASE ~(UNCHANGED <<records, unsynced>> /\ run'[p].at \notin {"write", "sync"})
    BY <1>2, <1>4, <2>2, TransitionStep
  <2>3. QED
    BY <2>1, <2>2
<1>5. QED
  BY <1>1, <1>3, <1>4, StepKinds, QuietStep

-----------------------------------------------------------------------------
(* The handoff of Lock-B                                                    *)

\* A script that is started, and how one goes on.
Launches(q, l) ==
    /\ run[q].script = "none" /\ run'[q].on = l
    /\ \/ Allocate(q, l) /\ run'[q].script = "allocate" /\ run'[q].at = "check"
       \/ Acquire(q, l) /\ run'[q].script = "acquire" /\ run'[q].at = "truncate"
       \/ Close(q, l) /\ run'[q].script = "close" /\ run'[q].at = "check"
       \/ Prepare(q, l) /\ run'[q].script = "prepare" /\ run'[q].at = "intent"
       \/ Finalize(q, l) /\ run'[q].script = "finalize" /\ run'[q].at = "probe"
       \/ /\ Dispose(q, l) /\ run'[q].script = "dispose"
          /\ run'[q].at = "register" /\ run'[q].target = Disposing
GoesOn(q) ==
    /\ run'[q].script = run[q].script /\ run'[q].on = run[q].on
    /\ \/ Check(q) /\ Went(q, "create") /\ UNCHANGED locks
       \/ Create(q) /\ Went(q, "write") /\ UNCHANGED locks
       \/ Write(q) /\ Went(q, "sync") /\ UNCHANGED locks
       \/ /\ Sync(q) /\ UNCHANGED <<records, locks>>
          /\ \/ Went(q, "forget") /\ run[q].script = "finalize"
             \/ Went(q, "remove") /\ run[q].script # "finalize" /\ run[q].target = Disposing
             \/ Went(q, "retire") /\ run[q].script # "finalize" /\ run[q].target = Disposed
       \/ Truncate(q) /\ Went(q, "bind")
       \/ Bind(q) /\ Went(q, "check")
       \/ Intent(q) /\ Went(q, "attest") /\ context[On(q)] = "absent"
       \/ Probe(q) /\ Went(q, "unlink") /\ ~Held(On(q))
       \/ Unlink(q) /\ Went(q, "check") /\ mutex' = [mutex EXCEPT ![On(q)] = "absent"]
       \/ Register(q) /\ Went(q, "inspect") /\ registryLock' = q
       \/ /\ Inspect(q) /\ Went(q, "check") /\ UNCHANGED locks
          /\ Fresh(On(q)) /\ disposalContext' = On(q)
       \/ /\ Remove(q) /\ UNCHANGED locks /\ run'[q].at = "check" /\ run'[q].target = Disposed
          /\ worktree' = [worktree EXCEPT ![On(q)] = FALSE]

\* A step leaves a process alone, ends its script, starts one, or takes it on.
LEMMA Flow ==
  ASSUME Types, Next, NEW q \in Procs
  PROVE  \/ run'[q] = run[q]
         \/ run'[q].script = "none" /\ run'[q].at = "start"
         \/ \E l \in Lifecycles : Launches(q, l)
         \/ GoesOn(q)
<1> USE DEF Points
<1>1. RunTypes
  BY DEF Types
<1>2. ASSUME Ends(q) PROVE run'[q].script = "none" /\ run'[q].at = "start"
  BY <1>1, <1>2, EndsMoves DEF Ended
<1>3. ASSUME NEW point \in Points, Goes(q, point)
      PROVE  Went(q, point) /\ run'[q].script = run[q].script /\ run'[q].on = run[q].on
  BY <1>1, <1>3, GoesMoves DEF Went
<1>4. ASSUME NEW p \in Procs, p # q, Step(p) \/ Killed(p) \/ \E l \in Lifecycles : Launch(p, l)
      PROVE  run'[q] = run[q]
  BY <1>4, QuietStep, TransitionStep DEF Step, Others
<1>5. CASE \E l \in Lifecycles : SupervisorCloses(l) \/ SupervisorDies(l)
  BY <1>5 DEF SupervisorCloses, SupervisorDies
<1>6. CASE Killed(q)
  BY <1>2, <1>6 DEF Killed
<1>7. ASSUME NEW l \in Lifecycles, Launch(q, l)
      PROVE  Launches(q, l)
  <2>1. ASSUME NEW script \in Scripts, NEW point \in Points,
               NEW target \in States, Starts(q, script, l, point, target)
        PROVE  /\ run[q].script = "none" /\ run'[q].on = l /\ run'[q].script = script
               /\ run'[q].at = point /\ run'[q].target = target
    BY <1>1, <2>1, StartsMoves DEF Started
  <2> USE DEF Scripts, States, Allocated, SourceActive, SourceClosing, SourceReleased, Disposing
  <2>2. CASE Allocate(q, l)
    BY <2>1, <2>2 DEF Allocate, Launches
  <2>3. CASE Acquire(q, l)
    BY <2>1, <2>3 DEF Acquire, Launches
  <2>4. CASE Close(q, l)
    BY <2>1, <2>4 DEF Close, Launches
  <2>5. CASE Prepare(q, l)
    BY <2>1, <2>5 DEF Prepare, Launches
  <2>6. CASE Finalize(q, l)
    BY <2>1, <2>6 DEF Finalize, Launches
  <2>7. CASE Dispose(q, l)
    BY <2>1, <2>7 DEF Dispose, Launches
  <2>8. QED
    BY <1>7, <2>2, <2>3, <2>4, <2>5, <2>6, <2>7 DEF Launch
<1>8. CASE Check(q)
  BY <1>2, <1>3, <1>8 DEF Check, GoesOn
<1>9. CASE Create(q)
  BY <1>2, <1>3, <1>9 DEF Create, GoesOn
<1>10. CASE Write(q)
  BY <1>2, <1>3, <1>10 DEF Write, GoesOn
<1>11. CASE Sync(q)
  <2>1. CASE Ends(q)
    BY <1>2, <2>1
  <2>2. CASE ~Ends(q)
    <3>1. Continues(q) /\ UNCHANGED records
      BY <1>11, <2>2 DEF Sync
    <3>2. UNCHANGED locks
          /\ \/ Goes(q, "forget") /\ run[q].script = "finalize"
             \/ /\ Goes(q, "remove") /\ run[q].script # "finalize"
                /\ run[q].target = Disposing
             \/ /\ Goes(q, "retire") /\ run[q].script # "finalize"
                /\ run[q].target = Disposed
      <4>1. CASE run[q].script = "finalize"
        <5>1. run[q].target = SourceReleased
          BY <1>1, <4>1 DEF RunTypes, Doing
        <5>2. QED
          BY <3>1, <4>1, <5>1 DEF Continues, SourceReleased, Disposing, Disposed
      <4>2. CASE run[q].script # "finalize" /\ run[q].target = Disposing
        BY <3>1, <4>2 DEF Continues
      <4>3. CASE /\ run[q].script # "finalize" /\ run[q].target # Disposing
                 /\ run[q].target = Disposed
        BY <3>1, <4>3 DEF Continues
      <4>4. CASE /\ run[q].script # "finalize" /\ run[q].target # Disposing
                 /\ run[q].target # Disposed
        BY <2>2, <3>1, <4>4 DEF Continues
      <4>5. QED
        BY <4>1, <4>2, <4>3, <4>4
    <3>3. QED
      BY <1>3, <1>11, <3>1, <3>2 DEF GoesOn
  <2>3. QED
    BY <2>1, <2>2
<1>12. CASE Truncate(q)
  BY <1>3, <1>12 DEF Truncate, GoesOn
<1>13. CASE Bind(q)
  BY <1>2, <1>3, <1>13 DEF Bind, GoesOn
<1>14. CASE Intent(q)
  BY <1>2, <1>3, <1>14 DEF Intent, GoesOn
<1>15. CASE Probe(q)
  BY <1>2, <1>3, <1>15 DEF Probe, GoesOn
<1>16. CASE Unlink(q)
  BY <1>2, <1>3, <1>16 DEF Unlink, GoesOn
<1>17. CASE Attest(q) \/ Forget(q) \/ Retire(q)
  BY <1>2, <1>17 DEF Attest, Forget, Retire
<1>18. CASE Register(q)
  BY <1>2, <1>3, <1>18 DEF Register, GoesOn
<1>19. CASE Inspect(q)
  BY <1>2, <1>3, <1>19 DEF Inspect, GoesOn
<1>20. CASE Remove(q)
  <2>1. CASE Ends(q)
    BY <1>2, <2>1
  <2>2. CASE ~Ends(q)
    BY <1>1, <1>20, <2>2, RemoveMoves DEF Remove, GoesOn
  <2>3. QED
    BY <2>1, <2>2
<1>21. CASE Step(q)
  BY <1>8, <1>9, <1>10, <1>11, <1>12, <1>13, <1>14, <1>15, <1>16, <1>17, <1>18, <1>19,
     <1>20, <1>21 DEF Step
<1>22. QED
  BY <1>4, <1>5, <1>6, <1>7, <1>21 DEF Next

\* A supervisor lets go of Lock-B once.
LEMMA SupervisorStep ==
  ASSUME Types, Next, NEW l \in Lifecycles
  PROVE  /\ supervisor'[l] = "holding" => supervisor[l] = "holding"
         /\ supervisor[l] = "closed" => supervisor'[l] = "closed"
<1>1. \/ UNCHANGED supervisor
      \/ \E k \in Lifecycles :
            /\ supervisor[k] = "holding"
            /\ \/ supervisor' = [supervisor EXCEPT ![k] = "closed"]
               \/ supervisor' = [supervisor EXCEPT ![k] = "dead"]
  <2>1. ASSUME NEW p \in Procs, Check(p) \/ Create(p) \/ Write(p) \/ Sync(p)
        PROVE  UNCHANGED supervisor
    BY <2>1 DEF Check, Create, Write, Sync, world
  <2>2. ASSUME NEW p \in Procs, Truncate(p) \/ Bind(p) \/ Intent(p) \/ Attest(p)
        PROVE  UNCHANGED supervisor
    BY <2>2 DEF Truncate, Bind, Intent, Attest, world
  <2>3. ASSUME NEW p \in Procs, Probe(p) \/ Unlink(p) \/ Forget(p) \/ Register(p)
        PROVE  UNCHANGED supervisor
    BY <2>3 DEF Probe, Unlink, Forget, Register, world
  <2>4. ASSUME NEW p \in Procs, Inspect(p) \/ Remove(p) \/ Retire(p) \/ Killed(p)
        PROVE  UNCHANGED supervisor
    BY <2>4 DEF Inspect, Remove, Retire, Killed, world
  <2>5. ASSUME NEW p \in Procs, NEW k \in Lifecycles, Launch(p, k)
        PROVE  UNCHANGED supervisor
    BY <2>5 DEF Launch, Allocate, Acquire, Close, Prepare, Finalize, Dispose, world
  <2>6. QED
    BY <2>1, <2>2, <2>3, <2>4, <2>5 DEF Next, Step, SupervisorCloses, SupervisorDies
<1>2. QED
  BY <1>1 DEF Types, FileTypes

\* Lock-B is never taken again.
LEMMA HeldFalls ==
  ASSUME Types, Next, NEW l \in Lifecycles, Held(l)'
  PROVE  Held(l)
<1>1. ASSUME NEW q \in Procs, run'[q].on = l, run'[q].script \in {"acquire", "prepare"}
      PROVE  Held(l)
  <2>1. \/ run'[q].script = run[q].script /\ run'[q].on = run[q].on
        \/ Acquire(q, l) \/ Prepare(q, l)
    BY <1>1, Flow DEF Launches, GoesOn
  <2>2. QED
    BY <1>1, <2>1 DEF Held, Acquire, Prepare
<1>2. QED
  BY <1>1, SupervisorStep DEF Held

\* Lock-B's file goes with an unlink, for good.
LEMMA MutexStep ==
  ASSUME Types, Next, NEW l \in Lifecycles
  PROVE  /\ mutex[l] = "absent" => mutex'[l] = "absent"
         /\ mutex'[l] = "absent" =>
               mutex[l] = "absent" \/ \E p \in Procs : Unlink(p) /\ On(p) = l
<1> USE DEF Types, FileTypes, files
<1>1. ASSUME NEW p \in Procs, Check(p) \/ Create(p) \/ Write(p) \/ Sync(p)
      PROVE  UNCHANGED mutex
  BY <1>1 DEF Check, Create, Write, Sync
<1>2. ASSUME NEW p \in Procs, Truncate(p) \/ Bind(p)
      PROVE  (mutex[l] = "absent") <=> (mutex'[l] = "absent")
  BY <1>2 DEF Truncate, Bind
<1>3. ASSUME NEW p \in Procs, Intent(p) \/ Attest(p) \/ Probe(p) \/ Forget(p) \/ Register(p)
      PROVE  UNCHANGED mutex
  BY <1>3 DEF Intent, Attest, Probe, Forget, Register
<1>4. ASSUME NEW p \in Procs, Unlink(p)
      PROVE  \/ UNCHANGED mutex
             \/ mutex' = [mutex EXCEPT ![On(p)] = "absent"]
  BY <1>4 DEF Unlink
<1>5. ASSUME NEW p \in Procs, Inspect(p) \/ Remove(p) \/ Retire(p) \/ Killed(p)
      PROVE  UNCHANGED mutex
  BY <1>5 DEF Inspect, Remove, Retire, Killed
<1>6. ASSUME NEW p \in Procs, NEW k \in Lifecycles, Launch(p, k)
      PROVE  UNCHANGED mutex
  BY <1>6 DEF Launch, Allocate, Acquire, Close, Prepare, Finalize, Dispose
<1>7. ASSUME NEW k \in Lifecycles, SupervisorCloses(k) \/ SupervisorDies(k)
      PROVE  UNCHANGED mutex
  BY <1>7 DEF SupervisorCloses, SupervisorDies
<1>8. QED
  BY <1>1, <1>2, <1>3, <1>4, <1>5, <1>6, <1>7 DEF Next, Step

\* The context of a release is created, completed and removed by its scripts.
LEMMA ContextStep ==
  ASSUME Types, Next, NEW l \in Lifecycles
  PROVE  \/ context'[l] = context[l]
         \/ \E p \in Procs : On(p) = l /\ \/ Intent(p) /\ context[l] = "absent"
                                             /\ context'[l] = "torn" /\ Went(p, "attest")
                                          \/ Attest(p) /\ Ended(p)
                                          \/ Forget(p) /\ At(p, "forget")
<1> USE DEF Types, FileTypes, files
<1>1. ASSUME NEW p \in Procs, Check(p) \/ Create(p) \/ Write(p) \/ Sync(p)
      PROVE  UNCHANGED context
  BY <1>1 DEF Check, Create, Write, Sync
<1>2. ASSUME NEW p \in Procs, Truncate(p) \/ Bind(p) \/ Probe(p) \/ Unlink(p) \/ Register(p)
      PROVE  UNCHANGED context
  BY <1>2 DEF Truncate, Bind, Probe, Unlink, Register
<1>3. ASSUME NEW p \in Procs, Intent(p)
      PROVE  \/ UNCHANGED context
             \/ /\ context' = [context EXCEPT ![On(p)] = "torn"] /\ context[On(p)] = "absent"
                /\ Went(p, "attest")
  BY <1>3, GoesMoves DEF Intent, Points
<1>4. ASSUME NEW p \in Procs, Attest(p)
      PROVE  Ended(p) /\ \E c \in {"full", "absent"} : context' = [context EXCEPT ![On(p)] = c]
  BY <1>4, EndsMoves DEF Attest
<1>5. ASSUME NEW p \in Procs, Forget(p)
      PROVE  At(p, "forget") /\ context' = [context EXCEPT ![On(p)] = "absent"]
  BY <1>5 DEF Forget
<1>6. ASSUME NEW p \in Procs, Inspect(p) \/ Remove(p) \/ Retire(p) \/ Killed(p)
      PROVE  UNCHANGED context
  BY <1>6 DEF Inspect, Remove, Retire, Killed
<1>7. ASSUME NEW p \in Procs, NEW k \in Lifecycles, Launch(p, k)
      PROVE  UNCHANGED context
  BY <1>7 DEF Launch, Allocate, Acquire, Close, Prepare, Finalize, Dispose
<1>8. ASSUME NEW k \in Lifecycles, SupervisorCloses(k) \/ SupervisorDies(k)
      PROVE  UNCHANGED context
  BY <1>8 DEF SupervisorCloses, SupervisorDies
<1>9. QED
  BY <1>1, <1>2, <1>3, <1>4, <1>5, <1>6, <1>7, <1>8 DEF Next, Step

\* A release that is durable stays so.
LEMMA DurableKept ==
  ASSUME Types, RecordInv, Next, NEW l \in Lifecycles, Durable(l)
  PROVE  Durable(l)'
<1> USE DEF States, SourceReleased
<1>1. ASSUME NEW p \in Procs, Others(p), UNCHANGED records, run'[p].at \notin {"write", "sync"}
      PROVE  Durable(l)'
  BY <1>1 DEF Durable, Writing, Others
<1>2. ASSUME NEW p \in Procs, NEW v, Others(p), On(p) \in Lifecycles, run[p].target \in States,
             Puts(p, v),
             \/ At(p, "create") /\ ~Exists(On(p), run[p].target)
             \/ At(p, "write") \/ At(p, "sync"),
             Went(p, "write") \/ Went(p, "sync") \/ Ended(p)
      PROVE  Durable(l)'
  <2>1. On(p) # l \/ run[p].target # SourceReleased
    BY <1>2 DEF Durable, Writing, At, On, Exists
  <2>2. records'[l][SourceReleased] = "full"
    BY <1>2, <2>1, RecordPut DEF Durable, Types
  <2>3. ~Writing(p, l, SourceReleased)'
    BY <1>2, <2>1 DEF Writing, Went, Ended, On
  <2>4. QED
    BY <1>2, <2>2, <2>3 DEF Durable, Writing, Others
<1>3. CASE UNCHANGED <<records, run>>
  BY <1>3 DEF Durable, Writing
<1>4. ASSUME NEW p \in Procs, Create(p) \/ Write(p) \/ Sync(p) PROVE Durable(l)'
  BY <1>1, <1>2, <1>4, TransitionStep
<1>5. QED
  BY <1>1, <1>3, <1>4, StepKinds, QuietStep

\* A context is one process's to complete, and goes only after the release is
\* durable.
LEMMA ContextKept ==
  ASSUME Types, RecordInv, ReleaseInv, ContextInv, Next, NEW l \in Lifecycles,
         context[l] = "full" \/ Durable(l)
  PROVE  context'[l] = "full" \/ Durable(l)'
<1>1. CASE Durable(l)
  BY <1>1, DurableKept
<1>2. ASSUME context[l] = "full", NEW p \in Procs, On(p) = l, Attest(p)
      PROVE  FALSE
  BY <1>2 DEF ContextInv, Attest
<1>3. ASSUME NEW p \in Procs, On(p) = l, Forget(p), At(p, "forget")
      PROVE  Durable(l)
  <2>1. run[p].script = "finalize"
    BY <1>3 DEF Types, RunTypes, Doing, At, Transition
  <2>2. QED
    BY <1>3, <2>1 DEF ReleaseInv
<1>4. QED
  BY <1>1, <1>2, <1>3, ContextStep

\* O_EXCL makes a context its creator's.
LEMMA ContextInvStep ==
  ASSUME Types, ReleaseInv, ContextInv, Next
  PROVE  ContextInv'
<1> USE DEF At
<1>1. SUFFICES ASSUME NEW p \in Procs, run'[p].at = "attest"
               PROVE  /\ context'[On(p)'] = "torn"
                      /\ \A q \in Procs :
                            run'[q].at = "attest" /\ run'[q].on = run'[p].on => q = p
  BY DEF ContextInv, On
<1>2. ASSUME NEW q \in Procs, run'[q].at = "attest"
      PROVE  /\ run'[q].on \in Lifecycles /\ run'[q].on = run[q].on /\ run[q].script = "prepare"
             /\ \/ run[q].at = "attest" /\ context[run[q].on] = "torn"
                \/ Intent(q) /\ context[run[q].on] = "absent" /\ run'[q] # run[q]
  <2>1. \/ run'[q] = run[q]
        \/ run'[q].on = run[q].on /\ Intent(q) /\ context[On(q)] = "absent"
    BY <1>2, Flow DEF Launches, GoesOn, Went
  <2>2. run[q].at \in {"attest", "intent"}
    BY <1>2, <2>1 DEF Intent
  <2>3. run[q].script = "prepare" /\ run[q].on \in Lifecycles
    BY <2>2 DEF Types, RunTypes, Doing, Transition
  <2>4. QED
    BY <1>2, <2>1, <2>3 DEF ContextInv, On, Intent
<1>3. ASSUME NEW q \in Procs, run'[q].at = "attest", run[q].at = "attest"
      PROVE  context'[run[q].on] = "torn"
  <2>1. run[q].on \in Lifecycles /\ context[run[q].on] = "torn" /\ run[q].script = "prepare"
        /\ run'[q].on = run[q].on
    BY <1>2, <1>3 DEF Intent, At
  <2>2. ASSUME NEW r \in Procs, On(r) = run[q].on, Forget(r) PROVE FALSE
    <3>1. run[r].script = "finalize"
      BY <2>2 DEF Forget, Types, RunTypes, Doing, Transition
    <3>2. ~Held(On(r))
      BY <2>2, <3>1 DEF ReleaseInv, Forget
    <3>3. QED
      BY <2>1, <2>2, <3>2 DEF Held
  <2>3. ASSUME NEW r \in Procs, On(r) = run[q].on, Attest(r), Ended(r) PROVE FALSE
    <3>1. r = q
      BY <1>3, <2>3 DEF ContextInv, Attest, On
    <3>2. QED
      BY <1>3, <2>3, <3>1 DEF Ended
  <2>4. QED
    BY <2>1, <2>2, <2>3, ContextStep
<1>4. context'[On(p)'] = "torn"
  <2>1. CASE run[p].at = "attest"
    BY <1>1, <1>2, <1>3, <2>1 DEF On
  <2>2. CASE Intent(p) /\ context[run[p].on] = "absent" /\ run'[p] # run[p]
    <3>1. context' = [context EXCEPT ![On(p)] = "torn"]
      BY <1>1, <2>2, EndsMoves DEF Intent, Ended, Types
    <3>2. QED
      BY <1>1, <1>2, <3>1 DEF On, Types, FileTypes
  <2>3. QED
    BY <1>1, <1>2, <2>1, <2>2
<1>5. ASSUME NEW q \in Procs, run'[q].at = "attest", run'[q].on = run'[p].on PROVE q = p
  <2>1. CASE run[q].at = "attest" /\ run[p].at = "attest"
    BY <1>1, <1>2, <1>5, <2>1 DEF ContextInv, On
  <2>2. CASE Intent(q) /\ run'[q] # run[q]
    <3>1. Others(q)
      BY <2>2, QuietStep
    <3>2. QED
      BY <1>1, <1>2, <1>5, <2>2, <3>1 DEF Others, Intent
  <2>3. CASE Intent(p) /\ run'[p] # run[p]
    <3>1. Others(p)
      BY <2>3, QuietStep
    <3>2. QED
      BY <1>1, <1>2, <1>5, <2>3, <3>1 DEF Others, Intent
  <2>4. QED
    BY <1>1, <1>2, <1>5, <2>1, <2>2, <2>3
<1>6. QED
  BY <1>1, <1>4, <1>5

\* What a finalizer does next, and what it then knows.
LEMMA FinalizeFlow ==
  ASSUME Types, Next, NEW q \in Procs, run'[q].script = "finalize"
  PROVE  \/ run'[q] = run[q]
         \/ Finalize(q, run'[q].on) /\ run'[q].on \in Lifecycles /\ run'[q].at = "probe"
         \/ /\ run[q].script = "finalize" /\ run'[q].on = run[q].on
            /\ \/ At(q, "probe") /\ run'[q].at = "unlink" /\ ~Held(On(q))
               \/ At(q, "unlink") /\ run'[q].at = "check" /\ mutex'[On(q)] = "absent"
               \/ run[q].at \in Transition /\ run'[q].at \in Transition
               \/ /\ At(q, "sync") /\ run'[q].at = "forget" /\ Others(q)
                  /\ UNCHANGED records
<1> USE DEF At, Transition
<1>2. ASSUME NEW l \in Lifecycles, Launches(q, l)
      PROVE  Finalize(q, run'[q].on) /\ run'[q].on \in Lifecycles /\ run'[q].at = "probe"
  BY <1>2 DEF Launches
<1>3. ASSUME run[q].script = "finalize"
      PROVE  /\ run[q].at \in {"probe", "unlink", "forget"} \cup Transition
             /\ run[q].on \in Lifecycles
             /\ run[q].target = SourceReleased
  BY <1>3 DEF Types, RunTypes, Doing
<1> DEFINE Moved ==
      /\ run[q].script = "finalize" /\ run'[q].on = run[q].on
      /\ \/ At(q, "probe") /\ run'[q].at = "unlink" /\ ~Held(On(q))
         \/ At(q, "unlink") /\ run'[q].at = "check" /\ mutex'[On(q)] = "absent"
         \/ run[q].at \in Transition /\ run'[q].at \in Transition
         \/ /\ At(q, "sync") /\ run'[q].at = "forget" /\ Others(q)
            /\ UNCHANGED records
<1>4. ASSUME run[q].script = "finalize", Went(q, "create") \/ Went(q, "write") \/ Went(q, "sync"),
             Check(q) \/ Create(q) \/ Write(q)
      PROVE  Moved
  BY <1>4 DEF Check, Create, Write, Went
<1>5. ASSUME run[q].script = "finalize", Sync(q), UNCHANGED records, Went(q, "forget")
      PROVE  Moved
  BY <1>5 DEF Sync, Went
<1>6. ASSUME run[q].script = "finalize", Probe(q), Went(q, "unlink"), ~Held(On(q))
      PROVE  Moved
  BY <1>6 DEF Probe, Went
<1>7. ASSUME run[q].script = "finalize", Unlink(q), Went(q, "check"),
             mutex' = [mutex EXCEPT ![On(q)] = "absent"]
      PROVE  Moved
  BY <1>3, <1>7 DEF Unlink, Went, On, Types, FileTypes
<1>8. ASSUME run[q].script = "finalize",
             Truncate(q) \/ Bind(q) \/ Intent(q) \/ Register(q) \/ Inspect(q) \/ Remove(q)
      PROVE  FALSE
  BY <1>3, <1>8 DEF Truncate, Bind, Intent, Register, Inspect, Remove
<1>9. CASE GoesOn(q)
  BY <1>4, <1>5, <1>6, <1>7, <1>8, <1>9 DEF GoesOn
<1>10. QED
  BY <1>2, <1>9, Flow

\* What a finalizer established stays true until it is done.
LEMMA ReleaseStep ==
  ASSUME Types, RecordInv, ReleaseInv, ContextInv, Next
  PROVE  ReleaseInv'
<1>1. ASSUME NEW l \in Lifecycles, supervisor[l] = "closed", ~Held(l),
             context[l] = "full" \/ Durable(l)
      PROVE  /\ supervisor'[l] = "closed" /\ ~Held(l)'
             /\ context'[l] = "full" \/ Durable(l)'
  BY <1>1, SupervisorStep, HeldFalls, ContextKept
<1>2. ASSUME NEW q \in Procs, run[q].script = "finalize"
      PROVE  /\ run[q].on \in Lifecycles /\ run[q].target = SourceReleased
             /\ run[q].at \in {"probe", "unlink", "forget"} \cup Transition
  BY <1>2 DEF Types, RunTypes, Doing
\* Lock-B's file, and the record of its release
<1>3. ASSUME NEW l \in Lifecycles, mutex'[l] = "absent"
      PROVE  /\ supervisor'[l] = "closed" /\ ~Held(l)'
             /\ context'[l] = "full" \/ Durable(l)'
  <2>1. CASE mutex[l] = "absent"
    BY <1>1, <2>1 DEF ReleaseInv
  <2>2. ASSUME NEW p \in Procs, Unlink(p), On(p) = l
        PROVE  supervisor[l] = "closed" /\ ~Held(l) /\ (context[l] = "full" \/ Durable(l))
    <3>1. At(p, "unlink") /\ run[p].script = "finalize"
      BY <2>2 DEF Unlink, At, Types, RunTypes, Doing, Transition
    <3>2. QED
      BY <2>2, <3>1 DEF ReleaseInv, At
  <2>3. QED
    BY <1>1, <1>3, <2>1, <2>2, MutexStep
<1>4. ASSUME NEW l \in Lifecycles, Exists(l, SourceReleased)'
      PROVE  mutex'[l] = "absent"
  <2>1. CASE Exists(l, SourceReleased)
    BY <2>1, MutexStep DEF ReleaseInv
  <2>2. CASE UNCHANGED records
    BY <1>4, <2>1, <2>2 DEF Exists
  <2>3. ASSUME NEW p \in Procs, ~Exists(l, SourceReleased),
               Create(p) \/ Write(p) \/ Sync(p), ~UNCHANGED records
        PROVE  mutex'[l] = "absent"
    <3>1. PICK v : Puts(p, v)
      BY <2>3, TransitionStep
    <3>2. On(p) \in Lifecycles /\ run[p].target \in States /\ SourceReleased \in States
      BY <2>3, TransitionStep DEF SourceReleased, States
    <3>3. On(p) = l /\ run[p].target = SourceReleased
      BY <1>4, <2>3, <3>1, <3>2, RecordPut DEF Exists, Types
    <3>4. run[p].at \in Transition
      BY <2>3 DEF Create, Write, Sync, At, Transition
    <3>5. run[p].script = "finalize"
      BY <3>3, <3>4 DEF Types, RunTypes, Doing, Transition, Allocated, SourceActive,
         SourceClosing, SourceReleased, Disposing, Disposed
    <3>6. QED
      BY <3>3, <3>4, <3>5, MutexStep DEF ReleaseInv
  <2>4. QED
    BY <2>1, <2>2, <2>3, StepKinds, QuietStep
\* The finalizers
<1>5. ASSUME NEW q \in Procs, run'[q].script = "finalize"
      PROVE  /\ supervisor'[On(q)'] = "closed"
             /\ context'[On(q)'] = "full" \/ Durable(On(q))'
             /\ ~At(q, "probe")' => ~Held(On(q))'
             /\ run'[q].at \in Transition \cup {"forget"} => mutex'[On(q)'] = "absent"
             /\ At(q, "forget")' => Durable(On(q))'
  <2>1. run'[q].on \in Lifecycles
    BY <1>2, <1>5, FinalizeFlow DEF On
  <2>2. PICK l \in Lifecycles : run'[q].on = l
    BY <2>1
  <2>3. supervisor[l] = "closed" /\ (context[l] = "full" \/ Durable(l))
    BY <1>5, <2>2, FinalizeFlow DEF ReleaseInv, On, Finalize
  <2>4. supervisor'[l] = "closed" /\ (context'[l] = "full" \/ Durable(l)')
    BY <2>3, SupervisorStep, ContextKept
  <2>5. ASSUME run'[q].at # "probe" PROVE ~Held(l)
    BY <1>5, <2>2, <2>5, FinalizeFlow DEF ReleaseInv, On, At, Transition
  <2>6. ASSUME run'[q].at \in Transition \cup {"forget"} PROVE mutex'[l] = "absent"
    <3>1. \/ mutex'[l] = "absent"
          \/ run[q].script = "finalize" /\ run[q].on = l
             /\ run[q].at \in Transition \cup {"forget"}
      BY <1>5, <2>2, <2>6, FinalizeFlow DEF At, On, Transition
    <3>2. QED
      BY <3>1, MutexStep DEF ReleaseInv, On
  <2>7. ASSUME run'[q].at = "forget" PROVE Durable(l)'
    <3>1. \/ /\ run[q].script = "finalize" /\ run[q].on = l /\ At(q, "forget")
          \/ /\ run[q].script = "finalize" /\ run[q].on = l /\ At(q, "sync")
             /\ Others(q) /\ UNCHANGED records
      BY <1>5, <2>2, <2>7, FinalizeFlow DEF At, Transition
    <3>2. CASE run[q].script = "finalize" /\ run[q].on = l /\ At(q, "forget")
      BY <3>2, DurableKept DEF ReleaseInv, On
    <3>3. CASE /\ run[q].script = "finalize" /\ run[q].on = l /\ At(q, "sync")
               /\ Others(q) /\ UNCHANGED records
      <4>1. records[l][SourceReleased] = "full" /\ Writing(q, l, SourceReleased)
        BY <1>2, <3>3 DEF RecordInv, Writing, At, On
      <4>2. \A r \in Procs : r # q => ~Writing(r, l, SourceReleased)
        BY <4>1 DEF RecordInv, SourceReleased, States
      <4>3. QED
        BY <2>7, <3>3, <4>1, <4>2 DEF Durable, Writing, Others
    <3>4. QED
      BY <3>1, <3>2, <3>3
  <2>8. QED
    BY <2>2, <2>4, <2>5, <2>6, <2>7, HeldFalls DEF At, On
<1>6. QED
  BY <1>3, <1>4, <1>5 DEF ReleaseInv

-----------------------------------------------------------------------------
(* Disposals                                                                *)

\* Who changes a record is in a transition to it.
LEMMA RecordChanged ==
  ASSUME Types, Next, NEW l \in Lifecycles, NEW s \in States, records'[l][s] # records[l][s]
  PROVE  \E p \in Procs :
            /\ On(p) = l /\ run[p].target = s /\ (Create(p) \/ Write(p) \/ Sync(p))
            /\ \/ At(p, "create") /\ ~Exists(l, s) /\ records'[l][s] = "torn"
               \/ At(p, "write") \/ At(p, "sync")
<1>1. PICK p \in Procs : (Create(p) \/ Write(p) \/ Sync(p)) /\ records' # records
  BY StepKinds, QuietStep
<1>2. PICK v : /\ Puts(p, v)
                 /\ \/ At(p, "create") /\ ~Exists(On(p), run[p].target) /\ v = "torn"
                    \/ At(p, "write") \/ At(p, "sync")
  BY <1>1, TransitionStep
<1>3. On(p) \in Lifecycles /\ run[p].target \in States
  BY <1>1, TransitionStep
<1>4. On(p) = l /\ run[p].target = s /\ records'[l][s] = v
  BY <1>2, <1>3, RecordPut DEF Types
<1>5. QED
  BY <1>1, <1>2, <1>4

\* Lock-A is taken when it is free, and given up by the process that ends.
LEMMA LockStep ==
  ASSUME Types, Next, NEW q \in Procs, registryLock = q, run'[q].script # "none"
  PROVE  registryLock' = q
<1> USE DEF locks
<1>1. q # NoProc
  BY NamesAssumption
<1>2. ASSUME NEW p \in Procs, Ends(p) PROVE registryLock' = q
  BY <1>2, EndsMoves DEF Ended, Types
<1>3. ASSUME NEW p \in Procs, Check(p) \/ Create(p) \/ Write(p) PROVE registryLock' = q
  BY <1>2, <1>3 DEF Check, Create, Write
<1>4. ASSUME NEW p \in Procs, Sync(p) PROVE registryLock' = q
  BY <1>2, <1>4 DEF Sync, Continues
<1>5. ASSUME NEW p \in Procs, Truncate(p) \/ Bind(p) \/ Intent(p) \/ Attest(p)
      PROVE  registryLock' = q
  BY <1>2, <1>5 DEF Truncate, Bind, Intent, Attest
<1>6. ASSUME NEW p \in Procs, Probe(p) \/ Unlink(p) \/ Forget(p) PROVE registryLock' = q
  BY <1>2, <1>6 DEF Probe, Unlink, Forget
<1>7. ASSUME NEW p \in Procs, Register(p) \/ Inspect(p) \/ Remove(p) \/ Retire(p) \/ Killed(p)
      PROVE  registryLock' = q
  BY <1>1, <1>2, <1>7 DEF Register, Inspect, Remove, Retire, Killed
<1>8. ASSUME NEW p \in Procs, NEW k \in Lifecycles, Launch(p, k) PROVE registryLock' = q
  BY <1>8 DEF Launch, Allocate, Acquire, Close, Prepare, Finalize, Dispose
<1>9. ASSUME NEW k \in Lifecycles, SupervisorCloses(k) \/ SupervisorDies(k)
      PROVE  registryLock' = q
  BY <1>9 DEF SupervisorCloses, SupervisorDies
<1>10. QED
  BY <1>3, <1>4, <1>5, <1>6, <1>7, <1>8, <1>9 DEF Next, Step

\* What the steps of a disposal alone do.
LEMMA DisposalFiles ==
  ASSUME Types, Next
  PROVE  /\ \/ UNCHANGED disposalContext
            \/ \E p \in Procs : \/ Inspect(p) /\ Fresh(On(p)) /\ disposalContext' = On(p)
                                \/ Retire(p) /\ disposalContext' = NoLifecycle
         /\ UNCHANGED removals \/ \E p \in Procs : Remove(p)
         /\ \A l \in Lifecycles : worktree'[l] => worktree[l]
<1> USE DEF files, world
<1>1. ASSUME NEW p \in Procs, Check(p) \/ Create(p) \/ Write(p) \/ Sync(p)
      PROVE  UNCHANGED <<disposalContext, removals, worktree>>
  BY <1>1 DEF Check, Create, Write, Sync
<1>2. ASSUME NEW p \in Procs, Truncate(p) \/ Bind(p) \/ Intent(p) \/ Attest(p)
      PROVE  UNCHANGED <<disposalContext, removals, worktree>>
  BY <1>2 DEF Truncate, Bind, Intent, Attest
<1>3. ASSUME NEW p \in Procs, Probe(p) \/ Unlink(p) \/ Forget(p) \/ Register(p) \/ Killed(p)
      PROVE  UNCHANGED <<disposalContext, removals, worktree>>
  BY <1>3 DEF Probe, Unlink, Forget, Register, Killed
<1>4. ASSUME NEW p \in Procs, Inspect(p)
      PROVE  /\ UNCHANGED <<removals, worktree>>
             /\ \/ UNCHANGED disposalContext
                \/ Fresh(On(p)) /\ disposalContext' = On(p)
  BY <1>4 DEF Inspect
<1>5. ASSUME NEW p \in Procs, Retire(p)
      PROVE  UNCHANGED <<removals, worktree>> /\ disposalContext' = NoLifecycle
  BY <1>5 DEF Retire
<1>6. ASSUME NEW p \in Procs, Remove(p)
      PROVE  /\ UNCHANGED disposalContext
             /\ \A l \in Lifecycles : worktree'[l] => worktree[l]
  BY <1>6 DEF Remove, Types, FileTypes
<1>7. ASSUME NEW p \in Procs, NEW k \in Lifecycles, Launch(p, k)
      PROVE  UNCHANGED <<disposalContext, removals, worktree>>
  BY <1>7 DEF Launch, Allocate, Acquire, Close, Prepare, Finalize, Dispose
<1>8. ASSUME NEW k \in Lifecycles, SupervisorCloses(k) \/ SupervisorDies(k)
      PROVE  UNCHANGED <<disposalContext, removals, worktree>>
  BY <1>8 DEF SupervisorCloses, SupervisorDies
<1>9. QED
  BY <1>1, <1>2, <1>3, <1>4, <1>5, <1>6, <1>7, <1>8 DEF Next, Step

\* Each step of its own takes a disposal to another place.
LEMMA Moving ==
  ASSUME Types, Next, NEW p \in Procs, Inspect(p) \/ Retire(p) \/ Remove(p)
  PROVE  run'[p].at # run[p].at
<1> USE DEF At, Points
<1>1. ASSUME Ends(p), run[p].at # "start" PROVE run'[p].at # run[p].at
  BY <1>1, EndsMoves DEF Ended, Types
<1>2. ASSUME Goes(p, "check"), run[p].at # "check" PROVE run'[p].at # run[p].at
  BY <1>2, GoesMoves DEF Went, Types
<1>3. QED
  BY <1>1, <1>2, RemoveMoves DEF Inspect, Retire, Remove, Types

\* Whoever is past Lock-A holds it.
PastLock(p) == run[p].script = "dispose" /\ ~At(p, "register")
\* What DisposalInv says of a process that is at such a place.
LEMMA PastLockHolds ==
  ASSUME Types, DisposalInv, NEW p \in Procs,
         \/ run[p].at \in {"inspect", "remove", "retire"}
         \/ run[p].at \in Transition /\ run[p].target \in {Disposing, Disposed}
  PROVE  /\ PastLock(p) /\ registryLock = p /\ On(p) \in Lifecycles
         /\ At(p, "inspect") \/ At(p, "remove") => run[p].target = Disposing
         /\ At(p, "retire") => run[p].target = Disposed
         /\ ~At(p, "inspect") => disposalContext = On(p)
         /\ run[p].target = Disposing => removals[On(p)] = 0 \/ At(p, "inspect")
         /\ At(p, "remove") => records[On(p)][Disposing] = "full"
         /\ run[p].target = Disposed =>
               /\ removals[On(p)] = 1 /\ ~worktree[On(p)]
               /\ At(p, "retire") => records[On(p)][Disposed] = "full"
<1>1. /\ run[p].script = "dispose" /\ ~At(p, "register") /\ On(p) \in Lifecycles
      /\ At(p, "inspect") \/ At(p, "remove") => run[p].target = Disposing
      /\ At(p, "retire") => run[p].target = Disposed
  BY DEF Types, RunTypes, Doing, Transition, At, On, Allocated, SourceActive, SourceClosing,
     SourceReleased, Disposing, Disposed
<1>2. QED
  BY <1>1 DEF DisposalInv, PastLock

\* The disposal that was in the way of every other one goes on.
LEMMA DisposalStep ==
  ASSUME Types, RecordInv, DisposalInv, Next
  PROVE  DisposalInv'
<1> USE DEF At
<1>1. Disposing \in States /\ Disposed \in States /\ Disposing # Disposed
  BY DEF Disposing, Disposed, States
\* A record of a disposal is touched by its owner only.
<1>2. ASSUME NEW l \in Lifecycles, NEW s \in {Disposing, Disposed}, records'[l][s] # records[l][s]
      PROVE  \E p \in Procs : /\ On(p) = l /\ run[p].target = s /\ registryLock = p
                              /\ disposalContext = l
                              /\ s = Disposing => removals[l] = 0
                              /\ s = Disposed => ~worktree[l]
                              /\ run[p].at \in {"create", "write", "sync"}
                              /\ UNCHANGED removals
                              /\ records'[l][s] = "torn" \/ Exists(l, s)
  <2>1. PICK p \in Procs : /\ On(p) = l /\ run[p].target = s /\ (Create(p) \/ Write(p) \/ Sync(p))
                           /\ \/ At(p, "create") /\ records'[l][s] = "torn"
                              \/ At(p, "write") \/ At(p, "sync")
    BY <1>1, <1>2, RecordChanged
  <2>2. run[p].at \in {"create", "write", "sync"} /\ UNCHANGED removals
    BY <2>1 DEF Create, Write, Sync, world
  <2>3. At(p, "write") \/ At(p, "sync") => Exists(l, s)
    BY <2>1 DEF RecordInv, Exists
  <2>4. QED
    BY <2>1, <2>2, <2>3, PastLockHolds DEF Transition
<1>3. ASSUME NEW p \in Procs, Remove(p)
      PROVE  /\ On(p) \in Lifecycles /\ registryLock = p /\ run[p].target = Disposing
             /\ removals[On(p)] = 0 /\ records[On(p)][Disposing] = "full"
             /\ UNCHANGED records /\ removals' = [removals EXCEPT ![On(p)] = 1]
  <2>1. run[p].at = "remove"
    BY <1>3 DEF Remove
  <2>2. removals[On(p)] = 0
    BY <2>1, PastLockHolds
  <2>3. removals' = [removals EXCEPT ![On(p)] = removals[On(p)] + 1]
    BY <1>3 DEF Remove
  <2>4. QED
    BY <1>3, <2>1, <2>2, <2>3, PastLockHolds DEF Remove
<1>4. RemovedOnce'
  <2> SUFFICES ASSUME NEW l \in Lifecycles
               PROVE  /\ removals'[l] <= 1
                      /\ removals'[l] = 1 => records'[l][Disposing] = "full"
                      /\ Exists(l, Disposed)' => ~worktree'[l]
    BY DEF RemovedOnce
  <2>1. /\ removals[l] <= 1 /\ removals[l] \in Nat
        /\ removals[l] = 1 => records[l][Disposing] = "full"
        /\ Exists(l, Disposed) => ~worktree[l]
    BY DEF DisposalInv, RemovedOnce, Types, FileTypes
  <2>2. \/ removals'[l] = removals[l]
        \/ removals'[l] = 1 /\ records[l][Disposing] = "full" /\ UNCHANGED records
    BY <1>3, DisposalFiles DEF Types, FileTypes
  <2>3. removals'[l] = 1 => records'[l][Disposing] = "full"
    BY <1>2, <2>1, <2>2
  <2>4. Exists(l, Disposed)' => ~worktree'[l]
    BY <1>2, <2>1, DisposalFiles DEF Exists
  <2>5. QED
    BY <2>1, <2>2, <2>3, <2>4
<1>5. UnfinishedIsNamed'
  <2> SUFFICES ASSUME NEW l \in Lifecycles, Exists(l, Disposing)', records'[l][Disposed] # "full"
               PROVE  disposalContext' = l
    BY DEF UnfinishedIsNamed
  <2>1. l # NoLifecycle
    BY NamesAssumption
  <2>2. disposalContext = l \/ (Exists(l, Disposing) /\ records[l][Disposed] # "full")
    BY <1>2 DEF Exists
  <2>3. disposalContext = l
    BY <2>2 DEF DisposalInv, UnfinishedIsNamed
  <2>4. ASSUME NEW p \in Procs, Inspect(p), Fresh(On(p)) PROVE FALSE
    BY <2>1, <2>3, <2>4 DEF Fresh
  <2>5. ASSUME NEW p \in Procs, Retire(p) PROVE FALSE
    <3>1. run[p].at = "retire" /\ UNCHANGED records
      BY <2>5 DEF Retire
    <3>2. On(p) = l /\ records[l][Disposed] = "full"
      BY <2>3, <3>1, PastLockHolds
    <3>3. QED
      BY <3>1, <3>2
  <2>6. QED
    BY <2>3, <2>4, <2>5, DisposalFiles
<1>6. ASSUME NEW q \in Procs, run'[q].script = "dispose", run'[q].at # "register"
      PROVE  /\ registryLock' = q
             /\ run'[q].at # "inspect" => disposalContext' = On(q)'
             /\ run'[q].target = Disposing => removals'[On(q)'] = 0 \/ run'[q].at = "inspect"
             /\ run'[q].at = "remove" => records'[On(q)'][Disposing] = "full"
             /\ run'[q].target = Disposed =>
                   /\ removals'[On(q)'] = 1 /\ ~worktree'[On(q)']
                   /\ run'[q].at = "retire" => records'[On(q)'][Disposed] = "full"
  \* Nobody else is past Lock-A.
  <2>1. CASE run'[q] = run[q]
    <3>1. /\ PastLock(q) /\ On(q) \in Lifecycles /\ registryLock = q /\ registryLock' = q
          /\ On(q)' = On(q)
      BY <1>6, <2>1, LockStep DEF PastLock, DisposalInv, Types, RunTypes, Doing, On
    <3>2. ASSUME NEW p \in Procs, Inspect(p) \/ Retire(p) \/ Remove(p) PROVE p = q
      BY <3>1, <3>2, PastLockHolds DEF Inspect, Retire, Remove
    <3>3. ASSUME NEW p \in Procs, Inspect(p) \/ Retire(p) \/ Remove(p)
          PROVE  run'[p] # run[p]
      BY <3>3, Moving
    <3>4. UNCHANGED <<disposalContext, removals>>
      BY <2>1, <3>2, <3>3, DisposalFiles
    <3>5. ASSUME NEW s \in {Disposing, Disposed}, records[On(q)][s] = "full",
                 run[q].at \in {"remove", "retire"}
          PROVE  records'[On(q)][s] = "full"
      BY <1>2, <3>1, <3>5
    <3>6. QED
      BY <1>6, <2>1, <3>1, <3>4, <3>5, DisposalFiles DEF DisposalInv, PastLock
  <2>2. CASE GoesOn(q)
    <3> DEFINE l == On(q)
    <3>1. /\ run[q].script = "dispose" /\ On(q)' = l /\ l \in Lifecycles
          /\ run[q].at = "register" => run[q].target = Disposing
      BY <1>6, <2>2 DEF GoesOn, On, Types, RunTypes, Doing, Transition
    <3>2. CASE Register(q) /\ Went(q, "inspect") /\ registryLock' = q
      BY <3>1, <3>2, <1>1 DEF Went, Register
    <3>3. CASE /\ Inspect(q) /\ Went(q, "check") /\ UNCHANGED locks
               /\ Fresh(l) /\ disposalContext' = l
      <4>1. registryLock' = q /\ run[q].target = Disposing
        BY <3>3, PastLockHolds DEF Inspect, locks
      <4>2. removals'[l] = 0
        <5>1. ~Exists(l, Disposing) /\ removals[l] <= 1 /\ removals[l] \in Nat /\ UNCHANGED removals
          BY <3>1, <3>3 DEF Fresh, Inspect, world, DisposalInv, RemovedOnce, Types, FileTypes
        <5>2. removals[l] # 1
          BY <3>1, <5>1 DEF DisposalInv, RemovedOnce, Exists
        <5>3. QED
          BY <5>1, <5>2
      <4>3. QED
        BY <1>1, <3>1, <3>3, <4>1, <4>2 DEF Went
    <3>4. CASE /\ Remove(q) /\ UNCHANGED locks /\ run'[q].at = "check"
               /\ run'[q].target = Disposed
               /\ worktree' = [worktree EXCEPT ![l] = FALSE]
      <4>1. registryLock' = q /\ disposalContext' = l
        BY <3>4, PastLockHolds DEF Remove, locks, files
      <4>2. removals'[l] = 1 /\ ~worktree'[l]
        BY <1>3, <3>1, <3>4 DEF Types, FileTypes
      <4>3. QED
        BY <1>1, <3>1, <3>4, <4>1, <4>2
    <3>5. CASE /\ run[q].at \in Transition
               /\ UNCHANGED <<locks, disposalContext, removals, worktree>>
               /\ \/ run'[q].at \in Transition
                  \/ /\ run'[q].at = "remove" /\ run[q].target = Disposing
                     /\ run[q].at = "sync" /\ UNCHANGED records
                  \/ /\ run'[q].at = "retire" /\ run[q].target = Disposed
                     /\ run[q].at = "sync" /\ UNCHANGED records
               /\ run'[q].target = run[q].target
      <4>1. run[q].target \in {Disposing, Disposed}
        BY <3>1, <3>5 DEF Types, RunTypes, Doing
      <4>2. run[q].at = "sync" => records[l][run[q].target] = "full"
        BY DEF RecordInv
      <4>3. /\ registryLock = q /\ disposalContext = l
            /\ run[q].target = Disposing => removals[l] = 0
            /\ run[q].target = Disposed => removals[l] = 1 /\ ~worktree[l]
        BY <3>5, <4>1, PastLockHolds DEF Transition
      <4>4. QED
        BY <1>1, <3>1, <3>5, <4>1, <4>2, <4>3 DEF locks, Transition
    <3>6. ASSUME Truncate(q) \/ Bind(q) \/ Intent(q) \/ Probe(q) \/ Unlink(q)
          PROVE  FALSE
      BY <3>1, <3>6 DEF Truncate, Bind, Intent, Probe, Unlink, Types, RunTypes, Doing, Transition
    <3>7. ASSUME \/ Check(q) /\ Went(q, "create") /\ UNCHANGED locks
                 \/ Create(q) /\ Went(q, "write") /\ UNCHANGED locks
                 \/ Write(q) /\ Went(q, "sync") /\ UNCHANGED locks
          PROVE  /\ run[q].at \in Transition /\ run'[q].at \in Transition
                 /\ UNCHANGED <<locks, disposalContext, removals, worktree>>
                 /\ run'[q].target = run[q].target
      BY <3>7 DEF Check, Create, Write, Went, Transition, files, world
    <3>8. ASSUME Sync(q), UNCHANGED <<records, locks>>,
                 \/ Went(q, "remove") /\ run[q].target = Disposing
                 \/ Went(q, "retire") /\ run[q].target = Disposed
          PROVE  /\ run[q].at = "sync" /\ run[q].at \in Transition
                 /\ UNCHANGED <<locks, disposalContext, removals, worktree>>
                 /\ \/ run'[q].at = "remove" /\ run[q].target = Disposing
                    \/ run'[q].at = "retire" /\ run[q].target = Disposed
                 /\ run'[q].target = run[q].target
      BY <3>8 DEF Sync, Went, Transition, files, world
    <3>9. QED
      BY <2>2, <3>1, <3>2, <3>3, <3>4, <3>5, <3>6, <3>7, <3>8 DEF GoesOn
  <2>3. QED
    BY <1>6, <2>1, <2>2, Flow DEF Launches
<1>7. QED
  BY <1>4, <1>5, <1>6 DEF DisposalInv

-----------------------------------------------------------------------------
(* The theorems                                                             *)

\* The supervisor created Lock-B, and nothing else has happened.
LEMMA InitIInv ==
  ASSUME Init
  PROVE  IInv
<1> USE DEF Init, States, Allocated, SourceActive, SourceClosing, SourceReleased, Disposing,
            Disposed
<1>1. \A p \in Procs : run[p] = Idle
  OBVIOUS
<1>2. /\ Idle.script = "none" /\ Idle.at = "start" /\ Idle.on = NoLifecycle
      /\ Idle \in RunType
  BY DEF Idle, RunType, Points
<1>3. Types
  BY <1>1, <1>2 DEF Types, RunTypes, FileTypes, Doing
<1>4. RecordInv /\ ContextInv
  BY <1>1, <1>2 DEF RecordInv, ContextInv, Writing, At
<1>5. ChainInv
  BY <1>1, <1>2 DEF ChainInv, ChainContiguous, Exists
<1>6. ReleaseInv
  BY <1>1, <1>2 DEF ReleaseInv, Exists
<1>7. DisposalInv
  BY <1>1, <1>2 DEF DisposalInv, RemovedOnce, UnfinishedIsNamed, Exists
<1>8. QED
  BY <1>3, <1>4, <1>5, <1>6, <1>7 DEF IInv

\* IInv is inductive.
LEMMA StepIInv ==
  ASSUME IInv, [Next]_vars
  PROVE  IInv'
<1>1. CASE Next
  BY <1>1, RunTypesStep, FileTypesStep, RecordStep, ChainStep, ReleaseStep, ContextInvStep,
     DisposalStep DEF IInv, Types
<1>2. CASE UNCHANGED vars
  <2> USE <1>2 DEF vars, locks, files, world
  <2>1. Types'
    BY DEF IInv, Types, RunTypes, FileTypes
  <2>2. RecordInv' /\ ContextInv'
    BY DEF IInv, RecordInv, ContextInv, Writing, At, On
  <2>3. ChainInv'
    BY DEF IInv, ChainInv, ChainContiguous, Exists, On
  <2>4. ReleaseInv'
    BY DEF IInv, ReleaseInv, Exists, Held, Durable, Writing, At, On
  <2>5. DisposalInv'
    BY DEF IInv, DisposalInv, RemovedOnce, UnfinishedIsNamed, Exists, At, On
  <2>6. QED
    BY <2>1, <2>2, <2>3, <2>4, <2>5 DEF IInv
<1>3. QED
  BY <1>1, <1>2

\* The invariant holds in every behaviour.
LEMMA Inductive == Spec => []IInv
<1>1. Init => IInv
  BY InitIInv
<1>2. IInv /\ [Next]_vars => IInv'
  BY StepIInv
<1>3. QED
  BY <1>1, <1>2, PTL DEF Spec

\* Whatever scripts race, fail or are killed, the records of a lifecycle are a
\* chain: one is there only when all earlier ones are there in full, unless an
\* fsync failed in it.
THEOREM RecordsAreAChain == Spec => []ChainContiguous
<1>1. IInv => ChainContiguous
  BY DEF IInv, ChainInv
<1>2. QED
  BY <1>1, Inductive, PTL

\* Lock-B's file goes only through a handoff: a supervisor that closed it, a
\* context or a durable record of the release, and nobody who still holds it.
THEOREM LockBGoesByHandoff == Spec => []ReleasedByHandoff
<1>1. IInv => ReleasedByHandoff
  BY DEF IInv, ReleaseInv, ReleasedByHandoff, Durable
<1>2. QED
  BY <1>1, Inductive, PTL

\* A worktree is removed at most once, with its claim on disk, and a lifecycle
\* that is disposed has none.
THEOREM WorktreeRemovedOnce == Spec => []RemovedOnce
<1>1. IInv => RemovedOnce
  BY DEF IInv, DisposalInv
<1>2. QED
  BY <1>1, Inductive, PTL

\* A disposal that was claimed and did not finish is named by the registry's
\* context.
THEOREM UnfinishedDisposalNamed == Spec => []UnfinishedIsNamed
<1>1. IInv => UnfinishedIsNamed
  BY DEF IInv, DisposalInv
<1>2. QED
  BY <1>1, Inductive, PTL
============================================================
