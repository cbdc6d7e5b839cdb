-------------------------- MODULE EvidenceLifecycle --------------------------
(***************************************************************************)
(* The lifecycle of a disposable source root (scripts/evidence): six       *)
(* create-once records in a directory, Lock-B that a supervisor holds for  *)
(* as long as the source is in use, and Lock-A that serializes disposals.  *)
(* Each step of the lifecycle is a script of its own; any number of them   *)
(* run at once, and each may be killed between two system calls.  What     *)
(* they share is the file system, so one step is one system call that the  *)
(* other scripts can see.                                                  *)
(*                                                                         *)
(* Digests, evidence files and identities of inodes are abstracted to the  *)
(* verdict that they match; nobody replaces a directory or a lock file.    *)
(* What a script reads before its first write is read in one step: it is   *)
(* checked again, or is excluded by O_EXCL or a lock, where it matters.    *)
(* An error of a system call that changes nothing ends the script, which   *)
(* is what Killed does.                                                    *)
(***************************************************************************)
EXTENDS Integers, FiniteSets

CONSTANTS
    Lifecycles,        \* lifecycle directories under one registry
    Procs,             \* script runs at any one time
    NoProc, NoLifecycle

ASSUME NamesAssumption == NoProc \notin Procs /\ NoLifecycle \notin Lifecycles

\* STATES, each with its file.
Allocated == 0
SourceActive == 1
SourceClosing == 2
SourceReleased == 3
Disposing == 4
Disposed == 5
States == 0..5

VARIABLES
    records,           \* per lifecycle and state: "absent", "torn", "full"
    mutex,             \* Lock-B's file: "blank", "bound" (names its owner), "absent"
    supervisor,        \* "holding" Lock-B, "closed" and acknowledged, "dead"
    context,           \* source-release-context.json: "absent", "torn", "full"
    prober,            \* the finalizer whose descriptor holds Lock-B
    worktree,          \* the root is there and registered with git
    registryLock,      \* the disposal that holds Lock-A
    disposalContext,   \* the lifecycle whose disposal wrote the registry's context
    run,               \* what each process is doing
    removals,          \* history: calls of git worktree remove
    unsynced           \* history: the lifecycle in which the fsync of a record failed

locks == <<prober, registryLock>>
files == <<mutex, context, disposalContext>>
world == <<supervisor, worktree, removals, unsynced>>
vars == <<records, locks, files, world, run>>

Idle == [script |-> "none", on |-> NoLifecycle, at |-> "start", target |-> Allocated]
Scripts == {"allocate", "acquire", "close", "prepare", "finalize", "dispose"}
Init ==
    /\ records = [l \in Lifecycles |-> [s \in States |-> "absent"]]
    /\ mutex = [l \in Lifecycles |-> "blank"]       \* created by the supervisor
    /\ supervisor = [l \in Lifecycles |-> "holding"]
    /\ context = [l \in Lifecycles |-> "absent"]
    /\ prober = [l \in Lifecycles |-> NoProc]
    /\ worktree = [l \in Lifecycles |-> TRUE]
    /\ registryLock = NoProc
    /\ disposalContext = NoLifecycle
    /\ run = [p \in Procs |-> Idle]
    /\ removals = [l \in Lifecycles |-> 0]
    /\ unsynced = {}

-----------------------------------------------------------------------------
(* Helpers                                                                  *)

At(p, point) == run[p].at = point
On(p) == run[p].on
Starts(p, script, l, point, target) ==
    /\ run[p] = Idle
    /\ run' = [run EXCEPT ![p] = [script |-> script, on |-> l, at |-> point,
                                  target |-> target]]
Goes(p, point) == run' = [run EXCEPT ![p].at = point]

\* The process ends, by itself or by a signal: descriptors and locks go with it.
Ends(p) ==
    /\ run' = [run EXCEPT ![p] = Idle]
    /\ prober' = [l \in Lifecycles |-> IF prober[l] = p THEN NoProc ELSE prober[l]]
    /\ registryLock' = IF registryLock = p THEN NoProc ELSE registryLock

\* The supervisor's open file description holds Lock-B until the last
\* descriptor of it is closed, those that children inherited included.
Held(l) ==
    \/ supervisor[l] = "holding"
    \/ \E p \in Procs : run[p].on = l /\ run[p].script \in {"acquire", "prepare"}

Exists(l, s) == records[l][s] # "absent"

\* The history _run() wants before `target`: every earlier record and no other,
\* and a predecessor that parses.
HistoryBefore(l, target) ==
    /\ \A s \in States : Exists(l, s) <=> s < target
    /\ target > Allocated => records[l][target - 1] = "full"

-----------------------------------------------------------------------------
(* _run(): the transition every script ends in                              *)

Check(p) ==
    /\ At(p, "check")
    /\ IF HistoryBefore(On(p), run[p].target)
       THEN Goes(p, "create") /\ UNCHANGED locks
       ELSE Ends(p)
    /\ UNCHANGED <<records, files, world>>

\* Mutant: the record is opened without O_EXCL.
CreateShared(p) ==
    /\ At(p, "create")
    /\ records' = [records EXCEPT ![On(p)][run[p].target] = "torn"]
    /\ Goes(p, "write")
    /\ UNCHANGED <<locks, files, world>>

\* O_CREAT | O_EXCL: the file is there, empty, or the script fails.
Create(p) ==
    /\ At(p, "create")
    /\ IF Exists(On(p), run[p].target)
       THEN Ends(p) /\ UNCHANGED records
       ELSE /\ records' = [records EXCEPT ![On(p)][run[p].target] = "torn"]
            /\ Goes(p, "write") /\ UNCHANGED locks
    /\ UNCHANGED <<files, world>>

\* Where a script goes on once its record is durable.
Continues(p) ==
    CASE run[p].script = "finalize" -> Goes(p, "forget") /\ UNCHANGED locks
      [] run[p].target = Disposing -> Goes(p, "remove") /\ UNCHANGED locks
      [] run[p].target = Disposed -> Goes(p, "retire") /\ UNCHANGED locks
      [] OTHER -> Ends(p)

\* The contents are there for every reader, or the write failed and the record
\* is unlinked.
Write(p) ==
    /\ At(p, "write")
    /\ \/ /\ records' = [records EXCEPT ![On(p)][run[p].target] = "full"]
          /\ Goes(p, "sync") /\ UNCHANGED locks
       \/ /\ records' = [records EXCEPT ![On(p)][run[p].target] = "absent"]
          /\ Ends(p)
    /\ UNCHANGED <<files, world>>

\* fsync: the record is durable, or it is unlinked although it could be read
\* (bound: once).
Sync(p) ==
    /\ At(p, "sync")
    /\ \/ Continues(p) /\ UNCHANGED <<records, unsynced>>
       \/ /\ unsynced = {} /\ unsynced' = {On(p)}
          /\ records' = [records EXCEPT ![On(p)][run[p].target] = "absent"]
          /\ Ends(p)
    /\ UNCHANGED <<files, supervisor, worktree, removals>>

-----------------------------------------------------------------------------
(* allocate, acquire, close                                                 *)

Allocate(p, l) ==
    /\ \A s \in States : ~Exists(l, s)
    /\ context[l] = "absent"
    /\ Starts(p, "allocate", l, "check", Allocated)
    /\ UNCHANGED <<records, locks, files, world>>

\* admit() and supervisor_mutex(): the only entry is `allocated`, and the
\* inherited descriptor is the one that holds Lock-B.
Acquire(p, l) ==
    /\ supervisor[l] = "holding"
    /\ \A s \in States : Exists(l, s) <=> s = Allocated
    /\ records[l][Allocated] = "full"
    /\ context[l] = "absent"
    /\ mutex[l] # "absent"
    /\ Starts(p, "acquire", l, "truncate", SourceActive)
    /\ UNCHANGED <<records, locks, files, world>>

\* Lock-B's file is rewritten through the descriptor, in two calls.
Truncate(p) ==
    /\ At(p, "truncate")
    /\ mutex' = [mutex EXCEPT ![On(p)] = IF @ = "absent" THEN @ ELSE "blank"]
    /\ Goes(p, "bind")
    /\ UNCHANGED <<records, locks, context, disposalContext, world>>

\* require_visible_identity() wants the file under its name afterwards.
Bind(p) ==
    /\ At(p, "bind")
    /\ IF mutex[On(p)] = "absent"
       THEN Ends(p) /\ UNCHANGED mutex
       ELSE /\ mutex' = [mutex EXCEPT ![On(p)] = "bound"]
            /\ Goes(p, "check") /\ UNCHANGED locks
    /\ UNCHANGED <<records, context, disposalContext, world>>

Close(p, l) ==
    /\ records[l][SourceActive] = "full"
    /\ Starts(p, "close", l, "check", SourceClosing)
    /\ UNCHANGED <<records, locks, files, world>>

-----------------------------------------------------------------------------
(* release: prepare while the supervisor holds Lock-B, finalize after       *)

\* What main() asks for in either mode; validate_only runs _run()'s checks.
ReleaseReady(l) ==
    /\ records[l][SourceClosing] = "full"
    /\ HistoryBefore(l, SourceReleased)
    /\ mutex[l] = "bound"

Prepare(p, l) ==
    /\ ReleaseReady(l)
    /\ supervisor[l] = "holding"
    /\ context[l] = "absent"
    /\ Starts(p, "prepare", l, "intent", SourceReleased)
    /\ UNCHANGED <<records, locks, files, world>>

\* write_context(): O_EXCL, then the contents, or an unlink when that fails.
Intent(p) ==
    /\ At(p, "intent")
    /\ IF context[On(p)] # "absent"
       THEN Ends(p) /\ UNCHANGED context
       ELSE /\ context' = [context EXCEPT ![On(p)] = "torn"]
            /\ Goes(p, "attest") /\ UNCHANGED locks
    /\ UNCHANGED <<records, mutex, disposalContext, world>>

Attest(p) ==
    /\ At(p, "attest")
    /\ \E c \in {"full", "absent"} : context' = [context EXCEPT ![On(p)] = c]
    /\ Ends(p)
    /\ UNCHANGED <<records, mutex, disposalContext, world>>

\* The acknowledgment is the supervisor's, made after it closed Lock-B.
Finalize(p, l) ==
    /\ ReleaseReady(l)
    /\ context[l] = "full"
    /\ supervisor[l] = "closed"
    /\ Starts(p, "finalize", l, "probe", SourceReleased)
    /\ UNCHANGED <<records, locks, files, world>>

\* Mutant: the probe does not try the lock.
ProbeUnlocked(p) ==
    /\ At(p, "probe")
    /\ prober' = [prober EXCEPT ![On(p)] = p]
    /\ Goes(p, "unlink")
    /\ UNCHANGED <<records, registryLock, files, world>>

\* flock on a descriptor of its own: nobody else's may hold the lock.
Probe(p) ==
    /\ At(p, "probe")
    /\ IF Held(On(p)) \/ prober[On(p)] # NoProc
       THEN Ends(p)
       ELSE /\ prober' = [prober EXCEPT ![On(p)] = p]
            /\ Goes(p, "unlink") /\ UNCHANGED registryLock
    /\ UNCHANGED <<records, files, world>>

\* The unlink, and the close that gives up the lock.
Unlink(p) ==
    /\ At(p, "unlink")
    /\ IF mutex[On(p)] = "absent"
       THEN Ends(p) /\ UNCHANGED mutex
       ELSE /\ mutex' = [mutex EXCEPT ![On(p)] = "absent"]
            /\ prober' = [prober EXCEPT ![On(p)] = NoProc]
            /\ Goes(p, "check") /\ UNCHANGED registryLock
    /\ UNCHANGED <<records, context, disposalContext, world>>

\* finish(): the context goes once the release is recorded.
Forget(p) ==
    /\ At(p, "forget")
    /\ context' = [context EXCEPT ![On(p)] = "absent"]
    /\ Ends(p)
    /\ UNCHANGED <<records, mutex, disposalContext, world>>

-----------------------------------------------------------------------------
(* dispose                                                                  *)

Dispose(p, l) ==
    /\ records[l][SourceClosing] = "full" /\ records[l][SourceReleased] = "full"
    /\ Starts(p, "dispose", l, "register", Disposing)
    /\ UNCHANGED <<records, locks, files, world>>

\* acquire_registry_lock() does not wait.
Register(p) ==
    /\ At(p, "register")
    /\ IF registryLock # NoProc
       THEN Ends(p)
       ELSE registryLock' = p /\ Goes(p, "inspect") /\ UNCHANGED prober
    /\ UNCHANGED <<records, files, world>>

\* What Lock-A protects: neither a claim nor a context is left from an earlier
\* disposal, Lock-B is gone, the root is there and registered.
Fresh(l) ==
    /\ ~Exists(l, Disposed)
    /\ ~Exists(l, Disposing)
    /\ disposalContext = NoLifecycle
    /\ mutex[l] = "absent"
    /\ worktree[l]

\* Mutant: the claim is made before the context is written.
InspectUnnamed(p) ==
    /\ At(p, "inspect")
    /\ IF Fresh(On(p)) THEN Goes(p, "check") /\ UNCHANGED locks ELSE Ends(p)
    /\ UNCHANGED <<records, files, world>>

\* write_disposal_context() leaves a torn context behind; nobody reads it.
Inspect(p) ==
    /\ At(p, "inspect")
    /\ IF Fresh(On(p))
       THEN /\ disposalContext' = On(p)
            /\ Goes(p, "check") /\ UNCHANGED locks
       ELSE Ends(p) /\ UNCHANGED disposalContext
    /\ UNCHANGED <<records, mutex, context, world>>

\* Mutant: a failed removal is retried.
RemoveRetried(p) ==
    /\ At(p, "remove")
    /\ removals' = [removals EXCEPT ![On(p)] = IF @ < 2 THEN @ + 1 ELSE @]
    /\ \/ /\ worktree' = [worktree EXCEPT ![On(p)] = FALSE]
          /\ run' = [run EXCEPT ![p].at = "check", ![p].target = Disposed]
       \/ UNCHANGED <<worktree, run>>
    /\ UNCHANGED <<records, locks, files, supervisor, unsynced>>

\* git worktree remove: done, or failed before or after the tree was gone.
Remove(p) ==
    /\ At(p, "remove")
    /\ removals' = [removals EXCEPT ![On(p)] = @ + 1]
    /\ \/ /\ worktree' = [worktree EXCEPT ![On(p)] = FALSE]
          /\ run' = [run EXCEPT ![p].at = "check", ![p].target = Disposed]
          /\ UNCHANGED locks
       \/ /\ worktree' \in {worktree, [worktree EXCEPT ![On(p)] = FALSE]}
          /\ Ends(p)
    /\ UNCHANGED <<records, files, supervisor, unsynced>>

Retire(p) ==
    /\ At(p, "retire")
    /\ disposalContext' = NoLifecycle
    /\ Ends(p)
    /\ UNCHANGED <<records, mutex, context, world>>

-----------------------------------------------------------------------------
(* The supervisor, and signals                                              *)

\* It closes Lock-B once a release was prepared.
SupervisorCloses(l) ==
    /\ supervisor[l] = "holding" /\ context[l] = "full"
    /\ supervisor' = [supervisor EXCEPT ![l] = "closed"]
    /\ UNCHANGED <<records, locks, files, worktree, removals, unsynced, run>>

SupervisorDies(l) ==
    /\ supervisor[l] = "holding"
    /\ supervisor' = [supervisor EXCEPT ![l] = "dead"]
    /\ UNCHANGED <<records, locks, files, worktree, removals, unsynced, run>>

Killed(p) ==
    /\ run[p] # Idle
    /\ Ends(p)
    /\ UNCHANGED <<records, files, world>>

-----------------------------------------------------------------------------
Step(p) ==
    \/ Check(p) \/ Create(p) \/ Write(p) \/ Sync(p)
    \/ Truncate(p) \/ Bind(p)
    \/ Intent(p) \/ Attest(p)
    \/ Probe(p) \/ Unlink(p) \/ Forget(p)
    \/ Register(p) \/ Inspect(p) \/ Remove(p) \/ Retire(p)

Launch(p, l) ==
    \/ Allocate(p, l) \/ Acquire(p, l) \/ Close(p, l)
    \/ Prepare(p, l) \/ Finalize(p, l) \/ Dispose(p, l)

Next ==
    \/ \E p \in Procs : Step(p) \/ Killed(p) \/ \E l \in Lifecycles : Launch(p, l)
    \/ \E l \in Lifecycles : SupervisorCloses(l) \/ SupervisorDies(l)

Spec == Init /\ [][Next]_vars

-----------------------------------------------------------------------------
(* Properties                                                               *)

\* The records are a chain: whatever scripts race or are killed, a record is
\* there only when every earlier one is there in full.  Excepted is a lifecycle
\* in which an fsync failed: _run() then unlinks a record that other scripts
\* could read, and its successor may have been created on the strength of it.
ChainContiguous ==
    \A l \in Lifecycles \ unsynced : \A s \in States :
        Exists(l, s) => \A t \in 0..(s - 1) : records[l][t] = "full"

\* "Release Lock-B only through a durable, authority-bound source-release
\* handoff": Lock-B's file goes only after a supervisor closed it and a context
\* was written, and while it is gone nobody holds the capability.  A source that
\* is recorded as released can no longer be locked by anyone.
ReleasedByHandoff ==
    \A l \in Lifecycles :
        /\ mutex[l] = "absent" => /\ supervisor[l] = "closed" /\ ~Held(l)
                                  /\ \/ context[l] = "full"
                                     \/ records[l][SourceReleased] = "full"
        /\ Exists(l, SourceReleased) => mutex[l] = "absent"

\* "no retry or synthesis is permitted": a worktree is removed at most once, and
\* only after the claim to do so is on disk; a lifecycle that says it is disposed
\* has no worktree.
RemovedOnce ==
    \A l \in Lifecycles :
        /\ removals[l] <= 1
        /\ removals[l] = 1 => records[l][Disposing] = "full"
        /\ Exists(l, Disposed) => ~worktree[l]

\* Whatever kills a disposal after its claim, the registry's context still names
\* it, for the inspection the error message asks for.
UnfinishedIsNamed ==
    \A l \in Lifecycles :
        Exists(l, Disposing) /\ records[l][Disposed] # "full" => disposalContext = l
=============================================================================
