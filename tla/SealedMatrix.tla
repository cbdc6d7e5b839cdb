------------------------------ MODULE SealedMatrix ------------------------------
(***************************************************************************)
(* A matrix run over sealed source roots (scripts/evidence): a root whose  *)
(* lifecycle is source-active and whose Lock-B is held is sealed by        *)
(* seal-source-root.py; run-sealed-cross-repo-matrix.py admits the sealed  *)
(* roots, runs the matrix as a child, rechecks everything three times and  *)
(* writes a report and a binding into an evidence directory in which       *)
(* inputs and outputs are created once; verify-sealed-matrix.py judges the *)
(* directory later.                                                        *)
(*                                                                         *)
(* Meanwhile sources are edited and restored, lifecycles close, Lock-B is  *)
(* unlocked, and locked again through the supervisor's description by any  *)
(* process that inherited it, an unsealed matrix run writes into the same  *)
(* directory, and the sealed run may be killed.  A version stands for the  *)
(* modification times, which no edit brings back; a digest for the run     *)
(* that wrote the file.                                                    *)
(***************************************************************************)
EXTENDS Integers, FiniteSets

CONSTANTS
    Roots,             \* the source roots, IDS
    Modes,             \* of {"test-only", "production"}: the inner commands
    MaxSealedRuns, MaxDisturbances

VARIABLES
    active,            \* the lifecycle holds allocated and source-active only
    locked,            \* Lock-B is locked through the supervisor's description
    source,            \* content and version of each root
    disturbances,
    seal, live,        \* content that the seal and the attestation name, or "none"
    stage, sealedRuns,
    mode,
    manifest,          \* versions and contents the run took, source_manifest()
    returned,          \* the inner command exited with 0
    taken,             \* inner-matrix.json as it was read and validated
    inputs,            \* run that created inputs/, 0 if none
    inner,             \* inner-matrix.json
    copied,            \* run that created receipts/, 0 if none
    sealedReport,      \* sealed-matrix.json
    binding,           \* run whose report matrix-binding.json names, 0 if none
    during,            \* history: the roots as the inner command saw them; its suites passed
    relocked           \* history: a Lock-B was locked again since, before the report

rootState == <<active, locked, source>>
seals == <<seal, live>>
runState == <<manifest, returned, taken>>
outputs == <<inputs, inner, copied, sealedReport, binding>>
history == <<during, relocked>>
sealedVars ==
    <<rootState, disturbances, seals, stage, sealedRuns, mode, runState, outputs, history>>

Stages ==
    {"idle", "refused", "clean", "derive", "manifest", "copy", "inner", "recheck",
     "validate", "revalidate", "receipts", "report", "binding"}
\* From the end of the inner command to the last check.
Watched == {"recheck", "validate", "revalidate", "receipts", "report"}
RootContents == {"tuple", "edited"}
NoInner == [run |-> 0, result |-> "none", by |-> "none"]
Nothing == [r \in Roots |-> [content |-> "tuple", version |-> 0]]
NoSealedReport == [run |-> 0, result |-> "none", inner |-> NoInner, inventories |-> Nothing]

SealedInit ==
    /\ active = [r \in Roots |-> TRUE]
    /\ locked = [r \in Roots |-> TRUE]
    /\ source \in [Roots -> [content : RootContents, version : {0}]]
    /\ disturbances = 0
    /\ seal = [r \in Roots |-> "none"] /\ live = [r \in Roots |-> "none"]
    /\ stage = "idle" /\ sealedRuns = 0 /\ mode \in Modes
    /\ manifest = Nothing /\ returned = FALSE /\ taken = NoInner
    /\ inputs = 0 /\ inner = NoInner /\ copied = 0
    /\ sealedReport = NoSealedReport /\ binding = 0
    /\ during = [open |-> TRUE, locked |-> TRUE, source |-> Nothing, green |-> TRUE]
    /\ relocked = FALSE

-----------------------------------------------------------------------------
(* The world                                                                *)

Disturbs ==
    /\ disturbances < MaxDisturbances
    /\ disturbances' = disturbances + 1
    /\ UNCHANGED <<seals, stage, sealedRuns, mode, runState, during>>

EditRoot(r) ==
    /\ Disturbs
    /\ \E to \in RootContents :
          source' = [source EXCEPT ![r] = [content |-> to, version |-> @.version + 1]]
    /\ UNCHANGED <<active, locked, outputs, relocked>>
CloseLifecycle(r) ==
    /\ Disturbs /\ active[r]
    /\ active' = [active EXCEPT ![r] = FALSE]
    /\ UNCHANGED <<locked, source, outputs, relocked>>
Unlock(r) ==
    /\ Disturbs /\ locked[r]
    /\ locked' = [locked EXCEPT ![r] = FALSE]
    /\ UNCHANGED <<active, source, outputs, relocked>>

\* Whoever shares the supervisor's description locks it again: the supervisor, or a
\* check of another script or of a sealed run over another directory.
Relock(r) ==
    /\ Disturbs /\ ~locked[r]
    /\ locked' = [locked EXCEPT ![r] = TRUE]
    /\ relocked' = (relocked \/ stage \in Watched)
    /\ UNCHANGED <<active, source, outputs>>

\* run-cross-repo-matrix.py with its output in this directory, outside any sealed run.
UnsealedRun ==
    /\ Disturbs
    /\ inner' = [run |-> 0, result |-> "passed", by |-> "production"]
    /\ UNCHANGED <<rootState, inputs, copied, sealedReport, binding, relocked>>

-----------------------------------------------------------------------------
(* seal-source-root.py: two create-once files                               *)

WriteSeal(r) ==
    /\ seal[r] = "none" /\ active[r] /\ locked[r]
    /\ seal' = [seal EXCEPT ![r] = source[r].content]
    /\ UNCHANGED <<rootState, disturbances, live, stage, sealedRuns, mode, runState, outputs,
                   history>>

\* The second file of the same process; a kill between the two leaves it out.
WriteLive(r) ==
    /\ live[r] = "none" /\ seal[r] # "none"
    /\ live' = [live EXCEPT ![r] = seal[r]]
    /\ UNCHANGED <<rootState, disturbances, seal, stage, sealedRuns, mode, runState, outputs,
                   history>>

-----------------------------------------------------------------------------
(* run-sealed-cross-repo-matrix.py                                          *)

LifecyclesOpen == \A r \in Roots : active[r]
MutexesHeld == \A r \in Roots : locked[r]
Held == LifecyclesOpen /\ MutexesHeld
SealsComplete == \A r \in Roots : live[r] = seal[r] /\ live[r] # "none"
MatchesSeal == \A r \in Roots : source[r].content = seal[r]

\* Mutant: the manifest compares contents without modification times.
UndisturbedByContent == Held /\ \A r \in Roots : source[r].content = manifest[r].content

\* require_held_mutexes, require_unchanged_manifest, require_unchanged_lifecycle
Undisturbed == Held /\ source = manifest

\* require_held_mutexes tries flock on the supervisor's description itself, so that the
\* first Lock-B it finds unlocked is locked again when the run dies of it.
ProbeMutexes ==
    \/ MutexesHeld /\ UNCHANGED locked
    \/ \E r \in Roots : ~locked[r] /\ locked' = [locked EXCEPT ![r] = TRUE]

\* A check that holds lets the run go on; one that does not ends it.
Passes(check, to) == stage' = IF check THEN to ELSE "refused"
Checks(from, check, to) ==
    /\ stage = from /\ Passes(check, to)
    /\ UNCHANGED <<rootState, disturbances, seals, sealedRuns, mode, runState, outputs, history>>

\* The same for a look at the roots, which begins with the mutexes.
ChecksRoots(from, to) ==
    /\ stage = from /\ Passes(Undisturbed /\ MatchesSeal, to)
    /\ ProbeMutexes
    /\ UNCHANGED <<active, source, disturbances, seals, sealedRuns, mode, runState, outputs,
                   history>>

Admit ==
    /\ stage \in {"idle", "refused"} /\ sealedRuns < MaxSealedRuns
    /\ sealedRuns' = sealedRuns + 1
    /\ Passes(Held /\ SealsComplete, "clean")
    /\ IF LifecyclesOpen /\ SealsComplete THEN ProbeMutexes ELSE UNCHANGED locked
    /\ UNCHANGED <<active, source, disturbances, seals, mode, runState, outputs, history>>

RequireCleanTuple == Checks("clean", \A r \in Roots : source[r].content = "tuple", "derive")

DerivePublicInventory == Checks("derive", MatchesSeal, "manifest")

TakeManifest ==
    /\ stage = "manifest" /\ stage' = "copy"
    /\ manifest' = source
    /\ UNCHANGED <<rootState, disturbances, seals, sealedRuns, mode, returned, taken, outputs,
                   history>>

CopyTo(dir) == IF dir = 0 THEN sealedRuns ELSE dir

\* Mutant: inputs that an earlier run left are reused.
CopyInputsReused ==
    /\ stage = "copy" /\ stage' = "inner"
    /\ inputs' = CopyTo(inputs)
    /\ UNCHANGED <<rootState, disturbances, seals, sealedRuns, mode, runState, inner, copied,
                   sealedReport, binding, history>>

\* copy_exclusive_at: the first input that exists ends the run.
CopyInputs ==
    /\ stage = "copy" /\ Passes(inputs = 0, "inner")
    /\ inputs' = CopyTo(inputs)
    /\ UNCHANGED <<rootState, disturbances, seals, sealedRuns, mode, runState, inner, copied,
                   sealedReport, binding, history>>

\* In production the sandbox grants inner-matrix.json but not the temporary file
\* beside it that atomic_json() renames over it.
MayReport(by) == by = "test-only"

\* The inner command passes, fails with a report, or ends without one: a run that
\* may not write its report does not exit with 0 either.
RunInner ==
    /\ stage = "inner" /\ stage' = "recheck"
    /\ \E green \in BOOLEAN :
          /\ \/ /\ MayReport(mode)
                /\ inner' = [run |-> sealedRuns, by |-> mode,
                              result |-> IF green THEN "passed" ELSE "failed"]
                /\ returned' = green
             \/ /\ ~MayReport(mode) \/ ~green
                /\ returned' = FALSE /\ UNCHANGED inner
          /\ during' = [open |-> LifecyclesOpen, locked |-> MutexesHeld,
                        source |-> source, green |-> green]
    /\ relocked' = FALSE
    /\ UNCHANGED <<rootState, disturbances, seals, sealedRuns, mode, manifest, taken, inputs,
                   copied, sealedReport, binding>>

Recheck == ChecksRoots("recheck", "validate")

\* validate_inner wants a passing report whose coverage contract has its eleven
\* fields and no other.  The production runner writes these as well:
UnexpectedFields ==
    {"vectorEvidence", "productionConsumerNegativeVectorReceipts",
     "negativeConsumerReceiptMetadata", "protocolProducerNegativeVectorIDs"}

\* Mutant: the test command reports as the production runner does.
ExtraCoverageAlways(by) == UnexpectedFields

ExtraCoverage(by) == IF by = "production" THEN UnexpectedFields ELSE {}

ValidInner(report) == report.result = "passed" /\ ExtraCoverage(report.by) = {}

ValidateInner ==
    /\ stage = "validate" /\ Passes(ValidInner(inner), "revalidate")
    /\ taken' = inner
    /\ UNCHANGED <<rootState, disturbances, seals, sealedRuns, mode, manifest, returned, outputs,
                   history>>

Revalidate == ChecksRoots("revalidate", "receipts")

\* The receipts and logs on disk must be those the validated report names.
CopyReceipts ==
    /\ stage = "receipts" /\ Passes(copied = 0 /\ inner = taken, "report")
    /\ copied' = IF inner = taken THEN CopyTo(copied) ELSE copied
    /\ UNCHANGED <<rootState, disturbances, seals, sealedRuns, mode, runState, inputs, inner,
                   sealedReport, binding, history>>

WriteSealedReport ==
    /\ stage = "report" /\ ProbeMutexes
    /\ \/ /\ Undisturbed /\ sealedReport = NoSealedReport
          /\ sealedReport' = [run |-> sealedRuns, inner |-> taken, inventories |-> manifest,
                              result |-> IF returned THEN "passed" ELSE "failed"]
          /\ stage' = "binding"
       \/ /\ ~Undisturbed \/ sealedReport # NoSealedReport
          /\ stage' = "refused" /\ UNCHANGED sealedReport
    /\ UNCHANGED <<active, source, disturbances, seals, sealedRuns, mode, runState, inputs,
                   inner, copied, binding, history>>

WriteBinding ==
    /\ stage = "binding" /\ stage' = "idle"
    /\ binding' = CopyTo(binding)
    /\ UNCHANGED <<rootState, disturbances, seals, sealedRuns, mode, runState, inputs, inner,
                   copied, sealedReport, history>>

SealedKilled ==
    /\ stage \notin {"idle", "refused"} /\ stage' = "idle"
    /\ UNCHANGED <<rootState, disturbances, seals, sealedRuns, mode, runState, outputs, history>>

-----------------------------------------------------------------------------
(* verify-sealed-matrix.py: a function of the evidence directory            *)

VerifierAccepts ==
    /\ sealedReport.result = "passed"
    /\ {binding, inputs, copied} = {sealedReport.run}
    /\ inner = sealedReport.inner /\ ValidInner(inner)

SealedNext ==
    \/ \E r \in Roots :
          \/ EditRoot(r) \/ CloseLifecycle(r) \/ Unlock(r) \/ Relock(r)
          \/ WriteSeal(r) \/ WriteLive(r)
    \/ UnsealedRun
    \/ Admit \/ RequireCleanTuple \/ DerivePublicInventory \/ TakeManifest \/ CopyInputs
    \/ RunInner \/ Recheck \/ ValidateInner \/ Revalidate \/ CopyReceipts
    \/ WriteSealedReport \/ WriteBinding \/ SealedKilled

SealedSpec == SealedInit /\ [][SealedNext]_sealedVars

-----------------------------------------------------------------------------
(* Properties                                                               *)

\* What the verifier accepts was executed on what the report's inventories and
\* the seals describe and under a lifecycle that was open, although all checks are
\* made before and after the inner command and none during it.  It was executed under
\* Lock-B as well, unless somebody locked it again before the next check: a Lock-B
\* unlocked and locked again in between looks as if it had been held.
AcceptedWasUndisturbed ==
    VerifierAccepts =>
        /\ during.open /\ (during.locked \/ relocked)
        /\ during.source = sealedReport.inventories
        /\ \A r \in Roots : during.source[r].content = live[r]

\* An evidence directory belongs to one run: whoever is killed in it, no later
\* run adds its own files to it.
OneRunPerDirectory ==
    Cardinality({inputs, copied, sealedReport.run, binding} \ {0}) <= 1

\* What may rightly end a run: a disturbance, a root that was dirty when it was
\* sealed, a missing seal, a suite that failed, a used directory.
Spoiled ==
    \/ disturbances > 0 \/ sealedRuns > 1 \/ ~during.green
    \/ \E r \in Roots : source[r].content # "tuple" \/ live[r] = "none"

\* A run of the test command that nothing spoiled ends in a report.
CleanTestRunIsSealed ==
    [][mode = "test-only" /\ stage # "refused" /\ stage' = "refused" => Spoiled]_sealedVars

\* As run-sealed-cross-repo-matrix.py has it, which asks its inner command for "a
\* complete passing production report": the same holds of a production run.
CleanRunIsSealed == [][stage # "refused" /\ stage' = "refused" => Spoiled]_sealedVars
=============================================================================
