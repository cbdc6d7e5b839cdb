------------------------------ MODULE MatrixProofs ------------------------------
(***************************************************************************)
(* Proofs about the cross-repository matrix, for every set of vectors and  *)
(* of roots and every number of runs, edits, faults and disturbances: about*)
(* a run of run-cross-repo-matrix.py (MatrixRun), and about a sealed run   *)
(* around it (SealedMatrix).  MatrixInv says what a run without failures   *)
(* has established at each of its steps; SealedInv says what ties the      *)
(* roots, the manifest and the evidence directory to the stage of the run. *)
(***************************************************************************)
EXTENDS MatrixRun, SealedMatrix, FiniteSetTheorems, TLAPS

-----------------------------------------------------------------------------
(* run-cross-repo-matrix.py                                                 *)

\* The steps of a run after the coverage of the vectors is known, and after the
\* products, the primary verification and the changed pin had their say.
AfterCover ==
    {"pins", "build", "buildIos", "launchers", "exchange", "primary", "changed", "fresh",
     "report"}
AfterBuilds == {"launchers", "exchange", "primary", "changed", "fresh", "report"}
AfterPrimary == {"changed", "fresh", "report"}

MatrixTypes ==
    /\ committed \in [Repos -> {"expected", "other", "malformed"}]
    /\ step \in Steps
    /\ runs \in Nat /\ report.run \in Nat
    /\ DOMAIN builtPin = Products

\* A run that goes on has not reported, and how it ended tells what it left.
ReportedInv ==
    /\ report.run <= runs
    /\ step # "idle" => report.run < runs
    /\ step = "idle" /\ ended = "report" => report.run = runs
    /\ step = "idle" /\ ended = "unbound" => failures \cap PositiveSuites # {}

\* What went wrong is a failure, and acceptances come from a command for a vector
\* of the same platform.
VerdictInv ==
    /\ broken => failures # {}
    /\ accepted \subseteq UNION {{<<id, c>> : id \in Platform(c)} : c \in Cases}
    /\ step \in AfterCover /\ positiveCovered = "unset" => failures \cap PositiveSuites # {}

\* What a run without failures has established when it is at a step.
CoverageHolds == Covered = Cases
BuildsHold == builtPin["ios"] = committed["ios"] /\ builtPin["mac"] \in NamesTuple
PrimaryHolds ==
    compat = runs /\ committed["mac"] = "expected" /\ committed["ios"] = "expected"

ProgressInv ==
    failures = {} =>
        /\ step \in AfterCover => CoverageHolds
        /\ step \in AfterBuilds => BuildsHold
        /\ step \in AfterPrimary => PrimaryHolds
        /\ step = "report" => fresh = runs

\* The same once the run reported that it passed.
PassedInv ==
    Passed => failures = {} /\ CoverageHolds /\ BuildsHold /\ PrimaryHolds /\ fresh = runs

MatrixInv == MatrixTypes /\ ReportedInv /\ VerdictInv /\ ProgressInv /\ PassedInv

-----------------------------------------------------------------------------

\* No run has started and none has passed.
LEMMA MatrixInitial == MatrixInit => MatrixInv
<1> SUFFICES ASSUME MatrixInit PROVE MatrixInv
  OBVIOUS
<1> USE DEF MatrixInit
<1>1. MatrixTypes
  BY DEF MatrixTypes, Steps, NoReport, Unread
<1>2. ReportedInv /\ VerdictInv /\ ProgressInv /\ PassedInv
  BY DEF ReportedInv, VerdictInv, ProgressInv, PassedInv, Passed, NoReport, AfterCover,
         AfterBuilds, AfterPrimary
<1>3. QED
  BY <1>1, <1>2 DEF MatrixInv

\* The developer's edits touch nothing but the trees.
LEMMA DeveloperStep ==
  ASSUME \E r \in Repos : EditSource(r) \/ EditPin(r) \/ Commit(r) \/ Restore(r)
  PROVE  UNCHANGED <<committed, faults, runs, step, pending, results, pins, receipts, report,
                     ended, broken>>
  BY DEF EditSource, EditPin, Commit, Restore, Change

\* A step that leaves the values a fact is about leaves the fact.
LEMMA FactsKept ==
  /\ UNCHANGED accepted => (CoverageHolds' <=> CoverageHolds)
  /\ UNCHANGED <<committed, builtPin>> => (BuildsHold' <=> BuildsHold)
  /\ UNCHANGED <<committed, runs, compat>> => (PrimaryHolds' <=> PrimaryHolds)
<1>1. ASSUME UNCHANGED accepted PROVE CoverageHolds' <=> CoverageHolds
  BY <1>1 DEF CoverageHolds, Covered
<1>2. ASSUME UNCHANGED <<committed, builtPin>> PROVE BuildsHold' <=> BuildsHold
  BY <1>2 DEF BuildsHold
<1>3. ASSUME UNCHANGED <<committed, runs, compat>> PROVE PrimaryHolds' <=> PrimaryHolds
  BY <1>3 DEF PrimaryHolds
<1>4. QED
  BY <1>1, <1>2, <1>3

\* From the coverage to the report failures are only added, and a command that
\* goes wrong adds one.
LEMMA FailuresGrow ==
  ASSUME \/ BuildMac \/ BuildIos \/ CompileLaunchers \/ Exchange \/ Primary \/ ChangedPin
         \/ FreshClones
  PROVE  failures \subseteq failures' /\ (broken' => broken \/ failures' # {})
<1>1. CASE BuildMac
  BY <1>1 DEF BuildMac, Works, Breaks, Fails
<1>2. CASE BuildIos
  <2>1. \/ Works /\ failures \subseteq failures'
        \/ Breaks("build")
    BY <1>2, Zenon DEF BuildIos, BuildIosFrom
  <2>2. QED
    BY <2>1 DEF Works, Breaks, Fails
<1>3. CASE CompileLaunchers
  BY <1>3 DEF CompileLaunchers, Works, Breaks, Fails
<1>4. CASE Exchange
  <2>1. \/ Works /\ UNCHANGED failures
        \/ \E what : Breaks(what)
    BY <1>4, Zenon DEF Exchange, OrBreaks
  <2>2. QED
    BY <2>1 DEF Works, Breaks, Fails
<1>5. CASE Primary
  BY <1>5 DEF Primary, Works, Breaks, Fails
<1>6. CASE ChangedPin
  <2>1. \/ Works /\ UNCHANGED failures
        \/ Works /\ Fails("changed pin")
        \/ Breaks("changed pin")
    BY <1>6, Zenon DEF ChangedPin
  <2>2. CASE Works /\ UNCHANGED failures
    BY <2>2 DEF Works
  <2>3. CASE Works /\ Fails("changed pin")
    BY <2>3 DEF Works, Fails
  <2>4. CASE Breaks("changed pin")
    BY <2>4 DEF Breaks, Fails
  <2>5. QED
    BY <2>1, <2>2, <2>3, <2>4
<1>7. CASE FreshClones
  BY <1>7 DEF FreshClones, Works, Breaks, Fails
<1>8. QED
  BY <1>1, <1>2, <1>3, <1>4, <1>5, <1>6, <1>7

-----------------------------------------------------------------------------

\* The runner counts its runs and goes through its steps.
LEMMA MatrixTypesStep ==
  ASSUME MatrixTypes, MatrixNext
  PROVE  MatrixTypes'
<1> USE DEF MatrixTypes, Steps, world, pins, Goes, Ends
<1>1. CASE Start
  BY <1>1 DEF Start, Unread
<1>2. CASE Bind \/ LoadVectors
  BY <1>2 DEF Bind, LoadVectors
<1>3. CASE Suite
  BY <1>3 DEF Suite
<1>4. CASE Cover
  BY <1>4 DEF Cover, CoverIf
<1>5. CASE ReadPins
  BY <1>5 DEF ReadPins
<1>6. CASE BuildMac
  BY <1>6 DEF BuildMac
<1>7. CASE BuildIos
  BY <1>7 DEF BuildIos, BuildIosFrom
<1>8. CASE CompileLaunchers
  BY <1>8 DEF CompileLaunchers
<1>9. CASE Exchange
  BY <1>9 DEF Exchange
<1>10. CASE Primary
  BY <1>10 DEF Primary
<1>11. CASE ChangedPin
  BY <1>11 DEF ChangedPin
<1>12. CASE FreshClones
  BY <1>12 DEF FreshClones
<1>13. CASE WriteReport \/ ReportUnbound
  BY <1>13 DEF WriteReport, ReportUnbound
<1>14. CASE Killed
  BY <1>14 DEF Killed, Forgotten, Unread
<1>15. CASE \E r \in Repos : EditSource(r) \/ EditPin(r) \/ Commit(r) \/ Restore(r)
  BY <1>15, DeveloperStep
<1>16. QED
  BY <1>1, <1>2, <1>3, <1>4, <1>5, <1>6, <1>7, <1>8, <1>9, <1>10, <1>11, <1>12, <1>13, <1>14,
     <1>15 DEF MatrixNext

\* A run reports under its own number, and is not at a step after it.
LEMMA ReportedStep ==
  ASSUME MatrixTypes, ReportedInv, VerdictInv, MatrixNext
  PROVE  ReportedInv'
<1> USE DEF MatrixTypes, ReportedInv, Steps, world, pins, receipts, results, Goes, Ends
<1>1. CASE Start
  BY <1>1 DEF Start
<1>2. CASE Bind \/ LoadVectors
  BY <1>2 DEF Bind, LoadVectors
<1>3. CASE Suite
  BY <1>3 DEF Suite
<1>4. CASE Cover
  BY <1>4 DEF Cover, CoverIf
<1>5. CASE ReadPins
  BY <1>5 DEF ReadPins
<1>6. CASE BuildMac
  BY <1>6 DEF BuildMac
<1>7. CASE BuildIos
  BY <1>7 DEF BuildIos, BuildIosFrom
<1>8. CASE CompileLaunchers
  BY <1>8 DEF CompileLaunchers
<1>9. CASE Exchange
  <2>1. /\ step = "exchange" /\ UNCHANGED <<runs, report>>
        /\ \/ step' = "primary"
           \/ step' = "idle" /\ ended' = "unbound" /\ positiveCovered = "unset"
    BY <1>9 DEF Exchange
  <2>2. positiveCovered = "unset" => failures' \cap PositiveSuites # {}
    BY <1>9, <2>1, FailuresGrow DEF VerdictInv, AfterCover
  <2>3. QED
    BY <2>1, <2>2
<1>10. CASE Primary
  BY <1>10 DEF Primary
<1>11. CASE ChangedPin
  BY <1>11 DEF ChangedPin
<1>12. CASE FreshClones
  BY <1>12 DEF FreshClones
<1>13. CASE WriteReport
  BY <1>13 DEF WriteReport
<1>14. CASE ReportUnbound
  BY <1>14 DEF ReportUnbound, VerdictInv, AfterCover
<1>15. CASE Killed
  BY <1>15 DEF Killed
<1>16. CASE \E r \in Repos : EditSource(r) \/ EditPin(r) \/ Commit(r) \/ Restore(r)
  BY <1>16, DeveloperStep
<1>17. QED
  BY <1>1, <1>2, <1>3, <1>4, <1>5, <1>6, <1>7, <1>8, <1>9, <1>10, <1>11, <1>12, <1>13, <1>14,
     <1>15, <1>16 DEF MatrixNext

\* A case command adds acceptances of its own platform only.
LEMMA SuiteStep ==
  ASSUME VerdictInv, Suite
  PROVE  VerdictInv'
<1> DEFINE c == Head(pending)
<1>1. failures \subseteq failures' /\ (broken' => broken \/ failures' # {})
  BY DEF Suite, CaseCommand, FixedSuite, OrBreaks, Works, Breaks, Fails
<1>2. accepted' \subseteq UNION {{<<id, d>> : id \in Platform(d)} : d \in Cases}
  <2>1. CASE c \in Cases
    <3>1. c \in Platform(c)
      BY <2>1 DEF Cases, Platform
    <3>2. CASE accepted' = accepted \cup {<<c, c>>}
      BY <2>1, <3>1, <3>2 DEF VerdictInv
    <3>3. ASSUME NEW told \in SUBSET Platform(c),
                 accepted' = accepted \cup {<<id, c>> : id \in told}
          PROVE  accepted' \subseteq UNION {{<<id, d>> : id \in Platform(d)} : d \in Cases}
      BY <2>1, <3>3 DEF VerdictInv
    <3>4. CASE UNCHANGED accepted
      BY <3>4 DEF VerdictInv
    <3>5. QED
      BY <2>1, <3>2, <3>3, <3>4 DEF Suite, CaseCommand
  <2>2. CASE c \notin Cases
    BY <2>2 DEF Suite, FixedSuite, VerdictInv
  <2>3. QED
    BY <2>1, <2>2
<1>3. step' \notin AfterCover
  BY DEF Suite, AfterCover
<1>4. broken' => failures' # {}
  BY <1>1 DEF VerdictInv
<1>5. QED
  BY <1>2, <1>3, <1>4 DEF VerdictInv

\* A failure stays on the list, and an acceptance is of a vector of the platform.
LEMMA VerdictStep ==
  ASSUME MatrixTypes, VerdictInv, MatrixNext
  PROVE  VerdictInv'
<1> USE DEF VerdictInv, AfterCover, results, Goes, Ends
<1>1. CASE Start
  BY <1>1 DEF Start
<1>2. CASE Bind \/ LoadVectors
  BY <1>2 DEF Bind, LoadVectors
<1>3. CASE Suite
  BY <1>3, SuiteStep
<1>4. CASE Cover
  BY <1>4 DEF Cover, CoverIf
<1>5. CASE ReadPins
  BY <1>5 DEF ReadPins
<1>6. ASSUME \/ BuildMac \/ BuildIos \/ CompileLaunchers \/ Exchange \/ Primary \/ ChangedPin
             \/ FreshClones
      PROVE  VerdictInv'
  <2>1. UNCHANGED <<accepted, positiveCovered>> /\ step \in AfterCover
    BY <1>6 DEF BuildMac, BuildIos, BuildIosFrom, CompileLaunchers, Exchange, Primary,
                ChangedPin, FreshClones
  <2>2. QED
    BY <1>6, <2>1, FailuresGrow
<1>7. CASE WriteReport \/ ReportUnbound
  BY <1>7 DEF WriteReport, ReportUnbound
<1>8. CASE Killed
  BY <1>8 DEF Killed, Forgotten
<1>9. CASE \E r \in Repos : EditSource(r) \/ EditPin(r) \/ Commit(r) \/ Restore(r)
  BY <1>9, DeveloperStep
<1>10. QED
  BY <1>1, <1>2, <1>3, <1>4, <1>5, <1>6, <1>7, <1>8, <1>9 DEF MatrixNext

\* A step that a run without failures reaches has established what it should.
LEMMA ProgressStep ==
  ASSUME MatrixTypes, ProgressInv, MatrixNext
  PROVE  ProgressInv'
<1> USE FactsKept
    DEF ProgressInv, AfterCover, AfterBuilds, AfterPrimary, world, pins, receipts, results,
        Goes, Ends
<1>1. CASE Start
  BY <1>1 DEF Start
<1>2. CASE Bind \/ LoadVectors
  BY <1>2 DEF Bind, LoadVectors
<1>3. CASE Suite
  BY <1>3 DEF Suite
<1>4. CASE Cover
  <2>1. CASE Covered = Cases
    BY <1>4, <2>1 DEF Cover, CoverIf, CoverageHolds
  <2>2. CASE Covered # Cases
    BY <1>4, <2>2 DEF Cover, CoverIf
  <2>3. QED
    BY <2>1, <2>2
<1>5. CASE ReadPins
  BY <1>5 DEF ReadPins
<1>6. CASE BuildMac
  BY <1>6, FailuresGrow DEF BuildMac, Breaks, Fails
<1>7. CASE BuildIos
  <2>1. UNCHANGED <<committed, accepted>> /\ step = "buildIos"
        /\ step' \in {"launchers", "idle"}
    BY <1>7 DEF BuildIos, BuildIosFrom
  <2>2. ASSUME step' = "launchers", failures' = {} PROVE BuildsHold'
    <3>1. /\ builtPin' = [builtPin EXCEPT !["ios"] = committed["ios"]]
          /\ BuiltPinsMatch(builtPin')
      BY <1>7, <2>2 DEF BuildIos, BuildIosFrom, Breaks, Fails
    <3>2. builtPin'["ios"] = committed["ios"] /\ builtPin'["mac"] = builtPin["mac"]
      BY <3>1 DEF MatrixTypes, Products
    <3>3. builtPin'["mac"] \in NamesTuple
      BY <3>1 DEF BuiltPinsMatch, Products
    <3>4. QED
      BY <2>1, <3>2, <3>3 DEF BuildsHold
  <2>3. QED
    BY <1>7, <2>1, <2>2, FailuresGrow
<1>8. CASE CompileLaunchers
  BY <1>8, FailuresGrow DEF CompileLaunchers
<1>9. CASE Exchange
  <2>1. /\ step = "exchange" /\ step' \in {"primary", "idle"}
        /\ UNCHANGED <<committed, accepted, builtPin>>
    BY <1>9 DEF Exchange
  <2>2. QED
    BY <1>9, <2>1, FailuresGrow
<1>10. CASE Primary
  <2>1. /\ step = "primary" /\ step' = "changed"
        /\ UNCHANGED <<committed, runs, accepted, builtPin>>
    BY <1>10 DEF Primary
  <2>2. ASSUME failures' = {} PROVE PrimaryHolds'
    <3>1. Refusal(tree) = "none" /\ compat' = runs
      BY <1>10, <2>2 DEF Primary, Breaks, Fails
    <3>2. ~PinRefused(tree)
      BY <3>1 DEF Refusal
    <3>3. \A p \in Products : committed[p] \in NamesTuple
      BY <3>2 DEF PinRefused
    <3>4. \A p \in Products : committed[p] = "expected"
      BY <3>3 DEF MatrixTypes, Repos, NamesTuple
    <3>5. QED
      BY <2>1, <3>1, <3>4 DEF PrimaryHolds, Products
  <2>3. QED
    BY <1>10, <2>1, <2>2, FailuresGrow
<1>11. CASE ChangedPin
  <2>1. /\ step = "changed" /\ step' \in {"fresh", "idle"}
        /\ UNCHANGED <<committed, runs, accepted, builtPin, compat>>
    BY <1>11 DEF ChangedPin
  <2>2. QED
    BY <1>11, <2>1, FailuresGrow
<1>12. CASE FreshClones
  <2>1. /\ step = "fresh" /\ step' = "report"
        /\ UNCHANGED <<committed, runs, accepted, builtPin, compat>>
        /\ failures' = {} => fresh' = runs
    BY <1>12 DEF FreshClones, Breaks, Fails
  <2>2. QED
    BY <1>12, <2>1, FailuresGrow
<1>13. CASE WriteReport \/ ReportUnbound
  BY <1>13 DEF WriteReport, ReportUnbound
<1>14. CASE Killed
  BY <1>14 DEF Killed
<1>15. CASE \E r \in Repos : EditSource(r) \/ EditPin(r) \/ Commit(r) \/ Restore(r)
  BY <1>15, DeveloperStep
<1>16. QED
  BY <1>1, <1>2, <1>3, <1>4, <1>5, <1>6, <1>7, <1>8, <1>9, <1>10, <1>11, <1>12, <1>13, <1>14,
     <1>15 DEF MatrixNext

\* Only write_report makes a run pass, and afterwards only the trees change.
LEMMA PassedStep ==
  ASSUME MatrixTypes, ReportedInv, ProgressInv, PassedInv, MatrixNext
  PROVE  PassedInv'
<1>1. CASE WriteReport
  <2>1. /\ step = "report" /\ report'.result = IF failures = {} THEN "passed" ELSE "failed"
        /\ UNCHANGED <<failures, accepted, committed, builtPin, runs, compat, fresh>>
    BY <1>1 DEF WriteReport, results, world, pins, receipts
  <2>2. QED
    BY <2>1, FactsKept DEF PassedInv, Passed, ProgressInv, AfterCover, AfterBuilds, AfterPrimary
<1>2. CASE \E r \in Repos : EditSource(r) \/ EditPin(r) \/ Commit(r) \/ Restore(r)
  BY <1>2, DeveloperStep, FactsKept DEF PassedInv, Passed, results, pins, receipts
<1>3. CASE Start
  BY <1>3 DEF Start, Goes, PassedInv, Passed
<1>4. ASSUME \/ Bind \/ LoadVectors \/ Suite \/ Cover \/ ReadPins \/ BuildMac \/ BuildIos
             \/ CompileLaunchers \/ Exchange \/ Primary \/ ChangedPin \/ FreshClones
             \/ ReportUnbound \/ Killed
      PROVE  ~Passed'
  <2>1. step # "idle" /\ UNCHANGED <<runs, report>>
    BY <1>4 DEF Bind, LoadVectors, Suite, Cover, CoverIf, ReadPins, BuildMac, BuildIos,
                BuildIosFrom, CompileLaunchers, Exchange, Primary, ChangedPin, FreshClones,
                ReportUnbound, Killed
  <2>2. QED
    BY <2>1 DEF Passed, ReportedInv, MatrixTypes
<1>5. QED
  BY <1>1, <1>2, <1>3, <1>4 DEF MatrixNext, PassedInv

\* Every step of the runner and of the developers keeps the invariant.
LEMMA MatrixStep == MatrixInv /\ [MatrixNext]_matrixVars => MatrixInv'
<1> SUFFICES ASSUME MatrixInv, [MatrixNext]_matrixVars PROVE MatrixInv'
  OBVIOUS
<1>1. CASE MatrixNext
  BY <1>1, MatrixTypesStep, ReportedStep, VerdictStep, ProgressStep, PassedStep DEF MatrixInv
<1>2. CASE UNCHANGED matrixVars
  <2> USE <1>2 DEF MatrixInv, matrixVars, world, pins, receipts, results
  <2>1. MatrixTypes' /\ ReportedInv' /\ VerdictInv'
    BY DEF MatrixTypes, ReportedInv, VerdictInv
  <2>2. ProgressInv' /\ PassedInv'
    BY FactsKept DEF ProgressInv, PassedInv, Passed
  <2>3. QED
    BY <2>1, <2>2
<1>3. QED
  BY <1>1, <1>2

\* MatrixInv holds throughout.
LEMMA MatrixInvariant == MatrixSpec => []MatrixInv
  BY MatrixInitial, MatrixStep, PTL DEF MatrixSpec

-----------------------------------------------------------------------------

\* A report that says passed: no command of the run went wrong, and every negative
\* vector was reported rejected by a command of the platform that consumes it.
THEOREM PassedReportMeansAll == MatrixSpec => []PassedMeansAll
<1>1. MatrixInv => PassedMeansAll
  <2> SUFFICES ASSUME MatrixInv, Passed
               PROVE  ~broken /\ \A id \in Cases : \E c \in Platform(id) : <<id, c>> \in accepted
    BY DEF PassedMeansAll
  <2>1. ~broken /\ Covered = Cases
    BY DEF MatrixInv, PassedInv, VerdictInv, CoverageHolds
  <2>2. ASSUME NEW id \in Cases PROVE \E c \in Platform(id) : <<id, c>> \in accepted
    <3>1. PICK c \in Cases : <<id, c>> \in accepted
      BY <2>1, <2>2 DEF Covered
    <3>2. id \in Platform(c)
      BY <3>1 DEF MatrixInv, VerdictInv
    <3>3. c \in Platform(id)
      BY <3>1, <3>2, CasesAssumption DEF Platform, Cases
    <3>4. QED
      BY <3>1, <3>3
  <2>3. QED
    BY <2>1, <2>2
<1>2. QED
  BY <1>1, MatrixInvariant, PTL

\* A passed report is about the tuple and was made by its run, whatever the live
\* checkouts went through and whatever earlier runs left in the directory.
THEOREM PassedReportOfTheTuple == MatrixSpec => []PassedIsOfTheTuple
<1>1. MatrixInv => PassedIsOfTheTuple
  BY DEF MatrixInv, PassedInv, PassedIsOfTheTuple, BuildsHold, PrimaryHolds
<1>2. QED
  BY <1>1, MatrixInvariant, PTL

\* A run that was neither refused nor killed reports, unless a suite of the
\* positive vectors failed: then positive_suite_covered is unbound when it is read.
THEOREM RunsReport == MatrixSpec => []ReportsUnlessSuiteFailed
<1>1. MatrixInv => ReportsUnlessSuiteFailed
  BY DEF MatrixInv, ReportedInv, ReportsUnlessSuiteFailed
<1>2. QED
  BY <1>1, MatrixInvariant, PTL

-----------------------------------------------------------------------------
(* run-sealed-cross-repo-matrix.py and verify-sealed-matrix.py              *)

\* The stages before and after the run has put its inputs into the directory.
BeforeInputs == {"clean", "derive", "manifest", "copy"}
AfterInputs == {"inner", "recheck", "validate", "revalidate", "receipts", "report", "binding"}

RootState == [content : RootContents, version : Nat]

SealedTypes ==
    /\ active \in [Roots -> BOOLEAN] /\ locked \in [Roots -> BOOLEAN]
    /\ source \in [Roots -> RootState] /\ manifest \in [Roots -> RootState]
    /\ during.source \in [Roots -> RootState]
    /\ seal \in [Roots -> RootContents \cup {"none"}]
    /\ live \in [Roots -> RootContents \cup {"none"}]
    /\ stage \in Stages
    /\ sealedRuns \in Nat /\ inputs \in Nat /\ disturbances \in Nat

\* What is in the directory is of the run that created its inputs, and only that
\* run gets past them.
DirectoryInv ==
    /\ inputs <= sealedRuns
    /\ {copied, sealedReport.run, binding} \subseteq {0, inputs}
    /\ stage \in BeforeInputs => inputs < sealedRuns
    /\ stage \in AfterInputs => inputs = sealedRuns /\ sealedRuns # 0
    /\ stage \in {"inner", "recheck", "validate", "revalidate", "receipts"} => copied = 0
    /\ stage \in AfterInputs \ {"binding"} => sealedReport.run = 0
    /\ sealedReport.run = 0 => sealedReport = NoSealedReport

\* Seals are created once: the second file repeats the first, and a run that was
\* admitted has both.
SealInv ==
    /\ \A r \in Roots : live[r] # "none" => live[r] = seal[r]
    /\ stage \notin {"idle", "refused"} => \A r \in Roots : live[r] # "none"

\* A root only moves on: where its version did not change its content did not.
Precedes(s, t) ==
    \A r \in Roots :
        s[r].version <= t[r].version /\ (s[r].version = t[r].version => s[r] = t[r])

\* Between the manifest and any later look at the roots lies the inner command.
WatchInv ==
    /\ stage \in {"copy"} \cup AfterInputs => Precedes(manifest, source)
    /\ stage \in AfterInputs \ {"inner"} =>
          /\ Precedes(manifest, during.source) /\ Precedes(during.source, source)
          /\ LifecyclesOpen => during.open
    /\ stage \in Watched /\ MutexesHeld => during.locked \/ relocked
    /\ stage \in {"validate", "revalidate", "receipts", "report"} =>
          \A r \in Roots : manifest[r].content = seal[r]

\* The inner command of the run that reported saw the roots it reports.
ReportInv ==
    sealedReport.run # 0 =>
        /\ during.open /\ (during.locked \/ relocked)
        /\ during.source = sealedReport.inventories
        /\ \A r \in Roots : during.source[r].content = live[r]

\* Without a disturbance the roots are what they were when they were sealed, and
\* a green test command has left the report that is validated.
CleanInv ==
    disturbances = 0 =>
        /\ Held
        /\ \A r \in Roots : seal[r] \in {"none", source[r].content}
        /\ stage \in {"copy"} \cup AfterInputs => manifest = source
        /\ mode = "test-only" /\ during.green
              /\ stage \in {"recheck", "validate", "revalidate", "receipts", "report"}
           => inner.result = "passed" /\ inner.by = "test-only"
        /\ stage \in {"revalidate", "receipts", "report"} => taken = inner

SealedInv ==
    SealedTypes /\ DirectoryInv /\ SealInv /\ WatchInv /\ ReportInv /\ CleanInv

-----------------------------------------------------------------------------

\* Precedes is a partial order on the states of the roots.
LEMMA PrecedesOrder ==
  ASSUME NEW s \in [Roots -> RootState], NEW t \in [Roots -> RootState]
  PROVE  /\ Precedes(s, s)
         /\ Precedes(s, t) /\ Precedes(t, s) => s = t
<1>1. \A r \in Roots : s[r].version \in Nat /\ t[r].version \in Nat
  BY DEF RootState
<1>2. Precedes(s, s)
  BY <1>1 DEF Precedes
<1>3. ASSUME Precedes(s, t), Precedes(t, s) PROVE s = t
  <2>1. \A r \in Roots : s[r] = t[r]
    BY <1>1, <1>3 DEF Precedes
  <2>2. QED
    BY <2>1
<1>4. QED
  BY <1>2, <1>3

\* Precedes is transitive: a root goes forward however often it is looked at.
LEMMA PrecedesTransitive ==
  ASSUME NEW s \in [Roots -> RootState], NEW t \in [Roots -> RootState],
         NEW u \in [Roots -> RootState], Precedes(s, t), Precedes(t, u)
  PROVE  Precedes(s, u)
<1> SUFFICES ASSUME NEW r \in Roots
             PROVE  /\ s[r].version <= u[r].version
                    /\ s[r].version = u[r].version => s[r] = u[r]
  BY DEF Precedes
<1>1. s[r].version \in Nat /\ t[r].version \in Nat /\ u[r].version \in Nat
  BY DEF RootState
<1>2. /\ s[r].version <= t[r].version /\ (s[r].version = t[r].version => s[r] = t[r])
      /\ t[r].version <= u[r].version /\ (t[r].version = u[r].version => t[r] = u[r])
  BY Zenon DEF Precedes
<1>3. QED
  BY <1>1, <1>2

\* Every root starts open, locked and unsealed, in a directory that is empty.
LEMMA SealedInitial == SealedInit => SealedInv
<1> SUFFICES ASSUME SealedInit PROVE SealedInv
  OBVIOUS
<1> USE DEF SealedInit
<1>1. SealedTypes
  <2>1. Nothing \in [Roots -> RootState] /\ source \in [Roots -> RootState]
    BY DEF Nothing, RootState, RootContents
  <2>2. QED
    BY <2>1 DEF SealedTypes, Stages
<1>2. DirectoryInv
  BY DEF DirectoryInv, BeforeInputs, AfterInputs, NoSealedReport
<1>3. SealInv /\ WatchInv /\ ReportInv
  BY DEF SealInv, WatchInv, AfterInputs, ReportInv, NoSealedReport
<1>4. CleanInv
  BY DEF CleanInv, AfterInputs, Held, LifecyclesOpen, MutexesHeld
<1>5. QED
  BY <1>1, <1>2, <1>3, <1>4 DEF SealedInv

-----------------------------------------------------------------------------

\* A look at the mutexes locks one that was unlocked, and none where all are held.
LEMMA ProbeKeeps ==
  ASSUME SealedTypes, ProbeMutexes
  PROVE  /\ locked' \in [Roots -> BOOLEAN]
         /\ MutexesHeld => UNCHANGED locked
  BY DEF SealedTypes, ProbeMutexes, MutexesHeld

\* Roots, seals and stages stay in their ranges.
LEMMA SealedTypesStep ==
  ASSUME SealedTypes, SealedNext
  PROVE  SealedTypes'
<1> USE DEF SealedTypes, Stages, rootState, seals, runState, outputs, history
<1>1. ASSUME NEW r \in Roots, EditRoot(r) PROVE SealedTypes'
  <2>1. PICK to \in RootContents :
          source' = [source EXCEPT ![r] = [content |-> to, version |-> source[r].version + 1]]
    BY <1>1 DEF EditRoot
  <2>2. [content |-> to, version |-> source[r].version + 1] \in RootState
    BY DEF RootState
  <2>3. source' \in [Roots -> RootState]
    BY <2>1, <2>2
  <2>4. QED
    BY <1>1, <2>3 DEF EditRoot, Disturbs
<1>2. ASSUME NEW r \in Roots, CloseLifecycle(r) \/ Unlock(r) \/ Relock(r) PROVE SealedTypes'
  <2>1. CASE CloseLifecycle(r)
    BY <2>1 DEF CloseLifecycle, Disturbs
  <2>2. CASE Unlock(r)
    BY <2>2 DEF Unlock, Disturbs
  <2>3. CASE Relock(r)
    BY <2>3 DEF Relock, Disturbs
  <2>4. QED
    BY <1>2, <2>1, <2>2, <2>3
<1>3. ASSUME NEW r \in Roots, WriteSeal(r) PROVE SealedTypes'
  <2>1. source[r].content \in RootContents
    BY DEF RootState
  <2>2. QED
    BY <1>3, <2>1 DEF WriteSeal
<1>4. ASSUME NEW r \in Roots, WriteLive(r) PROVE SealedTypes'
  BY <1>4 DEF WriteLive
<1>5. CASE UnsealedRun
  BY <1>5 DEF UnsealedRun, Disturbs
<1>6. CASE Admit
  BY <1>6, ProbeKeeps DEF Admit, Passes
<1>7. CASE RequireCleanTuple \/ DerivePublicInventory \/ Recheck \/ Revalidate
  BY <1>7, ProbeKeeps DEF RequireCleanTuple, DerivePublicInventory, Recheck, Revalidate, Checks,
    ChecksRoots, Passes
<1>8. CASE TakeManifest
  BY <1>8 DEF TakeManifest
<1>9. CASE CopyInputs
  BY <1>9 DEF CopyInputs, Passes, CopyTo
<1>10. CASE RunInner
  BY <1>10 DEF RunInner
<1>11. CASE ValidateInner
  BY <1>11 DEF ValidateInner, Passes
<1>12. CASE CopyReceipts
  BY <1>12 DEF CopyReceipts, Passes
<1>13. CASE WriteSealedReport
  BY <1>13, ProbeKeeps DEF WriteSealedReport
<1>14. CASE WriteBinding \/ SealedKilled
  BY <1>14 DEF WriteBinding, SealedKilled
<1>15. QED
  BY <1>1, <1>2, <1>3, <1>4, <1>5, <1>6, <1>7, <1>8, <1>9, <1>10, <1>11, <1>12, <1>13, <1>14
     DEF SealedNext

\* The files of the evidence directory follow the stage of the one run that made them.
LEMMA DirectoryStep ==
  ASSUME SealedTypes, DirectoryInv, SealedNext
  PROVE  DirectoryInv'
<1> USE DEF SealedTypes, DirectoryInv, BeforeInputs, AfterInputs, rootState, seals, runState,
            outputs, history
<1>1. ASSUME NEW r \in Roots, EditRoot(r) \/ CloseLifecycle(r) \/ Unlock(r) \/ Relock(r)
      PROVE  DirectoryInv'
  BY <1>1 DEF EditRoot, CloseLifecycle, Unlock, Relock, Disturbs
<1>2. ASSUME NEW r \in Roots, WriteSeal(r) \/ WriteLive(r) PROVE DirectoryInv'
  BY <1>2 DEF WriteSeal, WriteLive
<1>3. CASE UnsealedRun
  BY <1>3 DEF UnsealedRun, Disturbs
<1>4. CASE Admit
  BY <1>4 DEF Admit, Passes
<1>5. CASE RequireCleanTuple \/ DerivePublicInventory \/ Recheck \/ Revalidate
  BY <1>5 DEF RequireCleanTuple, DerivePublicInventory, Recheck, Revalidate, Checks,
    ChecksRoots, Passes
<1>6. CASE TakeManifest
  BY <1>6 DEF TakeManifest
<1>7. CASE CopyInputs
  BY <1>7 DEF CopyInputs, Passes, CopyTo
<1>8. CASE RunInner
  BY <1>8 DEF RunInner
<1>9. CASE ValidateInner
  BY <1>9 DEF ValidateInner, Passes
<1>10. CASE CopyReceipts
  BY <1>10 DEF CopyReceipts, Passes, CopyTo
<1>11. CASE WriteSealedReport
  BY <1>11 DEF WriteSealedReport
<1>12. CASE WriteBinding
  BY <1>12 DEF WriteBinding, CopyTo
<1>13. CASE SealedKilled
  BY <1>13 DEF SealedKilled
<1>14. QED
  BY <1>1, <1>2, <1>3, <1>4, <1>5, <1>6, <1>7, <1>8, <1>9, <1>10, <1>11, <1>12, <1>13
     DEF SealedNext

\* No edit brings a version back and no lifecycle is opened again; a mutex is locked
\* again by somebody else, or by a check that ends the run; where nothing disturbs
\* them the roots stay.
LEMMA RootsMoveOn ==
  ASSUME SealedTypes, CleanInv, SealedNext
  PROVE  /\ Precedes(source, source')
         /\ LifecyclesOpen' => LifecyclesOpen
         /\ stage' \in Watched /\ MutexesHeld' => MutexesHeld \/ relocked'
         /\ relocked => relocked' \/ RunInner
         /\ disturbances' = 0 => disturbances = 0 /\ UNCHANGED rootState
<1> DEFINE Goal ==
         /\ Precedes(source, source')
         /\ LifecyclesOpen' => LifecyclesOpen
         /\ stage' \in Watched /\ MutexesHeld' => MutexesHeld \/ relocked'
         /\ relocked => relocked' \/ RunInner
         /\ disturbances' = 0 => disturbances = 0 /\ UNCHANGED rootState
<1> USE DEF SealedTypes
<1>1. ASSUME NEW r \in Roots, EditRoot(r) PROVE Goal
  <2>1. /\ \A q \in Roots : source[q].version \in Nat
        /\ \A q \in Roots : source'[q] = source[q] \/ source'[q].version = source[q].version + 1
    BY <1>1 DEF EditRoot, RootState
  <2>2. Precedes(source, source')
    BY <2>1 DEF Precedes
  <2>3. QED
    BY <1>1, <2>2 DEF EditRoot, Disturbs, LifecyclesOpen, MutexesHeld
<1>2. ASSUME NEW r \in Roots, CloseLifecycle(r) PROVE Goal
  BY <1>2, PrecedesOrder DEF CloseLifecycle, Disturbs, LifecyclesOpen, MutexesHeld
<1>3. ASSUME NEW r \in Roots, Unlock(r) PROVE Goal
  BY <1>3, PrecedesOrder DEF Unlock, Disturbs, LifecyclesOpen, MutexesHeld
<1>4. ASSUME NEW r \in Roots, Relock(r) PROVE Goal
  <2>1. /\ source' = source /\ active' = active /\ stage' = stage /\ disturbances' # 0
        /\ relocked' = (relocked \/ stage \in Watched)
    BY <1>4 DEF Relock, Disturbs
  <2>2. Precedes(source, source')
    BY <2>1, PrecedesOrder
  <2>3. QED
    BY <2>1, <2>2 DEF LifecyclesOpen
<1>5. ASSUME UNCHANGED <<rootState, disturbances>>, UNCHANGED relocked \/ RunInner PROVE Goal
  BY <1>5, PrecedesOrder DEF rootState, LifecyclesOpen, MutexesHeld
<1>6. ASSUME UNCHANGED <<active, source, disturbances, relocked>>,
             ProbeMutexes \/ UNCHANGED locked,
             MutexesHeld \/ stage' \notin Watched
      PROVE  Goal
  <2>1. Precedes(source, source')
    BY <1>6, PrecedesOrder
  <2>2. disturbances = 0 => UNCHANGED locked
    BY <1>6, ProbeKeeps DEF CleanInv, Held
  <2>3. QED
    BY <1>6, <2>1, <2>2 DEF rootState, LifecyclesOpen
<1>7. CASE UnsealedRun
  BY <1>7, PrecedesOrder DEF UnsealedRun, Disturbs, rootState, LifecyclesOpen, MutexesHeld
<1>8. ASSUME \/ \E r \in Roots : WriteSeal(r) \/ WriteLive(r)
             \/ RequireCleanTuple \/ DerivePublicInventory \/ TakeManifest \/ CopyInputs
             \/ RunInner \/ ValidateInner \/ CopyReceipts \/ WriteBinding \/ SealedKilled
      PROVE  UNCHANGED <<rootState, disturbances>> /\ (UNCHANGED relocked \/ RunInner)
  BY <1>8 DEF WriteSeal, WriteLive, RequireCleanTuple, DerivePublicInventory, TakeManifest,
              CopyInputs, RunInner, ValidateInner, CopyReceipts, WriteBinding, SealedKilled,
              Checks, history
<1>9. ASSUME Admit \/ Recheck \/ Revalidate \/ WriteSealedReport
      PROVE  /\ UNCHANGED <<active, source, disturbances, relocked>>
             /\ ProbeMutexes \/ UNCHANGED locked
             /\ MutexesHeld \/ stage' \notin Watched
  BY <1>9 DEF Admit, Recheck, Revalidate, WriteSealedReport, ChecksRoots, Passes, Undisturbed,
              Held, Watched, history
<1>10. Goal
  BY <1>1, <1>2, <1>3, <1>4, <1>5, <1>6, <1>7, <1>8, <1>9 DEF SealedNext
<1>11. QED
  BY <1>10

\* A seal is written once, of the content its root has at that moment.
LEMMA SealStep ==
  ASSUME SealedTypes, SealInv, SealedNext
  PROVE  /\ SealInv'
         /\ \A r \in Roots : live[r] # "none" => live'[r] = live[r] /\ seal'[r] = seal[r]
         /\ \A r \in Roots : seal'[r] = seal[r] \/ seal'[r] = source[r].content
<1> USE DEF SealedTypes, SealInv, rootState, seals
<1>1. ASSUME NEW r \in Roots,
             EditRoot(r) \/ CloseLifecycle(r) \/ Unlock(r) \/ Relock(r) \/ UnsealedRun
      PROVE  UNCHANGED <<seals, stage>>
  BY <1>1 DEF EditRoot, CloseLifecycle, Unlock, Relock, UnsealedRun, Disturbs
<1>2. ASSUME NEW r \in Roots, WriteSeal(r)
      PROVE  /\ SealInv' /\ UNCHANGED live
             /\ \A q \in Roots : seal'[q] = seal[q] \/ seal'[q] = source[q].content
             /\ \A q \in Roots : live[q] # "none" => seal'[q] = seal[q]
  BY <1>2 DEF WriteSeal
<1>3. ASSUME NEW r \in Roots, WriteLive(r)
      PROVE  /\ SealInv' /\ UNCHANGED seal
             /\ \A q \in Roots : live[q] # "none" => live'[q] = live[q]
  BY <1>3 DEF WriteLive
<1>4. CASE Admit
  BY <1>4 DEF Admit, Passes, SealsComplete
<1>5. ASSUME \/ RequireCleanTuple \/ DerivePublicInventory \/ TakeManifest \/ CopyInputs
             \/ RunInner \/ Recheck \/ ValidateInner \/ Revalidate \/ CopyReceipts
             \/ WriteSealedReport \/ WriteBinding \/ SealedKilled
      PROVE  /\ UNCHANGED seals
             /\ stage' \notin {"idle", "refused"} => stage \notin {"idle", "refused"}
  BY <1>5 DEF RequireCleanTuple, DerivePublicInventory, TakeManifest, CopyInputs, RunInner,
              Recheck, ValidateInner, Revalidate, CopyReceipts, WriteSealedReport, WriteBinding,
              SealedKilled, Checks, ChecksRoots
<1>6. CASE UnsealedRun
  BY <1>6 DEF UnsealedRun, Disturbs
<1>7. QED
  BY <1>1, <1>2, <1>3, <1>4, <1>5, <1>6 DEF SealedNext

\* Which step brings a run to a stage, and that the manifest, what the inner
\* command saw and the report stay from then on.
LEMMA StageFlow ==
  ASSUME SealedTypes, DirectoryInv, SealedNext
  PROVE  /\ stage' \in {"copy"} \cup AfterInputs =>
              TakeManifest \/ (stage \in {"copy"} \cup AfterInputs /\ UNCHANGED manifest)
         /\ stage' \in AfterInputs \ {"inner"} =>
              RunInner \/ (stage \in AfterInputs \ {"inner"} /\ UNCHANGED <<manifest, during>>)
         /\ stage' \in {"validate", "revalidate", "receipts", "report"} =>
              Recheck \/ (/\ stage \in {"validate", "revalidate", "receipts", "report"}
                          /\ UNCHANGED <<manifest, during>>)
         /\ stage' \in Watched => RunInner \/ (stage \in Watched /\ UNCHANGED during)
         /\ sealedReport'.run # 0 =>
              (WriteSealedReport /\ stage' = "binding") \/ UNCHANGED <<sealedReport, during>>
<1> USE DEF SealedTypes, DirectoryInv, AfterInputs, Watched, outputs, runState, history
<1>1. CASE \E r \in Roots : EditRoot(r) \/ CloseLifecycle(r) \/ Unlock(r) \/ Relock(r)
  BY <1>1 DEF EditRoot, CloseLifecycle, Unlock, Relock, Disturbs
<1>2. CASE UnsealedRun
  BY <1>2 DEF UnsealedRun, Disturbs
<1>3. CASE \E r \in Roots : WriteSeal(r) \/ WriteLive(r)
  BY <1>3 DEF WriteSeal, WriteLive
<1>4. CASE Admit
  BY <1>4 DEF Admit, Passes
<1>5. CASE RequireCleanTuple \/ DerivePublicInventory \/ Recheck \/ Revalidate
  BY <1>5 DEF RequireCleanTuple, DerivePublicInventory, Recheck, Revalidate, Checks,
    ChecksRoots, Passes
<1>6. CASE TakeManifest
  BY <1>6 DEF TakeManifest
<1>7. CASE CopyInputs
  BY <1>7 DEF CopyInputs, Passes
<1>8. CASE RunInner
  BY <1>8 DEF RunInner
<1>9. CASE ValidateInner
  BY <1>9 DEF ValidateInner, Passes
<1>10. CASE CopyReceipts
  BY <1>10 DEF CopyReceipts, Passes
<1>11. CASE WriteSealedReport
  BY <1>11 DEF WriteSealedReport
<1>12. CASE WriteBinding \/ SealedKilled
  BY <1>12 DEF WriteBinding, SealedKilled
<1>13. QED
  BY <1>1, <1>2, <1>3, <1>4, <1>5, <1>6, <1>7, <1>8, <1>9, <1>10, <1>11, <1>12 DEF SealedNext

\* The inner command sees the roots of the moment it runs.
LEMMA InnerSees ==
  ASSUME RunInner
  PROVE  /\ during'.source = source /\ UNCHANGED <<manifest, source>>
         /\ LifecyclesOpen' => during'.open
         /\ MutexesHeld' => during'.locked
<1>1. PICK green \in BOOLEAN :
        during' = [open |-> LifecyclesOpen, locked |-> MutexesHeld,
                   source |-> source, green |-> green]
  BY DEF RunInner
<1>2. /\ during'.source = source
      /\ during'.open <=> LifecyclesOpen
      /\ during'.locked <=> MutexesHeld
  BY <1>1
<1>3. (LifecyclesOpen' <=> LifecyclesOpen) /\ (MutexesHeld' <=> MutexesHeld)
  BY DEF RunInner, rootState, LifecyclesOpen, MutexesHeld
<1>4. QED
  BY <1>2, <1>3 DEF RunInner, rootState

\* The roots of the manifest, of the inner command and of now come one after another.
LEMMA WatchStep ==
  ASSUME SealedInv, SealedNext
  PROVE  WatchInv'
<1>1. /\ SealedTypes /\ DirectoryInv /\ SealInv /\ WatchInv /\ SealedTypes'
      /\ Precedes(source, source') /\ (LifecyclesOpen' => LifecyclesOpen)
      /\ stage' \in Watched /\ MutexesHeld' => MutexesHeld \/ relocked'
      /\ relocked => relocked' \/ RunInner
  BY SealedTypesStep, RootsMoveOn DEF SealedInv
<1>2. ASSUME stage' \in {"copy"} \cup AfterInputs PROVE Precedes(manifest', source')
  <2>1. CASE TakeManifest
    BY <1>1, <2>1, PrecedesOrder DEF TakeManifest, rootState, SealedTypes
  <2>2. CASE stage \in {"copy"} \cup AfterInputs /\ UNCHANGED manifest
    BY <1>1, <2>2, PrecedesTransitive DEF WatchInv, SealedTypes
  <2>3. QED
    BY <1>1, <1>2, <2>1, <2>2, StageFlow
<1>3. ASSUME stage' \in AfterInputs \ {"inner"}
      PROVE  /\ Precedes(manifest', during'.source) /\ Precedes(during'.source, source')
             /\ LifecyclesOpen' => during'.open
  <2>1. CASE RunInner
    <3>1. stage = "inner"
      BY <2>1 DEF RunInner
    <3>2. Precedes(manifest, source) /\ Precedes(source, source)
      BY <1>1, <3>1, PrecedesOrder DEF WatchInv, AfterInputs, SealedTypes
    <3>3. QED
      BY <2>1, <3>2, InnerSees
  <2>2. CASE stage \in AfterInputs \ {"inner"} /\ UNCHANGED <<manifest, during>>
    <3>1. /\ Precedes(manifest, during.source) /\ Precedes(during.source, source)
          /\ LifecyclesOpen => during.open
      BY <1>1, <2>2 DEF WatchInv
    <3>2. Precedes(during.source, source')
      BY <1>1, <3>1, PrecedesTransitive DEF SealedTypes
    <3>3. QED
      BY <1>1, <2>2, <3>1, <3>2
  <2>3. QED
    BY <1>1, <1>3, <2>1, <2>2, StageFlow
<1>4. ASSUME stage' \in {"validate", "revalidate", "receipts", "report"}
      PROVE  \A r \in Roots : manifest'[r].content = seal'[r]
  <2>1. \A r \in Roots : seal'[r] = seal[r]
    <3>1. stage \notin {"idle", "refused"}
      BY <1>1, <1>4, StageFlow DEF Recheck, ChecksRoots
    <3>2. QED
      BY <1>1, <3>1, SealStep DEF SealInv
  <2>2. CASE Recheck
    <3>1. stage' = "validate"
      BY <1>4, <2>2 DEF Recheck, ChecksRoots, Passes
    <3>2. source = manifest /\ MatchesSeal /\ UNCHANGED manifest
      BY <2>2, <3>1 DEF Recheck, ChecksRoots, Passes, Undisturbed, runState
    <3>3. QED
      BY <2>1, <3>2 DEF MatchesSeal
  <2>3. CASE stage \in {"validate", "revalidate", "receipts", "report"} /\ UNCHANGED manifest
    BY <1>1, <2>1, <2>3 DEF WatchInv
  <2>4. QED
    BY <1>1, <1>4, <2>2, <2>3, StageFlow
<1>5. ASSUME stage' \in Watched, MutexesHeld' PROVE during'.locked \/ relocked'
  <2>1. CASE RunInner
    BY <1>5, <2>1, InnerSees
  <2>2. CASE stage \in Watched /\ UNCHANGED during /\ ~RunInner
    BY <1>1, <1>5, <2>2 DEF WatchInv
  <2>3. QED
    BY <1>1, <1>5, <2>1, <2>2, StageFlow
<1>6. QED
  BY <1>2, <1>3, <1>4, <1>5 DEF WatchInv

\* The last check of the run closes the circle: the roots are as in the manifest
\* again, and versions never come back, so they were when the inner command ran.
LEMMA ReportStep ==
  ASSUME SealedInv, SealedNext
  PROVE  ReportInv'
<1> SUFFICES ASSUME sealedReport'.run # 0
             PROVE  /\ during'.open /\ (during'.locked \/ relocked')
                    /\ during'.source = sealedReport'.inventories
                    /\ \A r \in Roots : during'.source[r].content = live'[r]
  BY DEF ReportInv
<1>1. SealedTypes /\ DirectoryInv /\ SealInv /\ WatchInv /\ ReportInv
  BY DEF SealedInv
<1>2. CASE WriteSealedReport /\ stage' = "binding"
  <2>1. /\ stage = "report" /\ Undisturbed /\ UNCHANGED <<during, relocked, live>>
        /\ sealedReport'.inventories = manifest
    BY <1>2 DEF WriteSealedReport, seals, history
  <2>2. /\ Precedes(manifest, during.source) /\ Precedes(during.source, source)
        /\ LifecyclesOpen => during.open
        /\ MutexesHeld => during.locked \/ relocked
        /\ \A r \in Roots : manifest[r].content = seal[r]
    BY <1>1, <2>1 DEF WatchInv, AfterInputs, Watched
  <2>3. source = manifest /\ LifecyclesOpen /\ MutexesHeld
    BY <2>1 DEF Undisturbed, Held
  <2>4. during.source = manifest
    BY <1>1, <2>2, <2>3, PrecedesOrder DEF SealedTypes
  <2>5. \A r \in Roots : live[r] = seal[r]
    BY <1>1, <2>1 DEF SealInv
  <2>6. QED
    BY <2>1, <2>2, <2>3, <2>4, <2>5
<1>3. CASE UNCHANGED <<sealedReport, during>>
  <2>1. /\ during.open /\ (during.locked \/ relocked)
        /\ during.source = sealedReport.inventories
        /\ \A r \in Roots : during.source[r].content = live[r]
    BY <1>1, <1>3 DEF ReportInv
  <2>2. \A r \in Roots : live[r] # "none"
    <3>1. \A r \in Roots : during.source[r].content \in RootContents
      BY <1>1 DEF SealedTypes, RootState
    <3>2. QED
      BY <2>1, <3>1 DEF RootContents
  <2>3. \A r \in Roots : live'[r] = live[r]
    BY <1>1, <2>2, SealStep
  <2>4. relocked => relocked'
    <3>1. sealedReport.run # 0
      BY <1>3
    <3>2. ~RunInner
      BY <1>1, <3>1 DEF RunInner, DirectoryInv, AfterInputs
    <3>3. QED
      BY <3>2, RootsMoveOn DEF SealedInv
  <2>5. QED
    BY <1>3, <2>1, <2>3, <2>4
<1>4. QED
  BY <1>1, <1>2, <1>3, StageFlow

\* A run that nothing disturbed is not refused.
LEMMA CleanStep ==
  ASSUME SealedInv, SealedNext
  PROVE  CleanInv'
<1>1. SealedTypes /\ DirectoryInv /\ SealInv /\ CleanInv
  BY DEF SealedInv
<1> SUFFICES ASSUME disturbances' = 0
             PROVE  /\ Held'
                    /\ \A r \in Roots : seal'[r] \in {"none", source'[r].content}
                    /\ stage' \in {"copy"} \cup AfterInputs => manifest' = source'
                    /\ mode' = "test-only" /\ during'.green
                          /\ stage' \in {"recheck", "validate", "revalidate", "receipts", "report"}
                       => inner'.result = "passed" /\ inner'.by = "test-only"
                    /\ stage' \in {"revalidate", "receipts", "report"} => taken' = inner'
  BY DEF CleanInv
<1>2. disturbances = 0 /\ UNCHANGED rootState
  BY <1>1, RootsMoveOn
<1>3. Held'
  BY <1>1, <1>2 DEF CleanInv, rootState, Held, LifecyclesOpen, MutexesHeld
<1>4. \A r \in Roots : seal'[r] \in {"none", source'[r].content}
  BY <1>1, <1>2, SealStep DEF CleanInv, rootState
<1>5. ASSUME stage' \in {"copy"} \cup AfterInputs PROVE manifest' = source'
  <2>1. TakeManifest => manifest' = source'
    BY <1>2 DEF TakeManifest, rootState
  <2>2. QED
    BY <1>1, <1>2, <1>5, <2>1, StageFlow DEF CleanInv, rootState
<1>6. /\ mode' = "test-only" /\ during'.green
            /\ stage' \in {"recheck", "validate", "revalidate", "receipts", "report"}
          => inner'.result = "passed" /\ inner'.by = "test-only"
      /\ stage' \in {"revalidate", "receipts", "report"} => taken' = inner'
  <2> USE <1>1, <1>2 DEF CleanInv, outputs, runState, history
  <2>1. CASE \E r \in Roots : \/ EditRoot(r) \/ CloseLifecycle(r) \/ Unlock(r) \/ Relock(r)
                              \/ WriteSeal(r) \/ WriteLive(r)
    BY <2>1 DEF EditRoot, CloseLifecycle, Unlock, Relock, WriteSeal, WriteLive, Disturbs
  <2>2. CASE UnsealedRun
    BY <2>2 DEF UnsealedRun, Disturbs, SealedTypes
  <2>3. CASE Admit
    BY <2>3 DEF Admit, Passes
  <2>4. CASE RequireCleanTuple \/ DerivePublicInventory \/ Recheck \/ Revalidate
    BY <2>4 DEF RequireCleanTuple, DerivePublicInventory, Recheck, Revalidate, Checks,
      ChecksRoots, Passes
  <2>5. CASE TakeManifest
    BY <2>5 DEF TakeManifest
  <2>6. CASE CopyInputs
    BY <2>6 DEF CopyInputs, Passes
  <2>7. CASE RunInner
    BY <2>7 DEF RunInner, MayReport
  <2>8. CASE ValidateInner
    BY <2>8 DEF ValidateInner, Passes
  <2>9. CASE CopyReceipts
    BY <2>9 DEF CopyReceipts, Passes
  <2>10. CASE WriteSealedReport
    BY <2>10 DEF WriteSealedReport
  <2>11. CASE WriteBinding \/ SealedKilled
    BY <2>11 DEF WriteBinding, SealedKilled
  <2>12. QED
    BY <2>1, <2>2, <2>3, <2>4, <2>5, <2>6, <2>7, <2>8, <2>9, <2>10, <2>11 DEF SealedNext
<1>7. QED
  BY <1>3, <1>4, <1>5, <1>6

\* Every step of a sealed run, and of what goes on around it, keeps the invariant.
LEMMA SealedStep == SealedInv /\ [SealedNext]_sealedVars => SealedInv'
<1> SUFFICES ASSUME SealedInv, [SealedNext]_sealedVars PROVE SealedInv'
  OBVIOUS
<1>1. CASE SealedNext
  BY <1>1, SealedTypesStep, DirectoryStep, SealStep, WatchStep, ReportStep, CleanStep
     DEF SealedInv
<1>2. CASE UNCHANGED sealedVars
  <2> USE <1>2 DEF SealedInv, sealedVars, rootState, seals, runState, outputs, history
  <2>1. SealedTypes' /\ DirectoryInv' /\ SealInv'
    BY DEF SealedTypes, DirectoryInv, SealInv
  <2>2. (LifecyclesOpen' <=> LifecyclesOpen) /\ (MutexesHeld' <=> MutexesHeld)
    BY DEF LifecyclesOpen, MutexesHeld
  <2>3. WatchInv' /\ ReportInv' /\ CleanInv'
    BY <2>2 DEF WatchInv, ReportInv, CleanInv, Held, Precedes
  <2>4. QED
    BY <2>1, <2>3
<1>3. QED
  BY <1>1, <1>2

\* SealedInv holds throughout.
LEMMA SealedInvariant == SealedSpec => []SealedInv
  BY SealedInitial, SealedStep, PTL DEF SealedSpec

-----------------------------------------------------------------------------

\* An evidence directory holds the inputs, receipts, report and binding of one
\* run only, whoever is killed in it (copy_exclusive_at creates the inputs once).
THEOREM DirectoryOfOneRun == SealedSpec => []OneRunPerDirectory
<1>1. SealedInv => OneRunPerDirectory
  <2> SUFFICES ASSUME SealedInv PROVE OneRunPerDirectory
    OBVIOUS
  <2> DEFINE owners == {inputs, copied, sealedReport.run, binding} \ {0}
  <2>1. owners \in SUBSET {inputs}
    BY DEF SealedInv, DirectoryInv
  <2>2. IsFiniteSet({inputs}) /\ Cardinality({inputs}) = 1
    BY FS_Singleton
  <2>3. Cardinality(owners) <= 1
    BY <2>1, <2>2, FS_Subset
  <2>4. QED
    BY <2>3 DEF OneRunPerDirectory
<1>2. QED
  BY <1>1, SealedInvariant, PTL

\* What verify-sealed-matrix.py accepts was executed on what the report and the
\* seals describe, with Lock-B held and the lifecycle open, although nothing is
\* checked while the inner command runs.
THEOREM AcceptedRunUndisturbed == SealedSpec => []AcceptedWasUndisturbed
<1>1. SealedInv => AcceptedWasUndisturbed
  <2> SUFFICES ASSUME SealedInv, VerifierAccepts
               PROVE  /\ during.open /\ (during.locked \/ relocked)
        /\ during.source = sealedReport.inventories
                      /\ \A r \in Roots : during.source[r].content = live[r]
    BY DEF AcceptedWasUndisturbed
  <2>1. sealedReport # NoSealedReport
    BY DEF VerifierAccepts, NoSealedReport
  <2>2. QED
    BY <2>1 DEF SealedInv, DirectoryInv, ReportInv
<1>2. QED
  BY <1>1, SealedInvariant, PTL

\* A run of the test command ends in a refusal only where something spoiled it.
THEOREM CleanTestRun == SealedSpec => CleanTestRunIsSealed
<1> DEFINE Refuses == mode = "test-only" /\ stage # "refused" /\ stage' = "refused"
<1>1. ASSUME SealedInv, SealedNext, Refuses PROVE Spoiled
  <2> SUFFICES ASSUME ~Spoiled PROVE FALSE
    OBVIOUS
  <2>1. SealedTypes /\ DirectoryInv /\ SealInv /\ CleanInv
    BY <1>1 DEF SealedInv
  <2>2. disturbances = 0 /\ sealedRuns <= 1 /\ during.green
    BY <2>1 DEF Spoiled, SealedTypes
  <2>3. \A r \in Roots : source[r].content = "tuple" /\ live[r] = seal[r] /\ seal[r] # "none"
    BY <2>1 DEF Spoiled, SealInv
  <2>4. Held /\ MatchesSeal /\ SealsComplete
    BY <2>1, <2>2, <2>3 DEF CleanInv, MatchesSeal, SealsComplete
  <2>5. stage \in {"copy"} \cup AfterInputs => Undisturbed
    BY <2>1, <2>2, <2>4 DEF CleanInv, Undisturbed
  <2>6. CASE \E r \in Roots : \/ EditRoot(r) \/ CloseLifecycle(r) \/ Unlock(r) \/ Relock(r)
                              \/ WriteSeal(r) \/ WriteLive(r)
    BY <1>1, <2>6 DEF EditRoot, CloseLifecycle, Unlock, Relock, WriteSeal, WriteLive, Disturbs
  <2>7. CASE UnsealedRun
    BY <1>1, <2>7 DEF UnsealedRun, Disturbs
  <2>8. CASE Admit
    BY <1>1, <2>3, <2>4, <2>8 DEF Admit, Passes
  <2>9. CASE RequireCleanTuple \/ DerivePublicInventory
    BY <1>1, <2>3, <2>4, <2>9 DEF RequireCleanTuple, DerivePublicInventory, Checks, Passes
  <2>10. CASE CopyInputs
    BY <1>1, <2>1, <2>2, <2>10
       DEF CopyInputs, Passes, DirectoryInv, BeforeInputs, SealedTypes
  <2>11. CASE Recheck \/ Revalidate
    BY <1>1, <2>4, <2>5, <2>11 DEF Recheck, Revalidate, Checks, ChecksRoots, Passes, AfterInputs
  <2>12. CASE ValidateInner
    BY <1>1, <2>1, <2>2, <2>12
       DEF ValidateInner, Passes, CleanInv, ValidInner, ExtraCoverage
  <2>13. CASE CopyReceipts
    BY <1>1, <2>1, <2>2, <2>13 DEF CopyReceipts, Passes, CleanInv, DirectoryInv
  <2>14. CASE WriteSealedReport
    BY <1>1, <2>1, <2>5, <2>14 DEF WriteSealedReport, DirectoryInv, AfterInputs
  <2>15. CASE TakeManifest \/ RunInner \/ WriteBinding \/ SealedKilled
    BY <1>1, <2>15 DEF TakeManifest, RunInner, WriteBinding, SealedKilled
  <2>16. QED
    BY <1>1, <2>6, <2>7, <2>8, <2>9, <2>10, <2>11, <2>12, <2>13, <2>14, <2>15 DEF SealedNext
<1>2. SealedInv /\ [SealedNext]_sealedVars => [Refuses => Spoiled]_sealedVars
  BY <1>1
<1>3. QED
  BY <1>2, SealedInvariant, PTL DEF SealedSpec, CleanTestRunIsSealed
================================================================================
