------------------------------- MODULE MatrixRun -------------------------------
(***************************************************************************)
(* One run after another of scripts/run-cross-repo-matrix.py: it binds     *)
(* three checkouts to the commits it was told, runs the suites of each,    *)
(* builds both products, exchanges frames between two launchers, has       *)
(* verify-cross-repo-compatibility.py check the live trees, a clone whose  *)
(* pin was changed and three fresh clones, and writes its report last.     *)
(*                                                                         *)
(* The checkouts are live: a developer may edit, commit and restore at any *)
(* time after the binding check.  A command may fail or misreport, at most *)
(* MaxFaults times, and the run may be killed.  Files of an earlier run    *)
(* stay where they are until they are replaced.                            *)
(*                                                                         *)
(* A pin is "expected" (the bytes of the commit, naming the tuple), another*)
(* formatting of the same value, another value, or malformed; for the      *)
(* protocol checkout the field stands for its contract files and vectors.  *)
(***************************************************************************)
EXTENDS Integers, SequencesExt

CONSTANTS
    MacCases, IosCases,     \* negative vectors by consumer platform
    MaxRuns, MaxEdits, MaxFaults

\* load_negative_cases: an id occurs once, with the one platform that consumes it.
ASSUME CasesAssumption == MacCases \cap IosCases = {}

Cases == MacCases \cup IosCases
Products == {"mac", "ios"}
Repos == Products \cup {"protocol"}
Contents == {"expected", "respaced", "other", "malformed"}
NamesTuple == {"expected", "respaced"}

PositiveSuites == {"mac-session", "ios-session", "ios-pairing", "protocol-positive"}
FixedSuites ==
    <<"mac-session", "ios-session", "ios-pairing", "protocol-positive",
      "protocol-negative", "protocol-conformance">>
Commands == SetToSeq(MacCases) \o SetToSeq(IosCases) \o FixedSuites
Platform(c) == IF c \in MacCases THEN MacCases ELSE IosCases

Steps ==
    {"idle", "bind", "vectors", "suites", "pins", "build", "buildIos", "launchers",
     "exchange", "primary", "changed", "fresh", "report"}

VARIABLES
    committed,         \* what each repository holds at the expected commit
    tree,              \* the three live checkouts
    edits, faults,
    runs, step,        \* runs so far; what the current one does next
    pending,           \* suite commands still to run
    failures, accepted,
    positiveCovered,   \* the local positive_suite_covered: "unset", "set"
    sourcePin, builtPin,
    compat, fresh,     \* the run that wrote each compatibility receipt, 0 if none
    report,            \* the report file
    ended,             \* how the last run ended
    broken             \* history: a command of this run went wrong

world == <<committed, tree, edits>>
pins == <<sourcePin, builtPin>>
receipts == <<compat, fresh>>
results == <<failures, accepted, positiveCovered>>
matrixVars ==
    <<world, faults, runs, step, pending, results, pins, receipts, report, ended, broken>>

Unread == [p \in Products |-> "none"]
NoReport == [run |-> 0, result |-> "none"]
Snapshot(r) == [head |-> "expected", dirty |-> FALSE, pin |-> committed[r]]
Snapshots == [r \in Repos |-> Snapshot(r)]

MatrixInit ==
    /\ committed \in [Repos -> {"expected", "other", "malformed"}]
    /\ \A r, q \in Repos : committed[r] # "expected" /\ committed[q] # "expected" => r = q
    /\ tree = Snapshots
    /\ edits = 0 /\ faults = 0 /\ runs = 0
    /\ step = "idle" /\ pending = <<>> /\ failures = {} /\ accepted = {}
    /\ positiveCovered = "unset"
    /\ sourcePin = Unread /\ builtPin = Unread
    /\ compat = 0 /\ fresh = 0
    /\ report = NoReport /\ ended = "never"
    /\ broken = FALSE

-----------------------------------------------------------------------------
(* The checkouts                                                            *)

Bound(r) == tree[r] = Snapshot(r)

Change(r, to) ==
    /\ edits < MaxEdits
    /\ edits' = edits + 1
    /\ tree' = [tree EXCEPT ![r] = to]
    /\ UNCHANGED <<committed, faults, runs, step, pending, results, pins, receipts, report,
                   ended, broken>>

EditSource(r) == ~tree[r].dirty /\ Change(r, [tree[r] EXCEPT !.dirty = TRUE])
EditPin(r) ==
    \E to \in Contents \ {tree[r].pin, committed[r]} :
        Change(r, [tree[r] EXCEPT !.pin = to])
Commit(r) == tree[r].head = "expected" /\ Change(r, [tree[r] EXCEPT !.head = "moved"])
Restore(r) == ~Bound(r) /\ Change(r, Snapshot(r))

-----------------------------------------------------------------------------
(* verify-cross-repo-compatibility.py: the first reason it refuses          *)

\* require_repo_head; require_tracked_clean of the contract files; verify_pin: a
\* clean file has the committed bytes, which have to name the tuple.
HeadMoved(t) == \E r \in Repos : t[r].head # "expected"
ContractChanged(t) == t["protocol"].pin # committed["protocol"]
PinRefused(t) ==
    \E p \in Products : t[p].pin # committed[p] \/ t[p].pin \notin NamesTuple

Refusal(t) ==
    IF HeadMoved(t) THEN "head"
    ELSE IF ContractChanged(t) THEN "contract"
    ELSE IF t["protocol"].pin # "expected" THEN "digest"
    ELSE IF PinRefused(t) THEN "pin"
    ELSE "none"

-----------------------------------------------------------------------------
(* Helpers                                                                  *)

Fault == faults < MaxFaults /\ faults' = faults + 1
Goes(to) == step' = to
Fails(what) == failures' = failures \cup {what}

\* A command went as it should, or did not.
Works == UNCHANGED <<faults, broken>>
Breaks(what) == Fault /\ broken' = TRUE /\ Fails(what)
OrBreaks(what) == (Works /\ UNCHANGED failures) \/ Breaks(what)

Ends(how) == Goes("idle") /\ ended' = how
Forgotten ==
    /\ pending' = <<>> /\ failures' = {} /\ accepted' = {} /\ positiveCovered' = "unset"
    /\ sourcePin' = Unread /\ builtPin' = Unread
    /\ broken' = FALSE

-----------------------------------------------------------------------------
(* main()                                                                   *)

Start ==
    /\ step = "idle" /\ runs < MaxRuns
    /\ runs' = runs + 1 /\ Goes("bind")
    /\ pending' = Commands
    /\ ended' = "never"
    /\ failures' = {} /\ accepted' = {} /\ positiveCovered' = "unset"
    /\ sourcePin' = Unread /\ builtPin' = Unread
    /\ broken' = FALSE
    /\ UNCHANGED <<world, faults, receipts, report>>

\* require_source_binding of the three roots; what happens to a root that was
\* checked is the same before and after the others are.
Bind ==
    /\ step = "bind"
    /\ \/ (\A r \in Repos : Bound(r)) /\ Goes("vectors") /\ UNCHANGED ended
       \/ (\E r \in Repos : ~Bound(r)) /\ Ends("refused")
    /\ UNCHANGED <<world, faults, runs, pending, results, pins, receipts, report, broken>>

\* load_negative_cases and load_positive_case_ids, from the live protocol checkout.
LoadVectors ==
    /\ step = "vectors"
    /\ \/ tree["protocol"].pin # "malformed" /\ Goes("suites") /\ UNCHANGED ended
       \/ tree["protocol"].pin = "malformed" /\ Ends("refused")
    /\ UNCHANGED <<world, faults, runs, pending, results, pins, receipts, report, broken>>

\* record_suite_vector_evidence: receipts count only when the command passed;
\* any malformed, duplicate or foreign one drops all of this command's.
CaseCommand(c) ==
    \/ /\ accepted' = accepted \cup {<<c, c>>}
       /\ Works /\ UNCHANGED failures
    \/ \E told \in SUBSET Platform(c) \ {{c}} :
          /\ Fault /\ accepted' = accepted \cup {<<id, c>> : id \in told}
          /\ UNCHANGED <<failures, broken>>
    \/ Breaks("receipts of a case") /\ UNCHANGED accepted
    \/ Breaks("suite of a case") /\ UNCHANGED accepted

\* Mutant: a fixed suite that fails is only logged.
FixedSuiteLogged(c) ==
    /\ \/ Works
       \/ Fault /\ broken' = TRUE
    /\ UNCHANGED <<failures, accepted>>

FixedSuite(c) ==
    /\ OrBreaks(c)
    /\ UNCHANGED accepted

Suite ==
    /\ step = "suites" /\ pending # <<>>
    /\ LET c == Head(pending) IN IF c \in Cases THEN CaseCommand(c) ELSE FixedSuite(c)
    /\ pending' = Tail(pending)
    /\ UNCHANGED <<world, runs, step, positiveCovered, pins, receipts, report, ended>>

Covered == {id \in Cases : \E c \in Cases : <<id, c>> \in accepted}

CoverIf(positive) ==
    /\ step = "suites" /\ pending = <<>>
    /\ positiveCovered' = IF positive THEN "set" ELSE "unset"
    /\ failures' = failures \cup (IF Covered = Cases THEN {} ELSE {"coverage"})
    /\ Goes("pins")
    /\ UNCHANGED <<world, faults, runs, pending, accepted, pins, receipts, report, ended, broken>>

\* Mutant: the positive vectors count as covered only when nothing failed at all.
CoverClean == CoverIf(failures = {} /\ Covered = Cases)

Cover == CoverIf(failures \cap PositiveSuites = {})

ReadPins ==
    /\ step = "pins"
    /\ \/ /\ \A p \in Products : tree[p].pin # "malformed"
          /\ sourcePin' = [p \in Products |-> tree[p].pin]
          /\ Goes("build") /\ UNCHANGED ended
       \/ /\ \E p \in Products : tree[p].pin = "malformed"
          /\ Ends("refused") /\ UNCHANGED sourcePin
    /\ UNCHANGED <<world, faults, runs, pending, results, builtPin, receipts, report, broken>>

\* build_product_pins: the Mac product from the live checkout, ...
BuildMac ==
    /\ step = "build"
    /\ \/ /\ Works /\ builtPin' = [builtPin EXCEPT !["mac"] = tree["mac"].pin]
          /\ Goes("buildIos") /\ UNCHANGED failures
       \/ Breaks("build") /\ Goes("launchers") /\ UNCHANGED builtPin
    /\ UNCHANGED <<world, runs, pending, accepted, positiveCovered, sourcePin, receipts, report,
                   ended>>

\* ... the iOS product from a clone at the expected commit.
BuiltPinsMatch(built) ==
    \A p \in Products : sourcePin[p] \in NamesTuple /\ built[p] = sourcePin[p]

BuildIosFrom(pin) ==
    /\ step = "buildIos"
    /\ LET built == [builtPin EXCEPT !["ios"] = pin]
           refused == \E p \in Products : built[p] = "malformed"
       IN \/ /\ ~refused /\ Works /\ builtPin' = built
             /\ failures' = failures \cup (IF BuiltPinsMatch(built) THEN {} ELSE {"built pins"})
             /\ Goes("launchers") /\ UNCHANGED ended
          \/ refused /\ Works /\ Ends("refused") /\ UNCHANGED <<builtPin, failures>>
          \/ Breaks("build") /\ Goes("launchers") /\ UNCHANGED <<builtPin, ended>>
    /\ UNCHANGED <<world, runs, pending, accepted, positiveCovered, sourcePin, receipts, report>>

\* Mutant: the iOS product is built from the live checkout.
BuildIosLive == BuildIosFrom(tree["ios"].pin)

BuildIos == BuildIosFrom(committed["ios"])

CompileLaunchers ==
    /\ step = "launchers"
    /\ \/ Works /\ Goes("exchange") /\ UNCHANGED failures
       \/ Breaks("launchers") /\ Goes("primary")
    /\ UNCHANGED <<world, runs, pending, accepted, positiveCovered, pins, receipts, report, ended>>

\* Nine vectors, the first that fails ends the loop; both zero-length frames.
\* positive_suite_covered is read only when every vector went through.
Exchange ==
    /\ step = "exchange"
    /\ \/ /\ OrBreaks("zero-length frame accepted")
          /\ \/ positiveCovered = "set" /\ Goes("primary") /\ UNCHANGED ended
             \/ positiveCovered = "unset" /\ Ends("unbound")
       \/ Breaks("vector") /\ Goes("primary") /\ UNCHANGED ended
    /\ UNCHANGED <<world, runs, pending, accepted, positiveCovered, pins, receipts, report>>

Primary ==
    /\ step = "primary"
    /\ \/ Refusal(tree) = "none" /\ Works /\ compat' = runs /\ UNCHANGED failures
       \/ Refusal(tree) # "none" /\ Works /\ Fails("primary") /\ UNCHANGED compat
       \/ Breaks("primary") /\ UNCHANGED compat
    /\ Goes("changed")
    /\ UNCHANGED <<world, runs, pending, accepted, positiveCovered, pins, fresh, report, ended>>

\* A clone of the Mac repository with another digest in its pin has to be
\* refused for its pin.  The live protocol checkout may be refused first, and
\* one of its contract files is named build-pin.schema.json.
ChangedPin ==
    /\ step = "changed"
    /\ LET why == Refusal([tree EXCEPT !["mac"] = [Snapshot("mac") EXCEPT !.pin = "zeroed"]])
       IN \/ committed["mac"] = "malformed" /\ Works /\ Ends("refused") /\ UNCHANGED failures
          \/ committed["mac"] # "malformed" /\ Goes("fresh") /\ UNCHANGED ended
             /\ \/ why \in {"pin", "contract"} /\ Works /\ UNCHANGED failures
                \/ why # "pin" /\ Works /\ Fails("changed pin")
                \/ Breaks("changed pin")
    /\ UNCHANGED <<world, runs, pending, accepted, positiveCovered, pins, receipts, report>>

FreshClones ==
    /\ step = "fresh"
    /\ LET verified == Refusal(Snapshots) = "none"
       IN \/ verified /\ Works /\ fresh' = runs
             /\ failures' = failures \cup (IF compat = 0 THEN {"fresh"} ELSE {})
          \/ ~verified /\ Works /\ Fails("fresh") /\ UNCHANGED fresh
          \/ Breaks("fresh") /\ UNCHANGED fresh
    /\ Goes("report")
    /\ UNCHANGED <<world, runs, pending, accepted, positiveCovered, pins, compat, report, ended>>

WriteReport ==
    /\ step = "report" /\ positiveCovered = "set"
    /\ report' = [run |-> runs, result |-> IF failures = {} THEN "passed" ELSE "failed"]
    /\ Ends("report")
    /\ UNCHANGED <<world, faults, runs, pending, results, pins, receipts, broken>>

\* The report reads positive_suite_covered whatever the suites did.
ReportUnbound ==
    /\ step = "report" /\ positiveCovered = "unset"
    /\ Ends("unbound")
    /\ UNCHANGED <<world, faults, runs, pending, results, pins, receipts, report, broken>>

Killed ==
    /\ step # "idle"
    /\ Ends("killed") /\ Forgotten
    /\ UNCHANGED <<world, faults, runs, receipts, report>>

MatrixNext ==
    \/ Start \/ Bind \/ LoadVectors \/ Suite \/ Cover \/ ReadPins \/ BuildMac \/ BuildIos
    \/ CompileLaunchers \/ Exchange \/ Primary \/ ChangedPin \/ FreshClones
    \/ WriteReport \/ ReportUnbound \/ Killed
    \/ \E r \in Repos : EditSource(r) \/ EditPin(r) \/ Commit(r) \/ Restore(r)

MatrixSpec == MatrixInit /\ [][MatrixNext]_matrixVars

-----------------------------------------------------------------------------
(* Properties                                                               *)

\* The last run wrote a report that says passed; its variables are still there.
Passed == step = "idle" /\ report.run = runs /\ report.result = "passed"

\* A report that says passed: no command of that run went wrong, and every
\* negative vector was reported rejected by a command of its own platform.
\* A failure that is recorded anywhere must reach the verdict at the end.
PassedMeansAll ==
    Passed =>
        /\ ~broken
        /\ \A id \in Cases : \E c \in Platform(id) : <<id, c>> \in accepted

\* A passed report is about the tuple and made by its run: both compatibility
\* receipts it hashes were written by that run, none is left from an earlier one
\* in the same directory; the product pins name the tuple, and the bytes of the
\* iOS pin are those of the expected commit, whatever the live checkouts went
\* through.  (The Mac product is built from the live checkout: its pin may be
\* another formatting that was restored before the primary verification.)
PassedIsOfTheTuple ==
    Passed =>
        /\ compat = runs /\ fresh = runs
        /\ builtPin["ios"] = "expected" /\ committed["ios"] = "expected"
        /\ builtPin["mac"] \in NamesTuple /\ committed["mac"] = "expected"

\* A run that was neither refused nor killed leaves a report of its own,
\* provided that no suite of the positive vectors failed.
ReportsUnlessSuiteFailed ==
    step = "idle" /\ ended \in {"report", "unbound"}
        => report.run = runs \/ failures \cap PositiveSuites # {}
================================================================================
