-------------------------- MODULE ReceiptReadiness --------------------------
(***************************************************************************)
(* Receipt envelopes and the retirement readiness verifier.                *)
(*                                                                         *)
(* scripts/evidence/verify_receipt.py decides what one receipt is worth:   *)
(* it decodes the receipt and every member of the receipt set, validates   *)
(* them against what is expected, and verifies the signature of the        *)
(* receipt itself.  scripts/verify-ios-transition-readiness.py reads the   *)
(* three repositories, asks for a verdict on the receipt of every gate,    *)
(* reads the repositories again and writes one report, while developers    *)
(* edit and commit, issuers write receipts and the clock advances.         *)
(***************************************************************************)
EXTENDS Integers, Sequences, FiniteSets

CONSTANTS
  Roots,       \* the repositories: "macRoot" and those that only have to be kept
  Gates,       \* the gates the readiness verifier asks about, of GateIds
  Issuers,     \* who writes receipts here, of the issuers of ISSUER_MATRIX
  MaxChanges,  \* bound: changes to repositories, receipts and the clock
  MaxReports   \* bound: readiness runs

\* verify() reads macRoot and two others, and asks about every gate of GATES.
ASSUME RootsAssumption == "macRoot" \in Roots

VARIABLES
  log,         \* per repository, the contents of its commits
  tree,        \* per repository, the contents of its working tree
  store,       \* the receipt files, by path
  clock,       \* the verifier's clock
  attempt,     \* the current release attempt
  issued,      \* receipts issued, the source of receipt ids
  changes,     \* changes made so far
  readiness,   \* where the readiness run is
  trustMode, asked, members, inputRoots,   \* its arguments
  kept,        \* current_preserved, history_preserved, standalone_ready
  before,      \* the first snapshot, NoTuple when none was taken
  configFault, \* a configuration gate was appended
  results,     \* per gate, the gate's result
  moved,       \* ghost: a commit landed between what is kept was read and the first snapshot
  readinessReport, \* the report file
  reports      \* readiness runs started

devVars == <<log, tree, store, clock, attempt, issued, changes>>
argVars == <<trustMode, asked, members, inputRoots>>
foundVars == <<kept, before, configFault, results>>
receiptVars == <<devVars, readiness, argVars, foundVars, moved,
                 readinessReport, reports>>
-----------------------------------------------------------------------------
(* Repositories.  Contents stands for what the verifiers tell apart: the   *)
(* trust policy of the Mac repository may still defer its production keys, *)
(* and a repository may have lost what it must keep.                       *)

Contents(r) == {"provisioned", "retired"} \cup (IF r = "macRoot" THEN {"deferred"} ELSE {})
Keeps(contents) == contents # "retired"

HeadOf(r) == log[r][Len(log[r])]
Dirty(r) == tree[r] # HeadOf(r)
SourceTuple == [r \in Roots |-> Len(log[r])]
NoTuple == [r \in Roots |-> 0]

\* The policy file is read from the working tree; a policy that is not
\* deferred carries publicKeyHex for its production keys.
PolicyInTree == IF tree["macRoot"] = "deferred" THEN "deferred" ELSE "provisioned"

(* Receipts *)

GateIds == {"g004.automated", "g004.physical", "g006.provenance",
            "export.review", "apple.distribution", "rollback.build"}
ASSUME GatesAssumption == Gates # {} /\ Gates \subseteq GateIds

\* An issuer is a (kind, role, trustDomain) triple of the matrix.
IssuersOf(gate, status) ==
  CASE gate = "g004.physical" /\ status # "passed" -> {"agent", "ci", "release-engineer"}
    [] gate = "g004.physical" -> {"release-engineer"}
    [] gate \in {"g004.automated", "g006.provenance"} -> {"agent", "ci"}
    [] gate = "export.review" -> {"export-reviewer"}
    [] gate = "apple.distribution" -> {"provider"}
    [] gate = "rollback.build" -> {"ci"}

\* Who each key of the trust policy speaks for.
TestKeys == {"test"}
Trusts == [test |-> {"agent"}, ci |-> {"ci"},
           human |-> {"release-engineer", "export-reviewer"}, provider |-> {"provider"}]

Paths == Gates \cup {"extra"}
None == 0
NoReceipt ==
  [form |-> "untyped", id |-> 0, gate |-> "none", attempt |-> 0, tuple |-> NoTuple,
   policy |-> "none", schema |-> "none", issuer |-> "none", key |-> "none",
   status |-> "none", expiry |-> None, children |-> {}]

\* _is_expired and _active.
Expired(receipt, now) == receipt.expiry # None /\ receipt.expiry <= now
Active(receipt, now) == receipt.status # "failed" /\ ~Expired(receipt, now)

\* What typed_gate_result expects; the schema digest is that of the contract of
\* one gate.  The commits are passed one by one, under keys _validate_payload does
\* not look at: without a "sourceTuple" it compares no tuple.
Expectation(gate, forAttempt) ==
  [gate |-> gate, attempt |-> forAttempt, schema |-> gate, policy |-> PolicyInTree]

\* Mutant: the release attempt of a receipt is not compared.
AdmissibleReplay(receipt, expected, target) ==
  /\ receipt.form = "envelope"
  /\ target => receipt.gate = expected.gate
  /\ receipt.issuer \in IssuersOf(receipt.gate, receipt.status)
  /\ receipt.schema = expected.schema
  /\ receipt.policy = expected.policy

\* _decode_envelope, _validate_payload: the target and every member of the set
\* are held to the same attempt and digests, only the target to the gate.
Admissible(receipt, expected, target) ==
  /\ receipt.form = "envelope"
  /\ target => receipt.gate = expected.gate
  /\ receipt.attempt = expected.attempt
  /\ receipt.issuer \in IssuersOf(receipt.gate, receipt.status)
  /\ receipt.schema = expected.schema
  /\ receipt.policy = expected.policy

\* What makes the effective set malformed: a receiptId used twice, two active
\* receipts for one gate, a child that is not in the set as it was hashed.
Contradictory(paths, target, now) ==
  \/ \E p, q \in paths :
       /\ p # q
       /\ \/ store[p].id = store[q].id
          \/ /\ store[p].gate = store[q].gate
             /\ Active(store[p], now) /\ Active(store[q], now)
  \/ \E child \in store[target].children :
       ~ \E p \in paths : store[p] = child

\* _verify_signature, of the target alone.
SignatureRefused(receipt, mode) ==
  \/ receipt.key \in TestKeys /\ mode = "production"
  \/ receipt.issuer \notin Trusts[receipt.key]
KeyDeferred(receipt) ==
  receipt.key \notin TestKeys /\ PolicyInTree = "deferred"

\* verify_envelope.
VerifyEnvelope(path, set, expected, mode) ==
  LET paths == {path} \cup set
      target == store[path]
      verdict(exit, trusted) == [exit |-> exit, trusted |-> trusted, receipt |-> target]
  IN IF \/ \E p \in paths : ~Admissible(store[p], expected, p = path)
        \/ Contradictory(paths, path, clock)
        \/ SignatureRefused(target, mode)
     THEN verdict(3, FALSE)
     ELSE IF KeyDeferred(target) THEN verdict(2, FALSE)
     ELSE IF Expired(target, clock) \/ target.status # "passed" THEN verdict(2, TRUE)
     ELSE verdict(0, TRUE)
-----------------------------------------------------------------------------
(* Gate results *)

NoVerdict == [exit |-> 2, trusted |-> FALSE, receipt |-> NoReceipt]
Pending == [status |-> "pending", verdict |-> NoVerdict, at |-> 0]
NoReport == [eligible |-> FALSE, exit |-> -1, tuple |-> NoTuple, attempt |-> None,
             results |-> [g \in Gates |-> Pending], moved |-> FALSE]

\* gate_result and typed_gate_result.  Nothing, legacy evidence and a receipt
\* that is no envelope block; an envelope is not judged when no snapshot was
\* taken, because it appeared after the scan or a tree was dirty.
GateResult(g) ==
  LET found(status, verdict) ==
        [status |-> status, verdict |-> verdict, at |-> clock]
  IN CASE store[g].form = "untyped" -> found("blocked", NoVerdict)
       [] store[g].form = "unreadable" -> found("malformed", NoVerdict)
       [] store[g].form = "envelope" /\ asked = None -> found("blocked", NoVerdict)
       [] store[g].form = "envelope" /\ asked # None /\ before = NoTuple ->
            found("malformed", NoVerdict)
       [] OTHER ->
            LET verdict == VerifyEnvelope(g, members, Expectation(g, asked), trustMode)
            IN found(CASE verdict.exit = 0 /\ verdict.trusted -> "passed"
                       [] verdict.exit = 2 -> "blocked"
                       [] OTHER -> "malformed", verdict)
-----------------------------------------------------------------------------
GateOrder == <<"g004.automated", "g004.physical", "g006.provenance",
               "export.review", "apple.distribution", "rollback.build">>
Rank(g) == CHOOSE i \in DOMAIN GateOrder : GateOrder[i] = g

\* A campaign that ended well: every gate has a passed receipt for the first
\* commits.
Backing(g) ==
  LET key == CHOOSE k \in (DOMAIN Trusts) \ TestKeys :
               Trusts[k] \cap IssuersOf(g, "passed") # {}
  IN [form |-> "envelope", id |-> Rank(g) - Len(GateOrder), gate |-> g, attempt |-> 1,
      tuple |-> SourceTuple, policy |-> PolicyInTree, schema |-> g,
      issuer |-> CHOOSE i \in Trusts[key] \cap IssuersOf(g, "passed") : TRUE,
      key |-> key, status |-> "passed", expiry |-> 2, children |-> {}]

ReceiptInit ==
  /\ \E contents \in Contents("macRoot") :
       /\ tree = [r \in Roots |-> IF r = "macRoot" THEN contents ELSE "provisioned"]
       /\ log = [r \in Roots |-> <<tree[r]>>]
  /\ store = [p \in Paths |-> IF p \in Gates THEN Backing(p) ELSE NoReceipt]
  /\ clock = 1 /\ attempt = 1 /\ issued = Cardinality(Gates) /\ changes = 0
  /\ readiness = "idle" /\ trustMode = "production" /\ asked = None
  /\ members = {} /\ inputRoots = FALSE
  /\ kept = FALSE /\ before = NoTuple /\ configFault = FALSE
  /\ results = [g \in Gates |-> Pending]
  /\ moved = FALSE
  /\ readinessReport = NoReport
  /\ reports = 0

runVars == <<readiness, argVars, foundVars, readinessReport, reports>>

\* Developers, issuers and time (bound: nothing changes after the last run).
Change ==
  /\ reports < MaxReports \/ readiness # "idle"
  /\ changes < MaxChanges
  /\ changes' = changes + 1

EditTree(r, contents) ==
  /\ Change
  /\ tree[r] # contents
  /\ tree' = [tree EXCEPT ![r] = contents]
  /\ UNCHANGED <<log, store, clock, attempt, issued, moved, runVars>>

CommitTree(r) ==
  /\ Change
  /\ Dirty(r)
  /\ log' = [log EXCEPT ![r] = Append(@, tree[r])]
  /\ moved' = (moved \/ readiness = "snapshot")
  /\ UNCHANGED <<tree, store, clock, attempt, issued, runVars>>

\* An issuer writes a receipt for the commits it sees, with its own key, and
\* may name another receipt of the store as a child.
Issue(p, gate, issuer, key, status, expiry) ==
  /\ issuer \in Trusts[key]
  /\ p \in Gates => gate = p
  /\ issued' = issued + 1
  /\ \E children \in {{}} \cup {{store[q]} : q \in {q \in {"extra"} \ {p} :
                                                 store[q].form = "envelope"}} :
       store' = [store EXCEPT ![p] =
         [form |-> "envelope", id |-> issued + 1, gate |-> gate, attempt |-> attempt,
          tuple |-> SourceTuple, policy |-> PolicyInTree, schema |-> gate,
          issuer |-> issuer, key |-> key, status |-> status, expiry |-> expiry,
          children |-> children]]
  /\ UNCHANGED <<log, tree, clock, attempt, moved, runVars>>

IssueOne ==
  /\ \E p \in Paths, gate \in Gates, issuer \in Issuers, key \in DOMAIN Trusts,
        status \in {"passed", "blocked"} :
       Issue(p, gate, issuer, key, status, None)
  /\ Change

ReplaceFile(p, form) ==
  /\ Change
  /\ store' = [store EXCEPT ![p] = [NoReceipt EXCEPT !.form = form]]
  /\ UNCHANGED <<log, tree, clock, attempt, issued, moved, runVars>>

CopyReceipt(p, q) ==
  /\ Change
  /\ store[p].form = "envelope" /\ store[q] # store[p]
  /\ store' = [store EXCEPT ![q] = store[p]]
  /\ UNCHANGED <<log, tree, clock, attempt, issued, moved, runVars>>

Tick ==
  /\ Change
  /\ clock' = clock + 1
  /\ UNCHANGED <<log, tree, store, attempt, issued, moved, runVars>>

NewAttempt ==
  /\ Change
  /\ attempt' = attempt + 1
  /\ UNCHANGED <<log, tree, store, clock, issued, moved, runVars>>
-----------------------------------------------------------------------------
(* The readiness run *)

\* verify: the arguments, then what the repositories keep, read from the tree
\* and from HEAD.  Production refuses extra input roots.
Start(mode, withAttempt, set, extraRoots) ==
  /\ readiness = "idle"
  /\ reports < MaxReports
  /\ trustMode' = mode
  /\ asked' = IF withAttempt THEN attempt ELSE None
  /\ members' = set
  /\ inputRoots' = (extraRoots /\ mode = "test")
  /\ configFault' = (extraRoots /\ mode = "production")
  /\ kept' = (Keeps(HeadOf("macRoot")) /\ \A r \in Roots : Keeps(tree[r]))
  /\ before' = NoTuple
  /\ results' = [g \in Gates |-> Pending]
  /\ moved' = FALSE
  /\ readiness' = "snapshot"
  /\ reports' = reports + 1
  /\ UNCHANGED <<devVars, readinessReport>>

\* The first snapshot_roots, taken when some typed receipt will be judged.
FirstSnapshot ==
  /\ readiness = "snapshot"
  /\ LET needed == inputRoots \/ (asked # None /\ \E g \in Gates : store[g].form = "envelope")
         dirty == \E r \in Roots : Dirty(r)
     IN /\ before' = IF needed /\ ~dirty THEN SourceTuple ELSE NoTuple
        /\ configFault' = (configFault \/ (needed /\ dirty))
  /\ readiness' = "gates"
  /\ UNCHANGED <<devVars, argVars, kept, results, moved, readinessReport, reports>>

CheckGate ==
  /\ readiness = "gates"
  /\ \E g \in Gates :
       /\ results[g] = Pending
       /\ \A h \in Gates : results[h] = Pending => Rank(g) <= Rank(h)
       /\ results' = [results EXCEPT ![g] = GateResult(g)]
  /\ UNCHANGED <<devVars, readiness, argVars, kept, before, configFault, moved,
                 readinessReport, reports>>

\* The second snapshot: dirty_worktree or repo_state_drift.
SecondSnapshot ==
  /\ readiness = "gates"
  /\ \A g \in Gates : results[g] # Pending
  /\ configFault' =
       (\/ configFault
        \/ before # NoTuple /\ (SourceTuple # before \/ \E r \in Roots : Dirty(r)))
  /\ readiness' = "write"
  /\ UNCHANGED <<devVars, argVars, kept, before, results, moved, readinessReport, reports>>

\* Mutant: retirement does not ask what the repositories keep.
RetirementEligibleAnyway ==
  /\ trustMode = "production"
  /\ ~configFault
  /\ \A g \in Gates : results[g].status = "passed"

RetirementEligible ==
  /\ trustMode = "production"
  /\ ~configFault
  /\ \A g \in Gates : results[g].status = "passed"
  /\ kept

\* The end of verify, and write_atomic.
WriteReadiness ==
  /\ readiness = "write"
  /\ readinessReport' =
       [eligible |-> RetirementEligible,
        exit |-> IF configFault \/ \E g \in Gates : results[g].status = "malformed" THEN 3
                 ELSE IF RetirementEligible THEN 0 ELSE 2,
        tuple |-> before, attempt |-> asked, results |-> results, moved |-> moved]
  /\ readiness' = "idle"
  /\ UNCHANGED <<devVars, argVars, foundVars, moved, reports>>

\* The run is killed, or its output cannot be written: the old report stays.
ReadinessLost ==
  /\ readiness # "idle"
  /\ readiness' = "idle"
  /\ UNCHANGED <<devVars, argVars, foundVars, moved, readinessReport, reports>>

ReceiptNext ==
  \/ \E r \in Roots : \/ \E contents \in Contents(r) : EditTree(r, contents)
                     \/ CommitTree(r)
  \/ IssueOne
  \/ \E p \in Paths : \/ \E form \in {"untyped", "unreadable"} : ReplaceFile(p, form)
                     \/ \E q \in Paths : CopyReceipt(p, q)
  \/ Tick \/ NewAttempt
  \/ Start("production", FALSE, {}, FALSE)
  \/ \E set \in {{}, {"extra"}} : Start("production", TRUE, set, FALSE)
  \/ \E mode \in {"test", "production"} : Start(mode, TRUE, {}, TRUE)
  \/ FirstSnapshot \/ CheckGate \/ SecondSnapshot \/ WriteReadiness \/ ReadinessLost

ReceiptSpec == ReceiptInit /\ [][ReceiptNext]_receiptVars
-----------------------------------------------------------------------------
(* Properties *)

\* A report that declares retirement eligible rests, for every gate, on a
\* receipt that was signed for that gate by somebody the matrix lets pass it,
\* under a production key whose policy was not deferred, for the attempt the
\* report names, and that had not expired when it was judged, whatever was
\* edited, committed, reissued, copied or replaced while the run was going.  For
\* which commits it was signed is EligibleIsCurrent's question.
EligibleIsBacked ==
  readinessReport.eligible =>
    \A g \in Gates :
      LET receipt == readinessReport.results[g].verdict.receipt IN
        /\ receipt.gate = g /\ receipt.status = "passed"
        /\ receipt.issuer \in IssuersOf(g, "passed") \ {"agent"}
        /\ receipt.key \notin TestKeys /\ receipt.policy = "provisioned"
        /\ receipt.attempt = readinessReport.attempt
        /\ ~Expired(receipt, readinessReport.results[g].at)

\* The receipts of an eligible report were signed for the commits it names: one
\* of an earlier tuple is to be refused as old_source_tuple, "receipt source tuple
\* does not match the current three-repo tuple".  It is not, see Expectation.
EligibleIsCurrent ==
  readinessReport.eligible =>
    \A g \in Gates :
      readinessReport.results[g].verdict.receipt.tuple = readinessReport.tuple

\* The Mac commit an eligible report names still holds the GPL iOS target and
\* source ("must remain in the current tree and HEAD history"), unless a commit
\* landed after the run had looked for them and before it took its first
\* snapshot: verify() reads the two at different times.
EligibleKeepsUnlessMoved ==
  readinessReport.eligible /\ ~readinessReport.moved =>
    Keeps(log["macRoot"][readinessReport.tuple["macRoot"]])
=============================================================================
