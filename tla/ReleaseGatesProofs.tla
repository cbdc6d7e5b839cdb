--------------------------- MODULE ReleaseGatesProofs ---------------------------
(***************************************************************************)
(* Proofs about the gates of a release: ReceiptReadiness and AppcastFeed,  *)
(* which share nothing.                                                    *)
(*                                                                         *)
(* ReceiptInv holds for every set of gates and of repositories, and any    *)
(* number of changes and runs: what a gate passed on was read in one step, *)
(* and the attempt it is held to does not change during a run, so nothing  *)
(* written afterwards can undo it.                                         *)
(*                                                                         *)
(* FeedInv holds for every set of versions and any number of builds, edits *)
(* and events.  It says of the workflow run in progress, from one step to  *)
(* the next, what the properties say of the feed: nothing a maintainer     *)
(* does to a release reaches what the run has already chosen and fetched.  *)
(***************************************************************************)
EXTENDS ReceiptReadiness, AppcastFeed, SequenceTheorems, TLAPS

-----------------------------------------------------------------------------
(* The receipts: what holds                                                 *)

\* What a repository may hold.
AnyContents == {"provisioned", "retired", "deferred"}
LogTypes ==
  /\ log \in [Roots -> Seq(AnyContents)] /\ log["macRoot"] # <<>>
  /\ tree \in [Roots -> AnyContents]

\* Whoever signed an envelope has a key of the trust policy.
StoreInv == \A p \in Paths : store[p].form = "envelope" => store[p].key \in DOMAIN Trusts

\* What a passed gate rests on, of the attempt of the run.
BackedFor(result, g, forAttempt) ==
  LET receipt == result.verdict.receipt IN
    /\ receipt.gate = g /\ receipt.status = "passed"
    /\ receipt.issuer \in IssuersOf(g, "passed") \ {"agent"}
    /\ receipt.key \notin TestKeys /\ receipt.policy = "provisioned"
    /\ receipt.attempt = forAttempt
    /\ ~Expired(receipt, result.at)

ResultInv ==
  /\ readiness = "snapshot" =>
        before = NoTuple /\ \A g \in Gates : results[g].status = "pending"
  /\ \A g \in Gates : results[g].status = "passed" =>
        /\ before # NoTuple
        /\ trustMode = "production" => BackedFor(results[g], g, asked)

\* The Mac commit of a tuple, as the log has it.
KeepsAt(tuple) ==
  /\ tuple["macRoot"] \in 1..Len(log["macRoot"])
  /\ Keeps(log["macRoot"][tuple["macRoot"]])

\* What the run read of the Mac repository is what its first snapshot names.
KeepInv ==
  kept /\ ~moved =>
    /\ readiness = "snapshot" => Keeps(HeadOf("macRoot"))
    /\ before # NoTuple => KeepsAt(before)

ReportInv ==
  readinessReport.eligible =>
    /\ \A g \in Gates :
          BackedFor(readinessReport.results[g], g, readinessReport.attempt)
    /\ ~readinessReport.moved => KeepsAt(readinessReport.tuple)

ReceiptInv == LogTypes /\ StoreInv /\ ResultInv /\ KeepInv /\ ReportInv

-----------------------------------------------------------------------------
(* Repositories and receipts                                                *)

\* Nothing but a commit moves a log, and a commit only adds to it.
LEMMA LogTypesStep ==
  ASSUME LogTypes, [ReceiptNext]_receiptVars
  PROVE  /\ LogTypes'
         /\ \/ UNCHANGED log
            \/ \E r \in Roots : CommitTree(r) /\ log' = [log EXCEPT ![r] = Append(@, tree[r])]
<1> USE RootsAssumption
<1>1. ASSUME NEW r \in Roots, NEW contents \in Contents(r), EditTree(r, contents)
      PROVE  LogTypes' /\ UNCHANGED log
  BY <1>1 DEF EditTree, LogTypes, Contents, AnyContents
<1>2. ASSUME NEW r \in Roots, CommitTree(r)
      PROVE  LogTypes' /\ log' = [log EXCEPT ![r] = Append(@, tree[r])]
  <2>1. log[r] \in Seq(AnyContents) /\ tree[r] \in AnyContents
    BY DEF LogTypes
  <2>2. Append(log[r], tree[r]) \in Seq(AnyContents) /\ Append(log[r], tree[r]) # <<>>
    BY <2>1, AppendProperties
  <2>3. QED
    BY <1>2, <2>2 DEF CommitTree, LogTypes
<1>3. ASSUME \/ IssueOne \/ Tick \/ NewAttempt
             \/ \E p \in Paths : \/ \E form \in {"untyped", "unreadable"} : ReplaceFile(p, form)
                                 \/ \E q \in Paths : CopyReceipt(p, q)
      PROVE  UNCHANGED <<log, tree>>
  BY <1>3 DEF IssueOne, Issue, Tick, NewAttempt, ReplaceFile, CopyReceipt
<1>4. ASSUME \/ \E mode \in {"test", "production"}, withAttempt \in BOOLEAN,
                   set \in {{}, {"extra"}}, extraRoots \in BOOLEAN :
                   Start(mode, withAttempt, set, extraRoots)
             \/ FirstSnapshot \/ CheckGate \/ SecondSnapshot \/ WriteReadiness \/ ReadinessLost
      PROVE  UNCHANGED <<log, tree>>
  BY <1>4 DEF Start, FirstSnapshot, CheckGate, SecondSnapshot, WriteReadiness, ReadinessLost,
     devVars
<1>5. CASE UNCHANGED receiptVars
  BY <1>5 DEF receiptVars, devVars, LogTypes
<1>6. CASE UNCHANGED <<log, tree>>
  BY <1>6 DEF LogTypes
<1>7. QED
  BY <1>1, <1>2, <1>3, <1>4, <1>5, <1>6 DEF ReceiptNext

\* What a log says of an earlier commit stays.
LEMMA KeepsAtStep ==
  ASSUME LogTypes, [ReceiptNext]_receiptVars, NEW tuple, KeepsAt(tuple)
  PROVE  KeepsAt(tuple)'
<1> USE RootsAssumption
<1>1. CASE UNCHANGED log
  BY <1>1 DEF KeepsAt
<1>2. ASSUME NEW r \in Roots, log' = [log EXCEPT ![r] = Append(@, tree[r])]
      PROVE  KeepsAt(tuple)'
  <2>1. log["macRoot"] \in Seq(AnyContents) /\ tree["macRoot"] \in AnyContents
    BY DEF LogTypes
  <2>2. \/ log'["macRoot"] = log["macRoot"]
        \/ log'["macRoot"] = Append(log["macRoot"], tree["macRoot"])
    BY <1>2 DEF LogTypes
  <2>3. QED
    BY <2>1, <2>2 DEF KeepsAt
<1>3. QED
  BY <1>1, <1>2, LogTypesStep

\* A key of the policy signs what an issuer writes; copies keep their key.
LEMMA StoreStep ==
  ASSUME StoreInv, [ReceiptNext]_receiptVars
  PROVE  StoreInv'
<1>1. ASSUME IssueOne PROVE StoreInv'
  <2>1. PICK p \in Paths, key \in DOMAIN Trusts :
          \E written : store' = [store EXCEPT ![p] = written] /\ written.key = key
    BY <1>1 DEF IssueOne, Issue
  <2>2. QED
    BY <2>1 DEF StoreInv
<1>2. ASSUME NEW p \in Paths, NEW form \in {"untyped", "unreadable"}, ReplaceFile(p, form)
      PROVE  StoreInv'
  <2>1. [NoReceipt EXCEPT !.form = form].form = form
    BY DEF NoReceipt
  <2>2. QED
    BY <1>2, <2>1 DEF ReplaceFile, StoreInv
<1>3. ASSUME NEW p \in Paths, NEW q \in Paths, CopyReceipt(p, q) PROVE StoreInv'
  BY <1>3 DEF CopyReceipt, StoreInv
<1>4. ASSUME \/ \E r \in Roots : \/ \E contents \in Contents(r) : EditTree(r, contents)
                                 \/ CommitTree(r)
             \/ Tick \/ NewAttempt
      PROVE  UNCHANGED store
  BY <1>4 DEF EditTree, CommitTree, Tick, NewAttempt
<1>5. ASSUME \/ \E mode \in {"test", "production"}, withAttempt \in BOOLEAN,
                   set \in {{}, {"extra"}}, extraRoots \in BOOLEAN :
                   Start(mode, withAttempt, set, extraRoots)
             \/ FirstSnapshot \/ CheckGate \/ SecondSnapshot \/ WriteReadiness \/ ReadinessLost
             \/ UNCHANGED receiptVars
      PROVE  UNCHANGED store
  BY <1>5 DEF Start, FirstSnapshot, CheckGate, SecondSnapshot, WriteReadiness, ReadinessLost,
     devVars, receiptVars
<1>6. CASE UNCHANGED store
  BY <1>6 DEF StoreInv
<1>7. QED
  BY <1>1, <1>2, <1>3, <1>4, <1>5, <1>6 DEF ReceiptNext

-----------------------------------------------------------------------------
(* The verdict on one gate                                                  *)

\* A gate passes on an envelope whose signature, issuer and policy are those of
\* production when the run is one for production.
LEMMA PassedIsBacked ==
  ASSUME StoreInv, NEW g \in Gates, GateResult(g).status = "passed"
  PROVE  /\ before # NoTuple
         /\ trustMode = "production" => BackedFor(GateResult(g), g, asked)
<1> DEFINE expected == Expectation(g, asked)
           verdict == VerifyEnvelope(g, members, expected, trustMode)
<1>1. /\ store[g].form \notin {"untyped", "unreadable"}
      /\ ~(store[g].form = "envelope" /\ asked = None)
      /\ ~(store[g].form = "envelope" /\ asked # None /\ before = NoTuple)
  BY DEF GateResult
<1>2. GateResult(g) = [status |-> CASE verdict.exit = 0 /\ verdict.trusted -> "passed"
                                    [] verdict.exit = 2 -> "blocked"
                                    [] OTHER -> "malformed",
                       verdict |-> verdict, at |-> clock]
  BY <1>1 DEF GateResult
<1>3. /\ verdict.exit = 0
      /\ GateResult(g).verdict = verdict /\ GateResult(g).at = clock
  BY <1>2
<1>4. /\ verdict.receipt = store[g]
      /\ Admissible(store[g], expected, TRUE)
      /\ ~SignatureRefused(store[g], trustMode) /\ ~KeyDeferred(store[g])
      /\ ~Expired(store[g], clock) /\ store[g].status = "passed"
  <2> DEFINE refused ==
        \/ \E p \in {g} \cup members : ~Admissible(store[p], expected, p = g)
        \/ Contradictory({g} \cup members, g, clock)
        \/ SignatureRefused(store[g], trustMode)
  <2>1. verdict = IF refused THEN [exit |-> 3, trusted |-> FALSE, receipt |-> store[g]]
                  ELSE IF KeyDeferred(store[g])
                  THEN [exit |-> 2, trusted |-> FALSE, receipt |-> store[g]]
                  ELSE IF Expired(store[g], clock) \/ store[g].status # "passed"
                  THEN [exit |-> 2, trusted |-> TRUE, receipt |-> store[g]]
                  ELSE [exit |-> 0, trusted |-> TRUE, receipt |-> store[g]]
    BY Zenon DEF VerifyEnvelope
  <2> HIDE DEF refused, verdict
  <2>2. ~refused
    BY <1>3, <2>1
  <2>3. /\ verdict.receipt = store[g] /\ ~KeyDeferred(store[g])
        /\ ~Expired(store[g], clock) /\ store[g].status = "passed"
    BY <1>3, <2>1
  <2>4. QED
    BY <2>2, <2>3 DEF refused
<1>5. /\ store[g].form = "envelope" /\ store[g].gate = g /\ store[g].attempt = asked
      /\ store[g].issuer \in IssuersOf(g, "passed")
      /\ store[g].policy = PolicyInTree
  BY <1>4 DEF Admissible, Expectation
<1>6. before # NoTuple
  BY <1>1, <1>5
<1>7. ASSUME trustMode = "production"
      PROVE  /\ store[g].issuer # "agent" /\ store[g].key \notin TestKeys
             /\ store[g].policy = "provisioned"
  <2>1. store[g].key \notin TestKeys /\ store[g].issuer \in Trusts[store[g].key]
    BY <1>4, <1>7 DEF SignatureRefused
  <2>2. store[g].key \in {"ci", "human", "provider"}
    BY <1>5, <2>1 DEF StoreInv, Paths, Trusts, TestKeys
  <2>3. store[g].issuer # "agent"
    BY <2>1, <2>2 DEF Trusts
  <2>4. store[g].policy = "provisioned"
    BY <1>4, <1>5, <2>1 DEF KeyDeferred, PolicyInTree
  <2>5. QED
    BY <2>1, <2>3, <2>4
<1>8. QED
  BY <1>3, <1>4, <1>5, <1>6, <1>7 DEF BackedFor

-----------------------------------------------------------------------------
(* The run                                                                  *)

\* What others change is not the run's.
LEMMA WorldStep ==
  ASSUME \/ \E r \in Roots : \/ \E contents \in Contents(r) : EditTree(r, contents)
                             \/ CommitTree(r)
         \/ IssueOne
         \/ \E p \in Paths : \/ \E form \in {"untyped", "unreadable"} : ReplaceFile(p, form)
                             \/ \E q \in Paths : CopyReceipt(p, q)
         \/ Tick \/ NewAttempt \/ UNCHANGED receiptVars
  PROVE  /\ UNCHANGED runVars
         /\ \/ (moved' <=> moved) /\ (UNCHANGED log \/ readiness # "snapshot")
            \/ moved'
<1>1. ASSUME NEW r \in Roots, CommitTree(r)
      PROVE  /\ UNCHANGED runVars
             /\ \/ (moved' <=> moved) /\ (UNCHANGED log \/ readiness # "snapshot")
                \/ moved'
  BY <1>1 DEF CommitTree
<1>2. ASSUME \/ \E r \in Roots : \E contents \in Contents(r) : EditTree(r, contents)
             \/ Tick \/ NewAttempt
      PROVE  UNCHANGED <<runVars, moved, log>>
  BY <1>2 DEF EditTree, Tick, NewAttempt
<1>3. ASSUME \E p \in Paths : \/ \E form \in {"untyped", "unreadable"} : ReplaceFile(p, form)
                              \/ \E q \in Paths : CopyReceipt(p, q)
      PROVE  UNCHANGED <<runVars, moved, log>>
  BY <1>3 DEF ReplaceFile, CopyReceipt
<1>4. CASE IssueOne
  BY <1>4 DEF IssueOne, Issue
<1>5. CASE UNCHANGED receiptVars
  BY <1>5 DEF receiptVars, devVars, runVars
<1>6. QED
  BY <1>1, <1>2, <1>3, <1>4, <1>5

\* No step of the run, nor of anybody else, falsifies ReceiptInv.
LEMMA ReceiptStep ==
  ASSUME ReceiptInv, [ReceiptNext]_receiptVars
  PROVE  ReceiptInv'
<1> USE RootsAssumption
<1>1. LogTypes' /\ StoreInv'
  BY LogTypesStep, StoreStep DEF ReceiptInv
<1>2. ASSUME UNCHANGED runVars,
             \/ (moved' <=> moved) /\ (UNCHANGED log \/ readiness # "snapshot")
             \/ moved'
      PROVE  ReceiptInv'
  <2>1. ResultInv'
    BY <1>2 DEF ReceiptInv, ResultInv, runVars, argVars, foundVars, NoTuple, BackedFor
  <2>2. KeepInv'
    <3>1. UNCHANGED <<kept, readiness, before, NoTuple>>
      BY <1>2 DEF runVars, foundVars, NoTuple
    <3>2. PICK tuple : tuple = before
      OBVIOUS
    <3>3. KeepsAt(tuple) => KeepsAt(tuple)'
      BY KeepsAtStep DEF ReceiptInv
    <3>4. ASSUME kept, ~moved'
          PROVE  /\ readiness = "snapshot" => Keeps(HeadOf("macRoot"))'
                 /\ tuple # NoTuple => KeepsAt(tuple)'
      BY <1>2, <3>2, <3>3, <3>4 DEF ReceiptInv, KeepInv, HeadOf
    <3>5. QED
      BY <3>1, <3>2, <3>4 DEF KeepInv, KeepsAt
  <2>3. ReportInv'
    BY <1>2, KeepsAtStep DEF ReceiptInv, ReportInv, runVars, BackedFor, KeepsAt
  <2>4. QED
    BY <1>1, <2>1, <2>2, <2>3 DEF ReceiptInv
<1>3. ASSUME NEW mode, NEW withAttempt, NEW set, NEW extraRoots,
             Start(mode, withAttempt, set, extraRoots)
      PROVE  ReceiptInv'
  <2>1. ResultInv'
    BY <1>3 DEF Start, ResultInv, Pending, NoTuple
  <2>2. KeepInv'
    BY <1>3 DEF Start, KeepInv, HeadOf, devVars, NoTuple
  <2>3. ReportInv'
    BY <1>3 DEF Start, devVars, ReceiptInv, ReportInv, BackedFor, KeepsAt
  <2>4. QED
    BY <1>1, <2>1, <2>2, <2>3 DEF ReceiptInv
<1>4. ASSUME FirstSnapshot PROVE ReceiptInv'
  <2>1. ResultInv'
    BY <1>4 DEF FirstSnapshot, ReceiptInv, ResultInv
  <2>2. KeepInv'
    <3>1. ASSUME Keeps(HeadOf("macRoot")) PROVE KeepsAt(SourceTuple)
      BY <3>1 DEF KeepsAt, SourceTuple, HeadOf, ReceiptInv, LogTypes
    <3>2. before' = NoTuple \/ before' = SourceTuple
      BY <1>4 DEF FirstSnapshot
    <3>3. QED
      BY <1>4, <3>1, <3>2 DEF FirstSnapshot, ReceiptInv, KeepInv, KeepsAt, devVars, NoTuple
  <2>3. ReportInv'
    BY <1>4 DEF FirstSnapshot, devVars, ReceiptInv, ReportInv, BackedFor, KeepsAt
  <2>4. QED
    BY <1>1, <2>1, <2>2, <2>3 DEF ReceiptInv
<1>5. ASSUME CheckGate PROVE ReceiptInv'
  <2>1. PICK g \in Gates : results' = [results EXCEPT ![g] = GateResult(g)]
    BY <1>5 DEF CheckGate
  <2>2. readiness = "gates" /\ UNCHANGED <<readiness, argVars, kept, before, moved, log,
                                           readinessReport>>
    BY <1>5 DEF CheckGate, devVars
  <2>3. ResultInv'
    <3> SUFFICES ASSUME NEW h \in Gates, results'[h].status = "passed"
                 PROVE  /\ before # NoTuple
                        /\ trustMode = "production" => BackedFor(results'[h], h, asked)
      BY <2>2 DEF ResultInv, argVars, NoTuple, BackedFor
    <3>1. results'[h] = results[h] \/ (h = g /\ results'[h] = GateResult(g))
      BY <2>1
    <3>2. QED
      BY <3>1, PassedIsBacked DEF ReceiptInv, ResultInv
  <2>4. KeepInv' /\ ReportInv'
    BY <2>2 DEF ReceiptInv, KeepInv, ReportInv, BackedFor, KeepsAt, NoTuple
  <2>5. QED
    BY <1>1, <2>3, <2>4 DEF ReceiptInv
<1>6. ASSUME SecondSnapshot \/ ReadinessLost PROVE ReceiptInv'
  <2>1. UNCHANGED <<log, argVars, kept, before, results, moved, readinessReport>>
        /\ readiness' # "snapshot"
    BY <1>6 DEF SecondSnapshot, ReadinessLost, foundVars, devVars
  <2>2. ResultInv' /\ KeepInv' /\ ReportInv'
    BY <2>1 DEF ReceiptInv, ResultInv, KeepInv, ReportInv, BackedFor, KeepsAt, NoTuple, argVars
  <2>3. QED
    BY <1>1, <2>2 DEF ReceiptInv
<1>7. ASSUME WriteReadiness PROVE ReceiptInv'
  <2>1. UNCHANGED <<log, argVars, kept, before, results, moved>> /\ readiness' # "snapshot"
    BY <1>7 DEF WriteReadiness, foundVars, devVars
  <2>2. /\ readinessReport'.eligible = RetirementEligible
        /\ readinessReport'.tuple = before /\ readinessReport'.attempt = asked
        /\ readinessReport'.results = results /\ readinessReport'.moved = moved
    BY <1>7 DEF WriteReadiness
  <2>3. ResultInv' /\ KeepInv'
    BY <2>1 DEF ReceiptInv, ResultInv, KeepInv, BackedFor, KeepsAt, NoTuple, argVars
  <2>4. ASSUME RetirementEligible
        PROVE  /\ \A g \in Gates : BackedFor(results[g], g, asked)
               /\ ~moved => KeepsAt(before)
    <3>1. /\ trustMode = "production" /\ kept /\ before # NoTuple
          /\ \A g \in Gates : results[g].status = "passed"
      BY <2>4, GatesAssumption DEF RetirementEligible, ReceiptInv, ResultInv
    <3>2. QED
      BY <3>1 DEF ReceiptInv, ResultInv, KeepInv
  <2>5. ReportInv'
    BY <2>1, <2>2, <2>4 DEF ReportInv, KeepsAt, BackedFor
  <2>6. QED
    BY <1>1, <2>3, <2>5 DEF ReceiptInv
<1>8. QED
  BY <1>2, <1>3, <1>4, <1>5, <1>6, <1>7, WorldStep DEF ReceiptNext

\* A campaign that ended well, and no report yet.
LEMMA ReceiptInitial ==
  ASSUME ReceiptInit
  PROVE  ReceiptInv
<1> USE RootsAssumption, GatesAssumption
<1>1. LogTypes
  <2>1. PICK contents \in Contents("macRoot") :
          /\ tree = [r \in Roots |-> IF r = "macRoot" THEN contents ELSE "provisioned"]
          /\ log = [r \in Roots |-> <<tree[r]>>]
    BY DEF ReceiptInit
  <2>2. tree \in [Roots -> AnyContents]
    BY <2>1 DEF Contents, AnyContents
  <2>3. \A v \in AnyContents : <<v>> \in Seq(AnyContents) /\ <<v>> # <<>>
    OBVIOUS
  <2>4. \A r \in Roots : log[r] \in Seq(AnyContents) /\ log[r] # <<>>
    BY <2>1, <2>2, <2>3
  <2>5. QED
    BY <2>1, <2>2, <2>4 DEF LogTypes
<1>2. StoreInv
  <2> SUFFICES ASSUME NEW p \in Paths, store[p].form = "envelope"
               PROVE  store[p].key \in DOMAIN Trusts
    BY DEF StoreInv
  <2>1. p \in Gates /\ store[p] = Backing(p)
    BY DEF ReceiptInit, NoReceipt
  <2>2. \E k \in (DOMAIN Trusts) \ TestKeys : Trusts[k] \cap IssuersOf(p, "passed") # {}
    <3>1. /\ "ci" \in (DOMAIN Trusts) \ TestKeys /\ "ci" \in Trusts["ci"]
          /\ "human" \in (DOMAIN Trusts) \ TestKeys
          /\ "release-engineer" \in Trusts["human"] /\ "export-reviewer" \in Trusts["human"]
          /\ "provider" \in (DOMAIN Trusts) \ TestKeys /\ "provider" \in Trusts["provider"]
      BY DEF Trusts, TestKeys
    <3>2. p \in GateIds
      BY <2>1
    <3>3. \/ "ci" \in IssuersOf(p, "passed") \/ "release-engineer" \in IssuersOf(p, "passed")
          \/ "export-reviewer" \in IssuersOf(p, "passed") \/ "provider" \in IssuersOf(p, "passed")
      BY <3>2 DEF GateIds, IssuersOf
    <3>4. QED
      BY <3>1, <3>3
  <2>3. QED
    BY <2>1, <2>2 DEF Backing
<1>3. ResultInv /\ KeepInv /\ ReportInv
  BY DEF ReceiptInit, ResultInv, Pending, KeepInv, ReportInv, NoReport
<1>4. QED
  BY <1>1, <1>2, <1>3 DEF ReceiptInv

\* The invariant holds in every behaviour.
LEMMA ReceiptInductive == ReceiptSpec => []ReceiptInv
<1>1. ReceiptInit => ReceiptInv
  BY ReceiptInitial
<1>2. ReceiptInv /\ [ReceiptNext]_receiptVars => ReceiptInv'
  BY ReceiptStep
<1>3. QED
  BY <1>1, <1>2, PTL DEF ReceiptSpec

\* An eligible report rests, for every gate, on a receipt that production trusts,
\* of its attempt, whatever happened while it was made.  Nothing is said of the
\* commits the receipt was signed for: the code compares none.
THEOREM EligibleReportIsBacked == ReceiptSpec => []EligibleIsBacked
<1>1. ReceiptInv => EligibleIsBacked
  BY DEF ReceiptInv, ReportInv, BackedFor, EligibleIsBacked
<1>2. QED
  BY <1>1, ReceiptInductive, PTL

\* The Mac commit an eligible report names keeps what retirement must not lose,
\* unless a commit landed before the first snapshot.
THEOREM EligibleReportKeeps == ReceiptSpec => []EligibleKeepsUnlessMoved
<1>1. ReceiptInv => EligibleKeepsUnlessMoved
  BY DEF ReceiptInv, ReportInv, KeepsAt, EligibleKeepsUnlessMoved
<1>2. QED
  BY <1>1, ReceiptInductive, PTL

-----------------------------------------------------------------------------
(* The feed: what holds                                                     *)

\* The steps of a run after it selected a release, and after it fetched the appcast.
Selected == {"appcast", "checksum", "dmg", "verify", "deploy"}
Fetched == {"checksum", "dmg", "verify"}

RunFields == {"step", "event", "tag", "tree", "chosen", "appcast", "checksum", "dmg"}

\* A run has its fields, and one that waits has not started.
RunInv ==
  /\ DOMAIN job = RunFields /\ DOMAIN pending = RunFields
  /\ job.step \in {"none", "list"} \cup Selected
  /\ pending.step \in {"none", "waiting"}

\* What select_appcast chose, given what was published when it asked.
RightRelease(x) ==
  IF x.event = "workflow_dispatch" \/ (x.event = "release" /\ x.tag # NoVersion)
  THEN x.chosen = x.tag /\ x.tag \in x.tree
  ELSE IF x.tree = {} THEN x.chosen = NoVersion ELSE x.chosen = Max(x.tree)

\* A run fetches only for a release, and deploys an appcast only when it signs
\* the DMG that was fetched with it.
JobInv ==
  /\ job.step \in Selected => RightRelease(job)
  /\ job.step \in Selected \ {"deploy"} => job.chosen # NoVersion
  /\ job.step \in Fetched => job.appcast # NoBuild
  /\ job.step = "deploy" /\ job.chosen # NoVersion
       => job.appcast = job.dmg /\ job.appcast # NoBuild

FeedInv == RunInv /\ JobInv /\ FeedSignsItsDmg /\ FeedIsTheReleaseToServe

\* The steps of the release machine, of the maintainer and of other events.
MaintainerNext ==
  \/ \E v \in Versions : \/ Build(v)
                         \/ \E asset \in Assets : Attach(v, asset)
                         \/ \E state \in {"published", "prerelease"} : Publish(v, state)
                         \/ \E state \in {"draft", "prerelease"} : Withdraw(v, state)
                         \/ OtherEvent("workflow_dispatch", v)
  \/ CleanDist
  \/ \E event \in {"push", "release"} : OtherEvent(event, NoVersion)

-----------------------------------------------------------------------------

\* NoRun and NoFeed satisfy all that is said of a run and of a feed.
LEMMA FeedInitial == FeedInit => FeedInv
<1> SUFFICES ASSUME FeedInit PROVE FeedInv
  OBVIOUS
<1>1. RunInv
  BY DEF FeedInit, NoRun, RunInv, RunFields
<1>2. JobInv
  BY DEF FeedInit, NoRun, JobInv, Selected, Fetched
<1>3. FeedSignsItsDmg /\ FeedIsTheReleaseToServe
  BY DEF FeedInit, NoFeed, FeedSignsItsDmg, FeedIsTheReleaseToServe
<1>4. QED
  BY <1>1, <1>2, <1>3 DEF FeedInv

\* A newer event replaces the waiting run by one that waits.
LEMMA WaitingRun ==
  ASSUME NEW event, NEW tag
  PROVE  DOMAIN Waiting(event, tag) = RunFields /\ Waiting(event, tag).step = "waiting"
  BY DEF Waiting, NoRun, RunFields

\* What the maintainer and the release machine do leaves the run in progress and
\* the feed alone: at most they replace the run that waits.
LEMMA MaintainerStep ==
  ASSUME RunInv, MaintainerNext
  PROVE  RunInv' /\ UNCHANGED <<job, feed>>
<1> USE DEF RunInv
<1>1. ASSUME NEW v \in Versions, Build(v) PROVE RunInv' /\ UNCHANGED <<job, feed>>
  BY <1>1 DEF Build
<1>2. ASSUME NEW v \in Versions, NEW asset \in Assets, Attach(v, asset)
      PROVE  RunInv' /\ UNCHANGED <<job, feed>>
  BY <1>2 DEF Attach
<1>3. ASSUME NEW v \in Versions, NEW state, Publish(v, state)
      PROVE  RunInv' /\ UNCHANGED <<job, feed>>
  BY <1>3, WaitingRun DEF Publish
<1>4. ASSUME NEW v \in Versions, NEW state, Withdraw(v, state)
      PROVE  RunInv' /\ UNCHANGED <<job, feed>>
  BY <1>4 DEF Withdraw
<1>5. ASSUME NEW event, NEW tag, OtherEvent(event, tag)
      PROVE  RunInv' /\ UNCHANGED <<job, feed>>
  BY <1>5, WaitingRun DEF OtherEvent
<1>6. CASE CleanDist
  BY <1>6 DEF CleanDist
<1>7. QED
  BY <1>1, <1>2, <1>3, <1>4, <1>5, <1>6 DEF MaintainerNext

\* select_appcast: the choice is right for what is published at this moment, and
\* becomes the run's.
LEMMA SelectStep ==
  ASSUME RunInv, SelectAppcast
  PROVE  RunInv' /\ JobInv' /\ UNCHANGED feed
<1> DEFINE published == {w \in Versions : releases[w].state = "published"}
<1>1. PICK v \in Selections(job.event, job.tag) :
        job' = [job EXCEPT !.step = IF v = NoVersion THEN "deploy" ELSE "appcast",
                           !.chosen = v, !.tree = published]
  BY DEF SelectAppcast
<1>2. /\ DOMAIN job' = RunFields
      /\ job'.step = IF v = NoVersion THEN "deploy" ELSE "appcast"
      /\ job'.chosen = v /\ job'.tree = published
      /\ job'.event = job.event /\ job'.tag = job.tag
  BY <1>1 DEF RunInv, RunFields
<1>3. RightRelease(job')
  BY <1>1, <1>2 DEF RightRelease, Selections, PublishedNamespaced
<1>4. RunInv'
  BY <1>2 DEF RunInv, SelectAppcast, Selected
<1>5. JobInv'
  BY <1>2, <1>3 DEF JobInv, Selected, Fetched
<1>6. QED
  BY <1>4, <1>5 DEF SelectAppcast

\* Each asset is fetched in its turn, and an absent one fails the run.
LEMMA FetchStep ==
  ASSUME RunInv, JobInv, NEW asset \in Assets, Fetch(asset)
  PROVE  RunInv' /\ JobInv' /\ UNCHANGED feed
<1>1. /\ DOMAIN job' = RunFields
      /\ job'.step = CASE asset = "appcast" -> "checksum"
                       [] asset = "checksum" -> "dmg"
                       [] asset = "dmg" -> "verify"
      /\ job'.chosen = job.chosen /\ job'.tree = job.tree
      /\ job'.event = job.event /\ job'.tag = job.tag
      /\ job'.appcast = IF asset = "appcast" THEN releases[job.chosen][asset] ELSE job.appcast
  BY DEF Fetch, Assets, RunInv, RunFields
<1>2. RunInv'
  BY <1>1 DEF RunInv, Fetch, Assets, Selected
<1>3. JobInv'
  <2>1. RightRelease(job) /\ job.chosen # NoVersion
    BY DEF JobInv, Fetch, Assets, Selected
  <2>2. RightRelease(job') /\ job'.chosen # NoVersion
    BY <1>1, <2>1 DEF RightRelease
  <2>3. job'.appcast # NoBuild
    <3>1. CASE asset = "appcast"
      BY <1>1, <3>1 DEF Fetch
    <3>2. CASE asset # "appcast"
      BY <1>1, <3>2 DEF JobInv, Fetch, Assets, Fetched
    <3>3. QED
      BY <3>1, <3>2
  <2>4. job'.step # "deploy"
    BY <1>1 DEF Assets
  <2>5. QED
    BY <2>2, <2>3, <2>4 DEF JobInv
<1>4. QED
  BY <1>2, <1>3 DEF Fetch

\* Only what passed verify_appcast is deployed.
LEMMA VerifyStep ==
  ASSUME RunInv, JobInv, VerifyPages
  PROVE  RunInv' /\ JobInv' /\ UNCHANGED feed
<1>1. /\ DOMAIN job' = RunFields /\ job'.step = "deploy"
      /\ \A f \in RunFields \ {"step"} : job'[f] = job[f]
  BY DEF VerifyPages, Run, RunInv, RunFields
<1>2. RunInv'
  BY <1>1 DEF RunInv, VerifyPages, Selected
<1>3. JobInv'
  BY <1>1 DEF JobInv, RightRelease, VerifyPages, Selected, Fetched, RunFields
<1>4. QED
  BY <1>2, <1>3 DEF VerifyPages

\* A run that ends, or that is yet to list the releases, owes nothing.
LEMMA NoRunInv ==
  ASSUME RunInv, \/ job' = NoRun
                 \/ job' = [pending EXCEPT !.step = "list"],
         pending' = pending \/ pending' = NoRun
  PROVE  RunInv' /\ JobInv'
  BY DEF RunInv, JobInv, NoRun, RunFields, Selected, Fetched

\* A deployment replaces the whole feed by what the run established.
LEMMA DeployStep ==
  ASSUME RunInv, JobInv, Deploy
  PROVE  FeedInv'
<1>1. RunInv' /\ JobInv'
  BY NoRunInv DEF Deploy
<1>2. /\ RightRelease(job)
      /\ job.chosen # NoVersion => job.appcast = job.dmg /\ job.appcast # NoBuild
  BY DEF Deploy, JobInv, Selected
<1>3. FeedSignsItsDmg' /\ FeedIsTheReleaseToServe'
  BY <1>2 DEF Deploy, RightRelease, FeedSignsItsDmg, FeedIsTheReleaseToServe
<1>4. QED
  BY <1>1, <1>3 DEF FeedInv

\* Every step of the release and of the workflow keeps the invariant.
LEMMA FeedStep == FeedInv /\ [FeedNext]_feedVars => FeedInv'
<1> SUFFICES ASSUME FeedInv, [FeedNext]_feedVars PROVE FeedInv'
  OBVIOUS
<1>1. RunInv /\ JobInv
  BY DEF FeedInv
<1>2. ASSUME UNCHANGED feed PROVE FeedSignsItsDmg' /\ FeedIsTheReleaseToServe'
  BY <1>2 DEF FeedInv, FeedSignsItsDmg, FeedIsTheReleaseToServe
<1>3. ASSUME UNCHANGED job PROVE JobInv'
  BY <1>1, <1>3 DEF JobInv
<1>4. CASE MaintainerNext
  BY <1>1, <1>2, <1>3, <1>4, MaintainerStep DEF FeedInv
<1>5. CASE StartJob
  BY <1>1, <1>2, <1>5, NoRunInv DEF FeedInv, StartJob
<1>6. CASE SelectAppcast
  BY <1>1, <1>2, <1>6, SelectStep DEF FeedInv
<1>7. ASSUME NEW asset \in Assets, Fetch(asset) PROVE FeedInv'
  BY <1>1, <1>2, <1>7, FetchStep DEF FeedInv
<1>8. CASE VerifyPages
  BY <1>1, <1>2, <1>8, VerifyStep DEF FeedInv
<1>9. CASE Deploy
  BY <1>1, <1>9, DeployStep
<1>10. CASE JobFails
  BY <1>1, <1>2, <1>10, NoRunInv DEF FeedInv, JobFails
<1>11. CASE UNCHANGED feedVars
  BY <1>1, <1>2, <1>3, <1>11 DEF FeedInv, feedVars, RunInv
<1>12. QED
  BY <1>4, <1>5, <1>6, <1>7, <1>8, <1>9, <1>10, <1>11 DEF FeedNext, MaintainerNext

\* FeedInv holds throughout.
LEMMA FeedInvariant == FeedSpec => []FeedInv
  BY FeedInitial, FeedStep, PTL DEF FeedSpec

-----------------------------------------------------------------------------

\* The appcast Pages serves came whole from one build and signs the DMG that was
\* fetched with it, however a maintainer replaces the assets one by one while the
\* workflow runs (verify_appcast).
THEOREM ServedFeedSignsItsDmg == FeedSpec => []FeedSignsItsDmg
  BY FeedInvariant, PTL DEF FeedInv

\* Pages serves the release the event named, or else the highest that was
\* published when the deployment listed them, and nothing only when nothing was
\* published (select_appcast).
THEOREM ServedFeedIsTheRelease == FeedSpec => []FeedIsTheReleaseToServe
  BY FeedInvariant, PTL DEF FeedInv
=============================================================================
