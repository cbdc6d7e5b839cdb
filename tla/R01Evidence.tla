----------------------------- MODULE R01Evidence -----------------------------
(***************************************************************************)
(* The R01 validators: scripts/evidence/verify-r01-fresh-build.py,         *)
(* validate-r01-runtime-rollback.py and                                    *)
(* validate-r01-generation-classification.py.                              *)
(*                                                                         *)
(* Each reads a request, then the files of an evidence root one by one and *)
(* the attestation that was signed for them, and writes one result.  What  *)
(* they read is written by others: a build that is run again, a runtime    *)
(* observation that is repeated, an attestation that is signed anew.  The  *)
(* files carry no link but the hashes in them, so the validators have to   *)
(* tell one campaign from pieces of several.  Who must have signed differs:*)
(* CI for a build or a generation, any production key for a rollback.      *)
(*                                                                         *)
(* A file's contents stand for its hash, `id`, and for what its writer saw *)
(* of the root.  Descriptors, shapes and canonical JSON are abstracted;    *)
(* the source manifest of a command record is the `source` it names, and   *)
(* files that a record only refers to by hash (stdout, stderr, the         *)
(* manifest) are part of the record.                                       *)
(***************************************************************************)
EXTENDS Integers, Sequences, SequencesExt

CONSTANTS
  Validators,     \* the validators checked: "fresh", "rollback", "generation"
  MaxWrites,      \* bound: writes to the root, the checkout or the request
  MaxValidations  \* bound: runs of the validator

VARIABLES
  tool,        \* whose evidence root this is
  checkout,    \* fresh: the source of the iOS checkout, as the tuple has it or edited
  evidence,    \* the evidence root: per path, the contents
  request,     \* the request file
  writes,      \* writes so far, what contents' ids are taken from
  at,          \* the step of the run under way, 0 when none is
  asked,       \* the request as the run read it
  seen,        \* per step, what the run read
  failed,      \* rollback: something was appended to failures
  result,      \* the result file
  validations  \* runs started

campaignVars == <<checkout, evidence, request, writes>>
validatorVars == <<at, asked, seen, failed, result, validations>>
r01Vars == <<tool, campaignVars, validatorVars>>
-----------------------------------------------------------------------------
(* The evidence root *)

SealedCommands == <<"before", "generation", "debugBuild", "releaseBuild">>
Output == [before |-> {}, generation |-> {"project"},
           debugBuild |-> {"debug"}, releaseBuild |-> {"release"}]
Built == {"project", "debug", "release"}
ArtifactTypes == <<"command", "watchdog", "strictParser", "ping">>
Proofs == <<"proof1", "proof2", "proof3">>

PathsOf(t) ==
  {"attestation"} \cup
  CASE t = "fresh" -> ToSet(SealedCommands) \cup Built \cup {"binding"}
    [] t = "rollback" -> ToSet(ArtifactTypes)
    [] t = "generation" -> ToSet(Proofs)

Absent == 0
NoFile == [id |-> Absent]
Hashes == [p \in DOMAIN evidence |-> evidence[p].id]

Signers == {"ci", "provider", "test"}

\* What is written when the root is `root`: by whom it is signed and for which
\* version of the receipt verifier matter for the attestation alone.
FileContents(id, root, signer, verifier) ==
  [id |-> id, saw |-> root, source |-> checkout, signer |-> signer, verifier |-> verifier]

\* A request that validates; "nothing" is a not_run or an archival_only request.
RequestFor(asksFor, hash, chain) == [status |-> asksFor, hash |-> hash, chain |-> chain]

NoResult == [status |-> "none"]
Torn == [status |-> "torn"]
NoRequest == [status |-> "none"]

\* A campaign that ended well; an earlier run may have been killed at its result.
R01Init ==
  /\ tool \in Validators
  /\ checkout = "tuple"
  /\ LET all == [p \in PathsOf(tool) |-> 1]
         clean == [p \in PathsOf(tool) |-> IF p \in Built THEN Absent ELSE 1]
     IN /\ evidence = [p \in PathsOf(tool) |->
              FileContents(1, IF p = "before" THEN clean ELSE all, "ci", "current")]
        /\ \E asksFor \in {"proof", "nothing"} :
             request = RequestFor(asksFor, all, Proofs)
  /\ writes = 1
  /\ at = 0 /\ asked = NoRequest /\ seen = <<>> /\ failed = FALSE
  /\ result \in {NoResult, Torn} /\ validations = 0
-----------------------------------------------------------------------------
(* Campaigns *)

Writes ==
  /\ writes < MaxWrites
  /\ validations < MaxValidations \/ at # 0
  /\ writes' = writes + 1
  /\ UNCHANGED <<tool, validatorVars>>

Put(paths, root, signer, verifier) ==
  evidence' = [p \in DOMAIN evidence |->
    IF p \in paths THEN FileContents(writes + 1, root, signer, verifier) ELSE evidence[p]]

\* A sealed command runs, makes its output and records what it observed.
RunCommand(c) ==
  /\ tool = "fresh"
  /\ c \in {"debugBuild", "releaseBuild"} => evidence["project"] # NoFile
  /\ Put({c} \cup Output[c],
         [p \in DOMAIN evidence |-> IF p \in Output[c] THEN writes + 1 ELSE Hashes[p]],
         "none", "current")
  /\ Writes /\ UNCHANGED <<checkout, request>>

CleanBuild ==
  /\ tool = "fresh"
  /\ evidence' = [p \in DOMAIN evidence |-> IF p \in Built THEN NoFile ELSE evidence[p]]
  /\ Writes /\ UNCHANGED <<checkout, request>>

EditCheckout ==
  /\ tool = "fresh"
  /\ checkout' = IF checkout = "tuple" THEN "edited" ELSE "tuple"
  /\ Writes /\ UNCHANGED <<evidence, request>>

ObserveAgain(a) ==
  /\ tool = "rollback"
  /\ Put({a}, Hashes, "none", "current")
  /\ Writes /\ UNCHANGED <<checkout, request>>

\* A generation is proved again, on top of the one before it.
ProveAgain(p) ==
  /\ tool = "generation"
  /\ Put({p}, Hashes, "none", "current")
  /\ Writes /\ UNCHANGED <<checkout, request>>

\* CI, another holder of a production key in a receipt for another gate, or a
\* rehearsal with a test key attests the root; a fresh build's receipt binds a file
\* that holds the observations.
Attest(signer, verifier) ==
  /\ tool = "generation" => verifier = "current"
  /\ signer = "provider" => tool = "rollback"    \* the others hold it to CI's gate
  /\ LET signed == {"attestation"} \cup (DOMAIN evidence \cap {"binding"})
     IN Put(signed, [p \in DOMAIN evidence |-> IF p = "binding" THEN writes + 1 ELSE Hashes[p]],
            signer, verifier)
  /\ Writes /\ UNCHANGED <<checkout, request>>

AskAgain(asksFor, first, last) ==
  /\ tool # "generation" => first = 1 /\ last = Len(Proofs)
  /\ request' = RequestFor(asksFor, Hashes, SubSeq(Proofs, first, last))
  /\ request' # request
  /\ Writes /\ UNCHANGED <<checkout, evidence>>

Campaign ==
  \/ \E c \in ToSet(SealedCommands) : RunCommand(c)
  \/ CleanBuild
  \/ EditCheckout
  \/ \E a \in ToSet(ArtifactTypes) : tool = "rollback" /\ ObserveAgain(a)
  \/ \E p \in ToSet(Proofs) : tool = "generation" /\ ProveAgain(p)
  \/ \E signer \in Signers, verifier \in {"current", "old"} : Attest(signer, verifier)
  \/ \E asksFor \in {"proof", "nothing"}, i, j \in DOMAIN Proofs :
       i <= j /\ AskAgain(asksFor, i, j)
-----------------------------------------------------------------------------
(* What a run reads, in order, and what it accepts *)

\* signed_observation decodes the receipt, verifies it and decodes it again;
\* trusted_attestation compares it with what it read at first.
StepsOf(t, chain) ==
  CASE t = "fresh" -> SealedCommands \o <<"project", "debug", "release",
                                    "raw", "decode", "verify", "reread", "binding">>
    [] t = "rollback" -> <<"decode", "verify", "observe">> \o ArtifactTypes
    [] t = "generation" -> chain \o <<"attest">>

ReceiptSteps == {"raw", "decode", "verify", "reread", "observe", "attest"}
FileOf(step) == IF step \in ReceiptSteps THEN "attestation" ELSE step

\* Mutant: a build is held to the source of the generation, not to its project.
BuildAcceptedOfSource(record, bundle, got) ==
  /\ got[record].source = got["generation"].source
  /\ got[bundle].id = got[record].saw[bundle]

\* The loop over the debug and the release record.
BuildAccepted(record, bundle, got) ==
  /\ got[record].saw["project"] = got["generation"].saw["project"]
  /\ got[record].source = got["generation"].source
  /\ got[bundle].id = got[record].saw[bundle]

\* trusted_attestation, and the checks of its binding at the end of main.
AttestationAccepted(step, got) ==
  CASE step = "raw" -> got["raw"].id = asked.hash["attestation"]
    [] step = "decode" -> TRUE
    [] step = "verify" -> got["verify"].signer = "ci" /\ got["verify"].verifier = "current"
    [] step = "reread" -> got["reread"] = got["raw"]
    [] step = "binding" ->
         /\ got["binding"].id = got["decode"].saw["binding"]
         /\ \A c \in ToSet(SealedCommands) : got["binding"].saw[c] = asked.hash[c]
         /\ \A p \in Built : got["binding"].saw[p] = got[p].id

\* main of verify-r01-fresh-build.py, from the command records on.
FreshAccepts(step, got) ==
  CASE step \in ToSet(SealedCommands) -> got[step].id = asked.hash[step]
    [] step = "project" ->
         /\ got["before"].saw["project"] = Absent
         /\ got["project"].id = got["generation"].saw["project"]
         /\ got["generation"].source = got["before"].source
    [] step = "debug" -> BuildAccepted("debugBuild", "debug", got)
    [] step = "release" -> BuildAccepted("releaseBuild", "release", got)
    [] OTHER -> AttestationAccepted(step, got)

\* Mutant: an artifact is held to its descriptor alone.
RecordAcceptedByRequest(a, got) == got[a].id = asked.hash[a]

\* validate_record.
RecordAccepted(a, got) ==
  /\ got[a].id = asked.hash[a]
  /\ got[a].id = got["observe"].saw[a]

\* signed_observation.  The policy refuses test keys; the verifier digests that are
\* expected are the receipt's own, and with no gate, kind, attempt or tuple expected
\* a receipt of any gate is as good as any other, whoever may sign for it.
RollbackAccepts(step, got) ==
  CASE step = "decode" -> TRUE
    [] step = "verify" ->
         got["verify"].signer # "test" /\ got["verify"].verifier = got["decode"].verifier
    [] step = "observe" -> TRUE
    [] OTHER -> RecordAccepted(step, got)

\* Mutant: a chain is continuous when its generations are numbered from one.
ContinuousByNumber(chain, got) == chain[1] = Proofs[1]

\* The loop of verify over the proofs: numbered from one, each with the hash of
\* the one before it.
Continuous(chain, got) ==
  /\ chain[1] = Proofs[1]
  /\ \A i \in 2..Len(chain) : got[chain[i]].saw[chain[i - 1]] = got[chain[i - 1]].id

\* verify and verify_attestation, which does not ask for the verifier digests.
GenerationAccepts(step, got) ==
  IF step # "attest" THEN got[step].id = asked.hash[step]
  ELSE LET tip == asked.chain[Len(asked.chain)]
       IN /\ Continuous(asked.chain, got)
          /\ got["attest"].id = asked.hash["attestation"]
          /\ got["attest"].signer = "ci"
          /\ got["attest"].saw[tip] = got[tip].id

Accepts(step, got) ==
  /\ got[step] # NoFile
  /\ CASE tool = "fresh" -> FreshAccepts(step, got)
       [] tool = "rollback" -> RollbackAccepts(step, got)
       [] tool = "generation" -> GenerationAccepts(step, got)
-----------------------------------------------------------------------------
(* Runs *)

StepsAsked == StepsOf(tool, asked.chain)
Ending == Len(StepsAsked) + 1
Over == at' = 0 /\ asked' = NoRequest /\ seen' = <<>> /\ failed' = FALSE

\* roots_ok and, for not_run, reject_build_artifacts.  This is the last look at the
\* checkout.
RootsAccepted ==
  /\ checkout = "tuple"
  /\ request.status = "nothing" => \A p \in Built : evidence[p] = NoFile

\* The request is read once; a run starts at its first step or at its end.
BeginAt(step) ==
  /\ at = 0 /\ validations < MaxValidations
  /\ validations' = validations + 1
  /\ asked' = request /\ seen' = <<>> /\ failed' = FALSE
  /\ at' = step
  /\ UNCHANGED <<tool, campaignVars, result>>

EndOf(t) == Len(StepsOf(t, request.chain)) + 1

BeginFresh ==
  /\ tool = "fresh"
  /\ RootsAccepted
  /\ BeginAt(IF request.status = "nothing" THEN EndOf("fresh") ELSE 1)

BeginRollback ==
  /\ tool = "rollback"
  /\ BeginAt(IF request.status = "nothing" THEN EndOf("rollback") ELSE 1)

\* An archival_only classification is validated like a durable one.
BeginClassification == tool = "generation" /\ BeginAt(1)

ReadNext ==
  /\ at # 0 /\ at # Ending
  /\ LET step == StepsAsked[at]
         got == [s \in DOMAIN seen \cup {step} |->
                   IF s = step THEN evidence[FileOf(step)] ELSE seen[s]]
     IN \/ /\ Accepts(step, got)
           /\ seen' = got /\ at' = at + 1
           /\ UNCHANGED <<asked, failed>>
        \/ /\ ~Accepts(step, got) /\ tool # "rollback"
           /\ Over
        \/ /\ ~Accepts(step, got) /\ tool = "rollback"
           /\ seen' = got /\ failed' = TRUE
           /\ at' = IF step \in ReceiptSteps THEN Ending ELSE at + 1
           /\ UNCHANGED asked
  /\ UNCHANGED <<tool, campaignVars, result, validations>>

Status ==
  IF failed THEN "blocked"
  ELSE IF asked.status = "proof" THEN "passed"
  ELSE IF tool = "fresh" THEN "not_run" ELSE "blocked"

\* A run that is killed while it writes leaves a part of the result; of a result
\* that does not pass only the status is kept here.
Written ==
  \/ result' = IF Status = "passed"
               THEN [status |-> Status, asked |-> asked, seen |-> seen]
               ELSE [status |-> Status]
  \/ result' = Torn

\* The rollback validator writes over its last result, the others refuse to.
WriteOver ==
  /\ tool = "rollback"
  /\ at # 0 /\ at = Ending
  /\ Written /\ Over
  /\ UNCHANGED <<tool, campaignVars, validations>>

WriteOnce ==
  /\ tool # "rollback"
  /\ at # 0 /\ at = Ending
  /\ IF result = NoResult THEN Written ELSE UNCHANGED result
  /\ Over
  /\ UNCHANGED <<tool, campaignVars, validations>>

RunKilled ==
  /\ at # 0
  /\ Over
  /\ UNCHANGED <<tool, campaignVars, result, validations>>

R01Next ==
  \/ Campaign
  \/ BeginFresh \/ BeginRollback \/ BeginClassification
  \/ ReadNext
  \/ WriteOver \/ WriteOnce
  \/ RunKilled

R01Spec == R01Init /\ [][R01Next]_r01Vars
-----------------------------------------------------------------------------
(* Properties *)

PassedBy(t) == tool = t /\ result.status = "passed"

\* "Fresh generation/build": a passed result is of one build.  The project was
\* generated where none was, the bundles were built of that project, all of one
\* source, and CI attested them as they were read, however often the build was
\* run again, cleaned or attested in the meantime.
FreshIsOneBuild ==
  PassedBy("fresh") =>
    LET got == result.seen
    IN /\ got["before"].saw["project"] = Absent
       /\ \A b \in {"debug", "release"} :
            /\ got[b].saw["project"] = got["project"].id
            /\ got[b].source = got["before"].source
       /\ got["decode"].signer = "ci"
       /\ \A p \in Built : got["decode"].saw[p] = got[p].id

\* The artifacts of a passed rollback are those of one observation, and pieces of
\* several never pass for one.  It was signed with a production key, whoever's and
\* for whichever gate; only this is excepted for a receipt that was replaced after
\* verify_envelope read it and before signed_observation decoded it again.
RollbackIsObserved ==
  PassedBy("rollback") =>
    LET got == result.seen
    IN /\ \A a \in ToSet(ArtifactTypes) : got["observe"].saw[a] = got[a].id
       /\ got["verify"] = got["observe"] => got["observe"].signer # "test"

\* A generation that passed as durable is the tip of a chain from genesis: each
\* proof was made on top of the very one before it, whichever were proved again.
GenerationIsDurable ==
  PassedBy("generation") =>
    LET got == result.seen
        chain == result.asked.chain
        tip == chain[Len(chain)]
    IN /\ chain = SubSeq(Proofs, 1, Len(chain))
       /\ \A i \in 2..Len(chain) : got[chain[i]].saw[chain[i - 1]] = got[chain[i - 1]].id
       /\ got["attest"].signer = "ci" /\ got["attest"].saw[tip] = got[tip].id
=============================================================================
