--------------------------- MODULE R01EvidenceProofs ---------------------------
(***************************************************************************)
(* Proofs about R01Evidence, for any number of writes and validations and  *)
(* any set of validators.  The files an accepted run read were written at  *)
(* different times.  What binds them is that every write has an id of its  *)
(* own, and that of an attestation later reads are not older ones:  two    *)
(* equal hashes are then one write, and a receipt that reads the same at   *)
(* the first and the last look was the same in between.                    *)
(***************************************************************************)
EXTENDS R01Evidence, SequenceTheorems, TLAPS

\* The steps of a fresh build and of a rollback, as StepsOf concatenates them.
FreshSteps ==
  <<"before", "generation", "debugBuild", "releaseBuild", "project", "debug", "release",
    "raw", "decode", "verify", "reread", "binding">>
RollbackSteps ==
  <<"decode", "verify", "observe", "command", "watchdog", "strictParser", "ping">>

\* What there is, and was read, of the files that are written again and again;
\* "before" alone starts apart from the write that the others are from.
Contents ==
  {NoFile} \cup {evidence[p] : p \in DOMAIN evidence \ {"before"}}
           \cup {seen[s] : s \in DOMAIN seen \ {"before"}}

\* A record of a build, and an attestation, saw what was written with it.
SawItself(path, file) ==
  /\ path = "debugBuild" => file.saw["debug"] = file.id
  /\ path = "releaseBuild" => file.saw["release"] = file.id
  /\ path = "attestation" => file.saw["binding"] = file.id

\* Every write has an id of its own.
WriteInv ==
  /\ DOMAIN evidence = PathsOf(tool)
  /\ writes \in Nat
  /\ tool = "fresh" =>
       /\ \A p \in DOMAIN evidence :
            evidence[p].id \in 0..writes /\ SawItself(p, evidence[p])
       /\ \A s \in DOMAIN seen : seen[s].id \in 0..writes /\ SawItself(FileOf(s), seen[s])
       /\ \A x, y \in Contents : x.id = y.id => x = y

\* A run that may still pass has read the steps before `at`, in order.
Proving(t) == tool = t /\ at # 0 /\ asked.status = "proof" /\ ~failed
TrailInv ==
  /\ at # 0 => tool \in {"fresh", "rollback", "generation"}
  /\ tool = "fresh" /\ at # 0 => at \in 1..13
  /\ tool = "rollback" /\ at # 0 => at \in 1..8
  /\ Proving("fresh") => DOMAIN seen = {FreshSteps[i] : i \in 1..(at - 1)}
  /\ Proving("rollback") => DOMAIN seen = {RollbackSteps[i] : i \in 1..(at - 1)}

\* An attestation that is read later is not an older one.
OrderInv ==
  Proving("fresh") =>
    /\ \A s \in DOMAIN seen : s \in ReceiptSteps => seen[s].id <= evidence["attestation"].id
    /\ at > 9 => seen["raw"].id <= seen["decode"].id
    /\ at > 10 => seen["raw"].id <= seen["verify"].id
    /\ at > 11 => /\ seen["decode"].id <= seen["reread"].id
                  /\ seen["verify"].id <= seen["reread"].id

\* What a fresh build was accepted for so far.
FreshInv ==
  Proving("fresh") =>
    /\ at > 5 => /\ seen["before"].saw["project"] = Absent
                 /\ seen["project"].id = seen["generation"].saw["project"]
                 /\ seen["generation"].source = seen["before"].source
    /\ at > 6 => BuildAccepted("debugBuild", "debug", seen)
    /\ at > 7 => BuildAccepted("releaseBuild", "release", seen)
    /\ at > 10 => seen["verify"].signer = "ci"
    /\ at > 11 => seen["reread"] = seen["raw"]
    /\ at > 12 => /\ seen["binding"].id = seen["decode"].saw["binding"]
                  /\ \A p \in Built : seen["binding"].saw[p] = seen[p].id

\* What a rollback was accepted for so far.
RollbackInv ==
  Proving("rollback") =>
    /\ at > 2 => seen["verify"].signer # "test"
    /\ \A i \in 4..(at - 1) :
         seen[RollbackSteps[i]].id = seen["observe"].saw[RollbackSteps[i]]

\* The proofs of a generation are numbered one after another.
IsChain(chain) == \E i, j \in 1..3 : i <= j /\ chain = SubSeq(Proofs, i, j)
GenerationInv ==
  tool = "generation" =>
    /\ IsChain(request.chain)
    /\ at # 0 =>
         /\ IsChain(asked.chain)
         /\ at \in 1..Ending
         /\ at = Ending =>
              LET tip == asked.chain[Len(asked.chain)]
              IN /\ Continuous(asked.chain, seen)
                 /\ seen["attest"].signer = "ci"
                 /\ seen["attest"].saw[tip] = seen[tip].id

ResultInv == FreshIsOneBuild /\ RollbackIsObserved /\ GenerationIsDurable

\* The inductive invariant.
R01Inv ==
  WriteInv /\ TrailInv /\ OrderInv /\ FreshInv /\ RollbackInv /\ GenerationInv /\ ResultInv
-----------------------------------------------------------------------------
(* What the operators of the model stand for *)

\* The sealed commands, the rollback's artifacts and the steps, as tuples.
LEMMA Tuples ==
  /\ ToSet(SealedCommands) = {"before", "generation", "debugBuild", "releaseBuild"}
  /\ ToSet(ArtifactTypes) = {"command", "watchdog", "strictParser", "ping"}
  /\ ToSet(Proofs) = {"proof1", "proof2", "proof3"}
<1>1. DOMAIN SealedCommands = 1..4 /\ DOMAIN ArtifactTypes = 1..4 /\ DOMAIN Proofs = 1..3
  BY DEF SealedCommands, ArtifactTypes, Proofs
<1>2. ToSet(SealedCommands) = {"before", "generation", "debugBuild", "releaseBuild"}
  BY <1>1 DEF ToSet, SealedCommands
<1>3. ToSet(ArtifactTypes) = {"command", "watchdog", "strictParser", "ping"}
  BY <1>1 DEF ToSet, ArtifactTypes
<1>4. ToSet(Proofs) = {"proof1", "proof2", "proof3"}
  BY <1>1 DEF ToSet, Proofs
<1>. QED  BY <1>2, <1>3, <1>4

\* A sequence is the concatenation of two when its elements are theirs in turn.
LEMMA ConcatIs ==
  ASSUME NEW S, NEW s \in Seq(S), NEW t \in Seq(S), NEW u \in Seq(S),
         Len(u) = Len(s) + Len(t),
         \A i \in 1..Len(s) : s[i] = u[i],
         \A i \in 1..Len(t) : t[i] = u[Len(s) + i]
  PROVE  s \o t = u
<1>1. /\ s \o t \in Seq(S) /\ Len(s \o t) = Len(s) + Len(t)
      /\ \A i \in 1..(Len(s) + Len(t)) :
           (s \o t)[i] = IF i <= Len(s) THEN s[i] ELSE t[i - Len(s)]
  BY ConcatProperties
<1>2. Len(s) \in Nat /\ Len(t) \in Nat
  BY LenProperties
<1>3. ASSUME NEW i \in 1..Len(s \o t)
      PROVE  (s \o t)[i] = u[i]
  <2>1. CASE i <= Len(s)
    BY <1>1, <1>2, <2>1
  <2>2. CASE i > Len(s)
    <3>1. i - Len(s) \in 1..Len(t) /\ Len(s) + (i - Len(s)) = i
      BY <1>1, <1>2, <2>2
    <3>. QED  BY <1>1, <1>2, <2>2, <3>1
  <2>. QED  BY <1>2, <2>1, <2>2
<1>. QED  BY <1>1, <1>3, SeqEqual

\* StepsOf concatenates a fresh build's steps and a rollback's.
LEMMA StepsAre ==
  ASSUME NEW chain
  PROVE  /\ StepsOf("fresh", chain) = FreshSteps
         /\ StepsOf("rollback", chain) = RollbackSteps
<1> DEFINE Names == ToSet(FreshSteps) \cup ToSet(RollbackSteps)
           later == <<"project", "debug", "release",
                      "raw", "decode", "verify", "reread", "binding">>
           receipt == <<"decode", "verify", "observe">>
<1>1. /\ \A i \in 1..12 : FreshSteps[i] \in Names
      /\ \A i \in 1..7 : RollbackSteps[i] \in Names
  BY DEF ToSet, FreshSteps, RollbackSteps
<1>2. FreshSteps \in Seq(Names) /\ RollbackSteps \in Seq(Names)
  BY <1>1 DEF FreshSteps, RollbackSteps
<1>3. /\ \A i \in 1..4 : SealedCommands[i] = FreshSteps[i]
      /\ \A i \in 1..8 : later[i] = FreshSteps[4 + i]
      /\ \A i \in 1..3 : receipt[i] = RollbackSteps[i]
      /\ \A i \in 1..4 : ArtifactTypes[i] = RollbackSteps[3 + i]
  BY DEF SealedCommands, ArtifactTypes, FreshSteps, RollbackSteps
<1>4. /\ SealedCommands \in Seq(Names) /\ Len(SealedCommands) = 4
      /\ ArtifactTypes \in Seq(Names) /\ Len(ArtifactTypes) = 4
  <2>1. /\ \A i \in 1..4 : SealedCommands[i] \in Names
        /\ \A i \in 1..4 : ArtifactTypes[i] \in Names
    BY <1>1, <1>3
  <2>. QED  BY <2>1 DEF SealedCommands, ArtifactTypes
<1>5. /\ later \in Seq(Names) /\ Len(later) = 8
      /\ receipt \in Seq(Names) /\ Len(receipt) = 3
  <2>1. /\ \A i \in 1..8 : later[i] \in Names
        /\ \A i \in 1..3 : receipt[i] \in Names
    BY <1>1, <1>3
  <2>. QED  BY <2>1
<1>6. Len(FreshSteps) = 12 /\ Len(RollbackSteps) = 7
  BY DEF FreshSteps, RollbackSteps
<1> HIDE DEF Names, later, receipt
<1>7. SealedCommands \o later = FreshSteps
  <2>1. /\ Len(FreshSteps) = Len(SealedCommands) + Len(later)
        /\ \A i \in 1..Len(SealedCommands) : SealedCommands[i] = FreshSteps[i]
        /\ \A i \in 1..Len(later) : later[i] = FreshSteps[Len(SealedCommands) + i]
    BY <1>3, <1>4, <1>5, <1>6
  <2>. QED  BY <1>2, <1>4, <1>5, <2>1, ConcatIs
<1>8. receipt \o ArtifactTypes = RollbackSteps
  <2>1. /\ Len(RollbackSteps) = Len(receipt) + Len(ArtifactTypes)
        /\ \A i \in 1..Len(receipt) : receipt[i] = RollbackSteps[i]
        /\ \A i \in 1..Len(ArtifactTypes) : ArtifactTypes[i] = RollbackSteps[Len(receipt) + i]
    BY <1>3, <1>4, <1>5, <1>6
  <2>. QED  BY <1>2, <1>4, <1>5, <2>1, ConcatIs
<1>. QED  BY <1>7, <1>8 DEF StepsOf, later, receipt

\* The steps, and the files they read, are those of the evidence root.
LEMMA StepsReadPaths ==
  /\ Len(FreshSteps) = 12 /\ Len(RollbackSteps) = 7
  /\ \A i \in 1..12 : FileOf(FreshSteps[i]) \in PathsOf("fresh")
  /\ \A i \in 1..12 : FreshSteps[i] # "before" => FileOf(FreshSteps[i]) # "before"
<1>1. Len(FreshSteps) = 12 /\ Len(RollbackSteps) = 7
  BY DEF FreshSteps, RollbackSteps
<1>2. PathsOf("fresh") = {"attestation", "before", "generation", "debugBuild", "releaseBuild",
                          "project", "debug", "release", "binding"}
  BY Tuples DEF PathsOf, Built
<1>3. \A i \in 1..12 : FreshSteps[i] \in PathsOf("fresh") \cup ReceiptSteps
  BY <1>2 DEF FreshSteps, ReceiptSteps
<1>. QED  BY <1>1, <1>2, <1>3 DEF FileOf

\* No step comes twice.
LEMMA StepsDiffer ==
  /\ \A i, j \in 1..12 : FreshSteps[i] = FreshSteps[j] => i = j
  /\ \A i, j \in 1..7 : RollbackSteps[i] = RollbackSteps[j] => i = j
<1>1. \A i, j \in 1..12 : FreshSteps[i] = FreshSteps[j] => i = j
  <2> DEFINE rank == [s \in {FreshSteps[i] : i \in 1..12} |->
                        CASE s = "before" -> 1 [] s = "generation" -> 2
                          [] s = "debugBuild" -> 3 [] s = "releaseBuild" -> 4
                          [] s = "project" -> 5 [] s = "debug" -> 6
                          [] s = "release" -> 7 [] s = "raw" -> 8
                          [] s = "decode" -> 9 [] s = "verify" -> 10
                          [] s = "reread" -> 11 [] OTHER -> 12]
  <2>1. \A i \in 1..12 : rank[FreshSteps[i]] = i
    BY DEF FreshSteps
  <2>. QED  BY <2>1
<1>2. \A i, j \in 1..7 : RollbackSteps[i] = RollbackSteps[j] => i = j
  BY DEF RollbackSteps
<1>. QED  BY <1>1, <1>2

\* What a fresh build is accepted for, step by step.
LEMMA FreshChecks ==
  ASSUME NEW got
  PROVE  /\ FreshAccepts("project", got) =>
              /\ got["before"].saw["project"] = Absent
              /\ got["project"].id = got["generation"].saw["project"]
              /\ got["generation"].source = got["before"].source
         /\ FreshAccepts("debug", got) => BuildAccepted("debugBuild", "debug", got)
         /\ FreshAccepts("release", got) => BuildAccepted("releaseBuild", "release", got)
         /\ FreshAccepts("verify", got) => got["verify"].signer = "ci"
         /\ FreshAccepts("reread", got) => got["reread"] = got["raw"]
         /\ FreshAccepts("binding", got) =>
              /\ got["binding"].id = got["decode"].saw["binding"]
              /\ \A p \in Built : got["binding"].saw[p] = got[p].id
<1> HIDE DEF BuildAccepted
<1>1. FreshAccepts("project", got) =>
        /\ got["before"].saw["project"] = Absent
        /\ got["project"].id = got["generation"].saw["project"]
        /\ got["generation"].source = got["before"].source
  BY Tuples DEF FreshAccepts
<1>2. FreshAccepts("debug", got) => BuildAccepted("debugBuild", "debug", got)
  BY Tuples DEF FreshAccepts
<1>3. FreshAccepts("release", got) => BuildAccepted("releaseBuild", "release", got)
  BY Tuples DEF FreshAccepts
<1>4. /\ FreshAccepts("verify", got) => AttestationAccepted("verify", got)
      /\ FreshAccepts("reread", got) => AttestationAccepted("reread", got)
      /\ FreshAccepts("binding", got) => AttestationAccepted("binding", got)
  BY Tuples DEF FreshAccepts
<1>5. AttestationAccepted("verify", got) => got["verify"].signer = "ci"
  BY DEF AttestationAccepted
<1>6. AttestationAccepted("reread", got) => got["reread"] = got["raw"]
  BY DEF AttestationAccepted
<1>7. AttestationAccepted("binding", got) =>
        /\ got["binding"].id = got["decode"].saw["binding"]
        /\ \A p \in Built : got["binding"].saw[p] = got[p].id
  BY DEF AttestationAccepted
<1>. QED  BY <1>1, <1>2, <1>3, <1>4, <1>5, <1>6, <1>7

\* What a rollback is accepted for.
LEMMA RollbackChecks ==
  ASSUME NEW got
  PROVE  /\ RollbackAccepts("verify", got) => got["verify"].signer # "test"
         /\ \A i \in 4..7 : RollbackAccepts(RollbackSteps[i], got) =>
              got[RollbackSteps[i]].id = got["observe"].saw[RollbackSteps[i]]
<1>1. RollbackAccepts("verify", got) => got["verify"].signer # "test"
  BY DEF RollbackAccepts
<1>2. \A i \in 4..7 : RollbackSteps[i] \notin {"decode", "verify", "observe"}
  BY DEF RollbackSteps
<1>3. ASSUME NEW a, a \notin {"decode", "verify", "observe"}, RollbackAccepts(a, got)
      PROVE  got[a].id = got["observe"].saw[a]
  BY <1>3 DEF RollbackAccepts, RecordAccepted
<1>. QED  BY <1>1, <1>2, <1>3

\* A chain that starts at the first proof is the beginning of the proofs; the
\* attestation is read after the last of its proofs.
LEMMA ChainFacts ==
  ASSUME NEW chain, IsChain(chain)
  PROVE  /\ Len(chain) \in 1..3
         /\ chain[1] = Proofs[1] => chain = SubSeq(Proofs, 1, Len(chain))
         /\ Len(StepsOf("generation", chain)) = Len(chain) + 1
         /\ StepsOf("generation", chain)[Len(chain) + 1] = "attest"
<1> DEFINE Names == {"proof1", "proof2", "proof3", "attest"}
<1>1. PICK i, j \in 1..3 : i <= j /\ chain = SubSeq(Proofs, i, j)
  BY DEF IsChain
<1>2. \A k \in 1..3 : Proofs[k] \in Names
  BY DEF Proofs
<1>3. \A k \in i..j : Proofs[k] \in Names
  BY <1>2
<1>4. /\ chain \in Seq(Names) /\ Len(chain) = j - i + 1
      /\ \A k \in 1..(j - i + 1) : chain[k] = Proofs[i + k - 1]
  BY <1>1, <1>3, SubSeqProperties
<1>5. chain[1] = Proofs[1] => i = 1
  <2>1. chain[1] = Proofs[i]
    BY <1>1, <1>4
  <2>. QED  BY <2>1, <1>1 DEF Proofs
<1>6. chain[1] = Proofs[1] => chain = SubSeq(Proofs, 1, Len(chain))
  BY <1>1, <1>4, <1>5
<1>7. <<"attest">> \in Seq(Names) /\ Len(<<"attest">>) = 1 /\ <<"attest">>[1] = "attest"
  OBVIOUS
<1>8. /\ Len(chain \o <<"attest">>) = Len(chain) + 1
      /\ (chain \o <<"attest">>)[Len(chain) + 1] = "attest"
  BY <1>1, <1>4, <1>7, ConcatProperties
<1>9. StepsOf("generation", chain) = chain \o <<"attest">>
  BY DEF StepsOf
<1>. QED  BY <1>1, <1>4, <1>6, <1>8, <1>9
-----------------------------------------------------------------------------
(* What a step writes or reads *)

\* A write of the campaign: one new file, at the paths it is put to.
Wrote(file) ==
  /\ writes' = writes + 1
  /\ file.id = writes + 1
  /\ DOMAIN evidence' = DOMAIN evidence
  /\ \A p \in DOMAIN evidence :
        \/ evidence'[p] = evidence[p]
        \/ p \in Built /\ evidence'[p] = NoFile
        \/ evidence'[p] = file /\ SawItself(p, file)

\* Every step of a fresh build's campaign is such a write.
LEMMA CampaignWrites ==
  ASSUME WriteInv, Campaign, tool = "fresh"
  PROVE  \E file : Wrote(file)
<1>1. DOMAIN evidence = PathsOf("fresh")
  BY DEF WriteInv
<1>2. {"debug", "release", "project", "binding"} \subseteq DOMAIN evidence
  BY <1>1 DEF PathsOf, Built
<1>3. ASSUME Writes
      PROVE  writes' = writes + 1
  BY <1>3 DEF Writes
<1>4. ASSUME NEW c \in ToSet(SealedCommands), RunCommand(c)
      PROVE  \E file : Wrote(file)
  <2> DEFINE root == [p \in DOMAIN evidence |-> IF p \in Output[c] THEN writes + 1
                                                ELSE Hashes[p]]
             file == FileContents(writes + 1, root, "none", "current")
  <2>1. Put({c} \cup Output[c], root, "none", "current") /\ writes' = writes + 1
    BY <1>4, <1>3 DEF RunCommand
  <2>2. file.id = writes + 1 /\ file.saw = root
    BY DEF FileContents
  <2>3. c \in {"before", "generation", "debugBuild", "releaseBuild"}
    BY Tuples
  <2>4. \A p \in Output[c] : p \notin {"debugBuild", "releaseBuild", "attestation"}
    BY <2>3 DEF Output
  <2>5. /\ c = "debugBuild" => root["debug"] = writes + 1
        /\ c = "releaseBuild" => root["release"] = writes + 1
    BY <1>2 DEF Output
  <2> HIDE DEF root
  <2>6. \A p \in {c} \cup Output[c] : SawItself(p, file)
    BY <2>2, <2>3, <2>4, <2>5 DEF SawItself
  <2>7. /\ DOMAIN evidence' = DOMAIN evidence
        /\ \A p \in DOMAIN evidence :
             evidence'[p] = IF p \in {c} \cup Output[c] THEN file ELSE evidence[p]
    BY <2>1 DEF Put
  <2> HIDE DEF file
  <2>8. Wrote(file)
    BY <2>1, <2>2, <2>6, <2>7 DEF Wrote
  <2>. QED  BY <2>8
<1>5. ASSUME \/ UNCHANGED evidence
             \/ evidence' = [p \in DOMAIN evidence |->
                               IF p \in Built THEN NoFile ELSE evidence[p]],
             Writes
      PROVE  \E file : Wrote(file)
  <2> DEFINE file == [id |-> writes + 1]
  <2>1. /\ DOMAIN evidence' = DOMAIN evidence
        /\ \A p \in DOMAIN evidence :
             evidence'[p] = evidence[p] \/ (p \in Built /\ evidence'[p] = NoFile)
    <3>1. CASE UNCHANGED evidence
      BY <3>1
    <3>2. CASE evidence' = [p \in DOMAIN evidence |-> IF p \in Built THEN NoFile
                                                     ELSE evidence[p]]
      BY <3>2
    <3>. QED  BY <1>5, <3>1, <3>2
  <2>2. Wrote(file)
    BY <1>5, <1>3, <2>1 DEF Wrote
  <2>. QED  BY <2>2
<1>6. ASSUME NEW signer, NEW verifier, Attest(signer, verifier)
      PROVE  \E file : Wrote(file)
  <2> DEFINE root == [p \in DOMAIN evidence |-> IF p = "binding" THEN writes + 1
                                                ELSE Hashes[p]]
             signed == {"attestation"} \cup (DOMAIN evidence \cap {"binding"})
             file == FileContents(writes + 1, root, signer, verifier)
  <2>1. Put(signed, root, signer, verifier) /\ writes' = writes + 1
    BY <1>6, <1>3 DEF Attest
  <2>2. file.id = writes + 1 /\ file.saw = root
    BY DEF FileContents
  <2>3. root["binding"] = writes + 1
    BY <1>2
  <2> HIDE DEF root
  <2>4. \A p \in signed : SawItself(p, file)
    BY <2>2, <2>3 DEF SawItself
  <2>5. /\ DOMAIN evidence' = DOMAIN evidence
        /\ \A p \in DOMAIN evidence :
             evidence'[p] = IF p \in signed THEN file ELSE evidence[p]
    BY <2>1 DEF Put
  <2> HIDE DEF file, signed
  <2>6. Wrote(file)
    BY <2>1, <2>2, <2>4, <2>5 DEF Wrote
  <2>. QED  BY <2>6
<1>7. CASE CleanBuild
  BY <1>5, <1>7 DEF CleanBuild
<1>8. CASE EditCheckout
  BY <1>5, <1>8 DEF EditCheckout
<1>9. ASSUME NEW asksFor, NEW i, NEW j, AskAgain(asksFor, i, j)
      PROVE  \E file : Wrote(file)
  BY <1>5, <1>9 DEF AskAgain
<1>. QED  BY <1>4, <1>6, <1>7, <1>8, <1>9 DEF Campaign

\* What a read that is accepted does.
LEMMA ReadIs ==
  ASSUME ReadNext, at' # 0, tool = "rollback" => ~failed',
         NEW step, step = StepsAsked[at]
  PROVE  /\ at # 0 /\ at # Ending /\ at' = at + 1
         /\ UNCHANGED <<tool, campaignVars, asked, failed, result>>
         /\ Accepts(step, seen')
         /\ DOMAIN seen' = DOMAIN seen \cup {step}
         /\ seen'[step] = evidence[FileOf(step)]
         /\ \A s \in DOMAIN seen : s # step => seen'[s] = seen[s]
<1> DEFINE got == [s \in DOMAIN seen \cup {step} |->
                     IF s = step THEN evidence[FileOf(step)] ELSE seen[s]]
<1>1. /\ at # 0 /\ at # Ending
      /\ UNCHANGED <<tool, campaignVars, result>>
      /\ \/ /\ Accepts(step, got)
            /\ seen' = got /\ at' = at + 1
            /\ UNCHANGED <<asked, failed>>
         \/ /\ ~Accepts(step, got) /\ tool # "rollback"
            /\ Over
         \/ /\ ~Accepts(step, got) /\ tool = "rollback"
            /\ seen' = got /\ failed' = TRUE
            /\ at' = IF step \in ReceiptSteps THEN Ending ELSE at + 1
            /\ UNCHANGED asked
  BY Zenon DEF ReadNext
<1> HIDE DEF got
<1>2. Accepts(step, got) /\ seen' = got /\ at' = at + 1 /\ UNCHANGED <<asked, failed>>
  BY <1>1 DEF Over
<1>3. Accepts(step, seen')
  BY <1>2, Zenon
<1>4. seen' = [s \in DOMAIN seen \cup {step} |->
                 IF s = step THEN evidence[FileOf(step)] ELSE seen[s]]
  BY <1>2 DEF got
<1>. QED  BY <1>1, <1>2, <1>3, <1>4

\* What a campaign leaves alone.
LEMMA CampaignLeaves ==
  ASSUME Campaign
  PROVE  /\ UNCHANGED <<tool, validatorVars>>
         /\ writes' = writes + 1
         /\ DOMAIN evidence' = DOMAIN evidence
         /\ \/ UNCHANGED request
            \/ \E i, j \in 1..3 : i <= j /\ request'.chain = SubSeq(Proofs, i, j)
<1> DEFINE Left == /\ UNCHANGED <<tool, validatorVars>>
                   /\ writes' = writes + 1
                   /\ DOMAIN evidence' = DOMAIN evidence
           Asked == \E i, j \in 1..3 : i <= j /\ request'.chain = SubSeq(Proofs, i, j)
<1>1. ASSUME NEW c, RunCommand(c)
      PROVE  Left /\ UNCHANGED request
  BY <1>1 DEF RunCommand, Put, Writes
<1>2. CASE CleanBuild
  BY <1>2 DEF CleanBuild, Writes
<1>3. CASE EditCheckout
  BY <1>3 DEF EditCheckout, Writes
<1>4. ASSUME NEW a, ObserveAgain(a) \/ ProveAgain(a)
      PROVE  Left /\ UNCHANGED request
  BY <1>4 DEF ObserveAgain, ProveAgain, Put, Writes
<1>5. ASSUME NEW signer, NEW verifier, Attest(signer, verifier)
      PROVE  Left /\ UNCHANGED request
  BY <1>5 DEF Attest, Put, Writes
<1>6. ASSUME NEW asksFor, NEW i \in DOMAIN Proofs, NEW j \in DOMAIN Proofs, i <= j,
             AskAgain(asksFor, i, j)
      PROVE  Left /\ Asked
  <2>1. Left
    BY <1>6 DEF AskAgain, Writes
  <2>2. request'.chain = SubSeq(Proofs, i, j)
    BY <1>6 DEF AskAgain, RequestFor
  <2>3. i \in 1..3 /\ j \in 1..3
    BY DEF Proofs
  <2>. QED  BY <2>1, <2>2, <2>3, <1>6
<1>. QED  BY <1>1, <1>2, <1>3, <1>4, <1>5, <1>6 DEF Campaign

\* A write keeps WriteInv, and makes no attestation older.
LEMMA WriteKeeps ==
  ASSUME WriteInv, Campaign
  PROVE  /\ WriteInv'
         /\ tool = "fresh" => evidence["attestation"].id <= evidence'["attestation"].id
<1>1. /\ UNCHANGED <<tool, validatorVars>>
      /\ writes' = writes + 1
      /\ DOMAIN evidence' = DOMAIN evidence
  BY CampaignLeaves
<1>2. writes \in Nat /\ writes' \in Nat /\ DOMAIN evidence' = PathsOf(tool')
  BY <1>1 DEF WriteInv
<1>3. CASE tool # "fresh"
  BY <1>1, <1>2, <1>3 DEF WriteInv
<1>4. CASE tool = "fresh"
  <2>1. PICK file : Wrote(file)
    BY <1>4, CampaignWrites
  <2>2. /\ file.id = writes + 1
        /\ \A p \in DOMAIN evidence :
              \/ evidence'[p] = evidence[p]
              \/ p \in Built /\ evidence'[p] = NoFile
              \/ evidence'[p] = file /\ SawItself(p, file)
    BY <2>1 DEF Wrote
  <2>3. UNCHANGED seen
    BY <1>1 DEF validatorVars
  <2>4. /\ \A p \in DOMAIN evidence :
             evidence[p].id \in 0..writes /\ SawItself(p, evidence[p])
        /\ \A s \in DOMAIN seen : seen[s].id \in 0..writes /\ SawItself(FileOf(s), seen[s])
        /\ \A x, y \in Contents : x.id = y.id => x = y
    BY <1>4 DEF WriteInv
  <2>5. NoFile.id = 0 /\ (\A p \in Built : SawItself(p, NoFile))
    BY DEF NoFile, Absent, SawItself, Built
  <2>6. \A p \in DOMAIN evidence :
          evidence'[p].id \in 0..writes' /\ SawItself(p, evidence'[p])
    BY <1>1, <1>2, <2>2, <2>4, <2>5
  <2>7. \A s \in DOMAIN seen : seen'[s].id \in 0..writes' /\ SawItself(FileOf(s), seen'[s])
    BY <1>1, <1>2, <2>3, <2>4
  <2>8. \A x \in Contents' : x \in Contents \/ x = file
    BY <1>1, <2>2, <2>3 DEF Contents
  <2>9. \A x \in Contents : x.id \in 0..writes
    BY <2>4, <2>5, <1>2 DEF Contents
  <2>10. \A x, y \in Contents' : x.id = y.id => x = y
    BY <1>2, <2>2, <2>4, <2>8, <2>9
  <2>11. WriteInv'
    BY <1>1, <1>2, <2>3, <2>6, <2>7, <2>10 DEF WriteInv
  <2>12. "attestation" \in DOMAIN evidence /\ "attestation" \notin Built
    BY DEF WriteInv, PathsOf, Built
  <2>13. evidence["attestation"].id <= evidence'["attestation"].id
    BY <1>2, <2>2, <2>4, <2>12
  <2>. QED  BY <2>11, <2>13
<1>. QED  BY <1>3, <1>4

\* A read, or the end of a run, keeps WriteInv.
LEMMA ReadKeeps ==
  ASSUME WriteInv, UNCHANGED <<tool, evidence, writes>>,
         tool = "fresh" =>
           \A s \in DOMAIN seen' :
              \/ s \in DOMAIN seen /\ seen'[s] = seen[s]
              \/ /\ FileOf(s) \in DOMAIN evidence /\ seen'[s] = evidence[FileOf(s)]
                 /\ s # "before" => FileOf(s) # "before"
  PROVE  WriteInv'
<1>1. CASE tool # "fresh"
  BY <1>1 DEF WriteInv
<1>2. CASE tool = "fresh"
  <2>1. /\ \A p \in DOMAIN evidence :
             evidence[p].id \in 0..writes /\ SawItself(p, evidence[p])
        /\ \A s \in DOMAIN seen : seen[s].id \in 0..writes /\ SawItself(FileOf(s), seen[s])
        /\ \A x, y \in Contents : x.id = y.id => x = y
    BY <1>2 DEF WriteInv
  <2>2. \A s \in DOMAIN seen' : seen'[s].id \in 0..writes /\ SawItself(FileOf(s), seen'[s])
    BY <1>2, <2>1
  <2>3. Contents' \subseteq Contents
    BY <1>2 DEF Contents
  <2>4. \A x, y \in Contents' : x.id = y.id => x = y
    BY <2>1, <2>3
  <2>. QED  BY <1>2, <2>1, <2>2, <2>4 DEF WriteInv
<1>. QED  BY <1>1, <1>2

\* A run that is over, or never asked for a proof, has nothing to keep but the
\* chain that is asked for.
LEMMA OverKeeps ==
  ASSUME R01Inv, Over, UNCHANGED <<tool, campaignVars>>
  PROVE  WriteInv' /\ TrailInv' /\ OrderInv' /\ FreshInv' /\ RollbackInv' /\ GenerationInv'
<1>1. UNCHANGED <<tool, evidence, request, writes>> /\ at' = 0 /\ seen' = <<>>
  BY DEF Over, campaignVars
<1>2. WriteInv'
  BY <1>1, ReadKeeps DEF R01Inv
<1>3. ~Proving("fresh")' /\ ~Proving("rollback")'
  BY <1>1 DEF Proving
<1>4. TrailInv' /\ OrderInv' /\ FreshInv' /\ RollbackInv'
  BY <1>1, <1>3 DEF TrailInv, OrderInv, FreshInv, RollbackInv
<1>5. GenerationInv'
  BY <1>1 DEF R01Inv, GenerationInv
<1>. QED  BY <1>2, <1>4, <1>5

\* The steps of the run under way.
LEMMA StepsAskedAre ==
  /\ tool = "fresh" => StepsAsked = FreshSteps /\ Ending = 13
  /\ tool = "rollback" => StepsAsked = RollbackSteps /\ Ending = 8
<1>1. PICK chain : chain = asked.chain
  OBVIOUS
<1>2. StepsOf("fresh", chain) = FreshSteps /\ StepsOf("rollback", chain) = RollbackSteps
  BY StepsAre
<1>3. /\ tool = "fresh" => StepsAsked = FreshSteps
      /\ tool = "rollback" => StepsAsked = RollbackSteps
  BY <1>1, <1>2 DEF StepsAsked
<1>4. Len(FreshSteps) = 12 /\ Len(RollbackSteps) = 7
  BY StepsReadPaths
<1>5. /\ tool = "fresh" => Len(StepsAsked) = 12
      /\ tool = "rollback" => Len(StepsAsked) = 7
  BY <1>3, <1>4, Zenon
<1>6. ASSUME NEW n, n = Len(StepsAsked), n \in {7, 12}
      PROVE  Ending = n + 1
  BY <1>6 DEF Ending
<1>7. /\ tool = "fresh" => Ending = 12 + 1
      /\ tool = "rollback" => Ending = 7 + 1
  BY <1>5, <1>6
<1>. QED  BY <1>3, <1>7

\* An accepted read of a fresh build goes one step on and changes no earlier one.
LEMMA FreshReadIs ==
  ASSUME WriteInv, TrailInv, ReadNext, Proving("fresh")'
  PROVE  /\ Proving("fresh") /\ at \in 1..12 /\ at' = at + 1
         /\ UNCHANGED <<tool, campaignVars, asked, result>>
         /\ DOMAIN seen' = DOMAIN seen \cup {FreshSteps[at]}
         /\ seen'[FreshSteps[at]] = evidence[FileOf(FreshSteps[at])]
         /\ \A i \in 1..(at - 1) : /\ FreshSteps[i] \in DOMAIN seen
                                   /\ seen'[FreshSteps[i]] = seen[FreshSteps[i]]
         /\ FreshAccepts(FreshSteps[at], seen')
<1>1. at' # 0 /\ ~failed' /\ tool' = "fresh" /\ asked'.status = "proof"
  BY DEF Proving
<1>2. UNCHANGED tool
  BY DEF ReadNext
<1>3. StepsAsked = FreshSteps /\ Ending = 13
  BY <1>1, <1>2, StepsAskedAre
<1>4. PICK step : step = FreshSteps[at]
  OBVIOUS
<1>5. /\ at # 0 /\ at # Ending /\ at' = at + 1
      /\ UNCHANGED <<tool, campaignVars, asked, failed, result>>
      /\ Accepts(step, seen')
      /\ DOMAIN seen' = DOMAIN seen \cup {step}
      /\ seen'[step] = evidence[FileOf(step)]
      /\ \A s \in DOMAIN seen : s # step => seen'[s] = seen[s]
  BY <1>1, <1>3, <1>4, ReadIs
<1>6. Proving("fresh") /\ at \in 1..12
  BY <1>1, <1>2, <1>3, <1>5 DEF Proving, TrailInv
<1>7. \A i \in 1..(at - 1) : /\ FreshSteps[i] \in DOMAIN seen
                             /\ seen'[FreshSteps[i]] = seen[FreshSteps[i]]
  <2>1. \A i \in 1..(at - 1) : FreshSteps[i] \in DOMAIN seen
    BY <1>6 DEF TrailInv
  <2>2. \A i \in 1..(at - 1) : FreshSteps[i] # step
    BY <1>4, <1>6, StepsDiffer
  <2>. QED  BY <1>5, <2>1, <2>2
<1>8. FreshAccepts(step, seen')
  BY <1>1, <1>2, <1>5 DEF Accepts
<1>. QED  BY <1>4, <1>5, <1>6, <1>7, <1>8

\* The order of the attestations that are read.
LEMMA OrderKeeps ==
  ASSUME R01Inv, ReadNext, Proving("fresh")'
  PROVE  OrderInv' /\ TrailInv'
<1>1. WriteInv /\ TrailInv /\ OrderInv
  BY DEF R01Inv
<1>2. /\ Proving("fresh") /\ at \in 1..12 /\ at' = at + 1
      /\ UNCHANGED <<tool, campaignVars, asked, result>>
      /\ DOMAIN seen' = DOMAIN seen \cup {FreshSteps[at]}
      /\ seen'[FreshSteps[at]] = evidence[FileOf(FreshSteps[at])]
      /\ \A i \in 1..(at - 1) : /\ FreshSteps[i] \in DOMAIN seen
                                /\ seen'[FreshSteps[i]] = seen[FreshSteps[i]]
  BY <1>1, FreshReadIs
<1>3. /\ FreshSteps[8] = "raw" /\ FreshSteps[9] = "decode"
      /\ FreshSteps[10] = "verify" /\ FreshSteps[11] = "reread"
  BY DEF FreshSteps
<1>4. UNCHANGED evidence
  BY <1>2 DEF campaignVars
<1>5. DOMAIN seen = {FreshSteps[i] : i \in 1..(at - 1)}
  BY <1>1, <1>2 DEF TrailInv
<1>6. DOMAIN seen' = {FreshSteps[i] : i \in 1..(at' - 1)}
  BY <1>2, <1>5
<1>7. tool = "fresh"
  BY <1>2 DEF Proving
<1>8. TrailInv'
  BY <1>2, <1>6, <1>7 DEF TrailInv, Proving
<1>9. evidence["attestation"].id \in Nat
  <2>1. "attestation" \in DOMAIN evidence
    BY <1>1 DEF WriteInv, PathsOf
  <2>. QED  BY <2>1, <1>1, <1>7 DEF WriteInv
<1>10. \A s \in DOMAIN seen' :
         s \in ReceiptSteps => seen'[s].id <= evidence'["attestation"].id
  <2> SUFFICES ASSUME NEW s \in DOMAIN seen', s \in ReceiptSteps
               PROVE  seen'[s].id <= evidence["attestation"].id
    BY <1>4
  <2>1. CASE s = FreshSteps[at]
    BY <1>2, <1>9, <2>1 DEF FileOf
  <2>2. CASE s # FreshSteps[at]
    <3>1. PICK i \in 1..(at - 1) : s = FreshSteps[i]
      BY <1>2, <1>5, <2>2
    <3>2. s \in DOMAIN seen /\ seen'[s] = seen[s]
      BY <1>2, <3>1
    <3>. QED  BY <1>1, <1>2, <3>2 DEF OrderInv
  <2>. QED  BY <2>1, <2>2
<1>11. \A i \in 1..12 : FreshSteps[i] \in ReceiptSteps => FileOf(FreshSteps[i]) = "attestation"
  BY DEF FileOf
<1>12. {"raw", "decode", "verify", "reread"} \subseteq ReceiptSteps
  BY DEF ReceiptSteps
<1>13. at' > 9 => seen'["raw"].id <= seen'["decode"].id
  <2>1. CASE at = 9
    <3>1. "raw" \in DOMAIN seen' /\ seen'["decode"] = evidence'["attestation"]
      BY <1>2, <1>3, <1>4, <1>11, <1>12, <2>1
    <3>. QED  BY <3>1, <1>10, <1>12
  <2>2. CASE at > 9
    <3>1. seen'["raw"] = seen["raw"] /\ seen'["decode"] = seen["decode"]
      BY <1>2, <1>3, <2>2
    <3>. QED  BY <3>1, <1>1, <1>2, <2>2 DEF OrderInv
  <2>. QED  BY <1>2, <2>1, <2>2
<1>14. at' > 10 => seen'["raw"].id <= seen'["verify"].id
  <2>1. CASE at = 10
    <3>1. "raw" \in DOMAIN seen' /\ seen'["verify"] = evidence'["attestation"]
      BY <1>2, <1>3, <1>4, <1>11, <1>12, <2>1
    <3>. QED  BY <3>1, <1>10, <1>12
  <2>2. CASE at > 10
    <3>1. seen'["raw"] = seen["raw"] /\ seen'["verify"] = seen["verify"]
      BY <1>2, <1>3, <2>2
    <3>. QED  BY <3>1, <1>1, <1>2, <2>2 DEF OrderInv
  <2>. QED  BY <1>2, <2>1, <2>2
<1>15. at' > 11 => /\ seen'["decode"].id <= seen'["reread"].id
                   /\ seen'["verify"].id <= seen'["reread"].id
  <2>1. CASE at = 11
    <3>1. /\ "decode" \in DOMAIN seen' /\ "verify" \in DOMAIN seen'
          /\ seen'["reread"] = evidence'["attestation"]
      BY <1>2, <1>3, <1>4, <1>11, <1>12, <2>1
    <3>. QED  BY <3>1, <1>10, <1>12
  <2>2. CASE at > 11
    <3>1. /\ seen'["decode"] = seen["decode"] /\ seen'["verify"] = seen["verify"]
          /\ seen'["reread"] = seen["reread"]
      BY <1>2, <1>3, <2>2
    <3>. QED  BY <3>1, <1>1, <1>2, <2>2 DEF OrderInv
  <2>. QED  BY <1>2, <2>1, <2>2
<1>16. OrderInv'
  BY <1>10, <1>13, <1>14, <1>15 DEF OrderInv
<1>. QED  BY <1>8, <1>16

\* What a fresh build was accepted for stays what it read.
LEMMA FreshKeeps ==
  ASSUME R01Inv, ReadNext, Proving("fresh")'
  PROVE  FreshInv'
<1>1. WriteInv /\ TrailInv /\ FreshInv
  BY DEF R01Inv
<1>2. /\ Proving("fresh") /\ at \in 1..12 /\ at' = at + 1
      /\ \A i \in 1..(at - 1) : /\ FreshSteps[i] \in DOMAIN seen
                                /\ seen'[FreshSteps[i]] = seen[FreshSteps[i]]
      /\ FreshAccepts(FreshSteps[at], seen')
  BY <1>1, FreshReadIs
<1>3. /\ at > 1 => seen'["before"] = seen["before"]
      /\ at > 2 => seen'["generation"] = seen["generation"]
      /\ at > 3 => seen'["debugBuild"] = seen["debugBuild"]
      /\ at > 4 => seen'["releaseBuild"] = seen["releaseBuild"]
      /\ at > 5 => seen'["project"] = seen["project"]
      /\ at > 6 => seen'["debug"] = seen["debug"]
      /\ at > 7 => seen'["release"] = seen["release"]
      /\ at > 8 => seen'["raw"] = seen["raw"]
      /\ at > 9 => seen'["decode"] = seen["decode"]
      /\ at > 10 => seen'["verify"] = seen["verify"]
      /\ at > 11 => seen'["reread"] = seen["reread"]
  BY <1>2 DEF FreshSteps
<1>4. /\ at = 5 => FreshAccepts("project", seen')
      /\ at = 6 => FreshAccepts("debug", seen')
      /\ at = 7 => FreshAccepts("release", seen')
      /\ at = 10 => FreshAccepts("verify", seen')
      /\ at = 11 => FreshAccepts("reread", seen')
      /\ at = 12 => FreshAccepts("binding", seen')
  <2>1. /\ FreshSteps[5] = "project" /\ FreshSteps[6] = "debug" /\ FreshSteps[7] = "release"
        /\ FreshSteps[10] = "verify" /\ FreshSteps[11] = "reread"
        /\ FreshSteps[12] = "binding"
    BY DEF FreshSteps
  <2>. QED  BY <1>2, <2>1
<1>5. PICK got : got = seen'
  OBVIOUS
<1>6. at' > 5 => /\ seen'["before"].saw["project"] = Absent
                 /\ seen'["project"].id = seen'["generation"].saw["project"]
                 /\ seen'["generation"].source = seen'["before"].source
  BY <1>1, <1>2, <1>3, <1>4, <1>5, FreshChecks DEF FreshInv
<1>7. at' > 6 => BuildAccepted("debugBuild", "debug", got)
  <2>1. CASE at = 6
    BY <1>4, <1>5, <2>1, FreshChecks
  <2>2. CASE at > 6
    BY <1>1, <1>2, <1>3, <1>5, <2>2 DEF FreshInv, BuildAccepted
  <2>. QED  BY <1>2, <2>1, <2>2
<1>8. at' > 7 => BuildAccepted("releaseBuild", "release", got)
  <2>1. CASE at = 7
    BY <1>4, <1>5, <2>1, FreshChecks
  <2>2. CASE at > 7
    BY <1>1, <1>2, <1>3, <1>5, <2>2 DEF FreshInv, BuildAccepted
  <2>. QED  BY <1>2, <2>1, <2>2
<1>9. at' > 10 => seen'["verify"].signer = "ci"
  BY <1>1, <1>2, <1>3, <1>4, <1>5, FreshChecks DEF FreshInv
<1>10. at' > 11 => seen'["reread"] = seen'["raw"]
  BY <1>1, <1>2, <1>3, <1>4, <1>5, FreshChecks DEF FreshInv
<1>11. at' > 12 => /\ seen'["binding"].id = seen'["decode"].saw["binding"]
                   /\ \A p \in Built : seen'["binding"].saw[p] = seen'[p].id
  <2>1. at' > 12 => at = 12
    BY <1>2
  <2>2. at = 12 => /\ got["binding"].id = got["decode"].saw["binding"]
                   /\ \A p \in Built : got["binding"].saw[p] = got[p].id
    BY <1>4, <1>5, FreshChecks
  <2>. QED  BY <1>5, <2>1, <2>2
<1>. QED  BY <1>5, <1>6, <1>7, <1>8, <1>9, <1>10, <1>11 DEF FreshInv, BuildAccepted

\* An accepted read of a rollback, likewise, and what it is accepted for.
LEMMA RollbackKeeps ==
  ASSUME R01Inv, ReadNext, Proving("rollback")'
  PROVE  TrailInv' /\ RollbackInv'
<1>1. WriteInv /\ TrailInv /\ RollbackInv
  BY DEF R01Inv
<1>2. at' # 0 /\ ~failed' /\ tool' = "rollback" /\ asked'.status = "proof" /\ tool = "rollback"
  BY DEF Proving, ReadNext
<1>3. StepsAsked = RollbackSteps /\ Ending = 8
  BY <1>2, StepsAskedAre
<1>4. PICK step : step = RollbackSteps[at]
  OBVIOUS
<1>5. /\ at # 0 /\ at # Ending /\ at' = at + 1
      /\ UNCHANGED <<tool, campaignVars, asked, failed, result>>
      /\ Accepts(step, seen')
      /\ DOMAIN seen' = DOMAIN seen \cup {step}
      /\ \A s \in DOMAIN seen : s # step => seen'[s] = seen[s]
  BY <1>2, <1>3, <1>4, ReadIs
<1>6. Proving("rollback") /\ at \in 1..7
  BY <1>1, <1>2, <1>3, <1>5 DEF Proving, TrailInv
<1>7. DOMAIN seen = {RollbackSteps[i] : i \in 1..(at - 1)}
  BY <1>1, <1>6 DEF TrailInv
<1>8. \A i \in 1..(at - 1) : seen'[RollbackSteps[i]] = seen[RollbackSteps[i]]
  <2>1. \A i \in 1..(at - 1) : RollbackSteps[i] # step
    BY <1>4, <1>6, StepsDiffer
  <2>. QED  BY <1>5, <1>7, <2>1
<1>9. TrailInv'
  <2>1. DOMAIN seen' = {RollbackSteps[i] : i \in 1..(at' - 1)}
    BY <1>4, <1>5, <1>6, <1>7
  <2>. QED  BY <1>2, <1>5, <1>6, <2>1 DEF TrailInv, Proving
<1>10. /\ RollbackSteps[2] = "verify" /\ RollbackSteps[3] = "observe"
       /\ \A i \in 4..7 : RollbackSteps[i] # "observe"
  BY DEF RollbackSteps
<1>11. PICK got : got = seen'
  OBVIOUS
<1>12. RollbackAccepts(step, got)
  BY <1>2, <1>5, <1>11 DEF Accepts
<1>13. at' > 2 => seen'["verify"].signer # "test"
  <2>1. CASE at = 2
    BY <1>4, <1>10, <1>11, <1>12, <2>1, RollbackChecks
  <2>2. CASE at > 2
    BY <1>1, <1>6, <1>8, <1>10, <2>2 DEF RollbackInv
  <2>. QED  BY <1>5, <1>6, <2>1, <2>2
<1>14. \A i \in 4..(at' - 1) :
         seen'[RollbackSteps[i]].id = seen'["observe"].saw[RollbackSteps[i]]
  <2> SUFFICES ASSUME NEW i \in 4..at
               PROVE  seen'[RollbackSteps[i]].id = seen'["observe"].saw[RollbackSteps[i]]
    <3>1. at' - 1 = at
      BY <1>5, <1>6
    <3>. QED  BY <3>1
  <2>1. CASE i = at
    <3>1. i \in 4..7
      BY <1>6
    <3>. QED  BY <1>4, <1>11, <1>12, <2>1, <3>1, RollbackChecks
  <2>2. CASE i < at
    <3>1. i \in 4..(at - 1) /\ i \in 1..(at - 1) /\ 3 \in 1..(at - 1)
      BY <1>6, <2>2
    <3>2. /\ seen'[RollbackSteps[i]] = seen[RollbackSteps[i]]
          /\ seen'["observe"] = seen["observe"]
      BY <1>8, <1>10, <3>1
    <3>3. seen[RollbackSteps[i]].id = seen["observe"].saw[RollbackSteps[i]]
      BY <1>1, <1>6, <3>1 DEF RollbackInv
    <3>. QED  BY <3>2, <3>3
  <2>. QED  BY <1>6, <2>1, <2>2
<1>. QED  BY <1>9, <1>13, <1>14 DEF RollbackInv

\* A generation's proofs are read one after another and its attestation last.
LEMMA GenerationKeeps ==
  ASSUME R01Inv, ReadNext
  PROVE  GenerationInv'
<1>1. UNCHANGED <<tool, request>>
  BY DEF ReadNext, campaignVars
<1>2. GenerationInv
  BY DEF R01Inv
<1>3. CASE tool # "generation"
  BY <1>1, <1>3 DEF GenerationInv
<1>4. CASE tool = "generation" /\ at' = 0
  BY <1>1, <1>2, <1>4 DEF GenerationInv
<1>5. CASE tool = "generation" /\ at' # 0
  <2>1. PICK step : step = StepsAsked[at]
    OBVIOUS
  <2>2. /\ at # 0 /\ at # Ending /\ at' = at + 1
        /\ UNCHANGED asked
        /\ Accepts(step, seen')
    BY <1>5, <2>1, ReadIs
  <2>3. PICK chain, got : chain = asked.chain /\ got = seen'
    OBVIOUS
  <2>4. /\ Len(chain) \in 1..3
        /\ Len(StepsOf("generation", chain)) = Len(chain) + 1
        /\ StepsOf("generation", chain)[Len(chain) + 1] = "attest"
    BY <1>2, <1>5, <2>2, <2>3, ChainFacts DEF GenerationInv
  <2>5. Ending = Len(chain) + 2 /\ StepsAsked[Len(chain) + 1] = "attest"
    BY <1>5, <2>3, <2>4 DEF Ending, StepsAsked
  <2>6. Ending' = Ending /\ at' \in 1..Ending'
    BY <1>1, <1>2, <1>5, <2>2, <2>4, <2>5 DEF Ending, StepsAsked, GenerationInv
  <2>7. ASSUME at' = Ending'
        PROVE  /\ Continuous(chain, got)
               /\ got["attest"].signer = "ci"
               /\ got["attest"].saw[chain[Len(chain)]] = got[chain[Len(chain)]].id
    <3>1. at = Len(chain) + 1
      BY <1>2, <1>5, <2>2, <2>4, <2>5, <2>6, <2>7 DEF GenerationInv
    <3>2. step = "attest"
      BY <2>1, <2>5, <3>1
    <3>3. GenerationAccepts(step, got)
      BY <1>5, <2>2, <2>3 DEF Accepts
    <3>. QED  BY <2>3, <3>2, <3>3 DEF GenerationAccepts
  <2>8. IsChain(chain)
    BY <1>2, <1>5, <2>2, <2>3 DEF GenerationInv
  <2>. QED  BY <1>1, <1>2, <2>2, <2>3, <2>6, <2>7, <2>8
            DEF GenerationInv, Continuous, IsChain
<1>. QED  BY <1>3, <1>4, <1>5
-----------------------------------------------------------------------------
(* The inductive invariant *)

\* Only a result that passed is held to anything.
LEMMA NotPassedHolds ==
  ASSUME result.status # "passed"
  PROVE  ResultInv
BY DEF ResultInv, PassedBy, FreshIsOneBuild, RollbackIsObserved, GenerationIsDurable

\* A campaign that ended well.
LEMMA InitHolds ==
  ASSUME R01Init
  PROVE  R01Inv
<1> DEFINE all == [p \in PathsOf(tool) |-> 1]
           clean == [p \in PathsOf(tool) |-> IF p \in Built THEN Absent ELSE 1]
           file == FileContents(1, all, "ci", "current")
           first == FileContents(1, clean, "ci", "current")
<1>1. /\ DOMAIN evidence = PathsOf(tool)
      /\ \A p \in PathsOf(tool) : evidence[p] = IF p = "before" THEN first ELSE file
      /\ request.chain = Proofs
      /\ writes = 1 /\ at = 0 /\ seen = <<>>
      /\ result \in {NoResult, Torn}
  BY DEF R01Init, FileContents, RequestFor
<1>2. /\ file.id = 1 /\ file.saw = all /\ first.id = 1
  BY DEF FileContents
<1>3. tool = "fresh" =>
        /\ {"debug", "release", "binding"} \subseteq PathsOf(tool)
        /\ all["debug"] = 1 /\ all["release"] = 1 /\ all["binding"] = 1
  BY DEF PathsOf, Built
<1> HIDE DEF all, clean, file, first
<1>4. tool = "fresh" => \A p \in DOMAIN evidence : SawItself(p, evidence[p])
  BY <1>1, <1>2, <1>3 DEF SawItself
<1>5. \A x, y \in Contents : x.id = y.id => x = y
  <2>1. \A x \in Contents : x = NoFile \/ x = file
    BY <1>1 DEF Contents
  <2>2. NoFile.id = 0
    BY DEF NoFile, Absent
  <2>. QED  BY <2>1, <2>2, <1>2
<1>6. WriteInv
  <2>1. \A p \in DOMAIN evidence : evidence[p].id = 1
    BY <1>1, <1>2
  <2>. QED  BY <1>1, <1>4, <1>5, <2>1 DEF WriteInv
<1>7. TrailInv /\ OrderInv /\ FreshInv /\ RollbackInv
  BY <1>1 DEF TrailInv, OrderInv, FreshInv, RollbackInv, Proving
<1>8. Proofs = SubSeq(Proofs, 1, 3)
  <2>1. /\ \A k \in 1..3 : Proofs[k] \in ToSet(Proofs)
        /\ Proofs \in Seq(ToSet(Proofs)) /\ Len(Proofs) = 3
    BY Tuples DEF Proofs
  <2> DEFINE S == ToSet(Proofs)
  <2> HIDE DEF S
  <2>2. /\ SubSeq(Proofs, 1, 3) \in Seq(S) /\ Len(SubSeq(Proofs, 1, 3)) = 3
        /\ \A k \in 1..3 : SubSeq(Proofs, 1, 3)[k] = Proofs[k]
    <3>1. \A k \in 1..3 : Proofs[k] \in S
      BY <2>1 DEF S
    <3>. QED  BY <3>1, SubSeqProperties
  <2>. QED  BY <2>1, <2>2, SeqEqual DEF S
<1>9. GenerationInv
  <2>1. IsChain(Proofs)
    BY <1>8 DEF IsChain
  <2>. QED  BY <1>1, <2>1 DEF GenerationInv
<1>10. ResultInv
  BY <1>1, NotPassedHolds DEF NoResult, Torn
<1>. QED  BY <1>6, <1>7, <1>9, <1>10 DEF R01Inv

\* Nothing but a write changes the result.
LEMMA ResultStays ==
  ASSUME ResultInv, UNCHANGED <<tool, result>>
  PROVE  ResultInv'
BY DEF ResultInv, PassedBy, FreshIsOneBuild, RollbackIsObserved, GenerationIsDurable

\* A campaign goes on under a run: what the run has read is what it was.
LEMMA CampaignKeeps ==
  ASSUME R01Inv, Campaign
  PROVE  R01Inv'
<1>1. /\ UNCHANGED <<tool, at, asked, seen, failed, result>>
      /\ \/ UNCHANGED request
         \/ \E i, j \in 1..3 : i <= j /\ request'.chain = SubSeq(Proofs, i, j)
  BY CampaignLeaves DEF validatorVars
<1>2. /\ WriteInv'
      /\ tool = "fresh" => evidence["attestation"].id <= evidence'["attestation"].id
  BY WriteKeeps DEF R01Inv
<1>3. TrailInv' /\ FreshInv' /\ RollbackInv'
  BY <1>1 DEF R01Inv, TrailInv, FreshInv, RollbackInv, Proving, BuildAccepted
<1>4. OrderInv'
  <2> SUFFICES ASSUME Proving("fresh")'
               PROVE  OrderInv'
    BY DEF OrderInv
  <2>1. Proving("fresh") /\ tool = "fresh"
    BY <1>1 DEF Proving
  <2>2. "attestation" \in DOMAIN evidence /\ "attestation" \in DOMAIN evidence'
    BY <1>1, <1>2, <2>1 DEF R01Inv, WriteInv, PathsOf
  <2>3. evidence["attestation"].id \in Nat /\ evidence'["attestation"].id \in Nat
    BY <1>1, <1>2, <2>1, <2>2 DEF R01Inv, WriteInv
  <2>4. \A s \in DOMAIN seen : seen[s].id \in Nat
    BY <2>1 DEF R01Inv, WriteInv
  <2>5. \A s \in DOMAIN seen : s \in ReceiptSteps => seen[s].id <= evidence'["attestation"].id
    BY <1>2, <2>1, <2>3, <2>4 DEF R01Inv, OrderInv
  <2>. QED  BY <1>1, <2>1, <2>5 DEF R01Inv, OrderInv
<1>5. GenerationInv'
  <2>1. tool = "generation" => IsChain(request.chain)'
    BY <1>1 DEF R01Inv, GenerationInv, IsChain
  <2>2. Ending' = Ending
    BY <1>1 DEF Ending, StepsAsked
  <2>. QED  BY <1>1, <2>1, <2>2 DEF R01Inv, GenerationInv, Continuous
<1>6. ResultInv'
  BY <1>1, ResultStays DEF R01Inv
<1>. QED  BY <1>2, <1>3, <1>4, <1>5, <1>6 DEF R01Inv

\* A run begins with nothing read, at its first step or, when nothing is asked
\* for, at its end.
LEMMA BeginKeeps ==
  ASSUME R01Inv, BeginFresh \/ BeginRollback \/ BeginClassification
  PROVE  R01Inv'
<1> DEFINE Begun == /\ UNCHANGED <<tool, campaignVars, result>>
                    /\ asked' = request /\ seen' = <<>> /\ failed' = FALSE
<1>1. Begun
  BY DEF BeginFresh, BeginRollback, BeginClassification, BeginAt
<1>2. /\ tool = "fresh" => at' = 1 \/ (at' = 13 /\ asked'.status # "proof")
      /\ tool = "rollback" => at' = 1 \/ (at' = 8 /\ asked'.status # "proof")
      /\ tool = "generation" => at' = 1
  <2>1. PICK chain : chain = request.chain
    OBVIOUS
  <2>2. EndOf("fresh") = 13 /\ EndOf("rollback") = 8
    <3>1. /\ Len(StepsOf("fresh", request.chain)) = 12
          /\ Len(StepsOf("rollback", request.chain)) = 7
      <4>1. StepsOf("fresh", chain) = FreshSteps /\ StepsOf("rollback", chain) = RollbackSteps
        BY StepsAre
      <4>. QED  BY <2>1, <4>1, StepsReadPaths, Zenon
    <3>2. ASSUME NEW t, NEW n \in {7, 12}, n = Len(StepsOf(t, request.chain))
          PROVE  EndOf(t) = n + 1
      BY <3>2 DEF EndOf
    <3>. QED  BY <3>1, <3>2
  <2>. QED  BY <2>2 DEF BeginFresh, BeginRollback, BeginClassification, BeginAt
<1>3. WriteInv'
  BY <1>1, ReadKeeps DEF R01Inv, campaignVars
<1>4. /\ Proving("fresh")' => at' = 1 /\ seen' = <<>>
      /\ Proving("rollback")' => at' = 1 /\ seen' = <<>>
  BY <1>1, <1>2 DEF Proving
<1>5. TrailInv'
  <2>1. DOMAIN <<>> = {}
    OBVIOUS
  <2>2. tool \in {"fresh", "rollback", "generation"}
    BY DEF BeginFresh, BeginRollback, BeginClassification
  <2>. QED  BY <1>1, <1>2, <1>4, <2>1, <2>2 DEF TrailInv
<1>6. OrderInv' /\ FreshInv' /\ RollbackInv'
  BY <1>4 DEF OrderInv, FreshInv, RollbackInv
<1>7. GenerationInv'
  <2> SUFFICES ASSUME tool = "generation"
               PROVE  GenerationInv'
    BY <1>1 DEF GenerationInv
  <2>1. PICK chain : chain = request.chain
    OBVIOUS
  <2>2. IsChain(chain)
    BY <2>1 DEF R01Inv, GenerationInv
  <2>3. /\ Len(chain) \in 1..3
        /\ Len(StepsOf("generation", chain)) = Len(chain) + 1
    BY <2>2, ChainFacts
  <2>4. asked'.chain = chain /\ request'.chain = chain /\ tool' = "generation"
    BY <1>1, <2>1 DEF campaignVars
  <2>5. Ending' = Len(chain) + 2
    BY <2>3, <2>4 DEF Ending, StepsAsked
  <2>6. at' \in 1..Ending' /\ at' # Ending'
    BY <1>2, <2>3, <2>4, <2>5
  <2>. QED  BY <2>2, <2>4, <2>6 DEF GenerationInv, IsChain
<1>8. ResultInv'
  BY <1>1, ResultStays DEF R01Inv
<1>. QED  BY <1>3, <1>5, <1>6, <1>7, <1>8 DEF R01Inv

\* A read.
LEMMA ReadHolds ==
  ASSUME R01Inv, ReadNext
  PROVE  R01Inv'
<1>1. UNCHANGED <<tool, campaignVars, result>>
  BY DEF ReadNext
<1>2. WriteInv /\ TrailInv /\ ResultInv
  BY DEF R01Inv
<1>3. ResultInv'
  BY <1>1, <1>2, ResultStays
<1>4. GenerationInv'
  BY GenerationKeeps
<1>5. CASE at' = 0
  <2>1. at \in Nat \ {0}
    <3>1. GenerationInv /\ at # 0
      BY DEF R01Inv, ReadNext
    <3>. QED  BY <1>2, <3>1 DEF TrailInv, GenerationInv
  <2>2. tool = "rollback" => Ending = 8
    BY StepsAskedAre
  <2>3. Over
    BY <1>5, <2>1, <2>2 DEF ReadNext
  <2>. QED  BY <1>1, <1>3, <2>3, OverKeeps DEF R01Inv
<1>6. CASE at' # 0
  <2>1. WriteInv'
    <3>1. UNCHANGED <<tool, evidence, writes>>
      BY <1>1 DEF campaignVars
    <3>2. ASSUME tool = "fresh", NEW s \in DOMAIN seen'
          PROVE  \/ s \in DOMAIN seen /\ seen'[s] = seen[s]
                 \/ /\ FileOf(s) \in DOMAIN evidence /\ seen'[s] = evidence[FileOf(s)]
                    /\ s # "before" => FileOf(s) # "before"
      <4>1. StepsAsked = FreshSteps /\ Ending = 13
        BY <3>2, StepsAskedAre
      <4>2. PICK step : step = FreshSteps[at]
        OBVIOUS
      <4>3. /\ at # 0 /\ at # Ending
            /\ DOMAIN seen' = DOMAIN seen \cup {step}
            /\ seen'[step] = evidence[FileOf(step)]
            /\ \A r \in DOMAIN seen : r # step => seen'[r] = seen[r]
        BY <1>6, <3>2, <4>1, <4>2, ReadIs
      <4>4. at \in 1..12
        BY <1>2, <3>2, <4>1, <4>3 DEF TrailInv
      <4>5. FileOf(step) \in DOMAIN evidence /\ (step # "before" => FileOf(step) # "before")
        BY <1>2, <3>2, <4>2, <4>4, StepsReadPaths DEF WriteInv
      <4>. QED  BY <4>3, <4>5
    <3>. QED  BY <1>2, <3>1, <3>2, ReadKeeps
  <2>2. TrailInv'
    <3>1. CASE Proving("fresh")'
      BY <3>1, OrderKeeps
    <3>2. CASE Proving("rollback")'
      BY <3>2, RollbackKeeps
    <3>3. CASE ~Proving("fresh")' /\ ~Proving("rollback")'
      <4>1. tool = "fresh" => at' \in 1..13
        <5> SUFFICES ASSUME tool = "fresh"
                     PROVE  at' \in 1..13
          OBVIOUS
        <5>1. Ending = 13
          BY StepsAskedAre
        <5>2. PICK step : step = StepsAsked[at]
          OBVIOUS
        <5>3. at # 0 /\ at # Ending /\ at' = at + 1
          BY <1>6, <5>2, ReadIs
        <5>. QED  BY <1>2, <5>1, <5>3 DEF TrailInv
      <4>2. tool = "rollback" => at' \in 1..8
        <5> SUFFICES ASSUME tool = "rollback"
                     PROVE  at' \in 1..8
          OBVIOUS
        <5>1. Ending = 8
          BY StepsAskedAre
        <5>2. at # 0 /\ at # Ending /\ (at' = at + 1 \/ at' = Ending)
          BY <1>6 DEF ReadNext, Over
        <5>. QED  BY <1>2, <5>1, <5>2 DEF TrailInv
      <4>3. tool \in {"fresh", "rollback", "generation"}
        BY <1>2 DEF TrailInv, ReadNext
      <4>. QED  BY <1>1, <3>3, <4>1, <4>2, <4>3 DEF TrailInv
    <3>. QED  BY <3>1, <3>2, <3>3
  <2>3. OrderInv' /\ FreshInv'
    <3>1. CASE Proving("fresh")'
      BY <3>1, OrderKeeps, FreshKeeps
    <3>2. CASE ~Proving("fresh")'
      BY <3>2 DEF OrderInv, FreshInv
    <3>. QED  BY <3>1, <3>2
  <2>4. RollbackInv'
    <3>1. CASE Proving("rollback")'
      BY <3>1, RollbackKeeps
    <3>2. CASE ~Proving("rollback")'
      BY <3>2 DEF RollbackInv
    <3>. QED  BY <3>1, <3>2
  <2>. QED  BY <1>3, <1>4, <2>1, <2>2, <2>3, <2>4 DEF R01Inv
<1>. QED  BY <1>5, <1>6

\* What a fresh build is at the end of its reads.  The binding is the attestation
\* that was decoded, and as the first and the last look at the attestation read the
\* same, so did the two between them; a bundle is of the very build whose record
\* was read.
LEMMA FreshAtEnd ==
  ASSUME WriteInv, TrailInv, OrderInv, FreshInv, Proving("fresh"), at = 13
  PROVE  /\ seen["before"].saw["project"] = Absent
         /\ \A b \in {"debug", "release"} :
              /\ seen[b].saw["project"] = seen["project"].id
              /\ seen[b].source = seen["before"].source
         /\ seen["decode"].signer = "ci"
         /\ \A p \in Built : seen["decode"].saw[p] = seen[p].id
<1>1. tool = "fresh"
  BY DEF Proving
<1>2. {"debugBuild", "releaseBuild", "debug", "release", "raw", "decode", "verify",
       "reread", "binding"} \subseteq DOMAIN seen
  <2>1. DOMAIN seen = {FreshSteps[i] : i \in 1..12}
    BY DEF TrailInv
  <2>. QED  BY <2>1 DEF FreshSteps
<1>3. /\ \A s \in DOMAIN seen : seen[s].id \in Nat /\ SawItself(FileOf(s), seen[s])
      /\ \A x, y \in Contents : x.id = y.id => x = y
  BY <1>1 DEF WriteInv
<1>4. \A s \in DOMAIN seen : s # "before" => seen[s] \in Contents
  BY DEF Contents
<1>5. /\ seen["raw"].id <= seen["decode"].id /\ seen["raw"].id <= seen["verify"].id
      /\ seen["decode"].id <= seen["reread"].id /\ seen["verify"].id <= seen["reread"].id
      /\ seen["reread"] = seen["raw"]
  BY DEF OrderInv, FreshInv
<1>6. seen["decode"].id = seen["raw"].id /\ seen["verify"].id = seen["raw"].id
  BY <1>2, <1>3, <1>5
<1>7. seen["decode"] = seen["raw"] /\ seen["verify"] = seen["raw"]
  BY <1>2, <1>3, <1>4, <1>6
<1>8. seen["decode"].signer = "ci"
  BY <1>7 DEF FreshInv
<1>9. /\ seen["decode"].saw["binding"] = seen["decode"].id
      /\ seen["debugBuild"].saw["debug"] = seen["debugBuild"].id
      /\ seen["releaseBuild"].saw["release"] = seen["releaseBuild"].id
  BY <1>2, <1>3 DEF SawItself, FileOf, ReceiptSteps
<1>10. seen["binding"] = seen["decode"]
  BY <1>2, <1>3, <1>4, <1>9 DEF FreshInv
<1>11. /\ BuildAccepted("debugBuild", "debug", seen)
       /\ BuildAccepted("releaseBuild", "release", seen)
  BY DEF FreshInv
<1>12. seen["debug"] = seen["debugBuild"] /\ seen["release"] = seen["releaseBuild"]
  BY <1>2, <1>3, <1>4, <1>9, <1>11 DEF BuildAccepted
<1>13. \A b \in {"debug", "release"} :
         /\ seen[b].saw["project"] = seen["project"].id
         /\ seen[b].source = seen["before"].source
  BY <1>11, <1>12 DEF BuildAccepted, FreshInv
<1>. QED  BY <1>8, <1>10, <1>13 DEF FreshInv

\* What a generation is at the end of its reads.
LEMMA GenerationAtEnd ==
  ASSUME GenerationInv, tool = "generation", at # 0, at = Ending,
         NEW chain, chain = asked.chain
  PROVE  /\ chain = SubSeq(Proofs, 1, Len(chain))
         /\ \A i \in 2..Len(chain) :
              seen[chain[i]].saw[chain[i - 1]] = seen[chain[i - 1]].id
         /\ seen["attest"].signer = "ci"
         /\ seen["attest"].saw[chain[Len(chain)]] = seen[chain[Len(chain)]].id
<1>1. /\ IsChain(chain)
      /\ Continuous(chain, seen)
      /\ seen["attest"].signer = "ci"
      /\ seen["attest"].saw[chain[Len(chain)]] = seen[chain[Len(chain)]].id
  BY DEF GenerationInv
<1>. QED  BY <1>1, ChainFacts DEF Continuous

\* A result is written at the end of the reads and passes only for what was read.
LEMMA WriteHolds ==
  ASSUME R01Inv, WriteOver \/ WriteOnce
  PROVE  R01Inv'
<1>1. /\ at # 0 /\ at = Ending
      /\ Over /\ UNCHANGED <<tool, campaignVars>>
      /\ Written \/ UNCHANGED result
  BY DEF WriteOver, WriteOnce
<1>2. /\ WriteInv /\ TrailInv /\ OrderInv /\ FreshInv /\ RollbackInv /\ GenerationInv
      /\ ResultInv
  BY DEF R01Inv
<1>3. CASE UNCHANGED result
  BY <1>1, <1>2, <1>3, OverKeeps, ResultStays DEF R01Inv
<1>4. CASE result'.status # "passed"
  <2>1. ResultInv'
    BY <1>4 DEF ResultInv, PassedBy, FreshIsOneBuild, RollbackIsObserved, GenerationIsDurable
  <2>. QED  BY <1>1, <2>1, OverKeeps DEF R01Inv
<1>5. CASE Written /\ result'.status = "passed"
  <2>1. /\ Status = "passed"
        /\ result' = [status |-> "passed", asked |-> asked, seen |-> seen]
    <3>1. \/ /\ Status = "passed"
             /\ result' = [status |-> Status, asked |-> asked, seen |-> seen]
          \/ /\ Status # "passed"
             /\ result' = [status |-> Status]
          \/ result' = Torn
      BY <1>5, Zenon DEF Written
    <3>. QED  BY <1>5, <3>1 DEF Torn
  <2>2. ~failed /\ asked.status = "proof"
    BY <2>1 DEF Status
  <2>3. result'.asked = asked /\ result'.seen = seen /\ UNCHANGED tool
    BY <1>1, <2>1
  <2>4. FreshIsOneBuild'
    <3>1. CASE tool = "fresh"
      <4>1. Proving("fresh") /\ at = 13
        BY <1>1, <2>2, <3>1, StepsAskedAre DEF Proving
      <4>. QED  BY <1>2, <2>3, <4>1, FreshAtEnd DEF FreshIsOneBuild
    <3>. QED  BY <2>3, <3>1 DEF FreshIsOneBuild, PassedBy
  <2>5. RollbackIsObserved'
    <3>1. CASE tool = "rollback"
      <4>1. Proving("rollback") /\ at = 8
        BY <1>1, <2>2, <3>1, StepsAskedAre DEF Proving
      <4>2. /\ seen["verify"].signer # "test"
            /\ \A i \in 4..7 :
                 seen[RollbackSteps[i]].id = seen["observe"].saw[RollbackSteps[i]]
        BY <1>2, <4>1 DEF RollbackInv
      <4>3. \A a \in ToSet(ArtifactTypes) : seen["observe"].saw[a] = seen[a].id
        <5>1. \A a \in ToSet(ArtifactTypes) : \E i \in 4..7 : a = RollbackSteps[i]
          BY Tuples DEF RollbackSteps
        <5>. QED  BY <4>2, <5>1
      <4>. QED  BY <2>3, <4>2, <4>3 DEF RollbackIsObserved
    <3>. QED  BY <2>3, <3>1 DEF RollbackIsObserved, PassedBy
  <2>6. GenerationIsDurable'
    <3>1. CASE tool = "generation"
      <4>1. PICK chain : chain = asked.chain
        OBVIOUS
      <4>2. /\ chain = SubSeq(Proofs, 1, Len(chain))
            /\ \A i \in 2..Len(chain) :
                 seen[chain[i]].saw[chain[i - 1]] = seen[chain[i - 1]].id
            /\ seen["attest"].signer = "ci"
            /\ seen["attest"].saw[chain[Len(chain)]] = seen[chain[Len(chain)]].id
        BY <1>1, <1>2, <3>1, <4>1, GenerationAtEnd
      <4>. QED  BY <2>3, <4>1, <4>2 DEF GenerationIsDurable
    <3>. QED  BY <2>3, <3>1 DEF GenerationIsDurable, PassedBy
  <2>. QED  BY <1>1, <2>4, <2>5, <2>6, OverKeeps DEF R01Inv, ResultInv
<1>. QED  BY <1>1, <1>3, <1>4, <1>5

\* Every step keeps the invariant.
LEMMA NextHolds ==
  ASSUME R01Inv, [R01Next]_r01Vars
  PROVE  R01Inv'
<1>1. CASE RunKilled
  <2>1. Over /\ UNCHANGED <<tool, campaignVars, result>>
    BY <1>1 DEF RunKilled
  <2>. QED  BY <2>1, OverKeeps, ResultStays DEF R01Inv
<1>2. CASE UNCHANGED r01Vars
  <2>1. UNCHANGED <<tool, evidence, request, writes, at, asked, seen, failed, result>>
    BY <1>2 DEF r01Vars, campaignVars, validatorVars
  <2>2. WriteInv'
    BY <2>1, ReadKeeps DEF R01Inv
  <2>3. TrailInv' /\ OrderInv' /\ FreshInv' /\ RollbackInv'
    BY <2>1 DEF R01Inv, TrailInv, OrderInv, FreshInv, RollbackInv, Proving, BuildAccepted
  <2>4. GenerationInv'
    BY <2>1 DEF R01Inv, GenerationInv, Continuous, IsChain, Ending, StepsAsked
  <2>5. ResultInv'
    BY <2>1, ResultStays DEF R01Inv
  <2>. QED  BY <2>2, <2>3, <2>4, <2>5 DEF R01Inv
<1>. QED  BY <1>1, <1>2, CampaignKeeps, BeginKeeps, ReadHolds, WriteHolds DEF R01Next

\* R01Inv holds throughout.
LEMMA R01Invariant == R01Spec => []R01Inv
<1>1. R01Init => R01Inv
  BY InitHolds
<1>2. R01Inv /\ [R01Next]_r01Vars => R01Inv'
  BY NextHolds
<1>. QED  BY <1>1, <1>2, PTL DEF R01Spec
-----------------------------------------------------------------------------
(* The theorems *)

\* A fresh build that verify-r01-fresh-build.py passes is one build: its project
\* was generated where none was, both bundles are of that project and of one
\* source, and CI attested them as they were read, however often the build was run
\* again, cleaned or attested while the validator read.
THEOREM PassedBuildIsOne == R01Spec => []FreshIsOneBuild
<1>1. R01Inv => FreshIsOneBuild
  BY DEF R01Inv, ResultInv
<1>. QED  BY <1>1, R01Invariant, PTL

\* The artifacts of a rollback that validate-r01-runtime-rollback.py passes are all
\* of one observation.  A production key signed it, for whichever gate, unless its
\* receipt was replaced between verify_envelope's read and the one after it.
THEOREM PassedRollbackWasObserved == R01Spec => []RollbackIsObserved
<1>1. R01Inv => RollbackIsObserved
  BY DEF R01Inv, ResultInv
<1>. QED  BY <1>1, R01Invariant, PTL

\* A generation that validate-r01-generation-classification.py passes as durable is
\* the tip of a chain that starts at the first proof, each made on top of the one
\* before it, whichever proof was made again meanwhile.
THEOREM PassedGenerationIsDurable == R01Spec => []GenerationIsDurable
<1>1. R01Inv => GenerationIsDurable
  BY DEF R01Inv, ResultInv
<1>. QED  BY <1>1, R01Invariant, PTL
=============================================================================
