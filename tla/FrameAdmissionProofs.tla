------------------------- MODULE FrameAdmissionProofs -------------------------
(***************************************************************************)
(* Proofs about FrameAdmission for every size of the two gates and every   *)
(* bound on replays.  IInv strengthens the invariants of the module with   *)
(* what ties the counters to the flights they count; it is shown inductive *)
(* action by action.                                                       *)
(***************************************************************************)
EXTENDS FrameAdmission, SequenceTheorems, TLAPS

\* A stopped sender has no connection, and a rebuild has no encoder.
PhaseInv ==
    /\ stopping = "done" => link = "none"
    /\ rebuilding => ~encoder

\* The send gate is exact on every connection, the lost ones included.
SendInv == ~replaced /\ stopping # "done" => pendingSends = sends

\* The encode gate is exact in both directions while it can admit a frame;
\* EncodesNotOvercounted is one half.
EncodeInv == ~carried /\ encoder /\ stopping # "done" => Len(encodes) <= pendingEncodes

Forced(s) == \A i \in 1..Len(s) : s[i] = TRUE

\* Before a session is bound nothing of this generation is in the encoder, and
\* until its first keyframe is sent, every frame was forced and the next will be.
SyncInv ==
    ~replaced /\ stopping # "done" =>
        /\ link \in {"none", "open"} => encodes = <<>>
        /\ link = "usable" /\ ~synced =>
              needsKeyframe = TRUE /\ Forced(encodes)

\* While a keyframe is owed, every frame in the encoder was forced and the next
\* one will be.
KeyInv == owed => needsKeyframe = TRUE /\ Forced(encodes)

IInv ==
    /\ TypeOK
    /\ PhaseInv
    /\ SendInv
    /\ EncodeInv
    /\ EncodesNotOvercounted
    /\ BacklogBounded
    /\ SyncInv
    /\ FirstFrameIsKeyframe
    /\ KeyInv

-----------------------------------------------------------------------------

\* The queue of frames in the encoder when one is added.
LEMMA Appended ==
  ASSUME NEW s \in Seq(BOOLEAN), NEW b \in BOOLEAN
  PROVE  /\ Append(s, b) \in Seq(BOOLEAN)
         /\ Len(Append(s, b)) = Len(s) + 1
         /\ Append(s, b) # <<>>
  BY AppendProperties

\* The queue when its head is taken.
LEMMA Taken ==
  ASSUME NEW s \in Seq(BOOLEAN), s # <<>>
  PROVE  /\ Tail(s) \in Seq(BOOLEAN)
         /\ Len(s) \in Nat \ {0}
         /\ Len(Tail(s)) = Len(s) - 1
         /\ Head(s) \in BOOLEAN
  BY HeadTailProperties, EmptySeq, LenProperties

\* The queue when its end is lost.
LEMMA Shortened ==
  ASSUME NEW s \in Seq(BOOLEAN), NEW k \in 0..Len(s)
  PROVE  /\ SubSeq(s, 1, k) \in Seq(BOOLEAN)
         /\ Len(SubSeq(s, 1, k)) = k
         /\ \A i \in 1..k : SubSeq(s, 1, k)[i] = s[i]
  BY SubSeqProperties, LenProperties

\* The same for a queue of forced frames.
LEMMA ForcedAppended ==
  ASSUME NEW s \in Seq(BOOLEAN), Forced(s)
  PROVE  Forced(Append(s, TRUE))
  BY AppendProperties DEF Forced

\* A queue of forced frames when its head is taken.
LEMMA ForcedTaken ==
  ASSUME NEW s \in Seq(BOOLEAN), s # <<>>, Forced(s)
  PROVE  Forced(Tail(s)) /\ Head(s) = TRUE
<1>1. Len(s) \in Nat \ {0} /\ Len(Tail(s)) = Len(s) - 1
  BY Taken
<1>2. \A i \in 1..Len(Tail(s)) : Tail(s)[i] = s[i + 1]
  BY HeadTailProperties
<1>3. Forced(Tail(s))
  BY <1>1, <1>2 DEF Forced
<1>4. Head(s) = s[1]
  BY <1>1, HeadTailOfSubSeq, SubSeqFull
<1>5. 1 \in 1..Len(s)
  BY <1>1
<1>6. s[1] = TRUE
  BY <1>5, Zenon DEF Forced
<1>7. QED
  BY <1>3, <1>4, <1>6, Zenon

\* A queue of forced frames when its end is lost.
LEMMA ForcedShortened ==
  ASSUME NEW s \in Seq(BOOLEAN), NEW k \in 0..Len(s), Forced(s)
  PROVE  Forced(SubSeq(s, 1, k)) /\ (s = <<>> => SubSeq(s, 1, k) = <<>>)
  BY Shortened, EmptySeq, LenProperties DEF Forced

\* Every handler keeps the counters and the queue of the encoder in range.
LEMMA CountStep ==
  ASSUME TypeOK, [Next]_vars
  PROVE  CountTypes'
<1> USE LimitsAssumption DEF TypeOK, CountTypes, DemandTypes, vars, counters, flights, demand, flaws
<1>1. CASE CaptureFrame
  BY <1>1, Appended DEF CaptureFrame, Encode
<1>2. CASE ConversionFails
  BY <1>2 DEF ConversionFails
<1>3. CASE ReplayLastFrame
  <2>1. replays' \in 0..MaxReplays
    BY <1>3 DEF ReplayLastFrame
  <2>2. pendingEncodes' \in Nat
    <3>1. pendingEncodes' = pendingEncodes + 1 \/ pendingEncodes' = pendingEncodes
      BY <1>3, Zenon DEF ReplayLastFrame, Encode
    <3>2. QED
      BY <3>1
  <2>3. encodes' \in Seq(BOOLEAN)
    <3>1. CASE encodes' = Append(encodes, needsKeyframe)
      BY <3>1, Appended
    <3>2. CASE encodes' = encodes
      BY <3>2
    <3>3. QED
      BY <1>3, <3>1, <3>2 DEF ReplayLastFrame, Encode
  <2>4. QED
    BY <1>3, <2>1, <2>2, <2>3 DEF ReplayLastFrame
<1>4. CASE EncodeOutput
  <2>1. encodes' \in Seq(BOOLEAN)
    BY <1>4, Taken DEF EncodeOutput
  <2>2. pendingEncodes' \in Nat
    BY <1>4 DEF EncodeOutput, Less
  <2>3. pendingSends' \in Nat /\ sends' \in Nat
    <3>1. CASE Sent(Head(encodes))
      <4>1. pendingSends' = pendingSends + 1 /\ sends' = sends + 1
        BY <3>1, Zenon DEF Sent
      <4>2. QED
        BY <4>1
    <3>2. CASE NotSent(Head(encodes))
      BY <3>2 DEF NotSent
    <3>3. QED
      BY <1>4, <3>1, <3>2 DEF EncodeOutput
  <2>4. QED
    BY <1>4, <2>1, <2>2, <2>3 DEF EncodeOutput
<1>5. CASE SendCompleted
  BY <1>5 DEF SendCompleted, Less
<1>6. CASE KeyframeRequested
  BY <1>6 DEF KeyframeRequested
<1>7. CASE Opened
  BY <1>7 DEF Opened
<1>8. CASE Bound
  BY <1>8 DEF Bound
<1>9. CASE Unusable
  BY <1>9 DEF Unusable
<1>10. CASE ScheduleReconnect
  BY <1>10, EmptySeq DEF ScheduleReconnect
<1>11. CASE Overlapped
  <2>1. encodes' \in Seq(BOOLEAN) /\ sends' \in Nat
    <3>1. CASE sends' = 0 /\ UNCHANGED encodes
      BY <3>1
    <3>2. CASE encodes' = <<>> /\ UNCHANGED sends
      BY <3>2, EmptySeq
    <3>3. QED
      BY <1>11, <3>1, <3>2 DEF Overlapped
  <2>2. QED
    BY <1>11, <2>1 DEF Overlapped
<1>12. CASE Stop
  BY <1>12 DEF Stop
<1>13. CASE StopOnQueue
  BY <1>13 DEF StopOnQueue
<1>14. CASE Teardown
  BY <1>14, Shortened DEF Teardown
<1>15. CASE SetupEncoder
  BY <1>15 DEF SetupEncoder, Less
<1>16. CASE SetupFails
  BY <1>16 DEF SetupFails
<1>17. CASE UNCHANGED vars
  BY <1>17
<1>18. QED
  BY <1>1, <1>2, <1>3, <1>4, <1>5, <1>6, <1>7, <1>8, <1>9,
     <1>10, <1>11, <1>12, <1>13, <1>14, <1>15, <1>16, <1>17 DEF Next

\* Every handler keeps the phases of the connection and the capture in range.
LEMMA PhaseStep ==
  ASSUME TypeOK, [Next]_vars
  PROVE  PhaseTypes'
<1> USE DEF TypeOK, PhaseTypes, vars, counters, flights, demand, flaws
<1>1. CASE CaptureFrame
  BY <1>1 DEF CaptureFrame
<1>2. CASE ConversionFails
  BY <1>2 DEF ConversionFails
<1>3. CASE ReplayLastFrame
  BY <1>3 DEF ReplayLastFrame
<1>4. CASE EncodeOutput
  BY <1>4 DEF EncodeOutput
<1>5. CASE SendCompleted
  BY <1>5 DEF SendCompleted
<1>6. CASE KeyframeRequested
  BY <1>6 DEF KeyframeRequested
<1>7. CASE Opened
  BY <1>7 DEF Opened
<1>8. CASE Bound
  BY <1>8 DEF Bound
<1>9. CASE Unusable
  BY <1>9 DEF Unusable
<1>10. CASE ScheduleReconnect
  BY <1>10 DEF ScheduleReconnect
<1>11. CASE Overlapped
  BY <1>11 DEF Overlapped
<1>12. CASE Stop
  BY <1>12 DEF Stop
<1>13. CASE StopOnQueue
  BY <1>13 DEF StopOnQueue
<1>14. CASE Teardown
  BY <1>14 DEF Teardown
<1>15. CASE SetupEncoder
  BY <1>15 DEF SetupEncoder
<1>16. CASE SetupFails
  BY <1>16 DEF SetupFails
<1>17. CASE UNCHANGED vars
  BY <1>17
<1>18. QED
  BY <1>1, <1>2, <1>3, <1>4, <1>5, <1>6, <1>7, <1>8, <1>9,
     <1>10, <1>11, <1>12, <1>13, <1>14, <1>15, <1>16, <1>17 DEF Next

\* Every handler keeps the demand for keyframes in range.
LEMMA DemandStep ==
  ASSUME TypeOK, [Next]_vars
  PROVE  DemandTypes'
<1> USE DEF TypeOK, CountTypes, DemandTypes, vars, counters, flights, demand, flaws
<1>1. CASE CaptureFrame
  BY <1>1 DEF CaptureFrame
<1>2. CASE ConversionFails
  BY <1>2 DEF ConversionFails
<1>3. CASE ReplayLastFrame
  BY <1>3 DEF ReplayLastFrame
<1>4. CASE EncodeOutput
  <2>1. Head(encodes) \in BOOLEAN
    BY <1>4, Taken DEF EncodeOutput
  <2>2. CASE Sent(Head(encodes))
    BY <2>1, <2>2, Zenon DEF Sent
  <2>3. CASE NotSent(Head(encodes))
    BY <2>1, <2>3, Zenon DEF NotSent
  <2>4. QED
    BY <1>4, <2>2, <2>3 DEF EncodeOutput
<1>5. CASE SendCompleted
  BY <1>5 DEF SendCompleted
<1>6. CASE KeyframeRequested
  BY <1>6 DEF KeyframeRequested
<1>7. CASE Opened
  BY <1>7 DEF Opened
<1>8. CASE Bound
  BY <1>8 DEF Bound
<1>9. CASE Unusable
  BY <1>9 DEF Unusable
<1>10. CASE ScheduleReconnect
  BY <1>10 DEF ScheduleReconnect
<1>11. CASE Overlapped
  BY <1>11 DEF Overlapped
<1>12. CASE Stop
  BY <1>12 DEF Stop
<1>13. CASE StopOnQueue
  BY <1>13 DEF StopOnQueue
<1>14. CASE Teardown
  BY <1>14 DEF Teardown
<1>15. CASE SetupEncoder
  BY <1>15 DEF SetupEncoder
<1>16. CASE SetupFails
  BY <1>16 DEF SetupFails
<1>17. CASE UNCHANGED vars
  BY <1>17
<1>18. QED
  BY <1>1, <1>2, <1>3, <1>4, <1>5, <1>6, <1>7, <1>8, <1>9,
     <1>10, <1>11, <1>12, <1>13, <1>14, <1>15, <1>16, <1>17 DEF Next

\* A stopped sender stays without a connection, a rebuild without an encoder.
LEMMA StageStep ==
  ASSUME PhaseInv, [Next]_vars
  PROVE  PhaseInv'
<1> USE DEF vars, counters, flights, demand, flaws, PhaseInv
<1>1. CASE CaptureFrame
  BY <1>1 DEF CaptureFrame
<1>2. CASE ConversionFails
  BY <1>2 DEF ConversionFails
<1>3. CASE ReplayLastFrame
  BY <1>3 DEF ReplayLastFrame
<1>4. CASE EncodeOutput
  BY <1>4 DEF EncodeOutput
<1>5. CASE SendCompleted
  BY <1>5 DEF SendCompleted
<1>6. CASE KeyframeRequested
  BY <1>6 DEF KeyframeRequested
<1>7. CASE Opened
  BY <1>7 DEF Opened
<1>8. CASE Bound
  BY <1>8 DEF Bound
<1>9. CASE Unusable
  BY <1>9 DEF Unusable
<1>10. CASE ScheduleReconnect
  BY <1>10 DEF ScheduleReconnect
<1>11. CASE Overlapped
  BY <1>11 DEF Overlapped
<1>12. CASE Stop
  BY <1>12 DEF Stop
<1>13. CASE StopOnQueue
  BY <1>13 DEF StopOnQueue
<1>14. CASE Teardown
  BY <1>14 DEF Teardown
<1>15. CASE SetupEncoder
  BY <1>15 DEF SetupEncoder
<1>16. CASE SetupFails
  BY <1>16 DEF SetupFails
<1>17. CASE UNCHANGED vars
  BY <1>17
<1>18. QED
  BY <1>1, <1>2, <1>3, <1>4, <1>5, <1>6, <1>7, <1>8, <1>9,
     <1>10, <1>11, <1>12, <1>13, <1>14, <1>15, <1>16, <1>17 DEF Next

\* Every send raises the gate, every completion lowers it, and whoever forgets
\* the one forgets the other.
LEMMA SendStep ==
  ASSUME TypeOK, SendInv, [Next]_vars
  PROVE  SendInv'
<1> USE DEF vars, counters, flights, demand, flaws, TypeOK, CountTypes,
     PhaseTypes, SendInv
<1>1. CASE CaptureFrame
  BY <1>1 DEF CaptureFrame
<1>2. CASE ConversionFails
  BY <1>2 DEF ConversionFails
<1>3. CASE ReplayLastFrame
  BY <1>3 DEF ReplayLastFrame
<1>4. CASE EncodeOutput
  <2>1. CASE Sent(Head(encodes))
    <3>1. pendingSends' = pendingSends + 1 /\ sends' = sends + 1
      BY <2>1, Zenon DEF Sent
    <3>2. QED
      BY <1>4, <3>1 DEF EncodeOutput
  <2>2. CASE NotSent(Head(encodes))
    BY <1>4, <2>2 DEF EncodeOutput, NotSent
  <2>3. QED
    BY <1>4, <2>1, <2>2 DEF EncodeOutput
<1>5. CASE SendCompleted
  BY <1>5 DEF SendCompleted, Less
<1>6. CASE KeyframeRequested
  BY <1>6 DEF KeyframeRequested
<1>7. CASE Opened
  BY <1>7 DEF Opened
<1>8. CASE Bound
  BY <1>8 DEF Bound
<1>9. CASE Unusable
  BY <1>9 DEF Unusable
<1>10. CASE ScheduleReconnect
  BY <1>10 DEF ScheduleReconnect
<1>11. CASE Overlapped
  BY <1>11 DEF Overlapped
<1>12. CASE Stop
  BY <1>12 DEF Stop
<1>13. CASE StopOnQueue
  BY <1>13 DEF StopOnQueue
<1>14. CASE Teardown
  BY <1>14 DEF Teardown
<1>15. CASE SetupEncoder
  BY <1>15 DEF SetupEncoder
<1>16. CASE SetupFails
  BY <1>16 DEF SetupFails
<1>17. CASE UNCHANGED vars
  BY <1>17
<1>18. QED
  BY <1>1, <1>2, <1>3, <1>4, <1>5, <1>6, <1>7, <1>8, <1>9,
     <1>10, <1>11, <1>12, <1>13, <1>14, <1>15, <1>16, <1>17 DEF Next

\* While it can admit a frame, the encode gate counts what is in the encoder.
LEMMA EncodeStep ==
  ASSUME TypeOK, PhaseInv, EncodeInv, EncodesNotOvercounted, [Next]_vars
  PROVE  EncodeInv' /\ EncodesNotOvercounted'
<1> USE DEF vars, counters, flights, demand, flaws, TypeOK, CountTypes,
     PhaseTypes, PhaseInv, EncodeInv, EncodesNotOvercounted
<1>0. Len(encodes) \in Nat /\ Len(<<>>) = 0
  BY LenProperties, EmptySeq
<1>1. CASE CaptureFrame
  <2>1. CASE encodes' = Append(encodes, needsKeyframe) /\ pendingEncodes' = pendingEncodes + 1
    <3>1. Len(encodes') = Len(encodes) + 1
      BY <2>1, Appended DEF DemandTypes
    <3>2. QED
      BY <1>1, <2>1, <3>1 DEF CaptureFrame
  <2>2. CASE encodes' = encodes /\ pendingEncodes' = pendingEncodes
    BY <1>1, <2>2 DEF CaptureFrame
  <2>3. QED
    BY <1>1, <2>1, <2>2 DEF CaptureFrame, Encode
<1>2. CASE ConversionFails
  BY <1>2 DEF ConversionFails
<1>3. CASE ReplayLastFrame
  <2>1. CASE encodes' = Append(encodes, needsKeyframe) /\ pendingEncodes' = pendingEncodes + 1
    <3>1. Len(encodes') = Len(encodes) + 1
      BY <2>1, Appended DEF DemandTypes
    <3>2. QED
      BY <1>3, <2>1, <3>1 DEF ReplayLastFrame
  <2>2. CASE encodes' = encodes /\ pendingEncodes' = pendingEncodes
    BY <1>3, <2>2 DEF ReplayLastFrame
  <2>3. QED
    BY <1>3, <2>1, <2>2 DEF ReplayLastFrame, Encode
<1>4. CASE EncodeOutput
  <2>1. Len(encodes') = Len(encodes) - 1 /\ Len(encodes) > 0
    BY <1>4, Taken DEF EncodeOutput
  <2>2. /\ pendingEncodes' = Less(pendingEncodes)
        /\ UNCHANGED <<encoder, stopping, replaced, carried>>
    BY <1>4 DEF EncodeOutput
  <2>3. QED
    BY <1>0, <2>1, <2>2 DEF Less
<1>5. CASE SendCompleted
  BY <1>5 DEF SendCompleted
<1>6. CASE KeyframeRequested
  BY <1>6 DEF KeyframeRequested
<1>7. CASE Opened
  BY <1>7 DEF Opened
<1>8. CASE Bound
  BY <1>8 DEF Bound
<1>9. CASE Unusable
  BY <1>9 DEF Unusable
<1>10. CASE ScheduleReconnect
  BY <1>0, <1>10 DEF ScheduleReconnect
<1>11. CASE Overlapped
  BY <1>11 DEF Overlapped
<1>12. CASE Stop
  BY <1>12 DEF Stop
<1>13. CASE StopOnQueue
  BY <1>13 DEF StopOnQueue
<1>14. CASE Teardown
  BY <1>14 DEF Teardown
<1>15. CASE SetupEncoder
  BY <1>0, <1>15 DEF SetupEncoder
<1>16. CASE SetupFails
  BY <1>16 DEF SetupFails
<1>17. CASE UNCHANGED vars
  BY <1>17
<1>18. QED
  BY <1>1, <1>2, <1>3, <1>4, <1>5, <1>6, <1>7, <1>8, <1>9,
     <1>10, <1>11, <1>12, <1>13, <1>14, <1>15, <1>16, <1>17 DEF Next

\* Only an admission or a replay adds to the backlog.
LEMMA BacklogStep ==
  ASSUME TypeOK, EncodeInv, BacklogBounded, [Next]_vars
  PROVE  BacklogBounded'
<1> USE DEF vars, counters, flights, demand, flaws, TypeOK, CountTypes,
     PhaseTypes, EncodeInv, BacklogBounded, GateOpen
<1> USE LimitsAssumption
<1>0. Len(encodes) \in Nat /\ Len(<<>>) = 0
  BY LenProperties, EmptySeq
<1>1. CASE CaptureFrame
  <2>1. CASE encodes' = Append(encodes, needsKeyframe) /\ pendingEncodes' = pendingEncodes + 1
    <3>1. Len(encodes') = Len(encodes) + 1
      BY <2>1, Appended DEF DemandTypes
    <3>2. QED
      BY <1>1, <2>1, <3>1 DEF CaptureFrame
  <2>2. CASE encodes' = encodes /\ pendingEncodes' = pendingEncodes
    BY <1>1, <2>2 DEF CaptureFrame
  <2>3. QED
    BY <1>1, <2>1, <2>2 DEF CaptureFrame, Encode
<1>2. CASE ConversionFails
  BY <1>2 DEF ConversionFails
<1>3. CASE ReplayLastFrame
  <2>1. CASE encodes' = Append(encodes, needsKeyframe) /\ pendingEncodes' = pendingEncodes + 1
    <3>1. Len(encodes') = Len(encodes) + 1
      BY <2>1, Appended DEF DemandTypes
    <3>2. QED
      BY <1>3, <2>1, <3>1 DEF ReplayLastFrame
  <2>2. CASE encodes' = encodes /\ pendingEncodes' = pendingEncodes
    BY <1>3, <2>2 DEF ReplayLastFrame
  <2>3. QED
    BY <1>3, <2>1, <2>2 DEF ReplayLastFrame, Encode
<1>4. CASE EncodeOutput
  <2>1. Len(encodes') = Len(encodes) - 1
    BY <1>4, Taken DEF EncodeOutput
  <2>2. pendingSends' \in {pendingSends, pendingSends + 1}
    <3>1. CASE Sent(Head(encodes))
      BY <3>1, Zenon DEF Sent
    <3>2. CASE NotSent(Head(encodes))
      BY <3>2 DEF NotSent
    <3>3. QED
      BY <1>4, <3>1, <3>2 DEF EncodeOutput
  <2>3. UNCHANGED <<carried, replays>>
    BY <1>4 DEF EncodeOutput
  <2>4. QED
    BY <1>0, <2>1, <2>2, <2>3
<1>5. CASE SendCompleted
  BY <1>0, <1>5 DEF SendCompleted, Less
<1>6. CASE KeyframeRequested
  BY <1>6 DEF KeyframeRequested
<1>7. CASE Opened
  BY <1>7 DEF Opened
<1>8. CASE Bound
  BY <1>8 DEF Bound
<1>9. CASE Unusable
  BY <1>9 DEF Unusable
<1>10. CASE ScheduleReconnect
  BY <1>0, <1>10 DEF ScheduleReconnect
<1>11. CASE Overlapped
  <2>1. Len(encodes') \in {Len(encodes), 0}
    BY <1>0, <1>11 DEF Overlapped
  <2>2. QED
    BY <1>0, <1>11, <2>1 DEF Overlapped
<1>12. CASE Stop
  BY <1>12 DEF Stop
<1>13. CASE StopOnQueue
  BY <1>0, <1>13 DEF StopOnQueue
<1>14. CASE Teardown
  <2>1. Len(encodes') \in 0..Len(encodes)
    BY <1>0, <1>14, Shortened DEF Teardown
  <2>2. QED
    BY <1>0, <1>14, <2>1 DEF Teardown
<1>15. CASE SetupEncoder
  BY <1>0, <1>15 DEF SetupEncoder
<1>16. CASE SetupFails
  BY <1>16 DEF SetupFails
<1>17. CASE UNCHANGED vars
  BY <1>17
<1>18. QED
  BY <1>1, <1>2, <1>3, <1>4, <1>5, <1>6, <1>7, <1>8, <1>9,
     <1>10, <1>11, <1>12, <1>13, <1>14, <1>15, <1>16, <1>17 DEF Next

\* What an earlier session left in the encoder never opens the next one.
LEMMA SyncStep ==
  ASSUME TypeOK, PhaseInv, SyncInv, FirstFrameIsKeyframe, [Next]_vars
  PROVE  SyncInv' /\ FirstFrameIsKeyframe'
<1> USE DEF vars, counters, flights, demand, flaws, TypeOK, CountTypes,
     PhaseTypes, DemandTypes, PhaseInv, SyncInv, FirstFrameIsKeyframe
<1>0. Forced(<<>>)
  BY EmptySeq DEF Forced
<1>1. CASE CaptureFrame
  <2>1. CASE encodes' = encodes
    BY <1>1, <2>1 DEF CaptureFrame, GateOpen
  <2>2. CASE encodes' = Append(encodes, needsKeyframe)
    <3>1. ASSUME ~replaced', stopping' # "done", ~synced'
          PROVE  needsKeyframe' = TRUE /\ Forced(encodes')
      <4>1. needsKeyframe = TRUE /\ Forced(encodes)
        BY <1>1, <3>1 DEF CaptureFrame, GateOpen
      <4>2. Forced(encodes')
        BY <2>2, <4>1, ForcedAppended
      <4>3. QED
        BY <1>1, <4>1, <4>2 DEF CaptureFrame
    <3>2. QED
      BY <1>1, <3>1 DEF CaptureFrame, GateOpen
  <2>3. QED
    BY <1>1, <2>1, <2>2 DEF CaptureFrame, Encode
<1>2. CASE ConversionFails
  BY <1>2 DEF ConversionFails
<1>3. CASE ReplayLastFrame
  <2>1. CASE encodes' = encodes
    BY <1>3, <2>1 DEF ReplayLastFrame
  <2>2. CASE encodes' = Append(encodes, needsKeyframe)
    <3>1. ASSUME ~replaced', stopping' # "done", ~synced'
          PROVE  needsKeyframe' = TRUE /\ Forced(encodes')
      <4>1. needsKeyframe = TRUE /\ Forced(encodes)
        BY <1>3, <3>1 DEF ReplayLastFrame
      <4>2. Forced(encodes')
        BY <2>2, <4>1, ForcedAppended
      <4>3. QED
        BY <1>3, <4>1, <4>2 DEF ReplayLastFrame
    <3>2. QED
      BY <1>3, <3>1 DEF ReplayLastFrame
  <2>3. QED
    BY <1>3, <2>1, <2>2 DEF ReplayLastFrame, Encode
<1>4. CASE EncodeOutput
  <2>1. replaced' = replaced /\ stopping' = stopping /\ link' = link
    BY <1>4 DEF EncodeOutput
  <2>2. CASE replaced
    BY <2>1, <2>2, Zenon
  <2>3. CASE stopping = "done"
    <3>1. ~Sent(Head(encodes))
      BY <2>3 DEF Sent
    <3>2. undecodable' = undecodable
      BY <1>4, <3>1, Zenon DEF EncodeOutput, NotSent
    <3>3. QED
      BY <2>1, <2>3, <3>2
  <2>4. CASE ~replaced /\ stopping # "done"
    <3>1. link \notin {"none", "open"} /\ ~undecodable
      BY <1>4, <2>4 DEF EncodeOutput
    <3>2. link = "usable" /\ ~synced =>
             /\ needsKeyframe = TRUE /\ Forced(encodes')
             /\ Head(encodes) = TRUE
      BY <1>4, <2>4, ForcedTaken DEF EncodeOutput
    <3>3. CASE Sent(Head(encodes))
      <4>1. link = "usable"
        BY <3>3 DEF Sent
      <4>2. synced = TRUE \/ Head(encodes) = TRUE
        BY <3>2, <4>1, Zenon
      <4>3. synced' = TRUE /\ ~undecodable'
        BY <3>1, <3>3, <4>2, Zenon DEF Sent
      <4>4. QED
        BY <2>1, <3>1, <4>3
    <3>4. CASE NotSent(Head(encodes))
      <4>1. synced' = synced /\ undecodable' = undecodable
        BY <3>4, Zenon DEF NotSent
      <4>2. needsKeyframe = TRUE => needsKeyframe' = TRUE
        BY <3>4, Zenon DEF NotSent
      <4>3. QED
        BY <2>1, <3>1, <3>2, <4>1, <4>2, Zenon
    <3>5. QED
      BY <1>4, <3>3, <3>4 DEF EncodeOutput
  <2>5. QED
    BY <2>2, <2>3, <2>4
<1>5. CASE SendCompleted
  BY <1>5 DEF SendCompleted
<1>6. CASE KeyframeRequested
  BY <1>6 DEF KeyframeRequested
<1>7. CASE Opened
  BY <1>7 DEF Opened
<1>8. CASE Bound
  BY <1>0, <1>8 DEF Bound
<1>9. CASE Unusable
  BY <1>9 DEF Unusable
<1>10. CASE ScheduleReconnect
  BY <1>0, <1>10 DEF ScheduleReconnect
<1>11. CASE Overlapped
  BY <1>11 DEF Overlapped
<1>12. CASE Stop
  BY <1>12 DEF Stop
<1>13. CASE StopOnQueue
  BY <1>13 DEF StopOnQueue
<1>14. CASE Teardown
  <2>1. Forced(encodes) => Forced(encodes')
    BY <1>14, ForcedShortened DEF Teardown
  <2>2. encodes = <<>> => encodes' = <<>>
    BY <1>14, ForcedShortened, <1>0 DEF Teardown
  <2>3. QED
    BY <1>14, <2>1, <2>2 DEF Teardown
<1>15. CASE SetupEncoder
  BY <1>15 DEF SetupEncoder
<1>16. CASE SetupFails
  BY <1>16 DEF SetupFails
<1>17. CASE UNCHANGED vars
  BY <1>17
<1>18. QED
  BY <1>1, <1>2, <1>3, <1>4, <1>5, <1>6, <1>7, <1>8, <1>9,
     <1>10, <1>11, <1>12, <1>13, <1>14, <1>15, <1>16, <1>17 DEF Next

\* A keyframe that is owed stays demanded: only the send of a forced frame
\* lowers needsKeyframe, and that settles the debt.
LEMMA KeyStep ==
  ASSUME TypeOK, KeyInv, [Next]_vars
  PROVE  KeyInv'
<1> USE DEF KeyInv, vars, counters, flights, demand, flaws
<1>0. /\ encodes \in Seq(BOOLEAN) /\ needsKeyframe \in BOOLEAN /\ owed \in BOOLEAN
      /\ Forced(<<>>)
  BY EmptySeq DEF TypeOK, CountTypes, DemandTypes, PhaseTypes, Forced
<1>a. ASSUME Encode, owed PROVE Forced(encodes')
  BY <1>0, <1>a, ForcedAppended, Zenon DEF Encode
<1>1. CASE CaptureFrame
  BY <1>1, <1>a, Zenon DEF CaptureFrame
<1>2. CASE ConversionFails
  BY <1>2 DEF ConversionFails
<1>3. CASE ReplayLastFrame
  BY <1>3, <1>a, Zenon DEF ReplayLastFrame
<1>4. CASE EncodeOutput
  <2>1. owed => Forced(encodes') /\ Head(encodes) = TRUE
    BY <1>0, <1>4, ForcedTaken, Zenon DEF EncodeOutput
  <2>2. CASE Sent(Head(encodes))
    BY <2>1, <2>2, Zenon DEF Sent
  <2>3. CASE NotSent(Head(encodes))
    BY <2>1, <2>3, Zenon DEF NotSent
  <2>4. QED
    BY <1>4, <2>2, <2>3 DEF EncodeOutput
<1>5. CASE SendCompleted
  BY <1>5 DEF SendCompleted
<1>6. CASE KeyframeRequested
  <2>1. DOMAIN encodes = 1..Len(encodes)
    BY <1>0, LenProperties
  <2>2. owed' => Forced(encodes)
    BY <1>0, <1>6, <2>1 DEF KeyframeRequested, Forced
  <2>3. QED
    BY <1>6, <2>2 DEF KeyframeRequested
<1>7. CASE Opened
  BY <1>7 DEF Opened
<1>8. CASE Bound
  BY <1>8 DEF Bound
<1>9. CASE Unusable
  BY <1>9 DEF Unusable
<1>10. CASE ScheduleReconnect
  BY <1>10 DEF ScheduleReconnect
<1>11. CASE Overlapped
  BY <1>0, <1>11, Zenon DEF Overlapped
<1>12. CASE Stop
  BY <1>12 DEF Stop
<1>13. CASE StopOnQueue
  BY <1>13 DEF StopOnQueue
<1>14. CASE Teardown
  BY <1>0, <1>14, ForcedShortened DEF Teardown
<1>15. CASE SetupEncoder
  BY <1>15 DEF SetupEncoder
<1>16. CASE SetupFails
  BY <1>16 DEF SetupFails
<1>17. CASE UNCHANGED vars
  BY <1>17
<1>18. QED
  BY <1>1, <1>2, <1>3, <1>4, <1>5, <1>6, <1>7, <1>8, <1>9,
     <1>10, <1>11, <1>12, <1>13, <1>14, <1>15, <1>16, <1>17 DEF Next

-----------------------------------------------------------------------------

\* A sender that starts has nothing in flight.
LEMMA InitInv == Init => IInv
<1> SUFFICES ASSUME Init PROVE IInv
  OBVIOUS
<1> USE LimitsAssumption, EmptySeq DEF Init
<1>1. TypeOK
  <2>1. CountTypes
    BY DEF CountTypes
  <2>2. PhaseTypes /\ DemandTypes
    BY DEF PhaseTypes, DemandTypes
  <2>3. QED
    BY <2>1, <2>2 DEF TypeOK
<1>2. PhaseInv /\ SendInv /\ EncodeInv /\ EncodesNotOvercounted
  BY DEF PhaseInv, SendInv, EncodeInv, EncodesNotOvercounted
<1>3. BacklogBounded /\ SyncInv /\ FirstFrameIsKeyframe /\ KeyInv
  BY DEF BacklogBounded, SyncInv, FirstFrameIsKeyframe, KeyInv
<1>4. QED
  BY <1>1, <1>2, <1>3 DEF IInv

\* Every step keeps the invariant.
LEMMA InvStep == IInv /\ [Next]_vars => IInv'
  BY CountStep, PhaseStep, DemandStep, StageStep, SendStep, EncodeStep, BacklogStep,
     SyncStep, KeyStep DEF IInv, TypeOK

\* IInv holds throughout.
LEMMA Inductive == Spec => []IInv
  BY InitInv, InvStep, PTL DEF Spec

\* On the connection in use, pendingSends is the number of sends whose
\* completion is due.
LEMMA SendsAreCounted == IInv => SendsCountedUnlessReplaced
  BY DEF IInv, PhaseInv, SendInv, SendsCountedUnlessReplaced, SendsCounted

\* Every variable of the video path stays in its range.
THEOREM TypeCorrect == Spec => []TypeOK
  BY Inductive, PTL DEF IInv

\* The send gate (sendFramed and its completion) is exact on the connection in use.
THEOREM SendGateExact == Spec => []SendsCountedUnlessReplaced
  BY Inductive, SendsAreCounted, PTL

\* The encode gate never counts a frame whose output handler will not run.
THEOREM EncodeGateNotOver == Spec => []EncodesNotOvercounted
  BY Inductive, PTL DEF IInv

\* The two gates bound the frames that are queued, whatever their sizes.
THEOREM Bounded == Spec => []BacklogBounded
  BY Inductive, PTL DEF IInv

\* Every session opens with a keyframe, whatever was left in the encoder.
THEOREM KeyframeFirst == Spec => []FirstFrameIsKeyframe
  BY Inductive, PTL DEF IInv

\* A keyframe the receiver asked for is in the encoder or will be next, whatever
\* encodes or sends fail, unless an unforced frame was in the encoder already.
THEOREM KeyframeKept == Spec => []KeyframeDemandKept
<1>1. KeyInv => KeyframeDemandKept
  BY DEF KeyInv, KeyframeDemandKept
<1>2. QED
  BY Inductive, <1>1, PTL DEF IInv
=============================================================================
