-------------------------- MODULE MCVideoPipeline --------------------------
(* The two halves of MacSender's video path, checked in one run: in each    *)
(* behaviour either frames are admitted, encoded and sent, or the capture   *)
(* is built and rebuilt.                                                    *)
EXTENDS FrameAdmission, CaptureReconfigure

VARIABLE part

MCInit ==
  /\ part \in {"frames", "capture"}
  /\ Init /\ CaptureInit

MCNext ==
  \/ part = "frames" /\ Next /\ UNCHANGED <<part, captureVars>>
  \/ part = "capture" /\ CaptureNext /\ UNCHANGED <<part, vars>>

\* Fairness of the frames' part only, as in FairSpec: no property of the capture
\* needs any.
MCSpec ==
  /\ MCInit /\ [][MCNext]_<<part, vars, captureVars>>
  /\ WF_vars(EncodeOutput) /\ WF_vars(SendCompleted)
=============================================================================
