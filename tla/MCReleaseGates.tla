--------------------------- MODULE MCReleaseGates ---------------------------
(* The gates of a release, checked in one run: in each behaviour either the *)
(* readiness verifier or the update feed moves.                             *)
EXTENDS ReceiptReadiness, AppcastFeed

VARIABLE part

MCInit ==
  /\ part \in {"receipts", "feed"}
  /\ ReceiptInit /\ FeedInit
  /\ part = "feed" => HeadOf("macRoot") = "provisioned"

MCNext ==
  \/ part = "receipts" /\ ReceiptNext /\ UNCHANGED <<part, feedVars>>
  \/ part = "feed" /\ FeedNext /\ UNCHANGED <<part, receiptVars>>

MCSpec == MCInit /\ [][MCNext]_<<part, receiptVars, feedVars>>
=============================================================================
