------------------------- MODULE MCSenderController -------------------------
(* Model-checking instances of SenderController.                            *)
EXTENDS SenderController
=============================================================================
