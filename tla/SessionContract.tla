--------------------------- MODULE SessionContract ---------------------------
(***************************************************************************)
(* What a sender promises the code around it (the controller, the capture  *)
(* and encode pipelines), whatever the network does.  A stream is used     *)
(* only after it was authenticated; losing it goes through "offline" before*)
(* a new handshake starts; the controller is told that the device is gone  *)
(* only about a sender that did stream and is not streaming; and an ended  *)
(* sender never comes back.                                                *)
(*                                                                         *)
(* The one exception the code has is `overlapped`: once Reconnect was      *)
(* pressed while a retry was pending, a second chain of retries may replace*)
(* a stream that works by one that is not authenticated yet.               *)
(***************************************************************************)
VARIABLES phase, everStreamed, notified, overlapped

vars == <<phase, everStreamed, notified, overlapped>>

Phases == {"offline", "authenticating", "streaming", "ended"}

Init ==
    /\ phase = "offline"
    /\ everStreamed = FALSE
    /\ notified = FALSE
    /\ overlapped = FALSE

OpenStream ==
    /\ phase = "offline" \/ (overlapped /\ phase = "streaming")
    /\ phase' = "authenticating"
    /\ UNCHANGED <<everStreamed, notified, overlapped>>

Accept ==
    /\ phase = "authenticating"
    /\ phase' = "streaming"
    /\ everStreamed' = TRUE
    /\ UNCHANGED <<notified, overlapped>>

\* Losing the stream may be the failure past the grace that ends the session.
Lose ==
    /\ phase \in {"authenticating", "streaming"}
    /\ phase' = "offline"
    /\ \/ UNCHANGED notified
       \/ notified' = TRUE /\ everStreamed /\ phase # "streaming"
    /\ UNCHANGED overlapped \/ overlapped' = TRUE
    /\ UNCHANGED everStreamed

GiveUp ==
    /\ phase \in {"offline", "authenticating"} /\ everStreamed
    /\ notified' = TRUE
    /\ UNCHANGED <<phase, everStreamed, overlapped>>

Overlap ==
    /\ phase # "ended"
    /\ overlapped' = TRUE
    /\ UNCHANGED <<phase, everStreamed, notified>>

End ==
    /\ phase' = "ended"
    /\ UNCHANGED <<everStreamed, notified, overlapped>>

Next == OpenStream \/ Accept \/ Lose \/ GiveUp \/ Overlap \/ End

Spec == Init /\ [][Next]_vars
=============================================================================
