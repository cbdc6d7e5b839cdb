--------------------------- MODULE FrameAdmission ---------------------------
(***************************************************************************)
(* The video path of MacSender (Mac/MacSender.swift): a captured frame is  *)
(* admitted by VideoAdmissionPolicy, handed to the encoder, and its output *)
(* is framed and sent.  Two counters shed frames instead of queueing them  *)
(* (pendingEncodes, pendingSends), dialGeneration fences off what an       *)
(* earlier connection left behind, and needsKeyframe carries the demand    *)
(* for an IDR frame.                                                       *)
(*                                                                         *)
(* Everything but the capture rebuild runs on the serial queue             *)
(* "sender.video"; reconfigure() and setupEncoder() run on a Swift task and*)
(* write the same fields, which is a data race with the output handlers.   *)
(* reserve, convert and admit are one block of the queue, so               *)
(* pendingFrameAdmissions is zero between steps and is left out.           *)
(***************************************************************************)
EXTENDS Integers, Sequences

CONSTANTS
    MaxPendingSends,   \* 3, or 6 above 60 frames a second
    EncodeDepth,       \* 3, the literal in VideoAdmissionPolicy.evaluate
    MaxReplays         \* bound on frames the watchdog replays

ASSUME LimitsAssumption ==
    /\ MaxPendingSends \in Nat \ {0} /\ EncodeDepth \in Nat \ {0}
    /\ MaxReplays \in Nat

VARIABLES
    link,              \* "none", "open" (greeted, not bound), "usable", "dead"
    encoder,           \* a configured compression session exists
    rebuilding,        \* reconfigure() tore the capture down and has not ended
    pendingEncodes,
    pendingSends,
    needsKeyframe,
    lastPixelBuffer,   \* a frame is kept for replay
    stopping,          \* "no", "requested", "done", as in SenderConnection
    encodes,           \* frames in the encoder whose handler is of this generation:
                       \* whether each was forced to be a keyframe
    sends,             \* sends on self.connection whose completion is due
    owed,              \* history: an IDR was asked for, with no other frame under way
    synced,            \* history: this session was sent a keyframe
    undecodable,       \* history: a session's first frame was not a keyframe
    replaced,          \* history: a second retry chain replaced a usable stream
    carried,           \* history: setupEncoder ran while output handlers were due
    replays            \* what was used of MaxReplays

counters == <<pendingEncodes, pendingSends>>
flights  == <<encodes, sends>>
demand   == <<owed, synced, undecodable>>
flaws    == <<replaced, carried>>
vars == <<link, encoder, rebuilding, counters, needsKeyframe, lastPixelBuffer,
          stopping, flights, demand, flaws, replays>>

Less(n) == IF n = 0 THEN 0 ELSE n - 1          \* max(0, n - 1)

Init ==
    /\ link = "none"
    /\ encoder = FALSE
    /\ rebuilding = TRUE                       \* start() builds the first capture
    /\ pendingEncodes = 0 /\ pendingSends = 0
    /\ needsKeyframe = TRUE
    /\ lastPixelBuffer = FALSE
    /\ stopping = "no"
    /\ encodes = <<>> /\ sends = 0
    /\ owed = FALSE /\ synced = FALSE /\ undecodable = FALSE
    /\ replaced = FALSE /\ carried = FALSE
    /\ replays = 0

-----------------------------------------------------------------------------
(* Admission and encoding                                                   *)

\* Mutant: an off-by-one in the send gate.
GateOpenOneMore ==
    /\ stopping = "no"
    /\ link = "usable"
    /\ encoder
    /\ pendingSends <= MaxPendingSends
    /\ pendingEncodes < EncodeDepth

\* VideoAdmissionPolicy.evaluate; its pacing clause is the choice of when a
\* frame is captured.
GateOpen ==
    /\ stopping = "no"
    /\ link = "usable"
    /\ encoder
    /\ pendingSends < MaxPendingSends
    /\ pendingEncodes < EncodeDepth

\* Mutant: only a frame that finds the encoder empty is forced.
EncodeForcesFirst ==
    \/ /\ pendingEncodes' = pendingEncodes + 1
       /\ encodes' = Append(encodes, needsKeyframe /\ encodes = <<>>)
    \/ UNCHANGED <<pendingEncodes, encodes>>

\* encode(): accepted by VideoToolbox, or refused in the call itself.
Encode ==
    \/ /\ pendingEncodes' = pendingEncodes + 1
       /\ encodes' = Append(encodes, needsKeyframe)
    \/ UNCHANGED <<pendingEncodes, encodes>>

CaptureFrame ==
    /\ GateOpen
    /\ lastPixelBuffer' = TRUE
    /\ Encode
    /\ UNCHANGED <<link, encoder, rebuilding, pendingSends, needsKeyframe,
                   stopping, sends, demand, flaws, replays>>

\* The CGDisplayStream backend could not convert an admitted frame.
ConversionFails ==
    /\ GateOpen
    /\ needsKeyframe' = TRUE
    /\ UNCHANGED <<link, encoder, rebuilding, counters, lastPixelBuffer,
                   stopping, flights, demand, flaws, replays>>

\* The watchdog replays the last frame of a static screen, past the gate.
ReplayLastFrame ==
    /\ stopping = "no"
    /\ link = "usable" /\ needsKeyframe /\ lastPixelBuffer
    /\ encoder
    /\ replays < MaxReplays
    /\ replays' = replays + 1
    /\ Encode
    /\ UNCHANGED <<link, encoder, rebuilding, pendingSends, needsKeyframe,
                   lastPixelBuffer, stopping, sends, demand, flaws>>

-----------------------------------------------------------------------------
(* The output handler of the oldest frame, on the queue.                    *)

\* sendFramed() took the frame; `forced` frames are keyframes.
Sent(forced) ==
    /\ link = "usable"
    /\ pendingSends' = pendingSends + 1
    /\ sends' = sends + 1
    /\ needsKeyframe' = FALSE
    /\ owed' = (owed /\ ~forced)
    /\ synced' = (synced \/ forced)
    /\ undecodable' = (undecodable \/ ~(synced \/ forced))

\* Encoding or framing failed, or sendFramed() had no usable connection.
NotSent(forced) ==
    /\ needsKeyframe' = (needsKeyframe \/ forced)
    /\ UNCHANGED <<pendingSends, sends, demand>>

EncodeOutput ==
    /\ encodes # <<>>
    /\ encodes' = Tail(encodes)
    /\ pendingEncodes' = Less(pendingEncodes)
    /\ Sent(Head(encodes)) \/ NotSent(Head(encodes))
    /\ UNCHANGED <<link, encoder, rebuilding, lastPixelBuffer, stopping, flaws, replays>>

\* The completion of a send on self.connection, with or without an error.
SendCompleted ==
    /\ sends > 0
    /\ sends' = sends - 1
    /\ pendingSends' = Less(pendingSends)
    /\ UNCHANGED <<link, encoder, rebuilding, pendingEncodes, needsKeyframe,
                   lastPixelBuffer, stopping, encodes, demand, flaws, replays>>

\* A keyframe request of the receiver: "force an IDR on the next frame".
KeyframeRequested ==
    /\ link = "usable"
    /\ needsKeyframe' = TRUE
    /\ owed' = (owed \/ \A i \in DOMAIN encodes : encodes[i])
    /\ UNCHANGED <<link, encoder, rebuilding, counters, lastPixelBuffer,
                   stopping, flights, synced, undecodable, flaws, replays>>

-----------------------------------------------------------------------------
(* What the connection machine does to the video path                       *)

\* becomeReady() of the connection that was dialed.
Opened ==
    /\ stopping # "done"
    /\ link = "none" \/ replaced
    /\ link' = "open"
    /\ UNCHANGED <<encoder, rebuilding, counters, needsKeyframe, lastPixelBuffer,
                   stopping, flights, demand, flaws, replays>>

\* activateBoundSession().
Bound ==
    /\ stopping # "done"
    /\ link = "open"
    /\ link' = "usable"
    /\ needsKeyframe' = TRUE
    /\ synced' = FALSE
    /\ owed' = FALSE
    /\ UNCHANGED <<encoder, rebuilding, counters, lastPixelBuffer, stopping,
                   flights, undecodable, flaws, replays>>

\* .failed or .cancelled lowers connectionReady before anything else is done.
Unusable ==
    /\ link = "usable"
    /\ link' = "dead"
    /\ UNCHANGED <<encoder, rebuilding, counters, needsKeyframe, lastPixelBuffer,
                   stopping, flights, demand, flaws, replays>>

\* Mutants: a reconnect that leaves pendingSends as it was; one that leaves the
\* generation as it was.
ReconnectKeepsSends ==
    /\ stopping = "no"
    /\ link' = "none"
    /\ pendingEncodes' = 0
    /\ encodes' = <<>> /\ sends' = 0
    /\ owed' = FALSE
    /\ UNCHANGED <<encoder, rebuilding, pendingSends, needsKeyframe, lastPixelBuffer,
                   stopping, synced, undecodable, flaws, replays>>

ReconnectKeepsGeneration ==
    /\ stopping = "no"
    /\ link' = "none"
    /\ pendingEncodes' = 0 /\ pendingSends' = 0
    /\ sends' = 0
    /\ owed' = FALSE
    /\ UNCHANGED <<encoder, rebuilding, needsKeyframe, lastPixelBuffer, stopping,
                   encodes, synced, undecodable, flaws, replays>>

\* scheduleReconnect(): a new generation, every counter at zero.
ScheduleReconnect ==
    /\ stopping = "no"
    /\ link' = "none"
    /\ pendingEncodes' = 0 /\ pendingSends' = 0
    /\ encodes' = <<>> /\ sends' = 0
    /\ owed' = FALSE
    /\ UNCHANGED <<encoder, rebuilding, needsKeyframe, lastPixelBuffer, stopping,
                   synced, undecodable, flaws, replays>>

\* A second retry chain dials over a stream that exists: connectTCP() replaces
\* self.connection, so completions of the old one no longer count; connectUSB()
\* takes a new generation, so its output handlers no longer count.
Overlapped ==
    /\ stopping = "no"
    /\ link # "none"
    /\ replaced' = TRUE
    /\ \/ sends' = 0 /\ UNCHANGED encodes
       \/ encodes' = <<>> /\ UNCHANGED sends
    /\ UNCHANGED <<link, encoder, rebuilding, counters, needsKeyframe,
                   lastPixelBuffer, stopping, demand, carried, replays>>

Stop ==
    /\ stopping = "no"
    /\ stopping' = "requested"
    /\ UNCHANGED <<link, encoder, rebuilding, counters, needsKeyframe,
                   lastPixelBuffer, flights, demand, flaws, replays>>

\* stopOnQueue(): the generation stays, so handlers that are due still run.
StopOnQueue ==
    /\ stopping = "requested"
    /\ stopping' = "done"
    /\ link' = "none"
    /\ encoder' = FALSE
    /\ pendingEncodes' = 0 /\ pendingSends' = 0
    /\ sends' = 0
    /\ owed' = FALSE
    /\ UNCHANGED <<rebuilding, needsKeyframe, lastPixelBuffer, encodes, synced,
                   undecodable, flaws, replays>>

-----------------------------------------------------------------------------
(* The capture rebuild, on its own task                                     *)

\* reconfigure() tears down; VideoToolbox swallows the handlers of some of the
\* frames the invalidated session still held.
Teardown ==
    /\ stopping = "no" /\ ~rebuilding
    /\ rebuilding' = TRUE
    /\ encoder' = FALSE
    /\ needsKeyframe' = TRUE
    /\ \E k \in 0..Len(encodes) : encodes' = SubSeq(encodes, 1, k)
    /\ UNCHANGED <<link, counters, lastPixelBuffer, stopping, sends, demand, flaws, replays>>

\* Mutant: setupEncoder leaves the gate as the old session left it.
SetupKeepsGate ==
    /\ rebuilding
    /\ rebuilding' = FALSE
    /\ encoder' = TRUE
    /\ carried' = (carried \/ encodes # <<>>)
    /\ UNCHANGED <<link, counters, needsKeyframe, lastPixelBuffer, stopping,
                   flights, demand, replaced, replays>>

\* setupEncoder(), and with it startCapture(): a stop() meanwhile is not
\* noticed.  The plain write to pendingEncodes may race the decrement of a
\* handler that runs on the queue, whose stale value then survives.  Bound:
\* it overtakes handlers that are due only once.
SetupEncoder ==
    /\ rebuilding
    /\ rebuilding' = FALSE
    /\ encoder' = TRUE
    /\ \/ encodes = <<>> /\ pendingEncodes' = 0 /\ UNCHANGED carried
       \/ /\ encodes # <<>> /\ ~carried
          /\ carried' = TRUE
          /\ pendingEncodes' \in {0, Less(pendingEncodes)}
    /\ UNCHANGED <<link, pendingSends, needsKeyframe, lastPixelBuffer, stopping,
                   flights, demand, replaced, replays>>

\* The rebuild threw: before setupEncoder, or in it.
SetupFails ==
    /\ rebuilding
    /\ rebuilding' = FALSE
    /\ pendingEncodes' \in {pendingEncodes, 0}
    /\ UNCHANGED <<link, encoder, pendingSends, needsKeyframe, lastPixelBuffer,
                   stopping, flights, demand, flaws, replays>>

-----------------------------------------------------------------------------
Next ==
    \/ CaptureFrame \/ ConversionFails \/ ReplayLastFrame
    \/ EncodeOutput \/ SendCompleted \/ KeyframeRequested
    \/ Opened \/ Bound \/ Unusable \/ ScheduleReconnect \/ Overlapped
    \/ Stop \/ StopOnQueue
    \/ Teardown \/ SetupEncoder \/ SetupFails

Spec == Init /\ [][Next]_vars

\* VideoToolbox answers every frame it accepted and Network.framework every
\* send; nothing obliges a frame, a request or a reconnect to happen.
FairSpec == Spec /\ WF_vars(EncodeOutput) /\ WF_vars(SendCompleted)

-----------------------------------------------------------------------------
(* Properties                                                               *)

CountTypes ==
    /\ pendingEncodes \in Nat /\ pendingSends \in Nat
    /\ encodes \in Seq(BOOLEAN) /\ sends \in Nat
    /\ replays \in 0..MaxReplays

PhaseTypes ==
    /\ link \in {"none", "open", "usable", "dead"}
    /\ stopping \in {"no", "requested", "done"}
    /\ encoder \in BOOLEAN /\ rebuilding \in BOOLEAN
    /\ lastPixelBuffer \in BOOLEAN
    /\ replaced \in BOOLEAN /\ carried \in BOOLEAN

DemandTypes ==
    /\ needsKeyframe \in BOOLEAN
    /\ owed \in BOOLEAN /\ synced \in BOOLEAN /\ undecodable \in BOOLEAN

\* Every variable stays in its range; the only type invariant of the module.
TypeOK == CountTypes /\ PhaseTypes /\ DemandTypes

\* sendFramed(): "scheduleReconnect() zeroes pendingSends", so the counter is
\* exactly what is in flight on the connection that is used.
SendsCounted == link = "usable" => pendingSends = sends

\* The same, as long as no second retry chain replaced a usable stream.
SendsCountedUnlessReplaced == ~replaced => SendsCounted

\* The encoder gate never counts a frame whose handler will not run, or it
\* would stay shut: neither a reconnect nor an invalidated session leaks one.
EncodesNotOvercounted ==
    ~replaced /\ ~carried /\ encoder => pendingEncodes <= Len(encodes)

\* Frames are shed, not queued: at most MaxPendingSends - 1 were queued when
\* the last EncodeDepth frames were admitted; replays go past the gate.
BacklogBounded ==
    ~carried => pendingSends + Len(encodes) <= MaxPendingSends + EncodeDepth - 1 + replays

\* The first frame of every session is a keyframe, whatever an earlier session
\* left in the encoder.
FirstFrameIsKeyframe == ~replaced => ~undecodable

\* "force an IDR on the next frame": until the receiver got one, one is in the
\* encoder or the next frame will be one, whichever of them fail.  Excepted is a
\* request that comes while an unforced frame is in the encoder: its output
\* handler clears needsKeyframe when it is sent.
KeyframeDemandKept ==
    owed => needsKeyframe \/ \E i \in DOMAIN encodes : encodes[i]

\* A usable stream with an encoder admits frames again and again.
GateReopens ==
    []<>(\/ GateOpen \/ link # "usable" \/ ~encoder \/ stopping # "no"
         \/ replaced \/ carried)
=============================================================================
