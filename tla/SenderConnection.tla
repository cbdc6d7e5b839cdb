-------------------------- MODULE SenderConnection --------------------------
(***************************************************************************)
(* The connection machine of MacSender (Mac/MacSender.swift): dialing a    *)
(* receiver over TCP or usbmux, the session v3 handshake, the liveness     *)
(* watchdog, the reconnect chain with its disconnect grace, and stop().    *)
(*                                                                         *)
(* Everything here runs on the serial queue "sender.video", so one handler *)
(* is one step; what interleaves is the order in which Network.framework   *)
(* callbacks, the self-rescheduling timers, the results of asynchronous    *)
(* USB dials, the Reconnect button and stop() reach that queue.  The       *)
(* initial state is the one start() leaves: `stopped` false, one connect() *)
(* queued and the watchdog armed.                                          *)
(*                                                                         *)
(* Time is abstracted to what the code compares: a deadline is not         *)
(* running, running, or passed.                                            *)
(***************************************************************************)
EXTENDS Integers

CONSTANTS
    Conns,             \* connection objects; an object is reused once released
    NoConn,            \* nil
    Transports,        \* the SenderTransport cases explored
    MaxForces,         \* bound on presses of the Reconnect button
    MaxFaults          \* bound on misbehaviour of a receiver that is present

ASSUME ConnAssumption == NoConn \notin Conns
ASSUME TransportAssumption == Transports \subseteq {"tcp", "usb", "authenticatedUSB"}
ASSUME BoundsAssumption == MaxForces \in Nat /\ MaxFaults \in Nat

VARIABLES
    transport,         \* the sender's SenderTransport, fixed at construction
    connection,        \* self.connection
    net,               \* what Network.framework does with each object
    currentDial,       \* the USB dial whose generation is dialGeneration
    connectionReady,
    pendingSession,    \* pendingStreamSession, as the connection it was opened on
    boundSession,      \* boundStreamSession, as the connection it was accepted on
    handshakeStartedAt,\* "none", "running", or "overdue" (past handshakeTimeout)
    everConnected,
    disconnectedSince, \* "none", "running", or "expired" (past the grace)
    idle,              \* nothing received for longer than livenessDeadline
    retries,           \* asyncAfter blocks that will call connect()
    stopped,
    stopping,          \* "no", "requested" (flag set), "done" (stopOnQueue ran)
    notified,          \* onDisconnected was called
    gone,              \* the receiver left and will not answer again
    forces, faults,    \* what was used of MaxForces and MaxFaults
    overlapped         \* history: Reconnect was pressed while a retry was pending

session == <<connectionReady, pendingSession, boundSession, handshakeStartedAt>>
history == <<everConnected, disconnectedSince, notified>>
world   == <<gone, forces, faults, overlapped>>
stopVars == <<stopped, stopping>>
vars == <<transport, connection, net, currentDial, session, history, idle,
          retries, stopVars, world>>

\* free: no object; dialing: not ready yet; ready: open, receive loop armed;
\* failed: .failed was delivered; closing: cancel() called, .cancelled not yet
\* delivered; closed: .cancelled delivered while it is still self.connection.
NetStates == {"free", "dialing", "ready", "failed", "closing", "closed"}
Deadlines == {"none", "running", "overdue"}
Graces    == {"none", "running", "expired"}

Init ==
    /\ transport \in Transports
    /\ connection = NoConn
    /\ net = [c \in Conns |-> "free"]
    /\ currentDial = NoConn
    /\ connectionReady = FALSE
    /\ pendingSession = NoConn
    /\ boundSession = NoConn
    /\ handshakeStartedAt = "none"
    /\ everConnected = FALSE
    /\ disconnectedSince = "none"
    /\ idle = FALSE
    /\ retries = 1
    /\ stopped = FALSE
    /\ stopping = "no"
    /\ notified = FALSE
    /\ gone = FALSE
    /\ forces = 0
    /\ faults = 0
    /\ overlapped = FALSE

-----------------------------------------------------------------------------
(* Helpers.  `s` is net as the calling handler leaves it.                   *)

\* connection?.cancel(): an object whose .cancelled was already delivered has
\* no callback left and is released with its last reference.
CancelCurrent(s) ==
    [c \in Conns |-> IF c # connection THEN s[c]
                     ELSE IF s[c] = "closed" THEN "free" ELSE "closing"]

\* `connection = conn` without a cancel: the old object lives on unless all
\* its callbacks are behind it.
OverwriteCurrent(s) ==
    [c \in Conns |-> IF c = connection /\ s[c] \in {"closed", "failed"}
                     THEN "free" ELSE s[c]]

\* The receiver misbehaves, or is gone; a present receiver does it a bounded
\* number of times.
Fault ==
    /\ gone \/ faults < MaxFaults
    /\ faults' = IF gone THEN faults ELSE faults + 1
    /\ UNCHANGED <<gone, forces, overlapped>>

NoFault == ~gone /\ UNCHANGED world

\* A receiver that left sends nothing, not even nonsense.
Misbehaves == ~gone /\ Fault

\* scheduleReconnect(): refused after stop(); past the grace the controller is
\* told and NOTHING is torn down or redialed; otherwise everything about the
\* session is dropped and one more connect() is queued.  `ready` is what the
\* caller left in connectionReady, `since` in disconnectedSince.
ScheduleReconnect(s, ready, since) ==
    \/ /\ stopped
       /\ net' = s
       /\ connectionReady' = ready
       /\ disconnectedSince' = since
       /\ UNCHANGED <<connection, currentDial, pendingSession, boundSession,
                      handshakeStartedAt, notified, retries>>
    \/ /\ ~stopped
       /\ everConnected /\ since = "expired"
       /\ notified' = TRUE
       /\ net' = s
       /\ connectionReady' = ready
       /\ disconnectedSince' = since
       /\ UNCHANGED <<connection, currentDial, pendingSession, boundSession,
                      handshakeStartedAt, retries>>
    \/ /\ ~stopped
       /\ ~(everConnected /\ since = "expired")
       /\ disconnectedSince' = IF everConnected /\ since = "none"
                               THEN "running" ELSE since
       /\ connectionReady' = FALSE
       /\ pendingSession' = NoConn
       /\ boundSession' = NoConn
       /\ handshakeStartedAt' = "none"
       /\ currentDial' = NoConn            \* dialGeneration += 1
       /\ net' = CancelCurrent(s)
       /\ connection' = NoConn
       /\ retries' = retries + 1
       /\ UNCHANGED notified

Reconnect == ScheduleReconnect(net, connectionReady, disconnectedSince)

\* Mutants: the stream usable as soon as it is open (sessions v2), and no
\* deadline for the handshake.
BecomeReadyUsable(c) ==
    /\ connectionReady' = TRUE
    /\ pendingSession' = NoConn
    /\ boundSession' = NoConn
    /\ idle' = FALSE
    /\ handshakeStartedAt' = "running"

BecomeReadyNoDeadline(c) ==
    /\ connectionReady' = FALSE
    /\ pendingSession' = NoConn
    /\ boundSession' = NoConn
    /\ idle' = FALSE
    /\ handshakeStartedAt' = "none"

\* becomeReady(conn): the receiver speaks first; the old session is forgotten
\* and the handshake deadline starts.
BecomeReady(c) ==
    /\ connectionReady' = FALSE
    /\ pendingSession' = NoConn
    /\ boundSession' = NoConn
    /\ idle' = FALSE
    /\ handshakeStartedAt' = "running"

-----------------------------------------------------------------------------
(* Dialing                                                                  *)

\* The block scheduleReconnect (or start()) queued: connect().
ConnectStopped ==
    /\ retries > 0 /\ stopped
    /\ retries' = retries - 1
    /\ UNCHANGED <<transport, connection, net, currentDial, session, history,
                   idle, stopVars, world>>

\* connect() for the bare .usb transport: refused, and a new retry queued.
ConnectRefused ==
    /\ retries > 0 /\ ~stopped /\ transport = "usb"
    /\ UNCHANGED vars   \* one retry spent, one queued, nothing to tear down

\* connectTCP(): the new object becomes self.connection at once; the object
\* it replaces is not cancelled and connectionReady is left alone.
ConnectTCP(c) ==
    /\ retries > 0 /\ ~stopped /\ transport = "tcp"
    /\ net[c] = "free"
    /\ retries' = retries - 1
    /\ net' = [OverwriteCurrent(net) EXCEPT ![c] = "dialing"]
    /\ connection' = c
    /\ UNCHANGED <<transport, currentDial, session, history, idle, stopVars, world>>

\* connectUSB(): a new dialGeneration and an asynchronous Usbmux.dial.
ConnectUSB(c) ==
    /\ retries > 0 /\ ~stopped /\ transport = "authenticatedUSB"
    /\ net[c] = "free"
    /\ retries' = retries - 1
    /\ net' = [net EXCEPT ![c] = "dialing"]
    /\ currentDial' = c
    /\ UNCHANGED <<transport, connection, session, history, idle, stopVars, world>>

\* .ready of a TCP object: becomeReady if it is still self.connection, else
\* the late object is cancelled.
TCPReady(c) ==
    /\ transport = "tcp" /\ net[c] = "dialing" /\ NoFault
    /\ \/ /\ c = connection
          /\ net' = [net EXCEPT ![c] = "ready"]
          /\ BecomeReady(c)
       \/ /\ c # connection
          /\ net' = [net EXCEPT ![c] = "closing"]
          /\ UNCHANGED <<session, idle>>
    /\ UNCHANGED <<transport, connection, currentDial, history, retries, stopVars>>

\* Mutant: the result of a dial is adopted after stop().
USBDialedAfterStop(c) ==
    /\ transport = "authenticatedUSB" /\ net[c] = "dialing" /\ NoFault
    /\ c = currentDial
    /\ net' = [OverwriteCurrent(net) EXCEPT ![c] = "ready"]
    /\ connection' = c
    /\ currentDial' = NoConn
    /\ BecomeReady(c)
    /\ UNCHANGED <<transport, history, retries, stopVars>>

\* The USB dial returned a connection: adopted only for the generation that is
\* current, and never after stop().
USBDialed(c) ==
    /\ transport = "authenticatedUSB" /\ net[c] = "dialing" /\ NoFault
    /\ \/ /\ c = currentDial /\ ~stopped
          /\ net' = [OverwriteCurrent(net) EXCEPT ![c] = "ready"]
          /\ connection' = c
          /\ currentDial' = NoConn
          /\ BecomeReady(c)
       \/ /\ c # currentDial \/ stopped
          /\ net' = [net EXCEPT ![c] = "free"]
          /\ currentDial' = IF c = currentDial THEN NoConn ELSE currentDial
          /\ UNCHANGED <<connection, session, idle>>
    /\ UNCHANGED <<transport, history, retries, stopVars>>

\* .failed or (TCP, while dialing) .waiting: both are a failure when the
\* object is self.connection and nothing when it was superseded.
ConnFailed(c) ==
    /\ \/ transport = "tcp" /\ net[c] \in {"dialing", "ready"}
       \/ transport = "authenticatedUSB" /\ net[c] = "ready"
    /\ Fault
    /\ \/ /\ c = connection
          /\ \/ ScheduleReconnect([net EXCEPT ![c] = "failed"], FALSE, disconnectedSince)
             \/ net[c] = "dialing" /\ ScheduleReconnect(net, FALSE, disconnectedSince)
       \/ /\ c # connection
          /\ net' = [net EXCEPT ![c] = "free"]
          /\ UNCHANGED <<connection, currentDial, session, disconnectedSince,
                         notified, retries>>
    /\ UNCHANGED <<transport, everConnected, idle, stopVars>>

\* Mutants: a superseded dial that fails is retried as well; the current one
\* is not retried.
USBDialFailedAnyGeneration(c) ==
    /\ transport = "authenticatedUSB" /\ net[c] = "dialing"
    /\ Fault
    /\ ScheduleReconnect([net EXCEPT ![c] = "free"], connectionReady, disconnectedSince)
    /\ UNCHANGED <<transport, everConnected, idle, stopVars>>

USBDialFailedForgotten(c) ==
    /\ transport = "authenticatedUSB" /\ net[c] = "dialing"
    /\ Fault
    /\ net' = [net EXCEPT ![c] = "free"]
    /\ currentDial' = IF c = currentDial THEN NoConn ELSE currentDial
    /\ UNCHANGED <<transport, connection, session, history, idle, retries, stopVars>>

\* Usbmux.dial threw: retried only by the current generation.
USBDialFailed(c) ==
    /\ transport = "authenticatedUSB" /\ net[c] = "dialing"
    /\ Fault
    /\ \/ /\ c = currentDial /\ ~stopped
          /\ ScheduleReconnect([net EXCEPT ![c] = "free"], connectionReady, disconnectedSince)
       \/ /\ c # currentDial \/ stopped
          /\ net' = [net EXCEPT ![c] = "free"]
          /\ UNCHANGED <<connection, currentDial, session, disconnectedSince,
                         notified, retries>>
    /\ UNCHANGED <<transport, everConnected, idle, stopVars>>

\* Mutant: .cancelled of any object lowers connectionReady.
ConnCancelledAny(c) ==
    /\ net[c] = "closing"
    /\ net' = [net EXCEPT ![c] = IF c = connection THEN "closed" ELSE "free"]
    /\ connectionReady' = FALSE
    /\ UNCHANGED <<transport, connection, currentDial, pendingSession, boundSession,
                   handshakeStartedAt, history, idle, retries, stopVars, world>>

\* .cancelled: only lowers connectionReady, and only for self.connection.
ConnCancelled(c) ==
    /\ net[c] = "closing"
    /\ \/ /\ c = connection
          /\ net' = [net EXCEPT ![c] = "closed"]
          /\ connectionReady' = FALSE
       \/ /\ c # connection
          /\ net' = [net EXCEPT ![c] = "free"]
          /\ UNCHANGED connectionReady
    /\ UNCHANGED <<transport, connection, currentDial, pendingSession, boundSession,
                   handshakeStartedAt, history, idle, retries, stopVars, world>>

-----------------------------------------------------------------------------
(* The control channel                                                      *)

Receiving(c) == c = connection /\ net[c] = "ready"

\* receiveControl() gives up on an object: end of stream, a malformed frame
\* or record, or anything at all on an object that was superseded.  All it
\* does is conn.cancel().
ReceiveFails(c) ==
    /\ net[c] = "ready"
    /\ Fault
    /\ net' = [net EXCEPT ![c] = "closing"]
    /\ UNCHANGED <<transport, connection, currentDial, session, history, idle,
                   retries, stopVars>>

\* serverHello while a session is bound: nothing here (a changed panel size
\* rebuilds the capture).
HelloWhileBound(c) ==
    /\ Receiving(c) /\ NoFault
    /\ boundSession # NoConn
    /\ idle' = FALSE
    /\ UNCHANGED <<transport, connection, net, currentDial, session, history,
                   retries, stopVars>>

\* serverHello, accepted by beginSessionHandshake: session-open is sent.
HelloAccepted(c) ==
    /\ Receiving(c) /\ NoFault
    /\ boundSession = NoConn /\ pendingSession = NoConn
    /\ pendingSession' = c
    /\ idle' = FALSE
    /\ UNCHANGED <<transport, connection, net, currentDial, connectionReady,
                   boundSession, handshakeStartedAt, history, retries, stopVars>>

\* serverHello, refused by beginSessionHandshake: a second hello during the
\* handshake, a wrong version, a replayed or missing Wi-Fi seed, no binding
\* key, or a session-open that could not be framed.
HelloRefused(c) ==
    /\ Receiving(c) /\ Misbehaves
    /\ boundSession = NoConn
    /\ Reconnect
    /\ idle' = FALSE
    /\ UNCHANGED <<transport, everConnected, stopVars>>

\* Mutants: the accept does not close the outage's grace clock; it does not
\* remember that the session was once connected.
AcceptKeepsGrace(c) ==
    /\ Receiving(c) /\ NoFault
    /\ pendingSession = c
    /\ pendingSession' = NoConn
    /\ boundSession' = c
    /\ connectionReady' = TRUE
    /\ handshakeStartedAt' = "none"
    /\ everConnected' = TRUE
    /\ idle' = FALSE
    /\ UNCHANGED <<transport, connection, net, currentDial, disconnectedSince,
                   notified, retries, stopVars>>

AcceptForgotten(c) ==
    /\ Receiving(c) /\ NoFault
    /\ pendingSession = c
    /\ pendingSession' = NoConn
    /\ boundSession' = c
    /\ connectionReady' = TRUE
    /\ handshakeStartedAt' = "none"
    /\ disconnectedSince' = "none"
    /\ idle' = FALSE
    /\ UNCHANGED <<transport, connection, net, currentDial, everConnected,
                   notified, retries, stopVars>>

\* sessionAccept whose proof verifies: activateBoundSession.  The proof covers
\* the nonces of the session-open sent on this object.
AcceptVerified(c) ==
    /\ Receiving(c) /\ NoFault
    /\ pendingSession = c
    /\ pendingSession' = NoConn
    /\ boundSession' = c
    /\ connectionReady' = TRUE
    /\ handshakeStartedAt' = "none"
    /\ everConnected' = TRUE
    /\ disconnectedSince' = "none"
    /\ idle' = FALSE
    /\ UNCHANGED <<transport, connection, net, currentDial, notified, retries, stopVars>>

\* sessionAccept that does not verify, or that nothing is waiting for; a
\* duplicate for a bound session is ignored.
AcceptRefused(c) ==
    /\ Receiving(c) /\ Misbehaves
    /\ \/ pendingSession = NoConn /\ boundSession # NoConn
          /\ UNCHANGED <<connection, net, currentDial, session, disconnectedSince,
                         notified, retries>>
       \/ ~(pendingSession = NoConn /\ boundSession # NoConn) /\ Reconnect
    /\ idle' = FALSE
    /\ UNCHANGED <<transport, everConnected, stopVars>>

\* sessionBusy: ignored after bind, otherwise a slower retry.
Busy(c) ==
    /\ Receiving(c) /\ Misbehaves
    /\ \/ boundSession = NoConn /\ Reconnect
       \/ boundSession # NoConn
          /\ UNCHANGED <<connection, net, currentDial, session, disconnectedSince,
                         notified, retries>>
    /\ idle' = FALSE
    /\ UNCHANGED <<transport, everConnected, stopVars>>

\* Any application control of a session that streams refreshes liveness.
AppControl(c) ==
    /\ Receiving(c) /\ NoFault
    /\ connectionReady /\ boundSession # NoConn
    /\ idle' = FALSE
    /\ UNCHANGED <<transport, connection, net, currentDial, session, history,
                   retries, stopVars>>

\* Application control before the session is bound, or a payload consumeControl
\* rejects: reconnect.  Neither refreshes liveness.
ControlRejected(c) ==
    /\ Receiving(c) /\ Misbehaves
    /\ Reconnect
    /\ UNCHANGED <<transport, everConnected, idle, stopVars>>

-----------------------------------------------------------------------------
(* Timers, the Reconnect button and stop()                                  *)

\* scheduleWatchdog()'s two deadlines.
WatchdogHandshake ==
    /\ ~stopped
    /\ connection # NoConn /\ ~connectionReady /\ handshakeStartedAt = "overdue"
    /\ Reconnect
    /\ UNCHANGED <<transport, everConnected, idle, stopVars, world>>

\* Mutant: no idle deadline.
WatchdogIdleNever == FALSE /\ WatchdogHandshake

WatchdogIdle ==
    /\ ~stopped
    /\ connectionReady /\ idle
    /\ Reconnect
    /\ UNCHANGED <<transport, everConnected, idle, stopVars, world>>

\* forceReconnect(): a fresh grace window, then scheduleReconnect().
ForceReconnect ==
    /\ ~stopped
    /\ forces < MaxForces
    /\ forces' = forces + 1
    /\ overlapped' = (overlapped \/ retries > 0)
    /\ ScheduleReconnect(net, connectionReady, "running")
    /\ UNCHANGED <<transport, everConnected, idle, stopVars, gone, faults>>

\* stop() sets the flag from any thread ...
Stop ==
    /\ stopping = "no"
    /\ stopping' = "requested"
    /\ stopped' = TRUE
    /\ UNCHANGED <<transport, connection, net, currentDial, session, history,
                   idle, retries, world>>

\* ... and stopOnQueue() runs when the queue gets to it.  connectionReady and
\* the dial generation stay as they are.
StopOnQueue ==
    /\ stopping = "requested"
    /\ stopping' = "done"
    /\ net' = CancelCurrent(net)
    /\ connection' = NoConn
    /\ pendingSession' = NoConn
    /\ boundSession' = NoConn
    /\ handshakeStartedAt' = "none"
    /\ UNCHANGED <<transport, currentDial, connectionReady, history, idle,
                   retries, stopped, world>>

\* The clock.
GraceExpires ==
    /\ disconnectedSince = "running"
    /\ disconnectedSince' = "expired"
    /\ UNCHANGED <<transport, connection, net, currentDial, session, everConnected,
                   notified, idle, retries, stopVars, world>>

\* A handshake on an open stream to a present receiver overruns only if the
\* receiver misbehaves.
HandshakeOverdue ==
    /\ handshakeStartedAt = "running"
    /\ handshakeStartedAt' = "overdue"
    /\ IF connection # NoConn /\ net[connection] = "ready" THEN Fault ELSE UNCHANGED world
    /\ UNCHANGED <<transport, connection, net, currentDial, connectionReady,
                   pendingSession, boundSession, history, idle, retries, stopVars>>

FallSilent ==
    /\ connectionReady /\ ~idle
    /\ idle' = TRUE
    /\ Fault
    /\ UNCHANGED <<transport, connection, net, currentDial, session, history,
                   retries, stopVars>>

\* The receiver leaves for good.
DeviceGone ==
    /\ ~gone
    /\ gone' = TRUE
    /\ UNCHANGED <<transport, connection, net, currentDial, session, history,
                   idle, retries, stopVars, forces, faults, overlapped>>

-----------------------------------------------------------------------------
Dial == \/ ConnectStopped
        \/ ConnectRefused
        \/ \E c \in Conns : ConnectTCP(c) \/ ConnectUSB(c)

DialOutcome(c) == TCPReady(c) \/ USBDialed(c) \/ ConnFailed(c) \/ USBDialFailed(c)

Receive(c) ==
    \/ ReceiveFails(c)
    \/ HelloWhileBound(c) \/ HelloAccepted(c) \/ HelloRefused(c)
    \/ AcceptVerified(c) \/ AcceptRefused(c)
    \/ Busy(c) \/ AppControl(c) \/ ControlRejected(c)

Watchdog == WatchdogHandshake \/ WatchdogIdle

Clock == GraceExpires \/ HandshakeOverdue \/ FallSilent

Next ==
    \/ Dial
    \/ \E c \in Conns : DialOutcome(c) \/ ConnCancelled(c) \/ Receive(c)
    \/ Watchdog
    \/ Clock
    \/ ForceReconnect
    \/ Stop
    \/ StopOnQueue
    \/ DeviceGone

Spec == Init /\ [][Next]_vars

(***************************************************************************)
(* Fairness.  Dispatch runs queued and delayed blocks, a dial and a cancel *)
(* end one way or the other, clocks advance, the watchdog re-arms itself   *)
(* until stop(), and the controller answers onDisconnected by ending the   *)
(* session (OpenSidecarMacApp.swift).  A link to a receiver that left      *)
(* falls silent, but nothing obliges an open socket to report that it is   *)
(* dead.  A receiver that is present is trusted to greet a new stream and  *)
(* to answer session-open; nothing obliges the user to do anything.        *)
(***************************************************************************)
SchedulingFairness ==
    /\ WF_vars(Dial)
    /\ \A c \in Conns : /\ WF_vars(net[c] = "dialing" /\ DialOutcome(c))
                        /\ WF_vars(ConnCancelled(c))
    /\ WF_vars(Watchdog)
    /\ WF_vars(GraceExpires)
    /\ WF_vars(HandshakeOverdue)
    /\ WF_vars(gone /\ FallSilent)
    /\ WF_vars(notified /\ Stop)
    /\ WF_vars(StopOnQueue)

ReceiverFairness ==
    \A c \in Conns : WF_vars(HelloAccepted(c)) /\ WF_vars(AcceptVerified(c))

FairSpec == Spec /\ SchedulingFairness /\ ReceiverFairness

-----------------------------------------------------------------------------
(* Properties                                                               *)

SocketTypes ==
    /\ transport \in Transports
    /\ connection \in Conns \cup {NoConn}
    /\ net \in [Conns -> NetStates]
    /\ currentDial \in Conns \cup {NoConn}
    /\ retries \in Nat

SessionTypes ==
    /\ connectionReady \in BOOLEAN
    /\ pendingSession \in Conns \cup {NoConn}
    /\ boundSession \in Conns \cup {NoConn}
    /\ handshakeStartedAt \in Deadlines

HistoryTypes ==
    /\ everConnected \in BOOLEAN
    /\ disconnectedSince \in Graces
    /\ notified \in BOOLEAN
    /\ idle \in BOOLEAN
    /\ stopped \in BOOLEAN
    /\ stopping \in {"no", "requested", "done"}

WorldTypes ==
    /\ gone \in BOOLEAN
    /\ forces \in 0..MaxForces
    /\ faults \in 0..MaxFaults
    /\ overlapped \in BOOLEAN

\* Every variable stays in its range; the only type invariant of the module.
TypeOK == SocketTypes /\ SessionTypes /\ HistoryTypes /\ WorldTypes

\* sendFramed() and sendJSONFrame() would put a frame on self.connection.
Usable == connection # NoConn /\ connectionReady

\* Frames only go to a stream whose own session-accept verified: the comment
\* of becomeReady, "The stream is not usable until the v3 session-accept proof
\* succeeds."
UsableOnlyAfterAccept == Usable => boundSession = connection

\* The same, as long as Reconnect was never pressed while a retry was pending.
UsableUnlessOverlapped == ~overlapped => UsableOnlyAfterAccept

\* One chain: unless Reconnect overlapped a retry, at most one of a queued
\* connect(), a current USB dial and an adopted connection exists, so two
\* retries never race and no second dial is ever made.
One(c) == IF c = NoConn THEN 0 ELSE 1
SingleChain == ~overlapped => retries + One(currentDial) + One(connection) <= 1

\* receiveControl gave up on the stream of a session that was bound.
Stranded ==
    /\ connection # NoConn /\ boundSession # NoConn
    /\ net[connection] \in {"closing", "closed"}

\* The sender is never left with nothing armed: until stop() there is a queued
\* connect(), a dial that will report, a handshake deadline, a live session
\* the idle deadline covers, or the controller has been told.  The one
\* exception is a bound session whose stream ended.
Armed ==
    \/ stopped \/ notified \/ retries > 0
    \/ currentDial # NoConn
    \/ /\ connection # NoConn
       /\ \/ net[connection] = "dialing"
          \/ connectionReady
          \/ handshakeStartedAt # "none"
ArmedUnlessStranded == Armed \/ Stranded

\* Each outage gets its own grace window: while a session is bound no grace
\* clock is left over from an earlier outage.
GraceStartsWithOutage == boundSession # NoConn => disconnectedSince = "none"

\* stop() is final: once stopOnQueue has run nothing is adopted again, not by
\* a retry, not by a USB dial that was in flight.
StopIsFinal == stopping = "done" => connection = NoConn

\* A late callback of a superseded object never touches the session that
\* superseded it (the comment in connectTCP's state handler).
LateCallback(c) ==
    /\ net[c] # "free" /\ net'[c] # net[c]
    /\ c # connection /\ c # currentDial
LateCallbacksIgnored ==
    [][\A c \in Conns : LateCallback(c) =>
          UNCHANGED <<connection, connectionReady, pendingSession, boundSession,
                      handshakeStartedAt, disconnectedSince, retries, notified>>]_vars

\* "once connected, a device that stays gone past the grace ends the session
\* via onDisconnected" (the comment on everConnected).
GoneEndsSession == everConnected /\ gone ~> notified \/ stopped

\* The same, unless the stream of a bound session ended.
GoneEndsUnlessStranded == everConnected /\ gone ~> notified \/ stopped \/ Stranded

\* While the receiver is there and stops misbehaving, streaming comes back or
\* the session is given up for good.
Streaming == Usable /\ boundSession = connection /\ net[connection] = "ready"
RecoversOrEnds ==
    transport # "usb" =>
        []<>(Streaming \/ notified \/ stopped \/ gone \/ Stranded)

\* The sender implements its contract: the phase the contract speaks of is what
\* self.connection, its state and connectionReady amount to.
Phase ==
    IF stopping = "done" THEN "ended"
    ELSE IF connection = NoConn THEN "offline"
    ELSE IF net[connection] # "ready" THEN "offline"
    ELSE IF connectionReady THEN "streaming" ELSE "authenticating"

Contract == INSTANCE SessionContract
                WITH phase <- Phase, everStreamed <- everConnected

ImplementsContract == Contract!Spec
=============================================================================
