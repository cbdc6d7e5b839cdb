------------------------ MODULE SenderConnectionProofs ------------------------
(***************************************************************************)
(* Proofs about SenderConnection for every set of connection objects and   *)
(* every bound.  IInv strengthens the invariants of the module with what   *)
(* each handler relies on; it is shown inductive action by action.         *)
(***************************************************************************)
EXTENDS SenderConnection, TLAPS

\* The stop flag and the stop sequence agree, and a stop that ran leaves no
\* current connection.
StopInv ==
    /\ stopped <=> stopping # "no"
    /\ StopIsFinal

\* connectionReady belongs to an object until stopOnQueue has run.
ReadyInv ==
    /\ connectionReady => connection # NoConn \/ stopping = "done"
    /\ pendingSession = NoConn \/ boundSession = NoConn

\* A USB dial is current only on the USB transport; what self.connection
\* refers to exists and is not that dial.
DialInv ==
    /\ currentDial # NoConn => transport = "authenticatedUSB"
    /\ currentDial # NoConn => net[currentDial] = "dialing" \/ notified \/ stopped
    /\ connection # NoConn => net[connection] # "free"
    /\ connection # NoConn /\ transport = "authenticatedUSB" => net[connection] # "dialing"
    /\ transport = "usb" => connection = NoConn

\* Open and half-dead streams that are not bound have a handshake deadline, a
\* bound one that is open is ready, and a failed one was reported.
CoverInv ==
    /\ connection # NoConn =>
        /\ net[connection] \in {"ready", "closing", "closed"} /\ boundSession = NoConn
               => handshakeStartedAt # "none" \/ stopped
        /\ net[connection] = "ready" /\ boundSession # NoConn => connectionReady
        /\ net[connection] = "ready" /\ connectionReady => boundSession = connection
        /\ net[connection] = "failed" => notified \/ stopped
    /\ connection = NoConn /\ currentDial = NoConn /\ retries = 0
           => notified \/ stopped

IInv ==
    /\ TypeOK
    /\ StopInv
    /\ ReadyInv
    /\ DialInv
    /\ SingleChain
    /\ UsableUnlessOverlapped
    /\ GraceStartsWithOutage
    /\ CoverInv

-----------------------------------------------------------------------------

\* Every handler keeps the objects, the current dial and the retries in range.
LEMMA SocketStep ==
  ASSUME TypeOK, [Next]_vars
  PROVE  SocketTypes'
<1> USE ConnAssumption, TransportAssumption, BoundsAssumption DEF Fault, NoFault,
     Misbehaves, ScheduleReconnect, Reconnect, BecomeReady, CancelCurrent,
     OverwriteCurrent, Receiving, TypeOK, SocketTypes, SessionTypes, HistoryTypes,
     NetStates, vars, session, history, world, stopVars
<1>1. CASE Dial
  <2>1. CASE ConnectStopped \/ ConnectRefused
    BY <2>1 DEF ConnectStopped, ConnectRefused
  <2>2. ASSUME NEW c \in Conns, ConnectTCP(c) PROVE SocketTypes'
    BY <2>2 DEF ConnectTCP
  <2>3. ASSUME NEW c \in Conns, ConnectUSB(c) PROVE SocketTypes'
    BY <2>3 DEF ConnectUSB
  <2>4. QED
    BY <1>1, <2>1, <2>2, <2>3 DEF Dial
<1>2. ASSUME NEW c \in Conns, DialOutcome(c) PROVE SocketTypes'
  <2>1. CASE TCPReady(c) \/ USBDialed(c)
    BY <2>1 DEF TCPReady, USBDialed
  <2>2. CASE ConnFailed(c)
    BY <2>2 DEF ConnFailed
  <2>3. CASE USBDialFailed(c)
    BY <2>3 DEF USBDialFailed
  <2>4. QED
    BY <1>2, <2>1, <2>2, <2>3 DEF DialOutcome
<1>3. ASSUME NEW c \in Conns, ConnCancelled(c) PROVE SocketTypes'
  BY <1>3 DEF ConnCancelled
<1>4. ASSUME NEW c \in Conns, Receive(c) PROVE SocketTypes'
  BY <1>4 DEF Receive, ReceiveFails, HelloWhileBound, HelloAccepted, HelloRefused,
       AcceptVerified, AcceptRefused, Busy, AppControl, ControlRejected
<1>5. CASE Watchdog
  BY <1>5 DEF Watchdog, WatchdogHandshake, WatchdogIdle
<1>6. CASE Clock
  BY <1>6 DEF Clock, GraceExpires, HandshakeOverdue, FallSilent
<1>7. CASE ForceReconnect
  BY <1>7 DEF ForceReconnect
<1>8. CASE Stop
  BY <1>8 DEF Stop
<1>9. CASE StopOnQueue
  BY <1>9 DEF StopOnQueue
<1>10. CASE DeviceGone
  BY <1>10 DEF DeviceGone
<1>11. CASE UNCHANGED vars
  BY <1>11
<1>12. QED
  BY <1>1, <1>2, <1>3, <1>4, <1>5, <1>6, <1>7, <1>8, <1>9, <1>10, <1>11 DEF Next

\* Every handler keeps the session's fields in range.
LEMMA SessionStep ==
  ASSUME TypeOK, [Next]_vars
  PROVE  SessionTypes'
<1> USE ConnAssumption, TransportAssumption, BoundsAssumption DEF Fault, NoFault,
     Misbehaves, ScheduleReconnect, Reconnect, BecomeReady, CancelCurrent,
     OverwriteCurrent, Receiving, TypeOK, SocketTypes, SessionTypes, HistoryTypes,
     Deadlines, vars, session, history, world, stopVars
<1>1. CASE Dial
  BY <1>1 DEF Dial, ConnectStopped, ConnectRefused, ConnectTCP, ConnectUSB
<1>2. ASSUME NEW c \in Conns, DialOutcome(c) PROVE SessionTypes'
  BY <1>2 DEF DialOutcome, TCPReady, USBDialed, ConnFailed, USBDialFailed
<1>3. ASSUME NEW c \in Conns, ConnCancelled(c) PROVE SessionTypes'
  BY <1>3 DEF ConnCancelled
<1>4. ASSUME NEW c \in Conns, Receive(c) PROVE SessionTypes'
  BY <1>4 DEF Receive, ReceiveFails, HelloWhileBound, HelloAccepted, HelloRefused,
       AcceptVerified, AcceptRefused, Busy, AppControl, ControlRejected
<1>5. CASE Watchdog
  BY <1>5 DEF Watchdog, WatchdogHandshake, WatchdogIdle
<1>6. CASE Clock
  BY <1>6 DEF Clock, GraceExpires, HandshakeOverdue, FallSilent
<1>7. CASE ForceReconnect
  BY <1>7 DEF ForceReconnect
<1>8. CASE Stop
  BY <1>8 DEF Stop
<1>9. CASE StopOnQueue
  BY <1>9 DEF StopOnQueue
<1>10. CASE DeviceGone
  BY <1>10 DEF DeviceGone
<1>11. CASE UNCHANGED vars
  BY <1>11
<1>12. QED
  BY <1>1, <1>2, <1>3, <1>4, <1>5, <1>6, <1>7, <1>8, <1>9, <1>10, <1>11 DEF Next

\* Every handler keeps the history, the idle flag and the stop flags in range.
LEMMA HistoryStep ==
  ASSUME TypeOK, [Next]_vars
  PROVE  HistoryTypes'
<1> USE ConnAssumption, TransportAssumption, BoundsAssumption DEF Fault, NoFault,
     Misbehaves, ScheduleReconnect, Reconnect, BecomeReady, CancelCurrent,
     OverwriteCurrent, Receiving, TypeOK, HistoryTypes, SocketTypes, Graces, vars,
     session, history, world, stopVars
<1>1. CASE Dial
  BY <1>1 DEF Dial, ConnectStopped, ConnectRefused, ConnectTCP, ConnectUSB
<1>2. ASSUME NEW c \in Conns, DialOutcome(c) PROVE HistoryTypes'
  BY <1>2 DEF DialOutcome, TCPReady, USBDialed, ConnFailed, USBDialFailed
<1>3. ASSUME NEW c \in Conns, ConnCancelled(c) PROVE HistoryTypes'
  BY <1>3 DEF ConnCancelled
<1>4. ASSUME NEW c \in Conns, Receive(c) PROVE HistoryTypes'
  BY <1>4 DEF Receive, ReceiveFails, HelloWhileBound, HelloAccepted, HelloRefused,
       AcceptVerified, AcceptRefused, Busy, AppControl, ControlRejected
<1>5. CASE Watchdog
  BY <1>5 DEF Watchdog, WatchdogHandshake, WatchdogIdle
<1>6. CASE Clock
  BY <1>6 DEF Clock, GraceExpires, HandshakeOverdue, FallSilent
<1>7. CASE ForceReconnect
  BY <1>7 DEF ForceReconnect
<1>8. CASE Stop
  BY <1>8 DEF Stop
<1>9. CASE StopOnQueue
  BY <1>9 DEF StopOnQueue
<1>10. CASE DeviceGone
  BY <1>10 DEF DeviceGone
<1>11. CASE UNCHANGED vars
  BY <1>11
<1>12. QED
  BY <1>1, <1>2, <1>3, <1>4, <1>5, <1>6, <1>7, <1>8, <1>9, <1>10, <1>11 DEF Next

\* Every step keeps what the environment used in range.
LEMMA WorldStep ==
  ASSUME TypeOK, [Next]_vars
  PROVE  WorldTypes'
<1> USE ConnAssumption, TransportAssumption, BoundsAssumption DEF Fault, NoFault,
     Misbehaves, ScheduleReconnect, Reconnect, BecomeReady, CancelCurrent,
     OverwriteCurrent, Receiving, TypeOK, HistoryTypes, WorldTypes, SocketTypes, vars,
     session, history, world, stopVars
<1>1. CASE Dial
  BY <1>1 DEF Dial, ConnectStopped, ConnectRefused, ConnectTCP, ConnectUSB
<1>2. ASSUME NEW c \in Conns, DialOutcome(c) PROVE WorldTypes'
  BY <1>2 DEF DialOutcome, TCPReady, USBDialed, ConnFailed, USBDialFailed
<1>3. ASSUME NEW c \in Conns, ConnCancelled(c) PROVE WorldTypes'
  BY <1>3 DEF ConnCancelled
<1>4. ASSUME NEW c \in Conns, Receive(c) PROVE WorldTypes'
  BY <1>4 DEF Receive, ReceiveFails, HelloWhileBound, HelloAccepted, HelloRefused,
       AcceptVerified, AcceptRefused, Busy, AppControl, ControlRejected
<1>5. CASE Watchdog
  BY <1>5 DEF Watchdog, WatchdogHandshake, WatchdogIdle
<1>6. CASE Clock
  BY <1>6 DEF Clock, GraceExpires, HandshakeOverdue, FallSilent
<1>7. CASE ForceReconnect
  BY <1>7 DEF ForceReconnect
<1>8. CASE Stop
  BY <1>8 DEF Stop
<1>9. CASE StopOnQueue
  BY <1>9 DEF StopOnQueue
<1>10. CASE DeviceGone
  BY <1>10 DEF DeviceGone
<1>11. CASE UNCHANGED vars
  BY <1>11
<1>12. QED
  BY <1>1, <1>2, <1>3, <1>4, <1>5, <1>6, <1>7, <1>8, <1>9, <1>10, <1>11 DEF Next

\* No handler sets self.connection once stopOnQueue has run: connectTCP and
\* connectUSB test `stopped`, and so does the adoption of a USB dial.
LEMMA StopStep ==
  ASSUME TypeOK, StopInv, [Next]_vars
  PROVE  StopInv'
<1> USE ConnAssumption, TransportAssumption, BoundsAssumption DEF Fault, NoFault,
     Misbehaves, ScheduleReconnect, Reconnect, BecomeReady, CancelCurrent,
     OverwriteCurrent, Receiving, TypeOK, HistoryTypes, SocketTypes, StopInv,
     StopIsFinal, vars, session, history, world, stopVars
<1>1. CASE Dial
  BY <1>1 DEF Dial, ConnectStopped, ConnectRefused, ConnectTCP, ConnectUSB
<1>2. ASSUME NEW c \in Conns, DialOutcome(c) PROVE StopInv'
  BY <1>2 DEF DialOutcome, TCPReady, USBDialed, ConnFailed, USBDialFailed
<1>3. ASSUME NEW c \in Conns, ConnCancelled(c) PROVE StopInv'
  BY <1>3 DEF ConnCancelled
<1>4. ASSUME NEW c \in Conns, Receive(c) PROVE StopInv'
  BY <1>4 DEF Receive, ReceiveFails, HelloWhileBound, HelloAccepted, HelloRefused,
       AcceptVerified, AcceptRefused, Busy, AppControl, ControlRejected
<1>5. CASE Watchdog
  BY <1>5 DEF Watchdog, WatchdogHandshake, WatchdogIdle
<1>6. CASE Clock
  BY <1>6 DEF Clock, GraceExpires, HandshakeOverdue, FallSilent
<1>7. CASE ForceReconnect
  BY <1>7 DEF ForceReconnect
<1>8. CASE Stop
  BY <1>8 DEF Stop
<1>9. CASE StopOnQueue
  BY <1>9 DEF StopOnQueue
<1>10. CASE DeviceGone
  BY <1>10 DEF DeviceGone
<1>11. CASE UNCHANGED vars
  BY <1>11
<1>12. QED
  BY <1>1, <1>2, <1>3, <1>4, <1>5, <1>6, <1>7, <1>8, <1>9, <1>10, <1>11 DEF Next

\* Only activateBoundSession raises connectionReady, and it consumes the
\* pending session; every handler that drops the connection drops both.
LEMMA ReadyStep ==
  ASSUME TypeOK, StopInv, ReadyInv, [Next]_vars
  PROVE  ReadyInv'
<1> USE ConnAssumption, TransportAssumption, BoundsAssumption DEF Fault, NoFault,
     Misbehaves, ScheduleReconnect, Reconnect, BecomeReady, CancelCurrent,
     OverwriteCurrent, Receiving, TypeOK, HistoryTypes, SessionTypes, SocketTypes,
     StopInv, ReadyInv, StopIsFinal, vars, session, history, world, stopVars
<1>1. CASE Dial
  BY <1>1 DEF Dial, ConnectStopped, ConnectRefused, ConnectTCP, ConnectUSB
<1>2. ASSUME NEW c \in Conns, DialOutcome(c) PROVE ReadyInv'
  BY <1>2 DEF DialOutcome, TCPReady, USBDialed, ConnFailed, USBDialFailed
<1>3. ASSUME NEW c \in Conns, ConnCancelled(c) PROVE ReadyInv'
  BY <1>3 DEF ConnCancelled
<1>4. ASSUME NEW c \in Conns, Receive(c) PROVE ReadyInv'
  BY <1>4 DEF Receive, ReceiveFails, HelloWhileBound, HelloAccepted, HelloRefused,
       AcceptVerified, AcceptRefused, Busy, AppControl, ControlRejected
<1>5. CASE Watchdog
  BY <1>5 DEF Watchdog, WatchdogHandshake, WatchdogIdle
<1>6. CASE Clock
  BY <1>6 DEF Clock, GraceExpires, HandshakeOverdue, FallSilent
<1>7. CASE ForceReconnect
  BY <1>7 DEF ForceReconnect
<1>8. CASE Stop
  BY <1>8 DEF Stop
<1>9. CASE StopOnQueue
  BY <1>9 DEF StopOnQueue
<1>10. CASE DeviceGone
  BY <1>10 DEF DeviceGone
<1>11. CASE UNCHANGED vars
  BY <1>11
<1>12. QED
  BY <1>1, <1>2, <1>3, <1>4, <1>5, <1>6, <1>7, <1>8, <1>9, <1>10, <1>11 DEF Next

\* activateBoundSession closes the grace clock; only scheduleReconnect and
\* forceReconnect start it, and both drop the session.
LEMMA GraceStep ==
  ASSUME TypeOK, GraceStartsWithOutage, [Next]_vars
  PROVE  GraceStartsWithOutage'
<1> USE ConnAssumption, TransportAssumption, BoundsAssumption DEF Fault, NoFault,
     Misbehaves, ScheduleReconnect, Reconnect, BecomeReady, CancelCurrent,
     OverwriteCurrent, Receiving, TypeOK, HistoryTypes, SessionTypes, SocketTypes,
     GraceStartsWithOutage, vars, session, history, world, stopVars
<1>1. CASE Dial
  BY <1>1 DEF Dial, ConnectStopped, ConnectRefused, ConnectTCP, ConnectUSB
<1>2. ASSUME NEW c \in Conns, DialOutcome(c) PROVE GraceStartsWithOutage'
  BY <1>2 DEF DialOutcome, TCPReady, USBDialed, ConnFailed, USBDialFailed
<1>3. ASSUME NEW c \in Conns, ConnCancelled(c) PROVE GraceStartsWithOutage'
  BY <1>3 DEF ConnCancelled
<1>4. ASSUME NEW c \in Conns, Receive(c) PROVE GraceStartsWithOutage'
  BY <1>4 DEF Receive, ReceiveFails, HelloWhileBound, HelloAccepted, HelloRefused,
       AcceptVerified, AcceptRefused, Busy, AppControl, ControlRejected
<1>5. CASE Watchdog
  BY <1>5 DEF Watchdog, WatchdogHandshake, WatchdogIdle
<1>6. CASE Clock
  BY <1>6 DEF Clock, GraceExpires, HandshakeOverdue, FallSilent
<1>7. CASE ForceReconnect
  BY <1>7 DEF ForceReconnect
<1>8. CASE Stop
  BY <1>8 DEF Stop
<1>9. CASE StopOnQueue
  BY <1>9 DEF StopOnQueue
<1>10. CASE DeviceGone
  BY <1>10 DEF DeviceGone
<1>11. CASE UNCHANGED vars
  BY <1>11
<1>12. QED
  BY <1>1, <1>2, <1>3, <1>4, <1>5, <1>6, <1>7, <1>8, <1>9, <1>10, <1>11 DEF Next

\* The generation of a USB dial is current only until it reports or is replaced.
LEMMA DialStep ==
  ASSUME TypeOK, StopInv, DialInv, [Next]_vars
  PROVE  DialInv'
<1> USE ConnAssumption, TransportAssumption, BoundsAssumption DEF Fault, NoFault,
     Misbehaves, ScheduleReconnect, Reconnect, BecomeReady, CancelCurrent,
     OverwriteCurrent, Receiving, TypeOK, SocketTypes, HistoryTypes, NetStates, StopInv,
     DialInv, vars, session, history, world, stopVars
<1>1. CASE Dial
  BY <1>1 DEF Dial, ConnectStopped, ConnectRefused, ConnectTCP, ConnectUSB
<1>2. ASSUME NEW c \in Conns, DialOutcome(c) PROVE DialInv'
  BY <1>2 DEF DialOutcome, TCPReady, USBDialed, ConnFailed, USBDialFailed
<1>3. ASSUME NEW c \in Conns, ConnCancelled(c) PROVE DialInv'
  BY <1>3 DEF ConnCancelled
<1>4. ASSUME NEW c \in Conns, Receive(c) PROVE DialInv'
  BY <1>4 DEF Receive, ReceiveFails, HelloWhileBound, HelloAccepted, HelloRefused,
       AcceptVerified, AcceptRefused, Busy, AppControl, ControlRejected
<1>5. CASE Watchdog
  BY <1>5 DEF Watchdog, WatchdogHandshake, WatchdogIdle
<1>6. CASE Clock
  BY <1>6 DEF Clock, GraceExpires, HandshakeOverdue, FallSilent
<1>7. CASE ForceReconnect
  BY <1>7 DEF ForceReconnect
<1>8. CASE Stop
  BY <1>8 DEF Stop
<1>9. CASE StopOnQueue
  BY <1>9 DEF StopOnQueue
<1>10. CASE DeviceGone
  BY <1>10 DEF DeviceGone
<1>11. CASE UNCHANGED vars
  BY <1>11
<1>12. QED
  BY <1>1, <1>2, <1>3, <1>4, <1>5, <1>6, <1>7, <1>8, <1>9, <1>10, <1>11 DEF Next

\* scheduleReconnect queues a connect() only after it dropped the dial and the
\* connection, and connect() spends its block before it makes either.
LEMMA ChainStep ==
  ASSUME TypeOK, StopInv, ReadyInv, DialInv, SingleChain, [Next]_vars
  PROVE  SingleChain'
<1> USE ConnAssumption, TransportAssumption, BoundsAssumption DEF Fault, NoFault,
     Misbehaves, ScheduleReconnect, Reconnect, BecomeReady, CancelCurrent,
     OverwriteCurrent, Receiving, TypeOK, SocketTypes, HistoryTypes, WorldTypes,
     StopInv, ReadyInv, DialInv, SingleChain, One, vars, session, history, world,
     stopVars
<1>1. CASE Dial
  BY <1>1 DEF Dial, ConnectStopped, ConnectRefused, ConnectTCP, ConnectUSB
<1>2. ASSUME NEW c \in Conns, DialOutcome(c) PROVE SingleChain'
  BY <1>2 DEF DialOutcome, TCPReady, USBDialed, ConnFailed, USBDialFailed
<1>3. ASSUME NEW c \in Conns, ConnCancelled(c) PROVE SingleChain'
  BY <1>3 DEF ConnCancelled
<1>4. ASSUME NEW c \in Conns, Receive(c) PROVE SingleChain'
  BY <1>4 DEF Receive, ReceiveFails, HelloWhileBound, HelloAccepted, HelloRefused,
       AcceptVerified, AcceptRefused, Busy, AppControl, ControlRejected
<1>5. CASE Watchdog
  BY <1>5 DEF Watchdog, WatchdogHandshake, WatchdogIdle
<1>6. CASE Clock
  BY <1>6 DEF Clock, GraceExpires, HandshakeOverdue, FallSilent
<1>7. CASE ForceReconnect
  <2>1. /\ ~stopped
        /\ ScheduleReconnect(net, connectionReady, "running")
        /\ overlapped' = (overlapped \/ retries > 0)
    BY <1>7 DEF ForceReconnect
  <2>2. CASE retries > 0
    <3>1. overlapped'
      BY <2>1, <2>2
    <3>2. QED
      BY <3>1
  <2>3. CASE ~(retries > 0)
    <3>1. overlapped' <=> overlapped
      BY <2>1, <2>3
    <3>2. retries = 0
      BY <2>3
    <3>3. QED
      BY <2>1, <3>1, <3>2
  <2>4. QED
    BY <2>2, <2>3
<1>8. CASE Stop
  BY <1>8 DEF Stop
<1>9. CASE StopOnQueue
  BY <1>9 DEF StopOnQueue
<1>10. CASE DeviceGone
  BY <1>10 DEF DeviceGone
<1>11. CASE UNCHANGED vars
  BY <1>11
<1>12. QED
  BY <1>1, <1>2, <1>3, <1>4, <1>5, <1>6, <1>7, <1>8, <1>9, <1>10, <1>11 DEF Next

\* connectionReady and the bound session are set together by the accept; a
\* connection replaces another only when a second chain exists.
LEMMA UsableStep ==
  ASSUME TypeOK, StopInv, ReadyInv, DialInv, SingleChain, UsableUnlessOverlapped,
       CoverInv, [Next]_vars
  PROVE  UsableUnlessOverlapped'
<1> USE ConnAssumption, TransportAssumption, BoundsAssumption DEF Fault, NoFault,
     Misbehaves, ScheduleReconnect, Reconnect, BecomeReady, CancelCurrent,
     OverwriteCurrent, Receiving, TypeOK, SocketTypes, SessionTypes, HistoryTypes,
     WorldTypes, StopInv, ReadyInv, SingleChain, One, UsableUnlessOverlapped,
     UsableOnlyAfterAccept, Usable, DialInv, vars, session, history, world, stopVars
<1>1. CASE Dial
  <2>1. CASE ConnectStopped \/ ConnectRefused
    BY <2>1 DEF ConnectStopped, ConnectRefused
  <2>2. ASSUME NEW c \in Conns, ConnectTCP(c) PROVE UsableUnlessOverlapped'
    BY <2>2 DEF ConnectTCP
  <2>3. ASSUME NEW c \in Conns, ConnectUSB(c) PROVE UsableUnlessOverlapped'
    BY <2>3 DEF ConnectUSB
  <2>4. QED
    BY <1>1, <2>1, <2>2, <2>3 DEF Dial
<1>2. ASSUME NEW c \in Conns, DialOutcome(c) PROVE UsableUnlessOverlapped'
  BY <1>2 DEF DialOutcome, TCPReady, USBDialed, ConnFailed, USBDialFailed
<1>3. ASSUME NEW c \in Conns, ConnCancelled(c) PROVE UsableUnlessOverlapped'
  BY <1>3 DEF ConnCancelled
<1>4. ASSUME NEW c \in Conns, Receive(c) PROVE UsableUnlessOverlapped'
  <2>1. CASE ReceiveFails(c) \/ HelloWhileBound(c) \/ AppControl(c)
    BY <2>1 DEF ReceiveFails, HelloWhileBound, AppControl
  <2>2. CASE HelloAccepted(c) \/ AcceptVerified(c)
    BY <2>2 DEF HelloAccepted, AcceptVerified
  <2>3. CASE HelloRefused(c) \/ AcceptRefused(c)
    BY <2>3 DEF HelloRefused, AcceptRefused
  <2>4. CASE Busy(c) \/ ControlRejected(c)
    BY <2>4 DEF Busy, ControlRejected
  <2>5. QED
    BY <1>4, <2>1, <2>2, <2>3, <2>4 DEF Receive
<1>5. CASE Watchdog
  BY <1>5 DEF Watchdog, WatchdogHandshake, WatchdogIdle
<1>6. CASE Clock
  BY <1>6 DEF Clock, GraceExpires, HandshakeOverdue, FallSilent
<1>7. CASE ForceReconnect
  BY <1>7 DEF ForceReconnect
<1>8. CASE Stop
  BY <1>8 DEF Stop
<1>9. CASE StopOnQueue
  BY <1>9 DEF StopOnQueue
<1>10. CASE DeviceGone
  BY <1>10 DEF DeviceGone
<1>11. CASE UNCHANGED vars
  BY <1>11
<1>12. QED
  BY <1>1, <1>2, <1>3, <1>4, <1>5, <1>6, <1>7, <1>8, <1>9, <1>10, <1>11 DEF Next

\* Whoever gives up on a stream either leaves a deadline behind it or reports.
LEMMA CoverStep ==
  ASSUME TypeOK, StopInv, ReadyInv, DialInv, CoverInv, [Next]_vars
  PROVE  CoverInv'
<1> USE ConnAssumption, TransportAssumption, BoundsAssumption DEF Fault, NoFault,
     Misbehaves, ScheduleReconnect, Reconnect, BecomeReady, CancelCurrent,
     OverwriteCurrent, Receiving, TypeOK, SocketTypes, SessionTypes, HistoryTypes,
     NetStates, Deadlines, Graces, StopInv, ReadyInv, DialInv, CoverInv, vars, session,
     history, world, stopVars
<1>1. CASE Dial
  BY <1>1 DEF Dial, ConnectStopped, ConnectRefused, ConnectTCP, ConnectUSB
<1>2. ASSUME NEW c \in Conns, DialOutcome(c) PROVE CoverInv'
  BY <1>2 DEF DialOutcome, TCPReady, USBDialed, ConnFailed, USBDialFailed
<1>3. ASSUME NEW c \in Conns, ConnCancelled(c) PROVE CoverInv'
  BY <1>3 DEF ConnCancelled
<1>4. ASSUME NEW c \in Conns, Receive(c) PROVE CoverInv'
  BY <1>4 DEF Receive, ReceiveFails, HelloWhileBound, HelloAccepted, HelloRefused,
       AcceptVerified, AcceptRefused, Busy, AppControl, ControlRejected
<1>5. CASE Watchdog
  BY <1>5 DEF Watchdog, WatchdogHandshake, WatchdogIdle
<1>6. CASE Clock
  BY <1>6 DEF Clock, GraceExpires, HandshakeOverdue, FallSilent
<1>7. CASE ForceReconnect
  BY <1>7 DEF ForceReconnect
<1>8. CASE Stop
  BY <1>8 DEF Stop
<1>9. CASE StopOnQueue
  BY <1>9 DEF StopOnQueue
<1>10. CASE DeviceGone
  BY <1>10 DEF DeviceGone
<1>11. CASE UNCHANGED vars
  BY <1>11
<1>12. QED
  BY <1>1, <1>2, <1>3, <1>4, <1>5, <1>6, <1>7, <1>8, <1>9, <1>10, <1>11 DEF Next

\* IInv holds initially.
LEMMA InitInv == Init => IInv
<1> SUFFICES ASSUME Init PROVE IInv
  OBVIOUS
<1>1. SocketTypes /\ SessionTypes
  BY ConnAssumption DEF Init, SocketTypes, SessionTypes, NetStates, Deadlines
<1>2. HistoryTypes
  BY DEF Init, HistoryTypes, Graces
<1>6. WorldTypes
  <2>1. forces = 0 /\ faults = 0
    BY DEF Init
  <2>2. gone \in BOOLEAN /\ overlapped \in BOOLEAN
    BY DEF Init
  <2>3. QED
    BY <2>1, <2>2, BoundsAssumption DEF WorldTypes
<1>3. StopInv /\ ReadyInv /\ DialInv /\ GraceStartsWithOutage /\ CoverInv
  BY DEF Init, StopInv, StopIsFinal, ReadyInv, DialInv, GraceStartsWithOutage, CoverInv
<1>4. SingleChain /\ UsableUnlessOverlapped
  BY DEF Init, SingleChain, One, UsableUnlessOverlapped, UsableOnlyAfterAccept, Usable
<1>5. QED
  BY <1>1, <1>2, <1>6, <1>3, <1>4 DEF IInv, TypeOK

\* IInv is inductive.
LEMMA InvStep == IInv /\ [Next]_vars => IInv'
  BY SocketStep, SessionStep, HistoryStep, WorldStep, StopStep, ReadyStep, GraceStep,
     DialStep, ChainStep, UsableStep, CoverStep
     DEF IInv, TypeOK

\* Every reachable state satisfies IInv.
LEMMA Inductive == Spec => []IInv
  BY InitInv, InvStep, PTL DEF Spec

\* Every variable stays in its range.
THEOREM TypeCorrect == Spec => []TypeOK
  BY Inductive, PTL DEF IInv

\* stop() is final: no retry and no late USB dial brings a connection back.
THEOREM StopFinal == Spec => []StopIsFinal
  BY Inductive, PTL DEF IInv, StopInv

\* Each outage gets its own grace window.
THEOREM GraceFresh == Spec => []GraceStartsWithOutage
  BY Inductive, PTL DEF IInv

\* There is at most one chain of retries unless Reconnect overlapped one.
THEOREM OneChain == Spec => []SingleChain
  BY Inductive, PTL DEF IInv

\* Frames go only to a stream whose own session-accept verified, unless
\* Reconnect overlapped a retry.
THEOREM UsableAfterAccept == Spec => []UsableUnlessOverlapped
  BY Inductive, PTL DEF IInv

\* CoverInv and its companions say more than ArmedUnlessStranded.
LEMMA CoveredIsArmed == IInv => ArmedUnlessStranded
  BY DEF IInv, CoverInv, DialInv, ReadyInv, StopInv, TypeOK, SocketTypes, SessionTypes,
       NetStates,
     ArmedUnlessStranded, Armed, Stranded

\* A sender always has something armed that will bring it back or end it,
\* except after the stream of a bound session ended.
THEOREM AlwaysArmed == Spec => []ArmedUnlessStranded
  BY Inductive, CoveredIsArmed, PTL
-----------------------------------------------------------------------------
(* Action properties and the contract.                                      *)

\* LateCallbacksIgnored, as an action.
LateOK ==
    \A c \in Conns : LateCallback(c) =>
        UNCHANGED <<connection, connectionReady, pendingSession, boundSession,
                    handshakeStartedAt, disconnectedSince, retries, notified>>

\* An object that is neither current nor being dialed reports to nobody.
LEMMA LateStep ==
  ASSUME IInv, [Next]_vars
  PROVE  LateOK
<1> USE ConnAssumption, TransportAssumption, BoundsAssumption DEF LateOK, LateCallback,
     IInv, TypeOK, SocketTypes, SessionTypes, HistoryTypes, NetStates, Fault, NoFault,
     Misbehaves, ScheduleReconnect, Reconnect, BecomeReady, CancelCurrent,
     OverwriteCurrent, Receiving, DialInv, vars, session, history, world, stopVars
<1>1. CASE Dial
  BY <1>1 DEF Dial, ConnectStopped, ConnectRefused, ConnectTCP, ConnectUSB
<1>2. ASSUME NEW c \in Conns, DialOutcome(c) PROVE LateOK
  BY <1>2 DEF DialOutcome, TCPReady, USBDialed, ConnFailed, USBDialFailed
<1>3. ASSUME NEW c \in Conns, ConnCancelled(c) PROVE LateOK
  BY <1>3 DEF ConnCancelled
<1>4. ASSUME NEW c \in Conns, Receive(c) PROVE LateOK
  BY <1>4 DEF Receive, ReceiveFails, HelloWhileBound, HelloAccepted, HelloRefused,
       AcceptVerified, AcceptRefused, Busy, AppControl, ControlRejected
<1>5. CASE Watchdog
  BY <1>5 DEF Watchdog, WatchdogHandshake, WatchdogIdle
<1>6. CASE Clock
  BY <1>6 DEF Clock, GraceExpires, HandshakeOverdue, FallSilent
<1>7. CASE ForceReconnect
  BY <1>7 DEF ForceReconnect
<1>8. CASE Stop
  BY <1>8 DEF Stop
<1>9. CASE StopOnQueue
  BY <1>9 DEF StopOnQueue
<1>10. CASE DeviceGone
  BY <1>10 DEF DeviceGone
<1>11. CASE UNCHANGED vars
  BY <1>11
<1>12. QED
  BY <1>1, <1>2, <1>3, <1>4, <1>5, <1>6, <1>7, <1>8, <1>9, <1>10, <1>11 DEF Next
\* A step of the contract, or a stutter.
ContractStep == [Contract!Next]_(Contract!vars)

\* scheduleReconnect, from any of its callers, loses the stream, gives the
\* session up, or changes nothing the contract speaks of.
LEMMA ReconnectRefines ==
  ASSUME IInv, NEW s, NEW ready \in BOOLEAN, NEW since,
         ScheduleReconnect(s, ready, since),
         UNCHANGED <<everConnected, stopped, stopping>>,
         connection # NoConn =>
            \/ s[connection] # "ready"
            \/ s[connection] = net[connection] /\ ready = connectionReady,
         \/ since = disconnectedSince /\ UNCHANGED overlapped
         \/ since = "running" /\ ~stopped /\ overlapped' \in {overlapped, TRUE}
  PROVE  ContractStep
<1>1. CASE stopped
  <2>1. /\ net' = s /\ connectionReady' = ready
        /\ UNCHANGED <<connection, notified, overlapped>>
    BY <1>1 DEF ScheduleReconnect
  <2>2. Phase' = Phase \/ (Phase \in {"authenticating", "streaming"} /\ Phase' = "offline")
    BY <2>1 DEF Phase
  <2>3. QED
    BY <2>1, <2>2 DEF ContractStep, Contract!Next, Contract!vars, Contract!OpenStream,
         Contract!Accept, Contract!Lose, Contract!GiveUp, Contract!Overlap, Contract!End
<1>2. CASE ~stopped /\ everConnected /\ since = "expired"
  <2>1. /\ net' = s /\ connectionReady' = ready /\ notified'
        /\ UNCHANGED connection
    BY <1>2 DEF ScheduleReconnect
  <2>2. UNCHANGED <<overlapped, everConnected>>
    BY <1>2
  <2>3. stopping = "no" /\ disconnectedSince = "expired"
    BY <1>2 DEF IInv, StopInv
  <2>4. boundSession = NoConn
    BY <2>3 DEF IInv, GraceStartsWithOutage
  <2>5. Phase \in {"offline", "authenticating"}
    BY <2>3, <2>4, ConnAssumption DEF Phase, IInv, CoverInv, TypeOK, SocketTypes
  <2>6. Phase' = Phase \/ (Phase = "authenticating" /\ Phase' = "offline")
    BY <2>1, <2>3, <2>5 DEF Phase
  <2>7. QED
    BY <1>2, <2>1, <2>2, <2>5, <2>6 DEF ContractStep, Contract!Next, Contract!vars,
         Contract!OpenStream, Contract!Accept, Contract!Lose, Contract!GiveUp,
         Contract!Overlap, Contract!End
<1>3. CASE ~stopped /\ ~(everConnected /\ since = "expired")
  <2>1. connection' = NoConn /\ UNCHANGED notified
    BY <1>3 DEF ScheduleReconnect
  <2>2. stopping = "no"
    BY <1>3 DEF IInv, StopInv
  <2>3. Phase' = "offline" /\ Phase \in {"offline", "authenticating", "streaming"}
    BY <2>1, <2>2 DEF Phase
  <2>4. QED
    BY <2>1, <2>3 DEF ContractStep, Contract!Next, Contract!vars, Contract!OpenStream,
         Contract!Accept, Contract!Lose, Contract!GiveUp, Contract!Overlap, Contract!End
<1>4. QED
  BY <1>1, <1>2, <1>3

\* Every handler is a step of the contract or a stutter.
LEMMA RefineStep ==
  ASSUME IInv, IInv', [Next]_vars
  PROVE  ContractStep
<1> USE ConnAssumption, TransportAssumption, BoundsAssumption DEF ContractStep, Phase,
     Contract!Next, Contract!vars, Contract!OpenStream, Contract!Accept, Contract!Lose,
     Contract!GiveUp, Contract!Overlap, Contract!End, IInv, TypeOK, SocketTypes,
     SessionTypes, HistoryTypes, NetStates, StopInv, ReadyInv, DialInv, CoverInv,
     StopIsFinal, Fault, NoFault, Misbehaves, ScheduleReconnect, Reconnect, BecomeReady,
     CancelCurrent, OverwriteCurrent, Receiving, vars, session, history, world, stopVars
<1>1. CASE Dial
  BY <1>1 DEF Dial, ConnectStopped, ConnectRefused, ConnectTCP, ConnectUSB
<1>2. ASSUME NEW c \in Conns, DialOutcome(c) PROVE ContractStep
  <2>1. CASE TCPReady(c)
    BY <2>1 DEF TCPReady
  <2>2. CASE USBDialed(c)
    <3>1. CASE c = currentDial /\ ~stopped
      <4>1. connection' = c /\ net'[c] = "ready" /\ ~connectionReady'
        BY <2>2, <3>1 DEF USBDialed, IInv, TypeOK, SocketTypes
      <4>2. UNCHANGED <<everConnected, notified, overlapped, stopping>>
        BY <2>2, <3>1 DEF USBDialed
      <4>3. c # NoConn /\ stopping = "no"
        BY <3>1, ConnAssumption DEF IInv, StopInv
      <4>4. Phase' = "authenticating" /\ Phase # "ended"
        BY <4>1, <4>2, <4>3 DEF Phase
      <4>5. overlapped \/ connection = NoConn
        BY <3>1, <4>3 DEF IInv, SingleChain, One, TypeOK, SocketTypes
      <4>6. QED
        BY <4>2, <4>4, <4>5 DEF Phase, ContractStep, Contract!Next, Contract!OpenStream,
             Contract!vars
    <3>2. CASE ~(c = currentDial /\ ~stopped)
      <4>1. /\ net' = [net EXCEPT ![c] = "free"] /\ net[c] = "dialing"
            /\ UNCHANGED <<connection, session, everConnected, notified, overlapped, stopping>>
        BY <2>2, <3>2 DEF USBDialed
      <4>2. connection # c
        BY <2>2, <4>1 DEF USBDialed, IInv, DialInv
      <4>5. connection # NoConn => net'[connection] = net[connection]
        BY <4>1, <4>2 DEF IInv, TypeOK, SocketTypes
      <4>3. Phase' = Phase
        BY <4>1, <4>5 DEF Phase
      <4>4. QED
        BY <4>1, <4>3 DEF ContractStep, Contract!vars
    <3>3. QED
      BY <3>1, <3>2
  <2>3. CASE ConnFailed(c)
    <3>1. UNCHANGED <<everConnected, stopped, stopping, overlapped>>
      BY <2>3 DEF ConnFailed
    <3>2. CASE c # connection
      <4>1. /\ net' = [net EXCEPT ![c] = "free"]
            /\ UNCHANGED <<connection, session, notified>>
        BY <2>3, <3>2 DEF ConnFailed
      <4>2. connection # NoConn => net'[connection] = net[connection]
        BY <3>2, <4>1 DEF IInv, TypeOK, SocketTypes
      <4>3. Phase' = Phase
        BY <3>1, <4>1, <4>2 DEF Phase
      <4>4. QED
        BY <3>1, <4>1, <4>3 DEF ContractStep, Contract!vars
    <3>3. CASE /\ c = connection
               /\ ScheduleReconnect([net EXCEPT ![c] = "failed"], FALSE, disconnectedSince)
      <4>1. [net EXCEPT ![c] = "failed"][connection] # "ready"
        BY <3>3 DEF IInv, TypeOK, SocketTypes
      <4>2. QED
        BY <3>1, <3>3, <4>1, ReconnectRefines
    <3>4. CASE /\ c = connection /\ net[c] = "dialing"
               /\ ScheduleReconnect(net, FALSE, disconnectedSince)
      BY <3>1, <3>4, ReconnectRefines
    <3>5. QED
      BY <2>3, <3>2, <3>3, <3>4 DEF ConnFailed
  <2>4. CASE USBDialFailed(c)
    <3>1. /\ UNCHANGED <<everConnected, stopped, stopping, overlapped>>
          /\ net[c] = "dialing" /\ transport = "authenticatedUSB"
      BY <2>4 DEF USBDialFailed
    <3>2. connection # NoConn => [net EXCEPT ![c] = "free"][connection] = net[connection]
      BY <3>1 DEF IInv, DialInv, TypeOK, SocketTypes
    <3>3. CASE ScheduleReconnect([net EXCEPT ![c] = "free"], connectionReady, disconnectedSince)
      BY <3>1, <3>2, <3>3, ReconnectRefines DEF IInv, TypeOK, SessionTypes
    <3>4. CASE net' = [net EXCEPT ![c] = "free"] /\ UNCHANGED <<connection, session, notified>>
      <4>1. Phase' = Phase
        BY <3>1, <3>2, <3>4 DEF Phase
      <4>2. QED
        BY <3>1, <3>4, <4>1 DEF ContractStep, Contract!vars
    <3>5. QED
      BY <2>4, <3>3, <3>4 DEF USBDialFailed
  <2>5. QED
    BY <1>2, <2>1, <2>2, <2>3, <2>4 DEF DialOutcome
<1>3. ASSUME NEW c \in Conns, ConnCancelled(c) PROVE ContractStep
  BY <1>3 DEF ConnCancelled
<1>4. ASSUME NEW c \in Conns, Receive(c) PROVE ContractStep
  <2>1. CASE ReceiveFails(c)
    BY <2>1 DEF ReceiveFails
  <2>2. CASE HelloWhileBound(c)
    BY <2>2 DEF HelloWhileBound
  <2>3. CASE HelloAccepted(c)
    BY <2>3 DEF HelloAccepted
  <2>4. CASE HelloRefused(c)
    BY <2>4 DEF HelloRefused
  <2>5. CASE AcceptVerified(c)
    <3>1. /\ connection = c /\ net[c] = "ready"
          /\ connectionReady' /\ everConnected'
          /\ UNCHANGED <<connection, net, notified, stopping, overlapped>>
      BY <2>5 DEF AcceptVerified
    <3>2. stopping # "done" /\ c # NoConn
      BY <3>1, ConnAssumption DEF IInv, StopInv, StopIsFinal
    <3>3. ~connectionReady
      <4>1. pendingSession = c
        BY <2>5 DEF AcceptVerified
      <4>2. boundSession = NoConn
        BY <4>1, <3>2 DEF IInv, ReadyInv
      <4>3. QED
        BY <3>1, <3>2, <4>2 DEF IInv, CoverInv
    <3>4. Phase = "authenticating" /\ Phase' = "streaming"
      BY <3>1, <3>2, <3>3 DEF Phase
    <3>5. QED
      BY <3>1, <3>4 DEF ContractStep, Contract!Next, Contract!Accept
  <2>6. CASE AcceptRefused(c)
    <3>1. CASE Reconnect
      BY <2>6, <3>1, ReconnectRefines DEF AcceptRefused, Reconnect, IInv, TypeOK,
           SessionTypes
    <3>2. CASE UNCHANGED <<connection, net, session, notified>>
      BY <2>6, <3>2 DEF AcceptRefused
    <3>3. QED
      BY <2>6, <3>1, <3>2 DEF AcceptRefused
  <2>7. CASE Busy(c)
    BY <2>7 DEF Busy
  <2>8. CASE AppControl(c)
    BY <2>8 DEF AppControl
  <2>9. CASE ControlRejected(c)
    <3>1. Reconnect /\ UNCHANGED <<everConnected, stopped, stopping, overlapped>>
      BY <2>9 DEF ControlRejected, Misbehaves, Fault, stopVars
    <3>2. QED
      BY <3>1, ReconnectRefines DEF Reconnect, IInv, TypeOK, SessionTypes
  <2>10. QED
    BY <1>4, <2>1, <2>2, <2>3, <2>4, <2>5, <2>6, <2>7, <2>8, <2>9 DEF Receive
<1>5. CASE Watchdog
  <2>1. CASE WatchdogHandshake
    BY <2>1 DEF WatchdogHandshake
  <2>2. CASE WatchdogIdle
    <3>1. Reconnect /\ UNCHANGED <<everConnected, stopped, stopping, overlapped>>
      BY <2>2 DEF WatchdogIdle, stopVars, world
    <3>2. QED
      BY <3>1, ReconnectRefines DEF Reconnect, IInv, TypeOK, SessionTypes
  <2>3. QED
    BY <1>5, <2>1, <2>2 DEF Watchdog
<1>6. CASE Clock
  BY <1>6 DEF Clock, GraceExpires, HandshakeOverdue, FallSilent
<1>7. CASE ForceReconnect
  <2>1. /\ ~stopped
        /\ ScheduleReconnect(net, connectionReady, "running")
        /\ UNCHANGED <<everConnected, stopped, stopping>>
        /\ overlapped' = (overlapped \/ retries > 0)
    BY <1>7 DEF ForceReconnect
  <2>2. overlapped' \in {overlapped, TRUE}
    BY <2>1 DEF IInv, TypeOK, WorldTypes
  <2>3. QED
    BY <2>1, <2>2, ReconnectRefines DEF IInv, TypeOK, SessionTypes
<1>8. CASE Stop
  BY <1>8 DEF Stop
<1>9. CASE StopOnQueue
  BY <1>9 DEF StopOnQueue
<1>10. CASE DeviceGone
  BY <1>10 DEF DeviceGone
<1>11. CASE UNCHANGED vars
  BY <1>11
<1>12. QED
  BY <1>1, <1>2, <1>3, <1>4, <1>5, <1>6, <1>7, <1>8, <1>9, <1>10, <1>11 DEF Next

\* The connection machine implements SessionContract.
THEOREM Implements == Spec => ImplementsContract
<1>1. Init => Contract!Init
  BY DEF Init, Contract!Init, Phase
<1>2. IInv /\ IInv' /\ [Next]_vars => [Contract!Next]_(Contract!vars)
  BY RefineStep DEF ContractStep
<1>3. QED
  BY <1>1, <1>2, Inductive, PTL DEF Spec, ImplementsContract, Contract!Spec

\* Late callbacks of superseded objects never touch the current session.
THEOREM LateIgnored == Spec => LateCallbacksIgnored
<1>1. IInv /\ [Next]_vars => [LateOK]_vars
  BY LateStep
<1>2. QED
  BY <1>1, Inductive, PTL DEF Spec, LateCallbacksIgnored, LateOK
=============================================================================
