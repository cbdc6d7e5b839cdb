-------------------------- MODULE SenderController --------------------------
(***************************************************************************)
(* SenderController (Mac/OpenSidecarMacApp.swift): which device is streamed*)
(* to over which transport.  Sessions are created by connect(), ended by   *)
(* end(), and a session that is ending stays in `sessions` until its       *)
(* sender's stop() has returned; only then does the completion handed to   *)
(* end() run.  All of it runs on the main actor, so one event is one step; *)
(* what interleaves is the user, usbmux and Bonjour, the callbacks of the  *)
(* senders, and the ends of start() and stop().                            *)
(*                                                                         *)
(* Every device is paired and its Bonjour record carries its id; the cable *)
(* side of a device is known to be the same hardware once its install id   *)
(* is (installIDByUDID).  The manual host of the command line is left out. *)
(***************************************************************************)
EXTENDS FiniteSets, Integers

CONSTANTS
    Devices,
    MaxObjects,        \* DeviceSession objects of one target; two are as good as more
    MaxRestarts        \* bound on calls of restartAll

ASSUME BoundsAssumption == MaxObjects \in Nat \ {0, 1} /\ MaxRestarts \in Nat

Targets == [transport : {"usb", "wifi"}, device : Devices]
Usb(d)  == [transport |-> "usb", device |-> d]
Wifi(d) == [transport |-> "wifi", device |-> d]

OtherSide(t) == IF t.transport = "usb" THEN Wifi(t.device) ELSE Usb(t.device)

\* DeviceSession objects, taken again once they left the list; `target` is a `let`.
Slots == [target : Targets, object : 1..MaxObjects]

VARIABLES
    ctl,               \* the controller: `sessions` is the published list; lifecycle,
                       \* completion: each object's SessionLifecycleState ("stopped"
                       \* as well before it is a session) and what end() was called with;
                       \* usbDisabled, wifiRemembered: opted out, remembered devices
    usbDevices,        \* devices usbmux reports
    discovered,        \* devices whose service Bonjour reports
    installIDs,        \* devices whose install id a cable session announced
    lonePairing,       \* whether only one receiver is paired
    autoConnectEnabled, \* false under `-autostart NO`
    window,            \* wifiAutoConnect: "before", "open", "closed"
    restarts           \* the calls of restartAll: their targets, and `remaining`

world == <<usbDevices, discovered, window, lonePairing, autoConnectEnabled>>
vars == <<ctl, world, installIDs, restarts>>

\* "settled": start() returned or threw, .connected or .failed in the code,
\* which the controller treats alike.
Live == {"starting", "settled"}

\* What the completion handed to end() does.
Nothing == [does |-> "nothing"]

Init ==
    /\ ctl \in [sessions : {{}},
                lifecycle : {[s \in Slots |-> "stopped"]},
                completion : {[s \in Slots |-> Nothing]},
                usbDisabled : SUBSET Devices,        \* these two and installIDs
                wifiRemembered : SUBSET Devices]     \* are kept in UserDefaults
    /\ usbDevices = {}
    /\ discovered = {}
    /\ installIDs \in SUBSET Devices
    /\ lonePairing \in BOOLEAN /\ (lonePairing => Cardinality(Devices) = 1)
    /\ autoConnectEnabled \in BOOLEAN
    /\ window = "before"
    /\ restarts = <<>>

-----------------------------------------------------------------------------
(* The controller's functions, from one state of it to the next             *)

SessionsFor(st, t) == {s \in st.sessions : s.target = t}

\* samePhysicalDevice, for the two sides of one device.
Known(d) == d \in installIDs

\* Mutant of Covering: the other transport is not looked at.
CoveringDirect(st, t, attached) == SessionsFor(st, t)

\* activeSession(coveringUSB:) and activeSession(coveringWiFi:).
Covering(st, t, attached) ==
    SessionsFor(st, t) \cup
    IF t.device \in attached /\ Known(t.device) THEN SessionsFor(st, OtherSide(t)) ELSE {}

\* Mutant of EndAll: the completion is dropped.
EndAllForgets(st, ending, completion) ==
    [st EXCEPT !.lifecycle = [s \in Slots |->
        IF s \in ending /\ @[s] \in Live THEN "stopping" ELSE @[s]]]

\* end() of each: refused for a session that is ending already, completion and all.
EndAll(st, ending, completion) ==
    LET ended == {s \in ending : st.lifecycle[s] \in Live}
    IN  [st EXCEPT
          !.lifecycle = [s \in Slots |-> IF s \in ended THEN "stopping" ELSE @[s]],
          !.completion = [s \in Slots |-> IF s \in ended THEN completion ELSE @[s]]]

End(st, s, completion) == EndAll(st, {s}, completion)

\* A cable is dialed only to a receiver whose key is beyond doubt.
CanDial(t) == t.transport = "wifi" \/ Known(t.device) \/ lonePairing

\* The object of a new session: never one that leaves the list in the same step.
NewObject(t) == CHOOSE s \in Slots \ ctl.sessions : s.target = t

\* The rest of connect() for each of the targets: opted in again, and a session
\* created where the key allows it.
Create(st, targets) ==
    LET created == {NewObject(t) : t \in {u \in targets : CanDial(u)}}
    IN  [st EXCEPT
          !.sessions = @ \cup created,
          !.lifecycle = [s \in Slots |-> IF s \in created THEN "starting" ELSE @[s]],
          !.usbDisabled = {d \in @ : Usb(d) \notin targets},
          !.wifiRemembered = {d \in Devices : d \in @ \/ Wifi(d) \in targets}]

\* connect(to:userInitiated:), when the user asks for it.
Connect(st, t) ==
    IF SessionsFor(st, t) # {} THEN st
    ELSE IF Covering(st, t, usbDevices) = {} THEN Create(st, {t})
    ELSE End(st, CHOOSE s \in Covering(st, t, usbDevices) : TRUE,
             [does |-> "connect", target |-> t])

\* connect(to:) of targets none of which covers another.
ConnectUncovered(st, targets, attached) ==
    Create(st, {t \in targets : Covering(st, t, attached) = {}})

\* dedupeSessions(): the cable session need not be plugged in.  `ids` is
\* installIDByUDID.
Dedupe(st, ids) ==
    EndAll(st, {s \in st.sessions : /\ s.target.transport = "wifi"
                                    /\ s.target.device \in ids
                                    /\ SessionsFor(st, OtherSide(s.target)) # {}},
           Nothing)

\* Mutant of AutoDialed: the opt-out is not consulted.
AutoDialedAny(u) == u

\* The attached devices that are dialed without being asked for.
AutoDialed(u) == u \ ctl.usbDisabled

\* autoConnect(), after usbDevices, discovered and window became u, w, o.  Under
\* `-autostart NO` it returns at once, before it looks for two sessions of a device.
AutoConnect(u, w, o) ==
    LET wired == ConnectUncovered(Dedupe(ctl, installIDs), {Usb(d) : d \in AutoDialed(u)}, u)
        cabled == {d \in u : Known(d) /\ d \notin wired.usbDisabled}
        remembered == {Wifi(d) : d \in (w \cap wired.wifiRemembered) \ cabled}
    IN  IF ~autoConnectEnabled THEN ctl
        ELSE IF o = "open" THEN ConnectUncovered(wired, remembered, u)
        ELSE wired

-----------------------------------------------------------------------------
(* usbmux, Bonjour and the clock                                            *)

UsbDevicesChange(d) ==
    /\ usbDevices' = IF d \in usbDevices THEN usbDevices \ {d} ELSE usbDevices \cup {d}
    /\ ctl' = AutoConnect(usbDevices', discovered, window)
    /\ UNCHANGED <<discovered, window, lonePairing, autoConnectEnabled, installIDs, restarts>>

DiscoveryChanges(d) ==
    /\ discovered' = IF d \in discovered THEN discovered \ {d} ELSE discovered \cup {d}
    /\ ctl' = AutoConnect(usbDevices, discovered', window)
    /\ UNCHANGED <<usbDevices, window, lonePairing, autoConnectEnabled, installIDs, restarts>>

\* The window in which remembered WiFi devices are dialed opens and closes.
WindowMoves ==
    /\ \/ /\ window = "before" /\ window' = "open"
          /\ ctl' = AutoConnect(usbDevices, discovered, window')
       \/ /\ window = "open" /\ window' = "closed"
          /\ UNCHANGED ctl
    /\ UNCHANGED <<usbDevices, discovered, lonePairing, autoConnectEnabled, installIDs, restarts>>

-----------------------------------------------------------------------------
(* The user                                                                 *)

Visible(t) == t.device \in IF t.transport = "usb" THEN usbDevices ELSE discovered

Tap(t) ==
    /\ Visible(t)
    /\ ctl' = Connect(ctl, t)
    /\ UNCHANGED <<world, installIDs, restarts>>

\* disconnect() of each: its device is opted out of auto-connect, then it ends.
OptOut(st, leaving) ==
    EndAll([st EXCEPT
             !.usbDisabled = @ \cup {d \in Devices : \E s \in leaving : s.target = Usb(d)},
             !.wifiRemembered = {d \in @ : \A s \in leaving : s.target # Wifi(d)}],
           leaving, Nothing)

Disconnect(s) ==
    /\ s \in ctl.sessions
    /\ ctl' = OptOut(ctl, {s})
    /\ UNCHANGED <<world, installIDs, restarts>>

DisconnectAll ==
    /\ ctl.sessions # {}
    /\ ctl' = OptOut(ctl, ctl.sessions)
    /\ UNCHANGED <<world, installIDs, restarts>>

\* restartAll(): a completion per session counts `remaining` down.
RestartAll ==
    /\ ctl.sessions # {}
    /\ Cardinality(DOMAIN restarts) < MaxRestarts
    /\ LET call == Cardinality(DOMAIN restarts) + 1
       IN  /\ restarts' = [k \in 1..call |->
                             IF k < call THEN restarts[k]
                             ELSE [targets |-> {s.target : s \in ctl.sessions},
                                   remaining |-> Cardinality(ctl.sessions),
                                   refused |-> \E s \in ctl.sessions :
                                                   ctl.lifecycle[s] \notin Live]]
           /\ ctl' = EndAll(ctl, ctl.sessions, [does |-> "restart", call |-> call])
    /\ UNCHANGED <<world, installIDs>>

-----------------------------------------------------------------------------
(* The senders                                                              *)

\* onHello: a cable session learns which receiver hangs on the cable.
Hello(s) ==
    /\ s \in ctl.sessions
    /\ installIDs' = IF s.target.transport = "usb"
                     THEN installIDs \cup {s.target.device} ELSE installIDs
    /\ ctl' = Dedupe(ctl, installIDs')
    /\ UNCHANGED <<world, restarts>>

\* onDisconnected: the device stayed gone past the grace.
Disconnected(s) ==
    /\ s \in ctl.sessions
    /\ ctl' = End(ctl, s, Nothing)
    /\ UNCHANGED <<world, installIDs, restarts>>

\* sender.start() returned, threw, or was cancelled.  When its session has been
\* ended, owns() or the lifecycle refuses the news and nothing changes.
StartReturns(s) ==
    /\ s \in ctl.sessions /\ ctl.lifecycle[s] = "starting"
    /\ ctl' = [ctl EXCEPT !.lifecycle[s] = "settled"]
    /\ UNCHANGED <<world, installIDs, restarts>>

\* Mutant of Leave: no removal from the list.
LeaveListed(s) == [ctl EXCEPT !.lifecycle[s] = "stopped"]

\* The session has stopped and leaves the list.
Leave(s) ==
    [ctl EXCEPT !.sessions = @ \ {s}, !.lifecycle[s] = "stopped", !.completion[s] = Nothing]

\* restartAll's last completion connects the targets in the order of its list, where
\* the two sides of one device stand in either order.
Reconnect(st, targets) ==
    \E first \in SUBSET targets :
        /\ \A t \in targets : OtherSide(t) \in targets => (t \in first) # (OtherSide(t) \in first)
        /\ ctl' = ConnectUncovered(ConnectUncovered(st, first, usbDevices),
                                   targets \ first, usbDevices)

\* sender.stop() returned: the session leaves the list and its completion runs.
StopReturns(s) ==
    /\ s \in ctl.sessions /\ ctl.lifecycle[s] = "stopping"
    /\ LET c == ctl.completion[s]
       IN  \/ /\ c.does = "nothing"
              /\ ctl' = Leave(s)
              /\ UNCHANGED restarts
           \/ /\ c.does = "connect"
              /\ ctl' = Connect(Leave(s), c.target)
              /\ UNCHANGED restarts
           \/ /\ c.does = "restart"
              /\ restarts' = [restarts EXCEPT ![c.call].remaining = @ - 1]
              /\ IF restarts'[c.call].remaining = 0
                 THEN Reconnect(Leave(s), restarts[c.call].targets)
                 ELSE ctl' = Leave(s)
    /\ UNCHANGED <<world, installIDs>>

-----------------------------------------------------------------------------
Next ==
    \/ \E d \in Devices : UsbDevicesChange(d) \/ DiscoveryChanges(d)
    \/ WindowMoves
    \/ \E t \in Targets : Tap(t)
    \/ DisconnectAll \/ RestartAll
    \/ \E s \in Slots : \/ Disconnect(s) \/ Hello(s) \/ Disconnected(s)
                        \/ StartReturns(s) \/ StopReturns(s)

Spec == Init /\ [][Next]_vars

\* stop() waits for one block of the sender's queue, and returns.
FairSpec == Spec /\ \A s \in Slots : WF_vars(StopReturns(s))

-----------------------------------------------------------------------------
(* Properties                                                               *)

\* A plugged-in cable of a known device and its WiFi are both streamed over.
Twins(d) ==
    /\ d \in usbDevices \cap installIDs
    /\ \E s1 \in SessionsFor(ctl, Usb(d)), s2 \in SessionsFor(ctl, Wifi(d)) :
          "stopping" \notin {ctl.lifecycle[s1], ctl.lifecycle[s2]}

\* "Never create a second session for the same physical device": a target has one
\* session, and no step but one makes twins.  That one is plugging the cable back in
\* under `-autostart NO`, while the cable's old session is in its grace and the user
\* went on over WiFi; and no hello leaves the twins it finds.
NoTwins ==
    /\ [](\A s1, s2 \in ctl.sessions : s1.target = s2.target => s1 = s2)
    /\ [][\A d \in Devices : Twins(d)' =>
              /\ Twins(d) \/ (UsbDevicesChange(d) /\ ~autoConnectEnabled)
              /\ \A s \in Slots : ~Hello(s)]_vars

\* "an explicit user click overrides": a takeover that was accepted ends with a
\* session for the target the user chose.
TakeoverHonoured ==
    [][\A s \in Slots :
          /\ ctl.lifecycle[s] = "stopping" /\ ctl'.lifecycle[s] # "stopping"
          /\ ctl.completion[s].does = "connect"
          => \E n \in ctl'.sessions : n.target = ctl.completion[s].target]_vars

\* A device the user disconnected (a cable opted out, a WiFi device forgotten)
\* is dialed again only when the user asks for it, or when a restart that was
\* under way rebuilds it.
OptOutKept ==
    [][\A n \in ctl'.sessions \ ctl.sessions :
          n.target \in {Usb(d) : d \in ctl.usbDisabled}
                           \cup {Wifi(d) : d \in Devices \ ctl.wifiRemembered}
          => \/ Tap(n.target)
             \/ \E s \in ctl.sessions \ ctl'.sessions :
                    ctl.completion[s].does \in {"connect", "restart"}]_vars

\* "Mode/quality apply per-pipeline at construction - rebuild every session":
\* every restart counts down to its end.
RestartRebuilds ==
    \A k \in 1..MaxRestarts :
        (k \in DOMAIN restarts) ~> (k \in DOMAIN restarts /\ restarts[k].remaining = 0)

\* The same, unless some session was ending already when it was called.
RestartRebuildsUnlessRefused ==
    \A k \in 1..MaxRestarts :
        (k \in DOMAIN restarts /\ ~restarts[k].refused)
            ~> (k \in DOMAIN restarts /\ restarts[k].remaining = 0)
=============================================================================
