----------------------- MODULE SenderControllerProofs -----------------------
(***************************************************************************)
(* No step but a replug under `-autostart NO` makes a device streamed to   *)
(* twice, a takeover that was accepted ends in the session the user chose, *)
(* and an opt-out is kept: for any number of devices, of restarts and of   *)
(* session objects from two on.                                            *)
(*                                                                         *)
(* A step applies functions of the controller to one another.  The lemmas  *)
(* say what each does to any state of it, so that the proof of a step only *)
(* strings them together.                                                  *)
(***************************************************************************)
EXTENDS SenderController, FiniteSetTheorems, TLAPS

-----------------------------------------------------------------------------
(* The inductive invariant                                                  *)

Completions ==
    {Nothing} \cup [does : {"connect"}, target : Targets]
              \cup [does : {"restart"}, call : 1..MaxRestarts]

Controllers ==
    [sessions : SUBSET Slots,
     lifecycle : [Slots -> {"stopped", "starting", "settled", "stopping"}],
     completion : [Slots -> Completions],
     usbDisabled : SUBSET Devices,
     wifiRemembered : SUBSET Devices]

\* A completion that fits the session it was given for: a takeover leads to the
\* other side of a device that is known, a restart is one of the calls there were.
Fits(c, s, ids, calls) ==
    /\ c.does = "connect" => c.target = OtherSide(s.target) /\ s.target.device \in ids
    /\ c.does = "restart" => c.call \in calls

\* The listed sessions are those that have not stopped, one for each target.
Listed(st) ==
    /\ \A s \in Slots : s \in st.sessions <=> st.lifecycle[s] # "stopped"
    /\ \A s1, s2 \in st.sessions : s1.target = s2.target => s1 = s2

Sound(st, ids, calls) ==
    /\ st \in Controllers
    /\ Listed(st)
    /\ \A s \in Slots : Fits(st.completion[s], s, ids, calls)

\* No device of the attached ones has twins, in any state of the controller.
Apart(st, ids, attached) ==
    \A d \in attached \cap ids :
        \A s1 \in SessionsFor(st, Usb(d)), s2 \in SessionsFor(st, Wifi(d)) :
            "stopping" \in {st.lifecycle[s1], st.lifecycle[s2]}

IsCall(r) ==
    /\ r = [targets |-> r.targets, remaining |-> r.remaining, refused |-> r.refused]
    /\ r.targets \subseteq Targets

WorldInv ==
    /\ usbDevices \subseteq Devices
    /\ discovered \subseteq Devices
    /\ installIDs \subseteq Devices

CallsInv ==
    /\ \E n \in 0..MaxRestarts : DOMAIN restarts = 1..n
    /\ \A k \in DOMAIN restarts : IsCall(restarts[k])

IInv ==
    /\ WorldInv
    /\ CallsInv
    /\ Sound(ctl, installIDs, DOMAIN restarts)

-----------------------------------------------------------------------------
(* Targets and objects                                                      *)

\* The two sides of a device, and what makes two targets one.
LEMMA Sides ==
    /\ \A d \in Devices : /\ Usb(d) \in Targets /\ Wifi(d) \in Targets
                          /\ OtherSide(Usb(d)) = Wifi(d) /\ OtherSide(Wifi(d)) = Usb(d)
    /\ \A d, e : /\ Usb(d) # Wifi(e)
                 /\ Usb(d) = Usb(e) => d = e
                 /\ Wifi(d) = Wifi(e) => d = e
                 /\ Usb(d).transport = "usb" /\ Wifi(d).transport = "wifi"
                 /\ Usb(d).device = d /\ Wifi(d).device = d
    /\ \A t \in Targets : /\ t.device \in Devices
                          /\ t = Usb(t.device) \/ t = Wifi(t.device)
                          /\ OtherSide(t) \in Targets
                          /\ OtherSide(OtherSide(t)) = t
                          /\ OtherSide(t) # t
                          /\ OtherSide(t).device = t.device
BY DEF Targets, Usb, Wifi, OtherSide

\* The target of an object, and the two objects there are for a target.
LEMMA Objects ==
    /\ \A s \in Slots : s.target \in Targets
    /\ \A t \in Targets : \E a, b \in Slots : a # b /\ a.target = t /\ b.target = t
<1>1. \A s \in Slots : s.target \in Targets
  BY DEF Slots
<1>2. ASSUME NEW t \in Targets
      PROVE  \E a, b \in Slots : a # b /\ a.target = t /\ b.target = t
  <2>1. 1 \in 1..MaxObjects /\ 2 \in 1..MaxObjects
    BY BoundsAssumption
  <2> DEFINE a == [target |-> t, object |-> 1]
             b == [target |-> t, object |-> 2]
  <2>2. a \in Slots /\ b \in Slots /\ a.target = t /\ b.target = t /\ a.object # b.object
    BY <2>1 DEF Slots
  <2>3. a # b
    BY <2>2
  <2>. QED  BY <2>2, <2>3
<1>. QED  BY <1>1, <1>2

\* As no two sessions share a target, there is always an object for a new one.
LEMMA NewObjects ==
    ASSUME Listed(ctl), NEW t \in Targets
    PROVE  /\ NewObject(t) \in Slots
           /\ NewObject(t) \notin ctl.sessions
           /\ NewObject(t).target = t
<1>1. \E s \in Slots \ ctl.sessions : s.target = t
  BY Objects DEF Listed
<1>. QED  BY <1>1 DEF NewObject

-----------------------------------------------------------------------------
(* What the controller's functions do to its fields                         *)

\* end() of some sessions touches lifecycle and completion of the live ones.
LEMMA EndAllFields ==
    ASSUME NEW st \in Controllers, NEW ending, NEW c \in Completions
    PROVE  LET e == EndAll(st, ending, c)
           IN  /\ e \in Controllers
               /\ e.sessions = st.sessions
               /\ \A s \in Slots : e.lifecycle[s] = IF s \in ending /\ st.lifecycle[s] \in Live
                                                    THEN "stopping" ELSE st.lifecycle[s]
               /\ \A s \in Slots : e.completion[s] = IF s \in ending /\ st.lifecycle[s] \in Live
                                                     THEN c ELSE st.completion[s]
               /\ e.usbDisabled = st.usbDisabled
               /\ e.wifiRemembered = st.wifiRemembered
<1> DEFINE ended == {s \in ending : st.lifecycle[s] \in Live}
           l == [s \in Slots |-> IF s \in ended THEN "stopping" ELSE st.lifecycle[s]]
           k == [s \in Slots |-> IF s \in ended THEN c ELSE st.completion[s]]
           e == EndAll(st, ending, c)
<1>1. e = [st EXCEPT !.lifecycle = l, !.completion = k]
  BY DEF EndAll
<1>2. l \in [Slots -> {"stopped", "starting", "settled", "stopping"}]
  BY DEF Controllers
<1>3. k \in [Slots -> Completions]
  BY DEF Controllers
<1>4. \A s \in Slots : l[s] = IF s \in ending /\ st.lifecycle[s] \in Live
                              THEN "stopping" ELSE st.lifecycle[s]
  OBVIOUS
<1>5. \A s \in Slots : k[s] = IF s \in ending /\ st.lifecycle[s] \in Live
                              THEN c ELSE st.completion[s]
  OBVIOUS
<1> HIDE DEF l, k
<1>6. /\ e \in Controllers
      /\ e.sessions = st.sessions /\ e.lifecycle = l /\ e.completion = k
      /\ e.usbDisabled = st.usbDisabled /\ e.wifiRemembered = st.wifiRemembered
  BY <1>1, <1>2, <1>3 DEF Controllers
<1>. QED  BY <1>4, <1>5, <1>6

\* connect() adds the new objects, which are starting, and opts in.
LEMMA CreateFields ==
    ASSUME NEW st \in Controllers, NEW targets \in SUBSET Targets, Listed(ctl)
    PROVE  LET e == Create(st, targets)
               new == {NewObject(t) : t \in {u \in targets : CanDial(u)}}
           IN  /\ e \in Controllers
               /\ e.sessions = st.sessions \cup new
               /\ \A s \in Slots :
                     e.lifecycle[s] = IF s \in new THEN "starting" ELSE st.lifecycle[s]
               /\ e.completion = st.completion
               /\ e.usbDisabled = {d \in st.usbDisabled : Usb(d) \notin targets}
               /\ e.wifiRemembered = {d \in Devices : d \in st.wifiRemembered
                                                         \/ Wifi(d) \in targets}
<1> DEFINE new == {NewObject(t) : t \in {u \in targets : CanDial(u)}}
           all == st.sessions \cup new
           l == [s \in Slots |-> IF s \in new THEN "starting" ELSE st.lifecycle[s]]
           off == {d \in st.usbDisabled : Usb(d) \notin targets}
           known == {d \in Devices : d \in st.wifiRemembered \/ Wifi(d) \in targets}
           e == Create(st, targets)
<1>1. e = [st EXCEPT !.sessions = all, !.lifecycle = l,
                     !.usbDisabled = off, !.wifiRemembered = known]
  BY DEF Create
<1>2. all \subseteq Slots
  BY NewObjects DEF Controllers
<1>3. l \in [Slots -> {"stopped", "starting", "settled", "stopping"}]
  BY DEF Controllers
<1>4. off \subseteq Devices /\ known \subseteq Devices
  BY DEF Controllers
<1>5. \A s \in Slots : l[s] = IF s \in new THEN "starting" ELSE st.lifecycle[s]
  OBVIOUS
<1> HIDE DEF l, new, all, off, known
<1>6. /\ e \in Controllers
      /\ e.sessions = all /\ e.lifecycle = l
      /\ e.completion = st.completion
      /\ e.usbDisabled = off /\ e.wifiRemembered = known
  BY <1>1, <1>2, <1>3, <1>4 DEF Controllers
<1>. QED  BY <1>5, <1>6 DEF new, all, off, known

\* A session that has stopped leaves the list, and its completion goes.
LEMMA LeaveFields ==
    ASSUME ctl \in Controllers, NEW s \in Slots
    PROVE  /\ Leave(s) \in Controllers
           /\ Leave(s).sessions = ctl.sessions \ {s}
           /\ \A z \in Slots : Leave(s).lifecycle[z] = IF z = s THEN "stopped"
                                                       ELSE ctl.lifecycle[z]
           /\ \A z \in Slots : Leave(s).completion[z] = IF z = s THEN Nothing
                                                        ELSE ctl.completion[z]
<1> DEFINE rest == ctl.sessions \ {s}
           l == [ctl.lifecycle EXCEPT ![s] = "stopped"]
           k == [ctl.completion EXCEPT ![s] = Nothing]
<1>1. Leave(s) = [ctl EXCEPT !.sessions = rest, !.lifecycle = l, !.completion = k]
  BY DEF Leave, Controllers
<1>2. /\ l \in [Slots -> {"stopped", "starting", "settled", "stopping"}]
      /\ \A z \in Slots : l[z] = IF z = s THEN "stopped" ELSE ctl.lifecycle[z]
  BY DEF Controllers
<1>3. Nothing \in Completions
  BY DEF Completions
<1>4. /\ k \in [Slots -> Completions]
      /\ \A z \in Slots : k[z] = IF z = s THEN Nothing ELSE ctl.completion[z]
  BY <1>3 DEF Controllers
<1>5. rest \subseteq Slots
  BY DEF Controllers
<1> HIDE DEF rest, l, k
<1>6. /\ Leave(s) \in Controllers
      /\ Leave(s).sessions = rest
      /\ Leave(s).lifecycle = l /\ Leave(s).completion = k
  BY <1>1, <1>2, <1>4, <1>5 DEF Controllers
<1>. QED  BY <1>2, <1>4, <1>6 DEF rest

-----------------------------------------------------------------------------
(* What they keep                                                           *)

\* A session that is stopping is not brought back.
Stays(st, next) ==
    \A s \in ctl.sessions : st.lifecycle[s] = "stopping" => next.lifecycle[s] = "stopping"

\* The new sessions are for targets of a set.
NewFor(st, next, targets) ==
    next.sessions \subseteq st.sessions \cup {x \in Slots \ ctl.sessions : x.target \in targets}

\* No twins are made: whichever of the attached devices had none has none.
MakesNoTwins(st, next, attached) ==
    \A part \in SUBSET attached : Apart(st, installIDs, part) => Apart(next, installIDs, part)

\* end() of some sessions keeps the list and brings none of them back.
LEMMA EndAllKeeps ==
    ASSUME NEW st, NEW ids, NEW calls, NEW ending, NEW c \in Completions,
           Sound(st, ids, calls), Listed(ctl), ctl \in Controllers,
           \A s \in ending \cap Slots : Fits(c, s, ids, calls)
    PROVE  LET e == EndAll(st, ending, c)
           IN  /\ Sound(e, ids, calls)
               /\ e.sessions = st.sessions
               /\ e.usbDisabled = st.usbDisabled
               /\ e.wifiRemembered = st.wifiRemembered
               /\ Stays(st, e)
               /\ \A attached : MakesNoTwins(st, e, attached)
<1> DEFINE e == EndAll(st, ending, c)
<1>1. st \in Controllers
  BY DEF Sound
<1>2. /\ e \in Controllers
      /\ e.sessions = st.sessions
      /\ \A s \in Slots : e.lifecycle[s] = IF s \in ending /\ st.lifecycle[s] \in Live
                                           THEN "stopping" ELSE st.lifecycle[s]
      /\ \A s \in Slots : e.completion[s] = IF s \in ending /\ st.lifecycle[s] \in Live
                                            THEN c ELSE st.completion[s]
      /\ e.usbDisabled = st.usbDisabled
      /\ e.wifiRemembered = st.wifiRemembered
  BY <1>1, EndAllFields
<1> HIDE DEF e
<1>3. Listed(e)
  BY <1>2 DEF Sound, Listed, Live
<1>4. \A s \in Slots : Fits(e.completion[s], s, ids, calls)
  BY <1>2 DEF Sound
<1>5. st.sessions \subseteq Slots /\ ctl.sessions \subseteq Slots
  BY <1>1 DEF Controllers
<1>6. Stays(st, e)
  BY <1>2, <1>5 DEF Stays
<1>7. ASSUME NEW part, Apart(st, installIDs, part)
      PROVE  Apart(e, installIDs, part)
  <2> SUFFICES ASSUME NEW d \in part \cap installIDs,
                      NEW s1 \in SessionsFor(e, Usb(d)), NEW s2 \in SessionsFor(e, Wifi(d))
               PROVE  "stopping" \in {e.lifecycle[s1], e.lifecycle[s2]}
    BY DEF Apart
  <2>1. s1 \in SessionsFor(st, Usb(d)) /\ s2 \in SessionsFor(st, Wifi(d))
    BY <1>2 DEF SessionsFor
  <2>2. "stopping" \in {st.lifecycle[s1], st.lifecycle[s2]} /\ s1 \in Slots /\ s2 \in Slots
    BY <2>1, <1>5, <1>7 DEF Apart, SessionsFor
  <2>. QED  BY <2>2, <1>2
<1>8. Sound(e, ids, calls)
  BY <1>2, <1>3, <1>4 DEF Sound
<1>9. \A attached : MakesNoTwins(st, e, attached)
  BY <1>7 DEF MakesNoTwins
<1>. QED  BY <1>2, <1>6, <1>8, <1>9 DEF e

\* connect() of targets that no session has keeps one session for each target.
LEMMA CreateKeeps ==
    ASSUME NEW st, NEW ids, NEW calls, NEW targets \in SUBSET Targets,
           Sound(st, ids, calls), Listed(ctl), ctl \in Controllers,
           \A t \in targets : SessionsFor(st, t) = {}
    PROVE  LET e == Create(st, targets)
           IN  /\ Sound(e, ids, calls)
               /\ NewFor(st, e, targets)
               /\ Stays(st, e)
<1> DEFINE e == Create(st, targets)
           new == {NewObject(t) : t \in {u \in targets : CanDial(u)}}
<1>1. st \in Controllers
  BY DEF Sound
<1>2. /\ e \in Controllers
      /\ e.sessions = st.sessions \cup new
      /\ \A s \in Slots : e.lifecycle[s] = IF s \in new THEN "starting" ELSE st.lifecycle[s]
      /\ e.completion = st.completion
  BY <1>1, CreateFields
<1>3. \A x \in new : x \in Slots \ ctl.sessions /\ x.target \in targets /\ x = NewObject(x.target)
  BY NewObjects
<1>4. \A x \in new : x \notin st.sessions
  BY <1>3 DEF SessionsFor
<1> HIDE DEF e, new
<1>5. st.sessions \subseteq Slots /\ ctl.sessions \subseteq Slots
  BY <1>1 DEF Controllers
<1>6. \A s \in Slots : s \in e.sessions <=> e.lifecycle[s] # "stopped"
  BY <1>2, <1>3, <1>4 DEF Sound, Listed
<1>7. ASSUME NEW s1 \in e.sessions, NEW s2 \in e.sessions, s1.target = s2.target
      PROVE  s1 = s2
  <2>1. CASE s1 \in st.sessions /\ s2 \in st.sessions
    BY <2>1, <1>7 DEF Sound, Listed
  <2>2. CASE s1 \in new /\ s2 \in new
    BY <2>2, <1>3, <1>7
  <2>3. ~(s1 \in new /\ s2 \in st.sessions)
    BY <1>3, <1>7 DEF SessionsFor
  <2>4. ~(s2 \in new /\ s1 \in st.sessions)
    BY <1>3, <1>7 DEF SessionsFor
  <2>. QED  BY <2>1, <2>2, <2>3, <2>4, <1>2
<1>8. Listed(e)
  BY <1>6, <1>7 DEF Listed
<1>9. Sound(e, ids, calls)
  BY <1>2, <1>8 DEF Sound
<1>10. NewFor(st, e, targets)
  BY <1>2, <1>3 DEF NewFor
<1>11. Stays(st, e)
  BY <1>2, <1>3, <1>5 DEF Stays
<1>. QED  BY <1>9, <1>10, <1>11 DEF e

\* Of targets that nothing covers, and that are not two sides of one device, it
\* makes no twins either.
LEMMA CreateApart ==
    ASSUME NEW st, NEW ids, NEW calls, NEW targets \in SUBSET Targets, NEW attached,
           Sound(st, ids, calls), Listed(ctl), ctl \in Controllers,
           attached \subseteq Devices,
           \A t \in targets : Covering(st, t, attached) = {} /\ OtherSide(t) \notin targets
    PROVE  MakesNoTwins(st, Create(st, targets), attached)
<1> SUFFICES ASSUME NEW part \in SUBSET attached, Apart(st, installIDs, part)
             PROVE  Apart(Create(st, targets), installIDs, part)
  BY DEF MakesNoTwins
<1> DEFINE e == Create(st, targets)
           new == {NewObject(t) : t \in {u \in targets : CanDial(u)}}
<1>1. st \in Controllers /\ st.sessions \subseteq Slots
  BY DEF Sound, Controllers
<1>2. /\ e.sessions = st.sessions \cup new
      /\ \A s \in Slots : e.lifecycle[s] = IF s \in new THEN "starting" ELSE st.lifecycle[s]
  BY <1>1, CreateFields
<1>3. \A x \in new : x.target \in targets
  BY NewObjects
<1> HIDE DEF e, new
<1> SUFFICES ASSUME NEW d \in part \cap installIDs,
                    NEW s1 \in SessionsFor(e, Usb(d)), NEW s2 \in SessionsFor(e, Wifi(d))
             PROVE  "stopping" \in {e.lifecycle[s1], e.lifecycle[s2]}
  BY DEF Apart, e
<1>4. d \in Devices /\ d \in attached /\ Known(d)
  BY DEF Known
<1>5. /\ s1 \in st.sessions \/ s1 \in new
      /\ s2 \in st.sessions \/ s2 \in new
      /\ s1.target = Usb(d) /\ s2.target = Wifi(d)
  BY <1>2 DEF SessionsFor
<1>6. ASSUME NEW a, NEW b, a \in new, b \in st.sessions \cup new,
             \/ a.target = Usb(d) /\ b.target = Wifi(d)
             \/ a.target = Wifi(d) /\ b.target = Usb(d)
      PROVE  FALSE
  <2>1. /\ a.target \in targets /\ a.target.device = d
        /\ b.target = OtherSide(a.target)
    <3>1. CASE a.target = Usb(d) /\ b.target = Wifi(d)
      BY <1>3, <1>4, <1>6, <3>1, Sides
    <3>2. CASE a.target = Wifi(d) /\ b.target = Usb(d)
      BY <1>3, <1>4, <1>6, <3>2, Sides
    <3>. QED  BY <1>6, <3>1, <3>2
  <2>2. b \notin new
    BY <1>3, <2>1
  <2>3. b \in SessionsFor(st, OtherSide(a.target))
    BY <2>1, <2>2, <1>6 DEF SessionsFor
  <2>4. SessionsFor(st, OtherSide(a.target)) \subseteq Covering(st, a.target, attached)
    BY <1>4, <2>1 DEF Covering
  <2>. QED  BY <2>1, <2>3, <2>4
<1>7. s1 \notin new /\ s2 \notin new
  <2>1. s1 \in new => FALSE
    BY <1>5, <1>6
  <2>2. s2 \in new => FALSE
    BY <1>5, <1>6
  <2>. QED  BY <2>1, <2>2
<1>8. s1 \in SessionsFor(st, Usb(d)) /\ s2 \in SessionsFor(st, Wifi(d))
  BY <1>5, <1>7 DEF SessionsFor
<1>9. "stopping" \in {st.lifecycle[s1], st.lifecycle[s2]}
  BY <1>8 DEF Apart
<1>. QED  BY <1>1, <1>2, <1>5, <1>7, <1>9

\* connect() of several targets that may be covered.
LEMMA ConnectUncoveredKeeps ==
    ASSUME NEW st, NEW ids, NEW calls, NEW targets \in SUBSET Targets, NEW attached,
           Sound(st, ids, calls), Listed(ctl), ctl \in Controllers,
           attached \subseteq Devices,
           \A t \in targets : OtherSide(t) \notin targets
    PROVE  LET e == ConnectUncovered(st, targets, attached)
           IN  /\ Sound(e, ids, calls)
               /\ MakesNoTwins(st, e, attached)
               /\ NewFor(st, e, targets)
               /\ Stays(st, e)
               /\ (\A d \in Devices : Wifi(d) \notin targets)
                     => e.wifiRemembered = st.wifiRemembered
<1> DEFINE free == {t \in targets : Covering(st, t, attached) = {}}
           e == Create(st, free)
<1>1. free \in SUBSET Targets
  OBVIOUS
<1>2. \A t \in free : /\ Covering(st, t, attached) = {}
                      /\ SessionsFor(st, t) = {}
                      /\ OtherSide(t) \notin free
  BY DEF Covering
<1>3. ConnectUncovered(st, targets, attached) = e
  BY DEF ConnectUncovered
<1>4. st \in Controllers
  BY DEF Sound
<1>5. free \subseteq targets
  OBVIOUS
<1> HIDE DEF free
<1>6. Sound(e, ids, calls) /\ NewFor(st, e, free) /\ Stays(st, e)
  BY <1>1, <1>2, CreateKeeps
<1>7. MakesNoTwins(st, e, attached)
  BY <1>1, <1>2, CreateApart
<1>8. NewFor(st, e, targets)
  BY <1>5, <1>6 DEF NewFor
<1>9. e.wifiRemembered = {d \in Devices : d \in st.wifiRemembered \/ Wifi(d) \in free}
  BY <1>1, <1>4, CreateFields
<1>10. (\A d \in Devices : Wifi(d) \notin targets) => e.wifiRemembered = st.wifiRemembered
  BY <1>4, <1>5, <1>9 DEF Controllers
<1> HIDE DEF e
<1>. QED  BY <1>3, <1>6, <1>7, <1>8, <1>10

\* dedupeSessions() leaves no twins, on whatever cables they are.
LEMMA DedupeKeeps ==
    ASSUME NEW ids, NEW known, NEW calls, Sound(ctl, known, calls), ids \subseteq Devices
    PROVE  LET e == Dedupe(ctl, ids)
           IN  /\ Sound(e, known, calls)
               /\ e.sessions = ctl.sessions
               /\ e.usbDisabled = ctl.usbDisabled
               /\ e.wifiRemembered = ctl.wifiRemembered
               /\ Stays(ctl, e)
               /\ \A attached : Apart(e, ids, attached)
<1> DEFINE twins == {s \in ctl.sessions : /\ s.target.transport = "wifi"
                                          /\ s.target.device \in ids
                                          /\ SessionsFor(ctl, OtherSide(s.target)) # {}}
           e == EndAll(ctl, twins, Nothing)
<1>1. Dedupe(ctl, ids) = e
  BY DEF Dedupe
<1>2. ctl \in Controllers /\ Listed(ctl) /\ ctl.sessions \subseteq Slots
  BY DEF Sound, Controllers
<1>3. Nothing \in Completions /\ \A s : Fits(Nothing, s, known, calls)
  BY DEF Completions, Nothing, Fits
<1> HIDE DEF twins
<1>4. /\ Sound(e, known, calls)
      /\ e.sessions = ctl.sessions
      /\ e.usbDisabled = ctl.usbDisabled
      /\ e.wifiRemembered = ctl.wifiRemembered
      /\ Stays(ctl, e)
  BY <1>2, <1>3, EndAllKeeps
<1>5. \A s \in Slots : e.lifecycle[s] = IF s \in twins /\ ctl.lifecycle[s] \in Live
                                        THEN "stopping" ELSE ctl.lifecycle[s]
  BY <1>2, <1>3, EndAllFields
<1> HIDE DEF e
<1>6. ASSUME NEW attached PROVE Apart(e, ids, attached)
  <2> SUFFICES ASSUME NEW d \in attached \cap ids,
                      NEW s1 \in SessionsFor(e, Usb(d)), NEW s2 \in SessionsFor(e, Wifi(d))
               PROVE  "stopping" \in {e.lifecycle[s1], e.lifecycle[s2]}
    BY DEF Apart
  <2>1. /\ s1 \in ctl.sessions /\ s1.target = Usb(d)
        /\ s2 \in ctl.sessions /\ s2.target = Wifi(d) /\ d \in Devices
    BY <1>4 DEF SessionsFor
  <2>2. s1 \in SessionsFor(ctl, OtherSide(s2.target))
    BY <2>1, Sides DEF SessionsFor
  <2>3. s2 \in twins
    BY <2>1, <2>2, Sides DEF twins
  <2>4. ctl.lifecycle[s2] \in Live \cup {"stopping"}
    BY <2>1, <1>2 DEF Listed, Controllers, Live
  <2>. QED  BY <1>2, <1>5, <2>1, <2>3, <2>4 DEF Live
<1>. QED  BY <1>1, <1>4, <1>6

\* Twins that a first step did not make and a second did not make are not made.
LEMMA NoTwinsAcross ==
    ASSUME NEW st, NEW mid, NEW next, NEW attached,
           MakesNoTwins(st, mid, attached), MakesNoTwins(mid, next, attached)
    PROVE  MakesNoTwins(st, next, attached)
BY DEF MakesNoTwins

\* autoConnect() dials only what was not opted out, and no device twice; it leaves no
\* twins when it is on, and does nothing at all when it is off.
LEMMA AutoConnectKeeps ==
    ASSUME NEW u \in SUBSET Devices, NEW w \in SUBSET Devices, NEW o, NEW calls,
           Sound(ctl, installIDs, calls), installIDs \subseteq Devices
    PROVE  LET a == AutoConnect(u, w, o)
           IN  /\ Sound(a, installIDs, calls)
               /\ autoConnectEnabled => Apart(a, installIDs, u)
               /\ ~autoConnectEnabled => a = ctl
               /\ Stays(ctl, a)
               /\ NewFor(ctl, a, {Usb(d) : d \in Devices \ ctl.usbDisabled}
                                    \cup {Wifi(d) : d \in ctl.wifiRemembered})
<1> DEFINE first == Dedupe(ctl, installIDs)
           cables == {Usb(d) : d \in AutoDialed(u)}
           wired == ConnectUncovered(first, cables, u)
           cabled == {d \in u : Known(d) /\ d \notin wired.usbDisabled}
           remembered == {Wifi(d) : d \in (w \cap wired.wifiRemembered) \ cabled}
           all == ConnectUncovered(wired, remembered, u)
<1>1. AutoConnect(u, w, o) = IF ~autoConnectEnabled THEN ctl
                             ELSE IF o = "open" THEN all ELSE wired
  BY DEF AutoConnect
<1>2. ctl \in Controllers /\ Listed(ctl) /\ ctl.sessions \subseteq Slots
  BY DEF Sound, Controllers
<1>3. /\ Sound(first, installIDs, calls)
      /\ first.sessions = ctl.sessions
      /\ first.wifiRemembered = ctl.wifiRemembered
      /\ Stays(ctl, first)
      /\ Apart(first, installIDs, u)
  BY DedupeKeeps
<1>4. /\ cables \in SUBSET Targets
      /\ \A t \in cables : OtherSide(t) \notin cables
      /\ \A d \in Devices : Wifi(d) \notin cables
  BY Sides DEF AutoDialed
<1>5. cables \subseteq {Usb(d) : d \in Devices \ ctl.usbDisabled}
  BY DEF AutoDialed
<1> HIDE DEF first, cables
<1>6. /\ Sound(wired, installIDs, calls)
      /\ MakesNoTwins(first, wired, u)
      /\ NewFor(first, wired, cables)
      /\ Stays(first, wired)
      /\ wired.wifiRemembered = first.wifiRemembered
  BY <1>2, <1>3, <1>4, ConnectUncoveredKeeps
<1>13. Apart(wired, installIDs, u)
  BY <1>3, <1>6 DEF MakesNoTwins
<1>7. /\ remembered \in SUBSET Targets
      /\ \A t \in remembered : OtherSide(t) \notin remembered
  BY Sides
<1>8. remembered \subseteq {Wifi(d) : d \in ctl.wifiRemembered}
  BY <1>3, <1>6
<1> HIDE DEF wired, remembered
<1>9. /\ Sound(all, installIDs, calls)
      /\ MakesNoTwins(wired, all, u)
      /\ NewFor(wired, all, remembered)
      /\ Stays(wired, all)
  BY <1>2, <1>6, <1>7, ConnectUncoveredKeeps
<1>14. Apart(all, installIDs, u)
  BY <1>9, <1>13 DEF MakesNoTwins
<1> HIDE DEF all
<1>10. Stays(ctl, wired) /\ Stays(ctl, all)
  BY <1>3, <1>6, <1>9 DEF Stays
<1> DEFINE allowed == {Usb(d) : d \in Devices \ ctl.usbDisabled}
                         \cup {Wifi(d) : d \in ctl.wifiRemembered}
<1>11. cables \subseteq allowed /\ remembered \subseteq allowed
  BY <1>5, <1>8
<1> HIDE DEF allowed
<1>12. NewFor(ctl, wired, allowed) /\ NewFor(ctl, all, allowed)
  BY <1>3, <1>6, <1>9, <1>11 DEF NewFor
<1>15. Stays(ctl, ctl) /\ NewFor(ctl, ctl, allowed)
  BY DEF Stays, NewFor
<1> DEFINE a == AutoConnect(u, w, o)
<1>16. CASE ~autoConnectEnabled
  <2>1. a = ctl
    BY <1>1, <1>16
  <2>. QED  BY <1>15, <1>16, <2>1 DEF allowed
<1>17. CASE autoConnectEnabled
  <2>1. a = all \/ a = wired
    BY <1>1, <1>17
  <2>2. /\ Sound(a, installIDs, calls) /\ Apart(a, installIDs, u)
        /\ Stays(ctl, a) /\ NewFor(ctl, a, allowed)
    BY <1>6, <1>9, <1>10, <1>12, <1>13, <1>14, <2>1
  <2>. QED  BY <1>17, <2>2 DEF allowed
<1>. QED  BY <1>16, <1>17 DEF allowed

\* connect() for the user: a new session, a takeover, or nothing.
LEMMA ConnectKeeps ==
    ASSUME NEW st, NEW calls, NEW t \in Targets,
           Sound(st, installIDs, calls), Listed(ctl), ctl \in Controllers,
           usbDevices \subseteq Devices
    PROVE  LET e == Connect(st, t)
           IN  /\ Sound(e, installIDs, calls)
               /\ MakesNoTwins(st, e, usbDevices)
               /\ NewFor(st, e, {t})
               /\ Stays(st, e)
<1>1. CASE SessionsFor(st, t) # {}
  <2>1. Connect(st, t) = st
    BY <1>1 DEF Connect
  <2>. QED  BY <2>1 DEF NewFor, Stays, MakesNoTwins
<1>2. CASE SessionsFor(st, t) = {} /\ Covering(st, t, usbDevices) = {}
  <2>1. Connect(st, t) = Create(st, {t})
    BY <1>2 DEF Connect
  <2>2. {t} \in SUBSET Targets /\ \A u \in {t} : OtherSide(u) \notin {t}
    BY Sides
  <2>3. /\ Sound(Create(st, {t}), installIDs, calls)
        /\ NewFor(st, Create(st, {t}), {t})
        /\ Stays(st, Create(st, {t}))
    BY <1>2, <2>2, CreateKeeps
  <2>4. MakesNoTwins(st, Create(st, {t}), usbDevices)
    BY <1>2, <2>2, CreateApart
  <2>. QED  BY <2>1, <2>3, <2>4
<1>3. CASE SessionsFor(st, t) = {} /\ Covering(st, t, usbDevices) # {}
  <2> DEFINE z == CHOOSE s \in Covering(st, t, usbDevices) : TRUE
             c == [does |-> "connect", target |-> t]
             e == EndAll(st, {z}, c)
  <2>1. Connect(st, t) = e
    BY <1>3 DEF Connect, End
  <2>2. z \in Covering(st, t, usbDevices)
    BY <1>3
  <2> HIDE DEF z
  <2>3. z.target = OtherSide(t) /\ t.device \in installIDs
    BY <1>3, <2>2 DEF Covering, SessionsFor, Known
  <2>4. t = OtherSide(z.target) /\ z.target.device \in installIDs
    BY <2>3, Sides
  <2>5. c \in Completions
    BY DEF Completions
  <2>6. Fits(c, z, installIDs, calls)
    BY <2>4 DEF Fits
  <2> HIDE DEF c
  <2>7. \A s \in {z} \cap Slots : Fits(c, s, installIDs, calls)
    BY <2>6
  <2>8. /\ Sound(e, installIDs, calls)
        /\ e.sessions = st.sessions
        /\ Stays(st, e)
    BY <2>5, <2>7, EndAllKeeps
  <2>9. MakesNoTwins(st, e, usbDevices)
    BY <2>5, <2>7, EndAllKeeps
  <2> HIDE DEF e
  <2>. QED  BY <2>1, <2>8, <2>9 DEF NewFor
<1>. QED  BY <1>1, <1>2, <1>3

\* disconnect() of some sessions opts them out and ends them.
LEMMA OptOutKeeps ==
    ASSUME NEW ids, NEW calls, NEW leaving, Sound(ctl, ids, calls)
    PROVE  LET e == OptOut(ctl, leaving)
           IN  /\ Sound(e, ids, calls)
               /\ e.sessions = ctl.sessions
               /\ Stays(ctl, e)
               /\ \A attached : MakesNoTwins(ctl, e, attached)
<1> DEFINE off == ctl.usbDisabled \cup {d \in Devices : \E s \in leaving : s.target = Usb(d)}
           known == {d \in ctl.wifiRemembered : \A s \in leaving : s.target # Wifi(d)}
           b == [ctl EXCEPT !.usbDisabled = off, !.wifiRemembered = known]
           e == EndAll(b, leaving, Nothing)
<1>1. OptOut(ctl, leaving) = e
  BY DEF OptOut
<1>2. ctl \in Controllers /\ Listed(ctl)
  BY DEF Sound
<1>3. off \subseteq Devices /\ known \subseteq Devices
  BY <1>2 DEF Controllers
<1> HIDE DEF off, known
<1>4. /\ b \in Controllers
      /\ b.sessions = ctl.sessions /\ b.lifecycle = ctl.lifecycle
      /\ b.completion = ctl.completion
  BY <1>2, <1>3 DEF Controllers
<1> HIDE DEF b
<1>5. Sound(b, ids, calls)
  BY <1>4 DEF Sound, Listed
<1>6. \A attached : MakesNoTwins(ctl, b, attached)
  BY <1>4 DEF MakesNoTwins, Apart, SessionsFor
<1>7. Nothing \in Completions /\ \A s : Fits(Nothing, s, ids, calls)
  BY DEF Completions, Nothing, Fits
<1>8. /\ Sound(e, ids, calls)
      /\ e.sessions = b.sessions
      /\ Stays(b, e)
      /\ \A attached : MakesNoTwins(b, e, attached)
  BY <1>2, <1>5, <1>7, EndAllKeeps
<1>9. Stays(ctl, e)
  BY <1>4, <1>8 DEF Stays
<1> HIDE DEF e
<1>10. \A attached : MakesNoTwins(ctl, e, attached)
  BY <1>6, <1>8, NoTwinsAcross
<1>. QED  BY <1>1, <1>4, <1>8, <1>9, <1>10

-----------------------------------------------------------------------------
(* The invariant holds initially and every step keeps it                    *)

\* The start of the program.
LEMMA InitIInv == Init => IInv
<1> SUFFICES ASSUME Init PROVE IInv
  OBVIOUS
<1>1. /\ ctl \in Controllers
      /\ ctl.sessions = {}
      /\ \A s \in Slots : ctl.lifecycle[s] = "stopped" /\ ctl.completion[s] = Nothing
  <2>1. Nothing \in Completions
    BY DEF Completions
  <2>. QED  BY <2>1 DEF Init, Controllers
<1>2. Listed(ctl)
  BY <1>1 DEF Listed
<1>3. \A s \in Slots : Fits(ctl.completion[s], s, installIDs, DOMAIN restarts)
  BY <1>1 DEF Fits, Nothing
<1>5. WorldInv
  BY DEF Init, WorldInv
<1>6. CallsInv
  <2>1. DOMAIN restarts = {} /\ 1..0 = {} /\ 0 \in 0..MaxRestarts
    BY BoundsAssumption DEF Init
  <2>. QED  BY <2>1 DEF CallsInv
<1>. QED  BY <1>1, <1>2, <1>3, <1>5, <1>6 DEF IInv, Sound

\* What a step leaves to the other parts of the invariant.
LEMMA Transfer ==
    ASSUME Sound(ctl', installIDs', DOMAIN restarts'), WorldInv', CallsInv'
    PROVE  IInv'
BY DEF IInv

\* A new calls and more known devices spoil no completion.
LEMMA SoundGrows ==
    ASSUME NEW st, NEW ids, NEW more, NEW calls, NEW later,
           Sound(st, ids, calls), ids \subseteq more, calls \subseteq later
    PROVE  Sound(st, more, later)
BY DEF Sound, Fits

\* usbmux, Bonjour and the clock: autoConnect() in the new surroundings.
LEMMA WorldStep ==
    ASSUME IInv,
           \/ \E d \in Devices : UsbDevicesChange(d) \/ DiscoveryChanges(d)
           \/ WindowMoves
    PROVE  /\ IInv'
           /\ Stays(ctl, ctl')
           /\ NewFor(ctl, ctl', {Usb(d) : d \in Devices \ ctl.usbDisabled}
                                   \cup {Wifi(d) : d \in ctl.wifiRemembered})
           /\ installIDs' = installIDs
           /\ \/ Apart(ctl', installIDs, usbDevices')
              \/ ctl' = ctl /\ (~autoConnectEnabled \/ usbDevices' = usbDevices)
<1> USE DEF WorldInv
<1>1. /\ Sound(ctl, installIDs, DOMAIN restarts)
      /\ usbDevices \in SUBSET Devices /\ discovered \in SUBSET Devices
      /\ installIDs \subseteq Devices
  BY DEF IInv
<1>2. ASSUME usbDevices' \in SUBSET Devices, discovered' \in SUBSET Devices,
             ctl' = AutoConnect(usbDevices', discovered', window'),
             UNCHANGED <<installIDs, restarts>>
      PROVE  /\ IInv'
             /\ Stays(ctl, ctl')
             /\ NewFor(ctl, ctl', {Usb(d) : d \in Devices \ ctl.usbDisabled}
                                     \cup {Wifi(d) : d \in ctl.wifiRemembered})
             /\ installIDs' = installIDs
             /\ Apart(ctl', installIDs, usbDevices') \/ (ctl' = ctl /\ ~autoConnectEnabled)
  <2>1. PICK u, w, o : u \in SUBSET Devices /\ w \in SUBSET Devices /\
                       u = usbDevices' /\ w = discovered' /\ o = window'
    BY <1>2
  <2>2. /\ Sound(ctl', installIDs, DOMAIN restarts)
        /\ autoConnectEnabled => Apart(ctl', installIDs, usbDevices')
        /\ ~autoConnectEnabled => ctl' = ctl
        /\ Stays(ctl, ctl')
        /\ NewFor(ctl, ctl', {Usb(d) : d \in Devices \ ctl.usbDisabled}
                                \cup {Wifi(d) : d \in ctl.wifiRemembered})
    BY <1>1, <1>2, <2>1, AutoConnectKeeps
  <2>3. WorldInv' /\ CallsInv'
    BY <1>1, <1>2 DEF IInv, CallsInv
  <2>4. installIDs' = installIDs /\ restarts' = restarts
    BY <1>2
  <2>. QED  BY <2>2, <2>3, <2>4, Transfer
<1>3. CASE \E d \in Devices : UsbDevicesChange(d)
  BY <1>1, <1>2, <1>3 DEF UsbDevicesChange
<1>4. CASE \E d \in Devices : DiscoveryChanges(d)
  BY <1>1, <1>2, <1>4 DEF DiscoveryChanges
<1>5. CASE WindowMoves
  <2>1. CASE window = "before"
    BY <1>1, <1>2, <1>5, <2>1 DEF WindowMoves
  <2>2. CASE window = "open"
    <3>1. UNCHANGED <<ctl, usbDevices, discovered, installIDs, restarts>>
      BY <1>5, <2>2 DEF WindowMoves
    <3>2. IInv'
      BY <3>1 DEF IInv, CallsInv
    <3>. QED  BY <3>1, <3>2 DEF Stays, NewFor
  <2>. QED  BY <1>5, <2>1, <2>2 DEF WindowMoves
<1>. QED  BY <1>3, <1>4, <1>5

\* The user: a tap, a disconnect, or a restart.
LEMMA UserStep ==
    ASSUME IInv
    PROVE  /\ \A t \in Targets :
                 Tap(t) => /\ IInv' /\ Stays(ctl, ctl') /\ NewFor(ctl, ctl', {t})
                           /\ MakesNoTwins(ctl, ctl', usbDevices)
           /\ (\E s \in Slots : Disconnect(s)) \/ DisconnectAll \/ RestartAll
                 => /\ IInv' /\ Stays(ctl, ctl') /\ ctl'.sessions = ctl.sessions
                    /\ MakesNoTwins(ctl, ctl', usbDevices)
<1>1. /\ Sound(ctl, installIDs, DOMAIN restarts)
      /\ ctl \in Controllers /\ Listed(ctl) /\ ctl.sessions \subseteq Slots
      /\ usbDevices \subseteq Devices /\ WorldInv /\ CallsInv
  BY DEF IInv, WorldInv, Sound, Controllers
<1>2. ASSUME UNCHANGED <<world, installIDs, restarts>>,
             Sound(ctl', installIDs, DOMAIN restarts)
      PROVE  IInv'
  <2>1. WorldInv' /\ CallsInv'
    BY <1>1, <1>2 DEF WorldInv, CallsInv, world
  <2>2. UNCHANGED <<installIDs, restarts, usbDevices>>
    BY <1>2 DEF world
  <2>. QED  BY <1>2, <2>1, <2>2, Transfer
<1>3. ASSUME NEW t \in Targets, Tap(t)
      PROVE  /\ IInv' /\ Stays(ctl, ctl') /\ NewFor(ctl, ctl', {t})
             /\ MakesNoTwins(ctl, ctl', usbDevices)
  BY <1>1, <1>2, <1>3, ConnectKeeps DEF Tap
<1> DEFINE Ended == /\ IInv' /\ Stays(ctl, ctl') /\ ctl'.sessions = ctl.sessions
                    /\ MakesNoTwins(ctl, ctl', usbDevices)
<1>4. ASSUME NEW leaving, ctl' = OptOut(ctl, leaving), UNCHANGED <<world, installIDs, restarts>>
      PROVE  Ended
  <2>1. /\ Sound(ctl', installIDs, DOMAIN restarts)
        /\ ctl'.sessions = ctl.sessions
        /\ Stays(ctl, ctl')
        /\ \A attached : MakesNoTwins(ctl, ctl', attached)
    BY <1>1, <1>4, OptOutKeeps
  <2>. QED  BY <1>1, <1>2, <1>4, <2>1
<1>5. (\E s \in Slots : Disconnect(s)) => Ended
  BY <1>4 DEF Disconnect
<1>6. DisconnectAll => Ended
  BY <1>4 DEF DisconnectAll
<1>7. ASSUME RestartAll PROVE Ended
  <2>1. PICK n \in 0..MaxRestarts : DOMAIN restarts = 1..n
    BY <1>1 DEF CallsInv
  <2>2. n \in Nat /\ Cardinality(DOMAIN restarts) = n
    BY <2>1, FS_Interval, BoundsAssumption
  <2> DEFINE call == n + 1
             c == [does |-> "restart", call |-> call]
             new == [targets |-> {s.target : s \in ctl.sessions},
                     remaining |-> Cardinality(ctl.sessions),
                     refused |-> \E s \in ctl.sessions : ctl.lifecycle[s] \notin Live]
  <2>3. /\ n < MaxRestarts
        /\ restarts' = [k \in 1..call |-> IF k < call THEN restarts[k] ELSE new]
        /\ ctl' = EndAll(ctl, ctl.sessions, c)
        /\ UNCHANGED <<world, installIDs>>
    BY <1>7, <2>2 DEF RestartAll
  <2>4. /\ DOMAIN restarts' = 1..call /\ 1..n \subseteq 1..call
        /\ call \in 0..MaxRestarts /\ call \in 1..MaxRestarts /\ call \in 1..call
        /\ \A k \in 1..call : k < call => k \in 1..n
    BY <2>2, <2>3, BoundsAssumption
  <2>5. IsCall(new)
    BY <1>1, Objects DEF IsCall
  <2>6. \A k \in DOMAIN restarts' : restarts'[k] = new \/ (k \in 1..n /\ restarts'[k] = restarts[k])
    BY <2>3, <2>4
  <2> HIDE DEF new
  <2>7. CallsInv'
    BY <1>1, <2>1, <2>4, <2>5, <2>6 DEF CallsInv
  <2>8. Sound(ctl, installIDs, DOMAIN restarts')
    BY <1>1, <2>1, <2>4, SoundGrows
  <2>9. c \in Completions
    BY <2>4 DEF Completions
  <2>10. \A s : Fits(c, s, installIDs, DOMAIN restarts')
    BY <2>4 DEF Fits
  <2> HIDE DEF c
  <2>11. /\ Sound(ctl', installIDs, DOMAIN restarts')
         /\ ctl'.sessions = ctl.sessions
         /\ Stays(ctl, ctl')
         /\ \A attached : MakesNoTwins(ctl, ctl', attached)
    BY <1>1, <2>3, <2>8, <2>9, <2>10, EndAllKeeps
  <2>12. WorldInv' /\ installIDs' = installIDs /\ usbDevices' = usbDevices
    BY <1>1, <2>3 DEF WorldInv, world
  <2>. QED  BY <2>7, <2>11, <2>12, Transfer
<1>. QED  BY <1>3, <1>5, <1>6, <1>7

\* A sender that says hello, is gone, or has started.
LEMMA SenderStep ==
    ASSUME IInv, NEW s \in Slots, Hello(s) \/ Disconnected(s) \/ StartReturns(s)
    PROVE  /\ IInv' /\ Stays(ctl, ctl') /\ ctl'.sessions = ctl.sessions
           /\ Hello(s) => Apart(ctl', installIDs', usbDevices')
           /\ ~Hello(s) => MakesNoTwins(ctl, ctl', usbDevices) /\ installIDs' = installIDs
<1>1. /\ Sound(ctl, installIDs, DOMAIN restarts)
      /\ ctl \in Controllers /\ Listed(ctl) /\ ctl.sessions \subseteq Slots
      /\ usbDevices \subseteq Devices /\ installIDs \subseteq Devices
      /\ WorldInv /\ CallsInv
  BY DEF IInv, WorldInv, Sound, Controllers
<1>2. CallsInv' /\ usbDevices' = usbDevices /\ discovered' = discovered /\ restarts' = restarts
  BY <1>1 DEF CallsInv, Hello, Disconnected, StartReturns, world
<1>3. CASE Hello(s)
  <2>1. installIDs \subseteq installIDs' /\ installIDs' \subseteq Devices
    BY <1>1, <1>3, Objects, Sides DEF Hello
  <2>2. PICK ids : ids = installIDs'
    OBVIOUS
  <2>3. ctl' = Dedupe(ctl, ids)
    BY <1>3, <2>2 DEF Hello
  <2>4. /\ Sound(ctl', installIDs, DOMAIN restarts)
        /\ ctl'.sessions = ctl.sessions
        /\ Stays(ctl, ctl')
        /\ Apart(ctl', ids, usbDevices)
    BY <1>1, <2>1, <2>2, <2>3, DedupeKeeps
  <2>5. Sound(ctl', ids, DOMAIN restarts)
    BY <2>1, <2>2, <2>4, SoundGrows
  <2>6. WorldInv'
    BY <1>1, <1>2, <2>1 DEF WorldInv
  <2>. QED  BY <1>2, <1>3, <2>2, <2>4, <2>5, <2>6, Transfer
<1>4. CASE Disconnected(s) /\ ~Hello(s)
  <2>1. ctl' = EndAll(ctl, {s}, Nothing) /\ installIDs' = installIDs
    BY <1>4 DEF Disconnected, End
  <2>2. Nothing \in Completions /\ \A z : Fits(Nothing, z, installIDs, DOMAIN restarts)
    BY DEF Completions, Nothing, Fits
  <2>3. /\ Sound(ctl', installIDs, DOMAIN restarts)
        /\ ctl'.sessions = ctl.sessions
        /\ Stays(ctl, ctl')
        /\ \A attached : MakesNoTwins(ctl, ctl', attached)
    BY <1>1, <2>1, <2>2, EndAllKeeps
  <2>4. WorldInv'
    BY <1>1, <1>2, <2>1 DEF WorldInv
  <2>. QED  BY <1>2, <1>4, <2>1, <2>3, <2>4, Transfer
<1>5. CASE StartReturns(s) /\ ~Hello(s)
  <2> DEFINE l == [ctl.lifecycle EXCEPT ![s] = "settled"]
  <2>1. /\ ctl.lifecycle[s] = "starting" /\ s \in ctl.sessions /\ installIDs' = installIDs
        /\ ctl' = [ctl EXCEPT !.lifecycle = l]
    BY <1>1, <1>5 DEF StartReturns, Controllers
  <2>2. /\ l \in [Slots -> {"stopped", "starting", "settled", "stopping"}]
        /\ \A z \in Slots : l[z] = IF z = s THEN "settled" ELSE ctl.lifecycle[z]
    BY <1>1 DEF Controllers
  <2> HIDE DEF l
  <2>3. /\ ctl' \in Controllers
        /\ ctl'.sessions = ctl.sessions /\ ctl'.lifecycle = l
        /\ ctl'.completion = ctl.completion
    BY <1>1, <2>1, <2>2 DEF Controllers
  <2>4. Listed(ctl')
    BY <1>1, <2>1, <2>2, <2>3 DEF Listed
  <2>5. Sound(ctl', installIDs, DOMAIN restarts)
    BY <1>1, <2>3, <2>4 DEF Sound
  <2>6. Stays(ctl, ctl')
    BY <1>1, <2>1, <2>2, <2>3 DEF Stays
  <2>7. MakesNoTwins(ctl, ctl', usbDevices)
    <3> SUFFICES ASSUME NEW part \in SUBSET usbDevices, Apart(ctl, installIDs, part),
                        NEW d \in part \cap installIDs,
                        NEW s1 \in SessionsFor(ctl', Usb(d)), NEW s2 \in SessionsFor(ctl', Wifi(d))
                 PROVE  "stopping" \in {ctl'.lifecycle[s1], ctl'.lifecycle[s2]}
      BY DEF MakesNoTwins, Apart
    <3>1. s1 \in SessionsFor(ctl, Usb(d)) /\ s2 \in SessionsFor(ctl, Wifi(d))
      BY <2>3 DEF SessionsFor
    <3>2. "stopping" \in {ctl.lifecycle[s1], ctl.lifecycle[s2]} /\ s1 \in Slots /\ s2 \in Slots
      BY <1>1, <3>1 DEF Apart, SessionsFor
    <3>. QED  BY <2>1, <2>2, <2>3, <3>2
  <2>8. WorldInv'
    BY <1>1, <1>2, <2>1 DEF WorldInv
  <2>. QED  BY <1>2, <1>5, <2>1, <2>3, <2>5, <2>6, <2>7, <2>8, Transfer
<1>. QED  BY <1>3, <1>4, <1>5

\* The session that stopped is gone, and the rest is as it was.
LEMMA LeaveKeeps ==
    ASSUME NEW calls, NEW s \in ctl.sessions,
           Sound(ctl, installIDs, calls)
    PROVE  /\ Sound(Leave(s), installIDs, calls)
           /\ MakesNoTwins(ctl, Leave(s), usbDevices)
           /\ Leave(s).sessions = ctl.sessions \ {s}
           /\ \A z \in ctl.sessions \ {s} : Leave(s).lifecycle[z] = ctl.lifecycle[z]
<1>1. ctl \in Controllers /\ Listed(ctl) /\ ctl.sessions \subseteq Slots /\ s \in Slots
  BY DEF Sound, Controllers
<1> DEFINE e == Leave(s)
<1>2. /\ e \in Controllers
      /\ e.sessions = ctl.sessions \ {s}
      /\ \A z \in Slots : e.lifecycle[z] = IF z = s THEN "stopped" ELSE ctl.lifecycle[z]
      /\ \A z \in Slots : e.completion[z] = IF z = s THEN Nothing ELSE ctl.completion[z]
  BY <1>1, LeaveFields
<1> HIDE DEF e
<1>3. Listed(e)
  BY <1>1, <1>2 DEF Listed
<1>4. \A z : Fits(Nothing, z, installIDs, calls)
  BY DEF Nothing, Fits
<1>5. Sound(e, installIDs, calls)
  BY <1>2, <1>3, <1>4 DEF Sound
<1>6. MakesNoTwins(ctl, e, usbDevices)
  <2> SUFFICES ASSUME NEW part \in SUBSET usbDevices, Apart(ctl, installIDs, part),
                      NEW d \in part \cap installIDs,
                      NEW s1 \in SessionsFor(e, Usb(d)), NEW s2 \in SessionsFor(e, Wifi(d))
               PROVE  "stopping" \in {e.lifecycle[s1], e.lifecycle[s2]}
    BY DEF MakesNoTwins, Apart
  <2>1. /\ s1 \in SessionsFor(ctl, Usb(d)) /\ s2 \in SessionsFor(ctl, Wifi(d))
        /\ s1 # s /\ s2 # s
    BY <1>2 DEF SessionsFor
  <2>2. "stopping" \in {ctl.lifecycle[s1], ctl.lifecycle[s2]} /\ s1 \in Slots /\ s2 \in Slots
    BY <1>1, <2>1 DEF Apart, SessionsFor
  <2>. QED  BY <1>2, <2>1, <2>2
<1>. QED  BY <1>1, <1>2, <1>5, <1>6 DEF e

\* What a stop that returned leads to: the session is gone, and where it was ended by
\* a takeover there is one for the target the user chose.
LEMMA StopStep ==
    ASSUME IInv, NEW s \in Slots, StopReturns(s)
    PROVE  /\ IInv'
           /\ MakesNoTwins(ctl, ctl', usbDevices) /\ UNCHANGED <<usbDevices, installIDs>>
           /\ s \in ctl.sessions /\ s \notin ctl'.sessions
           /\ \A z \in ctl.sessions \ {s} :
                 ctl.lifecycle[z] = "stopping" => ctl'.lifecycle[z] = "stopping"
           /\ ctl.completion[s] \in Completions
           /\ ctl.completion[s].does = "nothing" => ctl'.sessions \subseteq ctl.sessions
           /\ ctl.completion[s].does = "connect"
                 => \E n \in ctl'.sessions : n.target = ctl.completion[s].target
<1> DEFINE c == ctl.completion[s]
           calls == DOMAIN restarts
           st == Leave(s)
<1>1. /\ Sound(ctl, installIDs, calls)
      /\ ctl \in Controllers /\ Listed(ctl) /\ ctl.sessions \subseteq Slots
      /\ usbDevices \subseteq Devices /\ installIDs \subseteq Devices
      /\ WorldInv /\ CallsInv
  BY DEF IInv, WorldInv, Sound, Controllers
<1>2. /\ c \in Completions
      /\ Fits(c, s, installIDs, calls)
      /\ s \in ctl.sessions /\ ctl.lifecycle[s] = "stopping"
      /\ UNCHANGED <<world, installIDs>>
  BY <1>1 DEF Sound, Controllers, StopReturns
<1>3. /\ Sound(st, installIDs, calls)
      /\ MakesNoTwins(ctl, st, usbDevices)
      /\ st.sessions = ctl.sessions \ {s}
      /\ \A z \in ctl.sessions \ {s} : st.lifecycle[z] = ctl.lifecycle[z]
  BY <1>1, <1>2, LeaveKeeps
<1>4. WorldInv' /\ installIDs' = installIDs /\ usbDevices' = usbDevices
  BY <1>1, <1>2 DEF WorldInv, world
<1> HIDE DEF st
<1>5. ASSUME Sound(ctl', installIDs, calls), MakesNoTwins(st, ctl', usbDevices),
             CallsInv', DOMAIN restarts' = calls
      PROVE  /\ IInv'
             /\ MakesNoTwins(ctl, ctl', usbDevices) /\ UNCHANGED <<usbDevices, installIDs>>
  BY <1>3, <1>4, <1>5, Transfer, NoTwinsAcross
<1>6. ASSUME NEW targets, NewFor(st, ctl', targets), Stays(st, ctl')
      PROVE  /\ s \notin ctl'.sessions
             /\ \A z \in ctl.sessions \ {s} :
                   ctl.lifecycle[z] = "stopping" => ctl'.lifecycle[z] = "stopping"
  BY <1>2, <1>3, <1>6 DEF NewFor, Stays
<1>7. ASSUME ctl' = st
      PROVE  /\ s \notin ctl'.sessions /\ ctl'.sessions \subseteq ctl.sessions
             /\ \A z \in ctl.sessions \ {s} :
                   ctl.lifecycle[z] = "stopping" => ctl'.lifecycle[z] = "stopping"
             /\ Sound(ctl', installIDs, calls) /\ MakesNoTwins(st, ctl', usbDevices)
  BY <1>3, <1>7 DEF MakesNoTwins
<1>8. CASE c.does = "nothing"
  <2>1. ctl' = st /\ restarts' = restarts
    BY <1>8 DEF StopReturns, st
  <2>2. CallsInv'
    BY <1>1, <2>1 DEF CallsInv
  <2>3. c.does # "connect"
    BY <1>8
  <2>. QED  BY <1>2, <1>5, <1>7, <2>1, <2>2, <2>3
<1>9. CASE c.does = "connect"
  <2> DEFINE t == c.target
  <2>1. ctl' = Connect(st, t) /\ restarts' = restarts
    BY <1>9 DEF StopReturns, st
  <2>2. CallsInv'
    BY <1>1, <2>1 DEF CallsInv
  <2>3. t = OtherSide(s.target) /\ t \in Targets /\ s.target.device \in installIDs
    BY <1>2, <1>9, Objects, Sides DEF Fits
  <2>4. s.target = OtherSide(t) /\ t.device \in installIDs
    BY <2>3, Objects, Sides
  <2> HIDE DEF t
  <2>5. /\ Sound(Connect(st, t), installIDs, calls)
        /\ MakesNoTwins(st, Connect(st, t), usbDevices)
        /\ NewFor(st, Connect(st, t), {t})
        /\ Stays(st, Connect(st, t))
    BY <1>1, <1>3, <2>3, ConnectKeeps
  <2>6. \E n \in ctl'.sessions : n.target = t
    <3>1. CASE SessionsFor(st, t) # {}
      <4>1. ctl' = st
        BY <2>1, <3>1 DEF Connect
      <4>. QED  BY <3>1, <4>1 DEF SessionsFor
    <3>2. CASE SessionsFor(st, t) = {}
      <4>1. SessionsFor(st, OtherSide(t)) = {}
        BY <1>1, <1>2, <1>3, <2>4 DEF SessionsFor, Listed
      <4>2. Covering(st, t, usbDevices) = {}
        BY <3>2, <4>1 DEF Covering
      <4>3. ctl' = Create(st, {t})
        BY <2>1, <3>2, <4>2 DEF Connect
      <4>4. CanDial(t)
        BY <2>4 DEF CanDial, Known
      <4>5. NewObject(t) \in ctl'.sessions
        <5>1. st \in Controllers /\ {t} \in SUBSET Targets
          BY <1>3, <2>3 DEF Sound
        <5>2. Create(st, {t}).sessions
                 = st.sessions \cup {NewObject(u) : u \in {v \in {t} : CanDial(v)}}
          BY <1>1, <5>1, CreateFields
        <5>. QED  BY <4>3, <4>4, <5>2
      <4>6. NewObject(t).target = t
        BY <1>1, <2>3, NewObjects
      <4>. QED  BY <4>5, <4>6
    <3>. QED  BY <3>1, <3>2
  <2>7. c.does # "nothing"
    BY <1>9
  <2>8. /\ s \notin ctl'.sessions
        /\ \A z \in ctl.sessions \ {s} :
              ctl.lifecycle[z] = "stopping" => ctl'.lifecycle[z] = "stopping"
    BY <1>6, <2>1, <2>5
  <2>9. /\ IInv'
        /\ MakesNoTwins(ctl, ctl', usbDevices) /\ UNCHANGED <<usbDevices, installIDs>>
    BY <1>5, <2>1, <2>2, <2>5
  <2>. QED  BY <1>2, <2>6, <2>7, <2>8, <2>9 DEF t
<1>10. CASE c.does = "restart"
  <2>1. /\ restarts' = [restarts EXCEPT ![c.call].remaining = @ - 1]
        /\ IF restarts'[c.call].remaining = 0
           THEN Reconnect(st, restarts[c.call].targets)
           ELSE ctl' = st
    BY <1>10 DEF StopReturns, st
  <2>2. c.call \in calls
    BY <1>2, <1>10 DEF Fits
  <2>3. DOMAIN restarts' = calls
    BY <2>1
  <2>4. CallsInv'
    <3>1. \A k \in calls : IsCall(restarts[k])
      BY <1>1 DEF CallsInv
    <3>2. ASSUME NEW k \in calls PROVE IsCall(restarts'[k])
      <4>1. CASE k # c.call
        BY <2>1, <3>1, <4>1
      <4>2. CASE k = c.call
        <5>1. restarts'[k] = [restarts[k] EXCEPT !.remaining = @ - 1]
          BY <2>1, <2>2, <4>2
        <5>2. IsCall(restarts[k])
          BY <3>1
        <5>. QED  BY <5>1, <5>2 DEF IsCall
      <4>. QED  BY <4>1, <4>2
    <3>. QED  BY <1>1, <2>3, <3>2 DEF CallsInv
  <2>5. c.does # "nothing" /\ c.does # "connect"
    BY <1>10
  <2>6. CASE ctl' = st
    BY <1>2, <1>5, <1>7, <2>3, <2>4, <2>5, <2>6
  <2>7. CASE Reconnect(st, restarts[c.call].targets)
    <3> DEFINE targets == restarts[c.call].targets
    <3>1. targets \subseteq Targets
      BY <1>1, <2>2 DEF CallsInv, IsCall
    <3>2. PICK first \in SUBSET targets :
             /\ \A t \in targets : OtherSide(t) \in targets
                                      => (t \in first) # (OtherSide(t) \in first)
             /\ ctl' = ConnectUncovered(ConnectUncovered(st, first, usbDevices),
                                        targets \ first, usbDevices)
      BY <2>7 DEF Reconnect
    <3> HIDE DEF targets
    <3> DEFINE second == targets \ first
               mid == ConnectUncovered(st, first, usbDevices)
               last == ConnectUncovered(mid, second, usbDevices)
    <3>3. /\ first \in SUBSET Targets /\ second \in SUBSET Targets
          /\ \A t \in first : OtherSide(t) \notin first
          /\ \A t \in second : OtherSide(t) \notin second
      BY <3>1, <3>2
    <3>4. ctl' = last
      BY <3>2
    <3> HIDE DEF second
    <3>5. /\ Sound(mid, installIDs, calls) /\ MakesNoTwins(st, mid, usbDevices)
          /\ NewFor(st, mid, first) /\ Stays(st, mid)
      BY <1>1, <1>3, <3>3, ConnectUncoveredKeeps
    <3> HIDE DEF mid
    <3>6. /\ Sound(last, installIDs, calls) /\ MakesNoTwins(mid, last, usbDevices)
          /\ NewFor(mid, last, second) /\ Stays(mid, last)
      BY <1>1, <3>3, <3>5, ConnectUncoveredKeeps
    <3> HIDE DEF last
    <3>7. NewFor(st, last, first \cup second) /\ Stays(st, last)
      BY <3>5, <3>6 DEF NewFor, Stays
    <3>8. /\ s \notin ctl'.sessions
          /\ \A z \in ctl.sessions \ {s} :
                ctl.lifecycle[z] = "stopping" => ctl'.lifecycle[z] = "stopping"
      BY <1>6, <3>4, <3>7
    <3>9. MakesNoTwins(st, last, usbDevices)
      BY <3>5, <3>6, NoTwinsAcross
    <3>10. /\ IInv'
           /\ MakesNoTwins(ctl, ctl', usbDevices) /\ UNCHANGED <<usbDevices, installIDs>>
      BY <1>5, <2>3, <2>4, <3>4, <3>6, <3>9
    <3>. QED  BY <1>2, <2>5, <3>8, <3>10
  <2>. QED  BY <2>1, <2>6, <2>7
<1>11. c.does \in {"nothing", "connect", "restart"}
  BY <1>2 DEF Completions, Nothing
<1>. QED  BY <1>8, <1>9, <1>10, <1>11

\* Every step keeps the invariant.
LEMMA Inductive == IInv /\ [Next]_vars => IInv'
<1> SUFFICES ASSUME IInv, [Next]_vars PROVE IInv'
  OBVIOUS
<1>1. CASE UNCHANGED vars
  BY <1>1 DEF vars, world, IInv, WorldInv, CallsInv
<1>2. CASE (\E d \in Devices : UsbDevicesChange(d) \/ DiscoveryChanges(d)) \/ WindowMoves
  BY <1>2, WorldStep
<1>3. CASE \E t \in Targets : Tap(t)
  BY <1>3, UserStep
<1>4. CASE DisconnectAll \/ RestartAll \/ \E s \in Slots : Disconnect(s)
  BY <1>4, UserStep
<1>5. CASE \E s \in Slots : Hello(s) \/ Disconnected(s) \/ StartReturns(s)
  BY <1>5, SenderStep
<1>6. CASE \E s \in Slots : StopReturns(s)
  BY <1>6, StopStep
<1>. QED  BY <1>1, <1>2, <1>3, <1>4, <1>5, <1>6 DEF Next

\* The invariant, for the specification.
LEMMA Invariant == Spec => []IInv
BY InitIInv, Inductive, PTL DEF Spec

-----------------------------------------------------------------------------
(* The theorems                                                             *)

\* "Never create a second session for the same physical device": one session for each
\* target, and no step makes twins of a known, plugged-in device but plugging it in
\* under `-autostart NO`; what a hello finds of them it ends.
THEOREM OneSessionPerDevice == Spec => NoTwins
<1> DEFINE One == \A s1, s2 \in ctl.sessions : s1.target = s2.target => s1 = s2
           P == \A d \in Devices : Twins(d)' =>
                   /\ Twins(d) \/ (UsbDevicesChange(d) /\ ~autoConnectEnabled)
                   /\ \A s \in Slots : ~Hello(s)
<1>1. IInv => One
  BY DEF IInv, Sound, Listed
<1>2. IInv /\ [Next]_vars => [P]_vars
  <2> SUFFICES ASSUME IInv, Next, NEW d \in Devices, Twins(d)'
               PROVE  /\ Twins(d) \/ (UsbDevicesChange(d) /\ ~autoConnectEnabled)
                      /\ \A s \in Slots : ~Hello(s)
    OBVIOUS
  <2>1. ~Apart(ctl', installIDs', usbDevices') /\ d \in usbDevices' /\ d \in installIDs'
    BY DEF Twins, Apart
  <2>2. \A s \in Slots : ~Hello(s)
    BY <2>1, SenderStep
  <2>3. ASSUME MakesNoTwins(ctl, ctl', usbDevices), UNCHANGED <<usbDevices, installIDs>>
        PROVE  Twins(d)
    <3>1. {d} \in SUBSET usbDevices /\ ~Apart(ctl', installIDs, {d})
      BY <2>1, <2>3 DEF Twins, Apart
    <3>2. ~Apart(ctl, installIDs, {d})
      BY <2>3, <3>1 DEF MakesNoTwins
    <3>. QED  BY <2>1, <2>3, <3>2 DEF Twins, Apart
  <2>4. ASSUME ctl' = ctl, installIDs' = installIDs, d \in usbDevices
        PROVE  Twins(d)
    BY <2>4 DEF Twins, SessionsFor
  <2>5. ASSUME NEW e \in Devices, UsbDevicesChange(e)
        PROVE  Twins(d) \/ (UsbDevicesChange(d) /\ ~autoConnectEnabled)
    <3>1. installIDs' = installIDs /\ ctl' = ctl
      BY <2>1, <2>5, WorldStep
    <3>2. CASE d \in usbDevices
      BY <2>4, <3>1, <3>2
    <3>3. CASE d \notin usbDevices
      <4>1. e = d /\ usbDevices' # usbDevices
        BY <2>1, <2>5, <3>3 DEF UsbDevicesChange
      <4>. QED  BY <2>1, <2>5, <3>1, <4>1, WorldStep
    <3>. QED  BY <3>2, <3>3
  <2>6. CASE (\E e \in Devices : DiscoveryChanges(e)) \/ WindowMoves
    <3>1. usbDevices' = usbDevices
      BY <2>6 DEF DiscoveryChanges, WindowMoves
    <3>2. installIDs' = installIDs /\ ctl' = ctl
      BY <2>1, <2>6, WorldStep
    <3>. QED  BY <2>1, <2>2, <2>4, <3>1, <3>2
  <2>7. CASE (\E t \in Targets : Tap(t)) \/ DisconnectAll \/ RestartAll
                \/ \E s \in Slots : Disconnect(s)
    <3>1. MakesNoTwins(ctl, ctl', usbDevices)
      BY <2>7, UserStep
    <3>2. UNCHANGED <<usbDevices, installIDs>>
      BY <2>7 DEF Tap, DisconnectAll, RestartAll, Disconnect, world
    <3>. QED  BY <2>2, <2>3, <3>1, <3>2
  <2>8. CASE \E s \in Slots : Disconnected(s) \/ StartReturns(s)
    <3>1. MakesNoTwins(ctl, ctl', usbDevices)
      BY <2>2, <2>8, SenderStep
    <3>2. UNCHANGED <<usbDevices, installIDs>>
      BY <2>8 DEF Disconnected, StartReturns, world
    <3>. QED  BY <2>2, <2>3, <3>1, <3>2
  <2>9. CASE \E s \in Slots : StopReturns(s)
    BY <2>2, <2>3, <2>9, StopStep
  <2>. QED  BY <2>2, <2>5, <2>6, <2>7, <2>8, <2>9 DEF Next
<1> HIDE DEF One, P
<1>3. Spec => []One /\ [][P]_vars
  BY <1>1, <1>2, Invariant, PTL DEF Spec
<1>. QED  BY <1>3 DEF NoTwins, One, P

\* A takeover that end() accepted is what the stop of the old session leads to,
\* whatever happened in between.
THEOREM TakeoversHonoured == Spec => TakeoverHonoured
<1> DEFINE P == \A s \in Slots :
                   /\ ctl.lifecycle[s] = "stopping" /\ ctl'.lifecycle[s] # "stopping"
                   /\ ctl.completion[s].does = "connect"
                   => \E n \in ctl'.sessions : n.target = ctl.completion[s].target
<1>1. IInv /\ [Next]_vars => [P]_vars
  <2> SUFFICES ASSUME IInv, Next,
                      NEW s \in Slots,
                      ctl.lifecycle[s] = "stopping", ctl'.lifecycle[s] # "stopping",
                      ctl.completion[s].does = "connect"
               PROVE  \E n \in ctl'.sessions : n.target = ctl.completion[s].target
    OBVIOUS
  <2>1. s \in ctl.sessions
    BY DEF IInv, Sound, Listed
  <2>2. ~Stays(ctl, ctl')
    BY <2>1 DEF Stays
  <2>3. PICK z \in Slots : StopReturns(z)
    BY <2>2, WorldStep, UserStep, SenderStep DEF Next
  <2>4. z = s
    BY <2>1, <2>3, StopStep
  <2>. QED  BY <2>3, <2>4, StopStep
<1>. QED  BY <1>1, Invariant, PTL DEF Spec, TakeoverHonoured

\* What the user opted out of is dialed again only for a tap on it, or by what a
\* takeover or a restart that was under way had promised.
THEOREM OptOutsKept == Spec => OptOutKept
<1> DEFINE P == \A n \in ctl'.sessions \ ctl.sessions :
                   n.target \in {Usb(d) : d \in ctl.usbDisabled}
                                    \cup {Wifi(d) : d \in Devices \ ctl.wifiRemembered}
                   => \/ Tap(n.target)
                      \/ \E s \in ctl.sessions \ ctl'.sessions :
                             ctl.completion[s].does \in {"connect", "restart"}
<1>1. IInv /\ [Next]_vars => [P]_vars
  <2> SUFFICES ASSUME IInv, Next,
                      NEW n \in ctl'.sessions \ ctl.sessions,
                      n.target \in {Usb(d) : d \in ctl.usbDisabled}
                                       \cup {Wifi(d) : d \in Devices \ ctl.wifiRemembered}
               PROVE  \/ Tap(n.target)
                      \/ \E s \in ctl.sessions \ ctl'.sessions :
                             ctl.completion[s].does \in {"connect", "restart"}
    OBVIOUS
  <2>1. CASE (\E d \in Devices : UsbDevicesChange(d) \/ DiscoveryChanges(d)) \/ WindowMoves
    <3>1. NewFor(ctl, ctl', {Usb(d) : d \in Devices \ ctl.usbDisabled}
                               \cup {Wifi(d) : d \in ctl.wifiRemembered})
      BY <2>1, WorldStep
    <3>2. n.target \in {Usb(d) : d \in Devices \ ctl.usbDisabled}
                          \cup {Wifi(d) : d \in ctl.wifiRemembered}
      BY <3>1 DEF NewFor
    <3>. QED  BY <3>2, Sides
  <2>2. CASE \E t \in Targets : Tap(t)
    BY <2>2, UserStep DEF NewFor
  <2>3. CASE DisconnectAll \/ RestartAll \/ \E s \in Slots : Disconnect(s)
    BY <2>3, UserStep
  <2>4. CASE \E s \in Slots : Hello(s) \/ Disconnected(s) \/ StartReturns(s)
    BY <2>4, SenderStep
  <2>5. ASSUME NEW s \in Slots, StopReturns(s)
        PROVE  s \in ctl.sessions \ ctl'.sessions
                  /\ ctl.completion[s].does \in {"connect", "restart"}
    <3>1. /\ s \in ctl.sessions \ ctl'.sessions
          /\ ctl.completion[s] \in Completions
          /\ ctl.completion[s].does = "nothing" => ctl'.sessions \subseteq ctl.sessions
      BY <2>5, StopStep
    <3>. QED  BY <3>1 DEF Completions, Nothing
  <2>. QED  BY <2>1, <2>2, <2>3, <2>4, <2>5 DEF Next
<1>. QED  BY <1>1, Invariant, PTL DEF Spec, OptOutKept
=============================================================================
