-------------------------- MODULE CkSession_proofs --------------------------
(***************************************************************************)
(* Proofs about CkSession, for any number of sessions, clients and         *)
(* devices.                                                                *)
(*                                                                         *)
(* None of the invariants is inductive as it stands. That access ends with *)
(* activity rests on ck_device_set_active leaving a paused device alone:   *)
(* what a session may use is among the devices it has marked active, and   *)
(* an inactive session has none. That a resumed card finds its master free *)
(* rests on there being one active session at most, the seat's.            *)
(***************************************************************************)
EXTENDS CkSession, TLAPS

\* What holds of the devices of each session.
SessionDevices ==
  \A s \in Sessions : /\ access[s] \subseteq state[s] /\ access[s] \subseteq fds[s]
                      /\ state[s] \subseteq devices[s]
                      /\ state[s] # {} => s \in active
                      /\ fds[s] \subseteq devices[s]
                      /\ fds[s] \cap Other = {}
                      /\ state[s] \cap fds[s] \subseteq access[s]

\* The inductive invariant.
SessionInv ==
  /\ SessionTypeOK
  /\ active \subseteq {current}
  /\ SessionDevices
  /\ DevicesHaveController

----------------------------------------------------------------------------
\* Initially nothing is open.
LEMMA InitSession == Init => SessionInv
  BY SessionAssumption DEF Init, Nothing, SessionInv, SessionTypeOK, DeviceSets,
     SessionDevices, DevicesHaveController, Devices

\* change_active_session, whatever sessions are finalized with it, as long as the new
\* one is not among them: at most one session is active after it, and the devices of
\* every session are as they should be.
LEMMA ChangeActive ==
  ASSUME SessionInv,
         NEW new \in Sessions \cup {NoSession}, NEW gone \in SUBSET Sessions,
         new \notin gone, change_active_session(new, gone)
  PROVE  /\ current' = new
         /\ active' \subseteq {new} \ {NoSession}
         /\ devices' \in DeviceSets /\ state' \in DeviceSets
         /\ fds' \in DeviceSets /\ access' \in DeviceSets
         /\ SessionDevices'
         /\ \A s \in Sessions : devices'[s] = IF s \in gone THEN {} ELSE devices[s]
  <1> DEFINE leaves(s) == s = current /\ s # new /\ s \in active
             enters(s) == s = new /\ s \notin active
             off == [s \in Sessions |-> IF leaves(s) THEN access[s] \ state[s]
                                        ELSE IF s \in gone THEN {} ELSE access[s]]
             keep(s, D) == IF s \in gone THEN {} ELSE D
  <1>1. PICK failed \in SUBSET Evdev :
          /\ failed \subseteq UNION {Resumed(s) : s \in {t \in Sessions : enters(t)}}
          /\ current' = new
          /\ active' = (active \ (({current} \ {new}) \cup gone)) \cup ({new} \ {NoSession})
          /\ devices' = [s \in Sessions |-> keep(s, devices[s])]
          /\ state' = [s \in Sessions |->
                         keep(s, IF leaves(s) THEN {}
                                 ELSE IF enters(s) THEN devices[s] ELSE state[s])]
          /\ access' = [s \in Sessions |->
                         keep(s, IF enters(s) THEN off[s] \cup Usable(off, s, failed)
                                              ELSE off[s])]
          /\ fds' = [s \in Sessions |->
                         keep(s, IF enters(s)
                                   THEN (fds[s] \cup (Resumed(s) \cap Evdev)) \ failed
                                   ELSE fds[s])]
    BY DEF change_active_session
  <1> HIDE DEF leaves, enters, off, keep
  <1>2. /\ active \subseteq {current} /\ active \subseteq Sessions
        /\ devices \in DeviceSets /\ state \in DeviceSets
        /\ fds \in DeviceSets /\ access \in DeviceSets
        /\ SessionDevices
    BY DEF SessionInv, SessionTypeOK
  <1>3. active' \subseteq {new} \ {NoSession}
    BY <1>1, <1>2, SessionAssumption
  <1>4. \A s \in Sessions : off[s] = IF s \in active /\ s = new THEN access[s] ELSE {}
    BY <1>2 DEF off, leaves, SessionDevices
  <1>5. \A s \in Sessions : Usable(off, s, failed) =
          {d \in Resumed(s) : d \in (Drm \cap fds[s]) \cup (Evdev \ failed)}
                              \/ s \in active \/ s # new
    BY <1>4 DEF Usable, MasterFree
  <1>6. \A s \in Sessions : enters(s) => state[s] = {} /\ Resumed(s) = devices[s]
    BY <1>2 DEF enters, SessionDevices, Resumed, DeviceSets
  <1>7. /\ devices' \in DeviceSets /\ state' \in DeviceSets /\ fds' \in DeviceSets
    BY <1>1, <1>2, <1>6 DEF DeviceSets, keep, Devices
  <1>8. access' \in DeviceSets
    BY <1>1, <1>2, <1>4 DEF DeviceSets, keep, Usable, Resumed
  <1>9. ASSUME NEW s \in Sessions
        PROVE  /\ access'[s] \subseteq state'[s] /\ access'[s] \subseteq fds'[s]
               /\ state'[s] \subseteq devices'[s]
               /\ state'[s] # {} => s \in active'
               /\ fds'[s] \subseteq devices'[s]
               /\ fds'[s] \cap Other = {}
               /\ state'[s] \cap fds'[s] \subseteq access'[s]
    <2>1. CASE s \in gone
      BY <2>1, <1>1 DEF keep
    <2>2. CASE s \notin gone /\ enters(s)
      BY <2>2, <1>1, <1>2, <1>4, <1>5, <1>6, SessionAssumption
         DEF keep, enters, SessionDevices, leaves, DeviceSets, Devices
    <2>3. CASE s \notin gone /\ ~ enters(s)
      BY <2>3, <1>1, <1>2, <1>4 DEF keep, enters, SessionDevices, leaves, DeviceSets
    <2> QED BY <2>1, <2>2, <2>3
  <1>10. \A s \in Sessions : devices'[s] = IF s \in gone THEN {} ELSE devices[s]
    BY <1>1 DEF keep
  <1> QED BY <1>1, <1>3, <1>7, <1>8, <1>9, <1>10 DEF SessionDevices

----------------------------------------------------------------------------
\* ck_device_finalize.
LEMMA Finalized ==
  ASSUME SessionInv, NEW s \in Sessions, NEW D, ck_device_finalize(s, D), active' = active
  PROVE  /\ devices' \in DeviceSets /\ state' \in DeviceSets
         /\ fds' \in DeviceSets /\ access' \in DeviceSets
         /\ devices' = [devices EXCEPT ![s] = @ \ D]
         /\ fds' = [fds EXCEPT ![s] = @ \ D]
         /\ SessionDevices'
  <1>1. /\ devices' \in DeviceSets /\ state' \in DeviceSets
        /\ fds' \in DeviceSets /\ access' \in DeviceSets
    BY DEF ck_device_finalize, SessionInv, SessionTypeOK, DeviceSets
  <1>2. SessionDevices'
    BY DEF ck_device_finalize, SessionInv, SessionTypeOK, DeviceSets, SessionDevices
  <1> QED BY <1>1, <1>2 DEF ck_device_finalize

\* RestoreVt and ck_session_setup_vt_signal keep the VTs apart.
LEMMA VtTypes ==
  ASSUME SessionInv, NEW s \in Sessions,
         RestoreVt(s) \/ ck_session_setup_vt_signal(s)
  PROVE  /\ graphics' \subseteq HasVt /\ muted' \subseteq HasVt /\ watched' \subseteq HasVt
         /\ watched' \subseteq watched \cup {s}
         /\ RestoreVt(s) => watched' = watched \ {s}
  BY DEF SessionInv, SessionTypeOK, RestoreVt, ck_session_setup_vt_signal, Restored

----------------------------------------------------------------------------
\* Every step keeps the invariant.
LEMMA NextSession == SessionInv /\ [Next]_vars => SessionInv'
  <1> SUFFICES ASSUME SessionInv, [Next]_vars PROVE SessionInv'
    OBVIOUS
  <1>T. /\ SessionTypeOK /\ active \subseteq {current} /\ SessionDevices
        /\ DevicesHaveController
    BY DEF SessionInv
  <1>1. ASSUME NEW new \in Sessions \cup {NoSession}, SeatSwitches(new)
        PROVE  SessionInv'
    <2>1. change_active_session(new, {}) /\ UNCHANGED <<open, controller, ttyvars>>
      BY <1>1 DEF SeatSwitches
    <2>2. /\ current' = new
          /\ active' \subseteq {new} \ {NoSession}
          /\ devices' \in DeviceSets /\ state' \in DeviceSets
          /\ fds' \in DeviceSets /\ access' \in DeviceSets
          /\ SessionDevices'
          /\ \A s \in Sessions : devices'[s] = devices[s]
      BY <2>1, ChangeActive
    <2>3. SessionTypeOK'
      BY <1>1, <1>T, <2>1, <2>2 DEF SessionTypeOK, SeatSwitches, ttyvars
    <2>4. DevicesHaveController'
      BY <1>T, <2>1, <2>2 DEF DevicesHaveController, SessionDevices, ttyvars
    <2> QED BY <2>2, <2>3, <2>4 DEF SessionInv
  <1>2. ASSUME LetOldKnow PROVE SessionInv'
    <2>1. /\ current \in active /\ current \in Sessions
          /\ ck_session_pause_all_devices(current)
          /\ UNCHANGED <<open, current, controller, ttyvars>>
      BY <1>2, <1>T DEF LetOldKnow, SessionTypeOK
    <2>2. SessionTypeOK'
      BY <1>T, <2>1 DEF SessionTypeOK, ck_session_pause_all_devices, Pause, DeviceSets, ttyvars
    <2>3. SessionDevices'
      BY <1>T, <2>1 DEF SessionTypeOK, ck_session_pause_all_devices, Pause, DeviceSets,
         SessionDevices
    <2>4. DevicesHaveController' /\ active' \subseteq {current'}
      BY <1>T, <2>1 DEF ck_session_pause_all_devices, Pause, DevicesHaveController, ttyvars
    <2> QED BY <2>2, <2>3, <2>4 DEF SessionInv
  <1>3. ASSUME vt_leave_handler PROVE SessionInv'
    <2>1. SessionTypeOK'
      BY <1>3, <1>T DEF SessionTypeOK, vt_leave_handler, DeviceSets, ttyvars
    <2>2. SessionDevices'
      BY <1>3, <1>T DEF SessionTypeOK, vt_leave_handler, DeviceSets, SessionDevices
    <2>3. DevicesHaveController' /\ active' \subseteq {current'}
      BY <1>3, <1>T DEF vt_leave_handler, DevicesHaveController, ttyvars
    <2> QED BY <2>1, <2>2, <2>3 DEF SessionInv
  <1>4. ASSUME NEW s \in Sessions, NEW new \in Sessions \cup {NoSession},
               ck_session_new(s, new)
        PROVE  SessionInv'
    <2>1. /\ change_active_session(new, {}) /\ UNCHANGED <<controller, ttyvars>>
          /\ open' = open \cup {s} /\ new \in open' \cup {NoSession}
      BY <1>4, <1>T DEF ck_session_new, SessionTypeOK
    <2>2. /\ current' = new
          /\ active' \subseteq {new} \ {NoSession}
          /\ devices' \in DeviceSets /\ state' \in DeviceSets
          /\ fds' \in DeviceSets /\ access' \in DeviceSets
          /\ SessionDevices'
          /\ \A t \in Sessions : devices'[t] = devices[t]
      BY <2>1, ChangeActive
    <2>3. SessionTypeOK'
      BY <1>T, <2>1, <2>2 DEF SessionTypeOK, ttyvars
    <2>4. DevicesHaveController'
      BY <1>T, <2>1, <2>2 DEF DevicesHaveController, SessionDevices, ttyvars
    <2> QED BY <2>2, <2>3, <2>4 DEF SessionInv
  <1>5. ASSUME NEW s \in Sessions, NEW new \in Sessions \cup {NoSession},
               ck_session_finalize(s, new)
        PROVE  SessionInv'
    <2>1. /\ change_active_session(new, {s}) /\ RestoreVt(s)
          /\ controller' = [controller EXCEPT ![s] = NoClient]
          /\ open' = open \ {s} /\ new \in open' \cup {NoSession} /\ new # s
      BY <1>5, <1>T, SessionAssumption DEF ck_session_finalize, SessionTypeOK
    <2>2. /\ current' = new
          /\ active' \subseteq {new} \ {NoSession}
          /\ devices' \in DeviceSets /\ state' \in DeviceSets
          /\ fds' \in DeviceSets /\ access' \in DeviceSets
          /\ SessionDevices'
          /\ \A t \in Sessions : devices'[t] = IF t \in {s} THEN {} ELSE devices[t]
      BY <2>1, ChangeActive
    <2>3. /\ graphics' \subseteq HasVt /\ muted' \subseteq HasVt /\ watched' \subseteq HasVt
          /\ watched' = watched \ {s}
      BY <2>1, VtTypes
    <2>4. SessionTypeOK'
      BY <1>T, <2>1, <2>2, <2>3 DEF SessionTypeOK
    <2>5. DevicesHaveController'
      BY <1>T, <2>1, <2>2, <2>3 DEF DevicesHaveController, SessionDevices, SessionTypeOK
    <2> QED BY <2>2, <2>4, <2>5 DEF SessionInv
  <1>6. ASSUME NEW s \in Sessions, NEW c \in Clients, dbus_take_control(c, s)
        PROVE  SessionInv'
    <2>1. /\ ck_device_finalize(s, devices[s]) /\ ck_session_setup_vt_signal(s)
          /\ controller' = [controller EXCEPT ![s] = c]
          /\ UNCHANGED <<open, current, active>>
      BY <1>6 DEF dbus_take_control
    <2>2. /\ devices' \in DeviceSets /\ state' \in DeviceSets
          /\ fds' \in DeviceSets /\ access' \in DeviceSets
          /\ devices' = [devices EXCEPT ![s] = @ \ devices[s]]
          /\ fds' = [fds EXCEPT ![s] = @ \ devices[s]]
          /\ SessionDevices'
      BY <2>1, Finalized
    <2>3. /\ graphics' \subseteq HasVt /\ muted' \subseteq HasVt /\ watched' \subseteq HasVt
          /\ watched' \subseteq watched \cup {s}
      BY <2>1, VtTypes
    <2>4. SessionTypeOK'
      BY <1>T, <2>1, <2>2, <2>3 DEF SessionTypeOK
    <2>5. DevicesHaveController'
      BY <1>T, <2>1, <2>2, <2>3, SessionAssumption
         DEF DevicesHaveController, SessionTypeOK, DeviceSets
    <2> QED BY <1>T, <2>1, <2>2, <2>4, <2>5 DEF SessionInv
  <1>7. ASSUME NEW s \in Sessions, dbus_release_control(s) PROVE SessionInv'
    <2>1. /\ ck_device_finalize(s, devices[s]) /\ RestoreVt(s)
          /\ controller' = [controller EXCEPT ![s] = NoClient]
          /\ UNCHANGED <<open, current, active>>
      BY <1>7 DEF dbus_release_control, ck_session_controller_cleanup
    <2>2. /\ devices' \in DeviceSets /\ state' \in DeviceSets
          /\ fds' \in DeviceSets /\ access' \in DeviceSets
          /\ devices' = [devices EXCEPT ![s] = @ \ devices[s]]
          /\ fds' = [fds EXCEPT ![s] = @ \ devices[s]]
          /\ SessionDevices'
      BY <2>1, Finalized
    <2>3. /\ graphics' \subseteq HasVt /\ muted' \subseteq HasVt /\ watched' \subseteq HasVt
          /\ watched' = watched \ {s}
      BY <2>1, VtTypes
    <2>4. SessionTypeOK'
      BY <1>T, <2>1, <2>2, <2>3 DEF SessionTypeOK
    <2>5. DevicesHaveController'
      BY <1>T, <2>1, <2>2, <2>3
         DEF DevicesHaveController, SessionTypeOK, DeviceSets, SessionDevices
    <2> QED BY <1>T, <2>1, <2>2, <2>4, <2>5 DEF SessionInv
  <1>8. ASSUME NEW s \in Sessions, NEW d \in Devices, NEW opens \in BOOLEAN,
               dbus_take_device(s, d, opens)
        PROVE  SessionInv'
    <2>1. /\ controller[s] # NoClient /\ ck_device_new(s, d, opens)
          /\ d \notin devices[s] \/ d \notin fds[s]
          /\ UNCHANGED <<open, current, active, controller, ttyvars>>
      BY <1>8 DEF dbus_take_device, Listed, Dead
    <2>2. d \notin fds[s]
      BY <1>T, <2>1 DEF SessionDevices
    <2>3. /\ devices' \in DeviceSets /\ state' \in DeviceSets
          /\ fds' \in DeviceSets /\ access' \in DeviceSets
      BY <1>T, <2>1 DEF SessionTypeOK, ck_device_new, ck_device_open, DeviceSets
    <2>4. \A t \in Sessions \ {s} : /\ devices'[t] = devices[t] /\ state'[t] = state[t]
                                    /\ fds'[t] = fds[t] /\ access'[t] = access[t]
      BY <1>T, <2>1 DEF SessionTypeOK, ck_device_new, ck_device_open, DeviceSets
    <2>5. s \in active => MasterFree(access, s, d)
      BY <1>T DEF SessionDevices, MasterFree
    <2>6. /\ access'[s] \subseteq state'[s] /\ access'[s] \subseteq fds'[s]
          /\ state'[s] \subseteq devices'[s]
          /\ state'[s] # {} => s \in active'
          /\ fds'[s] \subseteq devices'[s] /\ fds'[s] \cap Other = {}
      BY <1>T, <2>1 DEF SessionTypeOK, SessionDevices, ck_device_new, ck_device_open, DeviceSets
    <2>7. state'[s] \cap fds'[s] \subseteq access'[s]
      BY <1>T, <2>1, <2>2, <2>5
         DEF SessionTypeOK, SessionDevices, ck_device_new, ck_device_open, DeviceSets
    <2>8. SessionDevices'
      BY <1>T, <2>1, <2>4, <2>6, <2>7 DEF SessionDevices
    <2>9. SessionTypeOK' /\ DevicesHaveController'
      BY <1>T, <2>1, <2>3, <2>4 DEF SessionTypeOK, DevicesHaveController, ttyvars
    <2> QED BY <1>T, <2>1, <2>8, <2>9 DEF SessionInv
  <1>9. ASSUME NEW s \in Sessions, NEW d \in Devices, DropsDead(s, d)
        PROVE  SessionInv'
    <2>1. SessionTypeOK'
      BY <1>9, <1>T DEF DropsDead, ck_session_get_device, SessionTypeOK, DeviceSets, ttyvars
    <2>2. SessionDevices'
      BY <1>9, <1>T DEF DropsDead, ck_session_get_device, SessionTypeOK, DeviceSets,
         SessionDevices, Dead
    <2>3. DevicesHaveController' /\ active' \subseteq {current'}
      BY <1>9, <1>T DEF DropsDead, ck_session_get_device, SessionTypeOK, DeviceSets,
         DevicesHaveController, ttyvars
    <2> QED BY <2>1, <2>2, <2>3 DEF SessionInv
  <1>10. ASSUME NEW s \in Sessions, NEW d \in Devices, dbus_release_device(s, d)
         PROVE  SessionInv'
    <2>1. /\ ck_device_finalize(s, {d}) /\ controller[s] # NoClient
          /\ UNCHANGED <<open, current, active, controller, ttyvars>>
      BY <1>10 DEF dbus_release_device
    <2>2. /\ devices' \in DeviceSets /\ state' \in DeviceSets
          /\ fds' \in DeviceSets /\ access' \in DeviceSets
          /\ devices' = [devices EXCEPT ![s] = @ \ {d}]
          /\ fds' = [fds EXCEPT ![s] = @ \ {d}]
          /\ SessionDevices'
      BY <2>1, Finalized
    <2>3. SessionTypeOK'
      BY <1>T, <2>1, <2>2 DEF SessionTypeOK, ttyvars
    <2>4. DevicesHaveController'
      BY <1>T, <2>1, <2>2 DEF DevicesHaveController, SessionTypeOK, DeviceSets, ttyvars
    <2> QED BY <1>T, <2>1, <2>2, <2>3, <2>4 DEF SessionInv
  <1>11. ASSUME NEW s \in Sessions, NEW d \in Devices, dbus_pause_device_complete(s, d)
         PROVE  SessionInv'
    <2>1. /\ Pause(s, {d}) /\ controller[s] # NoClient
          /\ active' = IF state'[s] = {} THEN active \ {s} ELSE active
          /\ UNCHANGED <<open, current, controller, ttyvars>>
      BY <1>11 DEF dbus_pause_device_complete
    <2>2. SessionTypeOK'
      BY <1>T, <2>1 DEF SessionTypeOK, Pause, DeviceSets, ttyvars
    <2>3. SessionDevices'
      BY <1>T, <2>1 DEF SessionTypeOK, Pause, DeviceSets, SessionDevices
    <2>4. DevicesHaveController' /\ active' \subseteq {current'}
      BY <1>T, <2>1 DEF Pause, DevicesHaveController, ttyvars
    <2> QED BY <2>2, <2>3, <2>4 DEF SessionInv
  <1>12. CASE UNCHANGED vars
    BY <1>12, <1>T DEF vars, devvars, ttyvars, SessionInv, SessionTypeOK, SessionDevices,
       DevicesHaveController
  <1> QED
    BY <1>1, <1>2, <1>3, <1>4, <1>5, <1>6, <1>7, <1>8, <1>9, <1>10, <1>11, <1>12 DEF Next

LEMMA SessionInvariant == Spec => []SessionInv
  BY InitSession, NextSession, PTL DEF Spec

----------------------------------------------------------------------------
\* The state of sessions, devices and VTs keeps its type.
THEOREM SessionTypeCorrect == Spec => []SessionTypeOK
  <1>1. SessionInv => SessionTypeOK
    BY DEF SessionInv
  <1> QED BY <1>1, SessionInvariant, PTL

\* Whatever way a controller goes (ReleaseControl, a lost connection, a replacement by
\* root, the end of the session), nothing that was opened for it stays.
THEOREM ControllersCleanUp == Spec => []DevicesHaveController
  <1>1. SessionInv => DevicesHaveController
    BY DEF SessionInv
  <1> QED BY <1>1, SessionInvariant, PTL

\* A session that is not active has access to none of its devices.
THEOREM AccessCorrect == Spec => []AccessNeedsActive
  <1>1. SessionInv => AccessNeedsActive
    BY DEF SessionInv, SessionDevices, AccessNeedsActive
  <1> QED BY <1>1, SessionInvariant, PTL

\* An active device with a descriptor is usable: the session that becomes active always
\* finds the cards without a master.
THEOREM UsableCorrect == Spec => []ActiveDevicesUsable
  <1>1. SessionInv => ActiveDevicesUsable
    BY DEF SessionInv, SessionDevices, ActiveDevicesUsable
  <1> QED BY <1>1, SessionInvariant, PTL

\* A VT whose switches the daemon controlled is put back when control is given up.
THEOREM VtsGivenBack == Spec => VtGivenBack
  <1> DEFINE GivesBack ==
        \A s \in watched \ watched' :
          s \notin graphics' \cup muted' \/ controller'[s] # NoClient
  <1>1. SessionInv /\ [Next]_vars => [GivesBack]_vars
    <2> SUFFICES ASSUME SessionInv, Next, NEW s \in watched \ watched'
                 PROVE  s \notin graphics' \cup muted' \/ controller'[s] # NoClient
      BY DEF vars
    <2>1. s \in Sessions /\ controller \in [Sessions -> Clients \cup {NoClient}]
      BY SessionAssumption DEF SessionInv, SessionTypeOK
    <2>2. watched' # watched
      OBVIOUS
    <2>3. \E t \in Sessions :
            \/ RestoreVt(t)
            \/ /\ ck_session_setup_vt_signal(t)
               /\ \E c \in Clients : controller' = [controller EXCEPT ![t] = c]
      BY <2>2 DEF Next, SeatSwitches, LetOldKnow, vt_leave_handler, ck_session_new,
         ck_session_finalize, dbus_take_control, dbus_release_control,
         ck_session_controller_cleanup, dbus_take_device, DropsDead, dbus_release_device,
         dbus_pause_device_complete, ttyvars
    <2>4. ASSUME NEW t \in Sessions, RestoreVt(t)
          PROVE  s \notin graphics' \cup muted'
      BY <2>4 DEF RestoreVt, Restored
    <2>5. ASSUME NEW t \in Sessions, NEW c \in Clients, ck_session_setup_vt_signal(t),
                 controller' = [controller EXCEPT ![t] = c]
          PROVE  s \notin graphics' \cup muted' \/ controller'[s] # NoClient
      BY <2>1, <2>5, SessionAssumption DEF ck_session_setup_vt_signal, RestoreVt, Restored
    <2> QED BY <2>3, <2>4, <2>5
  <1> QED BY <1>1, SessionInvariant, PTL DEF Spec, VtGivenBack
=============================================================================
