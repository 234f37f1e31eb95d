----------------------------- MODULE CkSession -----------------------------
(***************************************************************************)
(* Who may use a device. A session (ck-session.c) hands the devices it     *)
(* opened (ck-device-udev.c) to its controller, mutes them while it is not *)
(* active and takes the VT over for the controller. The sessions of a seat *)
(* compete: a DRM card has one master, and the seat moves activity from    *)
(* one session to the next.                                                *)
(*                                                                         *)
(* Every caller in the daemon passes force = TRUE to                       *)
(* ck_session_set_active, so pause_devices_timer is never set: a pause is  *)
(* immediate, PauseDeviceComplete is what a controller sends by itself.    *)
(* Sessions are on VTs of their own; CkSeat has the shared ones.           *)
(***************************************************************************)
EXTENDS Naturals, FiniteSets

CONSTANTS Sessions,      \* CkSession objects of one seat
          NoSession,     \* NULL
          HasVt,         \* the sessions whose vtnr is not 0
          Clients,       \* bus names that may call
          RootClients,   \* those that run as root
          NoClient,      \* no session controller
          Drm,           \* devices of category DEVICE_DRM
          Evdev,         \* devices of category DEVICE_EVDEV
          Other          \* devices of category DEVICE_OTHER

Devices == Drm \cup Evdev \cup Other

ASSUME SessionAssumption ==
  /\ NoSession \notin Sessions
  /\ NoClient \notin Clients
  /\ HasVt \subseteq Sessions
  /\ RootClients \subseteq Clients
  /\ Drm \cap Evdev = {} /\ Drm \cap Other = {} /\ Evdev \cap Other = {}

VARIABLES open,         \* sessions that exist
          current,      \* the seat's active_session
          active,       \* the sessions whose Active property is TRUE
          controller,   \* session -> session_controller
          devices,      \* session -> devices in the list
          state,        \* session -> devices whose state is TRUE
          fds,          \* session -> devices with an open file descriptor
          access,       \* session -> devices the kernel lets it use: it is
                        \* master of the card, or the fd is not revoked
          graphics,     \* sessions whose VT is in KD_GRAPHICS mode
          muted,        \* sessions whose VT has its keyboard off
          watched       \* sessions with VT_PROCESS and its two signal handlers

devvars == <<devices, state, fds, access>>
ttyvars == <<graphics, muted, watched>>
vars == <<open, current, active, controller, devvars, ttyvars>>

DeviceSets == [Sessions -> SUBSET Devices]

SessionTypeOK ==
  /\ open \subseteq Sessions
  /\ current \in open \cup {NoSession}
  /\ active \subseteq open
  /\ controller \in [Sessions -> Clients \cup {NoClient}]
  /\ devices \in DeviceSets /\ state \in DeviceSets
  /\ fds \in DeviceSets /\ access \in DeviceSets
  /\ graphics \subseteq HasVt /\ muted \subseteq HasVt /\ watched \subseteq HasVt

Nothing == [s \in Sessions |-> {}]

Init ==
  /\ open = {} /\ current = NoSession /\ active = {}
  /\ controller = [s \in Sessions |-> NoClient]
  /\ devices = Nothing /\ state = Nothing /\ fds = Nothing /\ access = Nothing
  /\ graphics = {} /\ muted = {} /\ watched = {}

----------------------------------------------------------------------------
(* Devices.                                                                *)

\* No other file descriptor is master of the card. acc is who has access.
MasterFree(acc, s, d) == \A t \in Sessions \ {s} : d \notin acc[t]

\* ck_device_set_active (d, FALSE) for the devices D of s: one that is already
\* paused is left alone, a card's master is dropped, an input device revoked.
Pause(s, D) ==
  /\ state' = [state EXCEPT ![s] = @ \ D]
  /\ access' = [access EXCEPT ![s] = @ \ (D \cap state[s])]
  /\ UNCHANGED <<devices, fds>>

\* The devices of s that ck_device_set_active (d, TRUE) changes.
Resumed(s) == devices[s] \ state[s]

\* Resuming the new session's devices before the old session's are paused.
Usable_BeforeOld(acc, s, failed) ==
  {d \in Resumed(s) : \/ d \in Drm \cap fds[s] /\ MasterFree(access, s, d)
                      \/ d \in Evdev \ failed}

\* Those of them that get access, when acc is who has it and the input devices
\* in failed cannot be opened: a card has one master, an input device is opened
\* afresh.
Usable(acc, s, failed) ==
  {d \in Resumed(s) : \/ d \in Drm \cap fds[s] /\ MasterFree(acc, s, d)
                      \/ d \in Evdev \ failed}

\* ck_device_open that forgets to mute a device opened for an inactive session.
ck_device_open_NeverMuted(s, d, opens) ==
  /\ fds' = [fds EXCEPT ![s] = IF opens THEN @ \cup {d} ELSE @]
  /\ access' = [access EXCEPT ![s] =
                  IF opens /\ (d \in Drm => MasterFree(access, s, d))
                    THEN @ \cup {d} ELSE @]

\* Opening a device for a session: whether it succeeds, and whether it comes
\* with access. A card whose master is taken is opened again without.
ck_device_open(s, d, opens) ==
  /\ fds' = [fds EXCEPT ![s] = IF opens THEN @ \cup {d} ELSE @]
  /\ access' = [access EXCEPT ![s] =
                  IF opens /\ s \in active /\ (d \in Drm => MasterFree(access, s, d))
                    THEN @ \cup {d} ELSE @]

\* ck_device_new: the device starts in the session's state and is listed even
\* when it could not be opened. Only cards and input devices are opened.
ck_device_new(s, d, opens) ==
  /\ devices' = [devices EXCEPT ![s] = @ \cup {d}]
  /\ state' = [state EXCEPT ![s] = IF s \in active THEN @ \cup {d} ELSE @]
  /\ opens => d \notin Other
  /\ ck_device_open(s, d, opens)

\* The last reference to the devices D of s goes: muted, closed, not listed.
ck_device_finalize(s, D) ==
  /\ devices' = [devices EXCEPT ![s] = @ \ D]
  /\ state' = [state EXCEPT ![s] = @ \ D]
  /\ access' = [access EXCEPT ![s] = @ \ D]
  /\ fds' = [fds EXCEPT ![s] = @ \ D]

\* ck_session_get_device drops an input device that has lost its descriptor.
Dead(s, d) == d \in devices[s] \cap Evdev /\ d \notin fds[s]
Listed(s, d) == d \in devices[s] /\ ~ Dead(s, d)

ck_session_get_device(s, d) ==
  /\ devices' = [devices EXCEPT ![s] = IF Dead(s, d) THEN @ \ {d} ELSE @]
  /\ state' = [state EXCEPT ![s] = IF Dead(s, d) THEN @ \ {d} ELSE @]
  /\ UNCHANGED <<fds, access>>

----------------------------------------------------------------------------
(* Activity, decided by the seat.                                          *)

\* ck_session_pause_all_devices, forced: the session is inactive at once.
ck_session_pause_all_devices(s) ==
  /\ Pause(s, devices[s])
  /\ active' = active \ {s}

\* change_active_session: the old session is paused, the new one resumed. The
\* session that is current already is resumed if it is not active. What a
\* session in its proper state is asked to do again changes nothing. The
\* sessions in gone are finalized, and their devices with them.
change_active_session(new, gone) ==
  \E failed \in SUBSET Evdev :
    LET leaves(s) == s = current /\ s # new /\ s \in active
        enters(s) == s = new /\ s \notin active
        off == [s \in Sessions |-> IF leaves(s) THEN access[s] \ state[s]
                                   ELSE IF s \in gone THEN {} ELSE access[s]]
        keep(s, D) == IF s \in gone THEN {} ELSE D
    IN /\ failed \subseteq UNION {Resumed(s) : s \in {t \in Sessions : enters(t)}}
       /\ current' = new
       /\ active' = (active \ (({current} \ {new}) \cup gone)) \cup ({new} \ {NoSession})
       /\ devices' = [s \in Sessions |-> keep(s, devices[s])]
       /\ state' = [s \in Sessions |->
                      keep(s, IF leaves(s) THEN {}
                              ELSE IF enters(s) THEN devices[s] ELSE state[s])]
       /\ access' = [s \in Sessions |->
                      keep(s, IF enters(s) THEN off[s] \cup Usable(off, s, failed)
                                           ELSE off[s])]
       /\ fds' = [s \in Sessions |->
                      keep(s, IF enters(s) THEN (fds[s] \cup (Resumed(s) \cap Evdev)) \ failed
                                           ELSE fds[s])]

\* The VT changed: the seat looks up the session it belongs to.
SeatSwitches(new) ==
  /\ new \in open \cup {NoSession}
  /\ change_active_session(new, {})
  /\ UNCHANGED <<open, controller, ttyvars>>

\* A session is opened and added to the seat, which then looks its session up.
ck_session_new(s, new) ==
  /\ s \in Sessions \ open
  /\ new \in {s, current}
  /\ open' = open \cup {s}
  /\ change_active_session(new, {})
  /\ UNCHANGED <<controller, ttyvars>>

\* ck_seat_activate_session lets the old session know that it is about to change.
LetOldKnow ==
  /\ current \in active
  /\ ck_session_pause_all_devices(current)
  /\ UNCHANGED <<open, current, controller, ttyvars>>

\* SIGUSR1: the kernel wants to leave a VT in VT_PROCESS mode. The signal comes to
\* every session with handlers, and each pauses its devices.
vt_leave_handler ==
  /\ watched # {}
  /\ state' = [s \in Sessions |-> IF s \in watched THEN {} ELSE state[s]]
  /\ access' = [s \in Sessions |-> IF s \in watched THEN access[s] \ state[s]
                                                     ELSE access[s]]
  /\ active' = active \ watched
  /\ UNCHANGED <<open, current, controller, devices, fds, ttyvars>>

----------------------------------------------------------------------------
(* The controller.                                                         *)

\* The VT is put back the way it was found when the handlers were set up.
Restored(S, s) == IF s \in watched THEN S \ {s} ELSE S

\* Restored forgetting the keyboard.
RestoreVt_KeepsMuted(s) ==
  /\ graphics' = Restored(graphics, s)
  /\ watched' = watched \ {s}
  /\ UNCHANGED muted

RestoreVt(s) ==
  /\ graphics' = Restored(graphics, s)
  /\ muted' = Restored(muted, s)
  /\ watched' = watched \ {s}

\* ck_session_controller_cleanup without ck_session_remove_all_devices.
ck_session_controller_cleanup_KeepsDevices(s) ==
  /\ RestoreVt(s)
  /\ UNCHANGED devvars

ck_session_controller_cleanup(s) ==
  /\ ck_device_finalize(s, devices[s])
  /\ RestoreVt(s)

\* ck_session_setup_vt_signal, after the cleanup. Nothing happens when the console
\* cannot be opened or switched to graphics, or is in graphics mode already. When
\* VT_SETMODE fails it returns with the VT in graphics mode and the keyboard off.
ck_session_setup_vt_signal(s) ==
  \/ RestoreVt(s)
  \/ /\ s \in HasVt \ Restored(graphics, s)
     /\ graphics' = graphics \cup {s}
     /\ muted' = muted \cup {s}
     /\ \/ watched' = watched \cup {s}
        \/ watched' = watched \ {s}

\* TakeControl by a client that is not the controller: the old one, which only root
\* may replace, is cleaned up after, and the VT taken. Every other call changes
\* nothing.
dbus_take_control(c, s) ==
  /\ s \in open
  /\ controller[s] # c
  /\ controller[s] = NoClient \/ c \in RootClients
  /\ controller' = [controller EXCEPT ![s] = c]
  /\ ck_device_finalize(s, devices[s])
  /\ ck_session_setup_vt_signal(s)
  /\ UNCHANGED <<open, current, active>>

\* ReleaseControl by the controller, and session_controller_vanished.
dbus_release_control(s) ==
  /\ controller[s] # NoClient
  /\ controller' = [controller EXCEPT ![s] = NoClient]
  /\ ck_session_controller_cleanup(s)
  /\ UNCHANGED <<open, current, active>>

\* TakeDevice by the controller. It fails for a device that is listed, that udev
\* does not know, or that could not be opened; the last stays in the list.
dbus_take_device(s, d, opens) ==
  /\ controller[s] # NoClient
  /\ ~ Listed(s, d)
  /\ ck_device_new(s, d, opens)
  /\ UNCHANGED <<open, current, active, controller, ttyvars>>

\* TakeDevice of a device that udev does not know, and every other call of the
\* controller that only meets an input device without descriptor.
DropsDead(s, d) ==
  /\ controller[s] # NoClient
  /\ Dead(s, d)
  /\ ck_session_get_device(s, d)
  /\ UNCHANGED <<open, current, active, controller, ttyvars>>

dbus_release_device(s, d) ==
  /\ controller[s] # NoClient
  /\ Listed(s, d)
  /\ ck_device_finalize(s, {d})
  /\ UNCHANGED <<open, current, active, controller, ttyvars>>

\* PauseDeviceComplete, which nothing obliges to follow a PauseDevice signal. When
\* no device of the session is left active, so is the session.
dbus_pause_device_complete(s, d) ==
  /\ controller[s] # NoClient
  /\ Listed(s, d)
  /\ Pause(s, {d})
  /\ active' = IF state'[s] = {} THEN active \ {s} ELSE active
  /\ UNCHANGED <<open, current, controller, ttyvars>>

\* The seat removes a session, looks up the one to follow, and the session is
\* finalized: its controller is cleaned up after.
ck_session_finalize(s, new) ==
  /\ s \in open
  /\ new \in (IF s = current THEN {NoSession} \cup open ELSE {current}) \ {s}
  /\ open' = open \ {s}
  /\ change_active_session(new, {s})
  /\ controller' = [controller EXCEPT ![s] = NoClient]
  /\ RestoreVt(s)

Next ==
  \/ \E new \in Sessions \cup {NoSession} : SeatSwitches(new)
  \/ LetOldKnow
  \/ vt_leave_handler
  \/ \E s \in Sessions :
       \/ \E new \in Sessions \cup {NoSession} :
            ck_session_new(s, new) \/ ck_session_finalize(s, new)
       \/ \E c \in Clients : dbus_take_control(c, s)
       \/ dbus_release_control(s)
       \/ \E d \in Devices :
            \/ \E opens \in BOOLEAN : dbus_take_device(s, d, opens)
            \/ DropsDead(s, d)
            \/ dbus_release_device(s, d)
            \/ dbus_pause_device_complete(s, d)

Spec == Init /\ [][Next]_vars

----------------------------------------------------------------------------
(* Properties.                                                             *)

\* Only a session with a controller has devices, descriptors and VT handlers:
\* whatever way a controller goes, nothing that was opened for it stays.
DevicesHaveController ==
  \A s \in Sessions : controller[s] = NoClient
                        => devices[s] = {} /\ fds[s] = {} /\ s \notin watched

\* "This guarantees that a session can only access session-devices if the session
\* is active": no card is left with its master and no input device unrevoked when
\* the session is inactive, closed or without controller.
AccessNeedsActive ==
  \A s \in Sessions : access[s] # {} => s \in active

\* The session that becomes active gets what the other one held: an active device
\* with an open descriptor is really usable, so no two sessions ever fight over a
\* card (the old session is paused before the new one is resumed).
ActiveDevicesUsable ==
  \A s \in Sessions : state[s] \cap fds[s] \subseteq access[s]

\* "put it back the way we found it": a VT whose switches the daemon controlled is
\* in text mode with its keyboard on as soon as control is given up.
VtGivenBack ==
  [][\A s \in watched \ watched' :
       s \notin graphics' \cup muted' \/ controller'[s] # NoClient]_vars

\* The same for every VT of a session without controller.
VtRestored == \A s \in graphics \cup muted : controller[s] # NoClient
=============================================================================
