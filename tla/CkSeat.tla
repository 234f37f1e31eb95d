------------------------------- MODULE CkSeat -------------------------------
(***************************************************************************)
(* The static seat (ck-seat.c) on top of the VT monitor's promise          *)
(* (VtEvents): which of the seat's sessions is active, how ActivateSession *)
(* and SwitchTo ask the kernel for another VT, and what happens while that *)
(* switch is under way. Everything the daemon does runs in its main loop,  *)
(* so one handler is one step; the kernel, the watchers of the VT monitor  *)
(* and the callers interleave with those steps.                            *)
(*                                                                         *)
(* A device name is the number of its VT, 0 when the session has none; the *)
(* session's vtnr property is taken to be the VT of its devices.           *)
(***************************************************************************)
EXTENDS VtEvents

CONSTANTS Sessions,            \* CkSession objects
          NoSession,           \* the NULL session
          X11DisplayDevice,    \* session -> VT number or 0
          DisplayDevice,       \* session -> VT number or 0
          Times,               \* the creation times a session may get
          Calls,               \* pending D-Bus invocations of the seat
          NoCall,              \* activation without an invocation to answer
          ActivateMayFail      \* whether ioctl (VT_ACTIVATE) can fail

ASSUME SeatAssumption ==
  /\ NoSession \notin Sessions
  /\ NoCall \notin Calls
  /\ X11DisplayDevice \in [Sessions -> Consoles \cup {0}]
  /\ DisplayDevice \in [Sessions -> Consoles \cup {0}]
  /\ Times \subseteq Nat
  /\ ActivateMayFail \in BOOLEAN

VARIABLES sessions,        \* CkSeatPrivate.sessions
          active_session,  \* CkSeatPrivate.active_session
          created,         \* creation_time of every session, 0 without one
          active,          \* the sessions whose Active property is TRUE
          controlled,      \* sessions whose VT is in VT_PROCESS mode for them
          switching,       \* the VT a requested switch goes to, 0 if none
          handlers,        \* invocations that connected activated_cb handlers hold
          replies          \* answers sent to each invocation, at most 2

seatvars == <<sessions, active_session, created, active, controlled,
              switching, handlers, replies>>
vars == <<vtvars, seatvars>>

SeatTypeOK ==
  /\ VtTypeOK
  /\ sessions \subseteq Sessions
  /\ active_session \in sessions \cup {NoSession}
  /\ created \in [Sessions -> Times \cup {0}]
  /\ active \subseteq sessions
  /\ controlled \subseteq sessions
  /\ switching \in Consoles \cup {0}
  /\ handlers \subseteq Calls
  /\ replies \in [Calls -> 0 .. 2]

SeatInit ==
  /\ VtInit
  /\ sessions = {}
  /\ active_session = NoSession
  /\ created = [s \in Sessions |-> 0]
  /\ active = {}
  /\ controlled = {}
  /\ switching = 0
  /\ handlers = {}
  /\ replies = [c \in Calls |-> 0]

----------------------------------------------------------------------------
(* Which session a VT belongs to.                                          *)

\* The VT a session is activated on: its X11 device, else its display device.
VtNum(s) ==
  IF X11DisplayDevice[s] # 0 THEN X11DisplayDevice[s] ELSE DisplayDevice[s]

match_session_x11_display_device(S, v) ==
  {s \in S : X11DisplayDevice[s] = v /\ v # 0}

match_session_display_device(S, v) ==
  {s \in S : DisplayDevice[s] = v /\ v # 0}

\* The sessions on a VT: the display device counts only when no X11 device does.
SessionsOnVt(S, v) ==
  IF match_session_x11_display_device(S, v) # {}
    THEN match_session_x11_display_device(S, v)
    ELSE match_session_display_device(S, v)

find_oldest_session(S, time) ==
  {s \in S : \A t \in S : time[s] <= time[t]}

\* Every session find_session_for_display_device may return: of two sessions
\* created at the same time, the order of the hash table decides.
find_session_for_display_device(S, time, v) ==
  IF SessionsOnVt(S, v) = {}
    THEN {NoSession}
    ELSE find_oldest_session(SessionsOnVt(S, v), time)

\* change_active_session without deactivating the old session.
change_active_session_KeepsOld(flags, old, new) ==
  (flags \cup {new}) \ {NoSession}

\* The Active flags after change_active_session: the old session lost it.
change_active_session(flags, old, new) ==
  ((flags \ {old}) \cup {new}) \ {NoSession}

\* update_active_vt looking up the VT before the one that is reported.
update_active_vt_Stale(S, time, flags, v) ==
  \E s \in find_session_for_display_device(S, time, active_num) :
    /\ active_session' = s
    /\ active' = change_active_session(flags, active_session, s) \cap S

\* The sessions S on VT v, in the flags of before: pick the active one.
update_active_vt(S, time, flags, v) ==
  \E s \in find_session_for_display_device(S, time, v) :
    /\ active_session' = s
    /\ active' = change_active_session(flags, active_session, s) \cap S

----------------------------------------------------------------------------
(* The kernel's side of a VT switch.                                       *)

\* The VT in the foreground asks its controller before it is left.
ProcessMode == \E s \in controlled : VtNum(s) = console

\* A switch is requested by a key press or VT_ACTIVATE. The kernel remembers
\* the newest target; asking for the VT in the foreground may drop it.
RequestSwitch(v) ==
  \/ v # console /\ switching' = v
  \/ v = console /\ switching' \in {0, switching}

\* Somebody presses the keys of another VT.
UserSwitch(v) ==
  /\ RequestSwitch(v)
  /\ switching' # switching
  /\ UNCHANGED <<vtvars, sessions, active_session, created, active, controlled,
                 handlers, replies>>

\* The kernel completes the switch by itself when nobody controls the VT.
CompleteSwitch ==
  /\ switching # 0
  /\ ~ ProcessMode
  /\ IF switching = console THEN UNCHANGED vtvars ELSE SwitchConsole(switching)
  /\ switching' = 0
  /\ UNCHANGED <<sessions, active_session, created, active, controlled,
                 handlers, replies>>

----------------------------------------------------------------------------
(* Sessions with a controller.                                             *)

\* vt_leave_handler acknowledging before the devices are paused.
vt_leave_handler_NoPause ==
  /\ switching # 0
  /\ ProcessMode
  /\ IF switching = console THEN UNCHANGED vtvars ELSE SwitchConsole(switching)
  /\ switching' = 0
  /\ UNCHANGED <<sessions, active_session, created, active, controlled, handlers,
                 replies>>

\* vt_leave_handler that does not acknowledge.
vt_leave_handler_NoReldisp ==
  /\ switching # 0
  /\ ProcessMode
  /\ active' = active \ controlled
  /\ UNCHANGED <<vtvars, sessions, active_session, created, controlled, switching,
                 handlers, replies>>

\* SIGUSR1. Every session that set up the VT signals gets it, the one that is
\* being left and the others: each pauses its devices, is marked inactive and
\* acknowledges with VT_RELDISP, which lets the kernel complete the switch.
vt_leave_handler ==
  /\ switching # 0
  /\ ProcessMode
  /\ active' = active \ controlled
  /\ IF switching = console THEN UNCHANGED vtvars ELSE SwitchConsole(switching)
  /\ switching' = 0
  /\ UNCHANGED <<sessions, active_session, created, controlled, handlers, replies>>

\* TakeControl: ck_session_setup_vt_signal succeeds only on a VT that is still
\* in text mode, so two sessions never control the same VT.
ck_session_setup_vt_signal(s) ==
  /\ s \in sessions \ controlled
  /\ VtNum(s) # 0
  /\ \A t \in controlled : VtNum(t) # VtNum(s)
  /\ controlled' = controlled \cup {s}
  /\ UNCHANGED <<vtvars, sessions, active_session, created, active, switching,
                 handlers, replies>>

\* VT_SETMODE back to VT_AUTO drops a switch that waits for VT_RELDISP.
DropControl(s) ==
  /\ controlled' = controlled \ {s}
  /\ switching' = IF s \in controlled /\ VtNum(s) = console THEN 0 ELSE switching

\* ReleaseControl, and the controller vanishing from the bus.
ck_session_controller_cleanup(s) ==
  /\ s \in controlled
  /\ DropControl(s)
  /\ UNCHANGED <<vtvars, sessions, active_session, created, active, handlers,
                 replies>>

----------------------------------------------------------------------------
(* The seat's operations.                                                  *)

ck_seat_add_session(s) ==
  /\ s \in Sessions \ sessions
  /\ sessions' = sessions \cup {s}
  /\ \E t \in Times : created' = [created EXCEPT ![s] = t]
  /\ update_active_vt(sessions', created', active, active_num)
  /\ UNCHANGED <<vtvars, controlled, switching, handlers, replies>>

\* The manager drops its reference too, so the session is finalized with it.
ck_seat_remove_session(s) ==
  /\ s \in sessions
  /\ sessions' = sessions \ {s}
  /\ created' = [created EXCEPT ![s] = 0]
  /\ update_active_vt(sessions', created', active, active_num)
  /\ DropControl(s)
  /\ UNCHANGED <<vtvars, handlers, replies>>

\* An invocation that is not being answered already.
Idle(c) == c \notin handlers

\* The first answer to an invocation.
Answer(c) ==
  replies' = [d \in Calls |-> IF d = c THEN 1 ELSE replies[d]]

\* The session about to be left is told first, whatever happens next.
LetOldKnow(s) == IF active_session = s THEN active ELSE active \ {active_session}

\* ck_seat_activate_session refuses a session it does not know and one that has
\* no VT.
RefuseActivate(c, s) ==
  /\ s \notin sessions \/ VtNum(s) = 0
  /\ Answer(c)
  /\ UNCHANGED <<vtvars, sessions, active_session, created, active, controlled,
                 switching, handlers>>

\* ck_vt_monitor_set_active returns ALREADY_ACTIVE: the session is marked active
\* and the handler is disconnected again.
ActivateAlreadyActive(c, s) ==
  /\ s \in sessions
  /\ VtNum(s) = active_num /\ active_num # 0
  /\ active' = LetOldKnow(s) \cup {s}
  /\ Answer(c)
  /\ UNCHANGED <<vtvars, sessions, active_session, created, controlled, switching,
                 handlers>>

\* VT_ACTIVATE succeeds. The caller is answered at once and the handler, which
\* still holds the invocation, waits for the VT to change.
ActivateRequested(c, s) ==
  /\ s \in sessions
  /\ VtNum(s) \notin {0, active_num}
  /\ active' = LetOldKnow(s)
  /\ handlers' = handlers \cup ({c} \ {NoCall})
  /\ RequestSwitch(VtNum(s))
  /\ Answer(c)
  /\ UNCHANGED <<vtvars, sessions, active_session, created, controlled>>

\* VT_ACTIVATE fails. The old session was already told and stays inactive.
ActivateFails(c, s) ==
  /\ ActivateMayFail
  /\ s \in sessions
  /\ VtNum(s) \notin {0, active_num}
  /\ active' = LetOldKnow(s)
  /\ Answer(c)
  /\ UNCHANGED <<vtvars, sessions, active_session, created, controlled, switching,
                 handlers>>

\* Seat.ActivateSession with an invocation; Session.Activate and the manager's
\* calls without one.
ck_seat_activate_session(c, s) ==
  /\ Idle(c)
  /\ \/ RefuseActivate(c, s)
     \/ ActivateAlreadyActive(c, s)
     \/ ActivateRequested(c, s)
     \/ ActivateFails(c, s)

\* Seat.SwitchTo goes through ActivateSession when a session of the seat is on
\* that VT, and asks the VT monitor directly otherwise.
dbus_switch_to(c, v) ==
  \/ \E s \in sessions : VtNum(s) = v /\ ck_seat_activate_session(c, s)
  \/ /\ Idle(c)
     /\ \A s \in sessions : VtNum(s) # v
     /\ \/ v # active_num /\ RequestSwitch(v)
        \/ (v = active_num \/ ActivateMayFail) /\ UNCHANGED switching
     /\ Answer(c)
     /\ UNCHANGED <<vtvars, sessions, active_session, created, active, controlled,
                    handlers>>

\* Every activated_cb answers its invocation, with success or, for another VT, with
\* an error, and disconnects itself: a second answer. Without an invocation it does
\* nothing.
activated_cb ==
  /\ replies' = [c \in Calls |-> IF c \in handlers THEN 2 ELSE replies[c]]
  /\ handlers' = {}

\* "active-changed" is emitted only when the number differs: active_vt_changed,
\* connected first, then every activated_cb.
active_vt_changed ==
  /\ Deliver
  /\ IF mailbox # active_num
       THEN /\ update_active_vt(sessions, created, active, mailbox)
            /\ activated_cb
       ELSE UNCHANGED <<active_session, active, handlers, replies>>
  /\ UNCHANGED <<sessions, created, controlled, switching>>

\* The watchers of the VT monitor.
Watch ==
  /\ ReadConsole \/ \E v \in Consoles : QueueEvent(v)
  /\ UNCHANGED seatvars

Next ==
  \/ \E v \in Consoles : UserSwitch(v)
  \/ CompleteSwitch
  \/ Watch
  \/ active_vt_changed
  \/ vt_leave_handler
  \/ \E s \in Sessions : \/ ck_session_setup_vt_signal(s)
                         \/ ck_session_controller_cleanup(s)
                         \/ ck_seat_add_session(s)
                         \/ ck_seat_remove_session(s)
  \/ \E c \in Calls \cup {NoCall}, s \in Sessions : ck_seat_activate_session(c, s)
  \/ \E c \in Calls, v \in Consoles : dbus_switch_to(c, v)

Spec == SeatInit /\ [][Next]_vars

\* The kernel finishes a switch, the main loop runs its handlers, and what a
\* watcher has seen is queued.
Fairness ==
  /\ WF_vars(CompleteSwitch \/ vt_leave_handler)
  /\ WF_vars(active_vt_changed)
  /\ \A v \in Consoles : WF_vars(QueueEvent(v) /\ UNCHANGED seatvars)

FairSpec == Spec /\ Fairness

----------------------------------------------------------------------------
(* Properties.                                                             *)

\* The seat's active session is always the oldest session on the VT that the
\* monitor last reported, and there is none only when no session is on that VT
\* (find_session_for_display_device, update_active_vt): adding or removing a
\* session, switching VTs and activating never leave the seat behind.
SeatFollowsVt ==
  active_session \in find_session_for_display_device(sessions, created, active_num)

\* No other session has the VT that s is activated on, neither as its X11 nor as
\* its display device.
AloneOnVt(s) ==
  \A t \in Sessions \ {s} : VtNum(s) \notin {X11DisplayDevice[t], DisplayDevice[t]}

\* Only one session may be active on a seat at a time.
OneActiveSession == \A s, t \in active : s = t

\* A session that is active and shares its VT with nobody is the one GetActiveSession
\* names: the ALREADY_ACTIVE path of ck_seat_activate_session can then only concern
\* the active session itself, and no switch or logout leaves a stale flag behind.
ActiveIsTheSeats == \A s \in active : AloneOnVt(s) => s = active_session

\* "Forcably disable all devices, we have to do this now": a VT switch away from
\* a session that controls its VT never completes while that session is active.
LeavesPaused ==
  [][\A s \in controlled : console = VtNum(s) /\ console' # console
                             => s \notin active']_vars

\* A requested VT switch is not held up for ever: either the kernel completes
\* it, the controlling session acknowledges it, or control is dropped.
SwitchesComplete == switching # 0 ~> switching = 0

\* An invocation is answered at most once.
OneReply == \A c \in Calls : replies[c] <= 1
=============================================================================
