---------------------------- MODULE CkSeat_proofs ----------------------------
(***************************************************************************)
(* Proofs about the seat, for any set of sessions, VTs and invocations.    *)
(*                                                                         *)
(* The seat never looks at more than its own sessions and active_num, so   *)
(* each property is inductive together with the type invariant. Most steps *)
(* leave what the seat decides on alone (Frame); the three that end in     *)
(* update_active_vt all go through UpdateIsRight.                          *)
(***************************************************************************)
EXTENDS CkSeat, TLAPS

\* What find_session_for_display_device returns is a session of the seat or NULL.
LEMMA FindInSessions ==
  ASSUME NEW S, NEW time, NEW v, NEW s \in find_session_for_display_device(S, time, v)
  PROVE  s \in S \cup {NoSession}
  BY DEF find_session_for_display_device, find_oldest_session, SessionsOnVt,
         match_session_display_device, match_session_x11_display_device

\* update_active_vt leaves the seat with a right answer for the VT it was given,
\* and with nobody else active than before or than the session it chose.
LEMMA UpdateIsRight ==
  ASSUME NEW S, NEW time, NEW flags, NEW v, update_active_vt(S, time, flags, v)
  PROVE  /\ active_session' \in find_session_for_display_device(S, time, v)
         /\ active_session' \in S \cup {NoSession}
         /\ active' \subseteq S
         /\ active' \subseteq (flags \ {active_session}) \cup {active_session'}
  <1>1. PICK s \in find_session_for_display_device(S, time, v) :
              /\ active_session' = s
              /\ active' = change_active_session(flags, active_session, s) \cap S
    BY DEF update_active_vt
  <1>2. s \in S \cup {NoSession}
    BY <1>1, FindInSessions
  <1> QED
    BY <1>1, <1>2 DEF change_active_session

\* A session that shares its VT with nobody and is activated while that VT is
\* reported active is the session the seat has chosen.
LEMMA OnlyMatch ==
  ASSUME SeatTypeOK, SeatFollowsVt, active_num # 0,
         NEW s \in sessions, VtNum(s) = active_num, AloneOnVt(s)
  PROVE  active_session = s
  <1>0. /\ sessions \subseteq Sessions /\ s \in Sessions
        /\ active_num \in Consoles
    BY DEF SeatTypeOK, VtTypeOK
  <1>1. active_num \in {X11DisplayDevice[s], DisplayDevice[s]}
    BY DEF VtNum
  <1>2. s \in SessionsOnVt(sessions, active_num)
    <2>1. CASE X11DisplayDevice[s] = active_num
      BY <2>1 DEF SessionsOnVt, match_session_x11_display_device
    <2>2. CASE DisplayDevice[s] = active_num /\ X11DisplayDevice[s] # active_num
      <3>1. \A t \in sessions : t # s => X11DisplayDevice[t] # active_num
        BY <1>0 DEF AloneOnVt
      <3>2. match_session_x11_display_device(sessions, active_num) = {}
        BY <3>1, <2>2 DEF match_session_x11_display_device
      <3> QED
        BY <3>2, <2>2 DEF SessionsOnVt, match_session_display_device
    <2> QED
      BY <1>1, <2>1, <2>2
  <1>3. active_session \in SessionsOnVt(sessions, active_num)
    BY <1>2 DEF SeatFollowsVt, find_session_for_display_device, find_oldest_session
  <1>4. /\ active_session \in Sessions
        /\ active_num \in {X11DisplayDevice[active_session], DisplayDevice[active_session]}
    BY <1>3, <1>0 DEF SessionsOnVt, match_session_x11_display_device,
       match_session_display_device
  <1> QED
    BY <1>0, <1>4 DEF AloneOnVt

-----------------------------------------------------------------------------
(* What a step may do to the parts that the proofs are about.              *)

\* The seat's bookkeeping is untouched.
SeatFrame == UNCHANGED <<sessions, active_session, created, active_num>>

\* The VT monitor's own steps keep its types.
LEMMA VtSteps ==
  ASSUME VtTypeOK
  PROVE  /\ \A v \in Consoles : SwitchConsole(v) => VtTypeOK' /\ active_num' = active_num
         /\ \A v \in Consoles : QueueEvent(v) => VtTypeOK' /\ active_num' = active_num
         /\ ReadConsole => VtTypeOK' /\ active_num' = active_num
         /\ Deliver => VtTypeOK'
         /\ UNCHANGED vtvars => VtTypeOK' /\ active_num' = active_num
  BY DEF VtTypeOK, SwitchConsole, QueueEvent, ReadConsole, Deliver, vtvars

LEMMA RequestType ==
  ASSUME SeatTypeOK, NEW v \in Consoles, RequestSwitch(v)
  PROVE  switching' \in Consoles \cup {0}
  BY DEF SeatTypeOK, RequestSwitch

LEMMA DropType ==
  ASSUME SeatTypeOK, NEW s, DropControl(s)
  PROVE  /\ controlled' \subseteq controlled /\ s \notin controlled'
         /\ switching' \in Consoles \cup {0}
  BY DEF SeatTypeOK, DropControl

LEMMA VtNumType ==
  ASSUME NEW s \in Sessions
  PROVE  VtNum(s) \in Consoles \cup {0}
  BY SeatAssumption DEF SeatAssumption, VtNum

LEMMA AnswerType ==
  ASSUME SeatTypeOK, NEW c, Answer(c)
  PROVE  replies' \in [Calls -> 0 .. 2]
  BY DEF SeatTypeOK, Answer

LEMMA LetOldKnowShrinks ==
  ASSUME NEW s
  PROVE  LetOldKnow(s) \subseteq active
  BY DEF LetOldKnow

\* The four ways an activation can go.
LEMMA ActivateTypes ==
  ASSUME SeatTypeOK, NEW c \in Calls \cup {NoCall}, NEW s \in Sessions,
         ck_seat_activate_session(c, s)
  PROVE  /\ SeatTypeOK' /\ SeatFrame
         /\ UNCHANGED <<console, controlled>>
         /\ \/ active' \subseteq active
            \/ /\ s \in sessions /\ VtNum(s) = active_num /\ active_num # 0
               /\ active' \subseteq active \cup {s}
  <1> USE DEF SeatTypeOK
  <1>0. VtTypeOK' /\ SeatFrame /\ UNCHANGED <<console, controlled>>
    BY VtSteps DEF ck_seat_activate_session, RefuseActivate, ActivateAlreadyActive,
       ActivateRequested, ActivateFails, vtvars, SeatFrame
  <1>1. replies' \in [Calls -> 0 .. 2]
    BY AnswerType DEF ck_seat_activate_session, RefuseActivate, ActivateAlreadyActive,
       ActivateRequested, ActivateFails
  <1>2. switching' \in Consoles \cup {0} /\ handlers' \subseteq Calls
    <2>1. CASE ActivateRequested(c, s)
      <3>1. VtNum(s) \in Consoles
        BY <2>1, VtNumType DEF ActivateRequested
      <3> QED
        BY <2>1, <3>1, RequestType DEF ActivateRequested
    <2>2. CASE ~ ActivateRequested(c, s)
      BY <2>2 DEF ck_seat_activate_session, RefuseActivate, ActivateAlreadyActive,
         ActivateFails
    <2> QED
      BY <2>1, <2>2
  <1>3. \/ active' \subseteq active
        \/ /\ s \in sessions /\ VtNum(s) = active_num /\ active_num # 0
           /\ active' \subseteq active \cup {s}
    BY LetOldKnowShrinks DEF ck_seat_activate_session, RefuseActivate,
       ActivateAlreadyActive, ActivateRequested, ActivateFails
  <1>4. active' \subseteq sessions'
    BY <1>0, <1>3 DEF SeatFrame
  <1> QED
    BY <1>0, <1>1, <1>2, <1>3, <1>4 DEF SeatFrame

\* SwitchTo either activates a session or only asks for a VT.
LEMMA SwitchToTypes ==
  ASSUME SeatTypeOK, NEW c \in Calls, NEW v \in Consoles, dbus_switch_to(c, v)
  PROVE  \/ \E s \in sessions : ck_seat_activate_session(c, s)
         \/ /\ SeatTypeOK' /\ SeatFrame
            /\ UNCHANGED <<console, controlled, active>>
  <1>1. CASE \E s \in sessions : VtNum(s) = v /\ ck_seat_activate_session(c, s)
    BY <1>1
  <1>2. CASE /\ Idle(c)
             /\ \A s \in sessions : VtNum(s) # v
             /\ \/ v # active_num /\ RequestSwitch(v)
                \/ (v = active_num \/ ActivateMayFail) /\ UNCHANGED switching
             /\ Answer(c)
             /\ UNCHANGED <<vtvars, sessions, active_session, created, active,
                            controlled, handlers>>
    <2>1. switching' \in Consoles \cup {0}
      BY <1>2, RequestType DEF SeatTypeOK
    <2>2. replies' \in [Calls -> 0 .. 2]
      BY <1>2, AnswerType
    <2>3. VtTypeOK' /\ SeatFrame /\ UNCHANGED console
      BY <1>2, VtSteps DEF SeatTypeOK, SeatFrame, vtvars
    <2> QED
      BY <1>2, <2>1, <2>2, <2>3 DEF SeatTypeOK
  <1> QED
    BY <1>1, <1>2 DEF dbus_switch_to

-----------------------------------------------------------------------------
(* The invariants.                                                         *)

Inv == SeatTypeOK /\ SeatFollowsVt /\ ActiveIsTheSeats

\* A step that keeps the seat's bookkeeping and activates nobody keeps the
\* invariants.
LEMMA FrameKeeps ==
  ASSUME Inv, SeatTypeOK', SeatFrame, active' \subseteq active
  PROVE  Inv'
  BY DEF Inv, SeatFrame, SeatFollowsVt, ActiveIsTheSeats, AloneOnVt

\* A step that ends in update_active_vt for the VT that is active after it keeps
\* the invariants.
LEMMA UpdateKeeps ==
  ASSUME Inv, SeatTypeOK',
         update_active_vt(sessions', created', active, active_num')
  PROVE  Inv'
  <1>1. SeatFollowsVt'
    BY UpdateIsRight DEF SeatFollowsVt
  <1>2. active' \subseteq (active \ {active_session}) \cup {active_session'}
    BY UpdateIsRight
  <1>3. ActiveIsTheSeats'
    BY <1>2 DEF Inv, ActiveIsTheSeats, AloneOnVt
  <1> QED
    BY <1>1, <1>3 DEF Inv

\* An activation keeps the invariants.
LEMMA ActivateKeeps ==
  ASSUME Inv, NEW c \in Calls \cup {NoCall}, NEW s \in Sessions,
         ck_seat_activate_session(c, s)
  PROVE  Inv'
  <1>1. /\ SeatTypeOK' /\ SeatFrame
        /\ \/ active' \subseteq active
           \/ /\ s \in sessions /\ VtNum(s) = active_num /\ active_num # 0
              /\ active' \subseteq active \cup {s}
    BY ActivateTypes DEF Inv
  <1>2. CASE active' \subseteq active
    BY <1>1, <1>2, FrameKeeps
  <1>3. CASE /\ s \in sessions /\ VtNum(s) = active_num /\ active_num # 0
             /\ active' \subseteq active \cup {s}
    <2>1. AloneOnVt(s) => active_session = s
      BY <1>3, OnlyMatch DEF Inv
    <2>2. ActiveIsTheSeats'
      BY <1>1, <1>3, <2>1 DEF Inv, ActiveIsTheSeats, AloneOnVt, SeatFrame
    <2>3. SeatFollowsVt'
      BY <1>1 DEF Inv, SeatFollowsVt, SeatFrame
    <2> QED
      BY <1>1, <2>2, <2>3 DEF Inv
  <1> QED
    BY <1>1, <1>2, <1>3

LEMMA InitInv == SeatInit => Inv
  <1> SUFFICES ASSUME SeatInit PROVE Inv
    OBVIOUS
  <1>1. SeatTypeOK
    BY ConsolesAssumption
    DEF ConsolesAssumption, SeatInit, SeatTypeOK, VtInit, VtTypeOK
  <1>2. SessionsOnVt({}, active_num) = {}
    BY DEF SessionsOnVt, match_session_display_device, match_session_x11_display_device
  <1> QED
    BY <1>1, <1>2 DEF Inv, SeatInit, SeatFollowsVt, ActiveIsTheSeats,
       find_session_for_display_device

LEMMA NextInv == Inv /\ [Next]_vars => Inv'
  <1> SUFFICES ASSUME Inv, [Next]_vars PROVE Inv'
    OBVIOUS
  <1>0. SeatTypeOK /\ VtTypeOK
    BY DEF Inv, SeatTypeOK
  <1>1. ASSUME NEW v \in Consoles, UserSwitch(v) PROVE Inv'
    <2>1. SeatTypeOK' /\ SeatFrame /\ active' = active
      BY <1>0, <1>1, RequestType, VtSteps DEF UserSwitch, SeatTypeOK, SeatFrame, vtvars
    <2> QED
      BY <2>1, FrameKeeps
  <1>2. CASE CompleteSwitch
    <2>1. VtTypeOK' /\ active_num' = active_num
      BY <1>0, <1>2, VtSteps DEF CompleteSwitch, SeatTypeOK
    <2>2. SeatTypeOK' /\ SeatFrame /\ active' = active
      BY <1>0, <1>2, <2>1 DEF CompleteSwitch, SeatTypeOK, SeatFrame
    <2> QED
      BY <2>2, FrameKeeps
  <1>3. CASE Watch
    <2>1. VtTypeOK' /\ active_num' = active_num
      BY <1>0, <1>3, VtSteps DEF Watch
    <2>2. SeatTypeOK' /\ SeatFrame /\ active' = active
      BY <1>0, <1>3, <2>1 DEF Watch, seatvars, SeatTypeOK, SeatFrame
    <2> QED
      BY <2>2, FrameKeeps
  <1>4. CASE active_vt_changed
    <2>1. VtTypeOK' /\ active_num' = mailbox
      BY <1>0, <1>4, VtSteps DEF active_vt_changed, Deliver
    <2>2. CASE mailbox = active_num
      <3>1. SeatTypeOK' /\ SeatFrame /\ active' = active
        BY <1>0, <1>4, <2>1, <2>2 DEF active_vt_changed, SeatTypeOK, SeatFrame
      <3> QED
        BY <3>1, FrameKeeps
    <2>3. CASE mailbox # active_num
      <3>1. /\ update_active_vt(sessions, created, active, mailbox)
            /\ activated_cb
            /\ UNCHANGED <<sessions, created, controlled, switching>>
        BY <1>4, <2>3 DEF active_vt_changed
      <3>2. active_session' \in sessions \cup {NoSession} /\ active' \subseteq sessions
        BY <3>1, UpdateIsRight
      <3>3. replies' \in [Calls -> 0 .. 2] /\ handlers' \subseteq Calls
        BY <1>0, <3>1 DEF activated_cb, SeatTypeOK
      <3>4. SeatTypeOK'
        BY <1>0, <2>1, <3>1, <3>2, <3>3 DEF SeatTypeOK
      <3> QED
        BY <2>1, <3>1, <3>4, UpdateKeeps
    <2> QED
      BY <2>2, <2>3
  <1>5. CASE vt_leave_handler
    <2>1. VtTypeOK' /\ active_num' = active_num
      BY <1>0, <1>5, VtSteps DEF vt_leave_handler, SeatTypeOK
    <2>2. SeatTypeOK' /\ SeatFrame /\ active' \subseteq active
      BY <1>0, <1>5, <2>1 DEF vt_leave_handler, SeatTypeOK, SeatFrame
    <2> QED
      BY <2>2, FrameKeeps
  <1>6. ASSUME NEW s \in Sessions, ck_session_setup_vt_signal(s) PROVE Inv'
    <2>1. SeatTypeOK' /\ SeatFrame /\ active' = active
      BY <1>0, <1>6, VtSteps DEF ck_session_setup_vt_signal, SeatTypeOK, SeatFrame, vtvars
    <2> QED
      BY <2>1, FrameKeeps
  <1>7. ASSUME NEW s \in Sessions, ck_session_controller_cleanup(s) PROVE Inv'
    <2>1. SeatTypeOK' /\ SeatFrame /\ active' = active
      BY <1>0, <1>7, VtSteps, DropType
      DEF ck_session_controller_cleanup, SeatTypeOK, SeatFrame, vtvars
    <2> QED
      BY <2>1, FrameKeeps
  <1>8. ASSUME NEW s \in Sessions, ck_seat_add_session(s) PROVE Inv'
    <2>1. /\ update_active_vt(sessions', created', active, active_num')
          /\ active_session' \in sessions' \cup {NoSession}
          /\ active' \subseteq sessions'
      BY <1>8, UpdateIsRight DEF ck_seat_add_session, vtvars
    <2>2. created' \in [Sessions -> Times \cup {0}]
      BY <1>0, <1>8 DEF ck_seat_add_session, SeatTypeOK
    <2>3. SeatTypeOK'
      BY <1>0, <1>8, <2>1, <2>2, VtSteps DEF ck_seat_add_session, SeatTypeOK
    <2> QED
      BY <2>1, <2>3, UpdateKeeps
  <1>9. ASSUME NEW s \in Sessions, ck_seat_remove_session(s) PROVE Inv'
    <2>1. /\ update_active_vt(sessions', created', active, active_num')
          /\ active_session' \in sessions' \cup {NoSession}
          /\ active' \subseteq sessions'
      BY <1>9, UpdateIsRight DEF ck_seat_remove_session, vtvars
    <2>2. created' \in [Sessions -> Times \cup {0}]
      BY <1>0, <1>9 DEF ck_seat_remove_session, SeatTypeOK
    <2>3. controlled' \subseteq sessions' /\ switching' \in Consoles \cup {0}
      BY <1>0, <1>9, DropType DEF ck_seat_remove_session, SeatTypeOK
    <2>4. SeatTypeOK'
      BY <1>0, <1>9, <2>1, <2>2, <2>3, VtSteps DEF ck_seat_remove_session, SeatTypeOK
    <2> QED
      BY <2>1, <2>4, UpdateKeeps
  <1>10. ASSUME NEW c \in Calls \cup {NoCall}, NEW s \in Sessions,
                ck_seat_activate_session(c, s)
         PROVE Inv'
    BY <1>10, ActivateKeeps
  <1>11. ASSUME NEW c \in Calls, NEW v \in Consoles, dbus_switch_to(c, v) PROVE Inv'
    <2>1. CASE \E s \in sessions : ck_seat_activate_session(c, s)
      BY <1>0, <2>1, ActivateKeeps DEF SeatTypeOK
    <2>2. CASE SeatTypeOK' /\ SeatFrame /\ active' = active
      BY <2>2, FrameKeeps
    <2> QED
      BY <1>0, <1>11, <2>1, <2>2, SwitchToTypes
  <1>12. CASE UNCHANGED vars
    <2>1. SeatTypeOK' /\ SeatFrame /\ active' = active
      BY <1>0, <1>12, VtSteps DEF vars, seatvars, SeatTypeOK, SeatFrame, vtvars
    <2> QED
      BY <2>1, FrameKeeps
  <1> QED
    BY <1>1, <1>2, <1>3, <1>4, <1>5, <1>6, <1>7, <1>8, <1>9, <1>10, <1>11, <1>12
    DEF Next

LEMMA InvHolds == Spec => []Inv
  BY InitInv, NextInv, PTL DEF Spec

\* The seat's state always has its type; in particular active_session is a session
\* that is still on the seat, or NULL.
THEOREM SeatTypeCorrect == Spec => []SeatTypeOK
  <1>1. Inv => SeatTypeOK
    BY DEF Inv
  <1> QED
    BY <1>1, InvHolds, PTL

\* Whatever sessions come and go and whatever VTs are shown, the seat's active
\* session is the oldest one on the VT the monitor last reported.
THEOREM SeatCorrect == Spec => []SeatFollowsVt
  <1>1. Inv => SeatFollowsVt
    BY DEF Inv
  <1> QED
    BY <1>1, InvHolds, PTL

\* A session that shares its VT with nobody is marked active only while it is the
\* seat's active session.
THEOREM OneActive == Spec => []ActiveIsTheSeats
  <1>1. Inv => ActiveIsTheSeats
    BY DEF Inv
  <1> QED
    BY <1>1, InvHolds, PTL

\* A VT that a session controls is never left while that session is active: only
\* vt_leave_handler completes such a switch, after pausing every session in control.
THEOREM LeavingPauses == Spec => LeavesPaused
  <1> DEFINE Step == \A s \in controlled : console = VtNum(s) /\ console' # console
                                             => s \notin active'
  <1>1. Inv /\ [Next]_vars => [Step]_vars
    <2> SUFFICES ASSUME Inv, Next, NEW s \in controlled, console = VtNum(s),
                        console' # console
                 PROVE  s \notin active'
      OBVIOUS
    <2>1. ProcessMode
      BY DEF ProcessMode
    <2>2. ASSUME NEW v \in Consoles, UserSwitch(v) PROVE FALSE
      BY <2>2 DEF UserSwitch, vtvars
    <2>3. ~ CompleteSwitch
      BY <2>1 DEF CompleteSwitch
    <2>4. ~ Watch
      BY DEF Watch, ReadConsole, QueueEvent
    <2>5. ~ active_vt_changed
      BY DEF active_vt_changed, Deliver
    <2>6. ASSUME NEW t \in Sessions,
                 \/ ck_session_setup_vt_signal(t) \/ ck_session_controller_cleanup(t)
                 \/ ck_seat_add_session(t) \/ ck_seat_remove_session(t)
          PROVE FALSE
      BY <2>6 DEF ck_session_setup_vt_signal, ck_session_controller_cleanup,
         ck_seat_add_session, ck_seat_remove_session, vtvars
    <2>7. ASSUME NEW c \in Calls \cup {NoCall}, NEW t \in Sessions,
                 ck_seat_activate_session(c, t)
          PROVE FALSE
      BY <2>7, ActivateTypes DEF Inv
    <2>8. ASSUME NEW c \in Calls, NEW v \in Consoles, dbus_switch_to(c, v) PROVE FALSE
      BY <2>7, <2>8, SwitchToTypes DEF Inv, SeatTypeOK
    <2>9. vt_leave_handler
      BY <2>2, <2>3, <2>4, <2>5, <2>6, <2>7, <2>8 DEF Next
    <2> QED
      BY <2>9 DEF vt_leave_handler
  <1> QED
    BY <1>1, InvHolds, PTL DEF Spec, LeavesPaused
=============================================================================
