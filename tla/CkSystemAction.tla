--------------------------- MODULE CkSystemAction ---------------------------
(***************************************************************************)
(* The manager's system actions (ck-manager.c) on top of the inhibit       *)
(* locks: a call is refused when its event is blocked, authorized by       *)
(* PolicyKit, announced with PrepareForShutdown or PrepareForSleep, and    *)
(* carried out by a timer, or earlier when a delay lock is lifted.         *)
(*                                                                         *)
(* The seven methods lead to five callbacks; what a callback runs is       *)
(* abstracted to the event it is delayed by and the signal it announces.   *)
(* Time is abstracted: a timer fires some time after it was set.           *)
(***************************************************************************)
EXTENDS CkInhibitManager

CONSTANTS Calls,       \* method calls of clients
          NoCall       \* NULL

ASSUME CallsAssumption == NoCall \notin Calls /\ {SHUTDOWN, SUSPEND} \subseteq Events

Callbacks == {"do_restart", "do_stop", "do_suspend", "do_hibernate", "do_hybrid_sleep"}
Signals == {"PREPARE_FOR_SHUTDOWN", "PREPARE_FOR_SLEEP"}

VARIABLES request,                 \* "none", the callback of a call that PolicyKit is
                                   \* asked about, or "waiting" for the timer
          system_action_idle_id,   \* the call that the timer will carry out
          system_action_data,      \* CkManagerPrivate.system_action_data
          signal,                  \* signal of the data of that call
          prepared                 \* signals sent with TRUE and not yet with FALSE

datavars == <<system_action_idle_id, system_action_data, signal, prepared>>
actionvars == <<request, datavars>>
systemvars == <<inhibitvars, actionvars>>

ActionTypeOK ==
  /\ request \in [Calls -> {"none", "waiting"} \cup Callbacks]
  /\ system_action_idle_id \in Calls \cup {NoCall}
  /\ system_action_data \in Calls \cup {NoCall}
  /\ signal \in Signals \cup {"none"}
  /\ prepared \subseteq Signals

ActionInit ==
  /\ InhibitInit
  /\ request = [c \in Calls |-> "none"]
  /\ system_action_idle_id = NoCall
  /\ system_action_data = NoCall
  /\ signal = "none"
  /\ prepared = {}

-----------------------------------------------------------------------------
(* The methods. A call that is blocked gets an error, any other goes to    *)
(* PolicyKit, which answers later.                                         *)

check_system_action(c, callback) ==
  /\ request[c] = "none"
  /\ request' = [request EXCEPT ![c] = callback]
  /\ UNCHANGED <<inhibitvars, datavars>>

Blocked(e) == get_inhibit_status(e, "block")

dbus_restart(c) == ~ Blocked(SHUTDOWN) /\ check_system_action(c, "do_restart")
dbus_stop(c) == ~ Blocked(SHUTDOWN) /\ check_system_action(c, "do_stop")
dbus_power_off(c) == ~ Blocked(SHUTDOWN) /\ check_system_action(c, "do_stop")
dbus_reboot(c) == ~ Blocked(SHUTDOWN) /\ check_system_action(c, "do_restart")
dbus_suspend(c) == ~ Blocked(SUSPEND) /\ check_system_action(c, "do_suspend")

\* Hibernate that asks about the wrong event.
dbus_hibernate_Shutdown(c) == ~ Blocked(SHUTDOWN) /\ check_system_action(c, "do_hibernate")

dbus_hibernate(c) == ~ Blocked(SUSPEND) /\ check_system_action(c, "do_hibernate")
dbus_hybrid_sleep(c) == ~ Blocked(SUSPEND) /\ check_system_action(c, "do_hybrid_sleep")

\* Not authorized, authorization required, or an error of the authority.
NotAuthorized(c) ==
  /\ request[c] \in Callbacks
  /\ request' = [request EXCEPT ![c] = "none"]
  /\ UNCHANGED <<inhibitvars, datavars>>

\* "Don't allow multiple system actions at the same time"
Busy(c) ==
  /\ request[c] \in Callbacks
  /\ system_action_idle_id # NoCall
  /\ request' = [request EXCEPT ![c] = "none"]
  /\ UNCHANGED <<inhibitvars, datavars>>

\* What the callbacks have in common: announce the action, fill in the data, keep it for
\* the release of a lock if the event is delayed, and set the timer.
ScheduleAction(c, event, prepare) ==
  /\ system_action_idle_id = NoCall
  /\ request' = [request EXCEPT ![c] = "waiting"]
  /\ prepared' = prepared \cup {prepare}
  /\ signal' = prepare
  /\ system_action_idle_id' = c
  /\ system_action_data' = IF get_inhibit_status(event, "delay")
                             THEN c ELSE system_action_data
  /\ UNCHANGED inhibitvars

do_restart(c) ==
  request[c] = "do_restart" /\ ScheduleAction(c, SHUTDOWN, "PREPARE_FOR_SHUTDOWN")
do_stop(c) ==
  request[c] = "do_stop" /\ ScheduleAction(c, SHUTDOWN, "PREPARE_FOR_SHUTDOWN")
do_suspend(c) ==
  request[c] = "do_suspend" /\ ScheduleAction(c, SUSPEND, "PREPARE_FOR_SLEEP")
do_hibernate(c) ==
  request[c] = "do_hibernate" /\ ScheduleAction(c, SUSPEND, "PREPARE_FOR_SLEEP")
do_hybrid_sleep(c) ==
  request[c] = "do_hybrid_sleep" /\ ScheduleAction(c, SUSPEND, "PREPARE_FOR_SLEEP")

auth_ready_callback(c) ==
  \/ NotAuthorized(c) \/ Busy(c)
  \/ do_restart(c) \/ do_stop(c) \/ do_suspend(c) \/ do_hibernate(c) \/ do_hybrid_sleep(c)

-----------------------------------------------------------------------------
(* Carrying an action out.                                                 *)

\* system_action_idle_cb that leaves system_action_data behind.
Perform_KeepsData(c) ==
  /\ request' = [request EXCEPT ![c] = "none"]
  /\ prepared' = prepared \ {signal}
  /\ signal' = "none"
  /\ system_action_idle_id' = NoCall
  /\ UNCHANGED system_action_data

\* system_action_idle_cb that does not call the announcement off.
Perform_NoSignal(c) ==
  /\ request' = [request EXCEPT ![c] = "none"]
  /\ signal' = "none"
  /\ system_action_idle_id' = NoCall
  /\ system_action_data' = NoCall
  /\ UNCHANGED prepared

\* system_action_idle_cb on the data of call c: run the command, answer, call the
\* announcement off, forget the timer and free the data.
Perform(c) ==
  /\ request' = [request EXCEPT ![c] = "none"]
  /\ prepared' = prepared \ {signal}
  /\ signal' = "none"
  /\ system_action_idle_id' = NoCall
  /\ system_action_data' = NoCall

\* The timer that does nothing while a delay lock is held.
system_action_idle_cb_Waits ==
  /\ system_action_idle_id # NoCall
  /\ ~ get_inhibit_status(SUSPEND, "delay")
  /\ Perform(system_action_idle_id)
  /\ UNCHANGED inhibitvars

\* The timer fires.
system_action_idle_cb ==
  /\ system_action_idle_id # NoCall
  /\ Perform(system_action_idle_id)
  /\ UNCHANGED inhibitvars

\* The manager hears that lock l lifted a delay: the action that waits is carried
\* out at once.
on_inhibit_manager_changed_event(l) ==
  IF /\ system_action_idle_id # NoCall
     /\ system_action_data # NoCall
     /\ mode[l] = "delay"
     /\ Lifted(l) \cap {SUSPEND, SHUTDOWN} # {}
    THEN Perform(system_action_data)
    ELSE UNCHANGED actionvars

\* A request for a lock, granted or not, is of no interest to a waiting action.
CreateLock(l) ==
  /\ \E W \in Requests, m \in Modes :
       \/ ck_inhibit_create_lock(l, W, m)
       \/ \E hasPath \in BOOLEAN : CreateLockFails(l, W, hasPath)
  /\ UNCHANGED actionvars

CloseLock(l) == close_named_pipe(l) /\ on_inhibit_manager_changed_event(l)

ActionNext ==
  \/ \E c \in Calls : \/ dbus_restart(c) \/ dbus_stop(c)
                      \/ dbus_power_off(c) \/ dbus_reboot(c)
                      \/ dbus_suspend(c) \/ dbus_hibernate(c) \/ dbus_hybrid_sleep(c)
                      \/ auth_ready_callback(c)
  \/ system_action_idle_cb
  \/ \E l \in Locks : CreateLock(l) \/ CloseLock(l)

ActionSpec == ActionInit /\ [][ActionNext]_systemvars

\* PolicyKit answers every question, and GLib runs a timer that is due.
FairActionSpec ==
  /\ ActionSpec
  /\ \A c \in Calls : WF_systemvars(auth_ready_callback(c))
  /\ WF_systemvars(system_action_idle_cb)

-----------------------------------------------------------------------------
Finished(c) == request[c] = "waiting" /\ request'[c] = "none"

\* The event whose locks a callback, and a signal, are about.
EventOf(x) ==
  IF x \in {"do_restart", "do_stop", "PREPARE_FOR_SHUTDOWN"} THEN SHUTDOWN ELSE SUSPEND

\* At most one system action is under way, it is the one the timer belongs to, and
\* the pointer kept for the inhibit manager's signal is that action's or NULL, so
\* that on_inhibit_manager_changed_event never works on data already freed.
OneActionAtATime ==
  /\ \A c \in Calls : request[c] = "waiting" <=> system_action_idle_id = c
  /\ system_action_data \in {NoCall, system_action_idle_id}

\* PrepareForShutdown and PrepareForSleep are announced exactly while an action of
\* that kind is under way, however it ends.
PrepareSignalsPaired ==
  /\ prepared = {signal} \ {"none"}
  /\ signal = "none" <=> system_action_idle_id = NoCall

\* A call goes on to PolicyKit only when no client holds a block lock for what its
\* callback does.
BlockedCallsRefused ==
  [][\A c \in Calls : request[c] = "none" /\ request'[c] # "none"
                        => Holders("block", EventOf(request'[c])) = {}]_systemvars

\* Every call is answered: refused, or carried out in the end.
CallsAnswered == \A c \in Calls : request[c] # "none" ~> request[c] = "none"

\* "The inhibit lock for this action was removed": an action carried out because a
\* lock was released has no delay lock left.
DelayLiftedForAction ==
  [][\A c \in Calls, e \in Events : Finished(c) /\ open' # open /\ e = EventOf(signal)
                                     => Holders("delay", e)' = {}]_systemvars
=============================================================================
