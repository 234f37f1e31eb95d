-------------------------- MODULE CkTtyIdleMonitor --------------------------
(***************************************************************************)
(* Whether somebody is at a text session's terminal (ck-tty-idle-monitor.c *)
(* and the session's activity watch). An idle monitor looks at the last    *)
(* access of the terminal when a timer says so. While the terminal is in   *)
(* use it sets the timer again; once it is idle it asks the file monitor   *)
(* to be told of the next access instead, or keeps to the timer when that  *)
(* is not possible.                                                        *)
(*                                                                         *)
(* Time is counted up to the threshold. The user may type between the look *)
(* at the file and the request for a notify.                               *)
(***************************************************************************)
EXTENDS CkFileMonitor

CONSTANTS Threshold,    \* threshold, in units of time
          NoMonitor

ASSUME IdleAssumption == Threshold \in Nat \ {0} /\ NoMonitor \notin Monitors

Off == Threshold + 1    \* no timeout_id

VARIABLES live,         \* monitors of open sessions
          age,          \* device -> time since its last access
          timer,        \* monitor -> time until check_tty_idle, or Off
          idle_hint,    \* monitors whose idle_hint is set
          check         \* the monitor in check_tty_idle and the age it has seen

idlevars == <<live, timer, idle_hint>>
vars == <<filevars, idlevars, age, check>>

Nobody == [monitor |-> NoMonitor, age |-> 0]

IdleTypeOK ==
  /\ FileMonitorTypeOK
  /\ live \subseteq Monitors
  /\ age \in [Devices -> 0 .. Threshold]
  /\ timer \in [Monitors -> 0 .. Off]
  /\ idle_hint \subseteq Monitors
  /\ check \in [monitor : Monitors \cup {NoMonitor}, age : 0 .. Threshold]

Init ==
  /\ FileMonitorInit
  /\ live = {}
  /\ age = [d \in Devices |-> 0]
  /\ timer = [m \in Monitors |-> Off]
  /\ idle_hint = {}
  /\ check = Nobody

----------------------------------------------------------------------------
(* Users, terminals and time.                                              *)

Access(d) ==
  /\ KernelAccess(d)
  /\ age' = [age EXCEPT ![d] = 0]
  /\ UNCHANGED <<there, away, kernel_wd, inotify, watchvars, notify_events, remove_events,
                 idlevars, check>>

\* A device that is made afresh was last accessed now.
Hotplugs(d) ==
  /\ Vanish(d) \/ Appear(d)
  /\ age' = [age EXCEPT ![d] = 0]
  /\ UNCHANGED <<idlevars, check>>

Tick ==
  /\ age' = [d \in Devices |-> IF age[d] < Threshold THEN age[d] + 1 ELSE Threshold]
  /\ timer' = [m \in Monitors |-> IF timer[m] \in 1 .. Threshold THEN timer[m] - 1
                                  ELSE timer[m]]
  /\ UNCHANGED <<filevars, live, idle_hint, check>>

----------------------------------------------------------------------------
(* The monitors, in the main loop.                                         *)

InMainLoop == check = Nobody

\* ck_tty_idle_monitor_stop without monitor_remove_watch.
ck_tty_idle_monitor_stop_KeepsWatch(M, t, Q) ==
  /\ timer' = [m \in Monitors |-> IF m \in M THEN t ELSE timer[m]]
  /\ notify_events' = Q
  /\ UNCHANGED <<kernelvars, watchvars, remove_events>>

\* ck_tty_idle_monitor_stop for the monitors M, whose timers are set to t after it: the
\* timer is removed and the notify, if it is still there.
ck_tty_idle_monitor_stop(M, t, Q) ==
  /\ timer' = [m \in Monitors |-> IF m \in M THEN t ELSE timer[m]]
  /\ RemoveNotifies(M, Q)

\* session_add_activity_watch for a text session.
session_add_activity_watch(m) ==
  /\ InMainLoop /\ m \notin live
  /\ live' = live \cup {m}
  /\ ck_tty_idle_monitor_stop({m}, Threshold, notify_events)
  /\ UNCHANGED <<inotify, age, idle_hint, check>>

\* session_remove_activity_watch: the session ends.
session_remove_activity_watch(m) ==
  /\ InMainLoop /\ m \in live
  /\ live' = live \ {m}
  /\ idle_hint' = idle_hint \ {m}
  /\ ck_tty_idle_monitor_stop({m}, Off, notify_events)
  /\ UNCHANGED <<inotify, age, check>>

\* check_tty_idle, until stat has returned. Without the file it is the last check.
check_tty_idle(m) ==
  /\ InMainLoop /\ timer[m] = 0
  /\ timer' = [timer EXCEPT ![m] = Off]
  /\ check' = IF DeviceOf[m] \in there
                THEN [monitor |-> m, age |-> age[DeviceOf[m]]] ELSE Nobody
  /\ UNCHANGED <<filevars, live, age, idle_hint>>

\* The rest of it, when the terminal is in use.
InUse(m) ==
  /\ check.monitor = m /\ check.age < Threshold
  /\ check' = Nobody
  /\ idle_hint' = idle_hint \ {m}
  /\ timer' = [timer EXCEPT ![m] = Threshold - check.age]
  /\ UNCHANGED <<filevars, live, age>>

\* Giving up when there is no watch.
monitor_add_watch_NoTimer(m) ==
  \/ file_monitor_add_notify_for_path(m) /\ UNCHANGED timer
  \/ UNCHANGED <<filevars, timer>>

\* monitor_add_watch, which may fail (also for want of watches), and then the timer.
monitor_add_watch(m) ==
  \/ file_monitor_add_notify_for_path(m) /\ UNCHANGED timer
  \/ timer' = [timer EXCEPT ![m] = Threshold] /\ UNCHANGED filevars

\* The rest of it, when the terminal is idle.
IsIdle(m) ==
  /\ check.monitor = m /\ check.age = Threshold
  /\ check' = Nobody
  /\ idle_hint' = idle_hint \cup {m}
  /\ monitor_add_watch(m)
  /\ UNCHANGED <<live, age>>

\* file_access_cb that does not start the monitor again.
emit_events_in_idle_NoRestart ==
  /\ InMainLoop /\ notify_events # {}
  /\ \E M \in SUBSET notifies :
       /\ Called(M)
       /\ idle_hint' = idle_hint \ M
       /\ ck_tty_idle_monitor_stop(M, Off, {})
  /\ UNCHANGED <<inotify, live, age, check>>

\* emit_events_in_idle, and file_access_cb for each notify that is called: the session is
\* not idle, and its monitor starts over.
emit_events_in_idle ==
  /\ InMainLoop /\ notify_events # {}
  /\ \E M \in SUBSET notifies :
       /\ Called(M)
       /\ idle_hint' = idle_hint \ M
       /\ ck_tty_idle_monitor_stop(M, Threshold, {})
  /\ UNCHANGED <<inotify, live, age, check>>

FileMonitor ==
  /\ InMainLoop
  /\ inotify_data_pending \/ emit_removals_in_idle \/ close_inotify
  /\ UNCHANGED <<idlevars, age, check>>

----------------------------------------------------------------------------
Next ==
  \/ \E d \in Devices : Access(d) \/ Hotplugs(d)
  \/ Tick
  \/ \E m \in Monitors :
       \/ session_add_activity_watch(m) \/ session_remove_activity_watch(m)
       \/ check_tty_idle(m) \/ InUse(m) \/ IsIdle(m)
  \/ emit_events_in_idle \/ FileMonitor

\* Time passes, and the main loop gets round to every source that is ready in each of its
\* iterations, however many checks come between. Nobody has to type, log in or log out.
Spec ==
  /\ Init /\ [][Next]_vars
  /\ WF_vars(Tick)
  /\ \A m \in Monitors : SF_vars(check_tty_idle(m)) /\ WF_vars(InUse(m) \/ IsIdle(m))
  /\ SF_vars(emit_events_in_idle) /\ SF_vars(FileMonitor)

----------------------------------------------------------------------------
(* Properties.                                                             *)

\* No callback reaches the monitor of a session that is gone: what is on the list of a
\* watch, and so may be called, belongs to an open session and is in the table.
CallbacksAreLive ==
  \A d \in Devices : Range(watch_notifies[d]) \subseteq live \cap notifies

\* An open session is never forgotten: its monitor waits for a timer or is in the list of
\* a watch that the kernel has, unless the device has been away or reading inotify failed.
AlwaysObserved ==
  inotify # "closed" =>
    \A m \in live : DeviceOf[m] \notin away =>
      \/ timer[m] # Off
      \/ check.monitor = m
      \/ LET d == DeviceOf[m] IN /\ m \in Range(watch_notifies[d])
                                 /\ watch_wd[d] = kernel_wd[d] /\ kernel_wd[d] # NoWd

\* "the Session object itself will periodically update this value based on the activity
\* detected on the display-device": a session whose terminal stays in use is in the end not
\* idle, one whose terminal is left alone is, unless the device has been away or reading
\* inotify failed.
HintSettles ==
  \A m \in Monitors :
    LET d == DeviceOf[m]
        stays == m \in live /\ d \notin away /\ inotify # "closed"
    IN /\ <>[](stays /\ age[d] < Threshold) => <>[](m \notin idle_hint)
       /\ <>[](stays /\ age[d] = Threshold) => <>[](m \in idle_hint)
=============================================================================
