--------------------------- MODULE CkFileMonitor ---------------------------
(***************************************************************************)
(* The file monitor that all idle monitors share (ck-file-monitor-inotify.c) *)
(* and the part of inotify that it relies on. The kernel has one watch per *)
(* file and tells of an access, and of the end of a watch, in a queue; the *)
(* file monitor reads all of it, sorts what it finds into two queues of    *)
(* its own, and works on those when the main loop is idle. The order in a  *)
(* queue does not matter, and neither does how often an event is in it:    *)
(* the queues are sets.                                                    *)
(*                                                                         *)
(* A watch of the monitor is kept under its path and its descriptor and    *)
(* has a list of notifies. A notify is known by the idle monitor it is     *)
(* for: ids are never used twice and no idle monitor has two.              *)
(***************************************************************************)
EXTENDS Naturals, Sequences, SequencesExt, FiniteSets

CONSTANTS Monitors,     \* idle monitors, one for each text session
          Devices,
          DeviceOf,     \* monitor -> display-device of its session
          MaxWds        \* bound: descriptors in use at a time

ASSUME FileMonitorAssumption ==
  /\ DeviceOf \in [Monitors -> Devices]
  /\ MaxWds \in Nat \ {0}

Wds == 1 .. MaxWds
NoWd == 0

VARIABLES there,          \* devices that exist
          away,           \* devices that have been away
          kernel_wd,      \* device -> descriptor of the kernel's watch
          kernel_queue,   \* what can be read from inotify_fd
          inotify,        \* "open" while initialized_inotify, "none" when it never was
          watch_wd,       \* device -> descriptor of path_to_watch and wd_to_watch
          watch_notifies, \* device -> notifies of that watch, the latest first
          notifies,       \* the notifies that are in the table
          notify_events,  \* descriptors that were accessed
          remove_events   \* descriptors that the kernel has given up

kernelvars == <<there, away, kernel_wd, kernel_queue>>
watchvars == <<watch_wd, watch_notifies, notifies>>
filevars == <<kernelvars, inotify, watchvars, notify_events, remove_events>>

FileMonitorTypeOK ==
  /\ there \subseteq Devices /\ Devices \ there \subseteq away /\ away \subseteq Devices
  /\ kernel_wd \in [Devices -> Wds \cup {NoWd}]
  /\ kernel_queue \subseteq [wd : Wds, kind : {"ACCESS", "IGNORED"}]
  /\ inotify \in {"none", "open", "closed"}
  /\ watch_wd \in [Devices -> Wds \cup {NoWd}]
  /\ watch_notifies \in [Devices -> Seq(Monitors)]
  /\ notifies \subseteq Monitors
  /\ notify_events \subseteq Wds /\ remove_events \subseteq Wds

\* ck_file_monitor_init; inotify_init may fail.
FileMonitorInit ==
  /\ there = Devices /\ away = {}
  /\ kernel_wd = [d \in Devices |-> NoWd] /\ kernel_queue = {}
  /\ inotify \in {"none", "open"}
  /\ watch_wd = [d \in Devices |-> NoWd]
  /\ watch_notifies = [d \in Devices |-> <<>>]
  /\ notifies = {} /\ notify_events = {} /\ remove_events = {}

----------------------------------------------------------------------------
(* The kernel.                                                             *)

\* What the kernel tells of the file d, if it is watched.
Told(d, kind) == IF kernel_wd[d] = NoWd THEN {} ELSE {[wd |-> kernel_wd[d], kind |-> kind]}

\* Descriptors that nothing refers to.
FreeWds ==
  {w \in Wds : /\ \A d \in Devices : w \notin {kernel_wd[d], watch_wd[d]}
               /\ w \notin {e.wd : e \in kernel_queue} \cup notify_events \cup remove_events}

\* inotify_rm_watch of the descriptors W: the kernel's watches on them go. The queue tells
\* so too, but nobody finds a watch for a descriptor that is not in use any more: such
\* events are left out of the queues.
Released(W) == [d \in Devices |-> IF kernel_wd[d] \in W THEN NoWd ELSE kernel_wd[d]]
Unread(W) == {e \in kernel_queue : e.wd \notin W}

\* The user types.
KernelAccess(d) ==
  /\ d \in there
  /\ kernel_queue' = kernel_queue \cup Told(d, "ACCESS")

\* The device goes, and the kernel's watch with it.
Vanish(d) ==
  /\ d \in there
  /\ there' = there \ {d} /\ away' = away \cup {d}
  /\ kernel_wd' = [kernel_wd EXCEPT ![d] = NoWd]
  /\ kernel_queue' = IF kernel_wd[d] = watch_wd[d] THEN kernel_queue \cup Told(d, "IGNORED")
                     ELSE Unread({kernel_wd[d]})
  /\ UNCHANGED <<inotify, watchvars, notify_events, remove_events>>

Appear(d) ==
  /\ d \in Devices \ there
  /\ there' = there \cup {d}
  /\ UNCHANGED <<away, kernel_wd, kernel_queue, inotify, watchvars, notify_events,
                 remove_events>>

----------------------------------------------------------------------------
(* The file monitor.                                                       *)

\* The kernel has a watch on the file by now; a watch of the monitor that has the same
\* path is taken as it is.
file_monitor_add_watch_for_path(d) ==
  \E wd \in IF kernel_wd[d] # NoWd THEN {kernel_wd[d]}
             ELSE {w \in FreeWds : \A x \in FreeWds : w <= x} :
    /\ kernel_wd' = [kernel_wd EXCEPT ![d] = wd]
    /\ watch_wd' = [watch_wd EXCEPT ![d] = IF @ = NoWd THEN wd ELSE @]

\* ck_file_monitor_add_notify for m has succeeded.
file_monitor_add_notify_for_path(m) ==
  LET d == DeviceOf[m] IN
  /\ inotify = "open" /\ d \in there
  /\ file_monitor_add_watch_for_path(d)
  /\ watch_notifies' = [watch_notifies EXCEPT ![d] = <<m>> \o @]
  /\ notifies' = notifies \cup {m}
  /\ UNCHANGED <<there, away, kernel_queue, inotify, notify_events, remove_events>>

\* The list s without the members of G, in its order.
Without(s, G) ==
  LET kept[i \in 0 .. Len(s)] ==
        IF i = 0 THEN <<>>
        ELSE IF s[i] \in G THEN kept[i - 1] ELSE Append(kept[i - 1], s[i])
  IN kept[Len(s)]

\* ck_file_monitor_remove_notify for the monitors M, when Q is left of notify_events: a
\* watch without notifies goes.
RemoveNotifies(M, Q) ==
  LET gone == IF inotify = "open" THEN M \cap notifies ELSE {}
      left == [d \in Devices |-> Without(watch_notifies[d], gone)]
      empty == {d \in Devices : left[d] = <<>> /\ left[d] # watch_notifies[d]}
      W == {watch_wd[d] : d \in empty}
  IN /\ notifies' = notifies \ gone
     /\ watch_notifies' = left
     /\ watch_wd' = [d \in Devices |-> IF d \in empty THEN NoWd ELSE watch_wd[d]]
     /\ kernel_wd' = Released(W)
     /\ kernel_queue' = Unread(W)
     /\ remove_events' = remove_events \ W
     /\ notify_events' = Q \ W
     /\ UNCHANGED <<there, away>>

\* inotify_data_pending and handle_inotify_event: what is about a watch is queued.
inotify_data_pending ==
  /\ inotify = "open" /\ kernel_queue # {}
  /\ LET Known(kind) == {e.wd : e \in {x \in kernel_queue : x.kind = kind}} \cap Range(watch_wd)
     IN /\ notify_events' = notify_events \cup Known("ACCESS")
        /\ remove_events' = remove_events \cup Known("IGNORED")
  /\ kernel_queue' = {}
  /\ UNCHANGED <<there, away, kernel_wd, inotify, watchvars>>

\* Reading fails: close_inotify, for good. The notifies stay in the table.
close_inotify ==
  /\ inotify = "open" /\ kernel_queue # {}
  /\ inotify' = "closed"
  /\ watch_wd' = [d \in Devices |-> NoWd]
  /\ watch_notifies' = [d \in Devices |-> <<>>]
  /\ kernel_wd' = [d \in Devices |-> NoWd] /\ kernel_queue' = {}
  /\ notify_events' = {} /\ remove_events' = {}
  /\ UNCHANGED <<there, away, notifies>>

\* emit_removals_in_idle: the watches that the kernel has given up are dropped, and their
\* notifies have none any more.
emit_removals_in_idle ==
  /\ remove_events # {}
  /\ remove_events' = {}
  /\ LET D == {d \in Devices : watch_wd[d] \in remove_events}
     IN /\ watch_wd' = [d \in Devices |-> IF d \in D THEN NoWd ELSE watch_wd[d]]
        /\ watch_notifies' = [d \in Devices |-> IF d \in D THEN <<>> ELSE watch_notifies[d]]
        /\ kernel_wd' = Released(remove_events)
        /\ kernel_queue' = Unread(remove_events)
        /\ notify_events' = notify_events \ remove_events
  /\ UNCHANGED <<there, away, inotify, notifies>>

\* The notifies that emit_events_in_idle may call. A callback takes its notify off the list
\* that is being walked and frees its link: what is read of the link then may end the walk,
\* or still lead on.
Called(M) ==
  \A d \in Devices : \E k \in 0 .. Len(watch_notifies[d]) :
    /\ {watch_notifies[d][i] : i \in 1 .. k} = {m \in M : DeviceOf[m] = d}
    /\ (k > 0) = (watch_wd[d] \in notify_events)
=============================================================================
