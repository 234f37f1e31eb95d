----------------------------- MODULE CkHistory -----------------------------
(***************************************************************************)
(* The history of logins: what the manager logs (ck-manager.c), how the    *)
(* system goes down and comes up, and what ck-history makes of the files.  *)
(*                                                                         *)
(* on_seat_session_added_full and on_seat_session_removed_full first run   *)
(* the programs of run-session.d and log the event when those are done.    *)
(* Meanwhile ck_run_programs runs the main loop, so another handler may    *)
(* start on top of this one, and has to end before it.                     *)
(***************************************************************************)
EXTENDS CkEventLogger

CONSTANTS Noise,      \* bound: types of the events that ck-history skips
          Actions,    \* bound: types of the events of system actions
          Odd,        \* bound: ids of sessions with values that no pattern matches
          Stops,      \* bound: tools that are run when the system goes down
          MaxNest     \* bound: handlers that wait for programs at a time

ASSUME HistoryAssumption ==
  /\ Noise \subseteq SeatEvents \cup DeviceEvents \cup ActiveEvents \cup SleepEvents
  /\ Actions \subseteq {"SYSTEM_STOP", "SYSTEM_RESTART"}
  /\ Odd \subseteq Ids
  /\ Stops \subseteq {"SYSTEM_STOP", "SYSTEM_RESTART"}
  /\ MaxNest \in Nat \ {0}

VARIABLES system,     \* "up", "stopping" or "down"
          clock,      \* events logged so far
          logins,     \* logins so far
          serial,     \* session_serial
          open,       \* session id -> its login, 0 without one
          handlers,   \* handlers that wait for their programs, the latest last
          fate,       \* login -> how it ended, as RecordStatus has it
          odd,        \* logins with odd values
          misled      \* what was logged is not what happened, in this order

daemonvars == <<serial, open, handlers>>
historyvars == <<logvars, system, clock, logins, daemonvars, fate, odd, misled>>

Statuses == {"CRASH", "DOWN", "NORMAL", "NOW", "PHANTOM"}
LoggedIn == {t \in Times : \E i \in Ids : open[i] = t}
Handler == [type : SessionEvents, id : Ids, login : Times]

HistoryTypeOK ==
  /\ LoggerTypeOK
  /\ system \in {"up", "stopping", "down"}
  /\ clock \in 0 .. MaxEvents /\ logins \in 0 .. MaxEvents /\ serial \in 0 .. MaxIds
  /\ open \in [Ids -> 0 .. MaxEvents]
  /\ handlers \in Seq(Handler)
  /\ Len(handlers) <= MaxNest
  /\ fate \in [Times -> Statuses \cup {"none"}]
  /\ odd \subseteq Times
  /\ misled \in BOOLEAN

HistoryInit ==
  /\ LoggerInit
  /\ system = "down" /\ clock = 0 /\ logins = 0 /\ serial = 0
  /\ open = [i \in Ids |-> 0] /\ handlers = <<>>
  /\ fate = [t \in Times |-> "none"]
  /\ odd = {} /\ misled = FALSE

----------------------------------------------------------------------------
(* The daemon.                                                             *)

Event(t, i, l) ==
  [type |-> t, time |-> clock + 1, id |-> i, login |-> l, set |-> Members(t),
   plain |-> i \notin Odd]

\* Bound: nothing is logged any more once an event is lost or does not say what happened,
\* and nothing new when every event that is left has a handler.
Sound == ~ lost /\ ~ misled
Room == Sound /\ clock + Len(handlers) < MaxEvents
Tick == clock' = clock + 1

StartDaemon ==
  /\ system = "up"
  /\ ck_event_logger_new
  /\ UNCHANGED <<system, clock, logins, daemonvars, fate, odd, misled>>

\* A handler starts the programs of run-session.d.
ck_session_run_programs(t, i, l) ==
  /\ running /\ Room
  /\ Len(handlers) < MaxNest
  /\ handlers' = Append(handlers, [type |-> t, id |-> i, login |-> l])

\* A session is opened and added to its seat.
on_seat_session_added_full ==
  /\ system = "up" /\ serial < MaxIds /\ logins < MaxEvents
  /\ serial' = serial + 1
  /\ logins' = logins + 1
  /\ open' = [open EXCEPT ![serial'] = logins']
  /\ fate' = [fate EXCEPT ![logins'] = "NOW"]
  /\ odd' = IF serial' \in Odd THEN odd \cup {logins'} ELSE odd
  /\ ck_session_run_programs("SEAT_SESSION_ADDED", serial', logins')
  /\ UNCHANGED <<logvars, system, clock, misled>>

\* A session is closed; its client may do so while the programs for its start are run.
on_seat_session_removed_full(i) ==
  /\ open[i] # 0
  /\ open' = [open EXCEPT ![i] = 0]
  /\ fate' = [fate EXCEPT ![open[i]] = IF @ = "NOW" THEN "NORMAL" ELSE @]
  /\ ck_session_run_programs("SEAT_SESSION_REMOVED", i, open[i])
  /\ misled' = (misled \/ \E k \in DOMAIN handlers : handlers[k].login = open[i])
  /\ UNCHANGED <<logvars, system, clock, logins, serial, odd>>

\* The programs of the latest handler are done: log_seat_session_added_event or
\* log_seat_session_removed_event.
ProgramsEnd ==
  /\ handlers # <<>>
  /\ Sound /\ Tick
  /\ LET h == Last(handlers)
     IN ck_event_logger_queue_event(Event(h.type, h.id, h.login))
  /\ handlers' = Front(handlers)
  /\ UNCHANGED <<system, logins, serial, open, fate, odd, misled>>

\* The logins that have not ended end with the system, or with the daemon.
Ends(how) ==
  fate' = [t \in Times |-> IF t \in LoggedIn /\ fate[t] = "NOW" THEN how ELSE fate[t]]

\* do_system_action: the event is logged before the command is run, and stays when that
\* fails. Nobody waits until it is written, or for the programs of other handlers.
log_system_action_event(t) ==
  /\ Room /\ Tick
  /\ ck_event_logger_queue_event(Event(t, 0, 0))
  /\ \/ /\ system' = "stopping"
        /\ Ends("DOWN")
        /\ misled' = (misled \/ handlers # <<>>)
     \/ /\ misled' = TRUE
        /\ UNCHANGED <<system, fate>>
  /\ UNCHANGED <<logins, daemonvars, odd>>

\* log_seat_added_event and the others that ck-history does not look at, and the events of
\* suspend and hibernate.
LogOther(t) ==
  /\ Room /\ Tick
  /\ ck_event_logger_queue_event(Event(t, 0, 0))
  /\ UNCHANGED <<system, logins, daemonvars, fate, odd, misled>>

\* What is left of the sessions when the daemon is gone; what it would have logged of
\* them is lost.
Forgets(how) ==
  /\ open' = [i \in Ids |-> 0]
  /\ handlers' = <<>> /\ serial' = 0
  /\ Ends(how)
  /\ misled' = (misled \/ handlers # <<>>)

\* The termination signals have their default action.
DaemonDies ==
  /\ running
  /\ Killed
  /\ Forgets("PHANTOM")
  /\ UNCHANGED <<system, clock, logins, odd>>

LogWriter ==
  /\ Writer
  /\ IF running' THEN UNCHANGED <<daemonvars, fate, misled>> ELSE Forgets("PHANTOM")
  /\ UNCHANGED <<system, clock, logins, odd>>

----------------------------------------------------------------------------
(* The system.                                                             *)

\* ck-log-system-stop and ck-log-system-restart, run by init when the system goes down.
LogSystemStop(t) ==
  /\ system # "down"
  /\ Room /\ Tick
  /\ ToolWrites(Event(t, 0, 0))
  /\ system' = "stopping"
  /\ Ends("DOWN")
  /\ misled' = (misled \/ Pending # <<>> \/ handlers # <<>>)
  /\ UNCHANGED <<running, queue, threadvars, logins, daemonvars, odd>>

\* The power fails, or the shutdown comes to its end.
GoDown ==
  /\ system # "down"
  /\ system' = "down"
  /\ Killed
  /\ Forgets("CRASH")
  /\ UNCHANGED <<clock, logins, odd>>

\* ck-log-system-start, run at boot.
LogSystemStart ==
  /\ system = "down"
  /\ Room /\ Tick
  /\ ToolWrites(Event("SYSTEM_START", 0, 0))
  /\ system' = "up"
  /\ UNCHANGED <<running, queue, threadvars, logins, daemonvars, fate, odd, misled>>

RotateLog ==
  Rotate /\ UNCHANGED <<system, clock, logins, daemonvars, fate, odd, misled>>

HistoryNext ==
  \/ StartDaemon \/ DaemonDies \/ LogWriter \/ GoDown \/ LogSystemStart \/ RotateLog
  \/ on_seat_session_added_full \/ ProgramsEnd
  \/ \E i \in Ids : on_seat_session_removed_full(i)
  \/ \E t \in Actions : log_system_action_event(t)
  \/ \E t \in Noise : LogOther(t)
  \/ \E t \in Stops : LogSystemStop(t)

\* The writer thread is scheduled.
HistorySpec ==
  HistoryInit /\ [][HistoryNext]_historyvars /\ WF_historyvars(LogWriter)

----------------------------------------------------------------------------
(* ck-history.                                                             *)

\* get_log_file_list: the primary file is always in the list.
get_log_file_list == <<path>> \o rotated

\* The events of a file, those of its lines that can be parsed.
Parsed(f) == LET ls == Among(text[f], {l \in Range(text[f]) : parses(l)})
             IN [i \in DOMAIN ls |-> ck_log_event_new_from_string(ls[i])]

\* The events of es that are not older than since.
NotOlder(es, since) == Among(es, {e \in Range(es) : e.time >= since})

\* process_log_stream dropping the events of the very second of since.
process_log_stream_After(f, since) == NotOlder(Parsed(f), since + 1)

process_log_stream(f, since) == NotOlder(Parsed(f), since)

\* A file that cannot be opened, or has older events, is the last one.
IsLast(f, since) == f = NoFile \/ \E i \in DOMAIN Parsed(f) : Parsed(f)[i].time < since

\* process_logs, newest file first up to the last one, and the list turned round.
IsRead(files, k, since) ==
  files[k] # NoFile /\ \A j \in 1 .. k - 1 : ~ IsLast(files[j], since)

all_events(since) ==
  LET files == get_log_file_list
  IN FlattenSeq(Reverse([k \in DOMAIN files |->
       IF IsRead(files, k, since) THEN process_log_stream(files[k], since) ELSE <<>>]))

\* The events after the i-th that may have ended its session.
RemoveEvents(es, i) ==
  {j \in i + 1 .. Len(es) : \/ es[j].type = "SEAT_SESSION_REMOVED" /\ es[j].id = es[i].id
                            \/ es[j].type \in SystemEvents}

find_first_matching_remove_event(es, i) ==
  CHOOSE j \in RemoveEvents(es, i) : \A k \in RemoveEvents(es, i) : j <= k

\* get_event_record_status that takes a clean shutdown for a crash.
get_event_record_status_NoRestart(es, i) ==
  IF RemoveEvents(es, i) = {} THEN "NOW"
  ELSE LET t == es[find_first_matching_remove_event(es, i)].type
       IN CASE t = "SEAT_SESSION_REMOVED" -> "NORMAL"
            [] t = "SYSTEM_STOP" -> "DOWN"
            [] OTHER -> "CRASH"

get_event_record_status(es, i) ==
  IF RemoveEvents(es, i) = {} THEN "NOW"
  ELSE LET t == es[find_first_matching_remove_event(es, i)].type
       IN CASE t = "SEAT_SESSION_REMOVED" -> "NORMAL"
            [] t = "SYSTEM_START" -> "CRASH"
            [] OTHER -> "DOWN"

\* A line of the report: the login, how it ended and what is known of it.
print_last_report_record(es, i) ==
  [login |-> es[i].login, status |-> get_event_record_status(es, i), set |-> es[i].set]

\* The lines for logins, without a filter for user, seat or type; those for boots are
\* left out.
generate_report_last(since) ==
  LET es == all_events(since)
  IN {print_last_report_record(es, i) :
        i \in {j \in DOMAIN es : es[j].type = "SEAT_SESSION_ADDED"}}

----------------------------------------------------------------------------
(* Properties.                                                             *)

\* The log is up to date and what it says is what happened.
Settles ==
  ~ lost /\ ~ misled /\ Pending = <<>> /\ handlers = <<>> /\ path # NoFile

\* Every login with values that can be parsed is reported once, with the way it ended
\* (a removal is not attributed to another session, neither rotation nor the end of the
\* system hides one), as long as the daemon did not die under it.
ReportIsRight ==
  Settles /\ system # "down" /\ (\A t \in Times : fate[t] # "PHANTOM") =>
    {<<r.login, r.status>> : r \in generate_report_last(0)} =
      {<<t, fate[t]>> : t \in {u \in Times : fate[u] # "none" /\ u \notin odd}}

\* What ck-history reads of a login is all that the daemon knew, but for the name of the
\* remote host.
RecordsComplete ==
  \A r \in generate_report_last(0) :
    r.set = Members("SEAT_SESSION_ADDED") \ {"session_remote_host_name"}

\* "Show entries since the specified time": the files before the first older event are
\* not needed.
SinceIsComplete ==
  Settles => \A since \in Times :
    all_events(since) = NotOlder(all_events(0), since)

\* What is queued is written, unless there is no writer thread or the daemon dies first;
\* a file that cannot be opened does not stop the thread.
EventsWritten == (Pending # <<>> /\ thread # "none") ~> (Pending = <<>>)

\* "Still logged in"
NowMeansOpen ==
  Settles /\ system # "down" =>
    \A r \in generate_report_last(0) : r.status = "NOW" => r.login \in LoggedIn
=============================================================================
