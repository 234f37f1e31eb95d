----------------------------- MODULE CkLogEvent -----------------------------
(***************************************************************************)
(* What becomes of an event on its way to the reader (ck-log-event.c): it  *)
(* is copied for the writer thread, formatted as a line, and parsed again  *)
(* by ck-history. An event is a record of its type, its time, the session  *)
(* and the login it is about, the members of its struct that hold what the *)
(* daemon knew, and whether their values are made of the characters that   *)
(* the reader's patterns accept.                                           *)
(***************************************************************************)
EXTENDS Naturals

SeatEvents == {"SEAT_ADDED", "SEAT_REMOVED"}
SessionEvents == {"SEAT_SESSION_ADDED", "SEAT_SESSION_REMOVED"}
DeviceEvents == {"SEAT_DEVICE_ADDED", "SEAT_DEVICE_REMOVED"}
ActiveEvents == {"SEAT_ACTIVE_SESSION_CHANGED"}
SystemEvents == {"SYSTEM_START", "SYSTEM_STOP", "SYSTEM_RESTART"}
SleepEvents == {"SYSTEM_SUSPEND", "SYSTEM_HIBERNATE"}
Types == SeatEvents \cup SessionEvents \cup DeviceEvents \cup ActiveEvents
           \cup SystemEvents \cup SleepEvents

SessionStrings ==
  {"seat_id", "session_id", "session_type", "session_x11_display",
   "session_x11_display_device", "session_display_device",
   "session_remote_host_name", "session_creation_time"}
SessionNumbers == {"session_is_local", "session_unix_user"}

\* The members of the struct of each type of event.
Members(t) ==
  CASE t \in SeatEvents -> {"seat_id", "seat_kind"}
    [] t \in SessionEvents -> SessionStrings \cup SessionNumbers
    [] t \in DeviceEvents -> {"seat_id", "device_id", "device_type"}
    [] t \in ActiveEvents -> {"seat_id", "session_id"}
    [] t = "SYSTEM_START" -> {"kernel_release", "boot_arguments"}
    [] OTHER -> {}

Fields == UNION {Members(t) : t \in Types}

\* The members that the event_..._copy of a type duplicates: all there are.
Copied(t) == Members(t)

\* A copy of the pointers only: the caller frees its strings after it has queued the
\* event.
ck_log_event_copy_Shallow(e) == [e EXCEPT !.set = @ \cap (SessionNumbers \cup {"seat_kind"})]

\* The strings are duplicated and the numbers copied, member by member.
ck_log_event_copy(e) == [e EXCEPT !.set = @ \cap Copied(e.type)]

\* Suspend and hibernate have no name.
event_type_to_name(t) == IF t \in SleepEvents THEN "UNKNOWN" ELSE t

\* The members that the add_log_for_... of a type prints: all there are.
Printed(t) == Members(t)

ck_log_event_to_string(e) ==
  [name |-> event_type_to_name(e.type), time |-> e.time, id |-> e.id,
   login |-> e.login,
   set |-> e.set \cap Printed(e.type), plain |-> e.plain]

\* The named groups of the pattern of each type, by the member they stand for. The
\* group of a seat's kind is called sessionid, that of the remote host is misspelt.
SeatGroups == {"seat_id", "session_id"}
SystemGroups(t) == Members(t)
SessionGroups == (SessionStrings \cup SessionNumbers \cup {"session_remove_host_name"})
                   \ {"session_remote_host_name"}
DeviceGroups(t) == Members(t)

Groups(t) ==
  CASE t \in SeatEvents -> SeatGroups
    [] t \in SessionEvents -> SessionGroups
    [] t \in DeviceEvents \cup ActiveEvents -> DeviceGroups(t)
    [] OTHER -> SystemGroups(t)

\* ck_log_event_new_from_string gives NULL for a name it does not know and for values
\* that the pattern does not match; a member is read from the group that has its name.
parses(l) == l.name # "UNKNOWN" /\ (l.name \in SessionEvents => l.plain)

ck_log_event_new_from_string(l) ==
  [type |-> l.name, time |-> l.time, id |-> l.id, login |-> l.login, plain |-> l.plain,
   set |-> l.set \cap Groups(l.name) \cap Members(l.name)]

EventsOf(times, ids) ==
  [type : Types, time : times, id : ids, login : times \cup {0}, set : SUBSET Fields,
   plain : BOOLEAN]

LinesOf(times, ids) ==
  [name : Types \cup {"UNKNOWN"}, time : times, id : ids, login : times \cup {0},
   set : SUBSET Fields, plain : BOOLEAN]
=============================================================================
