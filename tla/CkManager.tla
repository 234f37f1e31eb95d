------------------------------ MODULE CkManager ------------------------------
(***************************************************************************)
(* The life of a session in ck-manager.c: OpenSession stores a leader and  *)
(* starts ck-collect-session-info for it, the end of that job opens the    *)
(* session, CloseSession or the disappearance of the client removes it.    *)
(* On the way the manager keeps its seats, the users' runtime directories, *)
(* the system idle hint and the database file in step.                     *)
(*                                                                         *)
(* A leader, its session and its cookie are one value of Cookies: session  *)
(* ids and cookies are unique. What the client and the job report about a  *)
(* session are constants. Every handler runs in the main loop and is one   *)
(* step, but for the loop of remove_sessions_for_connection: it takes a    *)
(* step per leader, and no other handler runs until it is done.            *)
(***************************************************************************)
EXTENDS Integers

CONSTANTS Cookies,         \* session leaders
          Clients,         \* unique names on the bus
          Users,           \* UNIX users
          Owner,           \* cookie -> the client that opened the session
          User,            \* cookie -> the user it is for
          OnConsole,       \* the cookies whose parameters name a VT of this machine
          IsLocal,         \* cookie -> the is-local parameter, or "absent"
          LoginId,         \* cookie -> the login-session-id parameter
          StaticSeats,     \* ids of the seats made from seat files
          SeatFiles,       \* how many ids the seat files used up
          MaxSerial,       \* bound: the serial before it wraps to 0 (2^31 - 1)
          GenerateMayFail, \* the runtime directory may not be made
          DumpMayFail      \* the database may not be written

SeatIds == 0 .. MaxSerial

ASSUME ManagerAssumption ==
  /\ Owner \in [Cookies -> Clients]
  /\ User \in [Cookies -> Users]
  /\ OnConsole \subseteq Cookies
  /\ IsLocal \in [Cookies -> {"true", "false", "absent"}]
  /\ MaxSerial \in Nat
  /\ SeatFiles \in SeatIds
  /\ StaticSeats \subseteq SeatIds
  /\ GenerateMayFail \in BOOLEAN
  /\ DumpMayFail \in BOOLEAN

VARIABLES leaders,           \* CkManagerPrivate.leaders
          jobs,              \* leaders that wait for ck-collect-session-info
          closing,           \* leaders remove_sessions_for_connection has yet to do
          sessions,          \* CkManagerPrivate.sessions
          seats,             \* ids of CkManagerPrivate.seats
          seat_serial,       \* CkManagerPrivate.seat_serial
          seat_sessions,     \* CkSeatPrivate.sessions of every seat
          seat_id,           \* CkSessionPrivate.seat_id
          is_local,          \* sessions whose is-local property is TRUE
          runtime_dir,       \* sessions whose runtime_dir is not NULL
          rundirs,           \* users whose runtime directory exists
          files,             \* sessions that find their files in it
          idle_hint,         \* sessions whose idle-hint property is TRUE
          idle_blocked,      \* the inhibit manager holds a block lock on idle
          system_idle_hint,  \* CkManagerPrivate.system_idle_hint
          database           \* what the database file says, or NoDatabase

leadervars == <<leaders, jobs, closing, sessions>>
seatvars == <<seats, seat_serial, seat_sessions, seat_id, is_local>>
dirvars == <<runtime_dir, rundirs, files>>
idlevars == <<idle_hint, idle_blocked, system_idle_hint>>
vars == <<leadervars, seatvars, dirvars, idlevars, database>>

NoDatabase == [leaders |-> {}, sessions |-> {}, seats |-> {}, exists |-> FALSE]

Database == [leaders : SUBSET Cookies, sessions : SUBSET Cookies,
             seats : SUBSET SeatIds, exists : BOOLEAN]

ManagerTypeOK ==
  /\ leaders \subseteq Cookies
  /\ jobs \subseteq Cookies
  /\ closing \subseteq Cookies
  /\ sessions \subseteq Cookies
  /\ seats \subseteq SeatIds
  /\ seat_serial \in SeatIds
  /\ seat_sessions \in [SeatIds -> SUBSET Cookies]
  /\ seat_id \in [Cookies -> SeatIds]
  /\ is_local \subseteq Cookies
  /\ runtime_dir \subseteq Cookies
  /\ rundirs \subseteq Users
  /\ files \subseteq Cookies
  /\ idle_hint \subseteq Cookies
  /\ idle_blocked \in BOOLEAN
  /\ system_idle_hint \in BOOLEAN
  /\ database \in Database

-----------------------------------------------------------------------------
(* The database file. Every handler's last dump is the one that counts.    *)

\* ck_manager_dump: the file is renamed into place, or unlinked when it could not
\* be written.
ck_manager_dump(L, S, seated) ==
  \/ database' = [leaders |-> L, sessions |-> S, seats |-> seated, exists |-> TRUE]
  \/ DumpMayFail /\ database' = NoDatabase

\* After create_seats.
Init ==
  /\ leaders = {} /\ jobs = {} /\ closing = {} /\ sessions = {}
  /\ seats = StaticSeats
  /\ seat_serial = SeatFiles
  /\ seat_sessions = [i \in SeatIds |-> {}]
  /\ seat_id = [c \in Cookies |-> 0]
  /\ is_local = {}
  /\ runtime_dir = {} /\ rundirs = {} /\ files = {}
  /\ idle_hint = {} /\ idle_blocked = FALSE /\ system_idle_hint = TRUE
  /\ database = IF StaticSeats = {} THEN NoDatabase
                ELSE [NoDatabase EXCEPT !.seats = StaticSeats, !.exists = TRUE]

-----------------------------------------------------------------------------
(* The system idle hint.                                                   *)

\* manager_update_system_idle_hint for sessions S of which I are idle.
manager_update_system_idle_hint(S, I) ==
  system_idle_hint' = (~ idle_blocked /\ S \subseteq I)

\* SetIdleHint and the tty idle monitor of a text session. A session that is told
\* what it knows emits nothing.
session_set_idle_hint_internal(c) ==
  /\ closing = {}
  /\ c \in sessions
  /\ \/ c \in idle_hint /\ idle_hint' = idle_hint \ {c}
     \/ c \notin idle_hint /\ idle_hint' = idle_hint \cup {c}
  /\ manager_update_system_idle_hint(sessions, idle_hint')
  /\ UNCHANGED <<leadervars, seatvars, dirvars, idle_blocked, database>>

\* A block lock on idle is taken or the last one released: the manager does not
\* look at its idle hint.
InhibitIdle ==
  /\ closing = {}
  /\ idle_blocked' = ~ idle_blocked
  /\ UNCHANGED <<leadervars, seatvars, dirvars, idle_hint, system_idle_hint, database>>

-----------------------------------------------------------------------------
(* Runtime directories.                                                    *)

OfUser(S, u) == {c \in S : User[c] = u}

\* What get_runtime_dir_for_user may return, TRUE for a directory: the first
\* session of the user that the hash table comes across decides.
get_runtime_dir_for_user(S, u) ==
  IF OfUser(S, u) = {} THEN {FALSE}
                     ELSE {(c \in runtime_dir) : c \in OfUser(S, u)}

\* ck_generate_runtime_dir_for_user: what is there is removed first. The user may
\* be unknown, or the directory not be made or not be given to the user.
ck_generate_runtime_dir_for_user(c) ==
  \/ /\ runtime_dir' = runtime_dir \cup {c}
     /\ rundirs' = rundirs \cup {User[c]}
     /\ files' = (files \ OfUser(files, User[c])) \cup {c}
  \/ /\ GenerateMayFail
     /\ runtime_dir' = runtime_dir \ {c}
     /\ \/ UNCHANGED <<rundirs, files>>
        \/ /\ files' = files \ OfUser(files, User[c])
           /\ rundirs' \in {rundirs \ {User[c]}, rundirs \cup {User[c]}}

\* open_session_for_leader generating a directory whatever sessions the user has.
SetRuntimeDir_Regenerates(c) == ck_generate_runtime_dir_for_user(c)

\* "If the user is already logged in, continue to use the same runtime dir":
\* open_session_for_leader's choice of a directory for session c.
SetRuntimeDir(c) ==
  \E found \in get_runtime_dir_for_user(sessions, User[c]) :
    \/ /\ found
       /\ runtime_dir' = runtime_dir \cup {c}
       /\ files' = files \cup {c}
       /\ UNCHANGED rundirs
    \/ ~ found /\ ck_generate_runtime_dir_for_user(c)

\* remove_session_for_cookie looking before c is out of the table.
RemoveRuntimeDir_Early(c) ==
  /\ \E found \in get_runtime_dir_for_user(sessions, User[c]) :
       /\ files' = (IF found THEN files ELSE files \ OfUser(files, User[c])) \ {c}
       /\ rundirs' = IF found THEN rundirs ELSE rundirs \ {User[c]}
  /\ runtime_dir' = runtime_dir \ {c}

\* "We removed the session and now there's no runtime dir associated with that
\* user": the end of remove_session_for_cookie.
RemoveRuntimeDir(c) ==
  /\ \E found \in get_runtime_dir_for_user(sessions \ {c}, User[c]) :
       /\ files' = (IF found THEN files ELSE files \ OfUser(files, User[c])) \ {c}
       /\ rundirs' = IF found THEN rundirs ELSE rundirs \ {User[c]}
  /\ runtime_dir' = runtime_dir \ {c}

-----------------------------------------------------------------------------
(* Seats.                                                                  *)

\* get_next_seat_serial, n times.
NextSerial(n) == (seat_serial + n) % (MaxSerial + 1)

\* generate_seat_id: the first serial that no seat has. The loop of the code would
\* not end if all were taken.
generate_seat_id(i) ==
  \E n \in SeatIds :
    /\ i = NextSerial(n)
    /\ i \notin seats
    /\ \A m \in 0 .. n - 1 : NextSerial(m) \in seats
    /\ seat_serial' = NextSerial(n + 1)

\* find_seat_for_session reads is-local before open_session_for_leader sets it.
find_seat_for_session(c) == c \in OnConsole /\ IsLocal[c] = "true" /\ 0 \in seats

\* Session c is put on the console's seat, or on a new dynamic one.
AddToSeat(c) ==
  \E i \in SeatIds :
    /\ \/ find_seat_for_session(c) /\ i = 0 /\ UNCHANGED <<seats, seat_serial>>
       \/ ~ find_seat_for_session(c) /\ generate_seat_id(i) /\ seats' = seats \cup {i}
    /\ seat_sessions' = [seat_sessions EXCEPT ![i] = @ \cup {c}]
    /\ seat_id' = [seat_id EXCEPT ![c] = i]

\* remove_session_for_cookie leaving dynamic seats behind.
RemoveFromSeat_KeepsSeat(c) ==
  /\ seat_sessions' = [seat_sessions EXCEPT ![seat_id[c]] = @ \ {c}]
  /\ UNCHANGED <<seats, seat_serial, seat_id>>

\* ck_seat_remove_session and, for a dynamic seat, remove_seat. A session whose
\* seat is gone is on no seat.
RemoveFromSeat(c) ==
  LET dynamic == seat_id[c] \notin StaticSeats IN
  /\ seats' = IF dynamic THEN seats \ {seat_id[c]} ELSE seats
  /\ seat_sessions' = [seat_sessions EXCEPT ![seat_id[c]] = IF dynamic THEN {} ELSE @ \ {c}]
  /\ UNCHANGED <<seat_serial, seat_id>>

-----------------------------------------------------------------------------
(* Opening a session.                                                      *)

\* create_session_for_sender: the leader is stored first; it stays without a job
\* when ck-collect-session-info could not be started.
create_session_for_sender(c) ==
  /\ closing = {}
  /\ c \notin leaders
  /\ leaders' = leaders \cup {c}
  /\ jobs' \in {jobs, jobs \cup {c}}
  /\ UNCHANGED <<closing, sessions, seatvars, dirvars, idlevars, database>>

\* collect_parameters_cb without parameters, or the session could not be made: the
\* client gets an error and the leader stays.
CollectFails(c) ==
  /\ closing = {}
  /\ c \in jobs
  /\ jobs' = jobs \ {c}
  /\ UNCHANGED <<leaders, closing, sessions, seatvars, dirvars, idlevars, database>>

\* _verify_login_session_id_is_local
_verify_login_session_id_is_local(c) ==
  \E s \in sessions : LoginId[s] = LoginId[c] /\ s \in is_local

\* verify_and_open_session_for_leader: an is-local parameter counts as TRUE whatever
\* its value.
VerifiedLocal(c) == IsLocal[c] # "absent" \/ _verify_login_session_id_is_local(c)

\* open_session_for_leader without manager_update_system_idle_hint.
open_session_for_leader_NoIdleUpdate(c) ==
  /\ closing = {}
  /\ c \in jobs
  /\ jobs' = jobs \ {c}
  /\ sessions' = sessions \cup {c}
  /\ SetRuntimeDir(c)
  /\ AddToSeat(c)
  /\ ck_manager_dump(leaders, sessions', seats')
  /\ is_local' = IF VerifiedLocal(c) THEN is_local \cup {c} ELSE is_local \ {c}
  /\ idle_hint' = idle_hint \ {c}
  /\ UNCHANGED <<leaders, closing, idle_blocked, system_idle_hint>>

\* The job ended well: collect_parameters_cb, verify_and_open_session_for_leader and
\* open_session_for_leader.
open_session_for_leader(c) ==
  /\ closing = {}
  /\ c \in jobs
  /\ jobs' = jobs \ {c}
  /\ sessions' = sessions \cup {c}
  /\ SetRuntimeDir(c)
  /\ AddToSeat(c)
  /\ ck_manager_dump(leaders, sessions', seats')
  /\ is_local' = IF VerifiedLocal(c) THEN is_local \cup {c} ELSE is_local \ {c}
  /\ idle_hint' = idle_hint \ {c}
  /\ manager_update_system_idle_hint(sessions', idle_hint')
  /\ UNCHANGED <<leaders, closing, idle_blocked>>

-----------------------------------------------------------------------------
(* Removing it.                                                            *)

\* remove_session_for_cookie that dumps the database before the session is out of
\* the table.
remove_session_for_cookie_DumpsEarly(c) ==
  /\ sessions' = sessions \ {c}
  /\ RemoveFromSeat(c)
  /\ is_local' = is_local \ {c}
  /\ ck_manager_dump(leaders, sessions, seats')
  /\ idle_hint' = idle_hint \ {c}
  /\ manager_update_system_idle_hint(sessions', idle_hint')
  /\ RemoveRuntimeDir(c)
  /\ UNCHANGED idle_blocked

\* remove_session_for_cookie, for a leader whose session is open. The last dump
\* comes when the session is out of the table.
remove_session_for_cookie(c) ==
  /\ sessions' = sessions \ {c}
  /\ RemoveFromSeat(c)
  /\ is_local' = is_local \ {c}
  /\ ck_manager_dump(leaders, sessions', seats')
  /\ idle_hint' = idle_hint \ {c}
  /\ manager_update_system_idle_hint(sessions', idle_hint')
  /\ RemoveRuntimeDir(c)
  /\ UNCHANGED idle_blocked

\* CloseSession by the process that opened the session. Before the session is open
\* it is refused, and the leader stays.
dbus_close_session(c) ==
  /\ closing = {}
  /\ c \in leaders
  /\ c \in sessions
  /\ remove_session_for_cookie(c)
  /\ leaders' = leaders \ {c}
  /\ UNCHANGED <<jobs, closing>>

\* NameOwnerChanged: the leaders of the client leave the table at once.
remove_sessions_for_connection(o) ==
  /\ closing = {}
  /\ closing' = {c \in leaders : Owner[c] = o}
  /\ closing' # {}
  /\ leaders' = leaders \ closing'
  /\ UNCHANGED <<jobs, sessions, seatvars, dirvars, idlevars, database>>

\* destroy_entity without ck_session_leader_cancel.
destroy_entity_NoCancel(c) ==
  /\ c \in closing
  /\ closing' = closing \ {c}
  /\ \/ c \in sessions /\ remove_session_for_cookie(c)
     \/ c \notin sessions /\ UNCHANGED <<sessions, seatvars, dirvars, idlevars, database>>
  /\ UNCHANGED <<leaders, jobs>>

\* Each of them loses its session, if it is open, and its pending job.
destroy_entity(c) ==
  /\ c \in closing
  /\ closing' = closing \ {c}
  /\ \/ c \in sessions /\ remove_session_for_cookie(c)
     \/ c \notin sessions /\ UNCHANGED <<sessions, seatvars, dirvars, idlevars, database>>
  /\ jobs' = jobs \ {c}
  /\ UNCHANGED leaders

Next ==
  \/ InhibitIdle
  \/ \E o \in Clients : remove_sessions_for_connection(o)
  \/ \E c \in Cookies : \/ create_session_for_sender(c)
                        \/ CollectFails(c)
                        \/ open_session_for_leader(c)
                        \/ dbus_close_session(c)
                        \/ destroy_entity(c)
                        \/ session_set_idle_hint_internal(c)

Spec == Init /\ [][Next]_vars

-----------------------------------------------------------------------------
(* Properties.                                                             *)

\* "need to store the leader info first so the pending request can be revoked": an
\* open session and a job under way always have a leader, so that CloseSession or
\* the loss of the client ends them; a job that is late opens no session.
NothingWithoutLeader ==
  /\ sessions \cup jobs \subseteq leaders \cup closing
  /\ sessions \cap jobs = {}

\* The seats and the sessions agree on who is where, every session is on a seat the
\* manager has, and a dynamic seat has exactly one session, as long as the console's
\* seat was configured.
SeatsAgree ==
  0 \in StaticSeats =>
    /\ \A i \in seats : seat_sessions[i] = {c \in sessions : seat_id[c] = i}
    /\ \A c \in sessions : seat_id[c] \in seats
    /\ \A i \in seats \ StaticSeats : \E c \in sessions : seat_sessions[i] = {c}

\* "The XDG_RUNTIME_DIR is the same for all sessions of the same user": as long as
\* every session of the user got a directory, no login and no logout of anybody takes
\* away, or empties, the directory that an open session uses.
RuntimeDirKept ==
  [][\A c \in sessions \cap sessions' :
       c \in files /\ OfUser(sessions, User[c]) \subseteq runtime_dir => c \in files']_vars

\* "... and will be automatically removed once the last session of the user is
\* closed", whatever failed before.
NoStrayRuntimeDir == \A u \in rundirs : OfUser(sessions, u) # {}

\* The system is reported idle only if every session is.
IdleMeansAllIdle == system_idle_hint => sessions \subseteq idle_hint

\* The database on disk is never out of date on which sessions and seats there are:
\* it is current or, when writing it failed, it is gone.
DatabaseCurrent == database.exists => database.sessions = sessions /\ database.seats = seats

\* "Only allow a local session if originating from an existing local session": a
\* session reported as not local, of a login nobody vouched for, is not local.
ReportedRemoteStaysRemote ==
  [][\A c \in sessions' \ sessions :
       /\ IsLocal[c] = "false"
       /\ ~ _verify_login_session_id_is_local(c)
       => c \notin is_local']_vars
=============================================================================
