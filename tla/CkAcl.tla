------------------------------- MODULE CkAcl -------------------------------
(***************************************************************************)
(* Who may open the devices that are tagged for udev-acl. When the active  *)
(* session of a seat changes, the manager dumps its database, runs the     *)
(* programs of run-seat.d (udev-acl among them) and, when they are done,   *)
(* sends ActiveSessionChanged. When a device is plugged in, udev runs      *)
(* udev-acl too, which finds the active sessions in the database.          *)
(*                                                                         *)
(* ck_run_programs runs the main loop while it waits for a program: another *)
(* change may be handled on top of the one that waits, which then goes on  *)
(* when the later one is done. A program that takes too long is killed.    *)
(***************************************************************************)
EXTENDS Naturals, Sequences, SequencesExt, FiniteSets

CONSTANTS Sessions, NoSession,
          Seats, SeatOf,        \* session -> the seat it is on
          Users, UserOf,        \* session -> its user; root is not among them
          Local,                \* sessions with is_local
          MaxChanges,           \* bound: changes of an active session
          MaxPlugs              \* bound: times the device is plugged in

ASSUME AclAssumption ==
  /\ NoSession \notin Sessions
  /\ SeatOf \in [Sessions -> Seats] /\ UserOf \in [Sessions -> Users]
  /\ Local \subseteq Sessions
  /\ MaxChanges \in Nat /\ MaxPlugs \in Nat

VARIABLES active,     \* seat -> active_session
          database,   \* the sessions that the file shows as local and active
          readable,   \* there is a database, and it can be parsed
          remains,    \* the sessions in what an earlier dump left in database~
          handlers,   \* the handlers of on_seat_active_session_changed_full that wait
                      \* for udev-acl, the latest last
          programs,   \* handler, by the number of its change, -> its udev-acl
          udev,       \* the udev-acl that udev runs
          plugged,    \* the device is
          acl,        \* the users in its access control list
          told,       \* seat -> the session of the last ActiveSessionChanged
          changes, plugs,
          nested,     \* a change was handled on top of another, or of udev's run
          failed      \* a dump failed, or a program was killed or could not be run

dbvars == <<database, readable, remains>>
vars == <<active, dbvars, handlers, programs, udev, plugged, acl, told, changes, plugs,
          nested, failed>>

Changes == 1 .. MaxChanges
Steps == {"none", "read", "remove", "add"}
OnSeat(s) == {x \in Sessions : SeatOf[x] = s} \cup {NoSession}
Active == {active[s] : s \in Seats} \cap Local
UsersOf(S) == {UserOf[x] : x \in S}

Program == [step : Steps, old : Sessions \cup {NoSession}, new : Sessions \cup {NoSession},
            list : SUBSET Users]
NoProgram == [step |-> "none", old |-> NoSession, new |-> NoSession, list |-> {}]

AclTypeOK ==
  /\ active \in [Seats -> Sessions \cup {NoSession}]
  /\ database \subseteq Sessions /\ readable \in BOOLEAN /\ remains \subseteq Sessions
  /\ handlers \in Seq([seat : Seats, new : Sessions \cup {NoSession}, change : Changes])
  /\ programs \in [Changes -> Program] /\ udev \in Program
  /\ plugged \in BOOLEAN /\ acl \subseteq Users
  /\ told \in [Seats -> Sessions \cup {NoSession}]
  /\ changes \in 0 .. MaxChanges /\ plugs \in 0 .. MaxPlugs
  /\ nested \in BOOLEAN /\ failed \in BOOLEAN

Init ==
  /\ active = [s \in Seats |-> NoSession]
  /\ database = {} /\ readable = TRUE /\ remains = {}
  /\ handlers = <<>> /\ programs = [c \in Changes |-> NoProgram] /\ udev = NoProgram
  /\ plugged = FALSE /\ acl = {}
  /\ told = [s \in Seats |-> NoSession]
  /\ changes = 0 /\ plugs = 0 /\ nested = FALSE /\ failed = FALSE

----------------------------------------------------------------------------
(* The manager.                                                            *)

\* ck_manager_dump when S are the sessions to show. database~ is not truncated when it
\* is opened: of what an earlier dump left there, the end may show behind a shorter
\* database, or make it unreadable. A dump that fails unlinks the database.
ck_manager_dump(S) ==
  \/ /\ database' \in {S \cup R : R \in SUBSET remains}
     /\ readable' \in IF remains = {} THEN {TRUE} ELSE BOOLEAN
     /\ remains' = {}
     /\ UNCHANGED failed
  \/ /\ database' = {} /\ readable' = FALSE
     /\ \E R \in SUBSET S : remains' = remains \cup R
     /\ failed' = TRUE

\* ck_seat_run_programs for the present change: udev-acl is started with the old and the
\* new session in its environment. (One that cannot be spawned is one that is killed
\* before its first step.)
ck_seat_run_programs(old, new) ==
  programs' = [programs EXCEPT ![changes'] =
                 [step |-> "read", old |-> old, new |-> new, list |-> {}]]

\* A seat's handler that runs the programs before it dumps.
on_seat_active_session_changed_full_LateDump(s, new) ==
  /\ changes' = changes + 1
  /\ handlers' = Append(handlers, [seat |-> s, new |-> new, change |-> changes'])
  /\ ck_seat_run_programs(active[s], new)
  /\ nested' = (nested \/ handlers # <<>> \/ udev.step # "none")
  /\ UNCHANGED <<dbvars, failed>>

\* The active session of seat s has changed from the present one to new: dump, and run
\* the programs.
on_seat_active_session_changed_full(s, new) ==
  /\ changes' = changes + 1
  /\ handlers' = Append(handlers, [seat |-> s, new |-> new, change |-> changes'])
  /\ ck_manager_dump(Active')
  /\ ck_seat_run_programs(active[s], new)
  /\ nested' = (nested \/ handlers # <<>> \/ udev.step # "none")

\* change_active_session of the seat, up to the end of the signal's first handler.
change_active_session(s, new) ==
  /\ changes < MaxChanges
  /\ new # active[s] /\ new \in OnSeat(s)
  /\ active' = [active EXCEPT ![s] = new]
  /\ on_seat_active_session_changed_full(s, new)
  /\ UNCHANGED <<udev, plugged, acl, told, plugs>>

\* The program of the latest handler has ended, or the handler has given up on it: it
\* goes on to send ActiveSessionChanged, when there is a session.
ck_run_programs_returns ==
  /\ handlers # <<>>
  /\ programs[Last(handlers).change].step = "none"
  /\ handlers' = Front(handlers)
  /\ told' = IF Last(handlers).new = NoSession THEN told
             ELSE [told EXCEPT ![Last(handlers).seat] = Last(handlers).new]
  /\ UNCHANGED <<active, dbvars, programs, udev, plugged, acl, changes, plugs, nested, failed>>

\* The timeout of a handler that never fires.
_child_timeout_Never(c) ==
  /\ FALSE
  /\ UNCHANGED vars

\* TIMEOUT_SECONDS are over: the program is killed.
_child_timeout(c) ==
  /\ programs[c].step # "none"
  /\ programs' = [programs EXCEPT ![c] = NoProgram]
  /\ failed' = TRUE
  /\ UNCHANGED <<active, dbvars, handlers, udev, plugged, acl, told, changes, plugs, nested>>

----------------------------------------------------------------------------
(* udev-acl.                                                               *)

\* uids_with_local_active_session, without the session own_id.
uids_with_local_active_session(own) == IF readable THEN UsersOf(database \ {own}) ELSE {}

\* consolekit_called: whom to take the access away from, and whom to give it to. Nothing
\* is done for a change between local sessions of one user.
Leaves(old, new) == /\ old \in Local
                    /\ new \in Local => UserOf[old] # UserOf[new]
Enters(old, new) == /\ new \in Local
                    /\ old \in Local => UserOf[old] # UserOf[new]

\* remove_uid: the device is taken from the user unless the database has another session.
remove_uid(p) == IF UserOf[p.old] \in p.list THEN acl ELSE acl \ {UserOf[p.old]}

\* A udev-acl that the manager runs: it reads the database, then takes, then gives.
consolekit_called(c) ==
  LET p == programs[c]
      To(step) == programs' = [programs EXCEPT ![c].step = step]
      Ends == programs' = [programs EXCEPT ![c] = NoProgram]
  IN /\ \/ /\ p.step = "read" /\ Leaves(p.old, p.new)
           /\ programs' = [programs EXCEPT ![c].step = "remove",
                             ![c].list = uids_with_local_active_session(p.old)]
           /\ UNCHANGED acl
        \/ /\ p.step = "read" /\ ~ Leaves(p.old, p.new)
           /\ To("add") /\ UNCHANGED acl
        \/ /\ p.step = "remove"
           /\ acl' = IF plugged THEN remove_uid(p) ELSE acl
           /\ To("add")
        \/ /\ p.step = "add"
           /\ acl' = IF plugged /\ Enters(p.old, p.new) THEN acl \cup {UserOf[p.new]} ELSE acl
           /\ Ends
     /\ UNCHANGED <<active, dbvars, handlers, udev, plugged, told, changes, plugs, nested,
                    failed>>

\* The device is plugged in, and udev runs udev-acl --action=add --device; it goes away
\* with its list.
Plug ==
  /\ ~ plugged /\ udev.step = "none" /\ plugs < MaxPlugs
  /\ plugged' = TRUE /\ plugs' = plugs + 1
  /\ udev' = [NoProgram EXCEPT !.step = "read"]
  /\ UNCHANGED <<active, dbvars, handlers, programs, acl, told, changes, nested, failed>>

Unplug ==
  /\ plugged
  /\ plugged' = FALSE /\ acl' = {}
  /\ UNCHANGED <<active, dbvars, handlers, programs, udev, told, changes, plugs, nested, failed>>

AddDevice ==
  /\ \/ /\ udev.step = "read"
        /\ udev' = [udev EXCEPT !.step = "add", !.list = uids_with_local_active_session(NoSession)]
        /\ UNCHANGED acl
     \/ /\ udev.step = "add"
        /\ udev' = NoProgram
        /\ acl' = IF plugged THEN acl \cup udev.list ELSE acl
  /\ UNCHANGED <<active, dbvars, handlers, programs, plugged, told, changes, plugs, nested, failed>>

----------------------------------------------------------------------------
Next ==
  \/ \E s \in Seats, new \in Sessions \cup {NoSession} : change_active_session(s, new)
  \/ ck_run_programs_returns
  \/ \E c \in Changes : _child_timeout(c) \/ consolekit_called(c)
  \/ Plug \/ Unplug \/ AddDevice

\* The main loop runs, and with it the timeouts; programs may hang.
Spec ==
  /\ Init /\ [][Next]_vars
  /\ WF_vars(ck_run_programs_returns)
  /\ \A c \in Changes : WF_vars(_child_timeout(c))

----------------------------------------------------------------------------
(* Properties.                                                             *)

\* Nothing is under way.
Quiet == handlers = <<>> /\ udev.step = "none" /\ \A c \in Changes : programs[c].step = "none"

\* When everything has settled, exactly the users with a local active session may open
\* the device, whatever order the device and the sessions came and went in, as long as
\* no change was handled on top of another and nothing failed.
AclFollowsActive ==
  Quiet /\ plugged /\ ~ nested /\ ~ failed => acl = UsersOf(Active)

\* A program that hangs does not hold the handlers up for ever.
HandlersEnd == (handlers # <<>>) ~> (handlers = <<>>)

\* "unlink the existing file since it contains outdated information": a database that can
\* be read shows only what is active.
DatabaseHonest == readable => database \subseteq Active

\* "Remove ACL for given uid from all matching devices when there is currently no local
\* active session."
AclNeedsActive == Quiet /\ ~ failed => acl \subseteq UsersOf(Active)

\* "The order of signal emission matters here."
LastSignalNamesActive == Quiet => \A s \in Seats : active[s] \in {NoSession, told[s]}
=============================================================================
