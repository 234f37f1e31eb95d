-------------------------- MODULE CkManager_proofs --------------------------
(***************************************************************************)
(* Proofs about the manager, for any leaders, clients, users, parameters   *)
(* and static seats, and whatever fails.                                   *)
(*                                                                         *)
(* A step either leaves sessions, seats, directories and database alone,   *)
(* or opens one session, or removes one (Kinds). Each property is          *)
(* inductive with what it takes for granted of the others: that a session  *)
(* being opened is not open yet (NothingWithoutLeader), that an unused     *)
(* seat id has no sessions (SeatInv), and that every session has a runtime *)
(* directory as long as none failed to be made (DirInv).                   *)
(*                                                                         *)
(* The second part is about the inhibit locks and the system actions that  *)
(* the manager builds on them, for any number of locks, clients and calls. *)
(* There the inductive invariants count the holders of each kind of lock   *)
(* (InhibitInv) and the one action under way (ActionInv).                  *)
(***************************************************************************)
EXTENDS CkManager, CkSystemAction, FiniteSetTheorems, TLAPS

Opens(c) ==
  /\ c \in jobs
  /\ sessions' = sessions \cup {c}
  /\ SetRuntimeDir(c)
  /\ AddToSeat(c)
  /\ ck_manager_dump(leaders, sessions', seats')
  /\ manager_update_system_idle_hint(sessions', idle_hint')

Removes(c) == c \in sessions /\ remove_session_for_cookie(c)

LeavesAlone == UNCHANGED <<sessions, seatvars, dirvars, database>>

LEMMA Kinds ==
  ASSUME [Next]_vars
  PROVE  LeavesAlone \/ \E c \in Cookies : Opens(c) \/ Removes(c)
  <1>1. CASE UNCHANGED vars
    BY <1>1 DEF vars, leadervars, LeavesAlone
  <1>2. CASE InhibitIdle
    BY <1>2 DEF InhibitIdle, leadervars, LeavesAlone
  <1>3. CASE \E o \in Clients : remove_sessions_for_connection(o)
    BY <1>3 DEF remove_sessions_for_connection, LeavesAlone
  <1>4. ASSUME NEW c \in Cookies, create_session_for_sender(c)
        PROVE  LeavesAlone
    BY <1>4 DEF create_session_for_sender, LeavesAlone
  <1>5. ASSUME NEW c \in Cookies, CollectFails(c)
        PROVE  LeavesAlone
    BY <1>5 DEF CollectFails, LeavesAlone
  <1>6. ASSUME NEW c \in Cookies, open_session_for_leader(c)
        PROVE  Opens(c)
    BY <1>6 DEF open_session_for_leader, Opens
  <1>7. ASSUME NEW c \in Cookies, dbus_close_session(c)
        PROVE  Removes(c)
    BY <1>7 DEF dbus_close_session, Removes
  <1>8. ASSUME NEW c \in Cookies, destroy_entity(c)
        PROVE  LeavesAlone \/ Removes(c)
    BY <1>8 DEF destroy_entity, Removes, LeavesAlone
  <1>9. ASSUME NEW c \in Cookies, session_set_idle_hint_internal(c)
        PROVE  LeavesAlone
    BY <1>9 DEF session_set_idle_hint_internal, leadervars, LeavesAlone
  <1> QED
    BY <1>1, <1>2, <1>3, <1>4, <1>5, <1>6, <1>7, <1>8, <1>9 DEF Next

-----------------------------------------------------------------------------
(* Leaders.                                                                *)

\* No session and no job is without a leader, whatever the order in which jobs end,
\* sessions are closed and clients disappear (create_session_for_sender,
\* destroy_entity).
THEOREM LeadersCorrect == Spec => []NothingWithoutLeader
  <1>1. Init => NothingWithoutLeader
    BY DEF Init, NothingWithoutLeader
  <1>2. ASSUME NothingWithoutLeader, [Next]_vars
        PROVE  NothingWithoutLeader'
    <2> USE NothingWithoutLeader DEF NothingWithoutLeader
    <2>1. CASE UNCHANGED vars
      BY <2>1 DEF vars, leadervars
    <2>2. CASE InhibitIdle
      BY <2>2 DEF InhibitIdle, leadervars
    <2>3. ASSUME NEW o \in Clients, remove_sessions_for_connection(o)
          PROVE  NothingWithoutLeader'
      BY <2>3 DEF remove_sessions_for_connection
    <2>4. ASSUME NEW c \in Cookies, create_session_for_sender(c)
          PROVE  NothingWithoutLeader'
      BY <2>4 DEF create_session_for_sender
    <2>5. ASSUME NEW c \in Cookies, CollectFails(c)
          PROVE  NothingWithoutLeader'
      BY <2>5 DEF CollectFails
    <2>6. ASSUME NEW c \in Cookies, open_session_for_leader(c)
          PROVE  NothingWithoutLeader'
      BY <2>6 DEF open_session_for_leader
    <2>7. ASSUME NEW c \in Cookies, dbus_close_session(c)
          PROVE  NothingWithoutLeader'
      BY <2>7 DEF dbus_close_session, remove_session_for_cookie
    <2>8. ASSUME NEW c \in Cookies, destroy_entity(c)
          PROVE  NothingWithoutLeader'
      BY <2>8 DEF destroy_entity, remove_session_for_cookie
    <2>9. ASSUME NEW c \in Cookies, session_set_idle_hint_internal(c)
          PROVE  NothingWithoutLeader'
      BY <2>9 DEF session_set_idle_hint_internal, leadervars
    <2> QED
      BY <1>2, <2>1, <2>2, <2>3, <2>4, <2>5, <2>6, <2>7, <2>8, <2>9 DEF Next
  <1> QED
    BY <1>1, <1>2, PTL DEF Spec

-----------------------------------------------------------------------------
(* Seats.                                                                  *)

\* An id that no seat has has no sessions either, and static seats stay.
SeatInv ==
  /\ seat_sessions \in [SeatIds -> SUBSET Cookies]
  /\ seat_id \in [Cookies -> SeatIds]
  /\ sessions \subseteq Cookies
  /\ StaticSeats \subseteq seats /\ seats \subseteq SeatIds
  /\ \A i \in SeatIds \ seats : seat_sessions[i] = {}
  /\ SeatsAgree

LEMMA SeatInit == Init => SeatInv
  BY ManagerAssumption DEF Init, SeatInv, SeatsAgree, SeatIds, ManagerAssumption

LEMMA SeatOpens ==
  ASSUME SeatInv, NEW c \in Cookies, c \notin sessions, Opens(c)
  PROVE  SeatInv'
  <1>1. PICK i \in SeatIds :
          /\ \/ find_seat_for_session(c) /\ i = 0 /\ UNCHANGED <<seats, seat_serial>>
             \/ ~ find_seat_for_session(c) /\ generate_seat_id(i) /\ seats' = seats \cup {i}
          /\ seat_sessions' = [seat_sessions EXCEPT ![i] = @ \cup {c}]
          /\ seat_id' = [seat_id EXCEPT ![c] = i]
    BY DEF Opens, AddToSeat
  <1>2. sessions' = sessions \cup {c}
    BY DEF Opens
  <1>3. /\ seats' = seats \cup {i}
        /\ i \in seats => i = 0
    BY <1>1 DEF find_seat_for_session, generate_seat_id
  <1>4. /\ seat_sessions' \in [SeatIds -> SUBSET Cookies]
        /\ seat_id' \in [Cookies -> SeatIds]
        /\ sessions' \subseteq Cookies
        /\ StaticSeats \subseteq seats' /\ seats' \subseteq SeatIds
        /\ \A j \in SeatIds \ seats' : seat_sessions'[j] = {}
    BY <1>1, <1>2, <1>3 DEF SeatInv
  <1>5. ASSUME 0 \in StaticSeats
        PROVE  /\ \A j \in seats' : seat_sessions'[j] = {d \in sessions' : seat_id'[d] = j}
               /\ \A d \in sessions' : seat_id'[d] \in seats'
               /\ \A j \in seats' \ StaticSeats : \E d \in sessions' : seat_sessions'[j] = {d}
    <2>1. /\ \A j \in seats : seat_sessions[j] = {d \in sessions : seat_id[d] = j}
          /\ \A d \in sessions : seat_id[d] \in seats
          /\ \A j \in seats \ StaticSeats : \E d \in sessions : seat_sessions[j] = {d}
      BY <1>5 DEF SeatInv, SeatsAgree
    <2>2. /\ seat_id'[c] = i
          /\ \A d \in sessions : d # c /\ seat_id'[d] = seat_id[d]
          /\ \A j \in SeatIds : j # i => seat_sessions'[j] = seat_sessions[j]
          /\ seat_sessions'[i] = seat_sessions[i] \cup {c}
      BY <1>1 DEF SeatInv
    <2>3. i \notin seats => seat_sessions[i] = {} /\ {d \in sessions : seat_id[d] = i} = {}
      BY <2>1 DEF SeatInv
    <2>4. seat_sessions[i] = {d \in sessions : seat_id[d] = i}
      BY <2>1, <2>3
    <2>5. \A j \in seats' : seat_sessions'[j] = {d \in sessions' : seat_id'[d] = j}
      <3> SUFFICES ASSUME NEW j \in seats'
                   PROVE  seat_sessions'[j] = {d \in sessions' : seat_id'[d] = j}
        OBVIOUS
      <3>1. CASE j = i
        BY <3>1, <2>2, <2>4, <1>2
      <3>2. CASE j # i
        <4>1. j \in seats /\ j \in SeatIds
          BY <3>2, <1>3 DEF SeatInv
        <4> QED
          BY <4>1, <3>2, <2>1, <2>2, <1>2
      <3> QED
        BY <3>1, <3>2
    <2>6. \A d \in sessions' : seat_id'[d] \in seats'
      BY <2>1, <2>2, <1>2, <1>3
    <2>7. \A j \in seats' \ StaticSeats : \E d \in sessions' : seat_sessions'[j] = {d}
      <3> SUFFICES ASSUME NEW j \in seats' \ StaticSeats
                   PROVE  \E d \in sessions' : seat_sessions'[j] = {d}
        OBVIOUS
      <3>1. CASE j = i
        <4>1. i \notin seats
          BY <3>1, <1>3, <1>5
        <4> QED
          BY <4>1, <3>1, <2>2, <2>3, <1>2
      <3>2. CASE j # i
        <4>1. j \in seats /\ j \in SeatIds
          BY <3>2, <1>3 DEF SeatInv
        <4> QED
          BY <4>1, <3>2, <2>1, <2>2, <1>2
      <3> QED
        BY <3>1, <3>2
    <2> QED
      BY <2>5, <2>6, <2>7
  <1> QED
    BY <1>4, <1>5 DEF SeatInv, SeatsAgree

LEMMA SeatRemoves ==
  ASSUME SeatInv, NEW c \in Cookies, Removes(c)
  PROVE  SeatInv'
  <1> DEFINE i == seat_id[c]
  <1>0. i \in SeatIds /\ c \in sessions
    BY DEF SeatInv, Removes
  <1>1. /\ seats' = IF i \notin StaticSeats THEN seats \ {i} ELSE seats
        /\ seat_sessions' = [seat_sessions EXCEPT ![i] =
                               IF i \notin StaticSeats THEN {} ELSE @ \ {c}]
        /\ seat_id' = seat_id
        /\ sessions' = sessions \ {c}
    BY DEF Removes, remove_session_for_cookie, RemoveFromSeat
  <1> HIDE DEF i
  <1>2. /\ \A j \in SeatIds : j # i => seat_sessions'[j] = seat_sessions[j]
        /\ i \notin StaticSeats => seat_sessions'[i] = {}
        /\ i \in StaticSeats => seat_sessions'[i] = seat_sessions[i] \ {c}
    BY <1>0, <1>1 DEF SeatInv
  <1>3. /\ seat_sessions' \in [SeatIds -> SUBSET Cookies]
        /\ seat_id' \in [Cookies -> SeatIds]
        /\ sessions' \subseteq Cookies
        /\ StaticSeats \subseteq seats' /\ seats' \subseteq SeatIds
    BY <1>0, <1>1 DEF SeatInv
  <1>4. \A j \in SeatIds \ seats' : seat_sessions'[j] = {}
    BY <1>0, <1>1, <1>2 DEF SeatInv
  <1>5. ASSUME 0 \in StaticSeats
        PROVE  /\ \A j \in seats' : seat_sessions'[j] = {d \in sessions' : seat_id'[d] = j}
               /\ \A d \in sessions' : seat_id'[d] \in seats'
               /\ \A j \in seats' \ StaticSeats : \E d \in sessions' : seat_sessions'[j] = {d}
    <2>1. /\ \A j \in seats : seat_sessions[j] = {d \in sessions : seat_id[d] = j}
          /\ \A d \in sessions : seat_id[d] \in seats
          /\ \A j \in seats \ StaticSeats : \E d \in sessions : seat_sessions[j] = {d}
      BY <1>5 DEF SeatInv, SeatsAgree
    <2>2. i \in seats /\ seat_sessions[i] = {d \in sessions : seat_id[d] = i}
      BY <2>1, <1>0 DEF i
    <2>3. i \notin StaticSeats => \A d \in sessions : seat_id[d] = i => d = c
      <3>1. c \in seat_sessions[i]
        BY <2>2, <1>0 DEF i
      <3> QED
        BY <3>1, <2>1, <2>2
    <2>4. \A d \in sessions' : seat_id'[d] \in seats'
      BY <2>1, <2>3, <1>1
    <2>5. \A j \in seats' : seat_sessions'[j] = {d \in sessions' : seat_id'[d] = j}
      <3> SUFFICES ASSUME NEW j \in seats'
                   PROVE  seat_sessions'[j] = {d \in sessions' : seat_id'[d] = j}
        OBVIOUS
      <3>0. j \in seats /\ j \in SeatIds
        BY <1>1, <1>3
      <3>1. CASE j = i
        <4>1. i \in StaticSeats
          BY <3>1, <1>1
        <4> QED
          BY <4>1, <3>1, <2>2, <1>1, <1>2
      <3>2. CASE j # i
        BY <3>0, <3>2, <2>1, <1>1, <1>2 DEF i
      <3> QED
        BY <3>1, <3>2
    <2>6. \A j \in seats' \ StaticSeats : \E d \in sessions' : seat_sessions'[j] = {d}
      <3> SUFFICES ASSUME NEW j \in seats' \ StaticSeats
                   PROVE  \E d \in sessions' : seat_sessions'[j] = {d}
        OBVIOUS
      <3>0. j # i /\ j \in seats /\ j \in SeatIds
        BY <1>1, <1>3
      <3>1. PICK d \in sessions : seat_sessions[j] = {d}
        BY <3>0, <2>1
      <3>2. seat_id[d] = j
        BY <3>0, <3>1, <2>1
      <3>3. d # c
        BY <3>0, <3>2 DEF i
      <3> QED
        BY <3>0, <3>1, <3>3, <1>1, <1>2
    <2> QED
      BY <2>4, <2>5, <2>6
  <1> QED
    BY <1>3, <1>4, <1>5 DEF SeatInv, SeatsAgree

\* The seats' lists and the sessions' seat ids never disagree, provided a seat file
\* configures seat 0 (AddToSeat, RemoveFromSeat).
THEOREM SeatsCorrect == Spec => []SeatsAgree
  <1>1. Init => SeatInv
    BY SeatInit
  <1>2. ASSUME SeatInv, NothingWithoutLeader, [Next]_vars
        PROVE  SeatInv'
    <2>1. CASE LeavesAlone
      BY <2>1, <1>2 DEF LeavesAlone, seatvars, SeatInv, SeatsAgree
    <2>2. ASSUME NEW c \in Cookies, Opens(c)
          PROVE  SeatInv'
      <3>1. c \notin sessions
        BY <2>2, <1>2 DEF Opens, NothingWithoutLeader
      <3> QED
        BY <3>1, <2>2, <1>2, SeatOpens
    <2>3. ASSUME NEW c \in Cookies, Removes(c)
          PROVE  SeatInv'
      BY <2>3, <1>2, SeatRemoves
    <2> QED
      BY <1>2, <2>1, <2>2, <2>3, Kinds
  <1>3. SeatInv => SeatsAgree
    BY DEF SeatInv
  <1> QED
    BY <1>1, <1>2, <1>3, LeadersCorrect, PTL DEF Spec

-----------------------------------------------------------------------------
(* Runtime directories.                                                    *)

\* As long as no directory fails to be made, every session has one.
DirInv ==
  /\ NoStrayRuntimeDir
  /\ ~ GenerateMayFail => runtime_dir = sessions /\ sessions \subseteq files

LEMMA DirOpens ==
  ASSUME DirInv, NEW c \in Cookies, Opens(c)
  PROVE  DirInv'
  <1>1. sessions' = sessions \cup {c} /\ SetRuntimeDir(c)
    BY DEF Opens
  <1>2. rundirs' \subseteq rundirs \cup {User[c]}
    BY <1>1 DEF SetRuntimeDir, ck_generate_runtime_dir_for_user
  <1>3. NoStrayRuntimeDir'
    BY <1>1, <1>2 DEF DirInv, NoStrayRuntimeDir, OfUser
  <1>4. ASSUME ~ GenerateMayFail
        PROVE  runtime_dir' = sessions' /\ sessions' \subseteq files'
    <2>1. runtime_dir = sessions /\ sessions \subseteq files
      BY <1>4 DEF DirInv
    <2>2. PICK found \in get_runtime_dir_for_user(sessions, User[c]) :
            \/ /\ found
               /\ runtime_dir' = runtime_dir \cup {c}
               /\ files' = files \cup {c}
               /\ UNCHANGED rundirs
            \/ ~ found /\ ck_generate_runtime_dir_for_user(c)
      BY <1>1 DEF SetRuntimeDir
    <2>3. CASE found
      BY <2>1, <2>2, <2>3, <1>1
    <2>4. CASE ~ found
      <3>1. OfUser(sessions, User[c]) = {}
        BY <2>1, <2>2, <2>4 DEF get_runtime_dir_for_user, OfUser
      <3>2. /\ runtime_dir' = runtime_dir \cup {c}
            /\ files' = (files \ OfUser(files, User[c])) \cup {c}
        BY <2>2, <2>4, <1>4 DEF ck_generate_runtime_dir_for_user
      <3> QED
        BY <3>1, <3>2, <2>1, <1>1 DEF OfUser
    <2> QED
      BY <2>3, <2>4
  <1> QED
    BY <1>3, <1>4 DEF DirInv

LEMMA DirRemoves ==
  ASSUME DirInv, NEW c \in Cookies, Removes(c)
  PROVE  DirInv'
  <1>1. /\ c \in sessions /\ sessions' = sessions \ {c}
        /\ runtime_dir' = runtime_dir \ {c}
    BY DEF Removes, remove_session_for_cookie, RemoveRuntimeDir
  <1>2. PICK found \in get_runtime_dir_for_user(sessions \ {c}, User[c]) :
          /\ files' = (IF found THEN files ELSE files \ OfUser(files, User[c])) \ {c}
          /\ rundirs' = IF found THEN rundirs ELSE rundirs \ {User[c]}
    BY DEF Removes, remove_session_for_cookie, RemoveRuntimeDir
  <1>3. NoStrayRuntimeDir'
    <2>1. CASE found
      <3>1. OfUser(sessions \ {c}, User[c]) # {}
        BY <1>2, <2>1 DEF get_runtime_dir_for_user
      <3>2. \A u \in rundirs : OfUser(sessions \ {c}, u) # {}
        BY <3>1 DEF DirInv, NoStrayRuntimeDir, OfUser
      <3> QED
        BY <3>2, <2>1, <1>1, <1>2 DEF NoStrayRuntimeDir, OfUser
    <2>2. CASE ~ found
      <3>1. \A u \in rundirs : u # User[c] => OfUser(sessions \ {c}, u) # {}
        BY DEF DirInv, NoStrayRuntimeDir, OfUser
      <3> QED
        BY <3>1, <2>2, <1>1, <1>2 DEF NoStrayRuntimeDir, OfUser
    <2> QED
      BY <2>1, <2>2
  <1>4. ASSUME ~ GenerateMayFail
        PROVE  runtime_dir' = sessions' /\ sessions' \subseteq files'
    <2>1. runtime_dir = sessions /\ sessions \subseteq files
      BY <1>4 DEF DirInv
    <2>2. CASE found
      BY <2>1, <2>2, <1>1, <1>2
    <2>3. CASE ~ found
      <3>1. OfUser(sessions \ {c}, User[c]) = {}
        BY <2>1, <2>3, <1>2 DEF get_runtime_dir_for_user, OfUser
      <3> QED
        BY <3>1, <2>1, <2>3, <1>1, <1>2 DEF OfUser
    <2> QED
      BY <2>2, <2>3
  <1> QED
    BY <1>3, <1>4 DEF DirInv

\* A runtime directory goes with the last session of its user, whatever failed before;
\* if no directory ever fails to be made, every open session has its files in one
\* (SetRuntimeDir, RemoveRuntimeDir).
THEOREM RuntimeDirsCorrect ==
  Spec => [](/\ NoStrayRuntimeDir
             /\ ~ GenerateMayFail => sessions \subseteq runtime_dir \cap files)
  <1>1. Init => DirInv
    BY DEF Init, DirInv, NoStrayRuntimeDir
  <1>2. ASSUME DirInv, [Next]_vars
        PROVE  DirInv'
    <2>1. CASE LeavesAlone
      BY <2>1, <1>2 DEF LeavesAlone, dirvars, DirInv, NoStrayRuntimeDir, OfUser
    <2>2. ASSUME NEW c \in Cookies, Opens(c)
          PROVE  DirInv'
      BY <2>2, <1>2, DirOpens
    <2>3. ASSUME NEW c \in Cookies, Removes(c)
          PROVE  DirInv'
      BY <2>3, <1>2, DirRemoves
    <2> QED
      BY <1>2, <2>1, <2>2, <2>3, Kinds
  <1>3. DirInv => /\ NoStrayRuntimeDir
                  /\ ~ GenerateMayFail => sessions \subseteq runtime_dir \cap files
    BY DEF DirInv
  <1> QED
    BY <1>1, <1>2, <1>3, PTL DEF Spec

\* No login and no logout takes away the directory of a session whose user has one in
\* every session, whatever fails for others (get_runtime_dir_for_user).
THEOREM RuntimeDirsStay == Spec => RuntimeDirKept
  <1> DEFINE Step == \A c \in sessions \cap sessions' :
                       c \in files /\ OfUser(sessions, User[c]) \subseteq runtime_dir
                         => c \in files'
  <1>1. [Next]_vars => [Step]_vars
    <2> SUFFICES ASSUME [Next]_vars, NEW d \in sessions, d \in sessions', d \in files,
                        OfUser(sessions, User[d]) \subseteq runtime_dir
                 PROVE  d \in files'
      OBVIOUS
    <2>1. CASE LeavesAlone
      BY <2>1 DEF LeavesAlone, dirvars
    <2>2. ASSUME NEW c \in Cookies, Opens(c)
          PROVE  d \in files'
      <3>1. CASE User[c] = User[d]
        <4>1. \A found \in get_runtime_dir_for_user(sessions, User[c]) : found
          BY <3>1 DEF get_runtime_dir_for_user, OfUser
        <4> QED
          BY <2>2, <4>1 DEF Opens, SetRuntimeDir
      <3>2. CASE User[c] # User[d]
        BY <2>2, <3>2 DEF Opens, SetRuntimeDir, ck_generate_runtime_dir_for_user, OfUser
      <3> QED
        BY <3>1, <3>2
    <2>3. ASSUME NEW c \in Cookies, Removes(c)
          PROVE  d \in files'
      <3>0. d # c /\ d \in sessions \ {c}
        BY <2>3 DEF Removes, remove_session_for_cookie
      <3>1. PICK found \in get_runtime_dir_for_user(sessions \ {c}, User[c]) :
              files' = (IF found THEN files ELSE files \ OfUser(files, User[c])) \ {c}
        BY <2>3 DEF Removes, remove_session_for_cookie, RemoveRuntimeDir
      <3>2. CASE User[c] = User[d]
        <4>1. OfUser(sessions \ {c}, User[c]) # {}
          BY <3>0, <3>2 DEF OfUser
        <4>2. OfUser(sessions \ {c}, User[c]) \subseteq runtime_dir
          BY <3>2 DEF OfUser
        <4>3. found
          BY <3>1, <4>1, <4>2 DEF get_runtime_dir_for_user
        <4> QED
          BY <3>0, <3>1, <4>3
      <3>3. CASE User[c] # User[d]
        BY <3>0, <3>1, <3>3 DEF OfUser
      <3> QED
        BY <3>2, <3>3
    <2> QED
      BY <2>1, <2>2, <2>3, Kinds
  <1> QED
    BY <1>1, PTL DEF Spec, RuntimeDirKept, OfUser

-----------------------------------------------------------------------------
(* The database.                                                           *)

\* The database file is current or gone after every handler (ck_manager_dump).
THEOREM DatabaseCorrect == Spec => []DatabaseCurrent
  <1>1. Init => DatabaseCurrent
    BY DEF Init, DatabaseCurrent, NoDatabase
  <1>2. ASSUME DatabaseCurrent, [Next]_vars
        PROVE  DatabaseCurrent'
    <2>1. CASE LeavesAlone
      BY <2>1, <1>2 DEF LeavesAlone, seatvars, DatabaseCurrent
    <2>2. ASSUME NEW c \in Cookies, Opens(c)
          PROVE  DatabaseCurrent'
      BY <2>2 DEF Opens, ck_manager_dump, DatabaseCurrent, NoDatabase
    <2>3. ASSUME NEW c \in Cookies, Removes(c)
          PROVE  DatabaseCurrent'
      BY <2>3 DEF Removes, remove_session_for_cookie, ck_manager_dump, DatabaseCurrent,
                  NoDatabase
    <2> QED
      BY <1>2, <2>1, <2>2, <2>3, Kinds
  <1> QED
    BY <1>1, <1>2, PTL DEF Spec

-----------------------------------------------------------------------------
(* The system's idle hint.                                                 *)

\* Every step computes the system's hint anew from all sessions, or leaves it and the
\* hints of the sessions alone.
LEMMA IdleKinds ==
  ASSUME [Next]_vars
  PROVE  \/ UNCHANGED <<sessions, idle_hint, system_idle_hint>>
         \/ manager_update_system_idle_hint(sessions', idle_hint')
  <1>1. CASE UNCHANGED vars
    BY <1>1 DEF vars, leadervars, idlevars
  <1>2. CASE InhibitIdle
    BY <1>2 DEF InhibitIdle, leadervars
  <1>3. CASE \E o \in Clients : remove_sessions_for_connection(o)
    BY <1>3 DEF remove_sessions_for_connection, idlevars
  <1>4. ASSUME NEW c \in Cookies, create_session_for_sender(c) \/ CollectFails(c)
        PROVE  UNCHANGED <<sessions, idle_hint, system_idle_hint>>
    BY <1>4 DEF create_session_for_sender, CollectFails, idlevars
  <1>5. ASSUME NEW c \in Cookies, open_session_for_leader(c)
        PROVE  manager_update_system_idle_hint(sessions', idle_hint')
    BY <1>5 DEF open_session_for_leader
  <1>6. ASSUME NEW c \in Cookies, remove_session_for_cookie(c)
        PROVE  manager_update_system_idle_hint(sessions', idle_hint')
    BY <1>6 DEF remove_session_for_cookie
  <1>7. ASSUME NEW c \in Cookies, dbus_close_session(c) \/ destroy_entity(c)
        PROVE  \/ UNCHANGED <<sessions, idle_hint, system_idle_hint>>
               \/ remove_session_for_cookie(c)
    BY <1>7 DEF dbus_close_session, destroy_entity, idlevars
  <1>8. ASSUME NEW c \in Cookies, session_set_idle_hint_internal(c)
        PROVE  manager_update_system_idle_hint(sessions', idle_hint')
    BY <1>8 DEF session_set_idle_hint_internal, leadervars
  <1> QED
    BY <1>1, <1>2, <1>3, <1>4, <1>5, <1>6, <1>7, <1>8 DEF Next

\* The system is reported idle only if every session is, whatever sessions are opened
\* and closed and however their hints change (manager_update_system_idle_hint).
THEOREM IdleCorrect == Spec => []IdleMeansAllIdle
  <1>1. Init => IdleMeansAllIdle
    BY DEF Init, IdleMeansAllIdle
  <1>2. ASSUME IdleMeansAllIdle, [Next]_vars
        PROVE  IdleMeansAllIdle'
    <2>1. CASE UNCHANGED <<sessions, idle_hint, system_idle_hint>>
      BY <2>1, <1>2 DEF IdleMeansAllIdle
    <2>2. CASE manager_update_system_idle_hint(sessions', idle_hint')
      BY <2>2, Zenon DEF manager_update_system_idle_hint, IdleMeansAllIdle
    <2> QED
      BY <1>2, <2>1, <2>2, IdleKinds
  <1> QED
    BY <1>1, <1>2, PTL DEF Spec

-----------------------------------------------------------------------------
(* Types.                                                                  *)

\* Serials wrap to a serial.
LEMMA SerialIsId ==
  ASSUME seat_serial \in SeatIds, NEW n \in Nat
  PROVE  NextSerial(n) \in SeatIds
  BY ManagerAssumption DEF NextSerial, SeatIds

\* What ck_manager_dump leaves behind.
LEMMA DumpIsDatabase ==
  ASSUME NEW L \in SUBSET Cookies, NEW S \in SUBSET Cookies, NEW seated \in SUBSET SeatIds,
         ck_manager_dump(L, S, seated)
  PROVE  database' \in Database
  <1>1. NoDatabase \in Database
    BY DEF Database, NoDatabase
  <1>2. [leaders |-> L, sessions |-> S, seats |-> seated, exists |-> TRUE] \in Database
    BY DEF Database
  <1> QED BY <1>1, <1>2, Zenon DEF ck_manager_dump

\* Opening a session keeps the types of what it changes.
LEMMA OpensTypes ==
  ASSUME ManagerTypeOK, NEW c \in Cookies, open_session_for_leader(c)
  PROVE  ManagerTypeOK'
  <1>1. /\ jobs' = jobs \ {c} /\ sessions' = sessions \cup {c}
        /\ SetRuntimeDir(c) /\ AddToSeat(c) /\ ck_manager_dump(leaders, sessions', seats')
        /\ is_local' = IF VerifiedLocal(c) THEN is_local \cup {c} ELSE is_local \ {c}
        /\ idle_hint' = idle_hint \ {c}
        /\ manager_update_system_idle_hint(sessions', idle_hint')
        /\ UNCHANGED <<leaders, closing, idle_blocked>>
    BY DEF open_session_for_leader
  <1>2. User[c] \in Users
    BY ManagerAssumption
  <1>3. runtime_dir' \subseteq Cookies /\ rundirs' \subseteq Users /\ files' \subseteq Cookies
    BY <1>1, <1>2 DEF ManagerTypeOK, SetRuntimeDir, ck_generate_runtime_dir_for_user
  <1>4. PICK i \in SeatIds :
          /\ \/ UNCHANGED <<seats, seat_serial>>
             \/ generate_seat_id(i) /\ seats' = seats \cup {i}
          /\ seat_sessions' = [seat_sessions EXCEPT ![i] = @ \cup {c}]
          /\ seat_id' = [seat_id EXCEPT ![c] = i]
    BY <1>1 DEF AddToSeat
  <1>5. seat_serial' \in SeatIds
    <2>1. CASE UNCHANGED seat_serial
      BY <2>1 DEF ManagerTypeOK
    <2>2. CASE generate_seat_id(i)
      <3>1. PICK n \in SeatIds : seat_serial' = NextSerial(n + 1)
        BY <2>2 DEF generate_seat_id
      <3>2. n + 1 \in Nat
        BY DEF SeatIds
      <3> QED BY <3>1, <3>2, SerialIsId DEF ManagerTypeOK
    <2> QED BY <1>4, <2>1, <2>2
  <1>6. /\ seats' \subseteq SeatIds
        /\ seat_sessions' \in [SeatIds -> SUBSET Cookies]
        /\ seat_id' \in [Cookies -> SeatIds]
    BY <1>4 DEF ManagerTypeOK
  <1>7. database' \in Database
    BY <1>1, <1>6, DumpIsDatabase DEF ManagerTypeOK
  <1>8. system_idle_hint' \in BOOLEAN
    BY <1>1 DEF manager_update_system_idle_hint
  <1> QED BY <1>1, <1>3, <1>5, <1>6, <1>7, <1>8 DEF ManagerTypeOK

\* So does removing one.
LEMMA RemovesTypes ==
  ASSUME ManagerTypeOK, NEW c \in Cookies, remove_session_for_cookie(c),
         leaders' \subseteq Cookies, jobs' \subseteq Cookies, closing' \subseteq Cookies
  PROVE  ManagerTypeOK'
  <1>1. /\ sessions' = sessions \ {c} /\ RemoveFromSeat(c) /\ is_local' = is_local \ {c}
        /\ ck_manager_dump(leaders, sessions', seats')
        /\ idle_hint' = idle_hint \ {c}
        /\ manager_update_system_idle_hint(sessions', idle_hint')
        /\ RemoveRuntimeDir(c) /\ UNCHANGED idle_blocked
    BY DEF remove_session_for_cookie
  <1>2. runtime_dir' \subseteq Cookies /\ rundirs' \subseteq Users /\ files' \subseteq Cookies
    BY <1>1 DEF ManagerTypeOK, RemoveRuntimeDir
  <1>3. /\ seats' \subseteq SeatIds /\ seat_serial' = seat_serial /\ seat_id' = seat_id
        /\ seat_sessions' \in [SeatIds -> SUBSET Cookies]
    BY <1>1 DEF ManagerTypeOK, RemoveFromSeat
  <1>4. database' \in Database
    BY <1>1, <1>3, DumpIsDatabase DEF ManagerTypeOK
  <1>5. system_idle_hint' \in BOOLEAN
    BY <1>1 DEF manager_update_system_idle_hint
  <1> QED BY <1>1, <1>2, <1>3, <1>4, <1>5 DEF ManagerTypeOK

\* The manager's state keeps its type: seat serials stay in range however they wrap, and the
\* file is a database or gone.
THEOREM ManagerTypeCorrect == Spec => []ManagerTypeOK
  <1>1. Init => ManagerTypeOK
    <2> SUFFICES ASSUME Init PROVE ManagerTypeOK
      OBVIOUS
    <2>1. database \in Database
      BY ManagerAssumption DEF Init, Database, NoDatabase
    <2>2. 0 \in SeatIds /\ SeatFiles \in SeatIds /\ StaticSeats \subseteq SeatIds
      BY ManagerAssumption DEF SeatIds
    <2> QED BY <2>1, <2>2 DEF Init, ManagerTypeOK
  <1>2. ASSUME ManagerTypeOK, [Next]_vars
        PROVE  ManagerTypeOK'
    <2>1. CASE UNCHANGED vars
      BY <1>2, <2>1 DEF ManagerTypeOK, vars, leadervars, seatvars, dirvars, idlevars
    <2>2. CASE InhibitIdle
      BY <1>2, <2>2 DEF InhibitIdle, ManagerTypeOK, leadervars, seatvars, dirvars
    <2>3. ASSUME NEW o \in Clients, remove_sessions_for_connection(o)
          PROVE  ManagerTypeOK'
      BY <1>2, <2>3 DEF remove_sessions_for_connection, ManagerTypeOK, seatvars, dirvars, idlevars
    <2>4. ASSUME NEW c \in Cookies, create_session_for_sender(c) \/ CollectFails(c)
          PROVE  ManagerTypeOK'
      BY <1>2, <2>4 DEF create_session_for_sender, CollectFails, ManagerTypeOK, seatvars, dirvars,
                        idlevars
    <2>5. ASSUME NEW c \in Cookies, dbus_close_session(c)
          PROVE  ManagerTypeOK'
      BY <1>2, <2>5, RemovesTypes DEF dbus_close_session, ManagerTypeOK
    <2>6. ASSUME NEW c \in Cookies, destroy_entity(c)
          PROVE  ManagerTypeOK'
      <3>1. /\ leaders' \subseteq Cookies /\ jobs' \subseteq Cookies /\ closing' \subseteq Cookies
        BY <1>2, <2>6 DEF destroy_entity, ManagerTypeOK
      <3>2. CASE remove_session_for_cookie(c)
        BY <1>2, <3>1, <3>2, RemovesTypes
      <3>3. CASE UNCHANGED <<sessions, seatvars, dirvars, idlevars, database>>
        BY <1>2, <3>1, <3>3 DEF ManagerTypeOK, seatvars, dirvars, idlevars
      <3> QED BY <2>6, <3>2, <3>3 DEF destroy_entity
    <2>7. ASSUME NEW c \in Cookies, session_set_idle_hint_internal(c)
          PROVE  ManagerTypeOK'
      <3>1. /\ idle_hint' \subseteq Cookies /\ system_idle_hint' \in BOOLEAN
            /\ UNCHANGED <<leadervars, seatvars, dirvars, idle_blocked, database>>
        BY <1>2, <2>7 DEF session_set_idle_hint_internal, ManagerTypeOK,
                          manager_update_system_idle_hint
      <3> QED BY <1>2, <3>1 DEF ManagerTypeOK, leadervars, seatvars, dirvars
    <2> QED
      BY <1>2, <2>1, <2>2, <2>3, <2>4, <2>5, <2>6, <2>7, OpensTypes DEF Next
  <1> QED
    BY <1>1, <1>2, PTL DEF Spec
----------------------------------------------------------------------------
(* The inhibit locks, and the system actions that they block or delay.     *)

LEMMA ModesAreTwo == "block" \in Modes /\ "delay" \in Modes
  BY DEF Modes

LEMMA OpenFinite ==
  ASSUME InhibitTypeOK, NEW m, NEW e
  PROVE  /\ IsFiniteSet(open) /\ IsFiniteSet(Holders(m, e))
         /\ Cardinality(Holders(m, e)) \in Nat
  <1>1. IsFiniteSet(Locks) /\ open \subseteq Locks /\ Holders(m, e) \subseteq Locks
    BY InhibitAssumption DEF InhibitAssumption, InhibitTypeOK, Holders
  <1> QED
    BY <1>1, FS_Subset, FS_CardinalityType

-----------------------------------------------------------------------------
(* The counters and the locks that are held.                               *)

CountInv == InhibitTypeOK /\ HeldLocksHonoured

\* A new lock adds itself to the holders of the events it asks for.
LEMMA NewHolder ==
  ASSUME InhibitTypeOK, NEW l \in Locks, NEW W, NEW m,
         l \notin open, open' = open \cup {l}, what'[l] = W, mode'[l] = m,
         \A k \in open : what'[k] = what[k] /\ mode'[k] = mode[k],
         NEW n \in Modes, NEW e \in Events
  PROVE  Cardinality(Holders(n, e)') =
           IF n = m /\ e \in W THEN Cardinality(Holders(n, e)) + 1
                               ELSE Cardinality(Holders(n, e))
  <1>3. CASE n = m /\ e \in W
    <2>1. Holders(n, e)' = Holders(n, e) \cup {l} /\ l \notin Holders(n, e)
      BY <1>3 DEF Holders
    <2>2. IsFiniteSet(Holders(n, e))
      BY OpenFinite
    <2>3. Cardinality(Holders(n, e) \cup {l}) = Cardinality(Holders(n, e)) + 1
      BY <2>1, <2>2, FS_AddElement
    <2> QED
      BY <1>3, <2>1, <2>3
  <1>4. CASE ~ (n = m /\ e \in W)
    <2>1. Holders(n, e)' = Holders(n, e)
      BY <1>4 DEF Holders
    <2> QED
      BY <1>4, <2>1
  <1> QED
    BY <1>3, <1>4

\* A lock that is closed stops holding the events it held, and only those.
LEMMA LostHolder ==
  ASSUME InhibitTypeOK, NEW l \in open, open' = open \ {l},
         what' = [what EXCEPT ![l] = {}], mode' = mode,
         NEW n \in Modes, NEW e \in Events
  PROVE  Cardinality(Holders(n, e)') =
           IF n = mode[l] /\ e \in what[l] THEN Cardinality(Holders(n, e)) - 1
                                           ELSE Cardinality(Holders(n, e))
  <1>1. \A k \in open' : what'[k] = what[k] /\ mode'[k] = mode[k]
    BY DEF InhibitTypeOK
  <1>2. CASE n = mode[l] /\ e \in what[l]
    <2>1. Holders(n, e)' = Holders(n, e) \ {l} /\ l \in Holders(n, e)
      BY <1>1, <1>2 DEF Holders
    <2>2. IsFiniteSet(Holders(n, e))
      BY OpenFinite
    <2>3. Cardinality(Holders(n, e) \ {l}) = Cardinality(Holders(n, e)) - 1
      BY <2>1, <2>2, FS_RemoveElement
    <2> QED
      BY <1>2, <2>1, <2>3
  <1>3. CASE ~ (n = mode[l] /\ e \in what[l])
    <2>1. Holders(n, e)' = Holders(n, e)
      BY <1>1, <1>3 DEF Holders
    <2> QED
      BY <1>3, <2>1
  <1> QED
    BY <1>2, <1>3

\* A held lock is counted, so the counters of its events are not zero.
LEMMA HeldIsCounted ==
  ASSUME CountInv, NEW l \in open, NEW e \in what[l]
  PROVE  inhibitors[mode[l]][e] \in Nat /\ inhibitors[mode[l]][e] >= 1
  <1>1. l \in Locks /\ mode[l] \in Modes /\ e \in Events
    BY DEF CountInv, InhibitTypeOK
  <1>2. l \in Holders(mode[l], e) /\ IsFiniteSet(Holders(mode[l], e))
    BY OpenFinite DEF Holders, CountInv
  <1>3. Cardinality(Holders(mode[l], e)) \in Nat /\ Cardinality(Holders(mode[l], e)) # 0
    BY <1>2, FS_EmptySet, FS_CardinalityType
  <1>4. /\ inhibitors[mode[l]][e] \in Nat
        /\ inhibitors[mode[l]][e] >= Cardinality(Holders(mode[l], e))
    BY <1>1 DEF CountInv, InhibitTypeOK, HeldLocksHonoured
  <1> QED
    BY <1>3, <1>4

-----------------------------------------------------------------------------
(* The locks by themselves. InhibitInv is inductive: the types, the        *)
(* counters, and where the locks that are held sit in the list.            *)

\* Open locks hold a non-empty set of events that somebody asked for.
HeldWhat == \A l \in open : what[l] \in Requests

InhibitInv ==
  /\ InhibitTypeOK
  /\ HeldLocksHonoured
  /\ HeldLocksListed
  /\ HeldWhat
  /\ FirstEventsReleased

LEMMA FillType ==
  ASSUME InhibitTypeOK, NEW l \in Locks, NEW W \in SUBSET Events,
         NEW hasPath \in BOOLEAN, Fill(l, W, hasPath)
  PROVE  /\ inhibit_list' \subseteq Locks
         /\ before' \subseteq inhibit_list' \X inhibit_list'
         /\ what' \in [Locks -> SUBSET Events]
         /\ path' \in [Locks -> BOOLEAN]
  <1>1. inhibit_list' \subseteq Locks /\ before' \subseteq inhibit_list' \X inhibit_list'
    BY DEF InhibitTypeOK, Fill
  <1>2. what' \in [Locks -> SUBSET Events]
    BY DEF InhibitTypeOK, Fill
  <1>3. path' \in [Locks -> BOOLEAN]
    BY Zenon DEF InhibitTypeOK, Fill
  <1> QED
    BY <1>1, <1>2, <1>3

\* Only locks without a path, and the lock that is closed, leave the list.
LEMMA RemovedHaveNoPath ==
  ASSUME NEW l, NEW x \in Removed(l)
  PROVE  x = l \/ ~ path[x]
  BY DEF Removed, NullPathsBefore

\* The first event of a lock is heard.
LEMMA FirstIsHeard ==
  ASSUME InhibitTypeOK, NEW l \in open, NEW e \in what[l], \A f \in what[l] : e <= f
  PROVE  e \in Heard(l)
  <1>1. what[l] \subseteq 0 .. 6
    BY InhibitAssumption DEF InhibitAssumption, InhibitTypeOK
  <1>2. EventsBefore(l, e) = {}
    BY <1>1 DEF EventsBefore
  <1>3. Cardinality(EventsBefore(l, e)) = 0
    BY <1>2, FS_EmptySet
  <1>4. Cardinality(NullPathsBefore(l)) \in Nat
    <2>1. NullPathsBefore(l) \subseteq Locks
      BY DEF NullPathsBefore, InhibitTypeOK
    <2> QED
      BY <2>1, InhibitAssumption, FS_Subset, FS_CardinalityType DEF InhibitAssumption
  <1> QED
    BY <1>3, <1>4 DEF Heard

LEMMA InhibitInitInv == InhibitInit => InhibitInv
  <1> SUFFICES ASSUME InhibitInit PROVE InhibitInv
    OBVIOUS
  <1>1. InhibitTypeOK
    BY ModesAreTwo DEF InhibitInit, InhibitTypeOK
  <1>2. \A m, e : Holders(m, e) = {}
    BY DEF InhibitInit, Holders
  <1>3. \A m, e : Cardinality(Holders(m, e)) = 0
    BY <1>2, FS_EmptySet
  <1>4. \A m \in Modes, e \in Events : inhibitors[m][e] = 0
    BY DEF InhibitInit
  <1>5. FirstEventsReleased /\ HeldLocksHonoured
    BY <1>3, <1>4 DEF FirstEventsReleased, HeldLocksHonoured
  <1>6. HeldWhat /\ HeldLocksListed
    BY DEF InhibitInit, HeldWhat, HeldLocksListed
  <1> QED
    BY <1>1, <1>5, <1>6 DEF InhibitInv

\* A lock is granted.
LEMMA CreateKeeps ==
  ASSUME InhibitInv, NEW l \in Locks, NEW W \in Requests, NEW m \in Modes,
         ck_inhibit_create_lock(l, W, m)
  PROVE  InhibitInv'
  <1>0. InhibitTypeOK /\ W \in SUBSET Events
    BY InhibitAssumption DEF InhibitInv, InhibitAssumption
  <1>1. /\ Unused(l) /\ Fill(l, W, TRUE) /\ open' = open \cup {l}
        /\ mode' = [mode EXCEPT ![l] = m] /\ inhibitors' = CountedUp(m, W)
    BY DEF ck_inhibit_create_lock
  <1>2. \A n \in Modes, e \in Events :
          inhibitors'[n][e] = IF n = m /\ e \in W THEN inhibitors[n][e] + 1
                                                  ELSE inhibitors[n][e]
    BY <1>0, <1>1 DEF InhibitTypeOK, CountedUp
  <1>3. inhibitors' \in [Modes -> [Events -> Nat]]
    BY <1>0, <1>1 DEF InhibitTypeOK, CountedUp
  <1>4. InhibitTypeOK'
    <2>1. mode' \in [Locks -> Modes] /\ open' \subseteq Locks
      BY <1>0, <1>1 DEF InhibitTypeOK
    <2> QED
      BY <1>0, <1>1, <1>3, <2>1, FillType DEF InhibitTypeOK
  <1>5. \A n \in Modes, e \in Events :
          Cardinality(Holders(n, e)') =
            IF n = m /\ e \in W THEN Cardinality(Holders(n, e)) + 1
                                ELSE Cardinality(Holders(n, e))
    <2>1. l \notin open /\ what'[l] = W /\ mode'[l] = m
      BY <1>0, <1>1 DEF Fill, Unused, InhibitTypeOK
    <2>2. \A k \in open : what'[k] = what[k] /\ mode'[k] = mode[k]
      BY <1>0, <1>1 DEF Fill, Unused, InhibitTypeOK
    <2>3. open' = open \cup {l}
      BY <1>1
    <2> QED
      BY <1>0, <2>1, <2>2, <2>3, NewHolder
  <1>6. \A n \in Modes, e \in Events :
          /\ inhibitors[n][e] \in Nat /\ Cardinality(Holders(n, e)) \in Nat
    BY <1>0, OpenFinite DEF InhibitTypeOK
  <1>7. HeldLocksHonoured'
    BY <1>2, <1>5, <1>6 DEF InhibitInv, HeldLocksHonoured
  <1>8. FirstEventsReleased'
    BY <1>2, <1>5, <1>6 DEF InhibitInv, FirstEventsReleased, FirstOnly
  <1>9. \A k \in open : k # l
    BY <1>1 DEF Unused
  <1>10. HeldWhat'
    BY <1>0, <1>1, <1>9 DEF InhibitInv, HeldWhat, Fill, InhibitTypeOK
  <1>11. HeldLocksListed'
    <2> SUFFICES ASSUME NEW k \in open' PROVE k \in inhibit_list' /\ path'[k]
      BY DEF HeldLocksListed
    <2>1. CASE k = l
      BY <1>0, <1>1, <2>1 DEF Fill, InhibitTypeOK
    <2>2. CASE k # l
      <3>1. k \in open /\ k \in Locks
        BY <1>0, <1>1, <2>2 DEF InhibitTypeOK
      <3>2. path'[k] = path[k]
        BY <1>0, <1>1, <2>2, <3>1 DEF Fill, InhibitTypeOK
      <3> QED
        BY <1>1, <3>1, <3>2 DEF Fill, InhibitInv, HeldLocksListed
    <2> QED
      BY <2>1, <2>2
  <1> QED
    BY <1>4, <1>7, <1>8, <1>10, <1>11 DEF InhibitInv

\* A lock is refused: only an unused lock changes.
LEMMA RefuseKeeps ==
  ASSUME InhibitInv, NEW l \in Locks, NEW W \in Requests, NEW hasPath \in BOOLEAN,
         CreateLockFails(l, W, hasPath)
  PROVE  InhibitInv'
  <1>0. InhibitTypeOK /\ W \in SUBSET Events
    BY InhibitAssumption DEF InhibitInv, InhibitAssumption
  <1>1. /\ Unused(l) /\ Fill(l, W, hasPath) /\ UNCHANGED <<inhibitors, open, mode>>
    BY DEF CreateLockFails
  <1>2. InhibitTypeOK'
    BY <1>0, <1>1, FillType DEF InhibitTypeOK
  <1>3. \A k \in open : k # l /\ k \in Locks
    BY <1>0, <1>1 DEF Unused, InhibitTypeOK
  <1>4. \A k \in open : what'[k] = what[k] /\ path'[k] = path[k]
    BY <1>0, <1>1, <1>3 DEF Fill, InhibitTypeOK
  <1>5. \A n, e : Holders(n, e)' = Holders(n, e)
    BY <1>1, <1>4 DEF Holders
  <1>6. HeldLocksHonoured' /\ FirstEventsReleased'
    BY <1>1, <1>5 DEF InhibitInv, HeldLocksHonoured, FirstEventsReleased, FirstOnly
  <1>7. HeldWhat' /\ HeldLocksListed'
    BY <1>1, <1>4 DEF InhibitInv, HeldWhat, HeldLocksListed, Fill
  <1> QED
    BY <1>2, <1>6, <1>7 DEF InhibitInv

\* A lock is released.
LEMMA CloseKeeps ==
  ASSUME InhibitInv, NEW l \in Locks, close_named_pipe(l)
  PROVE  InhibitInv'
  <1>0. InhibitTypeOK /\ CountInv
    BY DEF InhibitInv, CountInv
  <1>1. /\ l \in open /\ open' = open \ {l}
        /\ path' = [path EXCEPT ![l] = FALSE] /\ what' = [what EXCEPT ![l] = {}]
        /\ inhibitors' = CountedDown(mode[l], Heard(l))
        /\ Remove(Removed(l)) /\ mode' = mode
    BY DEF close_named_pipe
  <1>2. Heard(l) \subseteq what[l] /\ what[l] \subseteq Events /\ mode[l] \in Modes
    BY <1>0 DEF Heard, InhibitTypeOK
  <1>3. \A e \in Heard(l) : inhibitors[mode[l]][e] \in Nat /\ inhibitors[mode[l]][e] >= 1
    BY <1>0, <1>1, <1>2, HeldIsCounted
  <1>4. \A n \in Modes, e \in Events :
          inhibitors'[n][e] = IF n = mode[l] /\ e \in Heard(l)
                                THEN inhibitors[n][e] - 1 ELSE inhibitors[n][e]
    BY <1>0, <1>1, <1>2 DEF InhibitTypeOK, CountedDown
  <1>5. inhibitors' \in [Modes -> [Events -> Nat]]
    <2>1. [e \in Events |-> IF e \in Heard(l) THEN inhibitors[mode[l]][e] - 1
                                              ELSE inhibitors[mode[l]][e]]
            \in [Events -> Nat]
      BY <1>0, <1>2, <1>3 DEF InhibitTypeOK
    <2> QED
      BY <1>0, <1>1, <1>2, <2>1 DEF InhibitTypeOK, CountedDown
  <1>6. InhibitTypeOK'
    <2>1. path' \in [Locks -> BOOLEAN]
      BY <1>0, <1>1, Zenon DEF InhibitTypeOK
    <2>2. what' \in [Locks -> SUBSET Events]
      BY <1>0, <1>1 DEF InhibitTypeOK
    <2>3. inhibit_list' \subseteq Locks /\ before' \subseteq inhibit_list' \X inhibit_list'
      BY <1>0, <1>1 DEF InhibitTypeOK, Remove
    <2> QED
      BY <1>0, <1>1, <1>5, <2>1, <2>2, <2>3 DEF InhibitTypeOK
  <1>7. \A n \in Modes, e \in Events :
          Cardinality(Holders(n, e)') =
            IF n = mode[l] /\ e \in what[l] THEN Cardinality(Holders(n, e)) - 1
                                            ELSE Cardinality(Holders(n, e))
    BY <1>0, <1>1, LostHolder
  <1>8. \A n \in Modes, e \in Events :
          /\ inhibitors[n][e] \in Nat /\ Cardinality(Holders(n, e)) \in Nat
    BY <1>0, OpenFinite DEF InhibitTypeOK
  <1>9. HeldLocksHonoured'
    BY <1>2, <1>4, <1>7, <1>8 DEF InhibitInv, HeldLocksHonoured
  <1>10. FirstEventsReleased'
    <2> SUFFICES ASSUME NEW n \in Modes, NEW e \in Events, FirstOnly(e)
                 PROVE  inhibitors'[n][e] = Cardinality(Holders(n, e)')
      BY DEF FirstEventsReleased, FirstOnly
    <2>1. e \in Heard(l) <=> e \in what[l]
      BY <1>0, <1>1, <1>2, FirstIsHeard DEF InhibitInv, HeldWhat, FirstOnly
    <2> QED
      BY <1>4, <1>7, <1>8, <2>1 DEF InhibitInv, FirstEventsReleased
  <1>11. \A k \in open' : /\ k \in open /\ k # l /\ k \in Locks
                          /\ what'[k] = what[k] /\ path'[k] = path[k]
    BY <1>0, <1>1 DEF InhibitTypeOK
  <1>12. \A k \in open' : k \notin Removed(l)
    BY <1>11, RemovedHaveNoPath DEF InhibitInv, HeldLocksListed
  <1>13. HeldWhat' /\ HeldLocksListed'
    BY <1>1, <1>11, <1>12 DEF InhibitInv, HeldWhat, HeldLocksListed, Remove
  <1> QED
    BY <1>6, <1>9, <1>10, <1>13 DEF InhibitInv

LEMMA InhibitStep == InhibitInv /\ [InhibitNext]_inhibitvars => InhibitInv'
  <1> SUFFICES ASSUME InhibitInv, [InhibitNext]_inhibitvars PROVE InhibitInv'
    OBVIOUS
  <1>1. CASE InhibitNext
    BY <1>1, CreateKeeps, RefuseKeeps, CloseKeeps DEF InhibitNext
  <1>2. CASE UNCHANGED inhibitvars
    <2>1. \A n, e : Holders(n, e)' = Holders(n, e)
      BY <1>2 DEF inhibitvars, Holders
    <2>2. HeldLocksHonoured' /\ FirstEventsReleased'
      BY <1>2, <2>1 DEF inhibitvars, InhibitInv, HeldLocksHonoured,
         FirstEventsReleased, FirstOnly
    <2> QED
      BY <1>2, <2>2 DEF inhibitvars, InhibitInv, InhibitTypeOK, HeldWhat, HeldLocksListed
  <1> QED
    BY <1>1, <1>2

LEMMA InhibitInvHolds == InhibitSpec => []InhibitInv
  BY InhibitInitInv, InhibitStep, PTL DEF InhibitSpec

\* The lock manager's state always has its type; in particular no counter ever
\* becomes negative.
THEOREM InhibitTypeCorrect == InhibitSpec => []InhibitTypeOK
  <1>1. InhibitInv => InhibitTypeOK
    BY DEF InhibitInv
  <1> QED
    BY <1>1, InhibitInvHolds, PTL

\* Whatever locks other clients take, fail to take and release, a lock that is held
\* is counted and is in the manager's list.
THEOREM LocksHonoured == InhibitSpec => [](HeldLocksHonoured /\ HeldLocksListed)
  <1>1. InhibitInv => HeldLocksHonoured /\ HeldLocksListed
    BY DEF InhibitInv
  <1> QED
    BY <1>1, InhibitInvHolds, PTL

\* The counter of an event that no client asks for behind another one is exactly the
\* number of locks held on it, so closing the last one releases it.
THEOREM FirstEventsCorrect == InhibitSpec => []FirstEventsReleased
  <1>1. InhibitInv => FirstEventsReleased
    BY DEF InhibitInv
  <1> QED
    BY <1>1, InhibitInvHolds, PTL

-----------------------------------------------------------------------------
(* System actions.                                                         *)

MethodCall(c) == \/ dbus_restart(c) \/ dbus_stop(c)
                 \/ dbus_power_off(c) \/ dbus_reboot(c)
                 \/ dbus_suspend(c) \/ dbus_hibernate(c) \/ dbus_hybrid_sleep(c)

\* What a method that is not refused does, when it asks PolicyKit for callback k.
Asks(c, k) ==
  /\ request[c] = "none" /\ request' = [request EXCEPT ![c] = k]
  /\ ~ get_inhibit_status(EventOf(k), "block")
  /\ UNCHANGED <<inhibitvars, datavars>>

\* What an answer of PolicyKit does that leads to nothing, and one that leads to an
\* action announced by signal g.
Refuses(c) ==
  /\ request[c] \in Callbacks /\ request' = [request EXCEPT ![c] = "none"]
  /\ UNCHANGED <<inhibitvars, datavars>>

Schedules(c, g) ==
  /\ request[c] \in Callbacks /\ request' = [request EXCEPT ![c] = "waiting"]
  /\ system_action_idle_id = NoCall /\ system_action_idle_id' = c
  /\ prepared' = prepared \cup {g} /\ signal' = g
  /\ system_action_data' \in {c, system_action_data}
  /\ UNCHANGED inhibitvars

\* Every method looks for block locks on the event of the callback it asks for.
LEMMA MethodKinds ==
  ASSUME NEW c \in Calls, MethodCall(c)
  PROVE  \E k \in Callbacks : Asks(c, k)
  <1>1. CASE dbus_restart(c) \/ dbus_reboot(c)
    BY <1>1 DEF dbus_restart, dbus_reboot, check_system_action, Blocked, Asks, EventOf, Callbacks
  <1>2. CASE dbus_stop(c) \/ dbus_power_off(c)
    BY <1>2 DEF dbus_stop, dbus_power_off, check_system_action, Blocked, Asks, EventOf, Callbacks
  <1>3. CASE dbus_suspend(c)
    BY <1>3 DEF dbus_suspend, check_system_action, Blocked, Asks, EventOf, Callbacks
  <1>4. CASE dbus_hibernate(c)
    BY <1>4 DEF dbus_hibernate, check_system_action, Blocked, Asks, EventOf, Callbacks
  <1>5. CASE dbus_hybrid_sleep(c)
    BY <1>5 DEF dbus_hybrid_sleep, check_system_action, Blocked, Asks, EventOf, Callbacks
  <1> QED
    BY <1>1, <1>2, <1>3, <1>4, <1>5 DEF MethodCall

LEMMA AuthKinds ==
  ASSUME NEW c \in Calls, auth_ready_callback(c)
  PROVE  Refuses(c) \/ \E g \in Signals : Schedules(c, g)
  <1>1. CASE NotAuthorized(c) \/ Busy(c)
    BY <1>1 DEF NotAuthorized, Busy, Refuses
  <1>2. CASE do_restart(c) \/ do_stop(c)
    BY <1>2 DEF do_restart, do_stop, ScheduleAction, Schedules, Callbacks, Signals
  <1>3. CASE do_suspend(c) \/ do_hibernate(c) \/ do_hybrid_sleep(c)
    BY <1>3 DEF do_suspend, do_hibernate, do_hybrid_sleep, ScheduleAction, Schedules,
                Callbacks, Signals
  <1> QED
    BY <1>1, <1>2, <1>3 DEF auth_ready_callback

\* The system actions only look at the locks: what is proved of the locks holds in
\* their presence.
LEMMA ActionsLeaveLocks ==
  ASSUME [ActionNext]_systemvars
  PROVE  [InhibitNext]_inhibitvars
  <1>1. CASE UNCHANGED systemvars
    BY <1>1 DEF systemvars
  <1>2. ASSUME NEW c \in Calls, auth_ready_callback(c)
        PROVE  UNCHANGED inhibitvars
    BY <1>2, AuthKinds DEF Refuses, Schedules
  <1>3. ASSUME NEW c \in Calls, MethodCall(c)
        PROVE  UNCHANGED inhibitvars
    BY <1>3, MethodKinds DEF Asks
  <1>4. CASE system_action_idle_cb
    BY <1>4 DEF system_action_idle_cb
  <1>5. ASSUME NEW l \in Locks, CreateLock(l)
        PROVE  InhibitNext
    BY <1>5 DEF CreateLock, InhibitNext
  <1>6. ASSUME NEW l \in Locks, CloseLock(l)
        PROVE  InhibitNext
    BY <1>6 DEF CloseLock, InhibitNext
  <1> QED
    BY <1>1, <1>2, <1>3, <1>4, <1>5, <1>6 DEF ActionNext, MethodCall

LEMMA LocksInPresence == ActionSpec => []InhibitInv
  <1>1. ActionInit => InhibitInv
    BY InhibitInitInv DEF ActionInit
  <1>2. InhibitInv /\ [ActionNext]_systemvars => InhibitInv'
    BY ActionsLeaveLocks, InhibitStep
  <1> QED
    BY <1>1, <1>2, PTL DEF ActionSpec

\* The timer, the call that waits for it, the data kept for the inhibit manager's
\* signal and the announcements go together.
ActionInv == ActionTypeOK /\ OneActionAtATime /\ PrepareSignalsPaired

\* Carrying out the one action that waits leaves nothing under way.
LEMMA PerformKeeps ==
  ASSUME ActionInv, NEW c \in Calls, c = system_action_idle_id, Perform(c)
  PROVE  ActionInv'
  <1>1. /\ request' = [request EXCEPT ![c] = "none"]
        /\ system_action_idle_id' = NoCall /\ system_action_data' = NoCall
        /\ signal' = "none"
        /\ prepared' = prepared \ {signal}
    BY DEF Perform
  <1>2. ActionTypeOK'
    BY <1>1 DEF ActionInv, ActionTypeOK
  <1>3. \A d \in Calls : request'[d] # "waiting"
    BY <1>1 DEF ActionInv, ActionTypeOK, OneActionAtATime
  <1>4. OneActionAtATime'
    BY <1>1, <1>3, CallsAssumption DEF OneActionAtATime, CallsAssumption
  <1>5. prepared' = {}
    BY <1>1 DEF ActionInv, PrepareSignalsPaired
  <1>6. PrepareSignalsPaired'
    BY <1>1, <1>5 DEF PrepareSignalsPaired
  <1> QED
    BY <1>2, <1>4, <1>6 DEF ActionInv

LEMMA ActionStep ==
  ASSUME ActionInv, [ActionNext]_systemvars
  PROVE  ActionInv'
  <1>1. CASE UNCHANGED actionvars
    BY <1>1 DEF actionvars, datavars, ActionInv, ActionTypeOK, OneActionAtATime,
                PrepareSignalsPaired
  <1>2. ASSUME NEW c \in Calls, Refuses(c)
        PROVE  ActionInv'
    <2>1. \A d \in Calls : request'[d] = "waiting" <=> request[d] = "waiting"
      BY <1>2 DEF Refuses, ActionInv, ActionTypeOK, Callbacks
    <2>2. ActionTypeOK'
      BY <1>2 DEF Refuses, datavars, ActionInv, ActionTypeOK
    <2> QED
      BY <1>2, <2>1, <2>2 DEF Refuses, datavars, ActionInv, OneActionAtATime,
                              PrepareSignalsPaired
  <1>3. ASSUME NEW c \in Calls, NEW g \in Signals, Schedules(c, g)
        PROVE  ActionInv'
    <2>1. ActionTypeOK'
      BY <1>3 DEF Schedules, ActionInv, ActionTypeOK
    <2>2. system_action_data = NoCall /\ prepared = {}
      BY <1>3 DEF Schedules, ActionInv, OneActionAtATime, PrepareSignalsPaired
    <2>3. \A d \in Calls : request[d] # "waiting"
      BY <1>3, CallsAssumption DEF Schedules, ActionInv, OneActionAtATime, CallsAssumption
    <2>4. OneActionAtATime'
      BY <1>3, <2>2, <2>3 DEF Schedules, OneActionAtATime, ActionInv, ActionTypeOK
    <2>5. PrepareSignalsPaired'
      BY <1>3, <2>2, CallsAssumption DEF Schedules, PrepareSignalsPaired, Signals, CallsAssumption
    <2> QED
      BY <2>1, <2>4, <2>5 DEF ActionInv
  <1>4. ASSUME NEW c \in Calls, NEW k \in Callbacks, Asks(c, k)
        PROVE  ActionInv'
    <2>1. \A d \in Calls : request'[d] = "waiting" <=> request[d] = "waiting"
      BY <1>4 DEF Asks, ActionInv, ActionTypeOK, Callbacks
    <2>2. ActionTypeOK'
      BY <1>4 DEF Asks, datavars, ActionInv, ActionTypeOK
    <2> QED
      BY <1>4, <2>1, <2>2 DEF Asks, datavars, ActionInv, OneActionAtATime, PrepareSignalsPaired
  <1>5. CASE system_action_idle_cb
    <2>1. /\ system_action_idle_id \in Calls
          /\ Perform(system_action_idle_id)
      BY <1>5 DEF system_action_idle_cb, ActionInv, ActionTypeOK
    <2> QED
      BY <2>1, PerformKeeps
  <1>6. ASSUME NEW l \in Locks, CloseLock(l)
        PROVE  ActionInv'
    <2>1. CASE UNCHANGED actionvars
      BY <2>1, <1>1
    <2>2. CASE /\ system_action_data # NoCall
               /\ Perform(system_action_data)
      <3>1. system_action_data = system_action_idle_id /\ system_action_data \in Calls
        BY <2>2 DEF ActionInv, ActionTypeOK, OneActionAtATime
      <3> QED
        BY <3>1, <2>2, PerformKeeps
    <2> QED
      BY <1>6, <2>1, <2>2 DEF CloseLock, on_inhibit_manager_changed_event
  <1> QED
    BY <1>1, <1>2, <1>3, <1>4, <1>5, <1>6, MethodKinds, AuthKinds
       DEF ActionNext, systemvars, CreateLock, MethodCall

LEMMA ActionInvHolds == ActionSpec => []ActionInv
  <1>1. ActionInit => ActionInv
    BY CallsAssumption
       DEF ActionInit, ActionInv, ActionTypeOK, OneActionAtATime, PrepareSignalsPaired, CallsAssumption
  <1>2. ActionInv /\ [ActionNext]_systemvars => ActionInv'
    BY ActionStep
  <1> QED
    BY <1>1, <1>2, PTL DEF ActionSpec

\* What is proved of the locks holds while system actions come and go: a held lock is
\* counted and listed, and the first event of a lock is released with it.
THEOREM LocksHonouredByActions ==
  ActionSpec => [](HeldLocksHonoured /\ HeldLocksListed /\ FirstEventsReleased)
  <1>1. InhibitInv => HeldLocksHonoured /\ HeldLocksListed /\ FirstEventsReleased
    BY DEF InhibitInv
  <1> QED
    BY <1>1, LocksInPresence, PTL

\* At most one system action is under way and its data is not used after it was freed
\* (do_system_action, system_action_idle_cb, on_inhibit_manager_changed_event).
THEOREM ActionsCorrect == ActionSpec => []OneActionAtATime
  <1>1. ActionInv => OneActionAtATime
    BY DEF ActionInv
  <1> QED
    BY <1>1, ActionInvHolds, PTL

\* Every announcement of an action is called off, whether the timer or the release of a
\* lock carried it out.
THEOREM AnnouncementsPaired == ActionSpec => []PrepareSignalsPaired
  <1>1. ActionInv => PrepareSignalsPaired
    BY DEF ActionInv
  <1> QED
    BY <1>1, ActionInvHolds, PTL

\* The system's side of a block lock: because a held lock is always counted, a call
\* that comes while one is held is refused (dbus_restart, dbus_suspend and the like).
THEOREM BlockedRefused == ActionSpec => BlockedCallsRefused
  <1> DEFINE Refused == \A c \in Calls : request[c] = "none" /\ request'[c] # "none"
                                           => Holders("block", EventOf(request'[c])) = {}
  <1>1. ASSUME InhibitInv, ActionInv, ActionNext
        PROVE  Refused
    <2>1. ASSUME NEW c \in Calls, NEW d \in Calls, auth_ready_callback(d),
                 request[c] = "none"
          PROVE  request'[c] = "none"
      BY <1>1, <2>1, AuthKinds DEF Refuses, Schedules, ActionInv, ActionTypeOK, Callbacks
    <2>2. ASSUME NEW d, Perform(d)
          PROVE  \A c \in Calls : request[c] = "none" => request'[c] = "none"
      BY <1>1, <2>2 DEF Perform, ActionInv, ActionTypeOK
    <2>3. ASSUME NEW d \in Calls, NEW k \in Callbacks, Asks(d, k)
          PROVE  Refused
      <3> DEFINE e == EventOf(k)
      <3>1. \A c \in Calls : c # d => request'[c] = request[c]
        BY <1>1, <2>3 DEF Asks, ActionInv, ActionTypeOK
      <3>2. request'[d] = k /\ e \in Events
        BY <1>1, <2>3, CallsAssumption DEF Asks, ActionInv, ActionTypeOK, EventOf, CallsAssumption
      <3>3. ~ inhibitors["block"][e] > 0
        BY <2>3 DEF Asks, get_inhibit_status
      <3> HIDE DEF e
      <3>4. \A l \in Holders("block", e) : mode[l] = "block" /\ l \in open /\ e \in what[l]
        BY DEF Holders
      <3>5. \A l \in Holders("block", e) : inhibitors["block"][e] >= 1
        BY <1>1, <3>4, HeldIsCounted DEF InhibitInv, CountInv
      <3>6. inhibitors["block"][e] \in Nat
        BY <1>1, <3>2, ModesAreTwo DEF InhibitInv, InhibitTypeOK
      <3>7. Holders("block", e) = {}
        BY <3>3, <3>5, <3>6
      <3> QED
        BY <3>1, <3>2, <3>7 DEF e
    <2>4. CASE system_action_idle_cb
      BY <2>4, <2>2 DEF system_action_idle_cb
    <2>5. ASSUME NEW l \in Locks, CreateLock(l) \/ CloseLock(l)
          PROVE  Refused
      BY <2>5, <2>2 DEF CreateLock, CloseLock, on_inhibit_manager_changed_event, actionvars
    <2> QED
      BY <1>1, <2>1, <2>2, <2>3, <2>4, <2>5, MethodKinds DEF ActionNext, MethodCall
  <1>2. ASSUME InhibitInv, ActionInv, [ActionNext]_systemvars
        PROVE  [Refused]_systemvars
    BY <1>1, <1>2
  <1> QED
    BY <1>2, LocksInPresence, ActionInvHolds, PTL DEF ActionSpec, BlockedCallsRefused
===============================================================================
