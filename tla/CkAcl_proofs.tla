---------------------------- MODULE CkAcl_proofs ----------------------------
(***************************************************************************)
(* Proofs about CkAcl, for any number of seats, sessions, users, changes   *)
(* and plugs.                                                              *)
(*                                                                         *)
(* While no change is handled on top of another there is at most one       *)
(* program of the manager's, and the database, which was dumped before it  *)
(* was started, shows what it must. What the program still has to do takes *)
(* the list from the users of before the change to those of after it. The  *)
(* one that udev runs at the same time can only add users that belong on   *)
(* the list.                                                               *)
(***************************************************************************)
EXTENDS CkAcl, TLAPS

\* What is kept of a handler.
Handler == [seat : Seats, new : Sessions \cup {NoSession}, change : Changes]

\* Runs(c): the program of change c has not ended.
Runs(c) == programs[c].step # "none"

\* The users before the change that p was started for, and the one that p has to add.
UsersBefore(p) == UsersOf(((Active \ {p.new}) \cup {p.old}) \cap Local)
Gains(p) == IF Enters(p.old, p.new) THEN {UserOf[p.new]} ELSE {}

\* A session is active on its own seat only.
SeatsOK == \A s \in Seats : active[s] \in OnSeat(s)

\* The device takes its list with it.
PlugsOK == ~ plugged => acl = {}

\* As long as no dump fails, the database shows the active sessions.
DatabaseFresh == ~ failed => readable /\ database = Active /\ remains = {}

\* Without nesting there is one handler, for the session that is now active.
HandlersOK ==
  ~ nested => /\ handlers # <<>> => /\ Len(handlers) = 1
                                    /\ handlers[1].new = active[handlers[1].seat]
              /\ \A c \in Changes : Runs(c) => handlers # <<>> /\ handlers[1].change = c

\* The seats whose session was not announced are the one of the handler.
SignalsOK ==
  ~ nested => \A s \in Seats : active[s] \notin {NoSession, told[s]}
                                 => handlers # <<>> /\ handlers[1].seat = s

\* What a program works with.
ProgramOK(p) ==
  /\ \E s \in Seats : active[s] = p.new /\ p.old \in OnSeat(s) /\ p.old # p.new
  /\ p.step = "remove" => Leaves(p.old, p.new) /\ p.list = UsersOf(Active)

\* The list of the device when p has its steps from the present one on to make.
ListOK(p) ==
  /\ p.step \in {"read", "remove"} => acl \in {UsersOf(Active), UsersBefore(p)}
  /\ p.step = "add" => acl \subseteq UsersOf(Active) /\ UsersOf(Active) \subseteq acl \cup Gains(p)

ProgramsOK ==
  ~ nested /\ ~ failed =>
    /\ \A c \in Changes : Runs(c) => ProgramOK(programs[c])
    /\ udev.step = "add" => udev.list = UsersOf(Active)

ListsOK ==
  ~ nested /\ ~ failed /\ plugged =>
    /\ udev.step # "none" => acl \subseteq UsersOf(Active)
    /\ udev.step = "none" => \A c \in Changes : Runs(c) => ListOK(programs[c])
    /\ udev.step = "none" /\ (\A c \in Changes : ~ Runs(c)) => acl = UsersOf(Active)

\* The inductive invariant.
AclInv ==
  /\ AclTypeOK /\ SeatsOK /\ PlugsOK /\ DatabaseFresh /\ HandlersOK /\ SignalsOK
  /\ ProgramsOK /\ ListsOK

----------------------------------------------------------------------------
(* Lemmas about the operators.                                             *)

\* What is active of local sessions, for any assignment of sessions to seats.
LEMMA ActiveIs ==
  /\ Active \subseteq Local /\ NoSession \notin Local /\ Local \subseteq Sessions
  /\ UsersOf(Active) \subseteq Users
  BY AclAssumption DEF Active, UsersOf

\* The session that a seat has left is active nowhere, the new one is if it is local.
LEMMA OldAndNew ==
  ASSUME SeatsOK, NEW old, NEW new,
         \E s \in Seats : active[s] = new /\ old \in OnSeat(s) /\ old # new
  PROVE  old \notin Active /\ (new \in Local => new \in Active)
  BY AclAssumption DEF SeatsOK, OnSeat, Active

\* Nobody's access ends with the change: the old session was not local, or the new one is of
\* the same user.
LEMMA NobodyLeaves ==
  ASSUME SeatsOK, NEW p \in Program, ProgramOK(p), ~ Leaves(p.old, p.new),
         acl \in {UsersOf(Active), UsersBefore(p)}
  PROVE  acl \subseteq UsersOf(Active) /\ UsersOf(Active) \subseteq acl \cup Gains(p)
  <1>1. p.old \notin Active /\ (p.new \in Local => p.new \in Active)
    BY OldAndNew DEF ProgramOK
  <1>2. CASE acl = UsersOf(Active)
    BY <1>2
  <1>3. CASE acl = UsersBefore(p)
    <2>1. acl \subseteq UsersOf(Active)
      BY <1>1, <1>3, ActiveIs DEF UsersBefore, UsersOf, Leaves
    <2>2. UsersOf(Active) \subseteq acl \cup Gains(p)
      BY <1>1, <1>3, ActiveIs DEF UsersBefore, UsersOf, Leaves, Gains, Enters
    <2> QED BY <2>1, <2>2
  <1> QED BY <1>2, <1>3

\* The user of the old session loses the access if no other session of his is active.
LEMMA OneLeaves ==
  ASSUME SeatsOK, NEW p \in Program, ProgramOK(p), p.step = "remove",
         acl \in {UsersOf(Active), UsersBefore(p)}
  PROVE  /\ remove_uid(p) \subseteq UsersOf(Active)
         /\ UsersOf(Active) \subseteq remove_uid(p) \cup Gains(p)
  <1>1. p.old \notin Active /\ (p.new \in Local => p.new \in Active)
    BY OldAndNew DEF ProgramOK
  <1>2. Leaves(p.old, p.new) /\ p.list = UsersOf(Active)
    BY DEF ProgramOK
  <1>3. remove_uid(p) = IF UserOf[p.old] \in UsersOf(Active) THEN acl ELSE acl \ {UserOf[p.old]}
    BY <1>2 DEF remove_uid
  <1>4. CASE acl = UsersOf(Active)
    BY <1>3, <1>4
  <1>5. CASE acl = UsersBefore(p)
    <2>1. remove_uid(p) \subseteq UsersOf(Active)
      BY <1>1, <1>3, <1>5, ActiveIs DEF UsersBefore, UsersOf
    <2>2. UsersOf(Active) \subseteq acl \cup Gains(p)
      BY <1>1, <1>2, <1>5, ActiveIs DEF UsersBefore, UsersOf, Leaves, Gains, Enters
    <2> QED BY <1>3, <2>1, <2>2
  <1> QED BY <1>4, <1>5

\* Whom the program gives the access to has a local session that is active.
LEMMA GainsIs ==
  ASSUME SeatsOK, NEW p \in Program, ProgramOK(p)
  PROVE  Gains(p) \subseteq UsersOf(Active)
  <1>1. p.new \in Local => p.new \in Active
    BY OldAndNew DEF ProgramOK
  <1> QED BY <1>1 DEF Gains, Enters, UsersOf

----------------------------------------------------------------------------
(* The invariant.                                                          *)

LEMMA InitAcl == Init => AclInv
  <1> SUFFICES ASSUME Init PROVE AclInv
    OBVIOUS
  <1>1. NoProgram \in Program /\ NoProgram.step = "none"
    BY DEF NoProgram, Program, Steps
  <1>2. Active = {} /\ UsersOf(Active) = {}
    BY AclAssumption DEF Init, Active, UsersOf
  <1>3. AclTypeOK
    <2>1. changes \in 0 .. MaxChanges /\ plugs \in 0 .. MaxPlugs
      BY AclAssumption DEF Init
    <2>2. handlers \in Seq([seat : Seats, new : Sessions \cup {NoSession}, change : Changes])
      BY DEF Init
    <2>3. programs \in [Changes -> Program] /\ udev \in Program
      BY <1>1 DEF Init
    <2> QED BY <2>1, <2>2, <2>3 DEF Init, AclTypeOK
  <1>4. \A c \in Changes : ~ Runs(c)
    BY <1>1 DEF Init, Runs
  <1>5. SeatsOK /\ PlugsOK /\ DatabaseFresh
    BY <1>2 DEF Init, SeatsOK, PlugsOK, DatabaseFresh, OnSeat
  <1>6. HandlersOK /\ SignalsOK
    BY <1>4 DEF Init, HandlersOK, SignalsOK
  <1>7. ProgramsOK /\ ListsOK
    BY <1>1, <1>4 DEF Init, ProgramsOK, ListsOK
  <1> QED BY <1>3, <1>5, <1>6, <1>7 DEF AclInv

\* A seat has another active session.
LEMMA ChangesActive ==
  ASSUME AclInv, NEW s \in Seats, NEW new \in Sessions \cup {NoSession},
         change_active_session(s, new)
  PROVE  AclInv'
  <1> DEFINE p == [step |-> "read", old |-> active[s], new |-> new, list |-> {}]
             h == [seat |-> s, new |-> new, change |-> changes']
  <1>1. /\ AclTypeOK /\ SeatsOK /\ PlugsOK /\ DatabaseFresh /\ HandlersOK /\ SignalsOK
        /\ ProgramsOK /\ ListsOK
    BY DEF AclInv
  <1>2. /\ changes < MaxChanges /\ new # active[s] /\ new \in OnSeat(s)
        /\ active' = [active EXCEPT ![s] = new]
        /\ UNCHANGED <<udev, plugged, acl, told, plugs>>
        /\ changes' = changes + 1 /\ handlers' = Append(handlers, h)
        /\ ck_manager_dump(Active')
        /\ programs' = [programs EXCEPT ![changes'] = p]
        /\ nested' = (nested \/ handlers # <<>> \/ udev.step # "none")
    BY DEF change_active_session, on_seat_active_session_changed_full, ck_seat_run_programs
  <1>3. /\ p \in Program /\ p.step = "read" /\ p.old = active[s] /\ p.new = new
        /\ changes' \in Changes /\ changes' \in 0 .. MaxChanges
    BY <1>1, <1>2, AclAssumption DEF Program, Steps, AclTypeOK, Changes
  <1>4. /\ h \in [seat : Seats, new : Sessions \cup {NoSession}, change : Changes]
        /\ h.seat = s /\ h.new = new /\ h.change = changes'
    BY <1>3
  <1> HIDE DEF p, h
  <1>5. Active' \subseteq Local /\ Active' \subseteq Sessions
    BY AclAssumption DEF Active
  <1>6. DatabaseFresh' /\ (failed => failed')
        /\ database' \subseteq Sessions /\ readable' \in BOOLEAN /\ remains' \subseteq Sessions
        /\ failed' \in BOOLEAN
    <2>1. CASE /\ database' \in {Active' \cup R : R \in SUBSET remains}
               /\ readable' \in IF remains = {} THEN {TRUE} ELSE BOOLEAN
               /\ remains' = {} /\ UNCHANGED failed
      BY <1>1, <1>5, <2>1 DEF DatabaseFresh, AclTypeOK
    <2>2. CASE /\ database' = {} /\ readable' = FALSE
               /\ \E R \in SUBSET Active' : remains' = remains \cup R
               /\ failed' = TRUE
      BY <1>1, <1>5, <2>2 DEF DatabaseFresh, AclTypeOK
    <2> QED BY <1>2, <2>1, <2>2 DEF ck_manager_dump
  <1>7. SeatsOK'
    BY <1>1, <1>2 DEF SeatsOK, OnSeat, AclTypeOK
  <1>8. AclTypeOK'
    <2>1. active' \in [Seats -> Sessions \cup {NoSession}]
      BY <1>1, <1>2 DEF AclTypeOK
    <2>2. /\ handlers' \in Seq([seat : Seats, new : Sessions \cup {NoSession}, change : Changes])
          /\ programs' \in [Changes -> Program]
      BY <1>1, <1>2, <1>3, <1>4 DEF AclTypeOK
    <2> QED BY <1>1, <1>2, <1>3, <1>6, <2>1, <2>2 DEF AclTypeOK
  <1>9. PlugsOK'
    BY <1>1, <1>2 DEF PlugsOK
  <1>10. ASSUME ~ nested'
         PROVE  /\ ~ nested /\ handlers = <<>> /\ udev.step = "none"
                /\ Len(handlers') = 1 /\ handlers' # <<>> /\ handlers'[1] = h
                /\ \A c \in Changes : ~ Runs(c)
                /\ \A c \in Changes : Runs(c)' => c = changes' /\ programs'[c] = p
    <2>1. ~ nested /\ handlers = <<>> /\ udev.step = "none"
      BY <1>2, <1>10
    <2>2. \A c \in Changes : ~ Runs(c)
      BY <1>1, <2>1 DEF HandlersOK
    <2>3. Len(handlers') = 1 /\ handlers' # <<>> /\ handlers'[1] = h
      BY <1>2, <1>4, <2>1
    <2>4. \A c \in Changes : Runs(c)' => c = changes' /\ programs'[c] = p
      BY <1>1, <1>2, <1>3, <2>2 DEF Runs, AclTypeOK
    <2> QED BY <2>1, <2>2, <2>3, <2>4
  <1>11. HandlersOK' /\ SignalsOK'
    <2>1. ASSUME ~ nested'
          PROVE  /\ handlers'[1].new = active'[handlers'[1].seat]
                 /\ \A c \in Changes : Runs(c)' => handlers'[1].change = c
                 /\ \A t \in Seats : active'[t] \notin {NoSession, told'[t]} => handlers'[1].seat = t
      BY <1>1, <1>2, <1>4, <1>10, <2>1 DEF SignalsOK, AclTypeOK
    <2>2. HandlersOK'
      BY <1>10, <2>1 DEF HandlersOK
    <2>3. SignalsOK'
      BY <1>10, <2>1 DEF SignalsOK
    <2> QED BY <2>2, <2>3
  <1>12. ASSUME ~ nested', NEW q \in Program, q = p
         PROVE  ProgramOK(q)'
    <2>1. active'[s] = q.new /\ q.old \in OnSeat(s) /\ q.old # q.new /\ q.step = "read"
      BY <1>1, <1>2, <1>3, <1>12 DEF AclTypeOK, SeatsOK
    <2> QED BY <2>1 DEF ProgramOK, OnSeat
  <1>13. ProgramsOK'
    <2>1. ASSUME ~ nested', NEW c \in Changes, Runs(c)'
          PROVE  ProgramOK(programs[c])'
      <3>1. PICK q \in Program : q = p
        BY <1>3
      <3>2. ProgramOK(q)' /\ programs'[c] = q
        BY <1>10, <1>12, <2>1, <3>1
      <3> QED BY <3>2 DEF ProgramOK
    <2> QED BY <1>2, <1>10, <2>1 DEF ProgramsOK
  <1>14. ListsOK'
    <2> SUFFICES ASSUME ~ nested', ~ failed', plugged'
                 PROVE  /\ udev'.step = "none"
                        /\ \A c \in Changes : Runs(c)' => ListOK(programs[c])'
                        /\ ~ \A c \in Changes : ~ Runs(c)'
      BY DEF ListsOK
    <2>1. acl = UsersOf(Active) /\ acl' = acl
      BY <1>1, <1>2, <1>6, <1>10 DEF ListsOK
    <2>2. ((Active' \ {new}) \cup {active[s]}) \cap Local = Active
      BY <1>1, <1>2, AclAssumption DEF Active, SeatsOK, OnSeat, AclTypeOK
    <2>3. ASSUME NEW c \in Changes, Runs(c)'
          PROVE  ListOK(programs[c])'
      <3>1. programs'[c] = p
        BY <1>10, <2>3
      <3> QED BY <1>3, <2>1, <2>2, <3>1 DEF ListOK, UsersBefore, UsersOf
    <2>4. udev'.step = "none"
      BY <1>2, <1>10
    <2>5. PICK c \in Changes : c = changes'
      BY <1>3
    <2>6. Runs(c)'
      BY <1>1, <1>2, <1>3, <2>5 DEF Runs, AclTypeOK
    <2> QED BY <2>3, <2>4, <2>6
  <1> QED BY <1>6, <1>7, <1>8, <1>9, <1>11, <1>13, <1>14 DEF AclInv

\* A handler goes on when its program has ended.
LEMMA Returns ==
  ASSUME AclInv, ck_run_programs_returns
  PROVE  AclInv'
  <1> DEFINE h == handlers[Len(handlers)]
  <1>1. /\ AclTypeOK /\ SeatsOK /\ PlugsOK /\ DatabaseFresh /\ HandlersOK /\ SignalsOK
        /\ ProgramsOK /\ ListsOK
    BY DEF AclInv
  <1>2. /\ handlers # <<>> /\ programs[h.change].step = "none"
        /\ handlers' = SubSeq(handlers, 1, Len(handlers) - 1)
        /\ told' = IF h.new = NoSession THEN told ELSE [told EXCEPT ![h.seat] = h.new]
        /\ UNCHANGED <<active, database, readable, remains, programs, udev, plugged, acl,
                       changes, plugs, nested, failed>>
    BY DEF ck_run_programs_returns, Last, Front, dbvars
  <1>3. handlers \in Seq(Handler) /\ Len(handlers) \in Nat \ {0} /\ h \in Handler
    <2>1. handlers \in Seq(Handler)
      BY <1>1 DEF AclTypeOK, Handler
    <2> QED BY <1>2, <2>1
  <1> HIDE DEF h
  <1>4. AclTypeOK'
    <2>1. handlers' \in Seq(Handler)
      BY <1>2, <1>3
    <2>2. told' \in [Seats -> Sessions \cup {NoSession}]
      BY <1>1, <1>2, <1>3 DEF AclTypeOK, Handler
    <2> QED BY <1>1, <1>2, <2>1, <2>2 DEF AclTypeOK, Handler
  <1>5. Active' = Active
    BY <1>2 DEF Active
  <1>6. SeatsOK' /\ PlugsOK' /\ DatabaseFresh'
    BY <1>1, <1>2, <1>5 DEF SeatsOK, PlugsOK, DatabaseFresh, OnSeat
  <1>7. ProgramsOK'
    BY <1>1, <1>2, <1>5 DEF ProgramsOK, ProgramOK, Runs, OnSeat
  <1>8. ListsOK'
    BY <1>1, <1>2, <1>5 DEF ListsOK, ListOK, UsersBefore, Gains, Runs
  <1>9. ASSUME ~ nested
        PROVE  /\ handlers' = <<>> /\ handlers[1] = h
               /\ \A c \in Changes : ~ Runs(c)'
    <2>1. Len(handlers) = 1
      BY <1>1, <1>2, <1>9 DEF HandlersOK
    <2>2. handlers[1] = h
      BY <2>1 DEF h
    <2>3. Len(handlers') = 0 /\ handlers' = <<>>
      BY <1>2, <1>3, <2>1
    <2>4. \A c \in Changes : ~ Runs(c)'
      BY <1>1, <1>2, <1>9, <2>2 DEF HandlersOK, Runs
    <2> QED BY <2>2, <2>3, <2>4
  <1>10. HandlersOK'
    BY <1>2, <1>9 DEF HandlersOK
  <1>11. SignalsOK'
    <2> SUFFICES ASSUME ~ nested, NEW s \in Seats
                 PROVE  active[s] \in {NoSession, told'[s]}
      BY <1>2 DEF SignalsOK
    <2>1. h.new = active[h.seat] /\ (active[s] \notin {NoSession, told[s]} => h.seat = s)
      BY <1>1, <1>2, <1>9 DEF HandlersOK, SignalsOK
    <2> QED BY <1>1, <1>2, <2>1 DEF AclTypeOK
  <1> QED BY <1>4, <1>6, <1>7, <1>8, <1>10, <1>11 DEF AclInv

\* A program is killed.
LEMMA TimesOut ==
  ASSUME AclInv, NEW c \in Changes, _child_timeout(c)
  PROVE  AclInv'
  <1>1. /\ AclTypeOK /\ SeatsOK /\ PlugsOK /\ DatabaseFresh /\ HandlersOK /\ SignalsOK
        /\ ProgramsOK /\ ListsOK
    BY DEF AclInv
  <1>2. /\ programs' = [programs EXCEPT ![c] = NoProgram] /\ failed' = TRUE
        /\ UNCHANGED <<active, database, readable, remains, handlers, udev, plugged, acl, told,
                       changes, plugs, nested>>
    BY DEF _child_timeout, dbvars
  <1>3. NoProgram \in Program /\ NoProgram.step = "none"
    BY DEF NoProgram, Program, Steps
  <1>4. AclTypeOK'
    BY <1>1, <1>2, <1>3 DEF AclTypeOK
  <1>5. SeatsOK' /\ PlugsOK' /\ SignalsOK'
    BY <1>1, <1>2 DEF SeatsOK, PlugsOK, SignalsOK, OnSeat
  <1>6. DatabaseFresh' /\ ProgramsOK' /\ ListsOK'
    BY <1>2 DEF DatabaseFresh, ProgramsOK, ListsOK
  <1>7. \A d \in Changes : Runs(d)' => Runs(d)
    BY <1>1, <1>2, <1>3 DEF Runs, AclTypeOK
  <1>8. HandlersOK'
    BY <1>1, <1>2, <1>7 DEF HandlersOK
  <1> QED BY <1>4, <1>5, <1>6, <1>8 DEF AclInv

\* The program of a change goes on to q: what is to be shown of the list.
LEMMA ProgramSteps ==
  ASSUME AclInv, NEW c \in Changes, Runs(c), NEW q \in Program,
         programs' = [programs EXCEPT ![c] = q],
         UNCHANGED <<active, dbvars, handlers, udev, plugged, told, changes, plugs, nested, failed>>,
         acl' \subseteq Users, ~ plugged => acl' = {},
         ~ nested /\ ~ failed /\ q.step # "none" => ProgramOK(q),
         ~ nested /\ ~ failed /\ plugged =>
            /\ udev.step # "none" => acl' \subseteq UsersOf(Active)
            /\ udev.step = "none" /\ q.step \in {"read", "remove"}
                 => acl' \in {UsersOf(Active), UsersBefore(q)}
            /\ udev.step = "none" /\ q.step = "add"
                 => acl' \subseteq UsersOf(Active) /\ UsersOf(Active) \subseteq acl' \cup Gains(q)
            /\ udev.step = "none" /\ q.step = "none" => acl' = UsersOf(Active)
  PROVE  AclInv'
  <1>1. /\ AclTypeOK /\ SeatsOK /\ PlugsOK /\ DatabaseFresh /\ HandlersOK /\ SignalsOK
        /\ ProgramsOK /\ ListsOK
    BY DEF AclInv
  <1>2. UNCHANGED <<active, database, readable, remains, handlers, udev, plugged, told,
                    changes, plugs, nested, failed>>
    BY DEF dbvars
  <1>3. AclTypeOK'
    BY <1>1, <1>2 DEF AclTypeOK
  <1>4. Active' = Active
    BY <1>2 DEF Active
  <1>5. SeatsOK' /\ PlugsOK' /\ SignalsOK' /\ DatabaseFresh'
    BY <1>1, <1>2, <1>4 DEF SeatsOK, PlugsOK, SignalsOK, OnSeat, DatabaseFresh
  <1>6. \A d \in Changes : Runs(d)' => Runs(d)
    BY <1>1 DEF Runs, AclTypeOK
  <1>7. HandlersOK'
    BY <1>1, <1>2, <1>6 DEF HandlersOK
  <1>8. ~ nested => \A d \in Changes : Runs(d)' => d = c
    BY <1>1, <1>6 DEF HandlersOK
  <1>9. programs'[c] = q /\ (Runs(c)' <=> q.step # "none")
    BY <1>1 DEF Runs, AclTypeOK
  <1>10. ProgramsOK'
    <2>1. ASSUME ~ nested, ~ failed, NEW d \in Changes, Runs(d)'
          PROVE  ProgramOK(programs[d])'
      <3>1. programs'[d] = q /\ q.step # "none"
        BY <1>8, <1>9, <2>1
      <3>2. ProgramOK(q)
        BY <2>1, <3>1
      <3> QED BY <1>2, <1>4, <3>1, <3>2 DEF ProgramOK, OnSeat
    <2>2. ~ nested /\ ~ failed /\ udev'.step = "add" => udev'.list = UsersOf(Active')
      BY <1>1, <1>2, <1>4 DEF ProgramsOK
    <2> QED BY <1>2, <2>1, <2>2 DEF ProgramsOK, UsersOf
  <1>11. ListsOK'
    <2> SUFFICES ASSUME ~ nested, ~ failed, plugged
                 PROVE  /\ udev.step # "none" => acl' \subseteq UsersOf(Active')
                        /\ udev.step = "none" => \A d \in Changes : Runs(d)' => ListOK(programs[d])'
                        /\ udev.step = "none" /\ (\A d \in Changes : ~ Runs(d)')
                             => acl' = UsersOf(Active')
      BY <1>2 DEF ListsOK, UsersOf
    <2>1. udev.step # "none" => acl' \subseteq UsersOf(Active')
      BY <1>4
    <2>2. ASSUME udev.step = "none", NEW d \in Changes, Runs(d)'
          PROVE  ListOK(programs[d])'
      <3>1. programs'[d] = q
        BY <1>8, <1>9, <2>2
      <3>2. /\ q.step \in {"read", "remove"} => acl' \in {UsersOf(Active), UsersBefore(q)}
            /\ q.step = "add" => /\ acl' \subseteq UsersOf(Active)
                                 /\ UsersOf(Active) \subseteq acl' \cup Gains(q)
        BY <2>2
      <3> QED BY <1>4, <3>1, <3>2 DEF ListOK, UsersBefore, UsersOf, Gains
    <2>3. ASSUME udev.step = "none", \A d \in Changes : ~ Runs(d)'
          PROVE  acl' = UsersOf(Active')
      BY <1>4, <1>9, <2>3
    <2> QED BY <2>1, <2>2, <2>3
  <1> QED BY <1>3, <1>5, <1>7, <1>10, <1>11 DEF AclInv

\* Reading the database: without a failure it shows the active sessions.
LEMMA Reads ==
  ASSUME AclInv, NEW own
  PROVE  /\ uids_with_local_active_session(own) \subseteq Users
         /\ ~ failed /\ own \notin Active => uids_with_local_active_session(own) = UsersOf(Active)
  <1>1. AclTypeOK /\ DatabaseFresh
    BY DEF AclInv
  <1>2. uids_with_local_active_session(own) \subseteq Users
    BY <1>1, AclAssumption DEF uids_with_local_active_session, UsersOf, AclTypeOK
  <1>3. ASSUME ~ failed, own \notin Active
        PROVE  uids_with_local_active_session(own) = UsersOf(Active)
    <2>1. readable /\ database \ {own} = Active
      BY <1>1, <1>3 DEF DatabaseFresh
    <2> QED BY <2>1 DEF uids_with_local_active_session
  <1> QED BY <1>2, <1>3

\* udev-acl, run by the manager.
LEMMA Called ==
  ASSUME AclInv, NEW c \in Changes, consolekit_called(c)
  PROVE  AclInv'
  <1> DEFINE p == programs[c]
  <1>1. /\ AclTypeOK /\ SeatsOK /\ PlugsOK /\ ProgramsOK /\ ListsOK
    BY DEF AclInv
  <1>2. p \in Program /\ acl \subseteq Users
    BY <1>1 DEF AclTypeOK
  <1>3. UNCHANGED <<active, dbvars, handlers, udev, plugged, told, changes, plugs, nested, failed>>
    BY DEF consolekit_called
  <1>4. \/ /\ p.step = "read" /\ Leaves(p.old, p.new)
           /\ programs' = [programs EXCEPT ![c].step = "remove",
                             ![c].list = uids_with_local_active_session(p.old)]
           /\ acl' = acl
        \/ /\ p.step = "read" /\ ~ Leaves(p.old, p.new)
           /\ programs' = [programs EXCEPT ![c].step = "add"] /\ acl' = acl
        \/ /\ p.step = "remove" /\ programs' = [programs EXCEPT ![c].step = "add"]
           /\ acl' = IF plugged THEN remove_uid(p) ELSE acl
        \/ /\ p.step = "add" /\ programs' = [programs EXCEPT ![c] = NoProgram]
           /\ acl' = IF plugged /\ Enters(p.old, p.new) THEN acl \cup {UserOf[p.new]} ELSE acl
    BY DEF consolekit_called
  <1>5. Runs(c)
    BY <1>4 DEF Runs
  <1>6. /\ ~ nested /\ ~ failed => ProgramOK(p)
        /\ ~ nested /\ ~ failed /\ plugged /\ udev.step = "none" => ListOK(p)
        /\ ~ nested /\ ~ failed /\ plugged /\ udev.step # "none" => acl \subseteq UsersOf(Active)
    BY <1>1, <1>5 DEF ProgramsOK, ListsOK
  <1>7. ~ nested /\ ~ failed => p.old \notin Active /\ (p.new \in Local => p.new \in Active)
    BY <1>1, <1>6, OldAndNew DEF ProgramOK
  <1>8. ~ plugged => acl = {}
    BY <1>1 DEF PlugsOK
  <1>9. DOMAIN programs = Changes
    BY <1>1 DEF AclTypeOK
  <1> HIDE DEF p
  <1>11. CASE p.step = "read" /\ Leaves(p.old, p.new) /\ acl' = acl /\
              programs' = [programs EXCEPT ![c].step = "remove",
                             ![c].list = uids_with_local_active_session(p.old)]
    <2> DEFINE q == [p EXCEPT !.step = "remove", !.list = uids_with_local_active_session(p.old)]
    <2>1. /\ q \in Program /\ q.step = "remove" /\ q.old = p.old /\ q.new = p.new
          /\ q.list = uids_with_local_active_session(p.old)
      BY <1>2, Reads DEF Program, Steps
    <2>2. programs' = [programs EXCEPT ![c] = q]
      BY <1>9, <1>11 DEF p
    <2> HIDE DEF q
    <2>3. ~ nested /\ ~ failed => q.list = UsersOf(Active)
      BY <1>7, <2>1, Reads
    <2>4. ~ nested /\ ~ failed => ProgramOK(q)
      BY <1>6, <1>11, <2>1, <2>3 DEF ProgramOK
    <2>5. ~ nested /\ ~ failed /\ plugged /\ udev.step = "none"
            => acl' \in {UsersOf(Active), UsersBefore(q)}
      BY <1>6, <1>11, <2>1 DEF ListOK, UsersBefore
    <2> QED BY <1>2, <1>3, <1>5, <1>6, <1>8, <1>11, <2>1, <2>2, <2>4, <2>5, ProgramSteps
  <1>12. ASSUME programs' = [programs EXCEPT ![c].step = "add"],
                acl' \subseteq Users, ~ plugged => acl' = {},
                ~ nested /\ ~ failed /\ plugged =>
                   IF udev.step # "none" THEN acl' \subseteq UsersOf(Active)
                   ELSE acl' \subseteq UsersOf(Active) /\ UsersOf(Active) \subseteq acl' \cup Gains(p)
         PROVE  AclInv'
    <2> DEFINE q == [p EXCEPT !.step = "add"]
    <2>1. q \in Program /\ q.step = "add" /\ q.old = p.old /\ q.new = p.new
      BY <1>2 DEF Program, Steps
    <2>2. programs' = [programs EXCEPT ![c] = q]
      BY <1>9, <1>12 DEF p
    <2> HIDE DEF q
    <2>3. ~ nested /\ ~ failed => ProgramOK(q)
      BY <1>6, <2>1 DEF ProgramOK
    <2>4. Gains(q) = Gains(p)
      BY <2>1 DEF Gains
    <2> QED BY <1>3, <1>5, <1>12, <2>1, <2>2, <2>3, <2>4, ProgramSteps
  <1>13. CASE p.step = "read" /\ ~ Leaves(p.old, p.new) /\ acl' = acl /\
              programs' = [programs EXCEPT ![c].step = "add"]
    <2>1. ~ nested /\ ~ failed /\ plugged /\ udev.step = "none" =>
            acl \subseteq UsersOf(Active) /\ UsersOf(Active) \subseteq acl \cup Gains(p)
      BY <1>1, <1>2, <1>6, <1>13, NobodyLeaves DEF ListOK
    <2> QED BY <1>2, <1>6, <1>8, <1>12, <1>13, <2>1
  <1>14. CASE p.step = "remove" /\ programs' = [programs EXCEPT ![c].step = "add"] /\
              acl' = IF plugged THEN remove_uid(p) ELSE acl
    <2>1. acl' \subseteq acl
      BY <1>14 DEF remove_uid
    <2>2. ~ nested /\ ~ failed /\ plugged /\ udev.step = "none" =>
            acl' \subseteq UsersOf(Active) /\ UsersOf(Active) \subseteq acl' \cup Gains(p)
      BY <1>1, <1>2, <1>6, <1>14, OneLeaves DEF ListOK
    <2> QED BY <1>2, <1>6, <1>8, <1>12, <1>14, <2>1, <2>2
  <1>15. CASE p.step = "add" /\ programs' = [programs EXCEPT ![c] = NoProgram] /\
              acl' = IF plugged /\ Enters(p.old, p.new) THEN acl \cup {UserOf[p.new]} ELSE acl
    <2>1. NoProgram \in Program /\ NoProgram.step = "none"
      BY DEF NoProgram, Program, Steps
    <2>2. acl' = IF plugged THEN acl \cup Gains(p) ELSE acl
      BY <1>15 DEF Gains
    <2>3. Gains(p) \subseteq Users
      BY AclAssumption DEF Gains, Enters
    <2>4. ~ nested /\ ~ failed => Gains(p) \subseteq UsersOf(Active)
      BY <1>1, <1>2, <1>6, GainsIs
    <2>5. ~ nested /\ ~ failed /\ plugged /\ udev.step = "none" => acl' = UsersOf(Active)
      BY <1>6, <1>15, <2>2, <2>4 DEF ListOK
    <2>6. ~ nested /\ ~ failed /\ plugged /\ udev.step # "none" => acl' \subseteq UsersOf(Active)
      BY <1>6, <2>2, <2>4
    <2> QED BY <1>2, <1>3, <1>5, <1>8, <1>15, <2>1, <2>2, <2>3, <2>5, <2>6, ProgramSteps
  <1> QED BY <1>4, <1>11, <1>13, <1>14, <1>15

\* The device comes or goes, or udev's udev-acl makes a step.
LEMMA DeviceSteps ==
  ASSUME AclInv, Plug \/ Unplug \/ AddDevice
  PROVE  AclInv'
  <1>1. /\ AclTypeOK /\ SeatsOK /\ PlugsOK /\ DatabaseFresh /\ HandlersOK /\ SignalsOK
        /\ ProgramsOK /\ ListsOK
    BY DEF AclInv
  <1>2. UNCHANGED <<active, database, readable, remains, handlers, programs, told, changes,
                    nested, failed>>
    BY DEF Plug, Unplug, AddDevice, dbvars
  <1>3. Active' = Active
    BY <1>2 DEF Active
  <1>4. SeatsOK' /\ SignalsOK' /\ DatabaseFresh'
    BY <1>1, <1>2, <1>3 DEF SeatsOK, SignalsOK, OnSeat, DatabaseFresh
  <1>5. HandlersOK'
    BY <1>1, <1>2 DEF HandlersOK, Runs
  <1>6. NoProgram \in Program /\ NoProgram.step = "none"
    BY DEF NoProgram, Program, Steps
  <1>7. NoSession \notin Active
    BY ActiveIs
  <1>8. /\ ~ nested /\ ~ failed => \A c \in Changes : Runs(c)' => ProgramOK(programs[c])'
        /\ ~ nested /\ ~ failed /\ udev.step = "add" => udev.list = UsersOf(Active)
    BY <1>1, <1>2, <1>3 DEF ProgramsOK, ProgramOK, Runs, OnSeat
  <1>9. CASE Plug
    <2>1. /\ ~ plugged /\ plugged' = TRUE /\ plugs < MaxPlugs /\ plugs' = plugs + 1 /\ acl' = acl
          /\ udev' = [NoProgram EXCEPT !.step = "read"]
      BY <1>9 DEF Plug
    <2>2. udev' \in Program /\ udev'.step = "read"
      BY <2>1 DEF NoProgram, Program, Steps
    <2>3. acl' = {}
      BY <1>1, <2>1 DEF PlugsOK
    <2>4. plugs' \in 0 .. MaxPlugs
      BY <1>1, <2>1, AclAssumption DEF AclTypeOK
    <2>5. AclTypeOK'
      BY <1>1, <1>2, <2>1, <2>2, <2>3, <2>4 DEF AclTypeOK
    <2>6. PlugsOK' /\ ListsOK'
      BY <2>2, <2>3 DEF PlugsOK, ListsOK
    <2>7. ProgramsOK'
      BY <1>2, <1>8, <2>2 DEF ProgramsOK
    <2> QED BY <1>4, <1>5, <2>5, <2>6, <2>7 DEF AclInv
  <1>10. CASE Unplug
    <2>1. plugged' = FALSE /\ acl' = {} /\ UNCHANGED <<udev, plugs>>
      BY <1>10 DEF Unplug
    <2>2. AclTypeOK'
      BY <1>1, <1>2, <2>1 DEF AclTypeOK
    <2>3. PlugsOK' /\ ListsOK'
      BY <2>1 DEF PlugsOK, ListsOK
    <2>4. ProgramsOK'
      BY <1>2, <1>3, <1>8, <2>1 DEF ProgramsOK, UsersOf
    <2> QED BY <1>4, <1>5, <2>2, <2>3, <2>4 DEF AclInv
  <1>11. CASE AddDevice
    <2>1. UNCHANGED <<plugged, plugs>>
      BY <1>11 DEF AddDevice
    <2>2. CASE /\ udev.step = "read" /\ acl' = acl
               /\ udev' = [udev EXCEPT !.step = "add",
                                       !.list = uids_with_local_active_session(NoSession)]
      <3>1. /\ udev' \in Program /\ udev'.step = "add"
            /\ udev'.list = uids_with_local_active_session(NoSession)
        <4>1. udev \in Program
          BY <1>1 DEF AclTypeOK
        <4> QED BY <2>2, <4>1, Reads DEF Program, Steps
      <3>2. AclTypeOK'
        BY <1>1, <1>2, <2>1, <2>2, <3>1 DEF AclTypeOK
      <3>3. ~ failed => udev'.list = UsersOf(Active')
        BY <1>3, <1>7, <3>1, Reads
      <3>4. ProgramsOK'
        BY <1>2, <1>8, <3>3 DEF ProgramsOK, UsersOf
      <3>5. PlugsOK'
        BY <1>1, <2>1, <2>2 DEF PlugsOK
      <3>6. ~ nested /\ ~ failed /\ plugged => acl' \subseteq UsersOf(Active')
        BY <1>1, <1>3, <2>2 DEF ListsOK
      <3>7. ListsOK'
        BY <1>2, <2>1, <3>1, <3>6 DEF ListsOK, UsersOf
      <3> QED BY <1>4, <1>5, <3>2, <3>4, <3>5, <3>7 DEF AclInv
    <2>3. CASE /\ udev.step = "add" /\ udev' = NoProgram
               /\ acl' = IF plugged THEN acl \cup udev.list ELSE acl
      <3>1. udev' \in Program /\ udev'.step = "none"
        BY <1>6, <2>3
      <3>2. udev.list \subseteq Users /\ acl \subseteq Users
        BY <1>1 DEF AclTypeOK, Program
      <3>3. AclTypeOK'
        BY <1>1, <1>2, <2>1, <2>3, <3>1, <3>2 DEF AclTypeOK
      <3>4. ProgramsOK'
        BY <1>2, <1>8, <3>1 DEF ProgramsOK
      <3>5. PlugsOK'
        BY <1>1, <2>1, <2>3 DEF PlugsOK
      <3>6. ~ nested /\ ~ failed /\ plugged => acl' = UsersOf(Active')
        BY <1>1, <1>3, <1>8, <2>3 DEF ListsOK
      <3>7. ~ nested /\ ~ failed /\ plugged => \A c \in Changes : ListOK(programs[c])'
        BY <3>6 DEF ListOK, UsersOf
      <3>8. ListsOK'
        BY <1>2, <2>1, <3>1, <3>6, <3>7 DEF ListsOK, UsersOf
      <3> QED BY <1>4, <1>5, <3>3, <3>4, <3>5, <3>8 DEF AclInv
    <2> QED BY <1>11, <2>2, <2>3 DEF AddDevice
  <1> QED BY <1>9, <1>10, <1>11

----------------------------------------------------------------------------
(* Theorems.                                                               *)

\* Every step keeps the invariant.
LEMMA NextAcl == AclInv /\ [Next]_vars => AclInv'
  <1> SUFFICES ASSUME AclInv, [Next]_vars PROVE AclInv'
    OBVIOUS
  <1>1. CASE UNCHANGED vars
    <2>1. UNCHANGED <<active, database, readable, remains, handlers, programs, udev, plugged, acl,
                      told, changes, plugs, nested, failed>>
      BY <1>1 DEF vars, dbvars
    <2>2. AclTypeOK' /\ SeatsOK' /\ PlugsOK' /\ DatabaseFresh' /\ HandlersOK' /\ SignalsOK'
      BY <2>1 DEF AclInv, AclTypeOK, SeatsOK, PlugsOK, DatabaseFresh, HandlersOK, SignalsOK,
                  OnSeat, Active, Runs
    <2>3. ProgramsOK' /\ ListsOK'
      BY <2>1 DEF AclInv, ProgramsOK, ListsOK, ProgramOK, ListOK, UsersBefore, Gains, Active,
                  Runs, OnSeat
    <2> QED BY <2>2, <2>3 DEF AclInv
  <1> QED BY <1>1, ChangesActive, Returns, TimesOut, Called, DeviceSteps DEF Next

\* The manager, the database, the programs and the device keep their types.
THEOREM AclTypeCorrect == Spec => []AclTypeOK
  <1>1. AclInv => AclTypeOK
    BY DEF AclInv
  <1> QED BY <1>1, InitAcl, NextAcl, PTL DEF Spec

\* When everything has settled exactly the users with a local active session may open the
\* device, if no change was handled on top of another and nothing failed, for any number of
\* seats and users: see AclFollowsActive.
THEOREM AclCorrect == Spec => []AclFollowsActive
  <1>1. AclInv => AclFollowsActive
    BY DEF AclInv, ListsOK, AclFollowsActive, Quiet, Runs
  <1> QED BY <1>1, InitAcl, NextAcl, PTL DEF Spec

\* The database shows the local sessions that are active as long as no dump and no program
\* fails, however the handlers nest: only a failed dump leaves something in database~.
THEOREM DatabaseCorrect == Spec => [](~ failed => readable /\ database = Active)
  <1>1. AclInv => (~ failed => readable /\ database = Active)
    BY DEF AclInv, DatabaseFresh
  <1> QED BY <1>1, InitAcl, NextAcl, PTL DEF Spec

\* The last ActiveSessionChanged of a seat names its session, whatever failed, if no change
\* was handled on top of another: see LastSignalNamesActive.
THEOREM SignalsCorrect == Spec => [](~ nested => LastSignalNamesActive)
  <1>1. AclInv => (~ nested => LastSignalNamesActive)
    BY DEF AclInv, SignalsOK, LastSignalNamesActive, Quiet
  <1> QED BY <1>1, InitAcl, NextAcl, PTL DEF Spec
=============================================================================
