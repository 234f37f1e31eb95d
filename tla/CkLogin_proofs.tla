--------------------------- MODULE CkLogin_proofs ---------------------------
(***************************************************************************)
(* Proofs about CkLogin, for any number of processes and connections.      *)
(*                                                                         *)
(* That a cookie keeps its session is a matter of what may be on its way   *)
(* to the daemon: a session ends when CloseSession or the loss of its      *)
(* connection is handled, and for the connection that a process still uses *)
(* neither is in the queue before the process has asked for it. That a job *)
(* never outlives its leader rests on OpenSession being called once per    *)
(* connection, so that a session that can be closed has no job any more.   *)
(***************************************************************************)
EXTENDS CkLogin, TLAPS

Message == [conn : Conns, kind : Waits \cup {"Gone"}, about : Conns \cup {NoConn}]

\* A process uses a connection of its own, which is open; it has one while it waits or has
\* a session, and a cookie only after OpenSession was answered and until it has closed the
\* session.
ProcsOK ==
  /\ \A p \in Procs : /\ conn[p] # NoConn => conn[p] \in up /\ owner[conn[p]] = p
                      /\ pc[p] \in Waits \cup {"in", "lost", "closed"} => conn[p] # NoConn
                      /\ pc[p] \in {"out", "failed", "closed", "Open", "gone"} => p \notin created
                      /\ pc[p] = "gone" => conn[p] = NoConn
  /\ \A k \in up : owner[k] # NoProc
  /\ \A k \in leaders : owner[k] # NoProc

\* What may be said of a message that is on its way.
MessageOK(m) ==
  /\ owner[m.conn] # NoProc
  /\ m.kind = "Gone" => m.conn \notin up
  /\ m.kind = "Close" => /\ m.about = m.conn
                         /\ conn[owner[m.conn]] = m.conn
                              => pc[owner[m.conn]] \in {"Close", "lost", "closed"}
  /\ m.kind = "Open" => m.conn \notin leaders

MessagesOK == \A i \in 1 .. Len(inbox) : MessageOK(inbox[i])

\* OpenSession is called once per connection.
OpensOnce ==
  \A i, j \in 1 .. Len(inbox) :
    i # j /\ inbox[i].kind = "Open" /\ inbox[j].kind = "Open" => inbox[i].conn # inbox[j].conn

\* A session has no job any more; a child that has come to its end has printed everything,
\* and all of it has been read when the output was closed.
JobsOK ==
  /\ sessions \cap (out \cup err) = {}
  /\ \A k \in Conns : /\ child[k] = "ok" => wrote[k] = Len(Output)
                      /\ k \in err \ out /\ k \notin broken => got[k] = wrote[k] /\ child[k] # "run"

\* Who is about to be told of a session has it.
RepliesOK == \A p \in Procs : pc[p] = "Open" /\ reply[conn[p]] = "ok" => conn[p] \in sessions

\* The inductive invariant.
LoginInv ==
  /\ LoginTypeOK /\ ProcsOK /\ MessagesOK /\ OpensOnce /\ JobsOK /\ RepliesOK
  /\ JobsHaveLeaders /\ CookieHasSession

\* The type of the state in three parts: the processes', the bus's and the daemon's.
ProcTypes ==
  /\ pc \in [Procs -> Phases]
  /\ conn \in [Procs -> Conns \cup {NoConn}]
  /\ created \subseteq Procs
  /\ ssid \in [Procs -> Conns \cup {NoConn}] /\ dir \in [Procs -> Conns \cup {NoConn}]

BusTypes ==
  /\ owner \in [Conns -> Procs \cup {NoProc}]
  /\ up \subseteq Conns
  /\ inbox \in Seq(Message)
  /\ reply \in [Conns -> {"none", "ok", "error"}]

DaemonTypes ==
  /\ leaders \subseteq Conns /\ sessions \subseteq Conns
  /\ params \in [Conns -> [Params -> {"absent", "given", "collected"}]]
  /\ child \in [Conns -> {"none", "run", "ok", "failed", "killed", "reaped"}]
  /\ wrote \in [Conns -> 0 .. Len(Output)] /\ got \in [Conns -> 0 .. Len(Output)]
  /\ out \subseteq Conns /\ err \subseteq Conns /\ broken \subseteq Conns

daemonvars == <<leaders, sessions, params, jobvars>>

----------------------------------------------------------------------------
LEMMA TypeParts == LoginTypeOK <=> ProcTypes /\ BusTypes /\ DaemonTypes
  BY DEF LoginTypeOK, ProcTypes, BusTypes, DaemonTypes, Message

LEMMA NoConnIsNone == NoConn \notin Conns /\ Len(Output) \in Nat
  BY LoginAssumption DEF NoConn, Conns

\* Initially nobody is logged in.
LEMMA InitLogin == Init => LoginInv
  <1> SUFFICES ASSUME Init PROVE LoginInv
    OBVIOUS
  <1>1. ProcTypes
    BY DEF Init, ProcTypes, Phases
  <1>2. BusTypes
    BY DEF Init, BusTypes
  <1>3. DaemonTypes
    BY NoConnIsNone DEF Init, DaemonTypes, NoParams
  <1>4. ProcsOK
    BY DEF Init, ProcsOK, Waits
  <1>5. MessagesOK /\ OpensOnce /\ JobsHaveLeaders /\ CookieHasSession
    BY DEF Init, MessagesOK, OpensOnce, JobsHaveLeaders, CookieHasSession
  <1>6. JobsOK /\ RepliesOK
    BY DEF Init, JobsOK, RepliesOK
  <1> QED BY <1>1, <1>2, <1>3, <1>4, <1>5, <1>6, TypeParts DEF LoginInv

----------------------------------------------------------------------------
(* The queue of the daemon.                                                *)

\* A message is sent.
LEMMA Sent ==
  ASSUME LoginInv, NEW m \in Message, inbox' = Append(inbox, m),
         \A x \in Message : MessageOK(x) => MessageOK(x)',
         MessageOK(m)',
         m.kind = "Open" => \A i \in 1 .. Len(inbox) : inbox[i].conn # m.conn
  PROVE  inbox' \in Seq(Message) /\ MessagesOK' /\ OpensOnce'
  <1>1. inbox \in Seq(Message) /\ MessagesOK /\ OpensOnce
    BY TypeParts DEF LoginInv, BusTypes
  <1>2. /\ inbox' \in Seq(Message) /\ Len(inbox') = Len(inbox) + 1
        /\ \A i \in 1 .. Len(inbox) : inbox'[i] = inbox[i] /\ inbox[i] \in Message
        /\ inbox'[Len(inbox) + 1] = m
        /\ Len(inbox) \in Nat
    BY <1>1
  <1>3. MessagesOK'
    <2> SUFFICES ASSUME NEW i \in 1 .. Len(inbox') PROVE MessageOK(inbox[i])'
      BY DEF MessagesOK
    <2>1. CASE i \in 1 .. Len(inbox)
      <3>1. MessageOK(inbox[i]) /\ inbox[i] \in Message
        BY <2>1, <1>1, <1>2 DEF MessagesOK
      <3>2. \A x \in Message : x = inbox'[i] /\ MessageOK(x)' => MessageOK(inbox[i])'
        BY DEF MessageOK
      <3>3. PICK x \in Message : x = inbox[i]
        BY <3>1
      <3>4. MessageOK(x)'
        BY <3>1, <3>3
      <3> QED BY <1>2, <2>1, <3>2, <3>3, <3>4
    <2>2. CASE i = Len(inbox) + 1
      BY <2>2, <1>2 DEF MessageOK
    <2> QED BY <2>1, <2>2, <1>2
  <1>4. OpensOnce'
    BY <1>1, <1>2 DEF OpensOnce
  <1> QED BY <1>2, <1>3, <1>4

\* No message is sent or handled.
LEMMA Kept ==
  ASSUME LoginInv, inbox' = inbox, \A x \in Message : MessageOK(x) => MessageOK(x)'
  PROVE  inbox' \in Seq(Message) /\ MessagesOK' /\ OpensOnce'
  <1>1. inbox \in Seq(Message) /\ MessagesOK /\ OpensOnce
    BY TypeParts DEF LoginInv, BusTypes
  <1>2. MessagesOK'
    <2> SUFFICES ASSUME NEW i \in 1 .. Len(inbox') PROVE MessageOK(inbox[i])'
      BY DEF MessagesOK
    <2>1. PICK x \in Message : x = inbox[i] /\ MessageOK(x)
      BY <1>1 DEF MessagesOK
    <2>2. MessageOK(x)'
      BY <2>1
    <2> QED BY <2>1, <2>2 DEF MessageOK
  <1> QED BY <1>1, <1>2 DEF OpensOnce

\* The first message is handled.
LEMMA Taken ==
  ASSUME LoginInv, NEW kind, Handles(kind)
  PROVE  /\ inbox' \in Seq(Message) /\ OpensOnce'
         /\ Head(inbox) \in Message /\ MessageOK(Head(inbox)) /\ Head(inbox).kind = kind
         /\ (\A x \in Message :
               /\ MessageOK(x)
               /\ kind = "Open" /\ x.kind = "Open" => x.conn # Head(inbox).conn
               => MessageOK(x)') => MessagesOK'
  <1>1. inbox \in Seq(Message) /\ MessagesOK /\ OpensOnce
    BY TypeParts DEF LoginInv, BusTypes
  <1>2. /\ inbox # <<>> /\ Head(inbox) = inbox[1] /\ Head(inbox).kind = kind
        /\ inbox' = Tail(inbox)
    BY <1>1 DEF Handles
  <1>3. /\ inbox' \in Seq(Message) /\ Len(inbox') = Len(inbox) - 1 /\ Len(inbox) \in Nat \ {0}
        /\ \A i \in 1 .. Len(inbox') : /\ inbox'[i] = inbox[i + 1] /\ inbox'[i] \in Message
                                       /\ i + 1 \in 1 .. Len(inbox) /\ i + 1 # 1
    BY <1>1, <1>2
  <1>4. OpensOnce'
    <2> SUFFICES ASSUME NEW i \in 1 .. Len(inbox'), NEW j \in 1 .. Len(inbox'), i # j,
                        inbox'[i].kind = "Open", inbox'[j].kind = "Open"
                 PROVE  inbox'[i].conn # inbox'[j].conn
      BY DEF OpensOnce
    <2>1. /\ inbox'[i] = inbox[i + 1] /\ inbox'[j] = inbox[j + 1] /\ i + 1 # j + 1
          /\ i + 1 \in 1 .. Len(inbox) /\ j + 1 \in 1 .. Len(inbox)
      BY <1>3
    <2> QED BY <1>1, <2>1 DEF OpensOnce
  <1>5. Head(inbox) \in Message /\ MessageOK(Head(inbox))
    BY <1>1, <1>2, <1>3 DEF MessagesOK
  <1>6. ASSUME \A x \in Message :
                 /\ MessageOK(x)
                 /\ kind = "Open" /\ x.kind = "Open" => x.conn # Head(inbox).conn
                 => MessageOK(x)'
        PROVE  MessagesOK'
    <2> SUFFICES ASSUME NEW i \in 1 .. Len(inbox') PROVE MessageOK(inbox[i])'
      BY DEF MessagesOK
    <2>1. PICK x \in Message : x = inbox'[i] /\ x = inbox[i + 1]
      BY <1>3
    <2>2. i + 1 \in 1 .. Len(inbox) /\ i + 1 # 1 /\ 1 \in 1 .. Len(inbox)
      BY <1>3
    <2>3. MessageOK(x)
      BY <1>1, <2>1, <2>2 DEF MessagesOK
    <2>4. kind = "Open" /\ x.kind = "Open" => x.conn # Head(inbox).conn
      BY <1>1, <1>2, <2>1, <2>2 DEF OpensOnce
    <2>5. MessageOK(x)'
      BY <1>6, <2>3, <2>4
    <2> QED BY <2>1, <2>5 DEF MessageOK
  <1> QED BY <1>2, <1>3, <1>4, <1>5, <1>6

----------------------------------------------------------------------------
(* The processes.                                                          *)

\* What a process does leaves the daemon alone.
LEMMA DaemonStays ==
  ASSUME LoginInv, UNCHANGED daemonvars
  PROVE  /\ DaemonTypes' /\ JobsOK' /\ JobsHaveLeaders'
         /\ leaders' = leaders /\ sessions' = sessions
  <1>1. UNCHANGED <<leaders, sessions, params, child, wrote, got, out, err, broken>>
    BY DEF daemonvars, jobvars
  <1>2. DaemonTypes /\ JobsOK /\ JobsHaveLeaders
    BY TypeParts DEF LoginInv
  <1> QED BY <1>1, <1>2 DEF DaemonTypes, JobsOK, JobsHaveLeaders

\* Two processes do not share a connection.
LEMMA ConnsApart ==
  ASSUME LoginInv, NEW p \in Procs, NEW q \in Procs, p # q, conn[p] # NoConn
  PROVE  conn[q] # conn[p]
  BY DEF LoginInv, ProcsOK

\* A process that keeps its connection goes on to another phase, with a call or without.
LEMMA GoesOn ==
  ASSUME LoginInv, NEW p \in Procs, NEW phase \in Phases \ {"Open", "out", "gone"},
         pc[p] # "gone", conn[p] # NoConn,
         pc' = [pc EXCEPT ![p] = phase],
         UNCHANGED <<conn, owner, up, daemonvars>>,
         created' \subseteq Procs, created' \ {p} = created \ {p},
         ssid' \in [Procs -> Conns \cup {NoConn}], dir' \in [Procs -> Conns \cup {NoConn}],
         reply' \in [Conns -> {"none", "ok", "error"}],
         \A k \in Conns \ {conn[p]} : reply'[k] = reply[k],
         pc[p] \in {"Close", "lost", "closed"} => phase \in {"Close", "lost", "closed"},
         phase \in {"failed", "closed"} => p \notin created',
         p \in created' /\ phase \notin {"Close", "lost"} => conn[p] \in sessions,
         \/ inbox' = inbox
         \/ \E m \in Message :
              /\ inbox' = Append(inbox, m) /\ m.conn = conn[p] /\ m.kind = phase
              /\ phase \in {"Ssid", "Dir", "Close"}
              /\ phase = "Close" => m.about = conn[p]
  PROVE  LoginInv'
  <1>1. /\ ProcTypes /\ BusTypes /\ ProcsOK /\ RepliesOK /\ CookieHasSession
    BY TypeParts DEF LoginInv
  <1>2. /\ DaemonTypes' /\ JobsOK' /\ JobsHaveLeaders'
        /\ leaders' = leaders /\ sessions' = sessions
    BY DaemonStays
  <1>3. \A q \in Procs : pc'[q] = IF q = p THEN phase ELSE pc[q]
    BY <1>1 DEF ProcTypes
  <1>4. ProcTypes'
    BY <1>1 DEF ProcTypes
  <1>5. ProcsOK'
    BY <1>1, <1>2, <1>3 DEF ProcsOK, Waits
  <1>6. CookieHasSession'
    BY <1>1, <1>2, <1>3 DEF CookieHasSession, ProcTypes
  <1>7. RepliesOK'
    <2> SUFFICES ASSUME NEW q \in Procs, pc'[q] = "Open", reply'[conn[q]] = "ok"
                 PROVE  conn[q] \in sessions
      BY <1>2 DEF RepliesOK
    <2>1. q # p /\ pc[q] = "Open"
      BY <1>3
    <2>2. conn[q] \in Conns /\ conn[q] # conn[p]
      BY <1>1, <2>1, ConnsApart DEF ProcsOK, ProcTypes, Waits
    <2> QED BY <1>1, <2>1, <2>2 DEF RepliesOK
  <1>8. \A x \in Message : MessageOK(x) => MessageOK(x)'
    <2> SUFFICES ASSUME NEW x \in Message, MessageOK(x) PROVE MessageOK(x)'
      OBVIOUS
    <2>1. x.conn \in Conns
      BY DEF Message
    <2>2. owner[x.conn] \in Procs
      BY <1>1, <2>1 DEF MessageOK, BusTypes
    <2> QED BY <1>2, <1>3, <2>1, <2>2 DEF MessageOK
  <1>9. inbox' \in Seq(Message) /\ MessagesOK' /\ OpensOnce'
    <2>1. CASE inbox' = inbox
      BY <1>8, <2>1, Kept
    <2>2. ASSUME NEW m \in Message,
                 inbox' = Append(inbox, m), m.conn = conn[p], m.kind = phase,
                 phase \in {"Ssid", "Dir", "Close"},
                 phase = "Close" => m.about = conn[p]
          PROVE  inbox' \in Seq(Message) /\ MessagesOK' /\ OpensOnce'
      <3>1. owner[conn[p]] = p
        BY <1>1 DEF ProcsOK
      <3>2. MessageOK(m)'
        BY <1>3, <2>2, <3>1, LoginAssumption DEF MessageOK
      <3> QED BY <1>8, <2>2, <3>2, Sent
    <2> QED BY <2>1, <2>2
  <1>10. BusTypes'
    BY <1>1, <1>9 DEF BusTypes
  <1>11. LoginTypeOK'
    BY <1>2, <1>4, <1>10, TypeParts DEF LoginTypeOK, ProcTypes, BusTypes, DaemonTypes, Message
  <1> QED BY <1>2, <1>5, <1>6, <1>7, <1>9, <1>11 DEF LoginInv

\* A process gives its connection up: it is gone, or the connection is closed and the bus
\* says so.
LEMMA Leaves ==
  ASSUME LoginInv, NEW p \in Procs, NEW phase \in {"out", "gone"},
         pc' = [pc EXCEPT ![p] = phase],
         conn' = [conn EXCEPT ![p] = NoConn],
         created' = created \ {p},
         ssid' = [ssid EXCEPT ![p] = NoConn], dir' = [dir EXCEPT ![p] = NoConn],
         \E K \in SUBSET Conns : /\ \A q \in Procs \ {p} : conn[q] \notin K
                                 /\ reply' = [k \in Conns |-> IF k \in K THEN "none" ELSE reply[k]],
         UNCHANGED <<owner, daemonvars>>,
         \/ UNCHANGED <<up, inbox>>
         \/ /\ conn[p] \in up /\ up' = up \ {conn[p]}
            /\ inbox' = Append(inbox, Msg(conn[p], "Gone", NoConn))
  PROVE  LoginInv'
  <1>1. ProcTypes /\ BusTypes /\ ProcsOK /\ RepliesOK /\ CookieHasSession
    BY TypeParts DEF LoginInv
  <1>2. /\ DaemonTypes' /\ JobsOK' /\ JobsHaveLeaders'
        /\ leaders' = leaders /\ sessions' = sessions
    BY DaemonStays
  <1>3. \A q \in Procs : /\ pc'[q] = IF q = p THEN phase ELSE pc[q]
                         /\ conn'[q] = IF q = p THEN NoConn ELSE conn[q]
    BY <1>1 DEF ProcTypes
  <1>4. ProcTypes'
    BY <1>1 DEF ProcTypes, Phases
  <1>5. up' \subseteq up /\ \A q \in Procs \ {p} : conn[q] \in up => conn[q] \in up'
    <2>1. conn[p] \in up => conn[p] # NoConn
      BY <1>1, NoConnIsNone DEF BusTypes
    <2> QED BY <2>1, ConnsApart
  <1>6. ProcsOK'
    <2>1. ASSUME NEW q \in Procs
          PROVE  /\ conn'[q] # NoConn => conn'[q] \in up' /\ owner'[conn'[q]] = q
                 /\ pc'[q] \in Waits \cup {"in", "lost", "closed"} => conn'[q] # NoConn
                 /\ pc'[q] \in {"out", "failed", "closed", "Open", "gone"} => q \notin created'
                 /\ pc'[q] = "gone" => conn'[q] = NoConn
      BY <1>1, <1>3, <1>5 DEF ProcsOK, Waits
    <2> QED BY <1>1, <1>2, <1>5, <2>1 DEF ProcsOK
  <1>7. CookieHasSession'
    BY <1>1, <1>2, <1>3 DEF CookieHasSession, ProcTypes
  <1>8. PICK K \in SUBSET Conns :
          /\ \A q \in Procs \ {p} : conn[q] \notin K
          /\ reply' = [k \in Conns |-> IF k \in K THEN "none" ELSE reply[k]]
    OBVIOUS
  <1>9. RepliesOK'
    <2> SUFFICES ASSUME NEW q \in Procs, pc'[q] = "Open", reply'[conn'[q]] = "ok"
                 PROVE  conn'[q] \in sessions
      BY <1>2 DEF RepliesOK
    <2>1. q # p /\ pc[q] = "Open" /\ conn'[q] = conn[q]
      BY <1>3
    <2>2. conn[q] \in Conns \ K
      BY <1>1, <1>8, <2>1 DEF ProcsOK, ProcTypes, Waits
    <2> QED BY <1>1, <1>8, <2>1, <2>2 DEF RepliesOK
  <1>10. \A x \in Message : MessageOK(x) => MessageOK(x)'
    <2> SUFFICES ASSUME NEW x \in Message, MessageOK(x) PROVE MessageOK(x)'
      OBVIOUS
    <2>1. x.conn \in Conns /\ x.conn # NoConn
      BY NoConnIsNone DEF Message
    <2>2. owner[x.conn] \in Procs
      BY <1>1, <2>1 DEF MessageOK, BusTypes
    <2> QED BY <1>2, <1>3, <1>5, <2>1, <2>2 DEF MessageOK
  <1>11. inbox' \in Seq(Message) /\ MessagesOK' /\ OpensOnce'
    <2>1. CASE inbox' = inbox
      BY <1>10, <2>1, Kept
    <2>2. CASE /\ conn[p] \in up /\ up' = up \ {conn[p]}
               /\ inbox' = Append(inbox, Msg(conn[p], "Gone", NoConn))
      <3>1. PICK m \in Message : /\ m = Msg(conn[p], "Gone", NoConn)
                                 /\ m.conn = conn[p] /\ m.kind = "Gone"
        BY <1>1, <2>2 DEF Msg, Message, BusTypes
      <3>2. MessageOK(m)'
        BY <1>1, <2>2, <3>1 DEF MessageOK, ProcsOK
      <3> QED BY <1>10, <2>2, <3>1, <3>2, Sent
    <2> QED BY <2>1, <2>2
  <1>12. BusTypes'
    BY <1>1, <1>5, <1>8, <1>11 DEF BusTypes
  <1>13. LoginTypeOK'
    BY <1>2, <1>4, <1>12, TypeParts DEF LoginTypeOK, ProcTypes, BusTypes, DaemonTypes, Message
  <1> QED BY <1>2, <1>6, <1>7, <1>9, <1>11, <1>13 DEF LoginInv

\* ck_connector_unref.
LEMMA Unref ==
  ASSUME LoginInv, NEW p \in Procs, ck_connector_unref(p, "out"), UNCHANGED daemonvars
  PROVE  LoginInv'
  <1>1. ProcTypes /\ BusTypes /\ ProcsOK
    BY TypeParts DEF LoginInv
  <1>2. /\ pc' = [pc EXCEPT ![p] = "out"]
        /\ conn' = [conn EXCEPT ![p] = NoConn]
        /\ created' = created \ {p}
        /\ ssid' = [ssid EXCEPT ![p] = NoConn] /\ dir' = [dir EXCEPT ![p] = NoConn]
        /\ up' = up \ {conn[p]}
        /\ inbox' = IF conn[p] \in up THEN Append(inbox, Msg(conn[p], "Gone", NoConn)) ELSE inbox
        /\ reply' = [k \in Conns |-> IF k = conn[p] THEN "none" ELSE reply[k]]
        /\ UNCHANGED owner
    BY DEF ck_connector_unref
  <1>3. \E K \in SUBSET Conns :
          /\ \A q \in Procs \ {p} : conn[q] \notin K
          /\ reply' = [k \in Conns |-> IF k \in K THEN "none" ELSE reply[k]]
    <2>1. CASE conn[p] \in Conns
      <3>1. conn[p] # NoConn
        BY <2>1, NoConnIsNone
      <3>2. /\ {conn[p]} \in SUBSET Conns /\ \A q \in Procs \ {p} : conn[q] \notin {conn[p]}
            /\ reply' = [k \in Conns |-> IF k \in {conn[p]} THEN "none" ELSE reply[k]]
        BY <1>2, <2>1, <3>1, ConnsApart
      <3> QED BY <3>2
    <2>2. CASE conn[p] \notin Conns
      <3> WITNESS {} \in SUBSET Conns
      <3> QED BY <1>2, <2>2
    <2> QED BY <2>1, <2>2
  <1>4. CASE conn[p] \in up
    BY <1>2, <1>3, <1>4, Leaves
  <1>5. CASE conn[p] \notin up
    <2>1. UNCHANGED <<up, inbox>>
      BY <1>2, <1>5
    <2> QED BY <1>2, <1>3, <2>1, Leaves
  <1> QED BY <1>4, <1>5

\* A process exits.
LEMMA Exits ==
  ASSUME LoginInv, NEW p \in Procs, Exit(p)
  PROVE  LoginInv'
  <1>1. ProcTypes /\ BusTypes /\ ProcsOK
    BY TypeParts DEF LoginInv
  <1>2. /\ pc' = [pc EXCEPT ![p] = "gone"]
        /\ conn' = [conn EXCEPT ![p] = NoConn]
        /\ created' = created \ {p}
        /\ ssid' = [ssid EXCEPT ![p] = NoConn] /\ dir' = [dir EXCEPT ![p] = NoConn]
        /\ reply' = [k \in Conns |-> IF owner[k] = p THEN "none" ELSE reply[k]]
        /\ UNCHANGED <<up, inbox>> /\ UNCHANGED <<owner, daemonvars>>
    BY DEF Exit, daemonvars
  <1>3. \E K \in SUBSET Conns :
          /\ \A q \in Procs \ {p} : conn[q] \notin K
          /\ reply' = [k \in Conns |-> IF k \in K THEN "none" ELSE reply[k]]
    <2> WITNESS {k \in Conns : owner[k] = p} \in SUBSET Conns
    <2>1. \A q \in Procs \ {p} : conn[q] \in Conns => owner[conn[q]] = q
      BY <1>1, NoConnIsNone DEF ProcsOK
    <2> QED BY <1>2, <2>1
  <1> QED BY <1>2, <1>3, Leaves

\* A new connection, with a call of OpenSession on it, or without.
LEMMA Opens ==
  ASSUME LoginInv, NEW p \in Procs, ck_connector_open_session(p)
  PROVE  LoginInv'
  <1>1. /\ ProcTypes /\ BusTypes /\ ProcsOK /\ RepliesOK /\ CookieHasSession
        /\ MessagesOK
    BY TypeParts DEF LoginInv
  <1>2. UNCHANGED <<created, ssid, dir, daemonvars>> /\ pc[p] \in {"out", "closed", "failed"}
    BY DEF ck_connector_open_session, daemonvars
  <1>3. /\ DaemonTypes' /\ JobsOK' /\ JobsHaveLeaders'
        /\ leaders' = leaders /\ sessions' = sessions
    BY <1>2, DaemonStays
  <1>4. PICK k \in Conns :
          /\ owner[k] = NoProc
          /\ owner' = [owner EXCEPT ![k] = p]
          /\ \/ /\ up' = up \cup {k}
                /\ conn' = [conn EXCEPT ![p] = k]
                /\ \/ Call(p, k, "Open", NoConn)
                   \/ add_param_basic_Fails(p)
             \/ /\ conn' = [conn EXCEPT ![p] = NoConn]
                /\ pc' = [pc EXCEPT ![p] = "failed"]
                /\ UNCHANGED <<up, inbox, reply>>
    BY DEF ck_connector_open_session
  <1>5. k \notin up /\ k \notin leaders /\ k # NoConn /\ p # NoProc
    BY <1>1, <1>4, NoConnIsNone, LoginAssumption DEF ProcsOK
  <1>6. PICK phase \in {"Open", "failed"} : pc' = [pc EXCEPT ![p] = phase]
                                            /\ (phase = "Open" => Call(p, k, "Open", NoConn))
                                            /\ (phase = "failed" => UNCHANGED <<inbox, reply>>)
    BY <1>4 DEF Call, add_param_basic_Fails
  <1>7. PICK c \in {k, NoConn} : /\ conn' = [conn EXCEPT ![p] = c]
                                 /\ up' = IF c = k THEN up \cup {k} ELSE up
                                 /\ phase = "Open" => c = k
    <2>1. CASE up' = up \cup {k} /\ conn' = [conn EXCEPT ![p] = k]
      BY <2>1
    <2>2. CASE /\ conn' = [conn EXCEPT ![p] = NoConn] /\ up' = up
               /\ pc' = [pc EXCEPT ![p] = "failed"]
      <3>1. phase = "failed"
        BY <1>1, <1>6, <2>2 DEF ProcTypes
      <3> QED BY <1>5, <2>2, <3>1
    <2> QED BY <1>4, <2>1, <2>2
  <1>8. \A q \in Procs : /\ pc'[q] = IF q = p THEN phase ELSE pc[q]
                         /\ conn'[q] = IF q = p THEN c ELSE conn[q]
    BY <1>1, <1>6, <1>7 DEF ProcTypes
  <1>9. \A j \in Conns : owner'[j] = IF j = k THEN p ELSE owner[j]
    BY <1>1, <1>4 DEF BusTypes
  <1>10. ProcTypes'
    BY <1>1, <1>2, <1>6, <1>7 DEF ProcTypes, Phases, Waits
  <1>11. ProcsOK'
    <2>1. ASSUME NEW q \in Procs
          PROVE  /\ conn'[q] # NoConn => conn'[q] \in up' /\ owner'[conn'[q]] = q
                 /\ pc'[q] \in Waits \cup {"in", "lost", "closed"} => conn'[q] # NoConn
                 /\ pc'[q] \in {"out", "failed", "closed", "Open", "gone"} => q \notin created'
                 /\ pc'[q] = "gone" => conn'[q] = NoConn
      <3>1. CASE q = p
        BY <3>1, <1>1, <1>2, <1>5, <1>7, <1>8, <1>9 DEF ProcsOK, Waits
      <3>2. CASE q # p
        <4>1. conn[q] # NoConn => conn[q] \in Conns /\ conn[q] # k /\ conn[q] \in up'
          BY <1>1, <1>5, <1>7 DEF ProcsOK, ProcTypes
        <4> QED BY <3>2, <4>1, <1>1, <1>2, <1>8, <1>9 DEF ProcsOK, Waits
      <3> QED BY <3>1, <3>2
    <2>2. \A j \in up' : owner'[j] # NoProc
      BY <1>1, <1>5, <1>7, <1>9 DEF ProcsOK, BusTypes
    <2>3. \A j \in leaders' : owner'[j] # NoProc
      BY <1>1, <1>3, <1>5, <1>9 DEF ProcsOK, DaemonTypes
    <2> QED BY <2>1, <2>2, <2>3 DEF ProcsOK
  <1>12. CookieHasSession'
    BY <1>1, <1>2, <1>3, <1>8 DEF CookieHasSession, ProcTypes, ProcsOK
  <1>13. reply' \in [Conns -> {"none", "ok", "error"}]
         /\ \A j \in Conns : reply'[j] = IF phase = "Open" /\ j = k THEN "none" ELSE reply[j]
    BY <1>1, <1>6 DEF BusTypes, Call
  <1>14. RepliesOK'
    <2> SUFFICES ASSUME NEW q \in Procs, pc'[q] = "Open", reply'[conn'[q]] = "ok"
                 PROVE  conn'[q] \in sessions
      BY <1>3 DEF RepliesOK
    <2>1. q # p
      BY <1>7, <1>8, <1>13
    <2>2. conn[q] \in Conns /\ conn[q] # k /\ pc[q] = "Open" /\ conn'[q] = conn[q]
      BY <1>1, <1>5, <1>8, <2>1 DEF ProcsOK, ProcTypes, Waits
    <2> QED BY <1>1, <1>13, <2>2 DEF RepliesOK
  <1>15. \A x \in Message : MessageOK(x) => MessageOK(x)'
    <2> SUFFICES ASSUME NEW x \in Message, MessageOK(x) PROVE MessageOK(x)'
      OBVIOUS
    <2>1. x.conn \in Conns /\ x.conn # NoConn /\ x.conn # k
      BY <1>4, NoConnIsNone DEF Message, MessageOK
    <2>2. owner[x.conn] \in Procs /\ owner'[x.conn] = owner[x.conn]
      BY <1>1, <1>9, <2>1 DEF MessageOK, BusTypes
    <2> QED BY <1>3, <1>7, <1>8, <2>1, <2>2 DEF MessageOK
  <1>16. inbox' \in Seq(Message) /\ MessagesOK' /\ OpensOnce'
    <2>1. CASE inbox' = inbox
      BY <1>15, <2>1, Kept
    <2>2. CASE phase = "Open"
      <3> DEFINE sent == Msg(k, "Open", NoConn)
      <3>0. sent \in Message /\ sent.conn = k /\ sent.kind = "Open"
        BY DEF Msg, Message, Waits
      <3> HIDE DEF sent
      <3>1. PICK m \in Message : m = sent /\ m.conn = k /\ m.kind = "Open"
        BY <3>0
      <3>2. inbox' = Append(inbox, m)
        BY <1>6, <2>2, <3>1 DEF Call, sent
      <3>3. MessageOK(m)'
        BY <1>3, <1>5, <1>9, <3>1 DEF MessageOK
      <3>4. \A i \in 1 .. Len(inbox) : inbox[i].conn # m.conn
        BY <1>1, <1>4, <3>1 DEF MessagesOK, MessageOK
      <3> QED BY <1>15, <3>2, <3>3, <3>4, Sent
    <2> QED BY <1>6, <2>1, <2>2
  <1>17. BusTypes'
    BY <1>1, <1>4, <1>7, <1>13, <1>16 DEF BusTypes
  <1>18. LoginTypeOK'
    BY <1>3, <1>10, <1>17, TypeParts DEF LoginTypeOK, ProcTypes, BusTypes, DaemonTypes, Message
  <1> QED BY <1>3, <1>11, <1>12, <1>14, <1>16, <1>18 DEF LoginInv

\* The answers to the calls of a process, and their timeouts.
LEMMA Answers ==
  ASSUME LoginInv, NEW p \in Procs,
         \/ OpenAnswered(p) \/ SsidAnswered(p) \/ DirAnswered(p)
         \/ ck_connector_close_session(p) \/ Timeout(p)
  PROVE  LoginInv'
  <1>1. /\ ProcTypes /\ BusTypes /\ ProcsOK /\ RepliesOK /\ CookieHasSession
    BY TypeParts DEF LoginInv
  <1>2. UNCHANGED daemonvars
    BY DEF OpenAnswered, SsidAnswered, DirAnswered, ck_connector_close_session, Timeout, daemonvars
  <1>3. pc[p] \in Waits \cup {"in"}
    BY DEF OpenAnswered, SsidAnswered, DirAnswered, ck_connector_close_session, Timeout, Waits
  <1>4. pc[p] # "gone" /\ conn[p] # NoConn /\ conn[p] \in Conns
    BY <1>1, <1>3 DEF ProcsOK, Waits, ProcTypes
  <1>5. p \in created /\ pc[p] \notin {"Close", "lost"} => conn[p] \in sessions
    BY <1>1 DEF CookieHasSession
  <1>6. pc[p] = "Open" => p \notin created
    BY <1>1 DEF ProcsOK
  <1>7. ASSUME NEW phase, Read(p, phase)
        PROVE  /\ pc' = [pc EXCEPT ![p] = phase] /\ inbox' = inbox
               /\ reply' \in [Conns -> {"none", "ok", "error"}]
               /\ \A k \in Conns \ {conn[p]} : reply'[k] = reply[k]
    BY <1>1, <1>7 DEF Read, BusTypes
  <1>8. ASSUME NEW kind \in {"Ssid", "Dir", "Close"}, NEW about \in Conns,
               Call(p, conn[p], kind, about), kind = "Close" => about = conn[p]
        PROVE  /\ pc' = [pc EXCEPT ![p] = kind]
               /\ reply' \in [Conns -> {"none", "ok", "error"}]
               /\ \A k \in Conns \ {conn[p]} : reply'[k] = reply[k]
               /\ \E m \in Message :
                    /\ inbox' = Append(inbox, m) /\ m.conn = conn[p] /\ m.kind = kind
                    /\ kind \in {"Ssid", "Dir", "Close"}
                    /\ kind = "Close" => m.about = conn[p]
    <2> DEFINE m == Msg(conn[p], kind, about)
    <2>1. /\ m \in Message /\ m.conn = conn[p] /\ m.kind = kind /\ m.about = about
      BY <1>4, <1>8 DEF Msg, Message, Waits
    <2>2. /\ pc' = [pc EXCEPT ![p] = kind] /\ inbox' = Append(inbox, m)
          /\ reply' = [reply EXCEPT ![conn[p]] = "none"]
      BY <1>8 DEF Call
    <2> HIDE DEF m
    <2> QED BY <1>1, <1>4, <1>8, <2>1, <2>2 DEF BusTypes
  <1>9. {"failed", "in", "lost", "closed", "Ssid", "Dir", "Close"} \subseteq Phases \ {"Open", "out", "gone"}
    BY DEF Phases, Waits
  <1>10. CASE OpenAnswered(p)
    <2>1. CASE /\ reply[conn[p]] = "ok" /\ created' = created \cup {p}
               /\ ck_connector_get_runtime_dir(p)
               /\ UNCHANGED <<conn, ssid, dir, owner, up>>
      <3>1. conn[p] \in sessions /\ pc[p] = "Open"
        BY <1>1, <1>10, <2>1 DEF OpenAnswered, RepliesOK
      <3>2. CASE Read(p, "in")
        BY <1>1, <1>2, <1>4, <1>7, <1>9, <2>1, <3>1, <3>2, GoesOn DEF ProcTypes
      <3>3. CASE ssid[p] # NoConn /\ Call(p, conn[p], "Dir", ssid[p])
        <4>1. ssid[p] \in Conns
          BY <1>1, <3>3 DEF ProcTypes
        <4> QED BY <1>1, <1>2, <1>4, <1>8, <1>9, <2>1, <3>1, <3>3, <4>1, GoesOn DEF ProcTypes
      <3>4. CASE Call(p, conn[p], "Ssid", conn[p])
        BY <1>1, <1>2, <1>4, <1>8, <1>9, <2>1, <3>1, <3>4, GoesOn DEF ProcTypes
      <3> QED BY <2>1, <3>2, <3>3, <3>4 DEF ck_connector_get_runtime_dir
    <2>2. CASE ck_connector_unref(p, "out")
      BY <1>2, <2>2, Unref
    <2>3. CASE OpenFails(p)
      BY <1>1, <1>2, <1>4, <1>6, <1>7, <1>9, <1>10, <2>3, GoesOn DEF OpenFails, OpenAnswered, ProcTypes
    <2> QED BY <1>10, <2>1, <2>2, <2>3 DEF OpenAnswered
  <1>11. CASE SsidAnswered(p)
    <2>1. /\ pc[p] = "Ssid" /\ UNCHANGED <<conn, created, dir, owner, up>>
      BY <1>11 DEF SsidAnswered
    <2>2. CASE /\ ssid' = [ssid EXCEPT ![p] = conn[p]] /\ Call(p, conn[p], "Dir", conn[p])
      <3>1. ssid' \in [Procs -> Conns \cup {NoConn}]
        BY <1>1, <1>4, <2>2 DEF ProcTypes
      <3> QED BY <1>1, <1>2, <1>4, <1>5, <1>8, <1>9, <2>1, <2>2, <3>1, GoesOn DEF ProcTypes
    <2>3. CASE Read(p, "in") /\ UNCHANGED ssid
      BY <1>1, <1>2, <1>4, <1>5, <1>7, <1>9, <2>1, <2>3, GoesOn DEF ProcTypes
    <2> QED BY <1>11, <2>2, <2>3 DEF SsidAnswered
  <1>12. CASE DirAnswered(p)
    <2>1. pc[p] = "Dir"
      BY <1>12 DEF DirAnswered
    <2>2. CASE /\ dir' = [dir EXCEPT ![p] = ssid[p]] /\ Read(p, "in")
               /\ UNCHANGED <<conn, created, ssid, owner, up>>
      <3>1. dir' \in [Procs -> Conns \cup {NoConn}]
        BY <1>1, <2>2 DEF ProcTypes
      <3> QED BY <1>1, <1>2, <1>4, <1>5, <1>7, <1>9, <2>1, <2>2, <3>1, GoesOn DEF ProcTypes
    <2>3. CASE ck_connector_unref(p, "out")
      BY <1>2, <2>3, Unref
    <2>4. CASE Read(p, "in") /\ UNCHANGED <<conn, created, ssid, dir, owner, up>>
      BY <1>1, <1>2, <1>4, <1>5, <1>7, <1>9, <2>1, <2>4, GoesOn DEF ProcTypes
    <2> QED BY <1>12, <2>2, <2>3, <2>4 DEF DirAnswered
  <1>13. CASE ck_connector_close_session(p)
    <2>1. UNCHANGED <<conn, ssid, dir, owner, up>>
      BY <1>13 DEF ck_connector_close_session
    <2>2. CASE pc[p] = "in" /\ Call(p, conn[p], "Close", conn[p]) /\ UNCHANGED created
      BY <1>1, <1>2, <1>4, <1>8, <1>9, <2>1, <2>2, GoesOn DEF ProcTypes
    <2>3. CASE pc[p] = "Close" /\ Read(p, "closed") /\ created' = created \ {p}
      BY <1>1, <1>2, <1>4, <1>7, <1>9, <2>1, <2>3, GoesOn DEF ProcTypes
    <2>4. CASE pc[p] = "Close" /\ Read(p, "lost") /\ UNCHANGED created
      BY <1>1, <1>2, <1>4, <1>7, <1>9, <2>1, <2>4, GoesOn DEF ProcTypes
    <2> QED BY <1>13, <2>2, <2>3, <2>4 DEF ck_connector_close_session
  <1>14. CASE Timeout(p)
    <2>1. CASE pc[p] = "Open" /\ OpenFails(p)
      BY <1>1, <1>2, <1>4, <1>6, <1>7, <1>9, <2>1, GoesOn DEF OpenFails, ProcTypes
    <2>2. CASE /\ pc[p] \in {"Ssid", "Dir", "Close"}
               /\ pc' = [pc EXCEPT ![p] = IF pc[p] = "Close" THEN "lost" ELSE "in"]
               /\ UNCHANGED <<conn, created, ssid, dir, busvars>>
      <3>1. UNCHANGED <<owner, up, inbox, reply>>
        BY <2>2 DEF busvars
      <3> QED BY <1>1, <1>2, <1>4, <1>5, <1>9, <2>2, <3>1, GoesOn DEF ProcTypes, BusTypes
    <2> QED BY <1>14, <2>1, <2>2 DEF Timeout
  <1> QED BY <1>10, <1>11, <1>12, <1>13, <1>14

\* The kernel closes the connection of a process that is gone.
LEMMA Disconnects ==
  ASSUME LoginInv, NEW k \in Conns, Disconnect(k)
  PROVE  LoginInv'
  <1>1. /\ ProcTypes /\ BusTypes /\ ProcsOK /\ RepliesOK /\ CookieHasSession
    BY TypeParts DEF LoginInv
  <1>2. /\ k \in up /\ pc[owner[k]] = "gone" /\ up' = up \ {k}
        /\ inbox' = Append(inbox, Msg(k, "Gone", NoConn))
        /\ UNCHANGED <<pc, conn, created, ssid, dir, owner, reply, daemonvars>>
    BY DEF Disconnect, procvars, daemonvars
  <1>3. /\ DaemonTypes' /\ JobsOK' /\ JobsHaveLeaders'
        /\ leaders' = leaders /\ sessions' = sessions
    BY <1>2, DaemonStays
  <1>4. \A q \in Procs : conn[q] # k
    BY <1>1, <1>2, NoConnIsNone DEF ProcsOK
  <1>5. ProcsOK'
    BY <1>1, <1>2, <1>3, <1>4 DEF ProcsOK
  <1>6. CookieHasSession' /\ RepliesOK' /\ ProcTypes'
    BY <1>1, <1>2, <1>3 DEF CookieHasSession, RepliesOK, ProcTypes
  <1>7. \A x \in Message : MessageOK(x) => MessageOK(x)'
    BY <1>2, <1>3 DEF MessageOK
  <1> DEFINE sent == Msg(k, "Gone", NoConn)
  <1>8. sent \in Message /\ sent.conn = k /\ sent.kind = "Gone"
    BY DEF Msg, Message
  <1>9. inbox' = Append(inbox, sent)
    BY <1>2
  <1> HIDE DEF sent
  <1>10. PICK m \in Message : m = sent /\ m.conn = k /\ m.kind = "Gone"
    BY <1>8
  <1>11. MessageOK(m)'
    BY <1>1, <1>2, <1>10 DEF MessageOK, ProcsOK
  <1>12. inbox' \in Seq(Message) /\ MessagesOK' /\ OpensOnce'
    BY <1>7, <1>9, <1>10, <1>11, Sent
  <1>13. BusTypes'
    BY <1>1, <1>2, <1>12 DEF BusTypes
  <1>14. LoginTypeOK'
    BY <1>3, <1>6, <1>13, TypeParts DEF LoginTypeOK, ProcTypes, BusTypes, DaemonTypes, Message
  <1> QED BY <1>3, <1>5, <1>6, <1>12, <1>14 DEF LoginInv

----------------------------------------------------------------------------
(* The daemon.                                                             *)

\* An answer that is not one to OpenSession, or is an error, makes nobody believe in a
\* session.
LEMMA Answered ==
  ASSUME LoginInv, NEW k \in Conns, NEW kind, NEW r \in {"ok", "error"}, Answer(k, kind, r)
  PROVE  /\ reply' \in [Conns -> {"none", "ok", "error"}]
         /\ \A q \in Procs : /\ pc[q] = "Open" /\ reply'[conn[q]] = "ok"
                             /\ conn[q] # k \/ kind # "Open" \/ r # "ok"
                             => conn[q] \in sessions
  <1>1. ProcTypes /\ BusTypes /\ ProcsOK /\ RepliesOK
    BY TypeParts DEF LoginInv
  <1>2. reply' \in [Conns -> {"none", "ok", "error"}]
    BY <1>1 DEF Answer, BusTypes
  <1>3. ASSUME NEW q \in Procs, pc[q] = "Open", reply'[conn[q]] = "ok",
               conn[q] # k \/ kind # "Open" \/ r # "ok"
        PROVE  conn[q] \in sessions
    <2>1. conn[q] \in Conns /\ owner[conn[q]] = q
      BY <1>1, <1>3 DEF ProcsOK, ProcTypes, Waits
    <2>2. reply[conn[q]] = "ok"
      BY <1>1, <1>3, <2>1 DEF Answer, BusTypes
    <2> QED BY <1>1, <1>3, <2>2 DEF RepliesOK
  <1> QED BY <1>2, <1>3

\* What the daemon does leaves the processes alone: its part of the invariant is enough.
LEMMA DaemonSteps ==
  ASSUME LoginInv, UNCHANGED <<procvars, owner, up>>,
         DaemonTypes', JobsOK', JobsHaveLeaders',
         inbox' \in Seq(Message), MessagesOK', OpensOnce',
         reply' \in [Conns -> {"none", "ok", "error"}],
         \A k \in leaders' : owner[k] # NoProc,
         \A q \in created : pc[q] \notin {"Close", "lost"} => conn[q] \in sessions',
         \A q \in Procs : pc[q] = "Open" /\ reply'[conn[q]] = "ok" => conn[q] \in sessions'
  PROVE  LoginInv'
  <1>1. ProcTypes /\ BusTypes /\ ProcsOK
    BY TypeParts DEF LoginInv
  <1>2. UNCHANGED <<pc, conn, created, ssid, dir, owner, up>>
    BY DEF procvars
  <1>3. ProcTypes' /\ BusTypes'
    BY <1>1, <1>2 DEF ProcTypes, BusTypes
  <1>4. ProcsOK'
    BY <1>1, <1>2 DEF ProcsOK
  <1>5. CookieHasSession' /\ RepliesOK'
    BY <1>2 DEF CookieHasSession, RepliesOK
  <1>6. LoginTypeOK'
    BY <1>3, TypeParts DEF LoginTypeOK, ProcTypes, BusTypes, DaemonTypes, Message
  <1> QED BY <1>4, <1>5, <1>6 DEF LoginInv

\* OpenSession.
LEMMA CreatesSession ==
  ASSUME LoginInv, create_session_for_sender
  PROVE  LoginInv'
  <1> DEFINE k == Head(inbox).conn
  <1>1. /\ ProcTypes /\ BusTypes /\ DaemonTypes /\ ProcsOK /\ RepliesOK /\ CookieHasSession
        /\ JobsOK /\ JobsHaveLeaders
    BY TypeParts DEF LoginInv
  <1>2. /\ Handles("Open") /\ UNCHANGED <<procvars, owner, up>>
        /\ UNCHANGED <<sessions, params, wrote, got, broken>>
    BY DEF create_session_for_sender
  <1>3. /\ inbox' \in Seq(Message) /\ OpensOnce'
        /\ Head(inbox) \in Message /\ MessageOK(Head(inbox)) /\ Head(inbox).kind = "Open"
        /\ (\A x \in Message :
               /\ MessageOK(x)
               /\ x.kind = "Open" => x.conn # Head(inbox).conn
               => MessageOK(x)') => MessagesOK'
    BY <1>2, Taken
  <1>4. k \in Conns /\ k \notin leaders /\ owner[k] # NoProc
    BY <1>3 DEF Message, MessageOK
  <1>5. \/ Answer(k, "Open", "error") /\ UNCHANGED <<leaders, child, out, err>>
        \/ /\ k \in up /\ leaders' = leaders \cup {k}
           /\ \/ /\ child' = [child EXCEPT ![k] = "run"]
                 /\ out' = out \cup {k} /\ err' = err \cup {k}
                 /\ UNCHANGED reply
              \/ /\ Answer(k, "Open", "error")
                 /\ UNCHANGED <<child, out, err>>
    BY DEF create_session_for_sender
  <1> HIDE DEF k
  <1>6. leaders' \in {leaders, leaders \cup {k}}
    BY <1>5
  <1>7. \A x \in Message : MessageOK(x) /\ (x.kind = "Open" => x.conn # k) => MessageOK(x)'
    BY <1>2, <1>6 DEF MessageOK, procvars
  <1>8. MessagesOK'
    BY <1>3, <1>7 DEF k
  <1>9. /\ reply' \in [Conns -> {"none", "ok", "error"}]
        /\ \A q \in Procs : pc[q] = "Open" /\ reply'[conn[q]] = "ok" => conn[q] \in sessions
    <2>1. CASE UNCHANGED reply
      BY <2>1, <1>1 DEF BusTypes, RepliesOK
    <2>2. CASE Answer(k, "Open", "error")
      BY <2>2, <1>4, Answered
    <2> QED BY <1>5, <2>1, <2>2
  <1>10. DaemonTypes'
    BY <1>1, <1>2, <1>4, <1>5 DEF DaemonTypes
  <1>11. JobsOK' /\ JobsHaveLeaders'
    <2>1. CASE UNCHANGED <<child, out, err>>
      BY <2>1, <1>1, <1>2, <1>6 DEF JobsOK, JobsHaveLeaders
    <2>2. CASE /\ child' = [child EXCEPT ![k] = "run"] /\ leaders' = leaders \cup {k}
               /\ out' = out \cup {k} /\ err' = err \cup {k}
      <3>1. k \notin sessions
        BY <1>1, <1>4 DEF JobsHaveLeaders
      <3> QED BY <2>2, <1>1, <1>2, <1>4, <3>1 DEF JobsOK, JobsHaveLeaders, DaemonTypes
    <2> QED BY <1>5, <2>1, <2>2
  <1>12. \A j \in leaders' : owner[j] # NoProc
    BY <1>1, <1>4, <1>6 DEF ProcsOK
  <1>13. \A q \in created : pc[q] \notin {"Close", "lost"} => conn[q] \in sessions
    BY <1>1 DEF CookieHasSession
  <1> QED BY <1>2, <1>3, <1>8, <1>9, <1>10, <1>11, <1>12, <1>13, DaemonSteps

\* GetSessionForCookie and GetXDGRuntimeDir.
LEMMA GetsSession ==
  ASSUME LoginInv, GetSession
  PROVE  LoginInv'
  <1>1. /\ BusTypes /\ DaemonTypes /\ ProcsOK /\ CookieHasSession /\ JobsOK /\ JobsHaveLeaders
    BY TypeParts DEF LoginInv
  <1>2. /\ UNCHANGED <<procvars, owner, up>>
        /\ UNCHANGED <<leaders, sessions, params, child, wrote, got, out, err, broken>>
    BY DEF GetSession, jobvars
  <1>3. PICK kind \in {"Ssid", "Dir"} : Handles(kind)
    BY DEF GetSession
  <1>4. /\ inbox' \in Seq(Message) /\ OpensOnce'
        /\ Head(inbox) \in Message /\ Head(inbox).kind = kind
        /\ (\A x \in Message : MessageOK(x) => MessageOK(x)') => MessagesOK'
    BY <1>3, Taken
  <1>5. \A x \in Message : MessageOK(x) => MessageOK(x)'
    BY <1>2 DEF MessageOK, procvars
  <1>6. Head(inbox).conn \in Conns
    BY <1>4 DEF Message
  <1>7. PICK r \in {"ok", "error"} : Answer(Head(inbox).conn, kind, r)
    BY <1>4 DEF GetSession
  <1>8. /\ reply' \in [Conns -> {"none", "ok", "error"}]
        /\ \A q \in Procs : pc[q] = "Open" /\ reply'[conn[q]] = "ok" => conn[q] \in sessions
    BY <1>6, <1>7, Answered
  <1>9. DaemonTypes' /\ JobsOK' /\ JobsHaveLeaders'
    BY <1>1, <1>2 DEF DaemonTypes, JobsOK, JobsHaveLeaders
  <1>10. /\ \A j \in leaders' : owner[j] # NoProc
         /\ \A q \in created : pc[q] \notin {"Close", "lost"} => conn[q] \in sessions'
    BY <1>1, <1>2 DEF ProcsOK, CookieHasSession
  <1> QED BY <1>2, <1>4, <1>5, <1>8, <1>9, <1>10, DaemonSteps

\* CloseSession: only a process that has asked for it loses its session.
LEMMA ClosesSession ==
  ASSUME LoginInv, dbus_close_session
  PROVE  LoginInv'
  <1> DEFINE k == Head(inbox).conn
  <1>1. /\ ProcTypes /\ BusTypes /\ DaemonTypes /\ ProcsOK /\ RepliesOK /\ CookieHasSession
        /\ JobsOK /\ JobsHaveLeaders
    BY TypeParts DEF LoginInv
  <1>2. /\ Handles("Close") /\ UNCHANGED <<procvars, owner, up>>
        /\ UNCHANGED <<child, wrote, got, out, err, broken>>
    BY DEF dbus_close_session, jobvars
  <1>3. /\ inbox' \in Seq(Message) /\ OpensOnce'
        /\ Head(inbox) \in Message /\ MessageOK(Head(inbox)) /\ Head(inbox).kind = "Close"
        /\ (\A x \in Message : MessageOK(x) => MessageOK(x)') => MessagesOK'
    BY <1>2, Taken
  <1>4. /\ k \in Conns /\ Head(inbox).about = k
        /\ conn[owner[k]] = k => pc[owner[k]] \in {"Close", "lost", "closed"}
    BY <1>3 DEF Message, MessageOK
  <1>5. \/ /\ k \in sessions /\ sessions' = sessions \ {k} /\ leaders' = leaders \ {k}
           /\ params' = [params EXCEPT ![k] = NoParams]
           /\ Answer(k, "Close", "ok")
        \/ Answer(k, "Close", "error") /\ UNCHANGED <<sessions, leaders, params>>
    BY <1>4 DEF dbus_close_session
  <1> HIDE DEF k
  <1>6. \A q \in Procs : conn[q] = k => pc[q] \in {"Close", "lost", "closed"}
    BY <1>1, <1>4, NoConnIsNone DEF ProcsOK
  <1>7. MessagesOK'
    <2>1. \A x \in Message : MessageOK(x) => MessageOK(x)'
      BY <1>2, <1>5 DEF MessageOK, procvars
    <2> QED BY <1>3, <2>1
  <1>8. /\ reply' \in [Conns -> {"none", "ok", "error"}]
        /\ \A q \in Procs : pc[q] = "Open" /\ reply'[conn[q]] = "ok" => conn[q] \in sessions'
    <2>1. PICK r \in {"ok", "error"} : Answer(k, "Close", r)
      BY <1>5
    <2>2. /\ reply' \in [Conns -> {"none", "ok", "error"}]
          /\ \A q \in Procs : pc[q] = "Open" /\ reply'[conn[q]] = "ok" => conn[q] \in sessions
      BY <1>4, <2>1, Answered
    <2> QED BY <1>5, <1>6, <2>2
  <1>9. DaemonTypes'
    <2>1. NoParams \in [Params -> {"absent", "given", "collected"}]
      BY DEF NoParams
    <2> QED BY <1>1, <1>2, <1>4, <1>5, <2>1 DEF DaemonTypes
  <1>10. JobsOK' /\ JobsHaveLeaders'
    BY <1>1, <1>2, <1>5 DEF JobsOK, JobsHaveLeaders
  <1>11. \A j \in leaders' : owner[j] # NoProc
    BY <1>1, <1>5 DEF ProcsOK
  <1>12. \A q \in created : pc[q] \notin {"Close", "lost"} => conn[q] \in sessions'
    <2> SUFFICES ASSUME NEW q \in created, pc[q] \notin {"Close", "lost"}
                 PROVE  conn[q] \in sessions'
      OBVIOUS
    <2>1. q \in Procs /\ conn[q] \in sessions /\ pc[q] # "closed"
      BY <1>1 DEF CookieHasSession, ProcsOK, ProcTypes
    <2> QED BY <1>5, <1>6, <2>1
  <1> QED BY <1>2, <1>3, <1>7, <1>8, <1>9, <1>10, <1>11, <1>12, DaemonSteps

\* NameOwnerChanged: nobody uses the connection any more.
LEMMA RemovesSessions ==
  ASSUME LoginInv, remove_sessions_for_connection
  PROVE  LoginInv'
  <1> DEFINE k == Head(inbox).conn
  <1>1. /\ ProcTypes /\ BusTypes /\ DaemonTypes /\ ProcsOK /\ RepliesOK /\ CookieHasSession
        /\ JobsOK /\ JobsHaveLeaders
    BY TypeParts DEF LoginInv
  <1>2. Handles("Gone") /\ UNCHANGED <<procvars, owner, up, reply>>
    BY DEF remove_sessions_for_connection
  <1>3. /\ inbox' \in Seq(Message) /\ OpensOnce'
        /\ Head(inbox) \in Message /\ MessageOK(Head(inbox)) /\ Head(inbox).kind = "Gone"
        /\ (\A x \in Message : MessageOK(x) => MessageOK(x)') => MessagesOK'
    BY <1>2, Taken
  <1>4. k \in Conns /\ k \notin up
    BY <1>3 DEF Message, MessageOK
  <1>5. /\ leaders' = leaders \ {k} /\ sessions' = sessions \ {k}
        /\ params' = [params EXCEPT ![k] = NoParams]
        /\ broken' = broken \ {k}
        /\ IF k \in leaders THEN ck_job_cancel(k) ELSE UNCHANGED <<child, wrote, got, out, err>>
    BY DEF remove_sessions_for_connection
  <1> HIDE DEF k
  <1>6. \A q \in Procs : conn[q] # k
    BY <1>1, <1>4, NoConnIsNone DEF ProcsOK
  <1>7. MessagesOK'
    <2>1. \A x \in Message : MessageOK(x) => MessageOK(x)'
      BY <1>2, <1>5 DEF MessageOK, procvars
    <2> QED BY <1>3, <2>1
  <1>8. CASE k \in leaders
    <2>1. /\ child' = [child EXCEPT ![k] = IF @ \in {"none", "reaped"} THEN @ ELSE "reaped"]
          /\ out' = out \ {k} /\ err' = err \ {k}
          /\ wrote' = [wrote EXCEPT ![k] = 0] /\ got' = [got EXCEPT ![k] = 0]
      BY <1>5, <1>8 DEF ck_job_cancel, ck_job_finalize
    <2>2. DaemonTypes'
      <3>1. NoParams \in [Params -> {"absent", "given", "collected"}]
        BY DEF NoParams
      <3>2. 0 \in 0 .. Len(Output)
        BY NoConnIsNone
      <3> QED BY <1>1, <1>4, <1>5, <2>1, <3>1, <3>2 DEF DaemonTypes
    <2>3. JobsHaveLeaders'
      BY <1>1, <1>5, <2>1 DEF JobsHaveLeaders
    <2>4. JobsOK'
      <3>1. sessions' \cap (out' \cup err') = {}
        BY <1>1, <1>5, <2>1 DEF JobsOK
      <3>2. ASSUME NEW j \in Conns
            PROVE  /\ child'[j] = "ok" => wrote'[j] = Len(Output)
                   /\ j \in err' \ out' /\ j \notin broken' => got'[j] = wrote'[j] /\ child'[j] # "run"
        <4>1. CASE j = k
          BY <1>1, <1>4, <2>1, <4>1 DEF DaemonTypes
        <4>2. CASE j # k
          BY <1>1, <1>5, <2>1, <4>2 DEF DaemonTypes, JobsOK
        <4> QED BY <4>1, <4>2
      <3> QED BY <3>1, <3>2 DEF JobsOK
    <2> QED BY <1>1, <1>2, <1>3, <1>5, <1>6, <1>7, <2>2, <2>3, <2>4, DaemonSteps
         DEF ProcsOK, CookieHasSession, RepliesOK, BusTypes, ProcTypes
  <1>9. CASE k \notin leaders
    <2>1. UNCHANGED <<child, wrote, got, out, err>> /\ k \notin sessions \cup out \cup err
      BY <1>1, <1>5, <1>9 DEF JobsHaveLeaders
    <2>2. DaemonTypes'
      <3>1. NoParams \in [Params -> {"absent", "given", "collected"}]
        BY DEF NoParams
      <3> QED BY <1>1, <1>4, <1>5, <2>1, <3>1 DEF DaemonTypes
    <2>3. JobsHaveLeaders' /\ JobsOK'
      BY <1>1, <1>5, <2>1 DEF JobsHaveLeaders, JobsOK
    <2> QED BY <1>1, <1>2, <1>3, <1>5, <1>6, <1>7, <2>2, <2>3, DaemonSteps
         DEF ProcsOK, CookieHasSession, RepliesOK, BusTypes, ProcTypes
  <1> QED BY <1>8, <1>9

----------------------------------------------------------------------------
(* The job.                                                                *)

\* The steps of the job send and handle no message.
LEMMA JobSteps ==
  ASSUME LoginInv, UNCHANGED <<procvars, owner, up, inbox, leaders>>,
         DaemonTypes', JobsOK', JobsHaveLeaders', sessions \subseteq sessions',
         reply' \in [Conns -> {"none", "ok", "error"}],
         \A q \in Procs : pc[q] = "Open" /\ reply'[conn[q]] = "ok" => conn[q] \in sessions'
  PROVE  LoginInv'
  <1>1. ProcsOK /\ CookieHasSession
    BY DEF LoginInv
  <1>2. \A x \in Message : MessageOK(x) => MessageOK(x)'
    BY DEF MessageOK, procvars
  <1>3. inbox' \in Seq(Message) /\ MessagesOK' /\ OpensOnce'
    BY <1>2, Kept
  <1>4. /\ \A j \in leaders' : owner[j] # NoProc
        /\ \A q \in created : pc[q] \notin {"Close", "lost"} => conn[q] \in sessions'
    BY <1>1 DEF ProcsOK, CookieHasSession
  <1> QED BY <1>3, <1>4, DaemonSteps

\* ck-collect-session-info prints, or ends.
LEMMA ChildSteps ==
  ASSUME LoginInv, NEW k \in Conns, ChildPrints(k) \/ ChildEnds(k)
  PROVE  LoginInv'
  <1>1. DaemonTypes /\ JobsOK /\ JobsHaveLeaders /\ BusTypes /\ RepliesOK
    BY TypeParts DEF LoginInv
  <1>2. /\ UNCHANGED <<procvars, owner, up, inbox, leaders>>
        /\ UNCHANGED <<sessions, params, reply, got, out, err, broken>>
    BY DEF ChildPrints, ChildEnds, busvars
  <1>3. DaemonTypes' /\ JobsOK'
    <2>1. CASE ChildPrints(k)
      <3>1. /\ child[k] = "run" /\ wrote[k] < Len(Output) /\ child' = child
            /\ wrote' = [wrote EXCEPT ![k] = @ + 1]
        BY <2>1 DEF ChildPrints
      <3>2. wrote[k] + 1 \in 0 .. Len(Output)
        BY <1>1, <3>1, NoConnIsNone DEF DaemonTypes
      <3> QED BY <1>1, <1>2, <3>1, <3>2 DEF DaemonTypes, JobsOK
    <2>2. CASE ChildEnds(k)
      <3>1. child[k] = "run" /\ wrote' = wrote
        BY <2>2 DEF ChildEnds
      <3>2. PICK end \in {"ok", "failed", "killed"} :
              (end = "ok" => wrote[k] = Len(Output)) /\ child' = [child EXCEPT ![k] = end]
        BY <2>2 DEF ChildEnds
      <3> QED BY <1>1, <1>2, <3>1, <3>2 DEF DaemonTypes, JobsOK
    <2> QED BY <2>1, <2>2
  <1>4. JobsHaveLeaders'
    BY <1>1, <1>2 DEF JobsHaveLeaders
  <1> QED BY <1>1, <1>2, <1>3, <1>4, JobSteps DEF BusTypes, RepliesOK, procvars

\* What a session starts with is of the type of parameters.
LEMMA ParsesOutput ==
  ASSUME NEW p, NEW lines
  PROVE  parse_output(p, lines) \in [Params -> {"absent", "given", "collected"}]
  BY DEF parse_output

\* A watch goes; with the last one the session is opened, or the client is told that it
\* could not be.
LEMMA CompletesJob ==
  ASSUME LoginInv, NEW k \in Conns, NEW lost \in {broken, broken \cup {k}},
         maybe_complete_job(k, lost), k \in leaders,
         out' \in {out, out \ {k}}, err' \in {err, err \ {k}},
         k \in err' \ out' /\ k \notin lost => got[k] = wrote[k] /\ child[k] # "run",
         UNCHANGED <<procvars, owner, up, inbox, leaders>>
  PROVE  LoginInv'
  <1>1. /\ DaemonTypes /\ JobsOK /\ JobsHaveLeaders /\ BusTypes /\ RepliesOK
        /\ ProcsOK /\ ProcTypes
    BY TypeParts DEF LoginInv
  <1>2. broken' = lost
    BY DEF maybe_complete_job
  <1>3. CASE k \in out' \cup err'
    <2>1. UNCHANGED <<sessions, params, reply, child, wrote, got>>
      BY <1>3 DEF maybe_complete_job
    <2>2. DaemonTypes'
      BY <1>1, <1>2, <2>1 DEF DaemonTypes
    <2>3. JobsOK' /\ JobsHaveLeaders'
      BY <1>1, <1>2, <2>1 DEF JobsOK, JobsHaveLeaders
    <2> QED BY <1>1, <2>1, <2>2, <2>3, JobSteps DEF BusTypes, RepliesOK, procvars
  <1>4. CASE k \notin out' \cup err'
    <2>1. /\ child' = [child EXCEPT ![k] = "reaped"]
          /\ wrote' = [wrote EXCEPT ![k] = 0] /\ got' = [got EXCEPT ![k] = 0]
      BY <1>4 DEF maybe_complete_job, job_completed, ck_job_finalize
    <2>2. \/ /\ sessions' = sessions \cup {k}
             /\ params' = [params EXCEPT ![k] = parse_output(owner[k], got[k])]
             /\ Answer(k, "Open", "ok")
          \/ Answer(k, "Open", "error") /\ UNCHANGED <<sessions, params>>
      BY <1>4 DEF maybe_complete_job, job_completed
    <2>3. DaemonTypes'
      <3>1. 0 \in 0 .. Len(Output)
        BY NoConnIsNone
      <3>2. params' \in [Conns -> [Params -> {"absent", "given", "collected"}]]
        BY <1>1, <2>2, ParsesOutput DEF DaemonTypes
      <3>3. sessions' \subseteq Conns /\ broken' \subseteq Conns /\ leaders' \subseteq Conns
        BY <1>1, <1>2, <2>2 DEF DaemonTypes
      <3> QED BY <1>1, <2>1, <3>1, <3>2, <3>3 DEF DaemonTypes
    <2>4. JobsOK'
      <3>1. sessions' \cap (out' \cup err') = {}
        BY <1>1, <1>4, <2>2 DEF JobsOK
      <3>2. ASSUME NEW j \in Conns
            PROVE  /\ child'[j] = "ok" => wrote'[j] = Len(Output)
                   /\ j \in err' \ out' /\ j \notin broken' => got'[j] = wrote'[j] /\ child'[j] # "run"
        <4>1. CASE j = k
          BY <1>1, <2>1, <4>1 DEF DaemonTypes
        <4>2. CASE j # k
          BY <1>1, <1>2, <2>1, <4>2 DEF DaemonTypes, JobsOK
        <4> QED BY <4>1, <4>2
      <3> QED BY <3>1, <3>2 DEF JobsOK
    <2>5. JobsHaveLeaders'
      BY <1>1, <2>2 DEF JobsHaveLeaders
    <2>6. /\ reply' \in [Conns -> {"none", "ok", "error"}]
          /\ \A q \in Procs : pc[q] = "Open" /\ reply'[conn[q]] = "ok" => conn[q] \in sessions'
      <3>1. CASE sessions' = sessions \cup {k} /\ Answer(k, "Open", "ok")
        BY <3>1, Answered
      <3>2. CASE Answer(k, "Open", "error") /\ UNCHANGED sessions
        BY <3>2, Answered
      <3> QED BY <2>2, <3>1, <3>2
    <2> QED BY <2>2, <2>3, <2>4, <2>5, <2>6, JobSteps
  <1> QED BY <1>3, <1>4

\* The two watches of the job.
LEMMA Watches ==
  ASSUME LoginInv, NEW k \in Conns, out_watch(k) \/ error_watch(k)
  PROVE  LoginInv'
  <1>1. DaemonTypes /\ JobsOK /\ JobsHaveLeaders /\ BusTypes /\ RepliesOK
    BY TypeParts DEF LoginInv
  <1>2. UNCHANGED <<procvars, owner, up, inbox, leaders>> /\ k \in leaders
    BY <1>1 DEF out_watch, error_watch, JobsHaveLeaders
  <1>3. CASE out_watch(k)
    <2>1. k \in out /\ err' = err
      BY <1>3 DEF out_watch
    <2>2. CASE /\ got[k] < wrote[k] /\ got' = [got EXCEPT ![k] = @ + 1]
               /\ UNCHANGED <<out, broken, sessions, params, reply, child, wrote>>
      <3>1. got[k] + 1 \in 0 .. Len(Output)
        BY <1>1, <2>2, NoConnIsNone DEF DaemonTypes
      <3>2. DaemonTypes'
        BY <1>1, <1>2, <2>1, <2>2, <3>1 DEF DaemonTypes
      <3>3. JobsOK' /\ JobsHaveLeaders'
        BY <1>1, <1>2, <2>1, <2>2 DEF JobsOK, JobsHaveLeaders, DaemonTypes
      <3> QED BY <1>1, <1>2, <2>2, <3>2, <3>3, JobSteps DEF BusTypes, RepliesOK, procvars
    <2>3. CASE /\ got[k] = wrote[k] /\ child[k] # "run" /\ out' = out \ {k}
               /\ maybe_complete_job(k, broken)
      BY <1>2, <2>1, <2>3, CompletesJob
    <2>4. CASE out' = out \ {k} /\ maybe_complete_job(k, broken \cup {k})
      BY <1>2, <2>1, <2>4, CompletesJob
    <2> QED BY <1>3, <2>2, <2>3, <2>4 DEF out_watch
  <1>4. CASE error_watch(k)
    <2>1. k \in err /\ err' = err \ {k} /\ out' = out /\ maybe_complete_job(k, broken)
      BY <1>4 DEF error_watch
    <2> QED BY <1>2, <2>1, CompletesJob
  <1> QED BY <1>3, <1>4

----------------------------------------------------------------------------
(* Theorems.                                                               *)

\* Every step keeps the invariant.
LEMMA NextLogin == LoginInv /\ [Next]_vars => LoginInv'
  <1> SUFFICES ASSUME LoginInv, [Next]_vars PROVE LoginInv'
    OBVIOUS
  <1>1. CASE Daemon
    BY <1>1, CreatesSession, GetsSession, ClosesSession, RemovesSessions DEF Daemon
  <1>2. ASSUME NEW p \in Procs, Process(p)
        PROVE  LoginInv'
    <2>1. CASE pam_sm_close_session(p)
      <3>1. ck_connector_unref(p, "out") /\ UNCHANGED daemonvars /\ pc[p] # "gone"
        BY <2>1 DEF pam_sm_close_session, daemonvars
      <3> QED BY <3>1, Unref
    <2> QED BY <1>2, <2>1, Answers, Exits, Opens DEF Process
  <1>3. ASSUME NEW k \in Conns, Disconnect(k) \/ Job(k)
        PROVE  LoginInv'
    BY <1>3, Disconnects, ChildSteps, Watches DEF Job
  <1>4. CASE UNCHANGED vars
    <2>1. UNCHANGED <<procvars, owner, up, inbox, reply, daemonvars>>
      BY <1>4 DEF vars, busvars, daemonvars
    <2>2. LoginTypeOK /\ BusTypes /\ RepliesOK
      BY TypeParts DEF LoginInv
    <2>3. /\ DaemonTypes' /\ JobsOK' /\ JobsHaveLeaders'
          /\ leaders' = leaders /\ sessions' = sessions
      BY <2>1, DaemonStays
    <2> QED BY <2>1, <2>2, <2>3, JobSteps DEF BusTypes, RepliesOK, procvars
  <1> QED BY <1>1, <1>2, <1>3, <1>4 DEF Next

\* The processes, the bus and the daemon keep their types.
THEOREM LoginTypeCorrect == Spec => []LoginTypeOK
  <1>1. LoginInv => LoginTypeOK
    BY DEF LoginInv
  <1> QED BY <1>1, InitLogin, NextLogin, PTL DEF Spec

\* A process that was given a cookie has its session until it closes it or leaves, for
\* any number of processes and connections: see CookieHasSession.
THEOREM CookiesCorrect == Spec => []CookieHasSession
  <1>1. LoginInv => CookieHasSession
    BY DEF LoginInv
  <1> QED BY <1>1, InitLogin, NextLogin, PTL DEF Spec

\* A session and a job that runs have a leader, so the job of a client that has left is
\* cancelled with it and opens no session: see JobsHaveLeaders.
THEOREM JobsCorrect == Spec => []JobsHaveLeaders
  <1>1. LoginInv => JobsHaveLeaders
    BY DEF LoginInv
  <1> QED BY <1>1, InitLogin, NextLogin, PTL DEF Spec

\* The step that opens a session: it is a watch's, and all the output was read unless
\* reading failed.
LEMMA OpensOne ==
  ASSUME LoginInv, Next, NEW k \in sessions' \ sessions
  PROVE  /\ k \in Conns
         /\ params' = [params EXCEPT ![k] = parse_output(owner[k], got[k])]
         /\ child[k] = "ok" /\ k \notin broken' => got[k] = Len(Output)
  <1>1. DaemonTypes /\ JobsOK
    BY TypeParts DEF LoginInv
  <1>2. sessions' # sessions
    OBVIOUS
  <1>3. PICK j \in Conns : out_watch(j) \/ error_watch(j)
    <2>1. ~ Daemon
      BY DEF Daemon, create_session_for_sender, GetSession, dbus_close_session,
             remove_sessions_for_connection
    <2>2. ~ \E p \in Procs : Process(p)
      BY <1>2 DEF Process, OpenAnswered, SsidAnswered, DirAnswered, Timeout, Exit,
             ck_connector_open_session, ck_connector_close_session, pam_sm_close_session
    <2>3. ~ \E i \in Conns : Disconnect(i) \/ ChildPrints(i) \/ ChildEnds(i)
      BY <1>2 DEF Disconnect, ChildPrints, ChildEnds
    <2> QED BY <2>1, <2>2, <2>3 DEF Next, Job
  <1>4. \E lost : maybe_complete_job(j, lost)
    BY <1>2, <1>3 DEF out_watch, error_watch
  <1>5. j \notin out' \cup err' /\ job_completed(j)
    BY <1>2, <1>4 DEF maybe_complete_job
  <1>6. k = j /\ params' = [params EXCEPT ![j] = parse_output(owner[j], got[j])]
    BY <1>5 DEF job_completed
  <1>7. ASSUME child[j] = "ok", j \notin broken'
        PROVE  got[j] = wrote[j]
    <2>1. CASE out_watch(j)
      <3>1. j \in out
        BY <2>1 DEF out_watch
      <3> QED BY <1>5, <1>7, <2>1, <3>1 DEF out_watch, maybe_complete_job
    <2>2. CASE error_watch(j)
      <3>1. j \in err /\ out' = out /\ broken' = broken
        BY <2>2 DEF error_watch, maybe_complete_job
      <3> QED BY <1>1, <1>5, <1>7, <3>1 DEF JobsOK
    <2> QED BY <1>3, <2>1, <2>2
  <1> QED BY <1>1, <1>6, <1>7 DEF JobsOK

\* A session that is opened has what its client gave and, if the collector came to its end
\* and its output could be read, everything else that it printed: see ParametersComplete.
THEOREM ParametersCorrect == Spec => ParametersComplete
  <1> DEFINE A == \A k \in sessions' \ sessions :
                    LET given == save_parameters(owner[k]) IN
                    \A n \in Params :
                      /\ (params'[k][n] = "given") = (n \in given)
                      /\ child[k] = "ok" /\ k \notin broken' /\ n \in Known \ given
                         /\ (\E i \in DOMAIN Output : Output[i] = n)
                         => params'[k][n] = "collected"
  <1>1. LoginInv /\ Next => A
    <2> SUFFICES ASSUME LoginInv, Next, NEW k \in sessions' \ sessions, NEW n \in Params
                 PROVE  LET given == save_parameters(owner[k]) IN
                        /\ (params'[k][n] = "given") = (n \in given)
                        /\ child[k] = "ok" /\ k \notin broken' /\ n \in Known \ given
                           /\ (\E i \in DOMAIN Output : Output[i] = n)
                           => params'[k][n] = "collected"
      OBVIOUS
    <2>1. /\ k \in Conns
          /\ params' = [params EXCEPT ![k] = parse_output(owner[k], got[k])]
          /\ child[k] = "ok" /\ k \notin broken' => got[k] = Len(Output)
      BY OpensOne
    <2>2. DOMAIN params = Conns
      BY TypeParts DEF LoginInv, DaemonTypes
    <2>3. params'[k][n] = IF n \in save_parameters(owner[k]) THEN "given"
                          ELSE IF n \in Known /\ \E i \in 1 .. got[k] : Output[i] = n
                            THEN "collected" ELSE "absent"
      BY <2>1, <2>2 DEF parse_output
    <2>4. DOMAIN Output = 1 .. Len(Output)
      BY LoginAssumption
    <2> QED BY <2>1, <2>3, <2>4
  <1>2. LoginInv /\ [Next]_vars => [A]_vars
    BY <1>1
  <1> HIDE DEF A
  <1>3. Spec => [][A]_vars
    BY <1>2, InitLogin, NextLogin, PTL DEF Spec
  <1> QED BY <1>3 DEF A, ParametersComplete
=============================================================================
