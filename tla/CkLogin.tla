------------------------------ MODULE CkLogin ------------------------------
(***************************************************************************)
(* A login from end to end. A process (the PAM module, ck-launch-session   *)
(* or another user of libck-connector) connects to the bus and calls     *)
(* OpenSession; the daemon stores a leader, runs ck-collect-session-info   *)
(* as a job, and answers with a cookie when the job's pipes are closed and *)
(* the session is open. The process then asks for its runtime directory.   *)
(* A process may give up waiting, log out, or die at any time.             *)
(*                                                                         *)
(* A private connection, its leader, its session and its cookie are one    *)
(* value of Conns: a connector opens one session per connection. The bus   *)
(* delivers calls and NameOwnerChanged in the order they are made.         *)
(***************************************************************************)
EXTENDS Naturals, Sequences, SequencesExt

CONSTANTS Pam,                \* processes with pam_ck_connector
          App,                \* ck-launch-session and other users of the connector
          NoProc,
          MaxConns,           \* bound: connections ever made
          Given,              \* process -> parameters it hands to OpenSession
          Known,              \* names the daemon's parameter_lookup has
          Restricted,         \* "id" and "cookie"
          Output              \* the parameters ck-collect-session-info prints

Procs == Pam \cup App
Conns == 1 .. MaxConns
NoConn == 0
Params == Known \cup {Output[i] : i \in DOMAIN Output}

ASSUME LoginAssumption ==
  /\ MaxConns \in Nat \ {0}
  /\ NoProc \notin Procs
  /\ Pam \cap App = {}
  /\ Known \subseteq STRING
  /\ Output \in Seq(STRING)

VARIABLES pc,         \* process -> where it is; "Open", "Ssid", "Dir" and "Close"
                      \* wait for the answer to a call
          conn,       \* process -> connector->connection
          created,    \* processes whose connector says session_created
          ssid, dir,  \* process -> the session the connector's ssid and
                      \* runtime_dir are of
          owner,      \* connection -> the process that made it
          up,         \* connections that are open
          inbox,      \* what the daemon has yet to handle
          reply,      \* connection -> the answer the process has yet to read
          leaders,    \* CkManagerPrivate.leaders
          sessions,   \* CkManagerPrivate.sessions
          params,     \* session -> where each parameter came from
          child,      \* job -> its process
          wrote, got, \* job -> lines printed, and lines read into std_out
          out, err,   \* jobs whose out_watch_id, err_watch_id is not 0
          broken      \* jobs whose output could not be read to the end

procvars == <<pc, conn, created, ssid, dir>>
busvars == <<owner, up, inbox, reply>>
jobvars == <<child, wrote, got, out, err, broken>>
vars == <<procvars, busvars, leaders, sessions, params, jobvars>>

Waits == {"Open", "Ssid", "Dir", "Close"}
Phases == {"out", "failed", "in", "closed", "lost", "gone"} \cup Waits
NoParams == [n \in Params |-> "absent"]

LoginTypeOK ==
  /\ pc \in [Procs -> Phases]
  /\ conn \in [Procs -> Conns \cup {NoConn}]
  /\ created \subseteq Procs
  /\ ssid \in [Procs -> Conns \cup {NoConn}] /\ dir \in [Procs -> Conns \cup {NoConn}]
  /\ owner \in [Conns -> Procs \cup {NoProc}]
  /\ up \subseteq Conns
  /\ inbox \in Seq([conn : Conns, kind : Waits \cup {"Gone"}, about : Conns \cup {NoConn}])
  /\ reply \in [Conns -> {"none", "ok", "error"}]
  /\ leaders \subseteq Conns /\ sessions \subseteq Conns
  /\ params \in [Conns -> [Params -> {"absent", "given", "collected"}]]
  /\ child \in [Conns -> {"none", "run", "ok", "failed", "killed", "reaped"}]
  /\ wrote \in [Conns -> 0 .. Len(Output)] /\ got \in [Conns -> 0 .. Len(Output)]
  /\ out \subseteq Conns /\ err \subseteq Conns /\ broken \subseteq Conns

Init ==
  /\ pc = [p \in Procs |-> "out"]
  /\ conn = [p \in Procs |-> NoConn] /\ created = {}
  /\ ssid = [p \in Procs |-> NoConn] /\ dir = [p \in Procs |-> NoConn]
  /\ owner = [k \in Conns |-> NoProc] /\ up = {} /\ inbox = <<>>
  /\ reply = [k \in Conns |-> "none"]
  /\ leaders = {} /\ sessions = {} /\ params = [k \in Conns |-> NoParams]
  /\ child = [k \in Conns |-> "none"]
  /\ wrote = [k \in Conns |-> 0] /\ got = [k \in Conns |-> 0]
  /\ out = {} /\ err = {} /\ broken = {}

----------------------------------------------------------------------------
(* The connector and its users.                                            *)

Msg(k, kind, about) == [conn |-> k, kind |-> kind, about |-> about]

\* dbus_connection_send_with_reply_and_block: the call is sent and p waits.
Call(p, k, kind, about) ==
  /\ pc' = [pc EXCEPT ![p] = kind]
  /\ inbox' = Append(inbox, Msg(k, kind, about))
  /\ reply' = [reply EXCEPT ![k] = "none"]

\* ck_connector_unref of the last reference: the connection is closed, and the bus
\* tells the daemon so.
ck_connector_unref(p, phase) ==
  /\ pc' = [pc EXCEPT ![p] = phase]
  /\ conn' = [conn EXCEPT ![p] = NoConn]
  /\ created' = created \ {p}
  /\ ssid' = [ssid EXCEPT ![p] = NoConn] /\ dir' = [dir EXCEPT ![p] = NoConn]
  /\ up' = up \ {conn[p]}
  /\ inbox' = IF conn[p] \in up THEN Append(inbox, Msg(conn[p], "Gone", NoConn)) ELSE inbox
  /\ reply' = [k \in Conns |-> IF k = conn[p] THEN "none" ELSE reply[k]]
  /\ UNCHANGED owner

\* What p waited for has come.
Read(p, phase) ==
  /\ pc' = [pc EXCEPT ![p] = phase]
  /\ reply' = [reply EXCEPT ![conn[p]] = "none"]
  /\ UNCHANGED inbox

\* The session could not be opened. The PAM module returns PAM_IGNORE and keeps its
\* connector; ck-launch-session goes on to run its command, see Exit.
OpenFails(p) == Read(p, "failed") /\ UNCHANGED <<conn, created, ssid, dir, owner, up>>

\* An application gives a parameter with a name that the connector does not know.
add_param_basic_Fails(p) ==
  /\ p \in App
  /\ pc' = [pc EXCEPT ![p] = "failed"]
  /\ UNCHANGED <<inbox, reply>>

\* ck_connector_open_session and ..._with_parameters: a new connection, whatever the
\* connector had before. It fails when there is no bus, or a parameter is refused; the
\* connection stays in the latter case.
ck_connector_open_session(p) ==
  /\ pc[p] \in {"out"} \cup (IF p \in App THEN {"closed", "failed"} ELSE {})
  /\ \E k \in Conns :
       /\ owner[k] = NoProc
       /\ \A j \in 1 .. k - 1 : owner[j] # NoProc
       /\ owner' = [owner EXCEPT ![k] = p]
       /\ \/ /\ up' = up \cup {k}
             /\ conn' = [conn EXCEPT ![p] = k]
             /\ \/ Call(p, k, "Open", NoConn)
                \/ add_param_basic_Fails(p)
          \/ /\ conn' = [conn EXCEPT ![p] = NoConn]
             /\ pc' = [pc EXCEPT ![p] = "failed"]
             /\ UNCHANGED <<up, inbox, reply>>
  /\ UNCHANGED <<created, ssid, dir, leaders, sessions, params, jobvars>>

\* ck_connector_get_runtime_dir: what the connector has it does not ask for again.
ck_connector_get_runtime_dir(p) ==
  \/ dir[p] # NoConn /\ Read(p, "in")
  \/ dir[p] = NoConn /\ ssid[p] # NoConn /\ Call(p, conn[p], "Dir", ssid[p])
  \/ dir[p] = NoConn /\ ssid[p] = NoConn /\ Call(p, conn[p], "Ssid", conn[p])

\* The answer to OpenSession. The cookie is put into the environment; when PAM cannot,
\* it tears the session down the hard way.
OpenAnswered(p) ==
  /\ pc[p] = "Open"
  /\ \/ /\ reply[conn[p]] = "ok"
        /\ \/ /\ created' = created \cup {p}
              /\ ck_connector_get_runtime_dir(p)
              /\ UNCHANGED <<conn, ssid, dir, owner, up>>
           \/ p \in Pam /\ ck_connector_unref(p, "out")
     \/ reply[conn[p]] = "error" /\ OpenFails(p)
  /\ UNCHANGED <<leaders, sessions, params, jobvars>>

\* ck_connector_get_ssid
SsidAnswered(p) ==
  /\ pc[p] = "Ssid"
  /\ \/ /\ reply[conn[p]] = "ok"
        /\ ssid' = [ssid EXCEPT ![p] = conn[p]]
        /\ Call(p, conn[p], "Dir", conn[p])
     \/ reply[conn[p]] = "error" /\ Read(p, "in") /\ UNCHANGED ssid
  /\ UNCHANGED <<conn, created, dir, owner, up, leaders, sessions, params, jobvars>>

\* The end of ck_connector_get_runtime_dir, and of the login. PAM may once more be
\* unable to set the environment.
DirAnswered(p) ==
  /\ pc[p] = "Dir"
  /\ \/ /\ reply[conn[p]] = "ok"
        /\ \/ /\ dir' = [dir EXCEPT ![p] = ssid[p]]
              /\ Read(p, "in")
              /\ UNCHANGED <<conn, created, ssid, owner, up>>
           \/ p \in Pam /\ ck_connector_unref(p, "out")
     \/ /\ reply[conn[p]] = "error"
        /\ Read(p, "in")
        /\ UNCHANGED <<conn, created, ssid, dir, owner, up>>
  /\ UNCHANGED <<leaders, sessions, params, jobvars>>

\* ck_connector_close_session by an application.
ck_connector_close_session(p) ==
  /\ p \in App
  /\ \/ /\ pc[p] = "in"
        /\ Call(p, conn[p], "Close", conn[p])
        /\ UNCHANGED created
     \/ /\ pc[p] = "Close"
        /\ \/ reply[conn[p]] = "ok" /\ Read(p, "closed") /\ created' = created \ {p}
           \/ reply[conn[p]] = "error" /\ Read(p, "lost") /\ UNCHANGED created
  /\ UNCHANGED <<conn, ssid, dir, owner, up, leaders, sessions, params, jobvars>>

\* No reply within the default timeout of D-Bus. A late one is thrown away.
Timeout(p) ==
  /\ pc[p] \in Waits
  /\ reply[conn[p]] = "none"
  /\ \/ pc[p] = "Open" /\ OpenFails(p)
     \/ /\ pc[p] \in {"Ssid", "Dir", "Close"}
        /\ pc' = [pc EXCEPT ![p] = IF pc[p] = "Close" THEN "lost" ELSE "in"]
        /\ UNCHANGED <<conn, created, ssid, dir, busvars>>
  /\ UNCHANGED <<leaders, sessions, params, jobvars>>

\* pam_sm_close_session, or an application that is done with its connector.
pam_sm_close_session(p) ==
  /\ pc[p] \in {"in", "failed", "closed", "lost"}
  /\ p \in Pam \cup App
  /\ ck_connector_unref(p, "out")
  /\ UNCHANGED <<leaders, sessions, params, jobvars>>

\* "when the login manager exits / crashes / etc.", with a connection that is open.
\* ck-launch-session exits after its command or, when the session could not be opened
\* or fork fails, runs the command in its place: the connection is closed on exec.
Exit(p) ==
  /\ \E k \in up : owner[k] = p
  /\ pc[p] # "gone"
  /\ pc' = [pc EXCEPT ![p] = "gone"]
  /\ conn' = [conn EXCEPT ![p] = NoConn] /\ created' = created \ {p}
  /\ ssid' = [ssid EXCEPT ![p] = NoConn] /\ dir' = [dir EXCEPT ![p] = NoConn]
  /\ reply' = [k \in Conns |-> IF owner[k] = p THEN "none" ELSE reply[k]]
  /\ UNCHANGED <<owner, up, inbox, leaders, sessions, params, jobvars>>

\* The kernel closes what a process that is gone had open.
Disconnect(k) ==
  /\ k \in up /\ pc[owner[k]] = "gone"
  /\ up' = up \ {k}
  /\ inbox' = Append(inbox, Msg(k, "Gone", NoConn))
  /\ UNCHANGED <<procvars, owner, reply, leaders, sessions, params, jobvars>>

----------------------------------------------------------------------------
(* The daemon: the handlers of ck-manager.c that a login needs. The bus    *)
(* still knows the caller while its connection is up.                      *)

\* The answer reaches a process that still waits for it.
Answer(k, kind, r) ==
  reply' = IF k \in up /\ conn[owner[k]] = k /\ pc[owner[k]] = kind
             THEN [reply EXCEPT ![k] = r] ELSE reply

Handles(kind) == inbox # <<>> /\ Head(inbox).kind = kind /\ inbox' = Tail(inbox)

\* save_parameters: what the client gives, but for restricted and unknown names. The
\* legacy name of the user is converted.
save_parameters(p) ==
  {IF n = "user" THEN "unix-user" ELSE n : n \in (Given[p] \cap Known) \ Restricted}

\* parse_output letting a collected value replace the client's.
parse_output_KeepsCollected(p, lines) ==
  [n \in Params |-> IF \E i \in 1 .. lines : Output[i] = n THEN "collected"
                    ELSE IF n \in save_parameters(p) THEN "given" ELSE "absent"]

\* parse_output: the lines of the job for known names, then the overrides over them.
parse_output(p, lines) ==
  [n \in Params |-> IF n \in save_parameters(p) THEN "given"
                    ELSE IF n \in Known /\ \E i \in 1 .. lines : Output[i] = n
                      THEN "collected" ELSE "absent"]

\* OpenSession: create_session_for_sender stores the leader before it runs the job.
create_session_for_sender ==
  /\ Handles("Open")
  /\ LET k == Head(inbox).conn IN
     \/ /\ Answer(k, "Open", "error")
        /\ UNCHANGED <<leaders, child, out, err>>
     \/ /\ k \in up
        /\ leaders' = leaders \cup {k}
        /\ \/ /\ child' = [child EXCEPT ![k] = "run"]
              /\ out' = out \cup {k} /\ err' = err \cup {k}
              /\ UNCHANGED reply
           \/ /\ Answer(k, "Open", "error")
              /\ UNCHANGED <<child, out, err>>
  /\ UNCHANGED <<procvars, owner, up, sessions, params, wrote, got, broken>>

\* GetSessionForCookie, and GetXDGRuntimeDir of the session: nothing changes.
GetSession ==
  /\ Handles("Ssid") \/ Handles("Dir")
  /\ LET m == Head(inbox) IN
     \/ m.about \in sessions /\ Answer(m.conn, m.kind, "ok")
     \/ Answer(m.conn, m.kind, "error")
  /\ UNCHANGED <<procvars, owner, up, leaders, sessions, params, jobvars>>

\* CloseSession by the process that opened the session.
dbus_close_session ==
  /\ Handles("Close")
  /\ LET m == Head(inbox) IN
     \/ /\ m.about \in sessions /\ m.conn \in up
        /\ sessions' = sessions \ {m.about}
        /\ leaders' = leaders \ {m.about}
        /\ params' = [params EXCEPT ![m.about] = NoParams]
        /\ Answer(m.conn, "Close", "ok")
     \/ /\ m.about \notin sessions \/ m.conn \notin up
        /\ Answer(m.conn, "Close", "error")
        /\ UNCHANGED <<sessions, leaders, params>>
  /\ UNCHANGED <<procvars, owner, up, jobvars>>

\* ck_job_finalize: what was read goes with the job.
ck_job_finalize(k) ==
  wrote' = [wrote EXCEPT ![k] = 0] /\ got' = [got EXCEPT ![k] = 0]

\* ck_job_cancel that does not wait for the child it has killed.
ck_job_cancel_NoWait(k) ==
  /\ child' = [child EXCEPT ![k] = IF k \in out \cup err THEN "killed" ELSE @]
  /\ out' = out \ {k} /\ err' = err \ {k}
  /\ ck_job_finalize(k)

\* ck_session_leader_cancel: the job is killed, waited for, and its watches removed.
ck_job_cancel(k) ==
  /\ child' = [child EXCEPT ![k] = IF @ \in {"none", "reaped"} THEN @ ELSE "reaped"]
  /\ out' = out \ {k} /\ err' = err \ {k}
  /\ ck_job_finalize(k)

\* NameOwnerChanged: the leader, its session and its job go.
remove_sessions_for_connection ==
  /\ Handles("Gone")
  /\ LET k == Head(inbox).conn IN
     /\ leaders' = leaders \ {k}
     /\ sessions' = sessions \ {k}
     /\ params' = [params EXCEPT ![k] = NoParams]
     /\ IF k \in leaders THEN ck_job_cancel(k) ELSE UNCHANGED <<child, wrote, got, out, err>>
     /\ broken' = broken \ {k}
  /\ UNCHANGED <<procvars, owner, up, reply>>

----------------------------------------------------------------------------
(* The job.                                                                *)

\* ck-collect-session-info prints, and ends; it may be killed.
ChildPrints(k) ==
  /\ child[k] = "run" /\ wrote[k] < Len(Output)
  /\ wrote' = [wrote EXCEPT ![k] = @ + 1]
  /\ UNCHANGED <<procvars, busvars, leaders, sessions, params, child, got, out, err, broken>>

ChildEnds(k) ==
  /\ child[k] = "run"
  /\ \E end \in {"ok", "failed", "killed"} :
       /\ end = "ok" => wrote[k] = Len(Output)
       /\ child' = [child EXCEPT ![k] = end]
  /\ UNCHANGED <<procvars, busvars, leaders, sessions, params, wrote, got, out, err, broken>>

\* job_completed that does not look at the status: the client gets its cookie even if
\* there is nothing to open a session with.
job_completed_NoCheck(k) ==
  /\ Answer(k, "Open", "ok")
  /\ \/ /\ child[k] \in {"ok", "killed"}
        /\ sessions' = sessions \cup {k}
        /\ params' = [params EXCEPT ![k] = parse_output(owner[k], got[k])]
     \/ UNCHANGED <<sessions, params>>
  /\ child' = [child EXCEPT ![k] = "reaped"]
  /\ ck_job_finalize(k)

\* job_completed that has no answer when the job failed.
job_completed_Silent(k) ==
  /\ \/ /\ child[k] \in {"ok", "killed"}
        /\ sessions' = sessions \cup {k}
        /\ params' = [params EXCEPT ![k] = parse_output(owner[k], got[k])]
        /\ Answer(k, "Open", "ok")
     \/ UNCHANGED <<reply, sessions, params>>
  /\ child' = [child EXCEPT ![k] = "reaped"]
  /\ ck_job_finalize(k)

\* job_completed with the status of wait_on_job: WEXITSTATUS of a child that was
\* killed is 0. The session is opened, or the client told that it could not be.
job_completed(k) ==
  /\ \/ /\ child[k] \in {"ok", "killed"}
        /\ sessions' = sessions \cup {k}
        /\ params' = [params EXCEPT ![k] = parse_output(owner[k], got[k])]
        /\ Answer(k, "Open", "ok")
     \/ Answer(k, "Open", "error") /\ UNCHANGED <<sessions, params>>
  /\ child' = [child EXCEPT ![k] = "reaped"]
  /\ ck_job_finalize(k)

\* maybe_complete_job, with the watches as they are after this one is gone; lost are
\* the jobs of which some output could not be read. It waits for the child.
maybe_complete_job(k, lost) ==
  /\ broken' = lost
  /\ IF k \notin out' \cup err' THEN child[k] # "run" /\ job_completed(k)
       ELSE UNCHANGED <<sessions, params, reply, child, wrote, got>>

\* out_watch: a line is read. At the end of the output, or when reading fails, the
\* watch goes.
out_watch(k) ==
  /\ k \in out
  /\ UNCHANGED err
  /\ \/ /\ got[k] < wrote[k]
        /\ got' = [got EXCEPT ![k] = @ + 1]
        /\ UNCHANGED <<out, broken, sessions, params, reply, child, wrote>>
     \/ /\ got[k] = wrote[k] /\ child[k] # "run"
        /\ out' = out \ {k}
        /\ maybe_complete_job(k, broken)
     \/ /\ got[k] < wrote[k]
        /\ out' = out \ {k}
        /\ maybe_complete_job(k, broken \cup {k})
  /\ UNCHANGED <<procvars, owner, up, inbox, leaders>>

error_watch(k) ==
  /\ k \in err
  /\ child[k] # "run"
  /\ err' = err \ {k}
  /\ UNCHANGED out
  /\ maybe_complete_job(k, broken)
  /\ UNCHANGED <<procvars, owner, up, inbox, leaders>>

----------------------------------------------------------------------------
Daemon == create_session_for_sender \/ GetSession \/ dbus_close_session
            \/ remove_sessions_for_connection

Process(p) ==
  \/ OpenAnswered(p) \/ SsidAnswered(p) \/ DirAnswered(p) \/ Timeout(p) \/ Exit(p)
  \/ ck_connector_open_session(p) \/ ck_connector_close_session(p)
  \/ pam_sm_close_session(p)

Job(k) == ChildPrints(k) \/ ChildEnds(k) \/ out_watch(k) \/ error_watch(k)

Next ==
  \/ Daemon
  \/ \E p \in Procs : Process(p)
  \/ \E k \in Conns : Disconnect(k) \/ Job(k)

\* The daemon's main loop runs, the kernel cleans up after processes, and the job,
\* which waits for nobody, ends.
Fairness ==
  /\ WF_vars(Daemon)
  /\ \A k \in Conns : /\ WF_vars(Disconnect(k)) /\ WF_vars(ChildEnds(k))
                      /\ WF_vars(out_watch(k)) /\ WF_vars(error_watch(k))

Spec == Init /\ [][Next]_vars /\ Fairness

----------------------------------------------------------------------------
(* Properties.                                                             *)

\* A process that was given a cookie has its session as long as it keeps the
\* connection: no late answer, timeout or other login takes it away.
CookieHasSession ==
  \A p \in created : pc[p] \notin {"Close", "lost"} => conn[p] \in sessions

\* "so the pending request can be revoked": sessions and running jobs belong to a
\* leader, so a job cannot open a session for a client that has left.
JobsHaveLeaders == sessions \cup out \cup err \subseteq leaders

\* A session has what the client gave, and all the rest that the collector prints
\* when the collector came to its end.
ParametersComplete ==
  [][\A k \in sessions' \ sessions :
       LET given == save_parameters(owner[k]) IN
       \A n \in Params : /\ (params'[k][n] = "given") = (n \in given)
                         /\ child[k] = "ok" /\ k \notin broken' /\ n \in Known \ given
                            /\ (\E i \in DOMAIN Output : Output[i] = n)
                            => params'[k][n] = "collected"]_vars

\* "ConsoleKit will notice, via D-Bus connection tracking, that the login session
\* ended": whatever it was doing, once a process is gone everything it had in the
\* daemon goes, and no child of the daemon is left unreaped.
LoginEnds ==
  \A k \in Conns :
    (owner[k] # NoProc /\ pc[owner[k]] = "gone")
      ~> (k \notin leaders \cup sessions /\ child[k] \in {"none", "reaped"})

\* OpenSession is answered without the help of a timeout: the caller gets an answer
\* or leaves.
OpenAnsweredOrLeft ==
  \A p \in Procs : pc[p] = "Open" ~> (pc[p] # "Open" \/ reply[conn[p]] # "none")

\* "Gets the XDG_RUNTIME_DIR for the current open session."
RuntimeDirOfSession ==
  \A p \in created : pc[p] = "in" /\ dir[p] # NoConn => dir[p] = conn[p]

\* "process already registered with ConsoleKit": when pam_sm_open_session says so,
\* the process has a session.
RefusedMeansRegistered ==
  \A p \in Pam : pc[p] \notin {"out", "gone"} \cup Waits => p \in created
============================================================================
