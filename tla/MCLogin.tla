----------------------------- MODULE MCLogin -----------------------------
(* Small instances of CkLogin: a display manager's PAM stack that logs in  *)
(* more than once and a second process.                                    *)
EXTENDS CkLogin

\* The PAM module gives the user and the terminal; an application may try names that
\* the daemon refuses or renames.
Parameters == [p \in Procs |-> IF p \in Pam THEN {"unix-user", "display-device"}
                               ELSE IF p \in App THEN {"user", "cookie"} ELSE {}]

\* What ck-collect-session-info prints, in part.
Lines == <<"unix-user">>
==========================================================================
