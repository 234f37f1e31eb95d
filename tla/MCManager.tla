----------------------------- MODULE MCManager -----------------------------
(* Small instances of CkManager: three sessions of two clients.            *)
EXTENDS CkManager

CONSTANTS k1, k2, k3, o1, o2, u1, u2

\* k1 and k2 are opened by one client, as a display manager does.
TwoClients == [c \in Cookies |-> IF c = k3 THEN o2 ELSE o1]

\* k1 and k3 are sessions of one user.
TwoUsers == [c \in Cookies |-> IF c = k2 THEN u2 ELSE u1]

\* k1 and k2 were vouched for by their display manager; k3 claims the login of k1,
\* or is reported as remote.
Vouched == [c \in Cookies |-> IF c = k3 THEN "absent" ELSE "true"]
Reported == [c \in Cookies |-> IF c = k3 THEN "false" ELSE "true"]
Logins == [c \in Cookies |-> IF c = k2 THEN "login2" ELSE "login1"]
=============================================================================
