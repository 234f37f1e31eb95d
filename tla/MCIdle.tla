------------------------------- MODULE MCIdle -------------------------------
(***************************************************************************)
(* Two sessions that share a terminal.                                     *)
(***************************************************************************)
EXTENDS CkTtyIdleMonitor

CONSTANTS tty

OnTty == [m \in Monitors |-> tty]
=============================================================================
