------------------------------ MODULE VtEvents ------------------------------
(***************************************************************************)
(* What the VT monitor promises the rest of the daemon, with its threads,  *)
(* queue and locks abstracted away: a watcher reads which virtual terminal *)
(* the kernel shows, leaves that number in a mailbox that keeps only the   *)
(* newest one, and the main loop moves the mailbox into active_num, which  *)
(* is what "active-changed" reports to the seats.                          *)
(*                                                                         *)
(* CkVtMonitor implements this module; CkSeat is built on top of it.       *)
(***************************************************************************)
EXTENDS Naturals

CONSTANT Consoles           \* the numbers of the virtual terminals

ASSUME ConsolesAssumption == Consoles \subseteq Nat \ {0}

VARIABLES console,          \* the VT in the foreground (the kernel's state)
          reads,            \* VT numbers a watcher has read, not yet queued
          mailbox,          \* the newest queued event, 0 when there is none
          active_num        \* CkVtMonitorPrivate.active_num

vtvars == <<console, reads, mailbox, active_num>>

VtTypeOK ==
  /\ console \in Consoles
  /\ reads \subseteq Consoles
  /\ mailbox \in Consoles \cup {0}
  /\ active_num \in Consoles \cup {0}

\* active_num is 0 when ck_get_active_console_num fails at start-up.
VtInit ==
  /\ console \in Consoles
  /\ reads = {}
  /\ mailbox = 0
  /\ active_num \in {console, 0}

\* The kernel brings another VT to the foreground (a key press, VT_ACTIVATE).
SwitchConsole(v) ==
  /\ v # console
  /\ console' = v
  /\ UNCHANGED <<reads, mailbox, active_num>>

\* A watcher learns which VT is in the foreground.
ReadConsole ==
  /\ console \notin reads
  /\ reads' = reads \cup {console}
  /\ UNCHANGED <<console, mailbox, active_num>>

\* A watcher queues what it has read; process_queue only ever uses the newest
\* event, so an older one still in the mailbox is lost.
QueueEvent(v) ==
  /\ v \in reads
  /\ reads' = reads \ {v}
  /\ mailbox' = v
  /\ UNCHANGED <<console, active_num>>

\* process_queue followed by change_active_num.
Deliver ==
  /\ mailbox # 0
  /\ active_num' = mailbox
  /\ mailbox' = 0
  /\ UNCHANGED <<console, reads>>

VtNext ==
  \/ \E v \in Consoles : SwitchConsole(v) \/ QueueEvent(v)
  \/ ReadConsole
  \/ Deliver

VtFairness == WF_vtvars(Deliver) /\ \A v \in Consoles : WF_vtvars(QueueEvent(v))

VtSafety == VtInit /\ [][VtNext]_vtvars
VtSpec == VtSafety /\ VtFairness
=============================================================================
