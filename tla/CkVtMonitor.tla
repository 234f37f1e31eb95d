----------------------------- MODULE CkVtMonitor -----------------------------
(***************************************************************************)
(* ck-vt-monitor.c: the watcher threads, the event queue, the idle source  *)
(* that makes the main loop process the queue, and the locks between them. *)
(*                                                                         *)
(* HaveSysVtSignal is the build option HAVE_SYS_VT_SIGNAL.  Without it one *)
(* thread per VT blocks in VT_WAITACTIVE, reports once and exits; with it  *)
(* a single thread, stored under key 1, polls /sys/class/tty/tty0/active   *)
(* and reports for ever.                                                   *)
(*                                                                         *)
(* Granularity: the queue's mutex is held by the main loop from the first  *)
(* to the last step of process_queue (main # "loop") and by a thread for   *)
(* the single step that pushes.  hash_lock is only ever held for one step  *)
(* of this model.  schedule_lock is explicit, because GLib may dispatch    *)
(* the new idle source between g_idle_add and the assignment of its id.    *)
(***************************************************************************)
EXTENDS Naturals, Sequences, FiniteSets

CONSTANTS Consoles,         \* the VTs the kernel has
          MaxConsoles,      \* what ck_get_max_num_consoles returns
          HaveSysVtSignal,  \* the build option
          MaxQueue,         \* bound: events the polling thread may queue up
          WaitMayFail,      \* VT_WAITACTIVE may fail
          ThreadMayFail     \* g_thread_try_new may fail

ASSUME ConstantsAssumption ==
  /\ Consoles \subseteq Nat \ {0} /\ 1 \in Consoles
  /\ MaxConsoles \in Nat
  /\ HaveSysVtSignal \in BOOLEAN
  /\ MaxQueue \in Nat
  /\ WaitMayFail \in BOOLEAN
  /\ ThreadMayFail \in BOOLEAN

\* The keys vt_add_watches may give a thread to.
Watchable == IF HaveSysVtSignal THEN {1} ELSE {i \in Consoles : i < MaxConsoles}

VARIABLES console,           \* kernel: the foreground VT
          notified,          \* kernel: tty0/active changed since it was read
          active_num,        \* CkVtMonitorPrivate.active_num
          vt_thread_hash,    \* keys of CkVtMonitorPrivate.vt_thread_hash
          event_queue,       \* the events, oldest first
          process_queue_id,  \* the id of the idle source is non-zero
          idle_sources,      \* process_queue sources attached to the main loop
          schedule_lock,     \* who holds it: 0 nobody, or a thread's key
          pc,                \* what each watcher thread does next
          num,               \* the local variable num of each thread
          main,              \* where the main loop is in process_queue
          data               \* the local variable data of process_queue

monitor == <<active_num, vt_thread_hash, event_queue, process_queue_id,
             idle_sources, schedule_lock>>
vars == <<console, notified, monitor, pc, num, main, data>>

ThreadStates == {"none", "wait", "push", "schedule", "assign", "remove"}
MainStates   == {"loop", "change", "clear", "unlock"}

TypeOK ==
  /\ console \in Consoles
  /\ notified \in BOOLEAN
  /\ active_num \in Consoles \cup {0}
  /\ vt_thread_hash \subseteq Nat
  /\ event_queue \in Seq(Consoles)
  /\ process_queue_id \in BOOLEAN
  /\ idle_sources \in Nat
  /\ schedule_lock \in Watchable \cup {0}
  /\ pc \in [Watchable -> ThreadStates]
  /\ num \in [Watchable -> Consoles]
  /\ main \in MainStates
  /\ data \in Consoles \cup {0}

-----------------------------------------------------------------------------
(* Starting threads *)

\* The VTs vt_add_watches starts a thread for, when active is the active VT
\* and hash the keys that have one.
NewWatches(active, hash) ==
  IF HaveSysVtSignal THEN {1} \ hash
                     ELSE Watchable \ (hash \cup {active})

\* vt_add_watches: any of the threads may fail to start (g_thread_try_new).
VtAddWatches(active) ==
  \E started \in SUBSET NewWatches(active, vt_thread_hash) :
     /\ ~ThreadMayFail => started = NewWatches(active, vt_thread_hash)
     /\ vt_thread_hash' = vt_thread_hash \cup started
     /\ pc'  = [v \in Watchable |-> IF v \in started THEN "wait" ELSE pc[v]]
     /\ num' = [v \in Watchable |-> IF v \in started THEN v ELSE num[v]]

\* ck_vt_monitor_init.  active_num is 0 if the active VT cannot be determined.
\* A descriptor of tty0/active that was never read counts as notified.
Init ==
  /\ console \in Consoles
  /\ notified = TRUE
  /\ active_num \in {console, 0}
  /\ event_queue = <<>>
  /\ process_queue_id = FALSE
  /\ idle_sources = 0
  /\ schedule_lock = 0
  /\ main = "loop"
  /\ data = 0
  /\ num = [v \in Watchable |-> v]
  /\ \E started \in SUBSET NewWatches(active_num, {}) :
       /\ ~ThreadMayFail => started = NewWatches(active_num, {})
       /\ vt_thread_hash = started
       /\ pc = [v \in Watchable |-> IF v \in started THEN "wait" ELSE "none"]

-----------------------------------------------------------------------------
(* The kernel *)

SwitchConsole(v) ==
  /\ v # console
  /\ console' = v
  /\ notified' = TRUE
  /\ UNCHANGED <<monitor, pc, num, main, data>>

-----------------------------------------------------------------------------
(* A watcher thread: vt_thread_start *)

\* ck_wait_for_active_console_num returns TRUE.
WaitActive(v) ==
  /\ ~HaveSysVtSignal
  /\ pc[v] = "wait"
  /\ console = v
  /\ pc' = [pc EXCEPT ![v] = "push"]
  /\ UNCHANGED <<console, notified, monitor, num, main, data>>

\* ck_wait_for_active_console_num returns FALSE: no event, straight to exit.
WaitFails(v) ==
  /\ ~HaveSysVtSignal
  /\ WaitMayFail
  /\ pc[v] = "wait"
  /\ pc' = [pc EXCEPT ![v] = "remove"]
  /\ UNCHANGED <<console, notified, monitor, num, main, data>>

\* ck_wait_for_console_switch: poll reports a change, the file is read.
WaitSwitch(v) ==
  /\ HaveSysVtSignal
  /\ pc[v] = "wait"
  /\ notified
  /\ Len(event_queue) < MaxQueue
  /\ notified' = FALSE
  /\ num' = [num EXCEPT ![v] = console]
  /\ pc' = [pc EXCEPT ![v] = "push"]
  /\ UNCHANGED <<console, monitor, main, data>>

\* Mutant: process_queue drops the queue's mutex as soon as the events are popped.
PushEvent_QueueUnlocked(v) ==
  /\ pc[v] = "push"
  /\ main # "change"
  /\ event_queue' = Append(event_queue, num[v])
  /\ pc' = [pc EXCEPT ![v] = "schedule"]
  /\ UNCHANGED <<console, notified, active_num, vt_thread_hash,
                 process_queue_id, idle_sources, schedule_lock, num, main, data>>

\* g_async_queue_push: needs the queue's mutex.
PushEvent(v) ==
  /\ pc[v] = "push"
  /\ main = "loop"
  /\ event_queue' = Append(event_queue, num[v])
  /\ pc' = [pc EXCEPT ![v] = "schedule"]
  /\ UNCHANGED <<console, notified, active_num, vt_thread_hash,
                 process_queue_id, idle_sources, schedule_lock, num, main, data>>

\* What the thread does once its event is scheduled.
AfterSchedule == IF HaveSysVtSignal THEN "wait" ELSE "remove"

\* schedule_process_queue finds a source scheduled already.
AlreadyScheduled(v) ==
  /\ pc[v] = "schedule"
  /\ schedule_lock = 0
  /\ process_queue_id
  /\ pc' = [pc EXCEPT ![v] = AfterSchedule]
  /\ UNCHANGED <<console, notified, monitor, num, main, data>>

\* schedule_process_queue, up to the return of g_idle_add.
AddIdleSource(v) ==
  /\ pc[v] = "schedule"
  /\ schedule_lock = 0
  /\ ~process_queue_id
  /\ schedule_lock' = v
  /\ idle_sources' = idle_sources + 1
  /\ pc' = [pc EXCEPT ![v] = "assign"]
  /\ UNCHANGED <<console, notified, active_num, vt_thread_hash, event_queue,
                 process_queue_id, num, main, data>>

\* schedule_process_queue stores the id and releases schedule_lock.
AssignSourceId(v) ==
  /\ pc[v] = "assign"
  /\ process_queue_id' = TRUE
  /\ schedule_lock' = 0
  /\ pc' = [pc EXCEPT ![v] = AfterSchedule]
  /\ UNCHANGED <<console, notified, active_num, vt_thread_hash, event_queue,
                 idle_sources, num, main, data>>

\* Mutant: the key stays in the table.
RemoveThread_KeepsKey(v) ==
  /\ pc[v] = "remove"
  /\ pc' = [pc EXCEPT ![v] = "none"]
  /\ UNCHANGED <<console, notified, monitor, num, main, data>>

\* The thread takes itself out of the table and exits.
RemoveThread(v) ==
  /\ pc[v] = "remove"
  /\ vt_thread_hash' = vt_thread_hash \ {num[v]}
  /\ pc' = [pc EXCEPT ![v] = "none"]
  /\ UNCHANGED <<console, notified, active_num, event_queue, process_queue_id,
                 idle_sources, schedule_lock, num, main, data>>

-----------------------------------------------------------------------------
(* The main loop: process_queue *)

\* Mutant: the oldest event is kept instead of the newest.
CompressQueue_KeepsOldest ==
  /\ main = "loop"
  /\ idle_sources > 0
  /\ idle_sources' = idle_sources - 1
  /\ data' = IF event_queue = <<>> THEN 0 ELSE Head(event_queue)
  /\ event_queue' = <<>>
  /\ main' = "change"
  /\ UNCHANGED <<console, notified, active_num, vt_thread_hash,
                 process_queue_id, schedule_lock, pc, num>>

\* The idle source is dispatched, the queue locked and emptied; only the
\* newest event is kept ("compress events in the queue").
CompressQueue ==
  /\ main = "loop"
  /\ idle_sources > 0
  /\ idle_sources' = idle_sources - 1
  /\ data' = IF event_queue = <<>> THEN 0 ELSE event_queue[Len(event_queue)]
  /\ event_queue' = <<>>
  /\ main' = "change"
  /\ UNCHANGED <<console, notified, active_num, vt_thread_hash,
                 process_queue_id, schedule_lock, pc, num>>

\* change_active_num: a new number is stored, watches are added for the other
\* VTs and "active-changed" is emitted; an old number changes nothing.
ChangeActiveNum ==
  /\ main = "change"
  /\ main' = "clear"
  /\ data' = 0
  /\ \/ /\ data \notin {0, active_num}
        /\ active_num' = data
        /\ VtAddWatches(data)
     \/ /\ data \in {0, active_num}
        /\ UNCHANGED <<active_num, vt_thread_hash, pc, num>>
  /\ UNCHANGED <<console, notified, event_queue, process_queue_id,
                 idle_sources, schedule_lock>>

\* Mutant: process_queue_id is reset without taking schedule_lock.
ClearSourceId_NoLock ==
  /\ main = "clear"
  /\ process_queue_id' = FALSE
  /\ main' = "unlock"
  /\ UNCHANGED <<console, notified, active_num, vt_thread_hash, event_queue,
                 idle_sources, schedule_lock, pc, num, data>>

\* Mutant: process_queue_id is not reset.
ClearSourceId_NoReset ==
  /\ main = "clear"
  /\ schedule_lock = 0
  /\ main' = "unlock"
  /\ UNCHANGED <<console, notified, monitor, pc, num, data>>

\* process_queue_id = 0, under schedule_lock.
ClearSourceId ==
  /\ main = "clear"
  /\ schedule_lock = 0
  /\ process_queue_id' = FALSE
  /\ main' = "unlock"
  /\ UNCHANGED <<console, notified, active_num, vt_thread_hash, event_queue,
                 idle_sources, schedule_lock, pc, num, data>>

UnlockQueue ==
  /\ main = "unlock"
  /\ main' = "loop"
  /\ UNCHANGED <<console, notified, monitor, pc, num, data>>

-----------------------------------------------------------------------------
Thread(v) ==
  \/ WaitActive(v) \/ WaitFails(v) \/ WaitSwitch(v)
  \/ PushEvent(v)
  \/ AlreadyScheduled(v) \/ AddIdleSource(v) \/ AssignSourceId(v)
  \/ RemoveThread(v)

MainLoop == CompressQueue \/ ChangeActiveNum \/ ClearSourceId \/ UnlockQueue

Next ==
  \/ \E v \in Consoles : SwitchConsole(v)
  \/ \E v \in Watchable : Thread(v)
  \/ MainLoop

\* The scheduler runs every thread and the main loop, and a thread that waits
\* for a mutex others keep releasing gets it in the end.  Nothing makes the
\* kernel switch VTs or a wait fail.
Fairness ==
  /\ WF_vars(MainLoop)
  /\ \A v \in Watchable :
       /\ WF_vars(WaitActive(v)) /\ WF_vars(WaitSwitch(v))
       /\ SF_vars(PushEvent(v))
       /\ SF_vars(AlreadyScheduled(v) \/ AddIdleSource(v))
       /\ WF_vars(AssignSourceId(v)) /\ WF_vars(RemoveThread(v))

Spec == Init /\ [][Next]_vars
FairSpec == Spec /\ Fairness
-----------------------------------------------------------------------------
(* Properties *)

\* Some thread has queued its event and is about to enter
\* schedule_process_queue.
SchedulePending == \E v \in Watchable : pc[v] = "schedule"

\* No wakeup is lost: when an event is in the queue and the main loop is not
\* processing it, a process_queue source is attached to the main loop or the
\* thread that queued the event has yet to call schedule_process_queue.
NoLostWakeup ==
  main = "loop" /\ event_queue # <<>> => idle_sources > 0 \/ SchedulePending

\* process_queue_id never goes stale: a non-zero id always belongs to a source
\* that is still attached or that is running and will reset it.  Otherwise
\* schedule_process_queue would skip g_idle_add for ever.
SourceIdHonest ==
  process_queue_id => idle_sources > 0 \/ main \in {"change", "clear"}

\* schedule_process_queue never attaches a second source while one waits.
OneIdleSource == idle_sources =< 1

\* vt_thread_hash has exactly the threads that have not exited: a key without
\* a thread would keep vt_add_watches from ever watching that VT again.
HashIsLiveThreads == vt_thread_hash = {v \in Watchable : pc[v] # "none"}

\* change_active_num's comment, "add a watch to every vt without a thread":
\* once nothing is in progress, every VT but the active one has a thread
\* blocked in a wait.
Quiet ==
  /\ main = "loop" /\ idle_sources = 0 /\ event_queue = <<>>
  /\ \A v \in Watchable : pc[v] \in {"none", "wait"}
QuietMeansWatched ==
  Quiet => \A v \in Watchable \ {active_num} : pc[v] = "wait"

\* If the user settles on a VT, active_num settles on it too (the polling
\* thread of HAVE_SYS_VT_SIGNAL; see QuietMeansWatched for the other build).
ActiveFollowsConsole ==
  \A v \in Consoles : <>[](console = v) => <>[](active_num = v)

\* The queue and its processing seen as the mailbox of VtEvents: the newest
\* event in the queue, or the one process_queue has just taken out of it.
Mailbox == IF main = "change" THEN data
           ELSE IF event_queue = <<>> THEN 0 ELSE event_queue[Len(event_queue)]
Reads == {num[v] : v \in {w \in Watchable : pc[w] = "push"}}

Abstract == INSTANCE VtEvents WITH mailbox <- Mailbox, reads <- Reads

\* Every step of the threads and of process_queue is a step of VtEvents or
\* invisible to it: whatever the interleaving, active_num only ever becomes a
\* number some watcher read, and the newest of those that were queued.
RefinesVtEvents == Abstract!VtSafety

\* The same with the fairness of VtEvents: what is read is queued, and what is
\* queued is delivered.
RefinesFairVtEvents == Abstract!VtSpec
=============================================================================
