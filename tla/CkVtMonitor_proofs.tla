------------------------- MODULE CkVtMonitor_proofs -------------------------
(***************************************************************************)
(* Proofs about CkVtMonitor, for every set of consoles and both builds.    *)
(*                                                                         *)
(* NoLostWakeup is not inductive: it says nothing about process_queue_id,  *)
(* which decides whether a thread attaches a source.  The strengthening is *)
(* the bookkeeping of that source (SourceAccounting): an id or a thread    *)
(* about to assign one stands for exactly one source, attached or running. *)
(***************************************************************************)
EXTENDS CkVtMonitor, TLAPS

InProcess == main \in {"change", "clear"}
Claimed   == process_queue_id \/ schedule_lock # 0

LockOwner == \A v \in Watchable : pc[v] = "assign" <=> schedule_lock = v

SourceAccounting ==
  /\ Claimed  => (InProcess /\ idle_sources = 0) \/ (~InProcess /\ idle_sources = 1)
  /\ ~Claimed => ~InProcess /\ idle_sources = 0

DrainedInside == main # "loop" => event_queue = <<>>

EventClaimed == event_queue # <<>> => Claimed \/ SchedulePending

\* A thread that may exit reports the VT it is stored under.
ExitsByKey ==
  \A v \in Watchable : IF HaveSysVtSignal THEN pc[v] # "remove" ELSE num[v] = v

HashInv == TypeOK /\ HashIsLiveThreads /\ ExitsByKey

WakeupInv ==
  HashInv /\ LockOwner /\ SourceAccounting /\ DrainedInside /\ EventClaimed

-----------------------------------------------------------------------------
(* 0 is the key of no thread, so schedule_lock = 0 means nobody holds it.  *)
LEMMA WatchableFacts ==
  /\ 0 \notin Watchable
  /\ Watchable \subseteq Nat
  /\ Watchable \subseteq Consoles
  /\ \A a, h : NewWatches(a, h) \subseteq Watchable
<1>1. Consoles \subseteq Nat \ {0} /\ 1 \in Consoles
  BY ConstantsAssumption DEF ConstantsAssumption
<1>2. Watchable \subseteq Consoles
  BY <1>1 DEF Watchable
<1>3. \A a, h : NewWatches(a, h) \subseteq Watchable
  BY DEF Watchable, NewWatches
<1> QED
  BY <1>1, <1>2, <1>3

(* ck_vt_monitor_init leaves every field of its type.                      *)
LEMMA InitType == Init => TypeOK
<1> SUFFICES ASSUME Init PROVE TypeOK
  OBVIOUS
<1>1. PICK started \in SUBSET NewWatches(active_num, {}) :
         /\ vt_thread_hash = started
         /\ pc = [v \in Watchable |-> IF v \in started THEN "wait" ELSE "none"]
  BY DEF Init
<1>2. vt_thread_hash \subseteq Nat
  BY <1>1, WatchableFacts
<1>3. pc \in [Watchable -> ThreadStates]
  BY <1>1 DEF ThreadStates
<1>4. num \in [Watchable -> Consoles]
  BY WatchableFacts DEF Init
<1>5. notified \in BOOLEAN /\ process_queue_id \in BOOLEAN
  BY Zenon DEF Init
<1>6. event_queue \in Seq(Consoles)
  BY DEF Init
<1>7. /\ console \in Consoles /\ active_num \in Consoles \cup {0}
      /\ idle_sources \in Nat /\ schedule_lock \in Watchable \cup {0}
      /\ main \in MainStates /\ data \in Consoles \cup {0}
  BY DEF Init, MainStates
<1> QED
  BY <1>2, <1>3, <1>4, <1>5, <1>6, <1>7 DEF TypeOK

(* What vt_add_watches leaves of the types.                                *)
LEMMA AddWatchesType ==
  ASSUME TypeOK, NEW a, VtAddWatches(a)
  PROVE  /\ vt_thread_hash' \subseteq Nat
         /\ pc' \in [Watchable -> ThreadStates]
         /\ num' \in [Watchable -> Consoles]
         /\ \A v \in Watchable : pc'[v] = pc[v] \/ pc'[v] = "wait"
<1>1. PICK started \in SUBSET NewWatches(a, vt_thread_hash) :
         /\ vt_thread_hash' = vt_thread_hash \cup started
         /\ pc'  = [v \in Watchable |-> IF v \in started THEN "wait" ELSE pc[v]]
         /\ num' = [v \in Watchable |-> IF v \in started THEN v ELSE num[v]]
  BY DEF VtAddWatches
<1>2. vt_thread_hash' \subseteq Nat
  BY <1>1, WatchableFacts DEF TypeOK
<1>3. pc' \in [Watchable -> ThreadStates]
  BY <1>1 DEF TypeOK, ThreadStates
<1>4. num' \in [Watchable -> Consoles]
  BY <1>1, WatchableFacts DEF TypeOK
<1>5. \A v \in Watchable : pc'[v] = pc[v] \/ pc'[v] = "wait"
  BY <1>1
<1> QED
  BY <1>2, <1>3, <1>4, <1>5

(* Type correctness of every step of CkVtMonitor.                          *)
LEMMA NextType == TypeOK /\ [Next]_vars => TypeOK'
<1> SUFFICES ASSUME TypeOK, [Next]_vars PROVE TypeOK'
  OBVIOUS
<1> USE DEF TypeOK, monitor
<1>1. ASSUME NEW v \in Consoles, SwitchConsole(v) PROVE TypeOK'
  BY <1>1 DEF SwitchConsole
<1>2. ASSUME NEW v \in Watchable, Thread(v) PROVE TypeOK'
  <2>0. AfterSchedule \in ThreadStates
    BY DEF AfterSchedule, ThreadStates
  <2>1. CASE WaitActive(v)
    BY <2>1 DEF WaitActive, ThreadStates
  <2>2. CASE WaitFails(v)
    BY <2>2 DEF WaitFails, ThreadStates
  <2>3. CASE WaitSwitch(v)
    BY <2>3 DEF WaitSwitch, ThreadStates
  <2>4. CASE PushEvent(v)
    BY <2>4 DEF PushEvent, ThreadStates
  <2>5. CASE AlreadyScheduled(v)
    BY <2>5, <2>0 DEF AlreadyScheduled
  <2>6. CASE AddIdleSource(v)
    BY <2>6 DEF AddIdleSource, ThreadStates
  <2>7. CASE AssignSourceId(v)
    BY <2>7, <2>0 DEF AssignSourceId
  <2>8. CASE RemoveThread(v)
    BY <2>8 DEF RemoveThread, ThreadStates
  <2> QED
    BY <1>2, <2>1, <2>2, <2>3, <2>4, <2>5, <2>6, <2>7, <2>8 DEF Thread
<1>3. CASE CompressQueue
  BY <1>3 DEF CompressQueue, MainStates
<1>4. CASE ChangeActiveNum
  BY <1>4, AddWatchesType DEF ChangeActiveNum, MainStates
<1>5. CASE ClearSourceId
  BY <1>5 DEF ClearSourceId, MainStates
<1>6. CASE UnlockQueue
  BY <1>6 DEF UnlockQueue, MainStates
<1>7. CASE UNCHANGED vars
  BY <1>7 DEF vars
<1> QED
  BY <1>1, <1>2, <1>3, <1>4, <1>5, <1>6, <1>7 DEF Next, MainLoop

(* CkVtMonitor keeps its types, whatever the consoles and the build.       *)
THEOREM TypeCorrect == Spec => []TypeOK
<1>1. Init => TypeOK
  BY InitType
<1>2. TypeOK /\ [Next]_vars => TypeOK'
  BY NextType
<1> QED
  BY <1>1, <1>2, PTL DEF Spec

-----------------------------------------------------------------------------
(* vt_thread_hash and the threads.                                         *)

LEMMA InitHash == Init => HashInv
<1> SUFFICES ASSUME Init PROVE HashInv
  OBVIOUS
<1>1. PICK started \in SUBSET NewWatches(active_num, {}) :
         /\ vt_thread_hash = started
         /\ pc = [v \in Watchable |-> IF v \in started THEN "wait" ELSE "none"]
  BY DEF Init
<1>2. HashIsLiveThreads
  BY <1>1, WatchableFacts DEF HashIsLiveThreads
<1>3. ExitsByKey
  BY <1>1 DEF ExitsByKey, Init
<1> QED
  BY <1>2, <1>3, InitType DEF HashInv

(* Every step keeps the table equal to the threads that have not exited.   *)
LEMMA NextHash == HashInv /\ [Next]_vars => HashInv'
<1> SUFFICES ASSUME HashInv, [Next]_vars PROVE HashInv'
  OBVIOUS
<1>0. TypeOK /\ TypeOK'
  BY NextType DEF HashInv
<1>1. CASE UNCHANGED <<vt_thread_hash, pc, num>>
  BY <1>0, <1>1 DEF HashInv, HashIsLiveThreads, ExitsByKey
<1>2. ASSUME NEW v \in Watchable, Thread(v) PROVE HashInv'
  <2>1. CASE RemoveThread(v)
    <3>1. /\ pc[v] = "remove" /\ vt_thread_hash' = vt_thread_hash \ {num[v]}
          /\ pc' = [pc EXCEPT ![v] = "none"] /\ num' = num
      BY <2>1 DEF RemoveThread
    <3>2. num[v] = v
      BY <3>1 DEF HashInv, ExitsByKey
    <3>3. HashIsLiveThreads'
      BY <3>1, <3>2, <1>0 DEF HashInv, HashIsLiveThreads, TypeOK
    <3>4. ExitsByKey'
      BY <3>1, <1>0 DEF HashInv, ExitsByKey, TypeOK
    <3> QED
      BY <1>0, <3>3, <3>4 DEF HashInv
  <2>2. CASE ~RemoveThread(v)
    <3>1. /\ vt_thread_hash' = vt_thread_hash /\ pc[v] # "none"
          /\ ~HaveSysVtSignal => num' = num
          /\ \E x \in ThreadStates \ {"none"} :
               pc' = [pc EXCEPT ![v] = x] /\ (HaveSysVtSignal => x # "remove")
      BY <1>2, <2>2 DEF Thread, WaitActive, WaitFails, WaitSwitch, PushEvent,
         AlreadyScheduled, AddIdleSource, AssignSourceId, AfterSchedule,
         ThreadStates, monitor
    <3>2. HashIsLiveThreads'
      BY <3>1, <1>0 DEF HashInv, HashIsLiveThreads, TypeOK
    <3>3. ExitsByKey'
      BY <3>1, <1>0 DEF HashInv, ExitsByKey, TypeOK
    <3> QED
      BY <1>0, <3>2, <3>3 DEF HashInv
  <2> QED
    BY <2>1, <2>2
<1>3. CASE VtAddWatches(data)
  <2>1. PICK started \in SUBSET NewWatches(data, vt_thread_hash) :
         /\ vt_thread_hash' = vt_thread_hash \cup started
         /\ pc'  = [v \in Watchable |-> IF v \in started THEN "wait" ELSE pc[v]]
         /\ num' = [v \in Watchable |-> IF v \in started THEN v ELSE num[v]]
    BY <1>3 DEF VtAddWatches
  <2>2. HashIsLiveThreads'
    BY <2>1, WatchableFacts DEF HashInv, HashIsLiveThreads
  <2>3. ExitsByKey'
    BY <2>1 DEF HashInv, ExitsByKey
  <2> QED
    BY <1>0, <2>2, <2>3 DEF HashInv
<1> QED
  BY <1>1, <1>2, <1>3 DEF Next, MainLoop, SwitchConsole, CompressQueue,
     ChangeActiveNum, ClearSourceId, UnlockQueue, vars, monitor

(* vt_thread_hash always has exactly the threads that have not exited.     *)
THEOREM HashCorrect == Spec => []HashIsLiveThreads
<1>1. Init => HashInv
  BY InitHash
<1>2. HashInv /\ [Next]_vars => HashInv'
  BY NextHash
<1>3. HashInv => HashIsLiveThreads
  BY DEF HashInv
<1> QED
  BY <1>1, <1>2, <1>3, PTL DEF Spec

-----------------------------------------------------------------------------
(* The bookkeeping of the idle source, one step per action.                *)

LEMMA InitWakeup == Init => WakeupInv
<1> SUFFICES ASSUME Init PROVE WakeupInv
  OBVIOUS
<1>1. HashInv
  BY InitHash
<1>2. \A v \in Watchable : pc[v] # "assign"
  BY DEF Init
<1>3. LockOwner
  BY <1>2, WatchableFacts DEF Init, LockOwner
<1>4. SourceAccounting /\ DrainedInside /\ EventClaimed
  BY DEF Init, SourceAccounting, DrainedInside, EventClaimed, Claimed, InProcess
<1> QED
  BY <1>1, <1>3, <1>4 DEF WakeupInv

(* Steps that leave the source, its id and the queue alone, and move no    *)
(* thread into or out of schedule_process_queue.                           *)
LEMMA WakeupFrame ==
  ASSUME WakeupInv, HashInv',
         UNCHANGED <<event_queue, process_queue_id, idle_sources, schedule_lock>>,
         InProcess' <=> InProcess,
         main' = "loop" \/ event_queue = <<>>,
         \A v \in Watchable : pc'[v] = "assign" <=> pc[v] = "assign",
         \A v \in Watchable : pc[v] = "schedule" =>
             pc'[v] = "schedule" \/ process_queue_id \/ event_queue = <<>>
  PROVE  WakeupInv'
<1>1. LockOwner'
  BY DEF WakeupInv, LockOwner
<1>2. SourceAccounting'
  BY DEF WakeupInv, SourceAccounting, Claimed
<1>3. DrainedInside'
  BY DEF WakeupInv, DrainedInside
<1>4. EventClaimed'
  BY DEF WakeupInv, EventClaimed, Claimed, SchedulePending
<1> QED
  BY <1>1, <1>2, <1>3, <1>4 DEF WakeupInv

(* Every step keeps the bookkeeping of the idle source.                    *)
LEMMA NextWakeup == WakeupInv /\ [Next]_vars => WakeupInv'
<1> SUFFICES ASSUME WakeupInv, [Next]_vars PROVE WakeupInv'
  OBVIOUS
<1>0. TypeOK /\ HashInv'
  BY NextHash DEF WakeupInv, HashInv
<1>1. ASSUME NEW v \in Consoles, SwitchConsole(v) PROVE WakeupInv'
  BY <1>0, <1>1, WakeupFrame DEF SwitchConsole, monitor, InProcess, WakeupInv, DrainedInside, TypeOK, MainStates
<1>2. ASSUME NEW v \in Watchable, Thread(v) PROVE WakeupInv'
  <2>0. AfterSchedule \notin {"schedule", "assign"}
    BY DEF AfterSchedule
  <2>1. CASE WaitActive(v) \/ WaitFails(v) \/ WaitSwitch(v) \/ RemoveThread(v)
    <3>1. /\ UNCHANGED <<event_queue, process_queue_id, idle_sources, schedule_lock, main>>
          /\ pc[v] \in {"wait", "remove"}
          /\ \E x \in {"push", "remove", "none"} : pc' = [pc EXCEPT ![v] = x]
      BY <2>1 DEF WaitActive, WaitFails, WaitSwitch, RemoveThread, monitor
    <3>2. \A w \in Watchable : /\ pc'[w] = "assign" <=> pc[w] = "assign"
                               /\ pc[w] = "schedule" => pc'[w] = "schedule"
      BY <3>1, <1>0 DEF TypeOK
    <3> QED
      BY <1>0, <3>1, <3>2, WakeupFrame DEF InProcess, WakeupInv, DrainedInside
  <2>2. CASE PushEvent(v)
    <3>1. /\ main = "loop"
          /\ UNCHANGED <<process_queue_id, idle_sources, schedule_lock, main>>
          /\ pc[v] = "push" /\ pc' = [pc EXCEPT ![v] = "schedule"]
      BY <2>2 DEF PushEvent
    <3>2. LockOwner'
      BY <3>1, <1>0 DEF WakeupInv, LockOwner, TypeOK
    <3>3. SourceAccounting' /\ DrainedInside'
      BY <3>1 DEF WakeupInv, SourceAccounting, DrainedInside, Claimed, InProcess
    <3>4. EventClaimed'
      BY <3>1, <1>0 DEF EventClaimed, SchedulePending, TypeOK
    <3> QED
      BY <1>0, <3>2, <3>3, <3>4 DEF WakeupInv
  <2>3. CASE AlreadyScheduled(v)
    <3>1. /\ UNCHANGED <<event_queue, process_queue_id, idle_sources, schedule_lock, main>>
          /\ process_queue_id /\ pc[v] = "schedule"
          /\ pc' = [pc EXCEPT ![v] = AfterSchedule]
      BY <2>3 DEF AlreadyScheduled, monitor
    <3>2. \A w \in Watchable : pc'[w] = "assign" <=> pc[w] = "assign"
      BY <3>1, <2>0, <1>0 DEF TypeOK
    <3> QED
      BY <1>0, <3>1, <3>2, WakeupFrame DEF InProcess, WakeupInv, DrainedInside
  <2>4. CASE AddIdleSource(v)
    <3>1. /\ ~process_queue_id /\ schedule_lock = 0 /\ schedule_lock' = v
          /\ idle_sources' = idle_sources + 1 /\ pc[v] = "schedule"
          /\ pc' = [pc EXCEPT ![v] = "assign"]
          /\ UNCHANGED <<event_queue, process_queue_id, main>>
      BY <2>4 DEF AddIdleSource
    <3>2. LockOwner'
      BY <3>1, <1>0, WatchableFacts DEF WakeupInv, LockOwner, TypeOK
    <3>3. Claimed' /\ ~Claimed
      BY <3>1, WatchableFacts DEF Claimed
    <3>4. SourceAccounting'
      BY <3>1, <3>3 DEF WakeupInv, SourceAccounting, InProcess
    <3>5. DrainedInside' /\ EventClaimed'
      BY <3>1, <3>3 DEF WakeupInv, DrainedInside, EventClaimed
    <3> QED
      BY <1>0, <3>2, <3>4, <3>5 DEF WakeupInv
  <2>5. CASE AssignSourceId(v)
    <3>1. /\ process_queue_id' = TRUE /\ schedule_lock' = 0
          /\ pc[v] = "assign" /\ pc' = [pc EXCEPT ![v] = AfterSchedule]
          /\ UNCHANGED <<event_queue, idle_sources, main>>
      BY <2>5 DEF AssignSourceId
    <3>2. schedule_lock = v
      BY <3>1 DEF WakeupInv, LockOwner
    <3>3. LockOwner'
      BY <3>1, <3>2, <2>0, <1>0, WatchableFacts DEF WakeupInv, LockOwner, TypeOK
    <3>4. Claimed' /\ Claimed
      BY <3>1, <3>2, WatchableFacts DEF Claimed
    <3>5. SourceAccounting'
      BY <3>1, <3>4 DEF WakeupInv, SourceAccounting, InProcess
    <3>6. DrainedInside' /\ EventClaimed'
      BY <3>1, <3>4 DEF WakeupInv, DrainedInside, EventClaimed
    <3> QED
      BY <1>0, <3>3, <3>5, <3>6 DEF WakeupInv
  <2> QED
    BY <1>2, <2>1, <2>2, <2>3, <2>4, <2>5 DEF Thread
<1>3. CASE CompressQueue
  <2>1. /\ main = "loop" /\ main' = "change" /\ event_queue' = <<>>
        /\ idle_sources > 0 /\ idle_sources' = idle_sources - 1
        /\ UNCHANGED <<process_queue_id, schedule_lock, pc>>
    BY <1>3 DEF CompressQueue
  <2>2. LockOwner' /\ DrainedInside' /\ EventClaimed'
    BY <2>1 DEF WakeupInv, LockOwner, DrainedInside, EventClaimed
  <2>3. SourceAccounting'
    BY <2>1, <1>0 DEF WakeupInv, SourceAccounting, Claimed, InProcess, TypeOK
  <2> QED
    BY <1>0, <2>2, <2>3 DEF WakeupInv
<1>4. CASE ChangeActiveNum
  <2>1. /\ main = "change" /\ main' = "clear"
        /\ UNCHANGED <<event_queue, process_queue_id, idle_sources, schedule_lock>>
    BY <1>4 DEF ChangeActiveNum
  <2>2. event_queue = <<>>
    BY <2>1 DEF WakeupInv, DrainedInside
  <2>3. \A w \in Watchable : pc'[w] = "assign" <=> pc[w] = "assign"
    <3>1. CASE UNCHANGED pc
      BY <3>1
    <3>2. CASE VtAddWatches(data)
      <4>1. PICK started \in SUBSET NewWatches(data, vt_thread_hash) :
               pc' = [w \in Watchable |-> IF w \in started THEN "wait" ELSE pc[w]]
        BY <3>2 DEF VtAddWatches
      <4>2. \A w \in started : pc[w] # "assign"
        BY WatchableFacts DEF WakeupInv, HashInv, HashIsLiveThreads, NewWatches
      <4> QED
        BY <4>1, <4>2
    <3> QED
      BY <1>4, <3>1, <3>2 DEF ChangeActiveNum
  <2> QED
    BY <1>0, <2>1, <2>2, <2>3, WakeupFrame DEF InProcess
<1>5. CASE ClearSourceId
  <2>1. /\ main = "clear" /\ main' = "unlock" /\ schedule_lock = 0
        /\ process_queue_id' = FALSE
        /\ UNCHANGED <<event_queue, idle_sources, schedule_lock, pc>>
    BY <1>5 DEF ClearSourceId
  <2>2. LockOwner' /\ DrainedInside' /\ EventClaimed'
    BY <2>1 DEF WakeupInv, LockOwner, DrainedInside, EventClaimed
  <2>3. SourceAccounting'
    BY <2>1 DEF WakeupInv, SourceAccounting, Claimed, InProcess
  <2> QED
    BY <1>0, <2>2, <2>3 DEF WakeupInv
<1>6. CASE UnlockQueue
  BY <1>0, <1>6, WakeupFrame DEF UnlockQueue, monitor, InProcess, WakeupInv, DrainedInside
<1>7. CASE UNCHANGED vars
  BY <1>0, <1>7, WakeupFrame DEF vars, monitor, InProcess, WakeupInv, DrainedInside
<1> QED
  BY <1>1, <1>2, <1>3, <1>4, <1>5, <1>6, <1>7 DEF Next, MainLoop

(* The inductive invariant gives the three properties of the idle source.  *)
LEMMA WakeupImplies == WakeupInv => NoLostWakeup /\ SourceIdHonest /\ OneIdleSource
BY DEF WakeupInv, SourceAccounting, EventClaimed, Claimed, InProcess,
       NoLostWakeup, SourceIdHonest, OneIdleSource

(* No queued VT event is ever left without somebody to process it: for any *)
(* number of VTs, any interleaving of schedule_process_queue, process_queue*)
(* and the dispatch of the idle source.                                    *)
THEOREM WakeupCorrect == Spec => []NoLostWakeup
<1>1. Init => WakeupInv
  BY InitWakeup
<1>2. WakeupInv /\ [Next]_vars => WakeupInv'
  BY NextWakeup
<1>3. WakeupInv => NoLostWakeup
  BY WakeupImplies
<1> QED
  BY <1>1, <1>2, <1>3, PTL DEF Spec

(* process_queue_id never goes stale and never stands for two sources.     *)
THEOREM SourceCorrect == Spec => [](SourceIdHonest /\ OneIdleSource)
<1>1. Init => WakeupInv
  BY InitWakeup
<1>2. WakeupInv /\ [Next]_vars => WakeupInv'
  BY NextWakeup
<1>3. WakeupInv => SourceIdHonest /\ OneIdleSource
  BY WakeupImplies
<1> QED
  BY <1>1, <1>2, <1>3, PTL DEF Spec

-----------------------------------------------------------------------------
(* Refinement of VtEvents.                                                 *)

(* The threads that hold a read but have not queued it hold different ones.*)
LEMMA ReadsDistinct ==
  ASSUME HashInv, NEW v \in Watchable, NEW w \in Watchable,
         HaveSysVtSignal \/ num[v] = num[w]
  PROVE  v = w
<1>1. CASE HaveSysVtSignal
  BY <1>1 DEF Watchable
<1>2. CASE ~HaveSysVtSignal
  BY <1>2 DEF HashInv, ExitsByKey
<1> QED
  BY <1>1, <1>2

(* A step that changes neither console nor active_num, nor which threads   *)
(* hold a read, nor the mailbox, is invisible to VtEvents.                 *)
LEMMA ThreadRefines ==
  ASSUME WakeupInv, WakeupInv', NEW v \in Watchable, Thread(v)
  PROVE  [Abstract!VtNext]_(Abstract!vtvars)
<1> USE DEF Abstract!vtvars
<1>0. TypeOK /\ HashInv /\ main' = main /\ active_num' = active_num /\ console' = console
      /\ data' = data
  BY DEF WakeupInv, HashInv, Thread, WaitActive, WaitFails, WaitSwitch, PushEvent,
         AlreadyScheduled, AddIdleSource, AssignSourceId, RemoveThread, monitor
<1>1. CASE WaitActive(v) \/ WaitSwitch(v)
  <2>1. /\ pc[v] = "wait" /\ pc' = [pc EXCEPT ![v] = "push"] /\ event_queue' = event_queue
        /\ num' = [num EXCEPT ![v] = console]
    <3>1. CASE WaitActive(v)
      BY <1>0, <3>1 DEF WaitActive, monitor, HashInv, ExitsByKey, TypeOK
    <3>2. CASE WaitSwitch(v)
      BY <3>2 DEF WaitSwitch, monitor
    <3> QED
      BY <1>1, <3>1, <3>2
  <2>2. \A w \in Watchable : w # v => ~HaveSysVtSignal /\ num[w] # console
    <3>1. CASE HaveSysVtSignal
      BY <3>1, <1>0, ReadsDistinct
    <3>2. CASE ~HaveSysVtSignal
      BY <3>2, <1>0, <1>1 DEF HashInv, ExitsByKey, WaitActive, WaitSwitch
    <3> QED
      BY <3>1, <3>2
  <2>3. console \notin Reads
    BY <2>1, <2>2 DEF Reads
  <2>4. Reads' = Reads \cup {console}
    BY <1>0, <2>1, <2>2 DEF Reads, TypeOK
  <2>5. Mailbox' = Mailbox
    BY <1>0, <2>1 DEF Mailbox
  <2>6. Abstract!ReadConsole
    BY <1>0, <2>3, <2>4, <2>5 DEF Abstract!ReadConsole
  <2> QED
    BY <2>6 DEF Abstract!VtNext
<1>2. CASE PushEvent(v)
  <2>1. /\ pc[v] = "push" /\ pc' = [pc EXCEPT ![v] = "schedule"] /\ main = "loop"
        /\ num' = num /\ event_queue' = Append(event_queue, num[v])
    BY <1>2 DEF PushEvent
  <2>2. num[v] \in Reads /\ num[v] \in Consoles
    BY <1>0, <2>1 DEF Reads, TypeOK
  <2>3. \A w \in Watchable : num[w] = num[v] => w = v
    BY <1>0, ReadsDistinct
  <2>4. Reads' = Reads \ {num[v]}
    BY <1>0, <2>1, <2>3 DEF Reads, TypeOK
  <2>5. Mailbox' = num[v]
    BY <1>0, <2>1, <2>2 DEF Mailbox, TypeOK
  <2>6. Abstract!QueueEvent(num[v])
    BY <1>0, <2>2, <2>4, <2>5 DEF Abstract!QueueEvent
  <2> QED
    BY <2>2, <2>6 DEF Abstract!VtNext
<1>3. CASE WaitFails(v) \/ AlreadyScheduled(v) \/ AddIdleSource(v)
           \/ AssignSourceId(v) \/ RemoveThread(v)
  <2>1. /\ pc[v] # "push" /\ event_queue' = event_queue /\ num' = num
        /\ \E x \in ThreadStates \ {"push"} : pc' = [pc EXCEPT ![v] = x]
    BY <1>3 DEF WaitFails, AlreadyScheduled, AddIdleSource, AssignSourceId,
       RemoveThread, AfterSchedule, ThreadStates, monitor
  <2>2. Reads' = Reads /\ Mailbox' = Mailbox
    BY <1>0, <2>1 DEF Reads, Mailbox, TypeOK
  <2> QED
    BY <1>0, <2>2
<1> QED
  BY <1>1, <1>2, <1>3 DEF Thread

(* Every step of the monitor is a step of VtEvents or invisible to it.     *)
LEMMA NextRefines ==
  ASSUME WakeupInv, WakeupInv', [Next]_vars
  PROVE  [Abstract!VtNext]_(Abstract!vtvars)
<1> USE DEF Abstract!vtvars
<1>0. TypeOK /\ HashInv
  BY DEF WakeupInv, HashInv
<1>1. ASSUME NEW v \in Consoles, SwitchConsole(v)
      PROVE  [Abstract!VtNext]_(Abstract!vtvars)
  <2>1. Reads' = Reads /\ Mailbox' = Mailbox
    BY <1>1 DEF SwitchConsole, Reads, Mailbox, monitor
  <2>2. Abstract!SwitchConsole(v)
    BY <1>1, <2>1 DEF SwitchConsole, Abstract!SwitchConsole, monitor
  <2> QED
    BY <2>2 DEF Abstract!VtNext
<1>2. ASSUME NEW v \in Watchable, Thread(v)
      PROVE  [Abstract!VtNext]_(Abstract!vtvars)
  BY <1>2, ThreadRefines
<1>3. CASE CompressQueue
  <2>1. Reads' = Reads /\ Mailbox' = Mailbox
    BY <1>3 DEF CompressQueue, Reads, Mailbox
  <2> QED
    BY <1>3, <2>1 DEF CompressQueue
<1>4. CASE ChangeActiveNum
  <2>1. main = "change" /\ main' = "clear" /\ event_queue' = event_queue /\ event_queue = <<>>
        /\ console' = console /\ (data = 0 \/ active_num' = data)
        /\ (data = 0 => active_num' = active_num)
    BY <1>4 DEF ChangeActiveNum, WakeupInv, DrainedInside
  <2>2. Reads' = Reads
    <3>1. CASE UNCHANGED <<pc, num>>
      BY <3>1 DEF Reads
    <3>2. CASE VtAddWatches(data)
      <4>1. PICK started \in SUBSET NewWatches(data, vt_thread_hash) :
              /\ pc'  = [v \in Watchable |-> IF v \in started THEN "wait" ELSE pc[v]]
              /\ num' = [v \in Watchable |-> IF v \in started THEN v ELSE num[v]]
        BY <3>2 DEF VtAddWatches
      <4>2. \A v \in started : v \in Watchable /\ pc[v] = "none"
        BY <1>0, WatchableFacts DEF HashInv, HashIsLiveThreads, NewWatches
      <4>3. \A v \in Watchable : (pc'[v] = "push" <=> pc[v] = "push")
                                 /\ (pc[v] = "push" => num'[v] = num[v])
        BY <4>1, <4>2
      <4> QED
        BY <4>3 DEF Reads
    <3> QED
      BY <1>4, <3>1, <3>2 DEF ChangeActiveNum
  <2>3. Mailbox = data /\ Mailbox' = 0
    BY <2>1 DEF Mailbox
  <2>4. CASE data = 0
    BY <2>1, <2>2, <2>3, <2>4
  <2>5. CASE data # 0
    <3>1. Abstract!Deliver
      BY <2>1, <2>2, <2>3, <2>5 DEF Abstract!Deliver
    <3> QED
      BY <3>1 DEF Abstract!VtNext
  <2> QED
    BY <2>4, <2>5
<1>5. CASE ClearSourceId \/ UnlockQueue \/ UNCHANGED vars
  <2>1. Reads' = Reads /\ Mailbox' = Mailbox
    BY <1>5 DEF ClearSourceId, UnlockQueue, vars, Reads, Mailbox, monitor
  <2> QED
    BY <1>5, <2>1 DEF ClearSourceId, UnlockQueue, vars, monitor
<1> QED
  BY <1>1, <1>2, <1>3, <1>4, <1>5 DEF Next, MainLoop

(* The threads, the queue and the locks of ck-vt-monitor.c implement the   *)
(* mailbox that the seats rely on, for both builds.                        *)
THEOREM Refinement == Spec => RefinesVtEvents
<1>1. Init => Abstract!VtInit
  <2> SUFFICES ASSUME Init PROVE Abstract!VtInit
    OBVIOUS
  <2>1. Mailbox = 0
    BY DEF Init, Mailbox
  <2>2. \A v \in Watchable : pc[v] # "push"
    BY DEF Init
  <2>3. Reads = {}
    BY <2>2 DEF Reads
  <2> QED
    BY <2>1, <2>3 DEF Init, Abstract!VtInit
<1>2. Init => WakeupInv
  BY InitWakeup
<1>3. WakeupInv /\ [Next]_vars => WakeupInv'
  BY NextWakeup
<1>4. WakeupInv /\ WakeupInv' /\ [Next]_vars => [Abstract!VtNext]_(Abstract!vtvars)
  BY NextRefines
<1> QED
  BY <1>1, <1>2, <1>3, <1>4, PTL DEF Spec, RefinesVtEvents, Abstract!VtSafety
=============================================================================
