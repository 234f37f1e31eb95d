-------------------------- MODULE CkInhibitManager --------------------------
(***************************************************************************)
(* Inhibit locks: CkInhibit (a lock, its named pipe and its flags) and     *)
(* CkInhibitManager (the list of locks and a counter per mode and event).  *)
(* All of it runs in the daemon's main loop: a request for a lock is one   *)
(* step, and so is the hang-up of its named pipe, with every signal that   *)
(* the two emit on the way.                                                *)
(***************************************************************************)
EXTENDS Naturals, FiniteSets

CONSTANTS Locks,      \* CkInhibit objects
          Events,     \* the CkInhibitEvent numbers in use
          Requests,   \* the sets of events that clients ask for
          MaxCount    \* bound: how far a counter may go up

\* CkInhibitEvent, CkInhibitMode
SHUTDOWN == 0
SUSPEND == 1
Modes == {"block", "delay"}

ASSUME InhibitAssumption ==
  /\ IsFiniteSet(Locks)
  /\ Events \subseteq 0 .. 6
  /\ Requests \subseteq (SUBSET Events) \ {{}}
  /\ MaxCount \in Nat

VARIABLES inhibit_list,   \* CkInhibitManagerPrivate.inhibit_list, as a set
          before,         \* its order: pairs of locks, the first appended earlier
          inhibitors,     \* CkInhibitManagerPrivate.inhibitors
          open,           \* locks whose pipe has a client at the other end
          what,           \* CkInhibitPrivate.inhibitors of every lock
          mode,           \* CkInhibitPrivate.mode
          path            \* CkInhibitPrivate.named_pipe_path is not NULL

inhibitvars == <<inhibit_list, before, inhibitors, open, what, mode, path>>

InhibitTypeOK ==
  /\ inhibit_list \subseteq Locks
  /\ before \subseteq inhibit_list \X inhibit_list
  /\ inhibitors \in [Modes -> [Events -> Nat]]
  /\ open \subseteq Locks
  /\ what \in [Locks -> SUBSET Events]
  /\ mode \in [Locks -> Modes]
  /\ path \in [Locks -> BOOLEAN]

InhibitInit ==
  /\ inhibit_list = {}
  /\ before = {}
  /\ inhibitors = [m \in Modes |-> [e \in Events |-> 0]]
  /\ open = {}
  /\ what = [l \in Locks |-> {}]
  /\ mode = [l \in Locks |-> "block"]
  /\ path = [l \in Locks |-> FALSE]

-----------------------------------------------------------------------------
\* An object that ck_inhibit_new may return.
Unused(l) == l \notin open \cup inhibit_list

\* cb_changed_event for a set of events, when they are and are no longer inhibited.
CountedUp(m, E) ==
  [inhibitors EXCEPT ![m] = [e \in Events |-> IF e \in E THEN @[e] + 1 ELSE @[e]]]

CountedDown(m, E) ==
  [inhibitors EXCEPT ![m] = [e \in Events |-> IF e \in E THEN @[e] - 1 ELSE @[e]]]

\* What ck_inhibit_create_lock fills in, and the manager's g_list_append.
Fill(l, W, hasPath) ==
  /\ what' = [what EXCEPT ![l] = W]
  /\ path' = [path EXCEPT ![l] = hasPath]
  /\ inhibit_list' = inhibit_list \cup {l}
  /\ before' = before \cup (inhibit_list \X {l})

\* create_lock with the counter of only one of the events.
ck_inhibit_create_lock_OneEvent(l, W, m) ==
  /\ Unused(l)
  /\ \A e \in W : inhibitors[m][e] < MaxCount
  /\ Fill(l, W, TRUE)
  /\ mode' = [mode EXCEPT ![l] = m]
  /\ open' = open \cup {l}
  /\ \E f \in W : inhibitors' = [inhibitors EXCEPT ![m][f] = @ + 1]

\* The pipe is made and every event of the lock is counted
\* (emit_initial_inhibit_signals, cb_changed_event).
ck_inhibit_create_lock(l, W, m) ==
  /\ Unused(l)
  /\ \A e \in W : inhibitors[m][e] < MaxCount
  /\ Fill(l, W, TRUE)
  /\ mode' = [mode EXCEPT ![l] = m]
  /\ open' = open \cup {l}
  /\ inhibitors' = CountedUp(m, W)

\* Every failure returns -10, -20 or -30, and the manager looks for -1: the lock
\* stays in the list. It has no path when the directory or the name could not
\* be made, and one when the input was invalid or the pipe could not be made.
\* Its flags are set as far as parsing got, but never counted; its mode is never
\* looked at.
CreateLockFails(l, W, hasPath) ==
  /\ Unused(l)
  /\ Fill(l, W, hasPath)
  /\ UNCHANGED <<inhibitors, open, mode>>

-----------------------------------------------------------------------------
(* The client closes its end: cb_named_pipe_close.                         *)

\* The locks without a path that ck_inhibit_manager_remove_lock (manager, NULL)
\* comes across before l, which has just lost its own path.
NullPathsBefore(l) == {x \in inhibit_list : ~ path[x] /\ <<x, l>> \in before}

\* emit_final_uninhibit_signals goes through the events in their order.
EventsBefore(l, e) == {f \in what[l] : f < e}

\* For every event it hears of, the manager removes the first lock without a path;
\* when that is l itself it hears no more of l.
Heard(l) ==
  {e \in what[l] : Cardinality(EventsBefore(l, e)) <= Cardinality(NullPathsBefore(l))}

Removed(l) ==
  {x \in NullPathsBefore(l) \cup {l} :
     Cardinality({y \in NullPathsBefore(l) : <<y, x>> \in before}) < Cardinality(what[l])}

\* ck_inhibit_manager_remove_lock, for every event that is heard.
Remove(R) ==
  /\ inhibit_list' = inhibit_list \ R
  /\ before' = {p \in before : p[1] \notin R /\ p[2] \notin R}

\* The events whose counter reaches zero: the manager emits changed-event.
Lifted(l) == {e \in Heard(l) : inhibitors[mode[l]][e] = 1}

\* close_named_pipe when the manager stops hearing a lock at the first refused one.
close_named_pipe_Unheard(l) ==
  /\ l \in open
  /\ open' = open \ {l}
  /\ path' = [path EXCEPT ![l] = FALSE]
  /\ what' = [what EXCEPT ![l] = {}]
  /\ inhibitors' = CountedDown(mode[l], IF NullPathsBefore(l) = {} THEN Heard(l) ELSE {})
  /\ Remove(Removed(l))
  /\ UNCHANGED mode

\* cb_named_pipe_close: the pipe and its path go, every flag is cleared, and the
\* manager counts down the events it hears of.
close_named_pipe(l) ==
  /\ l \in open
  /\ open' = open \ {l}
  /\ path' = [path EXCEPT ![l] = FALSE]
  /\ what' = [what EXCEPT ![l] = {}]
  /\ inhibitors' = CountedDown(mode[l], Heard(l))
  /\ Remove(Removed(l))
  /\ UNCHANGED mode

InhibitNext ==
  \E l \in Locks :
    \/ \E W \in Requests, m \in Modes :
         \/ ck_inhibit_create_lock(l, W, m)
         \/ \E hasPath \in BOOLEAN : CreateLockFails(l, W, hasPath)
    \/ close_named_pipe(l)

InhibitSpec == InhibitInit /\ [][InhibitNext]_inhibitvars

-----------------------------------------------------------------------------
get_inhibit_status(e, m) == inhibitors[m][e] > 0

\* The locks that a client holds on an event.
Holders(m, e) == {l \in open : mode[l] = m /\ e \in what[l]}

\* A lock that a client still holds is honoured: no sequence of other locks being
\* taken, refused and released ever brings a counter below the number of locks
\* held, so get_inhibit_status stays TRUE (and "is negative, that's not supposed
\* to happen" is never logged).
HeldLocksHonoured ==
  \A m \in Modes, e \in Events : inhibitors[m][e] >= Cardinality(Holders(m, e))

\* Every lock that a client holds is still in the manager's list, under a path, so
\* that the release of another lock cannot take it out.
HeldLocksListed == \A l \in open : l \in inhibit_list /\ path[l]

\* "As soon as the file descriptor is closed (and all its duplicates) the lock is
\* automatically released": a counter is the number of locks held.
ClosedIsReleased ==
  \A m \in Modes, e \in Events : inhibitors[m][e] = Cardinality(Holders(m, e))

\* The events that are the first one of every request they are in.
FirstOnly(e) == \A W \in Requests : e \in W => \A f \in W : e <= f

\* The same for events that no client asks for behind another one: the first signal
\* of emit_final_uninhibit_signals is heard whatever refused locks are in the list.
FirstEventsReleased ==
  \A m \in Modes, e \in Events :
    FirstOnly(e) => inhibitors[m][e] = Cardinality(Holders(m, e))
=============================================================================
