--------------------------- MODULE CkEventLogger ---------------------------
(***************************************************************************)
(* The event log (ck-event-logger.c). The main loop pushes copies of its   *)
(* events on a queue; a writer thread pops them and appends a line for     *)
(* each to the log file, which it opens again when logrotate has replaced  *)
(* it. The ck-log-system-... tools append to the same file by themselves.  *)
(* The daemon may be killed at any time: nothing waits for the queue.      *)
(*                                                                         *)
(* When the file cannot be opened again, priv->file still points to the    *)
(* stream that was closed. Using it is undefined: the daemon aborts, or    *)
(* the write goes nowhere.                                                 *)
(***************************************************************************)
EXTENDS CkLogEvent, Sequences, SequencesExt

CONSTANTS MaxEvents,     \* bound: events ever logged
          MaxIds,        \* bound: session ids of one daemon
          MaxFiles       \* bound: log files ever made

Times == 1 .. MaxEvents
Ids == 0 .. MaxIds
Inodes == 1 .. MaxFiles
NoFile == 0
Freed == MaxFiles + 1    \* a stream that is closed

ASSUME LoggerAssumption ==
  MaxEvents \in Nat \ {0} /\ MaxIds \in Nat /\ MaxFiles \in Nat \ {0}

VARIABLES running,    \* the daemon is
          queue,      \* event_queue
          thread,     \* where the writer thread is, "none" without one
          taken,      \* the event it has popped, as a sequence
          file,       \* the file priv->file writes to
          path,       \* the file that has the log's name
          rotated,    \* the files of logrotate, the newest first
          text,       \* the lines of each file
          made,       \* files ever made
          expected,   \* the lines of the daemon that are in the files or will be
          lost        \* an event was lost

filevars == <<path, rotated, text, made>>
threadvars == <<thread, taken, file>>
logvars == <<running, queue, threadvars, filevars, expected, lost>>

LoggerTypeOK ==
  /\ running \in BOOLEAN /\ lost \in BOOLEAN
  /\ queue \in Seq(EventsOf(Times, Ids))
  /\ thread \in {"none", "pop", "check", "write"}
  /\ taken \in Seq(EventsOf(Times, Ids))
  /\ file \in Inodes \cup {NoFile, Freed}
  /\ path \in Inodes \cup {NoFile}
  /\ rotated \in Seq(Inodes)
  /\ text \in [Inodes -> Seq(LinesOf(Times, Ids))]
  /\ made \in 0 .. MaxFiles
  /\ expected \in Seq(LinesOf(Times, Ids))

LoggerInit ==
  /\ running = FALSE /\ queue = <<>>
  /\ thread = "none" /\ taken = <<>> /\ file = NoFile
  /\ path = NoFile /\ rotated = <<>> /\ text = [i \in Inodes |-> <<>>] /\ made = 0
  /\ expected = <<>> /\ lost = FALSE

----------------------------------------------------------------------------
Line(e) == ck_log_event_to_string(e)

\* The elements of s that are in S, in their order.
Among(s, S) ==
  LET kept[i \in 0 .. Len(s)] ==
        IF i = 0 THEN <<>>
        ELSE IF s[i] \in S THEN Append(kept[i - 1], s[i]) ELSE kept[i - 1]
  IN kept[Len(s)]

\* The files, oldest first, and the log they make.
Files == Reverse(rotated) \o IF path = NoFile THEN <<>> ELSE <<path>>
Log == FlattenSeq([i \in DOMAIN Files |-> text[Files[i]]])

\* Events that are on their way.
Pending == taken \o queue

\* The part of expected that has been written.
Settled == SubSeq(expected, 1, Len(expected) - Len(Pending))

\* open_log_file: the file that has the name, or a new one.
open_log_file(i) ==
  \/ path # NoFile /\ i = path /\ UNCHANGED <<path, made>>
  \/ /\ path = NoFile /\ made < MaxFiles /\ i = made + 1
     /\ path' = i /\ made' = i

\* ck_event_logger_new. The thread is created when the file is open; either may fail.
\* Without a thread nothing that is queued is ever written.
ck_event_logger_new ==
  /\ ~ running
  /\ running' = TRUE
  /\ queue' = <<>> /\ taken' = <<>>
  /\ \/ /\ \E i \in Inodes : open_log_file(i) /\ file' = i
        /\ thread' \in {"pop", "none"}
     \/ /\ thread' = "none" /\ file' = NoFile
        /\ UNCHANGED <<path, made>>
  /\ UNCHANGED <<rotated, text, expected>>
  /\ lost' = (lost \/ thread' = "none")

\* ck_event_logger_queue_event of the event e, which is filled in by the caller.
ck_event_logger_queue_event(e) ==
  /\ running
  /\ queue' = Append(queue, ck_log_event_copy(e))
  /\ expected' = Append(expected, Line(e))
  /\ UNCHANGED <<running, threadvars, filevars, lost>>

\* The daemon is gone, and with it what was not written.
Killed ==
  /\ running' = FALSE
  /\ queue' = <<>> /\ taken' = <<>> /\ thread' = "none" /\ file' = NoFile
  /\ expected' = Settled
  /\ lost' = (lost \/ Pending # <<>>)
  /\ UNCHANGED filevars

\* The writer thread takes the newest event.
Pop_Newest ==
  /\ thread = "pop" /\ queue # <<>>
  /\ taken' = <<Last(queue)>> /\ queue' = Front(queue)
  /\ thread' = "check"
  /\ UNCHANGED <<running, file, filevars, expected, lost>>

Pop ==
  /\ thread = "pop" /\ queue # <<>>
  /\ taken' = <<Head(queue)>> /\ queue' = Tail(queue)
  /\ thread' = "check"
  /\ UNCHANGED <<running, file, filevars, expected, lost>>

\* check_file_stream: the stream is opened again when the name belongs to another file,
\* or to none. That may fail. Closing a stream twice may be the end of the daemon.
check_file_stream ==
  /\ thread = "check"
  /\ \/ /\ thread' = "write"
        /\ \/ file = path /\ UNCHANGED <<file, path, made>>
           \/ /\ file # path
              /\ \/ \E i \in Inodes : open_log_file(i) /\ file' = i
                 \/ file' = Freed /\ UNCHANGED <<path, made>>
        /\ UNCHANGED <<running, queue, taken, rotated, text, expected, lost>>
     \/ file = Freed /\ Killed

\* The writer thread ends when it cannot write.
write_log_for_event_GivesUp ==
  /\ thread = "write"
  /\ taken' = <<>>
  /\ \/ /\ file \in Inodes /\ thread' = "pop"
        /\ text' = [text EXCEPT ![file] = Append(@, Line(Head(taken)))]
        /\ UNCHANGED lost
     \/ file = Freed /\ thread' = "none" /\ lost' = TRUE /\ UNCHANGED text
  /\ UNCHANGED <<running, queue, file, path, rotated, made, expected>>

\* write_log_for_event: a line is appended to the file that is open, whatever its name
\* is by now, and the event freed.
write_log_for_event ==
  /\ thread = "write"
  /\ \/ /\ thread' = "pop" /\ taken' = <<>>
        /\ \/ /\ file \in Inodes
              /\ text' = [text EXCEPT ![file] = Append(@, Line(Head(taken)))]
              /\ UNCHANGED lost
           \/ /\ lost' = TRUE
              /\ file = Freed
              /\ UNCHANGED text
        /\ UNCHANGED <<running, queue, file, path, rotated, made, expected>>
     \/ file = Freed /\ Killed

Writer == Pop \/ check_file_stream \/ write_log_for_event

----------------------------------------------------------------------------
\* logrotate, monthly: the log gets the next name; a new one may be created at once.
Rotate ==
  /\ path # NoFile
  /\ text[path] # <<>>
  /\ rotated' = <<path>> \o rotated
  /\ \/ path' = NoFile /\ UNCHANGED made
     \/ made < MaxFiles /\ path' = made + 1 /\ made' = made + 1
  /\ UNCHANGED <<running, queue, threadvars, text, expected, lost>>

\* A ck-log-system-... tool appends the event e, or cannot. It overtakes the events that
\* the daemon has not written.
ToolWrites(e) ==
  \/ /\ \E i \in Inodes : /\ open_log_file(i)
                          /\ text' = [text EXCEPT ![i] = Append(@, Line(e))]
     /\ UNCHANGED <<rotated, expected, lost>>
  \/ lost' = TRUE /\ UNCHANGED <<filevars, expected>>

----------------------------------------------------------------------------
(* Properties.                                                             *)

\* Whatever the interleaving of queue, writer thread, rotation and tools: the daemon's
\* lines in the files, oldest file first, and its events that are on their way are what
\* it logged, once and in that order, unless the file could not be opened or the daemon
\* was killed.
LogIsComplete ==
  LET logged == {expected[i].time : i \in DOMAIN expected}
  IN ~ lost => Among(Log, {l \in Range(Log) : l.time \in logged})
                 \o [i \in DOMAIN Pending |-> Line(Pending[i])] = expected
=============================================================================
