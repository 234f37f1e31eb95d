--------------------------- MODULE CkIdle_proofs ---------------------------
(***************************************************************************)
(* Proofs about CkFileMonitor and CkTtyIdleMonitor, for any number of      *)
(* sessions, terminals and descriptors.                                    *)
(*                                                                         *)
(* That no callback reaches a monitor that is gone rests on who may be put *)
(* on a list: the monitor in check_tty_idle, which was woken by a timer,   *)
(* and only open sessions have one. That no open session is forgotten      *)
(* rests on descriptors: no two files share one, also not while the end of *)
(* a watch is still in a queue, so that the end of one watch never takes   *)
(* that of another terminal along.                                         *)
(***************************************************************************)
EXTENDS CkTtyIdleMonitor, TLAPS, WellFoundedInduction

\* Who has a timer, or is being looked at, belongs to an open session; nobody is on a
\* list when inotify cannot be used.
WaitersLive ==
  /\ \A m \in Monitors : timer[m] # Off => m \in live
  /\ check.monitor # NoMonitor => check.monitor \in live
  /\ inotify # "open" => \A d \in Devices : watch_notifies[d] = <<>>

\* No two files share a descriptor, in the kernel or in the tables.
WdsApart ==
  \A d, e \in Devices : d # e =>
    /\ kernel_wd[d] # NoWd => kernel_wd[d] # kernel_wd[e] /\ kernel_wd[d] # watch_wd[e]
    /\ watch_wd[d] # NoWd => watch_wd[d] # watch_wd[e]

\* For a file that was never away, kernel and tables agree, and nothing says that its watch
\* has ended.
WatchesHold ==
  \A d \in Devices \ away :
    /\ watch_wd[d] = kernel_wd[d]
    /\ watch_wd[d] # NoWd => /\ watch_wd[d] \notin remove_events
                             /\ [wd |-> watch_wd[d], kind |-> "IGNORED"] \notin kernel_queue

\* The inductive invariant.
IdleInv ==
  /\ IdleTypeOK /\ CallbacksAreLive /\ AlwaysObserved
  /\ WaitersLive /\ WdsApart /\ WatchesHold

----------------------------------------------------------------------------
(* Lists.                                                                  *)

\* A set of natural numbers that is not empty has a least member. With it, induction over
\* the length of a list is the search for the shortest counterexample.
LEMMA LeastNatural ==
  ASSUME NEW T, T \subseteq Nat, T # {}
  PROVE  \E x \in T : \A y \in T : x <= y
  <1> DEFINE R == OpToRel(<, Nat)
  <1>1. IsWellFoundedOn(R, Nat)
    BY NatLessThanWellFounded
  <1>2. PICK x \in T : \A y \in T : ~ (<<y, x>> \in R)
    <2> HIDE DEF R
    <2> QED BY <1>1, WFMin
  <1>3. \A y \in T : ~ (y < x)
    BY <1>2 DEF OpToRel
  <1> QED BY <1>3

\* What is on a list to which e is appended.
LEMMA RangeAppend ==
  ASSUME NEW S, NEW s \in Seq(S), NEW e \in S
  PROVE  Range(Append(s, e)) = Range(s) \cup {e}
  <1>1. /\ Append(s, e) \in Seq(S) /\ Len(Append(s, e)) = Len(s) + 1
        /\ \A i \in 1 .. Len(s) : Append(s, e)[i] = s[i]
        /\ Append(s, e)[Len(s) + 1] = e
    OBVIOUS
  <1>2. \A x \in Range(Append(s, e)) : x \in Range(s) \cup {e}
    BY <1>1 DEF Range
  <1>3. \A x \in Range(s) \cup {e} : x \in Range(Append(s, e))
    BY <1>1 DEF Range
  <1> QED BY <1>2, <1>3

\* Nothing is on the empty list only.
LEMMA RangeEmpty ==
  ASSUME NEW S, NEW s \in Seq(S)
  PROVE  s = <<>> <=> Range(s) = {}
  <1>1. s = <<>> => Range(s) = {}
    BY DEF Range
  <1>2. s # <<>> => s[1] \in Range(s)
    BY DEF Range
  <1> QED BY <1>1, <1>2

\* What is on a list with e put in front.
LEMMA RangeCons ==
  ASSUME NEW S, NEW s \in Seq(S), NEW e \in S
  PROVE  /\ <<e>> \o s \in Seq(S)
         /\ Range(<<e>> \o s) = Range(s) \cup {e}
  <1>1. /\ <<e>> \o s \in Seq(S) /\ Len(<<e>> \o s) = Len(s) + 1
        /\ \A i \in 1 .. Len(s) : (<<e>> \o s)[i + 1] = s[i]
        /\ (<<e>> \o s)[1] = e
    OBVIOUS
  <1>2. \A x \in Range(<<e>> \o s) : x \in Range(s) \cup {e}
    BY <1>1 DEF Range
  <1>3. e \in Range(<<e>> \o s)
    BY <1>1 DEF Range
  <1>4. ASSUME NEW x \in Range(s) PROVE x \in Range(<<e>> \o s)
    <2>1. PICK i \in 1 .. Len(s) : x = s[i]
      BY DEF Range
    <2>2. i + 1 \in DOMAIN (<<e>> \o s) /\ (<<e>> \o s)[i + 1] = x
      BY <1>1, <2>1
    <2> QED BY <2>2 DEF Range
  <1> QED BY <1>1, <1>2, <1>3, <1>4

\* Without(s, G) is a list of the members of s that are not in G.
LEMMA WithoutIs ==
  ASSUME NEW S, NEW s \in Seq(S), NEW G
  PROVE  /\ Without(s, G) \in Seq(S)
         /\ Range(Without(s, G)) = Range(s) \ G
  <1> DEFINE Def(f, i) == IF i = 0 THEN <<>>
                          ELSE IF s[i] \in G THEN f[i - 1] ELSE Append(f[i - 1], s[i])
             Fits(f, n) == \A i \in 0 .. n : f[i] = Def(f, i)
             Made(n) == \E f \in [0 .. n -> Seq(S)] : Fits(f, n)
             Bad == {n \in 0 .. Len(s) : ~ Made(n)}
  <1>1. Bad = {}
    <2>1. Made(0)
      <3> DEFINE f == [i \in 0 .. 0 |-> <<>>]
      <3>1. f \in [0 .. 0 -> Seq(S)] /\ Fits(f, 0)
        OBVIOUS
      <3> QED BY <3>1
    <2>2. ASSUME NEW n \in 1 .. Len(s), Made(n - 1)
          PROVE  Made(n)
      <3>1. PICK f \in [0 .. n - 1 -> Seq(S)] : Fits(f, n - 1)
        BY <2>2
      <3> DEFINE g == [i \in 0 .. n |-> IF i = n THEN Def(f, n) ELSE f[i]]
      <3>2. s[n] \in S /\ n - 1 \in 0 .. n - 1 /\ n \in Nat
        OBVIOUS
      <3>3. Def(f, n) \in Seq(S)
        BY <3>2
      <3>4. g \in [0 .. n -> Seq(S)]
        BY <3>3
      <3>5. \A i \in 0 .. n - 1 : g[i] = f[i]
        OBVIOUS
      <3>6. Fits(g, n)
        <4> SUFFICES ASSUME NEW i \in 0 .. n PROVE g[i] = Def(g, i)
          OBVIOUS
        <4>1. CASE i = n
          BY <4>1, <3>2, <3>5
        <4>2. CASE i # n
          <5>1. i \in 0 .. n - 1 /\ (i # 0 => i - 1 \in 0 .. n - 1)
            BY <4>2
          <5> QED BY <5>1, <3>1, <3>5
        <4> QED BY <4>1, <4>2
      <3> QED BY <3>4, <3>6
    <2> HIDE DEF Made
    <2>3. SUFFICES ASSUME Bad # {} PROVE FALSE
      OBVIOUS
    <2>4. PICK n \in Bad : \A k \in Bad : n <= k
      <3>1. Bad \subseteq Nat
        OBVIOUS
      <3> HIDE DEF Bad
      <3> QED BY <2>3, <3>1, LeastNatural
    <2>5. n # 0 /\ n \in 1 .. Len(s) /\ n - 1 \in 0 .. Len(s) /\ n - 1 \notin Bad
      BY <2>1, <2>4
    <2> QED BY <2>2, <2>4, <2>5
  <1>2. PICK f \in [0 .. Len(s) -> Seq(S)] : Fits(f, Len(s))
    <2>1. Made(Len(s))
      <3> HIDE DEF Made
      <3> QED BY <1>1
    <2> QED BY <2>1
  <1> DEFINE kept == CHOOSE h : h = [i \in 0 .. Len(s) |-> Def(h, i)]
  <1>3. kept = [i \in 0 .. Len(s) |-> Def(kept, i)]
    <2>1. f = [i \in 0 .. Len(s) |-> Def(f, i)]
      BY <1>2
    <2> QED BY <2>1
  <1>4. Without(s, G) = kept[Len(s)]
    BY DEF Without
  <1> HIDE DEF kept
  <1> DEFINE Good(n) == kept[n] \in Seq(S) /\ Range(kept[n]) = {s[j] : j \in 1 .. n} \ G
             Wrong == {n \in 0 .. Len(s) : ~ Good(n)}
  <1>5. Good(0)
    BY <1>3 DEF Range
  <1>6. ASSUME NEW n \in 1 .. Len(s), Good(n - 1)
        PROVE  Good(n)
    <2>1. kept[n] = IF s[n] \in G THEN kept[n - 1] ELSE Append(kept[n - 1], s[n])
      <3>1. n \in 0 .. Len(s) /\ n # 0
        OBVIOUS
      <3>2. kept[n] = Def(kept, n)
        <4> HIDE DEF Def
        <4> QED BY <3>1, <1>3
      <3> QED BY <3>1, <3>2
    <2>2. s[n] \in S /\ kept[n - 1] \in Seq(S)
      BY <1>6
    <2>3. {s[j] : j \in 1 .. n} = {s[j] : j \in 1 .. n - 1} \cup {s[n]}
      OBVIOUS
    <2>4. CASE s[n] \in G
      BY <1>6, <2>1, <2>2, <2>3, <2>4
    <2>5. CASE s[n] \notin G
      <3>1. Range(Append(kept[n - 1], s[n])) = Range(kept[n - 1]) \cup {s[n]}
        <4>1. \A t \in Seq(S), e \in S : Range(Append(t, e)) = Range(t) \cup {e}
          BY RangeAppend
        <4> QED BY <2>2, <4>1
      <3> QED BY <1>6, <2>1, <2>2, <2>3, <2>5, <3>1
    <2> QED BY <2>4, <2>5
  <1>7. Wrong = {}
    <2> HIDE DEF Good
    <2>1. SUFFICES ASSUME Wrong # {} PROVE FALSE
      OBVIOUS
    <2>2. PICK n \in Wrong : \A k \in Wrong : n <= k
      <3>1. Wrong \subseteq Nat
        OBVIOUS
      <3> HIDE DEF Wrong
      <3> QED BY <2>1, <3>1, LeastNatural
    <2>3. n # 0 /\ n \in 1 .. Len(s) /\ n - 1 \in 0 .. Len(s) /\ n - 1 \notin Wrong
      BY <1>5, <2>2
    <2> QED BY <1>6, <2>2, <2>3
  <1>8. Good(Len(s))
    <2> HIDE DEF Good
    <2> QED BY <1>7
  <1>9. {s[j] : j \in 1 .. Len(s)} = Range(s)
    BY DEF Range
  <1> QED BY <1>4, <1>8, <1>9

----------------------------------------------------------------------------
(* The file monitor.                                                       *)

\* Initially nobody is watched, and nobody has to be.
LEMMA InitIdle == Init => IdleInv
  <1> SUFFICES ASSUME Init PROVE IdleInv
    OBVIOUS
  <1> USE FileMonitorAssumption, IdleAssumption DEF Init, FileMonitorInit
  <1>1. IdleTypeOK
    BY DEF IdleTypeOK, FileMonitorTypeOK, Nobody, Off, NoWd, Wds
  <1>2. CallbacksAreLive
    BY DEF CallbacksAreLive, Range
  <1>3. AlwaysObserved /\ WaitersLive
    BY DEF AlwaysObserved, WaitersLive, Nobody
  <1>4. WdsApart /\ WatchesHold
    BY DEF WdsApart, WatchesHold
  <1> QED BY <1>1, <1>2, <1>3, <1>4 DEF IdleInv

\* What ck_tty_idle_monitor_stop does to the lists and the descriptors: the monitors M are on
\* no list any more, everybody else is where it was, and the watch of a list that still has
\* somebody on it stays.
LEMMA Removes ==
  ASSUME IdleInv, NEW M \in SUBSET Monitors, NEW Q \in SUBSET Wds, RemoveNotifies(M, Q)
  PROVE  /\ kernel_wd' \in [Devices -> Wds \cup {NoWd}]
         /\ watch_wd' \in [Devices -> Wds \cup {NoWd}]
         /\ watch_notifies' \in [Devices -> Seq(Monitors)]
         /\ notifies' \subseteq Monitors
         /\ kernel_queue' \subseteq kernel_queue
         /\ remove_events' \subseteq remove_events
         /\ notify_events' \subseteq Wds
         /\ there' = there /\ away' = away
         /\ \A d \in Devices : Range(watch_notifies'[d]) = Range(watch_notifies[d]) \ M
         /\ \A d \in Devices : Range(watch_notifies'[d]) \subseteq notifies'
         /\ inotify # "open" => \A d \in Devices : watch_notifies'[d] = <<>>
         /\ \A d \in Devices : Range(watch_notifies'[d]) # {} =>
              watch_wd'[d] = watch_wd[d] /\ kernel_wd'[d] \in {kernel_wd[d], NoWd}
         /\ \A d \in Devices : /\ watch_wd'[d] \in {watch_wd[d], NoWd}
                               /\ kernel_wd'[d] \in {kernel_wd[d], NoWd}
                               /\ kernel_wd[d] = watch_wd[d] => kernel_wd'[d] = watch_wd'[d]
  <1> DEFINE gone == IF inotify = "open" THEN M \cap notifies ELSE {}
             left == [d \in Devices |-> Without(watch_notifies[d], gone)]
             empty == {d \in Devices : left[d] = <<>> /\ left[d] # watch_notifies[d]}
             W == {watch_wd[d] : d \in empty}
  <1>1. /\ notifies' = notifies \ gone
        /\ watch_notifies' = left
        /\ watch_wd' = [d \in Devices |-> IF d \in empty THEN NoWd ELSE watch_wd[d]]
        /\ kernel_wd' = Released(W)
        /\ kernel_queue' = Unread(W)
        /\ remove_events' = remove_events \ W
        /\ notify_events' = Q \ W
        /\ UNCHANGED <<there, away>>
    BY DEF RemoveNotifies
  <1>2. /\ watch_notifies \in [Devices -> Seq(Monitors)] /\ notifies \subseteq Monitors
        /\ kernel_wd \in [Devices -> Wds \cup {NoWd}]
        /\ watch_wd \in [Devices -> Wds \cup {NoWd}]
        /\ CallbacksAreLive /\ WaitersLive /\ WdsApart
    BY DEF IdleInv, IdleTypeOK, FileMonitorTypeOK
  <1>3. \A d \in Devices : /\ left[d] \in Seq(Monitors)
                           /\ Range(left[d]) = Range(watch_notifies[d]) \ gone
    BY <1>2, WithoutIs
  <1>4. \A d \in Devices : Range(watch_notifies[d]) \ gone = Range(watch_notifies[d]) \ M
    <2>1. CASE inotify = "open"
      BY <2>1, <1>2 DEF CallbacksAreLive
    <2>2. CASE inotify # "open"
      <3>1. \A d \in Devices : Range(watch_notifies[d]) = {}
        BY <2>2, <1>2 DEF WaitersLive, Range
      <3> QED BY <3>1
    <2> QED BY <2>1, <2>2
  <1>5. \A d \in Devices : left[d] = <<>> <=> Range(left[d]) = {}
    BY <1>3, RangeEmpty
  <1> HIDE DEF left, gone
  <1>6. watch_notifies' \in [Devices -> Seq(Monitors)]
    BY <1>1, <1>3 DEF left
  <1>7. \A d \in Devices : /\ Range(watch_notifies'[d]) = Range(watch_notifies[d]) \ M
                           /\ Range(watch_notifies'[d]) \subseteq notifies'
    BY <1>1, <1>2, <1>3, <1>4 DEF CallbacksAreLive
  <1>8. inotify # "open" => \A d \in Devices : watch_notifies'[d] = <<>>
    <2> SUFFICES ASSUME inotify # "open", NEW d \in Devices PROVE watch_notifies'[d] = <<>>
      OBVIOUS
    <2>1. Range(watch_notifies[d]) = {}
      BY <1>2 DEF WaitersLive, Range
    <2> QED BY <2>1, <1>1, <1>3, <1>5
  <1>9. /\ kernel_wd' \in [Devices -> Wds \cup {NoWd}]
        /\ watch_wd' \in [Devices -> Wds \cup {NoWd}]
        /\ \A d \in Devices : /\ watch_wd'[d] = IF d \in empty THEN NoWd ELSE watch_wd[d]
                              /\ kernel_wd'[d] = IF kernel_wd[d] \in W THEN NoWd ELSE kernel_wd[d]
    BY <1>1, <1>2 DEF Released
  <1>10. ASSUME NEW d \in Devices, kernel_wd[d] = watch_wd[d]
         PROVE  kernel_wd'[d] = watch_wd'[d]
    <2>1. CASE d \in empty
      BY <2>1, <1>9, <1>10
    <2>2. CASE d \notin empty /\ kernel_wd[d] \in W
      <3>1. PICK e \in empty : kernel_wd[d] = watch_wd[e]
        BY <2>2
      <3>2. kernel_wd[d] = NoWd
        BY <2>2, <3>1, <1>2 DEF WdsApart
      <3> QED BY <2>2, <3>2, <1>9, <1>10
    <2>3. CASE d \notin empty /\ kernel_wd[d] \notin W
      BY <2>3, <1>9, <1>10
    <2> QED BY <2>1, <2>2, <2>3
  <1>11. \A d \in Devices : Range(watch_notifies'[d]) # {} => watch_wd'[d] = watch_wd[d]
    BY <1>1, <1>5, <1>9
  <1>12. /\ kernel_queue' \subseteq kernel_queue /\ remove_events' \subseteq remove_events
         /\ notify_events' \subseteq Wds /\ there' = there /\ away' = away
         /\ notifies' \subseteq Monitors
    BY <1>1, <1>2 DEF Unread
  <1>13. \A d \in Devices : /\ watch_wd'[d] \in {watch_wd[d], NoWd}
                            /\ kernel_wd'[d] \in {kernel_wd[d], NoWd}
    BY <1>9
  <1> HIDE DEF empty, W
  <1> QED BY <1>6, <1>7, <1>8, <1>9, <1>10, <1>11, <1>12, <1>13

\* The descriptors stay apart and the watches hold when some of them are given back.
LEMMA GivenBack ==
  ASSUME IdleInv,
         away' = away, kernel_queue' \subseteq kernel_queue,
         remove_events' \subseteq remove_events,
         \A d \in Devices : /\ watch_wd'[d] \in {watch_wd[d], NoWd}
                            /\ kernel_wd'[d] \in {kernel_wd[d], NoWd}
                            /\ kernel_wd[d] = watch_wd[d] => kernel_wd'[d] = watch_wd'[d]
  PROVE  WdsApart' /\ WatchesHold'
  <1>1. WdsApart /\ WatchesHold
    BY DEF IdleInv
  <1>2. WdsApart'
    BY <1>1 DEF WdsApart
  <1>3. WatchesHold'
    <2> SUFFICES ASSUME NEW d \in Devices \ away
                 PROVE  /\ watch_wd'[d] = kernel_wd'[d]
                        /\ watch_wd'[d] # NoWd =>
                             /\ watch_wd'[d] \notin remove_events'
                             /\ [wd |-> watch_wd'[d], kind |-> "IGNORED"] \notin kernel_queue'
      BY DEF WatchesHold
    <2>1. watch_wd[d] = kernel_wd[d] /\ watch_wd'[d] = kernel_wd'[d]
      BY <1>1 DEF WatchesHold
    <2>2. watch_wd'[d] # NoWd => watch_wd'[d] = watch_wd[d]
      OBVIOUS
    <2> QED BY <1>1, <2>1, <2>2 DEF WatchesHold
  <1> QED BY <1>2, <1>3

\* ck_tty_idle_monitor_stop, by a session that begins, ends or is used: whoever gets a timer
\* is live, and who is not live any more has none.
LEMMA Stops ==
  ASSUME IdleInv, NEW M \in SUBSET Monitors, NEW t \in {Threshold, Off},
         NEW Q \in SUBSET Wds,
         ck_tty_idle_monitor_stop(M, t, Q), InMainLoop,
         live' \subseteq Monitors, idle_hint' \subseteq Monitors,
         live' \ live \subseteq M, live \ live' \subseteq M,
         t = Threshold => M \subseteq live',
         t = Off => M \cap live' = {},
         UNCHANGED <<inotify, age, check>>
  PROVE  IdleInv'
  <1>1. /\ timer' = [m \in Monitors |-> IF m \in M THEN t ELSE timer[m]]
        /\ RemoveNotifies(M, Q)
    BY DEF ck_tty_idle_monitor_stop
  <1>2. /\ IdleTypeOK /\ FileMonitorTypeOK /\ CallbacksAreLive /\ AlwaysObserved /\ WaitersLive
        /\ WdsApart /\ WatchesHold
    BY DEF IdleInv, IdleTypeOK
  <1>3. check' = Nobody /\ check = Nobody
    BY DEF InMainLoop
  <1>4. /\ kernel_wd' \in [Devices -> Wds \cup {NoWd}]
        /\ watch_wd' \in [Devices -> Wds \cup {NoWd}]
        /\ watch_notifies' \in [Devices -> Seq(Monitors)]
        /\ notifies' \subseteq Monitors
        /\ kernel_queue' \subseteq kernel_queue
        /\ remove_events' \subseteq remove_events
        /\ notify_events' \subseteq Wds
        /\ there' = there /\ away' = away
        /\ \A d \in Devices : Range(watch_notifies'[d]) = Range(watch_notifies[d]) \ M
        /\ \A d \in Devices : Range(watch_notifies'[d]) \subseteq notifies'
        /\ inotify # "open" => \A d \in Devices : watch_notifies'[d] = <<>>
        /\ \A d \in Devices : Range(watch_notifies'[d]) # {} =>
             watch_wd'[d] = watch_wd[d] /\ kernel_wd'[d] \in {kernel_wd[d], NoWd}
        /\ \A d \in Devices : /\ watch_wd'[d] \in {watch_wd[d], NoWd}
                              /\ kernel_wd'[d] \in {kernel_wd[d], NoWd}
                              /\ kernel_wd[d] = watch_wd[d] => kernel_wd'[d] = watch_wd'[d]
    BY <1>1, Removes
  <1>5. IdleTypeOK'
    <2>1. timer' \in [Monitors -> 0 .. Off]
      BY <1>1, <1>2, IdleAssumption DEF IdleTypeOK, Off
    <2>2. FileMonitorTypeOK'
      BY <1>2, <1>4 DEF FileMonitorTypeOK
    <2> QED BY <1>2, <2>1, <2>2 DEF IdleTypeOK
  <1>6. CallbacksAreLive'
    BY <1>2, <1>4 DEF CallbacksAreLive
  <1>7. WaitersLive'
    BY <1>1, <1>2, <1>3, <1>4, IdleAssumption DEF WaitersLive, Off, Nobody, IdleTypeOK
  <1>8. AlwaysObserved'
    <2> SUFFICES ASSUME inotify # "closed", NEW m \in live', DeviceOf[m] \notin away,
                        timer'[m] = Off
                 PROVE  LET d == DeviceOf[m] IN /\ m \in Range(watch_notifies'[d])
                                                /\ watch_wd'[d] = kernel_wd'[d]
                                                /\ kernel_wd'[d] # NoWd
      BY <1>4 DEF AlwaysObserved
    <2>1. m \notin M /\ m \in live /\ m \in Monitors
      BY <1>1, <1>2, IdleAssumption DEF Off, IdleTypeOK
    <2>2. timer[m] = Off /\ DeviceOf[m] \in Devices /\ check.monitor # m
      BY <1>1, <1>3, <2>1, FileMonitorAssumption, IdleAssumption DEF Nobody
    <2>3. LET d == DeviceOf[m] IN m \in Range(watch_notifies[d])
                                    /\ watch_wd[d] = kernel_wd[d] /\ kernel_wd[d] # NoWd
      BY <1>2, <2>1, <2>2 DEF AlwaysObserved
    <2>4. m \in Range(watch_notifies'[DeviceOf[m]])
      BY <1>4, <2>1, <2>2, <2>3
    <2>5. watch_wd'[DeviceOf[m]] = watch_wd[DeviceOf[m]]
      BY <1>4, <2>2, <2>4
    <2> QED BY <1>4, <2>2, <2>3, <2>4, <2>5
  <1>9. WdsApart' /\ WatchesHold'
    BY <1>4, GivenBack
  <1> QED BY <1>5, <1>6, <1>7, <1>8, <1>9 DEF IdleInv

----------------------------------------------------------------------------
(* The steps.                                                              *)

\* A terminal goes or comes back.
LEMMA HotplugsIdle ==
  ASSUME IdleInv, NEW d \in Devices, Hotplugs(d)
  PROVE  IdleInv'
  <1>1. /\ IdleTypeOK /\ FileMonitorTypeOK /\ CallbacksAreLive /\ AlwaysObserved /\ WaitersLive
        /\ WdsApart /\ WatchesHold
    BY DEF IdleInv, IdleTypeOK
  <1>2. /\ UNCHANGED <<idlevars, check, inotify, watchvars, notify_events, remove_events>>
        /\ age' = [age EXCEPT ![d] = 0]
        /\ Vanish(d) \/ Appear(d)
    BY DEF Hotplugs, Vanish, Appear
  <1>3. UNCHANGED <<live, timer, idle_hint, watch_wd, watch_notifies, notifies>>
    BY <1>2 DEF idlevars, watchvars
  <1>4. CallbacksAreLive' /\ WaitersLive'
    BY <1>1, <1>2, <1>3 DEF CallbacksAreLive, WaitersLive
  <1>5. age' \in [Devices -> 0 .. Threshold]
    BY <1>1, <1>2, IdleAssumption DEF IdleTypeOK
  <1>6. CASE Appear(d)
    <2>1. FileMonitorTypeOK'
      BY <1>1, <1>2, <1>3, <1>6 DEF FileMonitorTypeOK, Appear
    <2>2. IdleTypeOK'
      BY <1>1, <1>2, <1>3, <1>5, <2>1 DEF IdleTypeOK
    <2>3. AlwaysObserved' /\ WdsApart' /\ WatchesHold'
      BY <1>1, <1>2, <1>3, <1>6 DEF AlwaysObserved, WdsApart, WatchesHold, Appear
    <2> QED BY <1>4, <2>2, <2>3 DEF IdleInv
  <1>7. CASE Vanish(d)
    <2>1. /\ there' = there \ {d} /\ away' = away \cup {d}
          /\ kernel_wd' = [kernel_wd EXCEPT ![d] = NoWd]
          /\ kernel_queue' = IF kernel_wd[d] = watch_wd[d]
                               THEN kernel_queue \cup Told(d, "IGNORED")
                               ELSE Unread({kernel_wd[d]})
      BY <1>7 DEF Vanish
    <2>2. Told(d, "IGNORED") \subseteq [wd : Wds, kind : {"ACCESS", "IGNORED"}]
      BY <1>1 DEF Told, FileMonitorTypeOK
    <2>3. FileMonitorTypeOK'
      BY <1>1, <1>2, <1>3, <2>1, <2>2 DEF FileMonitorTypeOK, Unread
    <2>4. IdleTypeOK'
      BY <1>1, <1>2, <1>3, <1>5, <2>3 DEF IdleTypeOK
    <2>5. kernel_wd \in [Devices -> Wds \cup {NoWd}]
      BY <1>1 DEF FileMonitorTypeOK
    <2>6. AlwaysObserved'
      BY <1>1, <1>2, <1>3, <2>1, <2>5, FileMonitorAssumption DEF AlwaysObserved, IdleTypeOK
    <2>7. WdsApart'
      BY <1>1, <1>3, <2>1, <2>5 DEF WdsApart
    <2>8. WatchesHold'
      <3> SUFFICES ASSUME NEW e \in Devices \ away'
                   PROVE  /\ watch_wd'[e] = kernel_wd'[e]
                          /\ watch_wd'[e] # NoWd =>
                               /\ watch_wd'[e] \notin remove_events'
                               /\ [wd |-> watch_wd'[e], kind |-> "IGNORED"] \notin kernel_queue'
        BY DEF WatchesHold
      <3>1. e # d /\ e \in Devices \ away /\ watch_wd'[e] = watch_wd[e] /\ kernel_wd'[e] = kernel_wd[e]
        BY <1>3, <2>1, <2>5
      <3>2. watch_wd[e] # NoWd => watch_wd[e] # kernel_wd[d]
        BY <1>1, <3>1 DEF WdsApart, WatchesHold
      <3>3. watch_wd[e] # NoWd =>
              [wd |-> watch_wd[e], kind |-> "IGNORED"] \notin kernel_queue'
        BY <1>1, <2>1, <3>1, <3>2 DEF WatchesHold, Told, Unread
      <3> QED BY <1>1, <1>2, <3>1, <3>3 DEF WatchesHold
    <2> QED BY <1>4, <2>4, <2>6, <2>7, <2>8 DEF IdleInv
  <1> QED BY <1>2, <1>6, <1>7

\* The user types, and time passes.
LEMMA AccessIdle ==
  ASSUME IdleInv, NEW d \in Devices, Access(d)
  PROVE  IdleInv'
  <1>1. /\ IdleTypeOK /\ FileMonitorTypeOK /\ CallbacksAreLive /\ AlwaysObserved /\ WaitersLive
        /\ WdsApart /\ WatchesHold
    BY DEF IdleInv, IdleTypeOK
  <1>2. /\ kernel_queue' = kernel_queue \cup Told(d, "ACCESS")
        /\ age' = [age EXCEPT ![d] = 0]
        /\ UNCHANGED <<there, away, kernel_wd, inotify, watch_wd, watch_notifies, notifies,
                       notify_events, remove_events, live, timer, idle_hint, check>>
    BY DEF Access, KernelAccess, watchvars, idlevars
  <1>3. Told(d, "ACCESS") \subseteq [wd : Wds, kind : {"ACCESS", "IGNORED"}]
    BY <1>1 DEF Told, FileMonitorTypeOK
  <1>4. FileMonitorTypeOK'
    BY <1>1, <1>2, <1>3 DEF FileMonitorTypeOK
  <1>5. IdleTypeOK'
    BY <1>1, <1>2, <1>4, IdleAssumption DEF IdleTypeOK
  <1>6. CallbacksAreLive' /\ WaitersLive' /\ AlwaysObserved' /\ WdsApart'
    BY <1>1, <1>2 DEF CallbacksAreLive, WaitersLive, AlwaysObserved, WdsApart
  <1>7. \A w : [wd |-> w, kind |-> "IGNORED"] \notin Told(d, "ACCESS")
    BY DEF Told
  <1>8. WatchesHold'
    BY <1>1, <1>2, <1>7 DEF WatchesHold
  <1> QED BY <1>5, <1>6, <1>8 DEF IdleInv

LEMMA TickIdle ==
  ASSUME IdleInv, Tick
  PROVE  IdleInv'
  <1>1. /\ IdleTypeOK /\ FileMonitorTypeOK /\ CallbacksAreLive /\ AlwaysObserved /\ WaitersLive
        /\ WdsApart /\ WatchesHold
    BY DEF IdleInv, IdleTypeOK
  <1>2. UNCHANGED <<there, away, kernel_wd, kernel_queue, inotify, watch_wd, watch_notifies,
                    notifies, notify_events, remove_events, live, idle_hint, check>>
    BY DEF Tick, filevars, kernelvars, watchvars
  <1>3. /\ timer' \in [Monitors -> 0 .. Off]
        /\ \A m \in Monitors : timer'[m] = Off <=> timer[m] = Off
    BY <1>1, IdleAssumption DEF Tick, IdleTypeOK, Off
  <1>4. age' \in [Devices -> 0 .. Threshold]
    BY <1>1, IdleAssumption DEF Tick, IdleTypeOK
  <1>5. FileMonitorTypeOK'
    BY <1>1, <1>2 DEF FileMonitorTypeOK
  <1>6. IdleTypeOK'
    BY <1>1, <1>2, <1>3, <1>4, <1>5 DEF IdleTypeOK
  <1>7. CallbacksAreLive' /\ WdsApart' /\ WatchesHold'
    BY <1>1, <1>2 DEF CallbacksAreLive, WdsApart, WatchesHold
  <1>8. WaitersLive' /\ AlwaysObserved'
    BY <1>1, <1>2, <1>3 DEF WaitersLive, AlwaysObserved, IdleTypeOK
  <1> QED BY <1>6, <1>7, <1>8 DEF IdleInv

\* check_tty_idle, until it has seen the time of the last access, and the rest of it when
\* the terminal is in use.
LEMMA CheckIdle ==
  ASSUME IdleInv, NEW m \in Monitors, check_tty_idle(m) \/ InUse(m)
  PROVE  IdleInv'
  <1>1. /\ IdleTypeOK /\ FileMonitorTypeOK /\ CallbacksAreLive /\ AlwaysObserved /\ WaitersLive
        /\ WdsApart /\ WatchesHold
    BY DEF IdleInv, IdleTypeOK
  <1>2. UNCHANGED <<there, away, kernel_wd, kernel_queue, inotify, watch_wd, watch_notifies,
                    notifies, notify_events, remove_events, live, age>>
    BY DEF check_tty_idle, InUse, filevars, kernelvars, watchvars
  <1>3. FileMonitorTypeOK' /\ CallbacksAreLive' /\ WdsApart' /\ WatchesHold'
    BY <1>1, <1>2 DEF FileMonitorTypeOK, CallbacksAreLive, WdsApart, WatchesHold
  <1>4. DeviceOf[m] \in Devices /\ Off \in 0 .. Off /\ Threshold < Off /\ 0 # Off
    BY FileMonitorAssumption, IdleAssumption DEF Off
  <1>5. CASE check_tty_idle(m)
    <2>1. /\ check = Nobody /\ timer[m] = 0 /\ m \in live /\ idle_hint' = idle_hint
          /\ timer' = [timer EXCEPT ![m] = Off]
          /\ check' = IF DeviceOf[m] \in there
                        THEN [monitor |-> m, age |-> age[DeviceOf[m]]] ELSE Nobody
      BY <1>1, <1>4, <1>5 DEF check_tty_idle, InMainLoop, WaitersLive
    <2>2. IdleTypeOK'
      BY <1>1, <1>2, <1>3, <1>4, <2>1, IdleAssumption DEF IdleTypeOK, Nobody
    <2>3. WaitersLive'
      BY <1>1, <1>2, <2>1 DEF WaitersLive, Nobody, IdleTypeOK
    <2>4. AlwaysObserved'
      <3> SUFFICES ASSUME inotify # "closed", NEW n \in live, DeviceOf[n] \notin away,
                          timer'[n] = Off, check'.monitor # n
                   PROVE  LET d == DeviceOf[n] IN n \in Range(watch_notifies[d])
                                                  /\ watch_wd[d] = kernel_wd[d]
                                                  /\ kernel_wd[d] # NoWd
        BY <1>2 DEF AlwaysObserved
      <3>1. n \in Monitors /\ DeviceOf[n] \in there
        BY <1>1, FileMonitorAssumption DEF IdleTypeOK, FileMonitorTypeOK
      <3>2. n # m
        BY <2>1, <3>1
      <3>3. timer[n] = Off /\ check.monitor # n
        BY <1>1, <2>1, <3>1, <3>2, IdleAssumption DEF Nobody, IdleTypeOK
      <3> QED BY <1>1, <3>1, <3>2, <3>3 DEF AlwaysObserved
    <2> QED BY <1>3, <2>2, <2>3, <2>4 DEF IdleInv
  <1>6. CASE InUse(m)
    <2>1. /\ check.monitor = m /\ check.age < Threshold /\ m \in live
          /\ check' = Nobody /\ idle_hint' = idle_hint \ {m}
          /\ timer' = [timer EXCEPT ![m] = Threshold - check.age]
      BY <1>1, <1>6, IdleAssumption DEF InUse, WaitersLive
    <2>2. check.age \in 0 .. Threshold
      BY <1>1 DEF IdleTypeOK
    <2>3. Threshold - check.age \in 0 .. Off /\ Threshold - check.age # Off
      BY <2>2, IdleAssumption DEF Off
    <2>4. IdleTypeOK'
      BY <1>1, <1>2, <1>3, <2>1, <2>3, IdleAssumption DEF IdleTypeOK, Nobody
    <2>5. WaitersLive' /\ AlwaysObserved'
      BY <1>1, <1>2, <2>1, <2>3, IdleAssumption DEF WaitersLive, AlwaysObserved, Nobody, IdleTypeOK
    <2> QED BY <1>3, <2>4, <2>5 DEF IdleInv
  <1> QED BY <1>5, <1>6

\* file_monitor_add_notify_for_path: the monitor is on the list of a watch.
LEMMA AddsNotify ==
  ASSUME IdleInv, NEW m \in Monitors, file_monitor_add_notify_for_path(m)
  PROVE  /\ FileMonitorTypeOK' /\ WdsApart' /\ WatchesHold'
         /\ inotify' = "open" /\ inotify = "open" /\ away' = away
         /\ m \in notifies' /\ notifies \subseteq notifies'
         /\ LET d == DeviceOf[m] IN
              /\ Range(watch_notifies'[d]) = Range(watch_notifies[d]) \cup {m}
              /\ d \notin away => watch_wd'[d] = kernel_wd'[d] /\ kernel_wd'[d] # NoWd
              /\ \A e \in Devices \ {d} :
                   /\ watch_notifies'[e] = watch_notifies[e]
                   /\ watch_wd'[e] = watch_wd[e] /\ kernel_wd'[e] = kernel_wd[e]
  <1> DEFINE d == DeviceOf[m]
  <1>1. /\ FileMonitorTypeOK /\ WdsApart /\ WatchesHold
        /\ kernel_wd \in [Devices -> Wds \cup {NoWd}] /\ watch_wd \in [Devices -> Wds \cup {NoWd}]
        /\ watch_notifies \in [Devices -> Seq(Monitors)]
    BY DEF IdleInv, IdleTypeOK, FileMonitorTypeOK
  <1>2. d \in Devices
    BY FileMonitorAssumption
  <1>3. /\ inotify = "open"
        /\ file_monitor_add_watch_for_path(d)
        /\ watch_notifies' = [watch_notifies EXCEPT ![d] = <<m>> \o @]
        /\ notifies' = notifies \cup {m}
        /\ UNCHANGED <<there, away, kernel_queue, inotify, notify_events, remove_events>>
    BY DEF file_monitor_add_notify_for_path
  <1>4. PICK wd \in IF kernel_wd[d] # NoWd THEN {kernel_wd[d]}
                    ELSE {w \in FreeWds : \A x \in FreeWds : w <= x} :
          /\ kernel_wd' = [kernel_wd EXCEPT ![d] = wd]
          /\ watch_wd' = [watch_wd EXCEPT ![d] = IF @ = NoWd THEN wd ELSE @]
    BY <1>3 DEF file_monitor_add_watch_for_path
  <1> HIDE DEF d
  <1>5. wd \in Wds /\ (kernel_wd[d] # NoWd => wd = kernel_wd[d])
        /\ (kernel_wd[d] = NoWd => wd \in FreeWds)
    BY <1>1, <1>2, <1>4 DEF FreeWds
  <1>6. wd # NoWd
    BY <1>5, FileMonitorAssumption DEF Wds, NoWd
  <1>7. /\ <<m>> \o watch_notifies[d] \in Seq(Monitors)
        /\ Range(<<m>> \o watch_notifies[d]) = Range(watch_notifies[d]) \cup {m}
    BY <1>1, <1>2, RangeCons
  <1>8. FileMonitorTypeOK'
    BY <1>1, <1>2, <1>3, <1>4, <1>5, <1>7 DEF FileMonitorTypeOK
  <1>9. /\ kernel_wd'[d] = wd /\ watch_wd'[d] = IF watch_wd[d] = NoWd THEN wd ELSE watch_wd[d]
        /\ \A e \in Devices \ {d} : /\ watch_notifies'[e] = watch_notifies[e]
                                    /\ watch_wd'[e] = watch_wd[e] /\ kernel_wd'[e] = kernel_wd[e]
        /\ Range(watch_notifies'[d]) = Range(watch_notifies[d]) \cup {m}
    BY <1>1, <1>2, <1>3, <1>4, <1>7
  <1>10. \A e \in Devices \ {d} : wd # kernel_wd[e] /\ wd # watch_wd[e]
    BY <1>1, <1>2, <1>5, <1>6 DEF FreeWds, WdsApart
  <1>11. WdsApart'
    <2>1. ASSUME NEW e \in Devices \ {d}
          PROVE  /\ kernel_wd'[d] # kernel_wd'[e] /\ kernel_wd'[d] # watch_wd'[e]
                 /\ kernel_wd'[e] # NoWd => kernel_wd'[e] # watch_wd'[d]
                 /\ watch_wd'[d] # watch_wd'[e]
      <3>1. /\ kernel_wd[e] # NoWd => kernel_wd[e] # watch_wd[d]
            /\ watch_wd[d] # NoWd => watch_wd[d] # watch_wd[e]
        BY <1>1, <1>2 DEF WdsApart
      <3> QED BY <1>9, <1>10, <3>1
    <2>2. ASSUME NEW e \in Devices \ {d}, NEW f \in Devices \ {d}, e # f
          PROVE  /\ kernel_wd'[e] # NoWd => kernel_wd'[e] # kernel_wd'[f]
                                            /\ kernel_wd'[e] # watch_wd'[f]
                 /\ watch_wd'[e] # NoWd => watch_wd'[e] # watch_wd'[f]
      BY <2>2, <1>1, <1>9 DEF WdsApart
    <2> QED BY <2>1, <2>2 DEF WdsApart
  <1>12. d \notin away => watch_wd'[d] = wd /\ kernel_wd'[d] = wd
    BY <1>1, <1>2, <1>5, <1>9 DEF WatchesHold
  <1>13. kernel_wd[d] = NoWd => /\ wd \notin remove_events
                                /\ [wd |-> wd, kind |-> "IGNORED"] \notin kernel_queue
    BY <1>5 DEF FreeWds
  <1>14. WatchesHold'
    <2> SUFFICES ASSUME NEW e \in Devices \ away
                 PROVE  /\ watch_wd'[e] = kernel_wd'[e]
                        /\ watch_wd'[e] # NoWd =>
                             /\ watch_wd'[e] \notin remove_events
                             /\ [wd |-> watch_wd'[e], kind |-> "IGNORED"] \notin kernel_queue
      BY <1>3 DEF WatchesHold
    <2>1. CASE e # d
      BY <2>1, <1>1, <1>9 DEF WatchesHold
    <2>2. CASE e = d /\ kernel_wd[d] = NoWd
      BY <2>2, <1>12, <1>13
    <2>3. CASE e = d /\ kernel_wd[d] # NoWd
      BY <2>3, <1>1, <1>2, <1>5, <1>12 DEF WatchesHold
    <2> QED BY <2>1, <2>2, <2>3
  <1> QED BY <1>3, <1>6, <1>8, <1>9, <1>11, <1>12, <1>14 DEF d

\* The rest of check_tty_idle when the terminal is idle.
LEMMA IsIdleIdle ==
  ASSUME IdleInv, NEW m \in Monitors, IsIdle(m)
  PROVE  IdleInv'
  <1>1. /\ IdleTypeOK /\ FileMonitorTypeOK /\ CallbacksAreLive /\ AlwaysObserved /\ WaitersLive
        /\ WdsApart /\ WatchesHold
    BY DEF IdleInv, IdleTypeOK
  <1>2. /\ check.monitor = m /\ m \in live /\ check' = Nobody
        /\ idle_hint' = idle_hint \cup {m} /\ UNCHANGED <<live, age>>
        /\ monitor_add_watch(m)
    BY <1>1, IdleAssumption DEF IsIdle, WaitersLive
  <1>3. DeviceOf[m] \in Devices
    BY FileMonitorAssumption
  <1>4. CASE file_monitor_add_notify_for_path(m) /\ UNCHANGED timer
    <2>1. /\ FileMonitorTypeOK' /\ WdsApart' /\ WatchesHold'
          /\ inotify' = "open" /\ inotify = "open" /\ away' = away
          /\ m \in notifies' /\ notifies \subseteq notifies'
          /\ LET d == DeviceOf[m] IN
               /\ Range(watch_notifies'[d]) = Range(watch_notifies[d]) \cup {m}
               /\ d \notin away => watch_wd'[d] = kernel_wd'[d] /\ kernel_wd'[d] # NoWd
               /\ \A e \in Devices \ {d} :
                    /\ watch_notifies'[e] = watch_notifies[e]
                    /\ watch_wd'[e] = watch_wd[e] /\ kernel_wd'[e] = kernel_wd[e]
      BY <1>4, AddsNotify
    <2>2. IdleTypeOK'
      BY <1>1, <1>2, <1>4, <2>1, IdleAssumption DEF IdleTypeOK, Nobody
    <2>3. CallbacksAreLive'
      BY <1>1, <1>2, <1>3, <2>1 DEF CallbacksAreLive
    <2>4. WaitersLive'
      BY <1>1, <1>2, <1>4, <2>1 DEF WaitersLive, Nobody
    <2>5. AlwaysObserved'
      <3> SUFFICES ASSUME NEW n \in live, DeviceOf[n] \notin away, timer[n] = Off
                   PROVE  LET d == DeviceOf[n] IN /\ n \in Range(watch_notifies'[d])
                                                  /\ watch_wd'[d] = kernel_wd'[d]
                                                  /\ kernel_wd'[d] # NoWd
        BY <1>2, <1>4, <2>1 DEF AlwaysObserved
      <3>1. n \in Monitors /\ DeviceOf[n] \in Devices
        BY <1>1, FileMonitorAssumption DEF IdleTypeOK
      <3>2. CASE n = m
        BY <3>2, <2>1
      <3>3. CASE n # m
        <4>1. LET d == DeviceOf[n] IN /\ n \in Range(watch_notifies[d])
                                      /\ watch_wd[d] = kernel_wd[d] /\ kernel_wd[d] # NoWd
          BY <3>3, <1>1, <1>2, <2>1 DEF AlwaysObserved
        <4> QED BY <3>1, <4>1, <2>1
      <3> QED BY <3>2, <3>3
    <2> QED BY <2>1, <2>2, <2>3, <2>4, <2>5 DEF IdleInv
  <1>5. CASE timer' = [timer EXCEPT ![m] = Threshold] /\ UNCHANGED filevars
    <2>1. UNCHANGED <<there, away, kernel_wd, kernel_queue, inotify, watch_wd, watch_notifies,
                      notifies, notify_events, remove_events>>
      BY <1>5 DEF filevars, kernelvars, watchvars
    <2>2. FileMonitorTypeOK' /\ CallbacksAreLive' /\ WdsApart' /\ WatchesHold'
      BY <1>1, <1>2, <2>1 DEF FileMonitorTypeOK, CallbacksAreLive, WdsApart, WatchesHold
    <2>3. IdleTypeOK'
      BY <1>1, <1>2, <1>5, <2>2, IdleAssumption DEF IdleTypeOK, Nobody, Off
    <2>4. WaitersLive' /\ AlwaysObserved'
      BY <1>1, <1>2, <1>5, <2>1, IdleAssumption
         DEF WaitersLive, AlwaysObserved, Nobody, Off, IdleTypeOK
    <2> QED BY <2>2, <2>3, <2>4 DEF IdleInv
  <1> QED BY <1>2, <1>4, <1>5 DEF monitor_add_watch

\* The file monitor reads what the kernel has to say, or fails to.
LEMMA FileMonitorIdle ==
  ASSUME IdleInv, FileMonitor
  PROVE  IdleInv'
  <1>1. /\ IdleTypeOK /\ FileMonitorTypeOK /\ CallbacksAreLive /\ AlwaysObserved /\ WaitersLive
        /\ WdsApart /\ WatchesHold
    BY DEF IdleInv, IdleTypeOK
  <1>2. /\ UNCHANGED <<live, timer, idle_hint, age, check>>
        /\ inotify_data_pending \/ emit_removals_in_idle \/ close_inotify
    BY DEF FileMonitor, idlevars
  <1>3. /\ kernel_wd \in [Devices -> Wds \cup {NoWd}] /\ watch_wd \in [Devices -> Wds \cup {NoWd}]
        /\ watch_notifies \in [Devices -> Seq(Monitors)]
    BY <1>1 DEF FileMonitorTypeOK
  <1>4. CASE inotify_data_pending
    <2> DEFINE Known(kind) == {e.wd : e \in {x \in kernel_queue : x.kind = kind}} \cap Range(watch_wd)
    <2>1. /\ notify_events' = notify_events \cup Known("ACCESS")
          /\ remove_events' = remove_events \cup Known("IGNORED")
          /\ kernel_queue' = {}
          /\ UNCHANGED <<there, away, kernel_wd, inotify, watch_wd, watch_notifies, notifies>>
      BY <1>4 DEF inotify_data_pending, watchvars
    <2>2. Known("ACCESS") \subseteq Wds /\ Known("IGNORED") \subseteq Wds
      BY <1>1 DEF FileMonitorTypeOK
    <2>3. \A w \in Known("IGNORED") : [wd |-> w, kind |-> "IGNORED"] \in kernel_queue
      BY <1>1 DEF FileMonitorTypeOK
    <2> HIDE DEF Known
    <2>4. FileMonitorTypeOK'
      BY <1>1, <2>1, <2>2 DEF FileMonitorTypeOK
    <2>5. IdleTypeOK'
      BY <1>1, <1>2, <2>4 DEF IdleTypeOK
    <2>6. CallbacksAreLive' /\ WaitersLive' /\ AlwaysObserved' /\ WdsApart'
      BY <1>1, <1>2, <2>1 DEF CallbacksAreLive, WaitersLive, AlwaysObserved, WdsApart
    <2>7. WatchesHold'
      BY <1>1, <2>1, <2>3 DEF WatchesHold
    <2> QED BY <2>5, <2>6, <2>7 DEF IdleInv
  <1>5. CASE emit_removals_in_idle
    <2> DEFINE D == {d \in Devices : watch_wd[d] \in remove_events}
    <2>1. /\ remove_events' = {}
          /\ watch_wd' = [d \in Devices |-> IF d \in D THEN NoWd ELSE watch_wd[d]]
          /\ watch_notifies' = [d \in Devices |-> IF d \in D THEN <<>> ELSE watch_notifies[d]]
          /\ kernel_wd' = Released(remove_events)
          /\ kernel_queue' = Unread(remove_events)
          /\ notify_events' = notify_events \ remove_events
          /\ UNCHANGED <<there, away, inotify, notifies>>
      BY <1>5 DEF emit_removals_in_idle
    <2>2. FileMonitorTypeOK'
      BY <1>1, <1>3, <2>1 DEF FileMonitorTypeOK, Released, Unread
    <2>3. IdleTypeOK'
      BY <1>1, <1>2, <2>2 DEF IdleTypeOK
    <2>4. \A d \in Devices : watch_notifies'[d] \in {watch_notifies[d], <<>>}
      BY <2>1
    <2>5. CallbacksAreLive'
      BY <1>1, <1>2, <2>1, <2>4 DEF CallbacksAreLive, Range
    <2>6. WaitersLive'
      BY <1>1, <1>2, <2>1, <2>4 DEF WaitersLive
    <2>7. \A d \in Devices : /\ watch_wd'[d] \in {watch_wd[d], NoWd}
                             /\ kernel_wd'[d] \in {kernel_wd[d], NoWd}
                             /\ kernel_wd[d] = watch_wd[d] => kernel_wd'[d] = watch_wd'[d]
      BY <2>1 DEF Released
    <2>8. WdsApart' /\ WatchesHold'
      <3>1. kernel_queue' \subseteq kernel_queue /\ remove_events' \subseteq remove_events
        BY <2>1 DEF Unread
      <3> QED BY <2>1, <2>7, <3>1, GivenBack
    <2>9. AlwaysObserved'
      <3> SUFFICES ASSUME inotify # "closed", NEW m \in live, DeviceOf[m] \notin away,
                          timer[m] = Off, check.monitor # m
                   PROVE  LET d == DeviceOf[m] IN /\ m \in Range(watch_notifies'[d])
                                                  /\ watch_wd'[d] = kernel_wd'[d]
                                                  /\ kernel_wd'[d] # NoWd
        BY <1>2, <2>1 DEF AlwaysObserved
      <3> DEFINE d == DeviceOf[m]
      <3>1. d \in Devices
        BY <1>1, FileMonitorAssumption DEF IdleTypeOK
      <3>2. /\ m \in Range(watch_notifies[d])
            /\ watch_wd[d] = kernel_wd[d] /\ kernel_wd[d] # NoWd
        BY <1>1 DEF AlwaysObserved
      <3>3. watch_wd[d] \notin remove_events
        BY <1>1, <3>1, <3>2 DEF WatchesHold
      <3>4. /\ watch_notifies'[d] = watch_notifies[d]
            /\ watch_wd'[d] = watch_wd[d] /\ kernel_wd'[d] = kernel_wd[d]
        BY <2>1, <3>1, <3>2, <3>3 DEF Released
      <3> QED BY <3>2, <3>4
    <2> QED BY <2>3, <2>5, <2>6, <2>8, <2>9 DEF IdleInv
  <1>6. CASE close_inotify
    <2>1. /\ inotify' = "closed"
          /\ watch_wd' = [d \in Devices |-> NoWd]
          /\ watch_notifies' = [d \in Devices |-> <<>>]
          /\ kernel_wd' = [d \in Devices |-> NoWd] /\ kernel_queue' = {}
          /\ notify_events' = {} /\ remove_events' = {}
          /\ UNCHANGED <<there, away, notifies>>
      BY <1>6 DEF close_inotify
    <2>2. FileMonitorTypeOK'
      BY <1>1, <2>1 DEF FileMonitorTypeOK
    <2>3. IdleTypeOK'
      BY <1>1, <1>2, <2>2 DEF IdleTypeOK
    <2>4. CallbacksAreLive' /\ WaitersLive' /\ AlwaysObserved' /\ WdsApart' /\ WatchesHold'
      BY <1>1, <1>2, <2>1
         DEF CallbacksAreLive, WaitersLive, AlwaysObserved, WdsApart, WatchesHold, Range
    <2> QED BY <2>3, <2>4 DEF IdleInv
  <1> QED BY <1>2, <1>4, <1>5, <1>6

\* Every step keeps the invariant.
LEMMA NextIdle == IdleInv /\ [Next]_vars => IdleInv'
  <1> SUFFICES ASSUME IdleInv, [Next]_vars PROVE IdleInv'
    OBVIOUS
  <1>0. /\ live \subseteq Monitors /\ idle_hint \subseteq Monitors /\ notify_events \subseteq Wds
        /\ Threshold # Off
    BY IdleAssumption DEF IdleInv, IdleTypeOK, FileMonitorTypeOK, Off
  <1>1. ASSUME NEW d \in Devices, Access(d) \/ Hotplugs(d) PROVE IdleInv'
    BY <1>1, AccessIdle, HotplugsIdle
  <1>2. CASE Tick
    BY <1>2, TickIdle
  <1>3. ASSUME NEW m \in Monitors, session_add_activity_watch(m) PROVE IdleInv'
    <2>1. /\ InMainLoop /\ live' = live \cup {m} /\ idle_hint' = idle_hint
          /\ ck_tty_idle_monitor_stop({m}, Threshold, notify_events)
          /\ UNCHANGED <<inotify, age, check>>
      BY <1>3 DEF session_add_activity_watch
    <2> QED BY <1>0, <2>1, Stops
  <1>4. ASSUME NEW m \in Monitors, session_remove_activity_watch(m) PROVE IdleInv'
    <2>1. /\ InMainLoop /\ live' = live \ {m} /\ idle_hint' = idle_hint \ {m}
          /\ ck_tty_idle_monitor_stop({m}, Off, notify_events)
          /\ UNCHANGED <<inotify, age, check>>
      BY <1>4 DEF session_remove_activity_watch
    <2> QED BY <1>0, <2>1, Stops
  <1>5. ASSUME NEW m \in Monitors, check_tty_idle(m) \/ InUse(m) PROVE IdleInv'
    BY <1>5, CheckIdle
  <1>6. ASSUME NEW m \in Monitors, IsIdle(m) PROVE IdleInv'
    BY <1>6, IsIdleIdle
  <1>7. CASE emit_events_in_idle
    <2>1. InMainLoop /\ UNCHANGED <<inotify, live, age, check>>
      BY <1>7 DEF emit_events_in_idle
    <2>2. PICK M \in SUBSET notifies :
            /\ Called(M)
            /\ idle_hint' = idle_hint \ M
            /\ ck_tty_idle_monitor_stop(M, Threshold, {})
      BY <1>7 DEF emit_events_in_idle
    <2>3. M \subseteq Monitors
      BY DEF IdleInv, IdleTypeOK, FileMonitorTypeOK
    <2>4. ASSUME NEW m \in M PROVE m \in live
      <3>1. DeviceOf[m] \in Devices
        BY <2>3, FileMonitorAssumption
      <3>2. PICK k \in 0 .. Len(watch_notifies[DeviceOf[m]]) :
              {watch_notifies[DeviceOf[m]][i] : i \in 1 .. k} = {n \in M : DeviceOf[n] = DeviceOf[m]}
        BY <2>2, <3>1 DEF Called
      <3>3. PICK i \in 1 .. k : watch_notifies[DeviceOf[m]][i] = m
        BY <3>2
      <3>4. watch_notifies[DeviceOf[m]] \in Seq(Monitors)
        BY <3>1 DEF IdleInv, IdleTypeOK, FileMonitorTypeOK
      <3>5. m \in Range(watch_notifies[DeviceOf[m]])
        BY <3>2, <3>3, <3>4 DEF Range
      <3> QED BY <3>1, <3>5 DEF IdleInv, CallbacksAreLive
    <2> QED BY <1>0, <2>1, <2>2, <2>3, <2>4, Stops
  <1>8. CASE FileMonitor
    BY <1>8, FileMonitorIdle
  <1>9. CASE UNCHANGED vars
    <2>1. UNCHANGED <<there, away, kernel_wd, kernel_queue, inotify, watch_wd, watch_notifies,
                      notifies, notify_events, remove_events, live, timer, idle_hint, age, check>>
      BY <1>9 DEF vars, filevars, kernelvars, watchvars, idlevars
    <2> QED BY <2>1 DEF IdleInv, IdleTypeOK, FileMonitorTypeOK, CallbacksAreLive, AlwaysObserved,
               WaitersLive, WdsApart, WatchesHold
  <1> QED BY <1>1, <1>2, <1>3, <1>4, <1>5, <1>6, <1>7, <1>8, <1>9 DEF Next

----------------------------------------------------------------------------
\* The file monitor and the idle monitors keep the type of their state.
THEOREM IdleTypeCorrect == Spec => []IdleTypeOK
  <1>1. IdleInv => IdleTypeOK
    BY DEF IdleInv
  <1> QED BY <1>1, InitIdle, NextIdle, PTL DEF Spec

\* emit_events_in_idle calls back for open sessions only, whatever becomes of terminals,
\* sessions and inotify meanwhile.
THEOREM CallbacksCorrect == Spec => []CallbacksAreLive
  <1>1. IdleInv => CallbacksAreLive
    BY DEF IdleInv
  <1> QED BY <1>1, InitIdle, NextIdle, PTL DEF Spec

\* The monitor of an open session always waits for its timer or for a watch that the kernel
\* has, for any number of sessions, terminals and descriptors.
THEOREM ObservedCorrect == Spec => []AlwaysObserved
  <1>1. IdleInv => AlwaysObserved
    BY DEF IdleInv
  <1> QED BY <1>1, InitIdle, NextIdle, PTL DEF Spec
=============================================================================
