------------------------- MODULE CkHistory_proofs --------------------------
(***************************************************************************)
(* Proofs about the event log and the history that is read from it, for    *)
(* any number of events, sessions, files and waiting handlers.             *)
(*                                                                         *)
(* Every step keeps the log, queues an event, writes the first of those on *)
(* their way, or lets a tool insert one (LogStep). The files are in the    *)
(* order of time (OrderInv), as far as that counts: a tool may overtake    *)
(* the daemon, the daemon never overtakes itself. Two sequences in strict  *)
(* order of time with the same elements are equal (SameIncreasing): that   *)
(* gives LogIsComplete and SinceIsComplete. ReportIsRight rests on what    *)
(* the first line after a login that may have ended it says (FateInv),     *)
(* which no later line can change.                                         *)
(***************************************************************************)
EXTENDS CkHistory, TLAPS, WellFoundedInduction

----------------------------------------------------------------------------
(* Sequences of records with a time.                                       *)

\* The times of s increase strictly.
Increasing(s) == \A i, j \in DOMAIN s : i < j => s[i].time < s[j].time

\* The times of s that are in K do.
Ordered(s, K) ==
  \A i, j \in DOMAIN s :
    i < j /\ s[i].time \in K /\ s[j].time \in K => s[i].time < s[j].time

\* A set of natural numbers has a least element.
LEMMA LeastNatural ==
  ASSUME NEW T, T \subseteq Nat, T # {}
  PROVE  \E x \in T : \A y \in T : x <= y
  <1> DEFINE R == OpToRel(<, Nat)
  <1>1. IsWellFoundedOn(R, Nat)
    BY NatLessThanWellFounded
  <1>2. PICK x \in T : \A y \in T : ~ (<<y, x>> \in R)
    <2> HIDE DEF R
    <2> QED BY <1>1, WFMin
  <1>3. \A y \in T : ~ (y < x)
    BY <1>2 DEF OpToRel
  <1> QED BY <1>3

\* Induction up to N, for a property given as the set of the numbers that have it.
LEMMA UpTo ==
  ASSUME NEW N \in Nat, NEW P, 0 \in P, \A n \in 1 .. N : n - 1 \in P => n \in P
  PROVE  \A n \in 0 .. N : n \in P
  <1> DEFINE Bad == {n \in 0 .. N : n \notin P}
  <1>1. SUFFICES ASSUME Bad # {} PROVE FALSE
    OBVIOUS
  <1>2. PICK n \in Bad : \A k \in Bad : n <= k
    <2>1. Bad \subseteq Nat
      OBVIOUS
    <2> HIDE DEF Bad
    <2> QED BY <1>1, <2>1, LeastNatural
  <1>3. n \in 1 .. N /\ n - 1 \in 0 .. N /\ n - 1 \notin Bad
    BY <1>2
  <1> QED BY <1>2, <1>3

\* f[i] comes from f[i - 1] by the function G[i].
Iterates(f, n, base, G) == f[0] = base /\ \A i \in 1 .. n : f[i] = G[i][f[i - 1]]

\* A function that is defined by recursion over 0 .. N exists.
LEMMA Recursion ==
  ASSUME NEW N \in Nat, NEW D, NEW base \in D, NEW G \in [1 .. N -> [D -> D]]
  PROVE  \E f \in [0 .. N -> D] : Iterates(f, N, base, G)
  <1> USE DEF Iterates
  <1> DEFINE Fits(f, n) == f[0] = base /\ \A i \in 1 .. n : f[i] = G[i][f[i - 1]]
             Made(n) == \E f \in [0 .. n -> D] : Fits(f, n)
             P == {n \in 0 .. N : Made(n)}
  <1>1. 0 \in P
    <2> DEFINE f == [i \in 0 .. 0 |-> base]
    <2>1. f \in [0 .. 0 -> D] /\ f[0] = base
      OBVIOUS
    <2>2. \A i \in 1 .. 0 : FALSE
      OBVIOUS
    <2>3. Made(0)
      BY <2>1, <2>2
    <2> QED BY <2>3
  <1>2. ASSUME NEW n \in 1 .. N, n - 1 \in P
        PROVE  n \in P
    <2>1. PICK f \in [0 .. n - 1 -> D] : Fits(f, n - 1)
      BY <1>2
    <2> DEFINE g == [i \in 0 .. n |-> IF i = n THEN G[n][f[n - 1]] ELSE f[i]]
    <2>2. G[n][f[n - 1]] \in D
      OBVIOUS
    <2>3. g \in [0 .. n -> D]
      BY <2>2
    <2>4. \A i \in 0 .. n - 1 : g[i] = f[i]
      OBVIOUS
    <2>5. g[0] = base
      <3>1. 0 \in 0 .. n - 1
        OBVIOUS
      <3> QED BY <2>1, <2>4, <3>1
    <2>6. ASSUME NEW i \in 1 .. n PROVE g[i] = G[i][g[i - 1]]
      <3>1. g[i - 1] = f[i - 1]
        BY <2>4
      <3>2. CASE i = n
        <4>1. n \in 0 .. n
          OBVIOUS
        <4>2. g[n] = G[n][f[n - 1]]
          BY <4>1
        <4> QED BY <3>1, <3>2, <4>2
      <3>3. CASE i # n
        BY <2>1, <2>4, <3>1, <3>3
      <3> QED BY <3>2, <3>3
    <2>7. Made(n)
      BY <2>3, <2>5, <2>6
    <2> QED BY <2>7
  <1>3. \A n \in 0 .. N : n \in P
    <2> HIDE DEF P
    <2> QED BY <1>1, <1>2, UpTo
  <1>4. Made(N)
    BY <1>3
  <1> QED BY <1>4

\* What is on a list to which e is appended.
LEMMA RangeAppend ==
  ASSUME NEW T, NEW s \in Seq(T), NEW e \in T
  PROVE  Range(Append(s, e)) = Range(s) \cup {e}
  <1>1. /\ Append(s, e) \in Seq(T) /\ Len(Append(s, e)) = Len(s) + 1
        /\ \A i \in 1 .. Len(s) : Append(s, e)[i] = s[i]
        /\ Append(s, e)[Len(s) + 1] = e
    OBVIOUS
  <1>2. \A x \in Range(Append(s, e)) : x \in Range(s) \cup {e}
    BY <1>1 DEF Range
  <1>3. \A x \in Range(s) \cup {e} : x \in Range(Append(s, e))
    BY <1>1 DEF Range
  <1> QED BY <1>2, <1>3

\* What is on two lists put together.
LEMMA RangeConcat ==
  ASSUME NEW T, NEW s \in Seq(T), NEW u \in Seq(T)
  PROVE  Range(s \o u) = Range(s) \cup Range(u)
  <1>1. /\ s \o u \in Seq(T) /\ Len(s \o u) = Len(s) + Len(u)
        /\ \A i \in 1 .. Len(s) : (s \o u)[i] = s[i]
        /\ \A i \in 1 .. Len(u) : (s \o u)[Len(s) + i] = u[i]
    OBVIOUS
  <1>2. ASSUME NEW x \in Range(s \o u) PROVE x \in Range(s) \cup Range(u)
    <2>1. PICK i \in 1 .. Len(s) + Len(u) : x = (s \o u)[i]
      BY <1>1 DEF Range
    <2>2. CASE i \in 1 .. Len(s)
      BY <1>1, <2>1, <2>2 DEF Range
    <2>3. CASE i \notin 1 .. Len(s)
      <3>1. i - Len(s) \in 1 .. Len(u) /\ i = Len(s) + (i - Len(s))
        BY <2>3
      <3>2. x = u[i - Len(s)]
        BY <1>1, <2>1, <3>1
      <3> QED BY <3>1, <3>2 DEF Range
    <2> QED BY <2>2, <2>3
  <1>3. ASSUME NEW x \in Range(s) PROVE x \in Range(s \o u)
    BY <1>1, <1>3 DEF Range
  <1>4. ASSUME NEW x \in Range(u) PROVE x \in Range(s \o u)
    <2>1. PICK i \in 1 .. Len(u) : x = u[i]
      BY DEF Range
    <2>2. Len(s) + i \in DOMAIN (s \o u) /\ (s \o u)[Len(s) + i] = x
      BY <1>1, <2>1
    <2> QED BY <2>2 DEF Range
  <1> QED BY <1>2, <1>3, <1>4

\* Two ordered lists put together are ordered when the first ends before the second begins.
LEMMA OrderedConcat ==
  ASSUME NEW T, NEW s \in Seq(T), NEW u \in Seq(T), NEW K, Ordered(s, K), Ordered(u, K),
         \A x \in Range(s), y \in Range(u) : x.time \in K /\ y.time \in K => x.time < y.time
  PROVE  Ordered(s \o u, K)
  <1> DEFINE c == s \o u
  <1>1. /\ c \in Seq(T) /\ Len(c) = Len(s) + Len(u) /\ DOMAIN c = 1 .. Len(c)
        /\ DOMAIN s = 1 .. Len(s) /\ DOMAIN u = 1 .. Len(u) /\ Len(s) \in Nat /\ Len(u) \in Nat
        /\ \A i \in 1 .. Len(s) : c[i] = s[i]
        /\ \A i \in Len(s) + 1 .. Len(c) : i - Len(s) \in 1 .. Len(u) /\ c[i] = u[i - Len(s)]
    OBVIOUS
  <1> HIDE DEF c
  <1>2. SUFFICES ASSUME NEW i \in DOMAIN c, NEW j \in DOMAIN c, i < j,
                        c[i].time \in K, c[j].time \in K
                 PROVE  c[i].time < c[j].time
    BY DEF Ordered, c
  <1>3. CASE j <= Len(s)
    BY <1>1, <1>2, <1>3 DEF Ordered
  <1>4. CASE i <= Len(s) /\ j > Len(s)
    <2>1. i \in 1 .. Len(s) /\ j \in Len(s) + 1 .. Len(c)
      BY <1>1, <1>4
    <2>2. i \in DOMAIN s /\ c[i] = s[i] /\ j - Len(s) \in DOMAIN u /\ c[j] = u[j - Len(s)]
      BY <1>1, <2>1
    <2>3. c[i] \in Range(s) /\ c[j] \in Range(u)
      BY <2>2 DEF Range
    <2> QED BY <2>3, <1>2
  <1>5. CASE i > Len(s)
    <2>1. /\ i - Len(s) \in DOMAIN u /\ j - Len(s) \in DOMAIN u /\ i - Len(s) < j - Len(s)
          /\ c[i] = u[i - Len(s)] /\ c[j] = u[j - Len(s)]
      BY <1>1, <1>2, <1>5
    <2> QED BY <2>1, <1>2 DEF Ordered
  <1> QED BY <1>1, <1>3, <1>4, <1>5

\* Appending to an ordered list an element that comes after all others.
LEMMA IncreasingAppend ==
  ASSUME NEW T, NEW s \in Seq(T), NEW e \in T, Increasing(s),
         \A x \in Range(s) : x.time < e.time
  PROVE  Increasing(Append(s, e))
  <1> DEFINE c == Append(s, e)
  <1>1. /\ DOMAIN c = 1 .. Len(s) + 1 /\ DOMAIN s = 1 .. Len(s) /\ Len(s) \in Nat
        /\ \A i \in 1 .. Len(s) : c[i] = s[i]
        /\ c[Len(s) + 1] = e
    OBVIOUS
  <1> HIDE DEF c
  <1>2. SUFFICES ASSUME NEW i \in DOMAIN c, NEW j \in DOMAIN c, i < j
                 PROVE  c[i].time < c[j].time
    BY DEF Increasing, c
  <1>3. i \in DOMAIN s /\ c[i] = s[i] /\ c[i] \in Range(s)
    BY <1>1, <1>2 DEF Range
  <1>4. CASE j = Len(s) + 1
    BY <1>1, <1>3, <1>4
  <1>5. CASE j # Len(s) + 1
    BY <1>1, <1>2, <1>3, <1>5 DEF Increasing
  <1> QED BY <1>4, <1>5

\* Among(s, S) has the elements of s that are in S. Its times increase when those of s
\* that it keeps do.
LEMMA AmongIs ==
  ASSUME NEW T, NEW s \in Seq(T), NEW S, NEW K, Ordered(s, K)
  PROVE  /\ Among(s, S) \in Seq(T)
         /\ Range(Among(s, S)) = Range(s) \cap S
         /\ (\A i \in DOMAIN s : s[i] \in S => s[i].time \in K) => Increasing(Among(s, S))
  <1> DEFINE InK == \A i \in DOMAIN s : s[i] \in S => s[i].time \in K
             Def(f, i) == IF i = 0 THEN <<>>
                          ELSE IF s[i] \in S THEN Append(f[i - 1], s[i]) ELSE f[i - 1]
             G == [i \in 1 .. Len(s) |->
                     [x \in Seq(T) |-> IF s[i] \in S THEN Append(x, s[i]) ELSE x]]
  <1>1. G \in [1 .. Len(s) -> [Seq(T) -> Seq(T)]]
    <2>1. \A i \in 1 .. Len(s) : s[i] \in T
      OBVIOUS
    <2>2. \A x \in Seq(T), e \in T : Append(x, e) \in Seq(T)
      OBVIOUS
    <2> QED BY <2>1, <2>2
  <1>2. PICK f \in [0 .. Len(s) -> Seq(T)] : Iterates(f, Len(s), <<>>, G)
    <2>1. <<>> \in Seq(T) /\ Len(s) \in Nat
      OBVIOUS
    <2> HIDE DEF G
    <2> QED BY <1>1, <2>1, Recursion
  <1>3. \A i \in 0 .. Len(s) : f[i] = Def(f, i)
    <2> SUFFICES ASSUME NEW i \in 0 .. Len(s) PROVE f[i] = Def(f, i)
      OBVIOUS
    <2>1. CASE i = 0
      BY <1>2, <2>1 DEF Iterates
    <2>2. CASE i # 0
      <3>1. i \in 1 .. Len(s) /\ f[i - 1] \in Seq(T)
        BY <2>2
      <3>2. G[i][f[i - 1]] = IF s[i] \in S THEN Append(f[i - 1], s[i]) ELSE f[i - 1]
        BY <3>1
      <3>3. f[i] = G[i][f[i - 1]]
        <4> HIDE DEF G
        <4> QED BY <1>2, <3>1 DEF Iterates
      <3> QED BY <2>2, <3>2, <3>3
    <2> QED BY <2>1, <2>2
  <1> DEFINE kept == CHOOSE h : h = [i \in 0 .. Len(s) |-> Def(h, i)]
  <1>4. kept = [i \in 0 .. Len(s) |-> Def(kept, i)]
    <2>1. f = [i \in 0 .. Len(s) |-> Def(f, i)]
      BY <1>3
    <2> QED BY <2>1
  <1>5. Among(s, S) = kept[Len(s)]
    BY DEF Among
  <1> HIDE DEF kept
  <1> DEFINE Good(n) == /\ kept[n] \in Seq(T)
                        /\ Range(kept[n]) = {s[j] : j \in 1 .. n} \cap S
                        /\ InK => Increasing(kept[n])
             P == {n \in 0 .. Len(s) : Good(n)}
  <1>6. 0 \in P
    <2>1. kept[0] = <<>>
      BY <1>4
    <2>2. Good(0)
      BY <2>1 DEF Range, Increasing
    <2> QED BY <2>2
  <1>7. ASSUME NEW n \in 1 .. Len(s), n - 1 \in P
        PROVE  n \in P
    <2>1. kept[n] = IF s[n] \in S THEN Append(kept[n - 1], s[n]) ELSE kept[n - 1]
      <3>1. n \in 0 .. Len(s) /\ n # 0
        OBVIOUS
      <3>2. kept[n] = Def(kept, n)
        <4> HIDE DEF Def
        <4> QED BY <3>1, <1>4
      <3> QED BY <3>1, <3>2
    <2>2. s[n] \in T /\ kept[n - 1] \in Seq(T) /\ Good(n - 1)
      BY <1>7
    <2>3. {s[j] : j \in 1 .. n} = {s[j] : j \in 1 .. n - 1} \cup {s[n]}
      OBVIOUS
    <2>4. CASE s[n] \notin S
      BY <2>1, <2>2, <2>3, <2>4
    <2>5. CASE s[n] \in S
      <3>1. Range(Append(kept[n - 1], s[n])) = Range(kept[n - 1]) \cup {s[n]}
        BY <2>2, RangeAppend
      <3>2. InK => \A x \in Range(kept[n - 1]) : x.time < s[n].time
        <4> SUFFICES ASSUME InK, NEW x \in Range(kept[n - 1]) PROVE x.time < s[n].time
          OBVIOUS
        <4>1. PICK j \in 1 .. n - 1 : x = s[j] /\ s[j] \in S
          BY <2>2
        <4>2. j \in DOMAIN s /\ n \in DOMAIN s /\ j < n
          OBVIOUS
        <4> QED BY <2>5, <4>1, <4>2 DEF Ordered
      <3>3. InK => Increasing(Append(kept[n - 1], s[n]))
        <4> HIDE DEF InK
        <4> QED BY <2>2, <3>2, IncreasingAppend
      <3>4. Append(kept[n - 1], s[n]) \in Seq(T)
        BY <2>2
      <3>5. kept[n] = Append(kept[n - 1], s[n])
        BY <2>1, <2>5
      <3>6. Range(kept[n]) = {s[j] : j \in 1 .. n} \cap S
        BY <2>2, <2>3, <2>5, <3>1, <3>5
      <3>7. Good(n)
        BY <3>3, <3>4, <3>5, <3>6
      <3> QED BY <3>7
    <2> QED BY <2>4, <2>5
  <1>8. \A n \in 0 .. Len(s) : n \in P
    <2>1. Len(s) \in Nat
      OBVIOUS
    <2> HIDE DEF P
    <2> QED BY <1>6, <1>7, <2>1, UpTo
  <1>9. Good(Len(s))
    <2>1. Len(s) \in 0 .. Len(s)
      OBVIOUS
    <2> HIDE DEF Good
    <2> QED BY <1>8, <2>1
  <1>10. {s[j] : j \in 1 .. Len(s)} = Range(s)
    BY DEF Range
  <1> QED BY <1>5, <1>9, <1>10

\* Two lists with the same elements, both in the order of time, are the same list.
LEMMA SameIncreasing ==
  ASSUME NEW T, NEW s \in Seq(T), NEW u \in Seq(T), \A x \in T : x.time \in Nat,
         Increasing(s), Increasing(u), Range(s) = Range(u)
  PROVE  s = u
  <1> DEFINE Bad == {n \in Nat \ {0} : \/ n \in DOMAIN s /\ n \notin DOMAIN u
                                       \/ n \in DOMAIN u /\ n \notin DOMAIN s
                                       \/ n \in DOMAIN s /\ n \in DOMAIN u /\ s[n] # u[n]}
  <1>0. /\ DOMAIN s = 1 .. Len(s) /\ DOMAIN u = 1 .. Len(u) /\ Len(s) \in Nat /\ Len(u) \in Nat
        /\ \A i \in DOMAIN s : s[i] \in T /\ s[i].time \in Nat
        /\ \A i \in DOMAIN u : u[i] \in T /\ u[i].time \in Nat
    OBVIOUS
  <1>1. CASE Bad = {}
    <2>0. \A n \in DOMAIN s \cup DOMAIN u : n \in Nat \ {0} /\ n \notin Bad
      BY <1>0, <1>1
    <2>1. DOMAIN s = DOMAIN u
      BY <2>0
    <2>2. \A i \in DOMAIN s : s[i] = u[i]
      BY <1>0, <1>1, <2>1
    <2> QED BY <2>1, <2>2
  <1>2. CASE Bad # {}
    <2>1. PICK n \in Bad : \A k \in Bad : n <= k
      <3>1. Bad \subseteq Nat
        OBVIOUS
      <3> HIDE DEF Bad
      <3> QED BY <1>2, <3>1, LeastNatural
    <2>2. \A m \in 1 .. n - 1 : m \in DOMAIN s /\ m \in DOMAIN u /\ s[m] = u[m]
      <3> SUFFICES ASSUME NEW m \in 1 .. n - 1
                   PROVE  m \in DOMAIN s /\ m \in DOMAIN u /\ s[m] = u[m]
        OBVIOUS
      <3>1. m \notin Bad
        BY <2>1
      <3>2. m \in DOMAIN s \/ m \in DOMAIN u
        BY <1>0, <2>1
      <3> QED BY <3>1, <3>2
    <2>3. ASSUME n \in DOMAIN s
          PROVE  \E m \in DOMAIN u : s[n] = u[m] /\ m >= n
      <3>1. PICK m \in DOMAIN u : s[n] = u[m]
        BY <2>3 DEF Range
      <3>2. ~ m < n
        BY <1>0, <2>1, <2>2, <2>3, <3>1 DEF Increasing
      <3> QED BY <1>0, <2>1, <3>1, <3>2
    <2>4. ASSUME n \in DOMAIN u
          PROVE  \E m \in DOMAIN s : u[n] = s[m] /\ m >= n
      <3>1. PICK m \in DOMAIN s : u[n] = s[m]
        BY <2>4 DEF Range
      <3>2. ~ m < n
        BY <1>0, <2>1, <2>2, <2>4, <3>1 DEF Increasing
      <3> QED BY <1>0, <2>1, <3>1, <3>2
    <2>5. n \in DOMAIN s /\ n \in DOMAIN u /\ s[n] # u[n]
      BY <1>0, <2>1, <2>3, <2>4
    <2>6. PICK m \in DOMAIN u : s[n] = u[m] /\ m >= n
      BY <2>3, <2>5
    <2>7. PICK k \in DOMAIN s : u[n] = s[k] /\ k >= n
      BY <2>4, <2>5
    <2>8. m > n /\ k > n
      BY <1>0, <2>1, <2>5, <2>6, <2>7
    <2>9. u[n].time < u[m].time /\ s[n].time < s[k].time
      BY <2>5, <2>8 DEF Increasing
    <2> QED BY <1>0, <2>5, <2>6, <2>7, <2>9
  <1> QED BY <1>1, <1>2

\* FlattenSeq(ss) has the elements of the lists of ss. Its times are ordered when those of
\* each list are, and each list ends before the next begins.
LEMMA FlattenIs ==
  ASSUME NEW T, NEW ss \in Seq(Seq(T)), NEW K, \A k \in DOMAIN ss : Ordered(ss[k], K),
         \A j, k \in DOMAIN ss : j < k =>
           \A x \in Range(ss[j]), y \in Range(ss[k]) :
             x.time \in K /\ y.time \in K => x.time < y.time
  PROVE  /\ FlattenSeq(ss) \in Seq(T)
         /\ \A x : x \in Range(FlattenSeq(ss)) <=> \E k \in DOMAIN ss : x \in Range(ss[k])
         /\ Ordered(FlattenSeq(ss), K)
  <1> DEFINE N == Len(ss)
  <1>0. N \in Nat /\ DOMAIN ss = 1 .. N /\ \A k \in 1 .. N : ss[k] \in Seq(T)
    OBVIOUS
  <1>1. CASE N = 0
    <2>1. ss = <<>> /\ FlattenSeq(ss) = <<>>
      BY <1>1 DEF FlattenSeq
    <2>2. Range(<<>>) = {} /\ Ordered(<<>>, K) /\ <<>> \in Seq(T)
      BY DEF Range, Ordered
    <2>3. DOMAIN ss = {}
      BY <2>1
    <2> QED BY <2>1, <2>2, <2>3
  <1>2. CASE N # 0
    <2>0. N - 1 \in Nat /\ 1 \in 1 .. N /\ ss[1] \in Seq(T)
      BY <1>0, <1>2
    <2> DEFINE Def(f, i) == IF i = 1 THEN ss[i] ELSE f[i - 1] \o ss[i]
               G == [i \in 1 .. N - 1 |-> [x \in Seq(T) |-> x \o ss[i + 1]]]
    <2>1. G \in [1 .. N - 1 -> [Seq(T) -> Seq(T)]]
      <3>1. \A i \in 1 .. N - 1 : ss[i + 1] \in Seq(T)
        BY <1>0, <2>0
      <3>2. \A x, y \in Seq(T) : x \o y \in Seq(T)
        OBVIOUS
      <3> QED BY <3>1, <3>2
    <2>2. PICK h \in [0 .. N - 1 -> Seq(T)] : Iterates(h, N - 1, ss[1], G)
      <3> HIDE DEF G, N
      <3> QED BY <2>0, <2>1, Recursion
    <2> DEFINE f == [i \in 1 .. N |-> h[i - 1]]
    <2>3. \A i \in 1 .. N : f[i] = Def(f, i)
      <3> SUFFICES ASSUME NEW i \in 1 .. N PROVE f[i] = Def(f, i)
        OBVIOUS
      <3>1. CASE i = 1
        BY <2>2, <3>1 DEF Iterates
      <3>2. CASE i # 1
        <4>1. i - 1 \in 1 .. N - 1 /\ i - 1 \in 1 .. N /\ (i - 1) + 1 = i /\ (i - 1) - 1 \in 0 .. N - 1
          BY <1>0, <3>2
        <4>2. h[i - 1] = G[i - 1][h[(i - 1) - 1]]
          <5> HIDE DEF G
          <5> QED BY <2>2, <4>1 DEF Iterates
        <4>3. h[(i - 1) - 1] \in Seq(T)
          BY <4>1
        <4>4. G[i - 1][h[(i - 1) - 1]] = h[(i - 1) - 1] \o ss[(i - 1) + 1]
          BY <4>1, <4>3
        <4>5. f[i] = h[i - 1] /\ f[i - 1] = h[(i - 1) - 1]
          BY <4>1
        <4> QED BY <3>2, <4>1, <4>2, <4>4, <4>5
      <3> QED BY <3>1, <3>2
    <2> DEFINE flat == CHOOSE g : g = [i \in 1 .. N |-> Def(g, i)]
    <2>4. flat = [i \in 1 .. N |-> Def(flat, i)]
      <3>1. f = [i \in 1 .. N |-> Def(f, i)]
        BY <2>3
      <3> HIDE DEF f, N
      <3> QED BY <3>1
    <2>5. FlattenSeq(ss) = flat[N]
      BY <1>2 DEF FlattenSeq
    <2> HIDE DEF flat
    <2>6. flat[1] = ss[1]
      BY <2>0, <2>4
    <2>7. \A i \in 1 .. N : i # 1 => flat[i] = flat[i - 1] \o ss[i]
      BY <2>4
    <2> HIDE DEF Def, G, f
    <2> DEFINE Good(n) == /\ flat[n] \in Seq(T)
                          /\ \A x : x \in Range(flat[n]) <=> \E k \in 1 .. n : x \in Range(ss[k])
                          /\ Ordered(flat[n], K)
               P == {n \in 0 .. N - 1 : Good(n + 1)}
    <2>8. 0 \in P
      <3>1. 1 .. 1 = {1}
        OBVIOUS
      <3>2. Good(1)
        BY <1>0, <2>0, <2>6, <3>1
      <3>3. 0 \in 0 .. N - 1 /\ 0 + 1 = 1
        BY <2>0
      <3>4. Good(0 + 1)
        <4> HIDE DEF Good
        <4> QED BY <3>2, <3>3
      <3> HIDE DEF Good
      <3> QED BY <3>3, <3>4
    <2>9. ASSUME NEW n \in 1 .. N - 1, n - 1 \in P
          PROVE  n \in P
      <3>1. n \in 1 .. N /\ n + 1 \in 1 .. N /\ (n - 1) + 1 = n /\ (n + 1) - 1 = n /\ n + 1 # 1
        BY <1>0
      <3>2. Good(n)
        <4>1. Good((n - 1) + 1)
          BY <2>9
        <4> HIDE DEF Good
        <4> QED BY <3>1, <4>1
      <3>3. flat[n + 1] = flat[n] \o ss[n + 1]
        BY <2>7, <3>1
      <3>4. ss[n + 1] \in Seq(T) /\ flat[n] \in Seq(T)
        BY <1>0, <3>1, <3>2
      <3>5. Range(flat[n + 1]) = Range(flat[n]) \cup Range(ss[n + 1])
        BY <3>3, <3>4, RangeConcat
      <3>6. 1 .. n + 1 = (1 .. n) \cup {n + 1}
        BY <1>0
      <3>8. ASSUME NEW x \in Range(flat[n]), NEW y \in Range(ss[n + 1]),
                   x.time \in K, y.time \in K
            PROVE  x.time < y.time
        <4>1. PICK k \in 1 .. n : x \in Range(ss[k])
          BY <3>2
        <4>2. k \in DOMAIN ss /\ n + 1 \in DOMAIN ss /\ k < n + 1
          BY <1>0, <3>1
        <4> QED BY <3>8, <4>1, <4>2
      <3>9. Ordered(flat[n] \o ss[n + 1], K)
        <4>1. Ordered(ss[n + 1], K) /\ Ordered(flat[n], K)
          BY <1>0, <3>1, <3>2
        <4> QED BY <3>4, <3>8, <4>1, OrderedConcat
      <3>10. flat[n + 1] \in Seq(T)
        BY <3>3, <3>4
      <3>11. Good(n + 1)
        <4>2. \A x : x \in Range(flat[n + 1]) <=> \E k \in 1 .. n + 1 : x \in Range(ss[k])
          BY <3>2, <3>5, <3>6
        <4>3. Ordered(flat[n + 1], K)
          BY <3>3, <3>9
        <4> QED BY <4>2, <4>3, <3>10
      <3>12. n \in 0 .. N - 1
        BY <1>0
      <3> HIDE DEF Good
      <3> QED BY <3>11, <3>12
    <2>10. \A n \in 0 .. N - 1 : n \in P
      <3> HIDE DEF P, N
      <3> QED BY <2>0, <2>8, <2>9, UpTo
    <2>11. Good(N)
      <3>1. N - 1 \in 0 .. N - 1 /\ (N - 1) + 1 = N
        BY <2>0
      <3>2. Good((N - 1) + 1)
        <4> HIDE DEF Good, N
        <4> QED BY <2>10, <3>1
      <3> HIDE DEF Good
      <3> QED BY <3>1, <3>2
    <2> QED BY <1>0, <2>5, <2>11
  <1> QED BY <1>1, <1>2

----------------------------------------------------------------------------
(* The logger keeps its files in order, and its types.                     *)

\* Files are numbered as they are made: the ones that logrotate has renamed are the oldest,
\* in their order, the one with the log's name is the newest, and the others are still empty.
FilesInv ==
  /\ path \in {NoFile, made}
  /\ Len(rotated) = IF path = NoFile THEN made ELSE made - 1
  /\ \A k \in DOMAIN rotated : rotated[k] = Len(rotated) + 1 - k
  /\ \A f \in Inodes : f > made => text[f] = <<>>

\* The writer thread holds an event from Pop to write_log_for_event. Without a daemon there
\* is no thread and nothing on its way; a daemon without a thread loses events.
WriterInv ==
  /\ Len(taken) = IF thread \in {"check", "write"} THEN 1 ELSE 0
  /\ running /\ thread = "none" => lost
  /\ ~ running => thread = "none" /\ queue = <<>>
  /\ file \in Inodes => file <= made

\* All of the logger.
LoggerInv == LoggerTypeOK /\ FilesInv /\ WriterInv

\* The logger's part of the invariant, initially and for each of its operations.
LEMMA LoggerStart == LoggerInit => LoggerInv
  <1> USE LoggerAssumption DEF LoggerAssumption
  <1> SUFFICES ASSUME LoggerInit PROVE LoggerInv
    OBVIOUS
  <1>1. LoggerTypeOK
    <2>1. running \in BOOLEAN /\ lost \in BOOLEAN /\ thread \in {"none", "pop", "check", "write"}
      BY DEF LoggerInit
    <2>2. /\ queue \in Seq(EventsOf(Times, Ids)) /\ taken \in Seq(EventsOf(Times, Ids))
          /\ rotated \in Seq(Inodes) /\ expected \in Seq(LinesOf(Times, Ids))
      BY DEF LoggerInit
    <2>3. text \in [Inodes -> Seq(LinesOf(Times, Ids))]
      BY DEF LoggerInit
    <2>4. made \in 0 .. MaxFiles /\ file \in Inodes \cup {NoFile, Freed} /\ path \in Inodes \cup {NoFile}
      BY DEF LoggerInit
    <2> QED BY <2>1, <2>2, <2>3, <2>4 DEF LoggerTypeOK
  <1>2. FilesInv
    BY DEF LoggerInit, FilesInv, NoFile
  <1>3. WriterInv
    BY DEF LoggerInit, WriterInv, Inodes, NoFile
  <1> QED BY <1>1, <1>2, <1>3 DEF LoggerInv

LEMMA LoggerFrame ==
  ASSUME LoggerInv, UNCHANGED logvars
  PROVE  LoggerInv'
  BY DEF LoggerInv, LoggerTypeOK, FilesInv, WriterInv, logvars, threadvars, filevars

\* The file that open_log_file opens is the newest.
LEMMA OpenFile ==
  ASSUME LoggerInv, NEW i \in Inodes, open_log_file(i)
  PROVE  /\ path' = i /\ made' = i /\ made <= made' /\ made' \in 0 .. MaxFiles
         /\ path' \in Inodes /\ Len(rotated) = made' - 1
         /\ \A f \in Inodes : f > made' => text[f] = <<>>
  <1>1. /\ made \in 0 .. MaxFiles /\ path \in {NoFile, made}
        /\ Len(rotated) = IF path = NoFile THEN made ELSE made - 1
    BY DEF LoggerInv, LoggerTypeOK, FilesInv
  <1>2. path' = i /\ made' = i /\ made <= made' /\ made' \in 0 .. MaxFiles
        /\ Len(rotated) = made' - 1
    BY <1>1, LoggerAssumption DEF LoggerAssumption, open_log_file, NoFile, Inodes
  <1>3. \A f \in Inodes : f > made' => f > made
    BY <1>1, <1>2, LoggerAssumption DEF LoggerAssumption, Inodes
  <1>4. \A f \in Inodes : f > made => text[f] = <<>>
    BY DEF LoggerInv, FilesInv
  <1> QED BY <1>2, <1>3, <1>4

LEMMA LoggerNew ==
  ASSUME LoggerInv, ck_event_logger_new
  PROVE  LoggerInv'
  <1> USE LoggerAssumption DEF LoggerAssumption, ck_event_logger_new
  <1>1. CASE \E i \in Inodes : open_log_file(i) /\ file' = i /\ thread' \in {"pop", "none"}
    <2>1. PICK i \in Inodes : open_log_file(i) /\ file' = i /\ thread' \in {"pop", "none"}
      BY <1>1
    <2>2. /\ path' = i /\ made' = i /\ made' \in 0 .. MaxFiles
          /\ path' \in Inodes /\ Len(rotated) = made' - 1
          /\ \A f \in Inodes : f > made' => text[f] = <<>>
      BY <2>1, OpenFile
    <2>3. LoggerTypeOK'
      BY <2>1, <2>2 DEF LoggerInv, LoggerTypeOK
    <2>4. FilesInv'
      BY <2>1, <2>2 DEF LoggerInv, FilesInv, NoFile, Inodes
    <2>5. WriterInv'
      <3>1. Len(taken') = 0 /\ thread' \notin {"check", "write"} /\ running' = TRUE
        BY <2>1
      <3>2. thread' = "none" => lost'
        OBVIOUS
      <3>3. file' <= made'
        BY <2>1, <2>2 DEF Inodes
      <3> QED BY <3>1, <3>2, <3>3 DEF WriterInv
    <2> QED BY <2>3, <2>4, <2>5 DEF LoggerInv
  <1>2. CASE thread' = "none" /\ file' = NoFile /\ UNCHANGED <<path, made>>
    <2>3. LoggerTypeOK'
      BY <1>2 DEF LoggerInv, LoggerTypeOK
    <2>4. FilesInv'
      BY <1>2 DEF LoggerInv, FilesInv
    <2>5. WriterInv'
      <3>1. Len(taken') = 0 /\ running' = TRUE /\ file' \notin Inodes
        BY <1>2 DEF Inodes, NoFile
      <3>2. lost'
        BY <1>2
      <3> QED BY <1>2, <3>1, <3>2 DEF WriterInv
    <2> QED BY <2>3, <2>4, <2>5 DEF LoggerInv
  <1> QED BY <1>1, <1>2

LEMMA LoggerQueue ==
  ASSUME LoggerInv, NEW e \in EventsOf(Times, Ids), ck_log_event_copy(e) = e,
         Line(e) \in LinesOf(Times, Ids), ck_event_logger_queue_event(e)
  PROVE  LoggerInv'
  <1>1. LoggerTypeOK'
    BY DEF LoggerInv, LoggerTypeOK, ck_event_logger_queue_event, threadvars, filevars
  <1>2. FilesInv'
    BY DEF LoggerInv, FilesInv, ck_event_logger_queue_event, threadvars, filevars
  <1>3. WriterInv'
    BY DEF LoggerInv, WriterInv, ck_event_logger_queue_event, threadvars, filevars
  <1> QED BY <1>1, <1>2, <1>3 DEF LoggerInv

LEMMA LoggerKilled ==
  ASSUME LoggerInv, Killed
  PROVE  LoggerInv'
  <1>0. Len(Pending) \in Nat
    BY DEF LoggerInv, LoggerTypeOK, Pending
  <1>1. Settled \in Seq(LinesOf(Times, Ids))
    <2>1. \A s \in Seq(LinesOf(Times, Ids)), n \in Nat : SubSeq(s, 1, Len(s) - n) \in Seq(LinesOf(Times, Ids))
      OBVIOUS
    <2> QED BY <1>0, <2>1 DEF LoggerInv, LoggerTypeOK, Settled
  <1>2. LoggerTypeOK'
    <2>1. lost' \in BOOLEAN /\ running' \in BOOLEAN
      BY DEF Killed
    <2>2. queue' \in Seq(EventsOf(Times, Ids)) /\ taken' \in Seq(EventsOf(Times, Ids))
      BY DEF Killed
    <2> QED BY <1>1, <2>1, <2>2 DEF LoggerInv, LoggerTypeOK, Killed, filevars
  <1>3. FilesInv'
    BY DEF LoggerInv, FilesInv, Killed, filevars
  <1>4. WriterInv'
    BY LoggerAssumption DEF LoggerAssumption, LoggerInv, WriterInv, Killed, Inodes, NoFile
  <1> QED BY <1>2, <1>3, <1>4 DEF LoggerInv

LEMMA LoggerPop ==
  ASSUME LoggerInv, Pop
  PROVE  LoggerInv'
  <1>0. /\ <<Head(queue)>> \in Seq(EventsOf(Times, Ids)) /\ Len(<<Head(queue)>>) = 1
        /\ Tail(queue) \in Seq(EventsOf(Times, Ids))
    BY DEF LoggerInv, LoggerTypeOK, Pop
  <1>1. LoggerTypeOK'
    BY <1>0 DEF LoggerInv, LoggerTypeOK, Pop, filevars
  <1>2. FilesInv'
    BY DEF LoggerInv, FilesInv, Pop, filevars
  <1>3. WriterInv'
    BY <1>0 DEF LoggerInv, WriterInv, Pop, filevars
  <1> QED BY <1>1, <1>2, <1>3 DEF LoggerInv

LEMMA LoggerCheck ==
  ASSUME LoggerInv, check_file_stream
  PROVE  LoggerInv'
  <1> USE LoggerAssumption DEF LoggerAssumption
  <1>1. CASE file = Freed /\ Killed
    BY <1>1, LoggerKilled
  <1> DEFINE Rest == UNCHANGED <<running, queue, taken, rotated, text, expected, lost>>
  <1>2. CASE thread' = "write" /\ file = path /\ UNCHANGED <<file, path, made>> /\ Rest
    <2>1. LoggerTypeOK'
      BY <1>2 DEF LoggerInv, LoggerTypeOK
    <2>2. FilesInv'
      BY <1>2 DEF LoggerInv, FilesInv
    <2>3. WriterInv'
      BY <1>2 DEF LoggerInv, WriterInv, check_file_stream
    <2> QED BY <2>1, <2>2, <2>3 DEF LoggerInv
  <1>3. ASSUME NEW i \in Inodes, open_log_file(i), file' = i, thread' = "write", Rest
        PROVE  LoggerInv'
    <2>1. /\ path' = i /\ made' = i /\ made' \in 0 .. MaxFiles
          /\ path' \in Inodes /\ Len(rotated) = made' - 1
          /\ \A f \in Inodes : f > made' => text[f] = <<>>
      BY <1>3, OpenFile
    <2>2. LoggerTypeOK'
      BY <1>3, <2>1 DEF LoggerInv, LoggerTypeOK
    <2>3. FilesInv'
      BY <1>3, <2>1 DEF LoggerInv, FilesInv, NoFile, Inodes
    <2>4. WriterInv'
      BY <1>3, <2>1 DEF LoggerInv, WriterInv, Inodes, check_file_stream
    <2> QED BY <2>2, <2>3, <2>4 DEF LoggerInv
  <1>4. CASE thread' = "write" /\ file' = Freed /\ UNCHANGED <<path, made>> /\ Rest
    <2>1. LoggerTypeOK'
      BY <1>4 DEF LoggerInv, LoggerTypeOK
    <2>2. FilesInv'
      BY <1>4 DEF LoggerInv, FilesInv
    <2>3. WriterInv'
      BY <1>4 DEF LoggerInv, WriterInv, check_file_stream, Freed, Inodes
    <2> QED BY <2>1, <2>2, <2>3 DEF LoggerInv
  <1> QED BY <1>1, <1>2, <1>3, <1>4 DEF check_file_stream

LEMMA LoggerWrite ==
  ASSUME LoggerInv, \A e \in EventsOf(Times, Ids) : Line(e) \in LinesOf(Times, Ids),
         write_log_for_event
  PROVE  LoggerInv'
  <1>1. CASE file = Freed /\ Killed
    BY <1>1, LoggerKilled
  <1> DEFINE Rest == UNCHANGED <<running, queue, file, path, rotated, made, expected>>
  <1>2. CASE /\ thread = "write" /\ thread' = "pop" /\ taken' = <<>> /\ file \in Inodes
             /\ text' = [text EXCEPT ![file] = Append(@, Line(Head(taken)))]
             /\ UNCHANGED lost /\ Rest
    <2>1. Head(taken) \in EventsOf(Times, Ids)
      <3>1. taken \in Seq(EventsOf(Times, Ids)) /\ Len(taken) = 1
        BY <1>2 DEF LoggerInv, LoggerTypeOK, WriterInv
      <3> QED BY <3>1
    <2>2. text' \in [Inodes -> Seq(LinesOf(Times, Ids))]
      BY <1>2, <2>1 DEF LoggerInv, LoggerTypeOK
    <2>3. LoggerTypeOK'
      BY <1>2, <2>2 DEF LoggerInv, LoggerTypeOK
    <2>4. file <= made /\ made \in 0 .. MaxFiles
      BY <1>2 DEF LoggerInv, WriterInv, LoggerTypeOK
    <2>5. FilesInv'
      <3>1. \A f \in Inodes : f > made => text'[f] = <<>>
        <4>1. \A f \in Inodes : f > made => text[f] = <<>> /\ f # file
          <5>1. \A f \in Inodes : f > made => f # file
            BY <2>4 DEF Inodes
          <5> QED BY <5>1 DEF LoggerInv, FilesInv
        <4> QED BY <1>2, <4>1 DEF LoggerInv, LoggerTypeOK
      <3> QED BY <1>2, <3>1 DEF LoggerInv, FilesInv
    <2>6. WriterInv'
      BY <1>2 DEF LoggerInv, WriterInv
    <2> QED BY <2>3, <2>5, <2>6 DEF LoggerInv
  <1>3. CASE /\ thread = "write" /\ thread' = "pop" /\ taken' = <<>>
             /\ lost' = TRUE /\ file = Freed /\ UNCHANGED text /\ Rest
    <2>1. LoggerTypeOK'
      BY <1>3 DEF LoggerInv, LoggerTypeOK
    <2>2. FilesInv'
      BY <1>3 DEF LoggerInv, FilesInv
    <2>3. WriterInv'
      BY <1>3 DEF LoggerInv, WriterInv
    <2> QED BY <2>1, <2>2, <2>3 DEF LoggerInv
  <1> QED BY <1>1, <1>2, <1>3 DEF write_log_for_event

LEMMA LoggerRotate ==
  ASSUME LoggerInv, Rotate
  PROVE  LoggerInv'
  <1> USE LoggerAssumption DEF LoggerAssumption
  <1>1. /\ path \in Inodes /\ path = made /\ made \in 0 .. MaxFiles /\ rotated \in Seq(Inodes)
        /\ Len(rotated) = made - 1
        /\ \A k \in 1 .. Len(rotated) : rotated[k] = Len(rotated) + 1 - k
    BY DEF LoggerInv, LoggerTypeOK, FilesInv, Rotate, NoFile
  <1>2. /\ rotated' = <<path>> \o rotated /\ rotated' \in Seq(Inodes)
        /\ Len(rotated') = made /\ DOMAIN rotated' = 1 .. made
        /\ \A k \in 1 .. made : rotated'[k] = IF k = 1 THEN path ELSE rotated[k - 1]
    BY <1>1 DEF Rotate
  <1>3. \A k \in DOMAIN rotated' : rotated'[k] = Len(rotated') + 1 - k
    BY <1>1, <1>2
  <1>4. /\ path' \in {NoFile, made'} /\ made' \in 0 .. MaxFiles
        /\ made = IF path' = NoFile THEN made' ELSE made' - 1
        /\ path' \in Inodes \cup {NoFile} /\ made <= made'
    BY <1>1 DEF Rotate, NoFile, Inodes
  <1>5. UNCHANGED <<running, queue, threadvars, text, expected, lost>>
    BY DEF Rotate
  <1>6. LoggerTypeOK'
    BY <1>2, <1>4, <1>5 DEF LoggerInv, LoggerTypeOK, threadvars
  <1>7. FilesInv'
    <2>1. \A f \in Inodes : f > made' => text'[f] = <<>>
      <3>1. \A f \in Inodes : f > made' => f > made
        <4>1. made \in Nat
          BY <1>1
        <4>2. made' \in Nat /\ made <= made'
          <5>1. made' = made \/ made' = made + 1
            BY DEF Rotate
          <5> QED BY <4>1, <5>1
        <4> QED BY <4>1, <4>2 DEF Inodes
      <3> QED BY <1>5, <3>1 DEF LoggerInv, FilesInv
    <2> QED BY <1>2, <1>3, <1>4, <2>1 DEF FilesInv
  <1>8. WriterInv'
    BY <1>1, <1>4, <1>5 DEF LoggerInv, WriterInv, threadvars, Inodes
  <1> QED BY <1>6, <1>7, <1>8 DEF LoggerInv

LEMMA LoggerTool ==
  ASSUME LoggerInv, NEW e, Line(e) \in LinesOf(Times, Ids), ToolWrites(e),
         UNCHANGED <<running, queue, threadvars>>
  PROVE  LoggerInv'
  <1> USE LoggerAssumption DEF LoggerAssumption
  <1>1. CASE lost' = TRUE /\ UNCHANGED <<filevars, expected>>
    <2>1. LoggerTypeOK'
      BY <1>1 DEF LoggerInv, LoggerTypeOK, threadvars, filevars
    <2>2. FilesInv'
      BY <1>1 DEF LoggerInv, FilesInv, filevars
    <2>3. WriterInv'
      BY <1>1 DEF LoggerInv, WriterInv, threadvars, filevars
    <2> QED BY <2>1, <2>2, <2>3 DEF LoggerInv
  <1>2. ASSUME NEW i \in Inodes, open_log_file(i),
               text' = [text EXCEPT ![i] = Append(@, Line(e))],
               UNCHANGED <<rotated, expected, lost>>
        PROVE  LoggerInv'
    <2>1. /\ path' = i /\ made' = i /\ made' \in 0 .. MaxFiles /\ made <= made'
          /\ path' \in Inodes /\ Len(rotated) = made' - 1
          /\ \A f \in Inodes : f > made' => text[f] = <<>>
      BY <1>2, OpenFile
    <2>2. text' \in [Inodes -> Seq(LinesOf(Times, Ids))]
      BY <1>2 DEF LoggerInv, LoggerTypeOK
    <2>3. LoggerTypeOK'
      BY <1>2, <2>1, <2>2 DEF LoggerInv, LoggerTypeOK, threadvars
    <2>4. FilesInv'
      <3>1. \A f \in Inodes : f > made' => text'[f] = <<>>
        BY <1>2, <2>1 DEF LoggerInv, LoggerTypeOK, Inodes
      <3> QED BY <1>2, <2>1, <3>1 DEF LoggerInv, FilesInv, NoFile, Inodes
    <2>5. WriterInv'
      BY <1>2, <2>1 DEF LoggerInv, LoggerTypeOK, WriterInv, threadvars, Inodes
    <2> QED BY <2>3, <2>4, <2>5 DEF LoggerInv
  <1> QED BY <1>1, <1>2 DEF ToolWrites

----------------------------------------------------------------------------
(* Events, lines, and what the daemon and the system keep.                 *)

\* What becomes of an event that is formatted.
LEMMA LineIs ==
  ASSUME NEW e \in EventsOf(Times, Ids)
  PROVE  /\ Line(e) \in LinesOf(Times, Ids)
         /\ Line(e).time = e.time /\ Line(e).id = e.id /\ Line(e).login = e.login
         /\ Line(e).plain = e.plain
  <1> DEFINE nm == event_type_to_name(e.type)
             st == e.set \cap Printed(e.type)
  <1>1. nm \in Types \cup {"UNKNOWN"} /\ st \in SUBSET Fields
    BY DEF event_type_to_name, EventsOf
  <1>2. Line(e) = [name |-> nm, time |-> e.time, id |-> e.id, login |-> e.login,
                   set |-> st, plain |-> e.plain]
    BY DEF Line, ck_log_event_to_string
  <1> HIDE DEF nm, st
  <1>3. e.time \in Times /\ e.id \in Ids /\ e.login \in Times \cup {0} /\ e.plain \in BOOLEAN
    BY DEF EventsOf
  <1>4. Line(e) \in LinesOf(Times, Ids)
    BY <1>1, <1>2, <1>3 DEF LinesOf
  <1> QED BY <1>2, <1>4

\* The events of this model say all that the daemon knows, and neither the copy nor the
\* line leaves anything out.
LEMMA EventIs ==
  ASSUME clock \in 0 .. MaxEvents, clock < MaxEvents,
         NEW t \in Types, NEW i \in Ids, NEW l \in Times \cup {0}
  PROVE  /\ Event(t, i, l) \in EventsOf(Times, Ids)
         /\ ck_log_event_copy(Event(t, i, l)) = Event(t, i, l)
         /\ Event(t, i, l).time = clock + 1
         /\ Line(Event(t, i, l)) \in LinesOf(Times, Ids)
         /\ Line(Event(t, i, l)) = [name |-> event_type_to_name(t), time |-> clock + 1, id |-> i,
                                    login |-> l, set |-> Members(t), plain |-> i \notin Odd]
  <1> DEFINE ev == Event(t, i, l)
             ms == Members(t)
             pl == i \notin Odd
  <1>1. ms \in SUBSET Fields
    BY DEF Fields
  <1>2. ev = [type |-> t, time |-> clock + 1, id |-> i, login |-> l, set |-> ms, plain |-> pl]
    BY DEF Event
  <1>3. clock + 1 \in Times
    BY LoggerAssumption DEF Times, LoggerAssumption
  <1>4. pl \in BOOLEAN
    OBVIOUS
  <1>5. Copied(t) = ms /\ Printed(t) = ms
    BY DEF Copied, Printed
  <1> HIDE DEF ms, pl
  <1>6. ev \in EventsOf(Times, Ids)
    BY <1>1, <1>2, <1>3, <1>4 DEF EventsOf
  <1>7. ck_log_event_copy(ev) = ev
    <2>1. ev.type = t /\ ev.set = ms /\ ms \cap Copied(t) = ms
      BY <1>2, <1>5
    <2>2. ck_log_event_copy(ev) = [ev EXCEPT !.set = ms]
      BY <2>1 DEF ck_log_event_copy
    <2> QED BY <1>2, <2>2
  <1>8. Line(ev) = [name |-> event_type_to_name(t), time |-> clock + 1, id |-> i,
                    login |-> l, set |-> ms, plain |-> pl]
    <2>1. ms \cap Printed(t) = ms
      BY <1>5
    <2>2. ev.type = t /\ ev.set = ms /\ ev.time = clock + 1 /\ ev.id = i /\ ev.login = l
          /\ ev.plain = pl
      BY <1>2
    <2> HIDE DEF ev
    <2> QED BY <2>1, <2>2 DEF Line, ck_log_event_to_string
  <1>9. Line(ev) \in LinesOf(Times, Ids)
    BY <1>6, LineIs
  <1> QED BY <1>2, <1>6, <1>7, <1>8, <1>9 DEF ms, pl

----------------------------------------------------------------------------
\* Nothing of the sessions is left without a daemon, and no daemon when the system is down.
\* There is room for what the handlers will log.
DaemonInv ==
  /\ ~ running => handlers = <<>> /\ \A i \in Ids : open[i] = 0
  /\ system = "down" => ~ running
  /\ clock + Len(handlers) <= MaxEvents

\* The part of HistoryTypeOK that is not of the logger.
OwnTypeOK ==
  /\ system \in {"up", "stopping", "down"}
  /\ clock \in 0 .. MaxEvents /\ logins \in 0 .. MaxEvents /\ serial \in 0 .. MaxIds
  /\ open \in [Ids -> 0 .. MaxEvents]
  /\ handlers \in Seq(Handler)
  /\ Len(handlers) <= MaxNest
  /\ fate \in [Times -> Statuses \cup {"none"}]
  /\ odd \subseteq Times
  /\ misled \in BOOLEAN

\* What holds of every state, whatever was lost.
BaseInv == LoggerInv /\ OwnTypeOK /\ DaemonInv

LEMMA BaseIs == BaseInv => HistoryTypeOK
  BY DEF BaseInv, LoggerInv, HistoryTypeOK, OwnTypeOK

\* What every state has, whatever was lost: types, files, thread and daemon.
LEMMA BaseStart == HistoryInit => BaseInv
  <1> SUFFICES ASSUME HistoryInit PROVE BaseInv
    OBVIOUS
  <1>1. LoggerInv
    BY LoggerStart DEF HistoryInit
  <1>2. OwnTypeOK
    <2>1. /\ system \in {"up", "stopping", "down"} /\ odd \subseteq Times /\ misled \in BOOLEAN
      BY DEF HistoryInit
    <2>5. clock \in 0 .. MaxEvents /\ logins \in 0 .. MaxEvents /\ serial \in 0 .. MaxIds
      BY LoggerAssumption DEF HistoryInit, LoggerAssumption
    <2>2. open \in [Ids -> 0 .. MaxEvents]
      BY LoggerAssumption DEF HistoryInit, LoggerAssumption
    <2>3. fate \in [Times -> Statuses \cup {"none"}]
      BY DEF HistoryInit
    <2>4. handlers \in Seq(Handler) /\ Len(handlers) = 0
      BY DEF HistoryInit
    <2> QED BY <2>1, <2>2, <2>3, <2>4, <2>5, HistoryAssumption DEF OwnTypeOK, HistoryAssumption
  <1>3. DaemonInv
    BY LoggerAssumption DEF HistoryInit, LoggerInit, DaemonInv, LoggerAssumption
  <1> QED BY <1>1, <1>2, <1>3 DEF BaseInv

\* What the end of the daemon does to the variables of this module.
LEMMA ForgetsTypes ==
  ASSUME OwnTypeOK, NEW how \in Statuses, Forgets(how)
  PROVE  /\ serial' \in 0 .. MaxIds /\ open' \in [Ids -> 0 .. MaxEvents]
         /\ handlers' = <<>> /\ handlers' \in Seq(Handler) /\ Len(handlers') = 0
         /\ fate' \in [Times -> Statuses \cup {"none"}]
         /\ misled' \in BOOLEAN
         /\ \A i \in Ids : open'[i] = 0
  <1>1. serial' \in 0 .. MaxIds /\ open' \in [Ids -> 0 .. MaxEvents] /\ \A i \in Ids : open'[i] = 0
    BY LoggerAssumption DEF Forgets, LoggerAssumption
  <1>2. handlers' = <<>> /\ handlers' \in Seq(Handler) /\ Len(handlers') = 0
    BY DEF Forgets
  <1>3. fate' \in [Times -> Statuses \cup {"none"}]
    BY DEF Forgets, Ends, OwnTypeOK
  <1>4. misled' \in BOOLEAN
    BY DEF Forgets
  <1> QED BY <1>1, <1>2, <1>3, <1>4

\* The end of the daemon, whatever the reason.
LEMMA BaseDies ==
  ASSUME BaseInv, NEW how \in Statuses, LoggerInv', ~ running', Forgets(how),
         system' \in {"up", "stopping", "down"}, UNCHANGED <<clock, logins, odd>>
  PROVE  BaseInv'
  <1>1. OwnTypeOK'
    BY ForgetsTypes, HistoryAssumption DEF BaseInv, OwnTypeOK, HistoryAssumption
  <1>2. DaemonInv'
    <2>1. clock' \in 0 .. MaxEvents /\ Len(handlers') = 0
      BY ForgetsTypes DEF BaseInv, OwnTypeOK
    <2>2. handlers' = <<>> /\ \A i \in Ids : open'[i] = 0
      BY ForgetsTypes DEF BaseInv
    <2> QED BY <2>1, <2>2 DEF DaemonInv
  <1> QED BY <1>1, <1>2 DEF BaseInv

\* Nothing of this module changes, or only the clock and the system.
LEMMA BaseStays ==
  ASSUME BaseInv, LoggerInv', UNCHANGED <<logins, serial, open, handlers, odd>>,
         fate' \in [Times -> Statuses \cup {"none"}], misled' \in BOOLEAN,
         \/ UNCHANGED clock
         \/ clock' = clock + 1 /\ clock + Len(handlers) < MaxEvents,
         system' \in {"up", "stopping", "down"},
         running' = running \/ running',
         system' = "down" => ~ running'
  PROVE  BaseInv'
  <1>1. clock \in 0 .. MaxEvents /\ Len(handlers) \in Nat /\ clock + Len(handlers) <= MaxEvents
    BY DEF BaseInv, OwnTypeOK, DaemonInv
  <1>2. clock' \in 0 .. MaxEvents /\ clock' + Len(handlers) <= MaxEvents
    BY <1>1, LoggerAssumption DEF LoggerAssumption
  <1>3. OwnTypeOK'
    BY <1>2 DEF BaseInv, OwnTypeOK
  <1>4. DaemonInv'
    BY <1>2 DEF BaseInv, DaemonInv
  <1> QED BY <1>3, <1>4 DEF BaseInv

\* The end of the logins leaves each with a status.
LEMMA EndsTypes ==
  ASSUME OwnTypeOK, NEW how \in Statuses, Ends(how)
  PROVE  fate' \in [Times -> Statuses \cup {"none"}]
  BY DEF Ends, OwnTypeOK

\* There is a time for the next event.
LEMMA RoomIs ==
  ASSUME BaseInv, Room
  PROVE  clock \in 0 .. MaxEvents /\ clock < MaxEvents
  <1>1. clock \in 0 .. MaxEvents /\ Len(handlers) \in Nat /\ clock + Len(handlers) < MaxEvents
    BY DEF BaseInv, OwnTypeOK, Room
  <1> QED BY <1>1, LoggerAssumption DEF LoggerAssumption

\* The types of events that the specification uses.
LEMMA TypesAre ==
  /\ 0 \in Ids /\ 0 \in Times \cup {0}
  /\ SessionEvents \subseteq Types /\ "SYSTEM_START" \in Types
  /\ Noise \subseteq Types /\ Actions \subseteq Types /\ Stops \subseteq Types
  BY LoggerAssumption, HistoryAssumption
  DEF LoggerAssumption, HistoryAssumption, Ids, SessionEvents, Types, SystemEvents,
      SeatEvents, DeviceEvents, ActiveEvents, SleepEvents

----------------------------------------------------------------------------
(* What a step may do to the log.                                          *)

\* The lines in the files, and with them those of the events on their way.
Written == {l \in LinesOf(Times, Ids) : \E f \in Inodes : l \in Range(text[f])}
Logged == Written \cup {Line(e) : e \in Range(Pending)}

\* What a step may do to the log. Nothing new comes, though what is on its way may be lost.
Keeps ==
  /\ text' = text
  /\ Range(Pending') \subseteq Range(Pending) /\ Range(expected') \subseteq Range(expected)
  /\ ~ lost' => ~ lost /\ Pending' = Pending /\ expected' = expected
  /\ thread' = "write" /\ file' \in Inodes =>
       \/ thread = "write" /\ file' = file
       \/ \A g \in Inodes : g > file' => text[g] = <<>>

\* The daemon logs e.
Queues(e) ==
  /\ text' = text /\ Pending' = Append(Pending, e) /\ expected' = Append(expected, Line(e))
  /\ UNCHANGED <<lost, thread, file>>

\* The writer thread writes the first event that is on its way.
Writes ==
  /\ thread = "write" /\ file \in Inodes /\ Pending # <<>>
  /\ text' = [text EXCEPT ![file] = Append(@, Line(Head(Pending)))]
  /\ Pending' = Tail(Pending) /\ thread' = "pop"
  /\ UNCHANGED <<lost, expected>>

\* A tool writes e into the newest file.
Inserts(e) ==
  /\ \E i \in Inodes : /\ text' = [text EXCEPT ![i] = Append(@, Line(e))]
                       /\ \A f \in Inodes : f > i => text[f] = <<>>
  /\ Pending' = Pending
  /\ UNCHANGED <<lost, expected, thread, file>>

\* What is on its way are events.
LEMMA PendingType ==
  ASSUME LoggerInv
  PROVE  Pending \in Seq(EventsOf(Times, Ids))
  BY DEF LoggerInv, LoggerTypeOK, Pending

\* A step that leaves the logger alone keeps the log, and so do the start and the end of
\* the daemon, and the writer thread until it writes.
LEMMA KeepsFrame ==
  ASSUME UNCHANGED logvars
  PROVE  Keeps
  <1>1. Pending' = Pending
    BY DEF logvars, threadvars, Pending
  <1> QED BY <1>1 DEF logvars, threadvars, filevars, Keeps

\* Without a thread that holds or writes it, nothing is on its way.
LEMMA NothingPending ==
  ASSUME LoggerInv, ~ running
  PROVE  Pending = <<>>
  <1>1. taken \in Seq(EventsOf(Times, Ids)) /\ Len(taken) = 0 /\ queue = <<>>
    BY DEF LoggerInv, LoggerTypeOK, WriterInv
  <1>2. taken = <<>>
    BY <1>1
  <1> QED BY <1>1, <1>2 DEF Pending

LEMMA NewKeeps ==
  ASSUME LoggerInv, ck_event_logger_new
  PROVE  Keeps
  <1>1. Pending = <<>>
    BY NothingPending DEF ck_event_logger_new
  <1>2. Pending' = <<>>
    BY DEF ck_event_logger_new, Pending
  <1>3. thread' # "write" /\ text' = text /\ expected' = expected /\ (lost => lost')
    BY DEF ck_event_logger_new
  <1> QED BY <1>1, <1>2, <1>3 DEF Keeps

LEMMA KilledKeeps ==
  ASSUME LoggerInv, Killed
  PROVE  Keeps
  <1>1. Pending' = <<>> /\ Range(<<>>) = {}
    BY DEF Killed, Pending, Range
  <1>2. expected \in Seq(LinesOf(Times, Ids)) /\ Pending \in Seq(EventsOf(Times, Ids))
    BY PendingType DEF LoggerInv, LoggerTypeOK
  <1>3. expected' = SubSeq(expected, 1, Len(expected) - Len(Pending))
    BY DEF Killed, Settled
  <1>4. \A s \in Seq(LinesOf(Times, Ids)), n \in Nat :
          Range(SubSeq(s, 1, Len(s) - n)) \subseteq Range(s)
    <2> SUFFICES ASSUME NEW s \in Seq(LinesOf(Times, Ids)), NEW n \in Nat,
                        NEW x \in Range(SubSeq(s, 1, Len(s) - n))
                 PROVE  x \in Range(s)
      OBVIOUS
    <2>1. PICK i \in DOMAIN SubSeq(s, 1, Len(s) - n) : x = SubSeq(s, 1, Len(s) - n)[i]
      BY DEF Range
    <2>2. i \in 1 .. Len(s) /\ x = s[i]
      BY <2>1
    <2> QED BY <2>2 DEF Range
  <1>5. Range(expected') \subseteq Range(expected)
    <2>1. Len(Pending) \in Nat
      BY <1>2
    <2> QED BY <1>2, <1>3, <1>4, <2>1
  <1>6. Pending = <<>> => expected' = expected
    BY <1>2, <1>3
  <1>7. ~ lost' => ~ lost /\ Pending = <<>>
    BY DEF Killed
  <1>8. text' = text /\ thread' = "none"
    BY DEF Killed, filevars
  <1> QED BY <1>1, <1>5, <1>6, <1>7, <1>8 DEF Keeps

LEMMA PopKeeps ==
  ASSUME LoggerInv, Pop
  PROVE  Keeps
  <1>1. queue \in Seq(EventsOf(Times, Ids)) /\ queue # <<>> /\ taken \in Seq(EventsOf(Times, Ids)) /\ Len(taken) = 0
    BY DEF LoggerInv, LoggerTypeOK, WriterInv, Pop
  <1>2. taken = <<>>
    BY <1>1
  <1>3. Pending = queue
    BY <1>1, <1>2 DEF Pending
  <1>4. <<Head(queue)>> \o Tail(queue) = queue
    BY <1>1
  <1>5. Pending' = Pending
    BY <1>3, <1>4 DEF Pending, Pop
  <1>6. UNCHANGED <<text, expected, lost>> /\ thread' = "check"
    BY DEF Pop, filevars
  <1> QED BY <1>5, <1>6 DEF Keeps

LEMMA CheckKeeps ==
  ASSUME LoggerInv, check_file_stream
  PROVE  Keeps
  <1>1. CASE file = Freed /\ Killed
    BY <1>1, KilledKeeps
  <1>2. CASE thread' = "write" /\ UNCHANGED <<running, queue, taken, rotated, text, expected, lost>>
    <2>1. Pending' = Pending
      BY <1>2 DEF Pending
    <2>2. ASSUME file' \in Inodes
          PROVE  \A g \in Inodes : g > file' => text[g] = <<>>
      <3>1. CASE file = path /\ UNCHANGED <<file, path, made>>
        <4>1. file' = made
          BY <2>2, <3>1, LoggerAssumption
          DEF LoggerInv, FilesInv, NoFile, Inodes, LoggerAssumption
        <4> QED BY <4>1 DEF LoggerInv, FilesInv
      <3>2. ASSUME NEW i \in Inodes, open_log_file(i), file' = i
            PROVE  \A g \in Inodes : g > file' => text[g] = <<>>
        BY <3>2, OpenFile
      <3>3. CASE file' = Freed
        BY <2>2, <3>3, LoggerAssumption DEF Freed, Inodes, LoggerAssumption
      <3> QED BY <1>2, <3>1, <3>2, <3>3 DEF check_file_stream, Killed
    <2> QED BY <1>2, <2>1, <2>2 DEF Keeps
  <1> QED BY <1>1, <1>2 DEF check_file_stream

\* The writer thread writes the event it has taken, or loses it.
LEMMA WriteKinds ==
  ASSUME LoggerInv, write_log_for_event
  PROVE  Keeps \/ (Writes /\ running' = running)
  <1>1. CASE file = Freed /\ Killed
    BY <1>1, KilledKeeps
  <1>0. thread = "write" /\ taken \in Seq(EventsOf(Times, Ids)) /\ Len(taken) = 1
        /\ queue \in Seq(EventsOf(Times, Ids))
    BY DEF LoggerInv, LoggerTypeOK, WriterInv, write_log_for_event
  <1>2. CASE thread' = "pop" /\ taken' = <<>> /\ queue' = queue
    <2>1. Pending # <<>> /\ Head(Pending) = Head(taken) /\ Tail(Pending) = queue
      <3> DEFINE E == EventsOf(Times, Ids)
                 x == Head(taken)
      <3>1. taken = <<x>> /\ x \in E /\ queue \in Seq(E)
        BY <1>0
      <3> HIDE DEF E, x
      <3>2. /\ <<x>> \o queue # <<>> /\ Head(<<x>> \o queue) = x
            /\ Tail(<<x>> \o queue) = queue
        BY <3>1
      <3> QED BY <3>1, <3>2 DEF Pending, x
    <2>2. Pending' = queue
      BY <1>0, <1>2 DEF Pending
    <2>3. CASE /\ file \in Inodes /\ UNCHANGED <<lost, expected, running>>
               /\ text' = [text EXCEPT ![file] = Append(@, Line(Head(taken)))]
      BY <1>0, <1>2, <2>1, <2>2, <2>3 DEF Writes
    <2>4. CASE lost' = TRUE /\ UNCHANGED <<text, expected>>
      <3>1. Range(Pending') \subseteq Range(Pending)
        <4>1. Pending \in Seq(EventsOf(Times, Ids))
          BY PendingType
        <4>2. \A s \in Seq(EventsOf(Times, Ids)) : s # <<>> => Range(Tail(s)) \subseteq Range(s)
          BY DEF Range
        <4> QED BY <4>1, <4>2, <2>1, <2>2
      <3> QED BY <1>2, <2>4, <3>1 DEF Keeps
    <2> QED BY <1>0, <1>2, <2>3, <2>4, LoggerAssumption
            DEF write_log_for_event, Killed
  <1> QED BY <1>1, <1>2 DEF write_log_for_event

\* Rotation renames files; a tool adds a line, or the event is lost; the daemon queues.
LEMMA RotateKeeps ==
  ASSUME LoggerInv, Rotate
  PROVE  Keeps
  <1>1. Pending' = Pending
    BY DEF Rotate, threadvars, Pending
  <1> QED BY <1>1 DEF Rotate, threadvars, Keeps

LEMMA ToolKinds ==
  ASSUME LoggerInv, NEW e, ToolWrites(e), UNCHANGED <<running, queue, threadvars>>
  PROVE  (Keeps /\ lost') \/ Inserts(e)
  <1>1. Pending' = Pending
    BY DEF threadvars, Pending
  <1>2. CASE lost' = TRUE /\ UNCHANGED <<filevars, expected>>
    BY <1>1, <1>2 DEF threadvars, filevars, Keeps
  <1>3. ASSUME NEW i \in Inodes, open_log_file(i),
               text' = [text EXCEPT ![i] = Append(@, Line(e))],
               UNCHANGED <<rotated, expected, lost>>
        PROVE  Inserts(e)
    <2>1. \A f \in Inodes : f > i => text[f] = <<>>
      BY <1>3, OpenFile
    <2> QED BY <1>1, <1>3, <2>1 DEF Inserts, threadvars
  <1> QED BY <1>2, <1>3 DEF ToolWrites

LEMMA QueueKind ==
  ASSUME LoggerInv, NEW e \in EventsOf(Times, Ids), ck_log_event_copy(e) = e,
         ck_event_logger_queue_event(e)
  PROVE  Queues(e)
  <1>1. taken \in Seq(EventsOf(Times, Ids)) /\ queue \in Seq(EventsOf(Times, Ids))
    BY DEF LoggerInv, LoggerTypeOK
  <1>2. taken \o Append(queue, e) = Append(taken \o queue, e)
    BY <1>1
  <1>3. Pending' = Append(Pending, e)
    BY <1>2 DEF Pending, ck_event_logger_queue_event, threadvars
  <1> QED BY <1>3 DEF ck_event_logger_queue_event, threadvars, filevars, Queues

----------------------------------------------------------------------------
(* Every step of the specification, as a step of the log.                  *)

\* What every step of the specification does to the log.
LogStep ==
  /\ (lost => lost') /\ (misled => misled')
  /\ \/ Keeps /\ (clock' = clock \/ clock' = clock + 1)
     \/ Writes /\ clock' = clock
     \/ \E t \in Types, i \in Ids, l \in Times \cup {0} :
          /\ clock' = clock + 1 /\ clock < MaxEvents
          /\ \/ Queues(Event(t, i, l))
             \/ Inserts(Event(t, i, l)) /\ (~ misled' => Pending = <<>>)

\* Each step of the specification keeps BaseInv and is a step of the log.
LEMMA StepStays ==
  ASSUME BaseInv, UNCHANGED historyvars
  PROVE  BaseInv' /\ LogStep
  <1>1. LoggerInv'
    BY LoggerFrame DEF historyvars, BaseInv
  <1>2. BaseInv'
    BY <1>1, BaseStays DEF historyvars, daemonvars, logvars, BaseInv, OwnTypeOK, DaemonInv
  <1> QED BY <1>2, KeepsFrame DEF historyvars, logvars, LogStep

LEMMA StepStartDaemon ==
  ASSUME BaseInv, StartDaemon
  PROVE  BaseInv' /\ LogStep
  <1>1. LoggerInv' /\ Keeps
    BY LoggerNew, NewKeeps DEF StartDaemon, BaseInv
  <1>2. running' = TRUE /\ (lost => lost') /\ system = "up"
    BY DEF StartDaemon, ck_event_logger_new
  <1>3. BaseInv'
    BY <1>1, <1>2, BaseStays DEF StartDaemon, daemonvars, BaseInv, OwnTypeOK
  <1> QED BY <1>1, <1>2, <1>3 DEF StartDaemon, LogStep

\* The ways a login ends.
LEMMA StatusesAre == {"PHANTOM", "CRASH", "DOWN", "NOW", "NORMAL"} \subseteq Statuses
  BY DEF Statuses

\* The end of the daemon, for the logger.
LEMMA KilledIs ==
  ASSUME BaseInv, Killed
  PROVE  LoggerInv' /\ Keeps /\ ~ running' /\ (lost => lost')
  BY LoggerKilled, KilledKeeps DEF BaseInv, Killed

LEMMA StepDaemonDies ==
  ASSUME BaseInv, DaemonDies
  PROVE  BaseInv' /\ LogStep
  <1>1. LoggerInv' /\ Keeps /\ ~ running' /\ (lost => lost')
    BY KilledIs DEF DaemonDies
  <1>2. Forgets("PHANTOM") /\ UNCHANGED <<system, clock, logins, odd>>
    BY DEF DaemonDies
  <1>3. BaseInv'
    BY <1>1, <1>2, BaseDies, StatusesAre DEF BaseInv, OwnTypeOK
  <1> QED BY <1>1, <1>2, <1>3 DEF LogStep, Forgets

LEMMA StepGoDown ==
  ASSUME BaseInv, GoDown
  PROVE  BaseInv' /\ LogStep
  <1>1. LoggerInv' /\ Keeps /\ ~ running' /\ (lost => lost')
    BY KilledIs DEF GoDown
  <1>2. Forgets("CRASH") /\ system' = "down" /\ UNCHANGED <<clock, logins, odd>>
    BY DEF GoDown
  <1>3. BaseInv'
    BY <1>1, <1>2, BaseDies, StatusesAre
  <1> QED BY <1>1, <1>2, <1>3 DEF LogStep, Forgets

LEMMA StepLogWriter ==
  ASSUME BaseInv, LogWriter
  PROVE  BaseInv' /\ LogStep
  <1>1. LoggerInv' /\ (Keeps \/ Writes)
    <2>1. CASE Pop
      BY <2>1, LoggerPop, PopKeeps DEF BaseInv
    <2>2. CASE check_file_stream
      BY <2>2, LoggerCheck, CheckKeeps DEF BaseInv
    <2>3. CASE write_log_for_event
      BY <2>3, LoggerWrite, WriteKinds, LineIs DEF BaseInv
    <2> QED BY <2>1, <2>2, <2>3 DEF LogWriter, Writer
  <1>2. UNCHANGED <<system, clock, logins, odd>>
    BY DEF LogWriter
  <1>3. lost => lost'
    BY DEF LogWriter, Writer, Pop, check_file_stream, write_log_for_event, Killed
  <1>4. CASE running'
    <2>1. UNCHANGED <<daemonvars, fate, misled>>
      BY <1>4 DEF LogWriter
    <2>2. running
      BY <1>4 DEF LogWriter, Writer, Pop, check_file_stream, write_log_for_event, Killed
    <2>3. BaseInv'
      BY <1>1, <1>2, <1>4, <2>1, <2>2, BaseStays DEF daemonvars, BaseInv, OwnTypeOK, DaemonInv
    <2> QED BY <1>1, <1>2, <1>3, <2>1, <2>3 DEF LogStep
  <1>5. CASE ~ running'
    <2>1. Forgets("PHANTOM")
      BY <1>5 DEF LogWriter
    <2>2. BaseInv'
      BY <1>1, <1>2, <1>5, <2>1, BaseDies, StatusesAre DEF BaseInv, OwnTypeOK
    <2> QED BY <1>1, <1>2, <1>3, <2>1, <2>2 DEF LogStep, Forgets
  <1> QED BY <1>4, <1>5

LEMMA StepRotate ==
  ASSUME BaseInv, RotateLog
  PROVE  BaseInv' /\ LogStep
  <1>1. LoggerInv' /\ Keeps
    BY LoggerRotate, RotateKeeps DEF RotateLog, BaseInv
  <1>2. UNCHANGED <<running, lost>>
    BY DEF RotateLog, Rotate
  <1>3. BaseInv'
    BY <1>1, <1>2, BaseStays DEF RotateLog, daemonvars, BaseInv, OwnTypeOK, DaemonInv
  <1> QED BY <1>1, <1>2, <1>3 DEF RotateLog, LogStep

\* An event of the daemon.
LEMMA StepQueues ==
  ASSUME BaseInv, clock < MaxEvents, NEW t \in Types, NEW i \in Ids, NEW l \in Times \cup {0},
         ck_event_logger_queue_event(Event(t, i, l)), Tick, misled => misled'
  PROVE  LoggerInv' /\ LogStep /\ Queues(Event(t, i, l)) /\ running /\ running' = running
  <1> DEFINE e == Event(t, i, l)
  <1>1. clock \in 0 .. MaxEvents
    BY DEF BaseInv, OwnTypeOK
  <1>2. /\ e \in EventsOf(Times, Ids) /\ ck_log_event_copy(e) = e
        /\ Line(e) \in LinesOf(Times, Ids)
    BY <1>1, EventIs
  <1> HIDE DEF e
  <1>3. ck_event_logger_queue_event(e)
    BY DEF e
  <1>4. LoggerInv' /\ Queues(e)
    BY <1>2, <1>3, LoggerQueue, QueueKind DEF BaseInv
  <1>5. UNCHANGED <<running, lost>> /\ running
    BY <1>3 DEF ck_event_logger_queue_event
  <1> QED BY <1>4, <1>5 DEF LogStep, Tick, e

\* An event of a tool.
LEMMA StepInserts ==
  ASSUME BaseInv, clock < MaxEvents, NEW t \in Types, ToolWrites(Event(t, 0, 0)), Tick,
         UNCHANGED <<running, queue, threadvars>>, misled => misled',
         ~ misled' => Pending = <<>>
  PROVE  /\ LoggerInv' /\ LogStep
         /\ (Keeps /\ lost') \/ Inserts(Event(t, 0, 0))
  <1> DEFINE e == Event(t, 0, 0)
  <1>1. clock \in 0 .. MaxEvents
    BY DEF BaseInv, OwnTypeOK
  <1>2. Line(e) \in LinesOf(Times, Ids)
    BY <1>1, EventIs, TypesAre
  <1> HIDE DEF e
  <1>3. ToolWrites(e)
    BY DEF e
  <1>4. LoggerInv' /\ ((Keeps /\ lost') \/ Inserts(e))
    BY <1>2, <1>3, LoggerTool, ToolKinds DEF BaseInv
  <1>5. lost => lost'
    BY <1>3 DEF ToolWrites
  <1> QED BY <1>4, <1>5, TypesAre DEF LogStep, Tick, e

\* The steps of the manager and of the tools.
LEMMA StepAdded ==
  ASSUME BaseInv, on_seat_session_added_full
  PROVE  BaseInv' /\ LogStep
  <1> USE LoggerAssumption DEF LoggerAssumption
  <1>0. OwnTypeOK /\ DaemonInv /\ LoggerInv
    BY DEF BaseInv
  <1>1. /\ serial' = serial + 1 /\ logins' = logins + 1 /\ serial' \in 0 .. MaxIds
        /\ logins' \in 0 .. MaxEvents /\ serial' \in Ids /\ logins' \in Times
    BY <1>0 DEF on_seat_session_added_full, OwnTypeOK, Ids, Times
  <1> DEFINE h == [type |-> "SEAT_SESSION_ADDED", id |-> serial', login |-> logins']
  <1>2. h \in Handler
    BY <1>1 DEF Handler, SessionEvents
  <1> HIDE DEF h
  <1>3. /\ handlers' = Append(handlers, h) /\ running /\ Room /\ Len(handlers) < MaxNest
        /\ UNCHANGED <<logvars, system, clock, misled>>
    BY DEF on_seat_session_added_full, ck_session_run_programs, h
  <1>4. LoggerInv' /\ Keeps /\ UNCHANGED <<running, lost>>
    BY <1>0, <1>3, LoggerFrame, KeepsFrame DEF logvars
  <1>5. /\ handlers \in Seq(Handler) /\ handlers' \in Seq(Handler)
        /\ Len(handlers') = Len(handlers) + 1 /\ Len(handlers) \in Nat
    BY <1>0, <1>2, <1>3 DEF OwnTypeOK
  <1>6. Len(handlers') <= MaxNest
    BY <1>3, <1>5, HistoryAssumption DEF HistoryAssumption
  <1>7. open' \in [Ids -> 0 .. MaxEvents]
    BY <1>0, <1>1 DEF on_seat_session_added_full, OwnTypeOK
  <1>8. fate' \in [Times -> Statuses \cup {"none"}]
    BY <1>0, <1>1, StatusesAre DEF on_seat_session_added_full, OwnTypeOK
  <1>9. odd' \subseteq Times
    BY <1>0, <1>1 DEF on_seat_session_added_full, OwnTypeOK
  <1>10. OwnTypeOK'
    BY <1>0, <1>1, <1>3, <1>5, <1>6, <1>7, <1>8, <1>9 DEF OwnTypeOK
  <1>11. clock' + Len(handlers') <= MaxEvents
    <2>1. clock \in Nat /\ clock + Len(handlers) < MaxEvents
      BY <1>0, <1>3 DEF Room, OwnTypeOK
    <2> QED BY <1>3, <1>5, <2>1
  <1>12. DaemonInv'
    BY <1>0, <1>3, <1>4, <1>11 DEF DaemonInv
  <1> QED BY <1>3, <1>4, <1>10, <1>12 DEF BaseInv, LogStep

LEMMA StepRemoved ==
  ASSUME BaseInv, NEW i \in Ids, on_seat_session_removed_full(i)
  PROVE  BaseInv' /\ LogStep
  <1> USE LoggerAssumption DEF LoggerAssumption
  <1>0. OwnTypeOK /\ DaemonInv /\ LoggerInv
    BY DEF BaseInv
  <1>1. open[i] \in Times
    BY <1>0 DEF on_seat_session_removed_full, OwnTypeOK, Times
  <1> DEFINE h == [type |-> "SEAT_SESSION_REMOVED", id |-> i, login |-> open[i]]
  <1>2. h \in Handler
    BY <1>1 DEF Handler, SessionEvents
  <1> HIDE DEF h
  <1>3. /\ handlers' = Append(handlers, h) /\ running /\ Room /\ Len(handlers) < MaxNest
        /\ UNCHANGED <<logvars, system, clock, logins, serial, odd>>
        /\ misled => misled'
    BY DEF on_seat_session_removed_full, ck_session_run_programs, h
  <1>4. LoggerInv' /\ Keeps /\ UNCHANGED <<running, lost>>
    BY <1>0, <1>3, LoggerFrame, KeepsFrame DEF logvars
  <1>5. /\ handlers \in Seq(Handler) /\ handlers' \in Seq(Handler)
        /\ Len(handlers') = Len(handlers) + 1 /\ Len(handlers) \in Nat
    BY <1>0, <1>2, <1>3 DEF OwnTypeOK
  <1>6. Len(handlers') <= MaxNest
    BY <1>3, <1>5, HistoryAssumption DEF HistoryAssumption
  <1>7. open' \in [Ids -> 0 .. MaxEvents]
    BY <1>0 DEF on_seat_session_removed_full, OwnTypeOK
  <1>8. fate' \in [Times -> Statuses \cup {"none"}]
    BY <1>0, <1>1, StatusesAre DEF on_seat_session_removed_full, OwnTypeOK
  <1>9. misled' \in BOOLEAN
    BY DEF on_seat_session_removed_full
  <1>10. OwnTypeOK'
    BY <1>0, <1>3, <1>5, <1>6, <1>7, <1>8, <1>9 DEF OwnTypeOK
  <1>11. clock' + Len(handlers') <= MaxEvents
    <2>1. clock \in Nat /\ clock + Len(handlers) < MaxEvents
      BY <1>0, <1>3 DEF Room, OwnTypeOK
    <2> QED BY <1>3, <1>5, <2>1
  <1>12. DaemonInv'
    BY <1>0, <1>3, <1>4, <1>11 DEF DaemonInv
  <1> QED BY <1>3, <1>4, <1>10, <1>12 DEF BaseInv, LogStep

\* The latest handler and the others.
LEMMA LastFront ==
  ASSUME OwnTypeOK, handlers # <<>>
  PROVE  /\ Last(handlers) \in Handler /\ Last(handlers) = handlers[Len(handlers)]
         /\ Last(handlers).type \in SessionEvents /\ Last(handlers).id \in Ids
         /\ Last(handlers).login \in Times
         /\ Front(handlers) \in Seq(Handler) /\ Len(Front(handlers)) = Len(handlers) - 1
         /\ \A k \in DOMAIN Front(handlers) : k \in DOMAIN handlers /\ k # Len(handlers)
                                              /\ Front(handlers)[k] = handlers[k]
         /\ \A k \in DOMAIN handlers : k # Len(handlers) => k \in DOMAIN Front(handlers)
         /\ Len(handlers) \in DOMAIN handlers
  <1>1. handlers \in Seq(Handler) /\ Len(handlers) \in Nat \ {0}
    BY DEF OwnTypeOK
  <1>2. /\ Last(handlers) = handlers[Len(handlers)] /\ Last(handlers) \in Handler
        /\ Len(handlers) \in DOMAIN handlers
    BY <1>1 DEF Last
  <1>3. /\ Front(handlers) \in Seq(Handler) /\ Len(Front(handlers)) = Len(handlers) - 1
        /\ DOMAIN Front(handlers) = 1 .. Len(handlers) - 1
        /\ \A k \in 1 .. Len(handlers) - 1 : Front(handlers)[k] = handlers[k]
    <2> DEFINE n == Len(handlers) - 1
               s == SubSeq(handlers, 1, n)
    <2>1. Front(handlers) = s /\ n \in Nat /\ n <= Len(handlers)
      BY <1>1 DEF Front
    <2>2. s \in Seq(Handler) /\ Len(s) = n /\ \A k \in 1 .. n : s[k] = handlers[k]
      <3>1. \A k \in 1 .. n : handlers[k] \in Handler
        BY <1>1, <2>1
      <3>2. n \in Nat
        BY <2>1
      <3> HIDE DEF n
      <3>3. s \in Seq(Handler)
        BY <3>1, <3>2
      <3>4. Len(s) = n
        BY <3>2
      <3>5. \A k \in 1 .. n : s[k] = handlers[k]
        BY <3>2
      <3> QED BY <3>3, <3>4, <3>5
    <2>3. DOMAIN s = 1 .. Len(s)
      BY <2>2
    <2> QED BY <2>1, <2>2, <2>3
  <1>4. DOMAIN handlers = 1 .. Len(handlers)
    BY <1>1
  <1>5. Last(handlers).type \in SessionEvents /\ Last(handlers).id \in Ids
        /\ Last(handlers).login \in Times
    BY <1>2 DEF Handler
  <1>6. \A k \in 1 .. Len(handlers) - 1 : k \in 1 .. Len(handlers) /\ k # Len(handlers)
    BY <1>1
  <1>7. \A k \in 1 .. Len(handlers) : k # Len(handlers) => k \in 1 .. Len(handlers) - 1
    BY <1>1
  <1> QED BY <1>2, <1>3, <1>4, <1>5, <1>6, <1>7

LEMMA StepProgramsEnd ==
  ASSUME BaseInv, ProgramsEnd
  PROVE  /\ BaseInv' /\ LogStep /\ clock < MaxEvents /\ running
         /\ Queues(Event(Last(handlers).type, Last(handlers).id, Last(handlers).login))
  <1> USE LoggerAssumption DEF LoggerAssumption
  <1>0. OwnTypeOK /\ DaemonInv /\ LoggerInv /\ handlers # <<>> /\ handlers' = Front(handlers)
    BY DEF BaseInv, ProgramsEnd
  <1>1. /\ clock \in Nat /\ Len(handlers) \in Nat \ {0} /\ clock + Len(handlers) <= MaxEvents
    BY <1>0 DEF OwnTypeOK, DaemonInv
  <1>2. clock < MaxEvents
    BY <1>1
  <1>3. Last(handlers).type \in Types /\ Last(handlers).id \in Ids
        /\ Last(handlers).login \in Times \cup {0}
    BY <1>0, LastFront, TypesAre
  <1>4. /\ LoggerInv' /\ LogStep /\ running /\ running' = running
        /\ Queues(Event(Last(handlers).type, Last(handlers).id, Last(handlers).login))
    BY <1>2, <1>3, StepQueues DEF ProgramsEnd
  <1>5. handlers' \in Seq(Handler) /\ Len(handlers') = Len(handlers) - 1
    BY <1>0, LastFront
  <1>6. clock' \in 0 .. MaxEvents /\ clock' + Len(handlers') <= MaxEvents
    BY <1>1, <1>2, <1>5 DEF ProgramsEnd, Tick
  <1>7. Len(handlers') <= MaxNest
    <2>1. Len(handlers) <= MaxNest
      BY <1>0 DEF OwnTypeOK
    <2> QED BY <1>1, <1>5, <2>1, HistoryAssumption DEF HistoryAssumption
  <1>8. OwnTypeOK'
    BY <1>0, <1>5, <1>6, <1>7 DEF OwnTypeOK, ProgramsEnd
  <1>9. DaemonInv'
    BY <1>0, <1>4, <1>6 DEF DaemonInv, ProgramsEnd
  <1> QED BY <1>2, <1>4, <1>8, <1>9 DEF BaseInv

LEMMA StepAction ==
  ASSUME BaseInv, NEW t \in Actions, log_system_action_event(t)
  PROVE  BaseInv' /\ LogStep /\ clock < MaxEvents /\ running /\ Queues(Event(t, 0, 0))
  <1>1. clock < MaxEvents /\ clock + Len(handlers) < MaxEvents /\ Room
    BY RoomIs DEF log_system_action_event, Room
  <1>2. misled => misled'
    BY DEF log_system_action_event
  <1>3. LoggerInv' /\ LogStep /\ running /\ running' = running /\ Queues(Event(t, 0, 0))
    BY <1>1, <1>2, TypesAre, StepQueues DEF log_system_action_event
  <1>4. fate' \in [Times -> Statuses \cup {"none"}]
    BY EndsTypes, StatusesAre DEF log_system_action_event, BaseInv, OwnTypeOK
  <1>5. misled' \in BOOLEAN
    BY DEF log_system_action_event, BaseInv, OwnTypeOK
  <1>6. system' \in {"up", "stopping", "down"} /\ (system' = "down" => ~ running')
    BY <1>3 DEF log_system_action_event, BaseInv, OwnTypeOK, DaemonInv
  <1>7. UNCHANGED <<logins, serial, open, handlers, odd>> /\ clock' = clock + 1
    BY DEF log_system_action_event, daemonvars, Tick
  <1>8. BaseInv'
    BY <1>1, <1>3, <1>4, <1>5, <1>6, <1>7, BaseStays
  <1> QED BY <1>1, <1>3, <1>8

LEMMA StepOther ==
  ASSUME BaseInv, NEW t \in Noise, LogOther(t)
  PROVE  BaseInv' /\ LogStep /\ clock < MaxEvents /\ running /\ Queues(Event(t, 0, 0))
  <1>1. clock < MaxEvents /\ clock + Len(handlers) < MaxEvents /\ Room
    BY RoomIs DEF LogOther, Room
  <1>2. LoggerInv' /\ LogStep /\ running /\ running' = running /\ Queues(Event(t, 0, 0))
    BY <1>1, TypesAre, StepQueues DEF LogOther
  <1>3. UNCHANGED <<system, logins, serial, open, handlers, fate, odd, misled>> /\ clock' = clock + 1
    BY DEF LogOther, daemonvars, Tick
  <1>4. BaseInv'
    BY <1>1, <1>2, <1>3, BaseStays DEF BaseInv, OwnTypeOK, DaemonInv
  <1> QED BY <1>1, <1>2, <1>4

LEMMA StepStop ==
  ASSUME BaseInv, NEW t \in Stops, LogSystemStop(t)
  PROVE  /\ BaseInv' /\ LogStep /\ clock < MaxEvents
         /\ (Keeps /\ lost') \/ Inserts(Event(t, 0, 0))
  <1>1. clock < MaxEvents /\ clock + Len(handlers) < MaxEvents /\ Room
    BY RoomIs DEF LogSystemStop, Room
  <1>2. UNCHANGED <<running, queue, threadvars>> /\ ToolWrites(Event(t, 0, 0)) /\ Tick
    BY DEF LogSystemStop
  <1>3. (misled => misled') /\ (~ misled' => Pending = <<>>) /\ misled' \in BOOLEAN
    BY DEF LogSystemStop
  <1>4. LoggerInv' /\ LogStep /\ ((Keeps /\ lost') \/ Inserts(Event(t, 0, 0)))
    BY <1>1, <1>2, <1>3, TypesAre, StepInserts
  <1>5. fate' \in [Times -> Statuses \cup {"none"}]
    BY EndsTypes, StatusesAre DEF LogSystemStop, BaseInv
  <1>6. UNCHANGED <<logins, serial, open, handlers, odd>> /\ clock' = clock + 1
        /\ system' = "stopping" /\ running' = running
    BY DEF LogSystemStop, daemonvars, Tick
  <1>7. BaseInv'
    BY <1>1, <1>3, <1>4, <1>5, <1>6, BaseStays
  <1> QED BY <1>1, <1>4, <1>7

LEMMA StepStart ==
  ASSUME BaseInv, LogSystemStart
  PROVE  /\ BaseInv' /\ LogStep /\ clock < MaxEvents /\ ~ running
         /\ (Keeps /\ lost') \/ Inserts(Event("SYSTEM_START", 0, 0))
  <1>1. clock < MaxEvents /\ clock + Len(handlers) < MaxEvents /\ Room
    BY RoomIs DEF LogSystemStart, Room
  <1>2. UNCHANGED <<running, queue, threadvars>> /\ ToolWrites(Event("SYSTEM_START", 0, 0)) /\ Tick
    BY DEF LogSystemStart
  <1>3. ~ running /\ Pending = <<>> /\ misled' = misled
    BY NothingPending DEF LogSystemStart, BaseInv, DaemonInv
  <1>4. LoggerInv' /\ LogStep /\ ((Keeps /\ lost') \/ Inserts(Event("SYSTEM_START", 0, 0)))
    BY <1>1, <1>2, <1>3, TypesAre, StepInserts
  <1>5. /\ UNCHANGED <<logins, serial, open, handlers, fate, odd, misled>> /\ clock' = clock + 1
        /\ system' = "up" /\ running' = running
    BY DEF LogSystemStart, daemonvars, Tick
  <1>6. BaseInv'
    BY <1>1, <1>4, <1>5, BaseStays DEF BaseInv, OwnTypeOK
  <1> QED BY <1>1, <1>3, <1>4, <1>6

\* One case per action of HistoryNext.
LEMMA BaseNext ==
  ASSUME BaseInv, [HistoryNext]_historyvars
  PROVE  BaseInv' /\ LogStep
  <1>1. ASSUME NEW i \in Ids, on_seat_session_removed_full(i) PROVE BaseInv' /\ LogStep
    BY <1>1, StepRemoved
  <1>2. ASSUME NEW t \in Actions, log_system_action_event(t) PROVE BaseInv' /\ LogStep
    BY <1>2, StepAction
  <1>3. ASSUME NEW t \in Noise, LogOther(t) PROVE BaseInv' /\ LogStep
    BY <1>3, StepOther
  <1>4. ASSUME NEW t \in Stops, LogSystemStop(t) PROVE BaseInv' /\ LogStep
    BY <1>4, StepStop
  <1> QED BY <1>1, <1>2, <1>3, <1>4, StepStays, StepStartDaemon, StepDaemonDies, StepLogWriter,
             StepGoDown, StepStart, StepRotate, StepAdded, StepProgramsEnd DEF HistoryNext

----------------------------------------------------------------------------
(* Lines and their order.                                                  *)

\* The times of the events that the daemon has logged, and those in whose order the files
\* are: all, until a tool has overtaken the daemon.
LoggedTimes == {x.time : x \in Range(expected)}
Kept == IF misled THEN LoggedTimes ELSE Times

\* No line is from the future; it says all, and whether it can be read depends on the
\* session.
LinesInv ==
  /\ \A x \in Range(expected) : x.time <= clock
  /\ \A l \in Logged : /\ l.time <= clock
                       /\ l.plain = (l.id \notin Odd)
                       /\ l.name = "SEAT_SESSION_ADDED" => l.set = Members(l.name)

\* The files are in the order of time, and so is what is on its way, after them. The
\* daemon's lines are there, once, and only those are on their way. Nothing that counts is
\* in a file after the one the writer thread is about to write to.
OrderInv ==
  /\ \A f \in Inodes : Ordered(text[f], Kept)
  /\ \A f, g \in Inodes : f < g =>
       \A x \in Range(text[f]), y \in Range(text[g]) :
         x.time \in Kept /\ y.time \in Kept => x.time < y.time
  /\ \A l \in Written, e \in Range(Pending) : l.time \in Kept => l.time < e.time
  /\ \A e \in Range(Pending) : e.time \in LoggedTimes
  /\ Increasing(Pending)
  /\ Increasing(expected)
  /\ Range(expected) = {l \in Logged : l.time \in LoggedTimes}
  /\ thread = "write" /\ file \in Inodes =>
       \A g \in Inodes : g > file => \A l \in Range(text[g]) : l.time \notin Kept

\* A line after all others that count keeps the order.
LEMMA OrderedAppend ==
  ASSUME NEW T, NEW s \in Seq(T), NEW n \in T, NEW K, Ordered(s, K),
         \A x \in Range(s) : x.time \in K /\ n.time \in K => x.time < n.time
  PROVE  Ordered(Append(s, n), K)
  <1> DEFINE c == Append(s, n)
  <1>1. /\ DOMAIN c = 1 .. Len(s) + 1 /\ DOMAIN s = 1 .. Len(s) /\ Len(s) \in Nat
        /\ \A i \in 1 .. Len(s) : c[i] = s[i]
        /\ c[Len(s) + 1] = n
    OBVIOUS
  <1> HIDE DEF c
  <1>2. SUFFICES ASSUME NEW i \in DOMAIN c, NEW j \in DOMAIN c, i < j,
                        c[i].time \in K, c[j].time \in K
                 PROVE  c[i].time < c[j].time
    BY DEF Ordered, c
  <1>3. i \in DOMAIN s /\ c[i] = s[i] /\ c[i] \in Range(s)
    BY <1>1, <1>2 DEF Range
  <1>4. CASE j = Len(s) + 1
    BY <1>1, <1>2, <1>3, <1>4
  <1>5. CASE j # Len(s) + 1
    BY <1>1, <1>2, <1>3, <1>5 DEF Ordered
  <1> QED BY <1>4, <1>5

\* The first of a sequence and the others.
LEMMA TailIs ==
  ASSUME NEW T, NEW s \in Seq(T), s # <<>>
  PROVE  /\ Head(s) \in T /\ Tail(s) \in Seq(T)
         /\ Range(s) = {Head(s)} \cup Range(Tail(s))
         /\ Increasing(s) => /\ Increasing(Tail(s))
                             /\ \A x \in Range(Tail(s)) : Head(s).time < x.time
  <1> DEFINE u == Tail(s)
  <1>1. /\ Head(s) = s[1] /\ 1 \in DOMAIN s /\ Head(s) \in T /\ u \in Seq(T)
        /\ DOMAIN s = 1 .. Len(s) /\ DOMAIN u = 1 .. Len(s) - 1 /\ Len(s) \in Nat
        /\ \A k \in 1 .. Len(s) - 1 : u[k] = s[k + 1]
    OBVIOUS
  <1> HIDE DEF u
  <1>2. \A k \in DOMAIN u : k + 1 \in DOMAIN s /\ 1 < k + 1 /\ u[k] = s[k + 1]
    BY <1>1
  <1>3. \A k \in DOMAIN s : k # 1 => k - 1 \in DOMAIN u /\ u[k - 1] = s[k]
    BY <1>1
  <1>4. Range(s) = {Head(s)} \cup Range(u)
    BY <1>1, <1>2, <1>3 DEF Range
  <1>5. ASSUME Increasing(s), NEW x \in Range(u) PROVE Head(s).time < x.time
    BY <1>1, <1>2, <1>5 DEF Range, Increasing
  <1>6. ASSUME Increasing(s) PROVE Increasing(u)
    <2> SUFFICES ASSUME NEW i \in DOMAIN u, NEW j \in DOMAIN u, i < j
                 PROVE  u[i].time < u[j].time
      BY DEF Increasing
    <2>1. i + 1 < j + 1
      BY <1>1
    <2> QED BY <1>2, <1>6, <2>1 DEF Increasing
  <1> QED BY <1>1, <1>4, <1>5, <1>6 DEF u

\* Everything in the log is a line, and has a time.
LEMMA LinesTyped ==
  ASSUME LoggerInv
  PROVE  /\ \A l \in Logged : l \in LinesOf(Times, Ids) /\ l.time \in Times
         /\ \A f \in Inodes : \A x \in Range(text[f]) : x \in Written
         /\ \A x \in Range(expected) : x \in LinesOf(Times, Ids) /\ x.time \in Times
         /\ \A e \in Range(Pending) : /\ e \in EventsOf(Times, Ids) /\ Line(e) \in Logged
                                      /\ Line(e).time = e.time
         /\ Written \subseteq Logged
  <1>1. \A l \in LinesOf(Times, Ids) : l.time \in Times
    BY DEF LinesOf
  <1>2. \A e \in Range(Pending) : e \in EventsOf(Times, Ids)
    BY PendingType DEF Range
  <1>3. \A e \in Range(Pending) : /\ Line(e) \in LinesOf(Times, Ids) /\ Line(e) \in Logged
                                  /\ Line(e).time = e.time
    BY <1>2, LineIs DEF Logged
  <1>4. \A x \in Range(expected) : x \in LinesOf(Times, Ids)
    BY DEF LoggerInv, LoggerTypeOK, Range
  <1>5. \A f \in Inodes : \A x \in Range(text[f]) : x \in LinesOf(Times, Ids)
    BY DEF LoggerInv, LoggerTypeOK, Range
  <1>6. \A f \in Inodes : \A x \in Range(text[f]) : x \in Written
    BY <1>5 DEF Written
  <1>7. \A l \in Logged : l \in LinesOf(Times, Ids)
    BY <1>3 DEF Logged, Written
  <1> QED BY <1>1, <1>2, <1>3, <1>4, <1>6, <1>7 DEF Logged

\* A line is added to a file.
LEMMA TextAppend ==
  ASSUME LoggerInv, NEW i \in Inodes, NEW n \in LinesOf(Times, Ids),
         text' = [text EXCEPT ![i] = Append(@, n)]
  PROVE  /\ \A f \in Inodes : f # i => text'[f] = text[f]
         /\ text'[i] = Append(text[i], n) /\ text[i] \in Seq(LinesOf(Times, Ids))
         /\ Range(text'[i]) = Range(text[i]) \cup {n}
         /\ Written' = Written \cup {n}
  <1>1. text \in [Inodes -> Seq(LinesOf(Times, Ids))]
    BY DEF LoggerInv, LoggerTypeOK
  <1>2. /\ \A f \in Inodes : f # i => text'[f] = text[f]
        /\ text'[i] = Append(text[i], n) /\ text[i] \in Seq(LinesOf(Times, Ids))
    BY <1>1
  <1>3. Range(text'[i]) = Range(text[i]) \cup {n}
    BY <1>2, RangeAppend
  <1>4. ASSUME NEW l \in LinesOf(Times, Ids)
        PROVE  (\E f \in Inodes : l \in Range(text'[f]))
                 <=> (\E f \in Inodes : l \in Range(text[f])) \/ l = n
    BY <1>2, <1>3
  <1>5. Written' = {l \in LinesOf(Times, Ids) : \E f \in Inodes : l \in Range(text'[f])}
    BY DEF Written
  <1>6. Written' = Written \cup {n}
    BY <1>4, <1>5 DEF Written
  <1> QED BY <1>2, <1>3, <1>6

\* What each kind of step does to the set of lines: it stays, or there is one more.
LEMMA KeepsLogged ==
  ASSUME LoggerInv, Keeps
  PROVE  Written' = Written /\ Logged' \subseteq Logged /\ (~ lost' => Logged' = Logged)
  <1>1. Written' = Written
    BY DEF Keeps, Written
  <1>2. Logged' = Written' \cup {Line(e) : e \in Range(Pending')}
    BY DEF Logged, Line, ck_log_event_to_string
  <1>3. Range(Pending') \subseteq Range(Pending) /\ (~ lost' => Range(Pending') = Range(Pending))
    BY DEF Keeps
  <1> QED BY <1>1, <1>2, <1>3 DEF Logged

LEMMA QueuesLogged ==
  ASSUME LoggerInv, NEW e \in EventsOf(Times, Ids), Queues(e)
  PROVE  Written' = Written /\ Logged' = Logged \cup {Line(e)}
  <1>1. Written' = Written
    BY DEF Queues, Written
  <1>2. Logged' = Written' \cup {Line(d) : d \in Range(Pending')}
    BY DEF Logged, Line, ck_log_event_to_string
  <1>3. Range(Pending') = Range(Pending) \cup {e}
    BY PendingType, RangeAppend DEF Queues
  <1> QED BY <1>1, <1>2, <1>3 DEF Logged

LEMMA WritesLogged ==
  ASSUME LoggerInv, Writes
  PROVE  /\ Head(Pending) \in EventsOf(Times, Ids) /\ Line(Head(Pending)) \in LinesOf(Times, Ids)
         /\ Written' = Written \cup {Line(Head(Pending))} /\ Logged' = Logged
  <1>1. /\ Head(Pending) \in EventsOf(Times, Ids)
        /\ Range(Pending) = {Head(Pending)} \cup Range(Tail(Pending))
    BY PendingType, TailIs DEF Writes
  <1>2. Line(Head(Pending)) \in LinesOf(Times, Ids)
    BY <1>1, LineIs
  <1>3. Written' = Written \cup {Line(Head(Pending))}
    BY <1>2, TextAppend DEF Writes
  <1>4. Logged' = Written' \cup {Line(d) : d \in Range(Pending')}
    BY DEF Logged, Line, ck_log_event_to_string
  <1>5. Range(Pending') = Range(Tail(Pending))
    BY DEF Writes
  <1> QED BY <1>1, <1>2, <1>3, <1>4, <1>5 DEF Logged

LEMMA InsertsLogged ==
  ASSUME LoggerInv, NEW e, Line(e) \in LinesOf(Times, Ids), Inserts(e)
  PROVE  Written' = Written \cup {Line(e)} /\ Logged' = Logged \cup {Line(e)}
  <1>1. Written' = Written \cup {Line(e)}
    BY TextAppend DEF Inserts
  <1>2. Logged' = Written' \cup {Line(d) : d \in Range(Pending')}
    BY DEF Logged, Line, ck_log_event_to_string
  <1>3. Range(Pending') = Range(Pending)
    BY DEF Inserts
  <1> QED BY <1>1, <1>2, <1>3 DEF Logged

\* The line of a new event.
LEMMA NewLine ==
  ASSUME BaseInv, clock < MaxEvents, NEW t \in Types, NEW i \in Ids, NEW l \in Times \cup {0}
  PROVE  /\ Event(t, i, l) \in EventsOf(Times, Ids)
         /\ Event(t, i, l).time = clock + 1
         /\ Line(Event(t, i, l)) \in LinesOf(Times, Ids)
         /\ Line(Event(t, i, l)).time = clock + 1
         /\ Line(Event(t, i, l)).name = event_type_to_name(t)
         /\ Line(Event(t, i, l)).id = i /\ Line(Event(t, i, l)).login = l
         /\ Line(Event(t, i, l)).plain = (i \notin Odd)
         /\ Line(Event(t, i, l)).name = "SEAT_SESSION_ADDED" =>
              Line(Event(t, i, l)).set = Members("SEAT_SESSION_ADDED")
  <1>1. clock \in 0 .. MaxEvents
    BY DEF BaseInv, OwnTypeOK
  <1> DEFINE n == [name |-> event_type_to_name(t), time |-> clock + 1, id |-> i,
                   login |-> l, set |-> Members(t), plain |-> i \notin Odd]
  <1>2. /\ Event(t, i, l) \in EventsOf(Times, Ids) /\ Event(t, i, l).time = clock + 1
        /\ Line(Event(t, i, l)) \in LinesOf(Times, Ids) /\ Line(Event(t, i, l)) = n
    BY <1>1, EventIs
  <1>3. /\ n.time = clock + 1 /\ n.name = event_type_to_name(t) /\ n.id = i /\ n.login = l
        /\ n.plain = (i \notin Odd) /\ n.set = Members(t)
    OBVIOUS
  <1>4. event_type_to_name(t) = "SEAT_SESSION_ADDED" => t = "SEAT_SESSION_ADDED"
    BY DEF event_type_to_name
  <1> HIDE DEF n
  <1> QED BY <1>2, <1>3, <1>4

\* Times are positive numbers.
LEMMA TimesAreNumbers ==
  ASSUME BaseInv
  PROVE  clock \in Nat /\ \A t \in Times : t \in Nat /\ t >= 1
  BY LoggerAssumption DEF BaseInv, OwnTypeOK, Times, LoggerAssumption

\* New lines are of the present and say all there is.
LEMMA LinesNext ==
  ASSUME BaseInv, LinesInv, LogStep
  PROVE  LinesInv'
  <1>0. LoggerInv /\ clock \in Nat
    BY TimesAreNumbers DEF BaseInv
  <1>1. CASE Keeps /\ (clock' = clock \/ clock' = clock + 1)
    <2>1. Logged' \subseteq Logged /\ Range(expected') \subseteq Range(expected)
      BY <1>0, <1>1, KeepsLogged DEF Keeps
    <2>2. \A t \in Times : t <= clock => t <= clock'
      BY <1>0, <1>1, TimesAreNumbers
    <2>3. /\ \A l \in Logged : l.time \in Times
          /\ \A x \in Range(expected) : x.time \in Times
      BY <1>0, LinesTyped
    <2> QED BY <2>1, <2>2, <2>3 DEF LinesInv
  <1>2. CASE Writes /\ clock' = clock
    <2>1. Logged' = Logged /\ expected' = expected
      BY <1>0, <1>2, WritesLogged DEF Writes
    <2> QED BY <1>2, <2>1 DEF LinesInv
  <1>3. ASSUME NEW t \in Types, NEW i \in Ids, NEW l \in Times \cup {0},
               clock' = clock + 1, clock < MaxEvents,
               Queues(Event(t, i, l)) \/ Inserts(Event(t, i, l))
        PROVE  LinesInv'
    <2> DEFINE e == Event(t, i, l)
               n == Line(e)
    <2>1. /\ e \in EventsOf(Times, Ids) /\ n \in LinesOf(Times, Ids) /\ n.time = clock + 1
          /\ n.plain = (n.id \notin Odd)
          /\ n.name = "SEAT_SESSION_ADDED" => n.set = Members("SEAT_SESSION_ADDED")
      BY <1>3, NewLine
    <2> HIDE DEF n
    <2>2. Logged' = Logged \cup {n}
      <3> HIDE DEF e
      <3>1. Queues(e) \/ Inserts(e)
        BY <1>3 DEF e
      <3> QED BY <1>0, <2>1, <3>1, QueuesLogged, InsertsLogged DEF n
    <2>3. Range(expected') \subseteq Range(expected) \cup {n}
      <3> HIDE DEF e
      <3>1. CASE Queues(e)
        <4>1. expected \in Seq(LinesOf(Times, Ids)) /\ expected' = Append(expected, n)
          BY <1>0, <3>1 DEF LoggerInv, LoggerTypeOK, Queues, n
        <4> QED BY <2>1, <4>1, RangeAppend
      <3>2. CASE Inserts(e)
        BY <3>2 DEF Inserts
      <3> QED BY <1>3, <3>1, <3>2 DEF e
    <2>4. \A u \in Times : u <= clock => u <= clock'
      BY <1>0, <1>3, TimesAreNumbers
    <2>5. /\ \A m \in Logged : m.time \in Times
          /\ \A x \in Range(expected) : x.time \in Times
      BY <1>0, LinesTyped
    <2>6. n.time <= clock'
      BY <1>0, <1>3, <2>1
    <2>7. \A x \in Range(expected') : x.time <= clock'
      BY <2>3, <2>4, <2>5, <2>6 DEF LinesInv
    <2>8. \A m \in Logged' : /\ m.time <= clock'
                             /\ m.plain = (m.id \notin Odd)
                             /\ m.name = "SEAT_SESSION_ADDED" => m.set = Members(m.name)
      BY <2>1, <2>2, <2>4, <2>5, <2>6 DEF LinesInv
    <2> QED BY <2>7, <2>8 DEF LinesInv, Members
  <1> QED BY <1>1, <1>2, <1>3 DEF LogStep

----------------------------------------------------------------------------
\* What counts is fewer than before, or the new time in addition.
LEMMA KeptShrinks ==
  ASSUME BaseInv, misled => misled', expected' = expected
  PROVE  /\ LoggedTimes' = LoggedTimes
         /\ \A t : t \in Kept' => t \in Kept
  <1>1. LoggedTimes' = LoggedTimes
    BY DEF LoggedTimes
  <1>2. \A t \in LoggedTimes : t \in Times
    BY LinesTyped DEF LoggedTimes, BaseInv
  <1> QED BY <1>1, <1>2 DEF Kept

\* Order, for each kind of step: the line that is queued has the latest time, the one that is
\* written comes after all that count, and a tool that overtakes the daemon spoils the order
\* of its own line only (misled).
LEMMA OrderKeeps ==
  ASSUME BaseInv, OrderInv, Keeps, ~ lost', misled => misled'
  PROVE  OrderInv'
  <1>1. /\ text' = text /\ Pending' = Pending /\ expected' = expected
        /\ Written' = Written /\ Logged' = Logged
        /\ LoggedTimes' = LoggedTimes /\ \A t : t \in Kept' => t \in Kept
    BY KeepsLogged, KeptShrinks DEF Keeps, BaseInv
  <1>2. \A f \in Inodes : Ordered(text'[f], Kept')
    BY <1>1 DEF OrderInv, Ordered
  <1>3. \A f, g \in Inodes : f < g =>
          \A x \in Range(text'[f]), y \in Range(text'[g]) :
            x.time \in Kept' /\ y.time \in Kept' => x.time < y.time
    BY <1>1 DEF OrderInv
  <1>4. \A l \in Written', e \in Range(Pending') : l.time \in Kept' => l.time < e.time
    BY <1>1 DEF OrderInv
  <1>5. Increasing(Pending') /\ Increasing(expected')
    BY <1>1 DEF OrderInv
  <1>6. Range(expected') = {l \in Logged' : l.time \in LoggedTimes'}
    BY <1>1 DEF OrderInv
  <1>7. thread' = "write" /\ file' \in Inodes =>
          \A g \in Inodes : g > file' => \A l \in Range(text'[g]) : l.time \notin Kept'
    <2>1. \A g \in Inodes : text[g] = <<>> => Range(text[g]) = {}
      BY DEF Range
    <2> QED BY <1>1, <2>1 DEF OrderInv, Keeps
  <1>8. \A d \in Range(Pending') : d.time \in LoggedTimes'
    BY <1>1 DEF OrderInv
  <1> QED BY <1>2, <1>3, <1>4, <1>5, <1>6, <1>7, <1>8 DEF OrderInv, Increasing

LEMMA OrderQueues ==
  ASSUME BaseInv, LinesInv, OrderInv, NEW t \in Types, NEW i \in Ids, NEW l \in Times \cup {0},
         clock < MaxEvents, Queues(Event(t, i, l)), misled => misled'
  PROVE  OrderInv'
  <1> DEFINE e == Event(t, i, l)
             n == Line(e)
  <1>1. /\ e \in EventsOf(Times, Ids) /\ n \in LinesOf(Times, Ids) /\ n.time = clock + 1
        /\ e.time = clock + 1 /\ Queues(e)
    BY NewLine
  <1> HIDE DEF e
  <1>2. /\ text' = text /\ Pending' = Append(Pending, e) /\ expected' = Append(expected, n)
        /\ Written' = Written /\ Logged' = Logged \cup {n} /\ UNCHANGED <<thread, file>>
    BY <1>1, QueuesLogged DEF Queues, BaseInv
  <1> HIDE DEF n
  <1>3. /\ Pending \in Seq(EventsOf(Times, Ids)) /\ expected \in Seq(LinesOf(Times, Ids))
    BY PendingType DEF BaseInv, LoggerInv, LoggerTypeOK
  <1>4. Range(Pending') = Range(Pending) \cup {e} /\ Range(expected') = Range(expected) \cup {n}
    BY <1>1, <1>2, <1>3, RangeAppend
  <1>5. /\ \A m \in Logged : m.time < clock + 1 /\ m.time # clock + 1 /\ m.time \in Times
        /\ \A x \in Range(expected) : x.time < clock + 1 /\ x.time # clock + 1 /\ x.time \in Times
    BY LinesTyped, TimesAreNumbers DEF LinesInv, BaseInv
  <1>6. /\ Written \subseteq Logged /\ \A f \in Inodes : \A x \in Range(text[f]) : x \in Written
        /\ \A d \in Range(Pending) : Line(d) \in Logged /\ Line(d).time = d.time
    BY LinesTyped DEF BaseInv
  <1>7. LoggedTimes' = LoggedTimes \cup {clock + 1}
    BY <1>1, <1>4 DEF LoggedTimes
  <1>8. \A u \in Times : u \in Kept' /\ u # clock + 1 => u \in Kept
    BY <1>7 DEF Kept
  <1>9. \A f \in Inodes : Ordered(text'[f], Kept')
    <2> SUFFICES ASSUME NEW f \in Inodes PROVE Ordered(text[f], Kept')
      BY <1>2
    <2>1. \A k \in DOMAIN text[f] : text[f][k].time \in Kept' => text[f][k].time \in Kept
      BY <1>5, <1>6, <1>8 DEF Range
    <2>2. Ordered(text[f], Kept)
      BY DEF OrderInv
    <2> QED BY <2>1, <2>2 DEF Ordered
  <1>10. \A f, g \in Inodes : f < g =>
           \A x \in Range(text'[f]), y \in Range(text'[g]) :
             x.time \in Kept' /\ y.time \in Kept' => x.time < y.time
    BY <1>2, <1>5, <1>6, <1>8 DEF OrderInv
  <1>11. \A m \in Written', d \in Range(Pending') : m.time \in Kept' => m.time < d.time
    BY <1>1, <1>2, <1>4, <1>5, <1>6, <1>8 DEF OrderInv
  <1>12. Increasing(Pending')
    <2>1. \A d \in Range(Pending) : d.time < e.time
      BY <1>1, <1>5, <1>6
    <2> QED BY <1>1, <1>2, <1>3, <2>1, IncreasingAppend DEF OrderInv
  <1>13. Increasing(expected')
    <2>1. \A x \in Range(expected) : x.time < n.time
      BY <1>1, <1>5
    <2> QED BY <1>1, <1>2, <1>3, <2>1, IncreasingAppend DEF OrderInv
  <1>14. Range(expected') = {m \in Logged' : m.time \in LoggedTimes'}
    <2>1. Range(expected) = {m \in Logged : m.time \in LoggedTimes}
      BY DEF OrderInv
    <2> QED BY <1>1, <1>2, <1>4, <1>5, <1>7, <2>1
  <1>15. thread' = "write" /\ file' \in Inodes =>
           \A g \in Inodes : g > file' => \A m \in Range(text'[g]) : m.time \notin Kept'
    BY <1>2, <1>5, <1>6, <1>8 DEF OrderInv
  <1>16. \A d \in Range(Pending') : d.time \in LoggedTimes'
    BY <1>1, <1>4, <1>7 DEF OrderInv
  <1> QED BY <1>9, <1>10, <1>11, <1>12, <1>13, <1>14, <1>15, <1>16 DEF OrderInv, Increasing

LEMMA OrderWrites ==
  ASSUME BaseInv, LinesInv, OrderInv, Writes, misled => misled'
  PROVE  OrderInv'
  <1> DEFINE n == Line(Head(Pending))
             i == file
  <1>1. /\ n \in LinesOf(Times, Ids) /\ Head(Pending) \in EventsOf(Times, Ids)
        /\ Written' = Written \cup {n} /\ Logged' = Logged
    BY WritesLogged DEF BaseInv
  <1>2. n.time = Head(Pending).time
    BY <1>1, LineIs
  <1>3. /\ Pending \in Seq(EventsOf(Times, Ids)) /\ Pending # <<>> /\ Pending' = Tail(Pending)
        /\ expected' = expected /\ thread' = "pop" /\ thread = "write" /\ file \in Inodes
        /\ text' = [text EXCEPT ![file] = Append(@, n)]
    BY PendingType DEF Writes, BaseInv
  <1> HIDE DEF n
  <1>4. /\ Range(Pending) = {Head(Pending)} \cup Range(Pending') /\ Increasing(Pending')
        /\ \A d \in Range(Pending') : Head(Pending).time < d.time
    BY <1>3, TailIs DEF OrderInv
  <1>5. LoggedTimes' = LoggedTimes /\ \A u : u \in Kept' => u \in Kept
    BY <1>3, KeptShrinks
  <1>6. /\ \A f \in Inodes : f # i => text'[f] = text[f]
        /\ text'[i] = Append(text[i], n) /\ text[i] \in Seq(LinesOf(Times, Ids))
        /\ Range(text'[i]) = Range(text[i]) \cup {n}
    BY <1>1, <1>3, TextAppend DEF BaseInv
  <1>7. /\ \A f \in Inodes : \A x \in Range(text[f]) : x \in Written
        /\ i \in Inodes
    BY <1>3, LinesTyped DEF BaseInv
  <1>8. \A m \in Written : m.time \in Kept' => m.time < n.time
    BY <1>2, <1>4, <1>5 DEF OrderInv
  <1> HIDE DEF i
  <1>9. \A f \in Inodes : Ordered(text'[f], Kept')
    <2> SUFFICES ASSUME NEW f \in Inodes PROVE Ordered(text'[f], Kept')
      OBVIOUS
    <2>1. Ordered(text[f], Kept')
      BY <1>5 DEF OrderInv, Ordered
    <2>2. CASE f # i
      BY <1>6, <2>1, <2>2
    <2>3. CASE f = i
      <3>1. \A x \in Range(text[i]) : x.time \in Kept' /\ n.time \in Kept' => x.time < n.time
        BY <1>7, <1>8
      <3> QED BY <1>1, <1>6, <2>1, <2>3, <3>1, OrderedAppend
    <2> QED BY <2>2, <2>3
  <1>10. \A f, g \in Inodes : f < g =>
           \A x \in Range(text'[f]), y \in Range(text'[g]) :
             x.time \in Kept' /\ y.time \in Kept' => x.time < y.time
    <2> SUFFICES ASSUME NEW f \in Inodes, NEW g \in Inodes, f < g,
                        NEW x \in Range(text'[f]), NEW y \in Range(text'[g]),
                        x.time \in Kept', y.time \in Kept'
                 PROVE  x.time < y.time
      OBVIOUS
    <2>1. CASE f # i /\ g # i
      BY <1>5, <1>6, <2>1 DEF OrderInv
    <2>2. CASE f = i
      <3>1. g # i /\ g > i
        BY <2>2 DEF Inodes
      <3>2. y.time \notin Kept
        BY <1>3, <1>6, <3>1 DEF OrderInv, i
      <3> QED BY <1>5, <3>2
    <2>3. CASE f # i /\ g = i
      <3>1. CASE y = n
        BY <1>6, <1>7, <1>8, <2>3, <3>1
      <3>2. CASE y # n
        BY <1>5, <1>6, <2>3, <3>2 DEF OrderInv
      <3> QED BY <3>1, <3>2
    <2> QED BY <2>1, <2>2, <2>3
  <1>11. \A m \in Written', d \in Range(Pending') : m.time \in Kept' => m.time < d.time
    BY <1>1, <1>2, <1>4, <1>5 DEF OrderInv
  <1>12. Increasing(expected') /\ Range(expected') = {m \in Logged' : m.time \in LoggedTimes'}
    BY <1>1, <1>3, <1>5 DEF OrderInv
  <1>13. \A d \in Range(Pending') : d.time \in LoggedTimes'
    BY <1>4, <1>5 DEF OrderInv
  <1> QED BY <1>3, <1>4, <1>9, <1>10, <1>11, <1>12, <1>13 DEF OrderInv, Increasing

\* What the writer thread holds is on its way.
LEMMA TakenPending ==
  ASSUME LoggerInv, thread = "write"
  PROVE  Pending # <<>>
  <1> DEFINE E == EventsOf(Times, Ids)
             x == Head(taken)
  <1>1. taken \in Seq(E) /\ queue \in Seq(E) /\ Len(taken) = 1
    BY DEF LoggerInv, LoggerTypeOK, WriterInv
  <1>2. taken = <<x>> /\ x \in E /\ queue \in Seq(E)
    BY <1>1
  <1> HIDE DEF E, x
  <1>3. <<x>> \o queue # <<>>
    BY <1>2
  <1> QED BY <1>2, <1>3 DEF Pending

LEMMA OrderInserts ==
  ASSUME BaseInv, LinesInv, OrderInv, NEW t \in Types, NEW k \in Ids, NEW l \in Times \cup {0},
         clock < MaxEvents, Inserts(Event(t, k, l)), misled => misled',
         ~ misled' => Pending = <<>>
  PROVE  OrderInv'
  <1> DEFINE e == Event(t, k, l)
             n == Line(e)
  <1>1. n \in LinesOf(Times, Ids) /\ n.time = clock + 1 /\ Inserts(e)
    BY NewLine
  <1> HIDE DEF e
  <1>2. /\ Written' = Written \cup {n} /\ Logged' = Logged \cup {n}
        /\ Pending' = Pending /\ UNCHANGED <<expected, thread, file>>
    BY <1>1, InsertsLogged DEF Inserts, BaseInv
  <1>3. PICK i \in Inodes : /\ text' = [text EXCEPT ![i] = Append(@, n)]
                            /\ \A f \in Inodes : f > i => text[f] = <<>>
    BY <1>1 DEF Inserts
  <1> HIDE DEF n
  <1>4. /\ \A f \in Inodes : f # i => text'[f] = text[f]
        /\ text'[i] = Append(text[i], n) /\ text[i] \in Seq(LinesOf(Times, Ids))
        /\ Range(text'[i]) = Range(text[i]) \cup {n}
    BY <1>1, <1>3, TextAppend DEF BaseInv
  <1>5. LoggedTimes' = LoggedTimes /\ \A u : u \in Kept' => u \in Kept
    BY <1>2, KeptShrinks
  <1>6. /\ \A m \in Logged : m.time < clock + 1
        /\ clock + 1 \notin LoggedTimes
    BY LinesTyped, TimesAreNumbers DEF LinesInv, BaseInv, LoggedTimes
  <1>7. /\ Written \subseteq Logged /\ \A f \in Inodes : \A x \in Range(text[f]) : x \in Written
    BY LinesTyped DEF BaseInv
  <1>8. n.time \notin Kept' \/ Pending = <<>>
    BY <1>1, <1>5, <1>6 DEF Kept
  <1>9. \A f \in Inodes : Ordered(text'[f], Kept')
    <2> SUFFICES ASSUME NEW f \in Inodes PROVE Ordered(text'[f], Kept')
      OBVIOUS
    <2>1. Ordered(text[f], Kept')
      BY <1>5 DEF OrderInv, Ordered
    <2>2. CASE f # i
      BY <1>4, <2>1, <2>2
    <2>3. CASE f = i
      <3>1. \A x \in Range(text[i]) : x.time < n.time
        BY <1>1, <1>6, <1>7
      <3> QED BY <1>1, <1>4, <2>1, <2>3, <3>1, OrderedAppend
    <2> QED BY <2>2, <2>3
  <1>10. \A f, g \in Inodes : f < g =>
           \A x \in Range(text'[f]), y \in Range(text'[g]) :
             x.time \in Kept' /\ y.time \in Kept' => x.time < y.time
    <2> SUFFICES ASSUME NEW f \in Inodes, NEW g \in Inodes, f < g,
                        NEW x \in Range(text'[f]), NEW y \in Range(text'[g]),
                        x.time \in Kept', y.time \in Kept'
                 PROVE  x.time < y.time
      OBVIOUS
    <2>1. CASE f # i /\ g # i
      BY <1>4, <1>5, <2>1 DEF OrderInv
    <2>2. CASE f = i
      <3>1. g # i /\ g > i
        BY <2>2 DEF Inodes
      <3>2. text'[g] = <<>>
        BY <1>3, <1>4, <3>1
      <3> QED BY <3>2 DEF Range
    <2>3. CASE f # i /\ g = i
      <3>1. CASE y = n
        BY <1>1, <1>4, <1>6, <1>7, <2>3, <3>1
      <3>2. CASE y # n
        BY <1>4, <1>5, <2>3, <3>2 DEF OrderInv
      <3> QED BY <3>1, <3>2
    <2> QED BY <2>1, <2>2, <2>3
  <1>11. \A m \in Written', d \in Range(Pending') : m.time \in Kept' => m.time < d.time
    <2>1. Pending = <<>> => Range(Pending) = {}
      BY DEF Range
    <2> QED BY <1>2, <1>5, <1>8, <2>1 DEF OrderInv
  <1>12. Increasing(Pending') /\ Increasing(expected')
    BY <1>2 DEF OrderInv
  <1>13. Range(expected') = {m \in Logged' : m.time \in LoggedTimes'}
    <2>1. Range(expected) = {m \in Logged : m.time \in LoggedTimes}
      BY DEF OrderInv
    <2> QED BY <1>1, <1>2, <1>5, <1>6, <2>1
  <1>14. thread' = "write" /\ file' \in Inodes =>
           \A g \in Inodes : g > file' => \A m \in Range(text'[g]) : m.time \notin Kept'
    <2> SUFFICES ASSUME thread = "write", file \in Inodes, NEW g \in Inodes, g > file,
                        NEW m \in Range(text'[g]), m.time \in Kept'
                 PROVE  FALSE
      BY <1>2
    <2>1. Pending # <<>>
      BY TakenPending DEF BaseInv
    <2>2. m # n
      BY <1>8, <2>1
    <2>3. m \in Range(text[g])
      BY <1>4, <2>2
    <2> QED BY <1>5, <2>3 DEF OrderInv
  <1>15. \A d \in Range(Pending') : d.time \in LoggedTimes'
    BY <1>2, <1>5 DEF OrderInv
  <1> QED BY <1>9, <1>10, <1>11, <1>12, <1>13, <1>14, <1>15 DEF OrderInv, Increasing

\* Order is kept by every step, as long as nothing is lost.
LEMMA OrderNext ==
  ASSUME BaseInv, LinesInv, ~ lost => OrderInv, LogStep
  PROVE  ~ lost' => OrderInv'
  <1> SUFFICES ASSUME ~ lost' PROVE OrderInv'
    OBVIOUS
  <1>1. OrderInv
    BY DEF LogStep
  <1>2. CASE Keeps
    BY <1>1, <1>2, OrderKeeps DEF LogStep
  <1>3. CASE Writes
    BY <1>1, <1>3, OrderWrites DEF LogStep
  <1>4. ASSUME NEW t \in Types, NEW i \in Ids, NEW l \in Times \cup {0}, clock < MaxEvents,
               \/ Queues(Event(t, i, l))
               \/ Inserts(Event(t, i, l)) /\ (~ misled' => Pending = <<>>)
        PROVE  OrderInv'
    BY <1>1, <1>4, OrderQueues, OrderInserts DEF LogStep
  <1> QED BY <1>2, <1>3, <1>4 DEF LogStep

\* The inductive invariant: types, lines, and their order unless something is lost.
HistoryInv == BaseInv /\ LinesInv /\ (~ lost => OrderInv)

\* The inductive invariant, initially and for every step.
LEMMA HistoryStart == HistoryInit => HistoryInv
  <1> SUFFICES ASSUME HistoryInit PROVE HistoryInv
    OBVIOUS
  <1>1. BaseInv
    BY BaseStart
  <1>2. /\ \A f \in Inodes : text[f] = <<>>
        /\ expected = <<>> /\ taken = <<>> /\ queue = <<>> /\ thread = "none"
    BY DEF HistoryInit, LoggerInit
  <1>3. Range(<<>>) = {} /\ \A K : Ordered(<<>>, K) /\ Increasing(<<>>)
    BY DEF Range, Ordered, Increasing
  <1>4. Pending = <<>>
    BY <1>2 DEF Pending
  <1>5. Written = {}
    BY <1>2, <1>3 DEF Written
  <1>6. Logged = {}
    BY <1>3, <1>4, <1>5 DEF Logged
  <1>7. LinesInv
    BY <1>2, <1>3, <1>6 DEF LinesInv
  <1>8. \A f \in Inodes : Ordered(text[f], Kept)
    BY <1>2, <1>3
  <1>9. \A f, g \in Inodes : f < g =>
          \A x \in Range(text[f]), y \in Range(text[g]) :
            x.time \in Kept /\ y.time \in Kept => x.time < y.time
    BY <1>2, <1>3
  <1>10. OrderInv
    BY <1>2, <1>3, <1>4, <1>5, <1>6, <1>8, <1>9 DEF OrderInv
  <1> QED BY <1>1, <1>7, <1>10 DEF HistoryInv

LEMMA HistoryStep == HistoryInv /\ [HistoryNext]_historyvars => HistoryInv'
  <1> SUFFICES ASSUME HistoryInv, [HistoryNext]_historyvars PROVE HistoryInv'
    OBVIOUS
  <1>1. BaseInv' /\ LogStep
    BY BaseNext DEF HistoryInv
  <1>2. LinesInv'
    BY <1>1, LinesNext DEF HistoryInv
  <1>3. ~ lost' => OrderInv'
    BY <1>1, OrderNext DEF HistoryInv
  <1> QED BY <1>1, <1>2, <1>3 DEF HistoryInv

\* The invariant holds in every reachable state.
LEMMA HistoryInvHolds == HistorySpec => []HistoryInv
  BY HistoryStart, HistoryStep, PTL DEF HistorySpec

\* The types of the logger, of its writer thread and of the history are right in every
\* reachable state (HistoryTypeOK): no file, event or session id is out of range.
THEOREM HistoryTypeCorrect == HistorySpec => []HistoryTypeOK
  <1>1. HistoryInv => HistoryTypeOK
    BY BaseIs DEF HistoryInv
  <1> QED BY <1>1, HistoryInvHolds, PTL

----------------------------------------------------------------------------
\* The lines whose times are in K are in the order of time, from file to file.
TextOrdered(K) ==
  /\ \A f \in Inodes : Ordered(text[f], K)
  /\ \A f, g \in Inodes : f < g =>
       \A x \in Range(text[f]), y \in Range(text[g]) :
         x.time \in K /\ y.time \in K => x.time < y.time

\* A sequence turned round.
LEMMA ReverseIs ==
  ASSUME NEW T, NEW s \in Seq(T)
  PROVE  /\ Reverse(s) \in Seq(T) /\ Len(Reverse(s)) = Len(s)
         /\ \A i \in 1 .. Len(s) : Reverse(s)[i] = s[Len(s) - i + 1]
  BY DEF Reverse

\* The files are those that were made, in that order.
LEMMA FilesAre ==
  ASSUME LoggerInv
  PROVE  Files \in Seq(Inodes) /\ DOMAIN Files = 1 .. made /\ \A n \in 1 .. made : Files[n] = n
  <1>1. /\ rotated \in Seq(Inodes) /\ made \in 0 .. MaxFiles /\ MaxFiles \in Nat
        /\ path \in Inodes \cup {NoFile}
    BY LoggerAssumption DEF LoggerInv, LoggerTypeOK, LoggerAssumption
  <1>2. /\ path \in {NoFile, made}
        /\ Len(rotated) = IF path = NoFile THEN made ELSE made - 1
        /\ \A k \in DOMAIN rotated : rotated[k] = Len(rotated) + 1 - k
    BY DEF LoggerInv, FilesInv
  <1> DEFINE r == Reverse(rotated)
             N == Len(rotated)
  <1>3. /\ r \in Seq(Inodes) /\ Len(r) = N /\ N \in Nat
        /\ \A i \in 1 .. N : r[i] = rotated[N - i + 1]
    BY <1>1, ReverseIs
  <1>4. \A i \in 1 .. N : r[i] = i
    <2> SUFFICES ASSUME NEW i \in 1 .. N PROVE r[i] = i
      OBVIOUS
    <2>1. N - i + 1 \in DOMAIN rotated
      BY <1>1, <1>3
    <2>2. rotated[N - i + 1] = N + 1 - (N - i + 1)
      BY <1>2, <2>1
    <2> QED BY <1>3, <2>2
  <1> HIDE DEF r
  <1>5. CASE path = NoFile
    <2>1. N = made /\ Files = r \o <<>>
      BY <1>2, <1>5 DEF Files, r
    <2>2. r \o <<>> = r
      BY <1>3
    <2> QED BY <1>3, <1>4, <2>1, <2>2
  <1>6. CASE path # NoFile
    <2>1. N = made - 1 /\ Files = r \o <<path>> /\ path = made /\ path \in Inodes
      BY <1>1, <1>2, <1>6 DEF Files, r
    <2> HIDE DEF N
    <2>2. /\ r \o <<path>> \in Seq(Inodes) /\ Len(r \o <<path>>) = N + 1
          /\ \A n \in 1 .. N : (r \o <<path>>)[n] = r[n]
          /\ (r \o <<path>>)[N + 1] = path
      BY <1>3, <2>1
    <2>3. N + 1 = made
      BY <1>1, <1>3, <2>1
    <2>4. DOMAIN Files = 1 .. made
      BY <1>1, <2>1, <2>2, <2>3
    <2>5. ASSUME NEW n \in 1 .. made PROVE Files[n] = n
      <3>1. n \in 1 .. N \/ n = N + 1
        BY <1>1, <1>3, <2>3
      <3> QED BY <1>4, <2>1, <2>2, <2>3, <3>1
    <2> QED BY <2>1, <2>2, <2>4, <2>5
  <1> QED BY <1>5, <1>6

\* The log is made of the lines of all files, in the order of the files.
LEMMA LogIs ==
  ASSUME LoggerInv, NEW K, TextOrdered(K)
  PROVE  Log \in Seq(LinesOf(Times, Ids)) /\ Range(Log) = Written /\ Ordered(Log, K)
  <1> DEFINE L == LinesOf(Times, Ids)
             ss == [i \in DOMAIN Files |-> text[Files[i]]]
  <1>1. made \in 0 .. MaxFiles /\ MaxFiles \in Nat /\ text \in [Inodes -> Seq(L)]
    BY LoggerAssumption DEF LoggerInv, LoggerTypeOK, LoggerAssumption
  <1>2. \A n \in 1 .. made : n \in Inodes
    BY <1>1 DEF Inodes
  <1>3. ss = [n \in 1 .. made |-> text[n]]
    BY FilesAre
  <1>4. ss \in Seq(Seq(L)) /\ DOMAIN ss = 1 .. made /\ \A n \in 1 .. made : ss[n] = text[n]
    <2> HIDE DEF L
    <2>1. \A n \in 1 .. made : text[n] \in Seq(L)
      BY <1>1, <1>2
    <2>2. made \in Nat
      BY <1>1
    <2> QED BY <1>3, <2>1, <2>2
  <1>5. Log = FlattenSeq(ss)
    BY DEF Log
  <1> HIDE DEF ss
  <1>6. \A k \in DOMAIN ss : Ordered(ss[k], K)
    BY <1>2, <1>4 DEF TextOrdered
  <1>7. \A j, k \in DOMAIN ss : j < k =>
          \A x \in Range(ss[j]), y \in Range(ss[k]) :
            x.time \in K /\ y.time \in K => x.time < y.time
    BY <1>2, <1>4 DEF TextOrdered
  <1>8. /\ Log \in Seq(L) /\ Ordered(Log, K)
        /\ \A x : x \in Range(Log) <=> \E k \in DOMAIN ss : x \in Range(ss[k])
    <2> HIDE DEF L
    <2> QED BY <1>4, <1>5, <1>6, <1>7, FlattenIs
  <1>9. ASSUME NEW x PROVE x \in Range(Log) <=> x \in Written
    <2>1. ASSUME x \in Range(Log) PROVE x \in Written
      <3>1. PICK k \in 1 .. made : x \in Range(text[k])
        BY <1>4, <1>8, <2>1
      <3> QED BY <1>2, <3>1, LinesTyped
    <2>2. ASSUME x \in Written PROVE x \in Range(Log)
      <3>1. PICK f \in Inodes : x \in Range(text[f])
        BY <2>2 DEF Written
      <3>2. f \in 1 .. made
        <4>1. ~ f > made
          BY <3>1 DEF LoggerInv, FilesInv, Range
        <4> QED BY <1>1, <4>1 DEF Inodes
      <3> QED BY <1>4, <1>8, <3>1, <3>2
    <2> QED BY <2>1, <2>2
  <1> QED BY <1>8, <1>9

\* The lines of events that are in order are in order.
LEMMA LinesOfEvents ==
  ASSUME LoggerInv, Increasing(Pending)
  PROVE  LET ls == [i \in DOMAIN Pending |-> Line(Pending[i])]
         IN /\ ls \in Seq(LinesOf(Times, Ids)) /\ Range(ls) = {Line(e) : e \in Range(Pending)}
            /\ Increasing(ls)
  <1> DEFINE L == LinesOf(Times, Ids)
             E == EventsOf(Times, Ids)
             ls == [i \in DOMAIN Pending |-> Line(Pending[i])]
  <1>1. Pending \in Seq(E)
    BY PendingType
  <1>2. /\ DOMAIN Pending = 1 .. Len(Pending) /\ Len(Pending) \in Nat
        /\ \A i \in DOMAIN Pending : Pending[i] \in E
    BY <1>1
  <1>3. \A i \in DOMAIN Pending : Line(Pending[i]) \in L /\ Line(Pending[i]).time = Pending[i].time
    BY <1>2, LineIs
  <1> HIDE DEF L, E
  <1>4. /\ DOMAIN ls = DOMAIN Pending /\ ls \in Seq(L)
        /\ \A i \in DOMAIN Pending : ls[i] = Line(Pending[i])
    BY <1>2, <1>3
  <1>5. Range(ls) = {Line(e) : e \in Range(Pending)}
    BY <1>4 DEF Range
  <1>6. Increasing(ls)
    <2> HIDE DEF ls
    <2> QED BY <1>3, <1>4 DEF Increasing
  <1> QED BY <1>4, <1>5, <1>6 DEF L

\* The daemon's lines in the files and those on their way are two parts of a sequence in the
\* order of time, with the elements of expected: it is expected.
LEMMA CompleteLog ==
  ASSUME HistoryInv, ~ lost
  PROVE  LET logged == {expected[i].time : i \in DOMAIN expected}
         IN Among(Log, {l \in Range(Log) : l.time \in logged})
              \o [i \in DOMAIN Pending |-> Line(Pending[i])] = expected
  <1> DEFINE L == LinesOf(Times, Ids)
             logged == {expected[i].time : i \in DOMAIN expected}
             S == {l \in Range(Log) : l.time \in logged}
             a == Among(Log, S)
             ls == [i \in DOMAIN Pending |-> Line(Pending[i])]
  <1>1. LoggerInv /\ OrderInv /\ expected \in Seq(L)
    BY DEF HistoryInv, BaseInv, LoggerInv, LoggerTypeOK
  <1>2. logged = LoggedTimes
    BY DEF LoggedTimes, Range
  <1>3. \A t \in LoggedTimes : t \in Kept /\ t \in Times
    BY <1>1, LinesTyped DEF LoggedTimes, Kept
  <1>4. TextOrdered(LoggedTimes)
    BY <1>1, <1>3 DEF OrderInv, TextOrdered, Ordered
  <1>5. Log \in Seq(L) /\ Range(Log) = Written /\ Ordered(Log, LoggedTimes)
    BY <1>1, <1>4, LogIs
  <1>6. \A x : x \in S <=> x \in Written /\ x.time \in LoggedTimes
    BY <1>2, <1>5
  <1> HIDE DEF S
  <1>7. a \in Seq(L) /\ Range(a) = Range(Log) \cap S /\ Increasing(a)
    <2>1. \A i \in DOMAIN Log : Log[i] \in S => Log[i].time \in LoggedTimes
      BY <1>6
    <2> HIDE DEF L
    <2> QED BY <1>5, <2>1, AmongIs
  <1> HIDE DEF a
  <1>8. ls \in Seq(L) /\ Range(ls) = {Line(e) : e \in Range(Pending)} /\ Increasing(ls)
    BY <1>1, LinesOfEvents DEF OrderInv
  <1> HIDE DEF ls, L
  <1>9. \A x \in Range(ls) : x \in Logged /\ \E e \in Range(Pending) : x.time = e.time
    BY <1>1, <1>8, LinesTyped
  <1>10. \A x \in Range(ls) : x.time \in LoggedTimes
    BY <1>1, <1>9 DEF OrderInv
  <1>11. \A x \in Range(a), y \in Range(ls) : x.time < y.time
    <2> SUFFICES ASSUME NEW x \in Range(a), NEW y \in Range(ls) PROVE x.time < y.time
      OBVIOUS
    <2>1. x \in Written /\ x.time \in Kept
      BY <1>3, <1>6, <1>7
    <2> QED BY <1>1, <1>9, <2>1 DEF OrderInv
  <1>12. a \o ls \in Seq(L) /\ Increasing(a \o ls)
    <2>1. Ordered(a, Times) /\ Ordered(ls, Times)
      BY <1>7, <1>8 DEF Ordered, Increasing
    <2>2. a \o ls \in Seq(L)
      BY <1>7, <1>8
    <2>3. Ordered(a \o ls, Times)
      BY <1>7, <1>8, <1>11, <2>1, OrderedConcat
    <2>4. \A i \in DOMAIN (a \o ls) : (a \o ls)[i].time \in Times
      <3>1. \A x \in L : x.time \in Times
        BY DEF L, LinesOf
      <3> QED BY <2>2, <3>1
    <2> QED BY <2>2, <2>3, <2>4 DEF Ordered, Increasing
  <1>13. Range(a \o ls) = Range(expected)
    <2>1. Range(a \o ls) = Range(a) \cup Range(ls)
      BY <1>7, <1>8, RangeConcat
    <2>2. Range(expected) = {m \in Logged : m.time \in LoggedTimes}
      BY <1>1 DEF OrderInv
    <2>3. \A x : x \in Range(a) <=> x \in Written /\ x.time \in LoggedTimes
      BY <1>5, <1>6, <1>7
    <2>4. Logged = Written \cup Range(ls)
      BY <1>8 DEF Logged
    <2> QED BY <1>10, <2>1, <2>2, <2>3, <2>4
  <1>14. \A x \in L : x.time \in Nat
    BY DEF L, LinesOf, Times
  <1>15. a \o ls = expected
    BY <1>1, <1>12, <1>13, <1>14, SameIncreasing DEF OrderInv, L
  <1> QED BY <1>15 DEF a, ls, S

\* Unless an event is lost, the daemon's lines in the files and its events on their way are
\* what it logged, once and in that order (LogIsComplete), however the queue, the writer
\* thread, logrotate and the tools interleave (ck-event-logger.c).
THEOREM LogCorrect == HistorySpec => []LogIsComplete
  <1>1. HistoryInv => LogIsComplete
    BY CompleteLog DEF LogIsComplete
  <1> QED BY <1>1, HistoryInvHolds, PTL

----------------------------------------------------------------------------
(* What ck-history reads.                                                  *)

\* What is read of a line.
LEMMA ReadIs ==
  ASSUME NEW l \in LinesOf(Times, Ids), parses(l)
  PROVE  /\ ck_log_event_new_from_string(l) \in EventsOf(Times, Ids)
         /\ ck_log_event_new_from_string(l).time = l.time
         /\ ck_log_event_new_from_string(l).type = l.name
         /\ ck_log_event_new_from_string(l).id = l.id
         /\ ck_log_event_new_from_string(l).login = l.login
         /\ ck_log_event_new_from_string(l).set = l.set \cap Groups(l.name) \cap Members(l.name)
  <1> DEFINE st == l.set \cap Groups(l.name) \cap Members(l.name)
  <1>1. /\ l.name \in Types /\ l.time \in Times /\ l.id \in Ids /\ l.login \in Times \cup {0}
        /\ l.plain \in BOOLEAN /\ l.set \in SUBSET Fields
    BY DEF LinesOf, parses
  <1>2. st \in SUBSET Fields
    BY <1>1
  <1> HIDE DEF st
  <1> DEFINE e == [type |-> l.name, time |-> l.time, id |-> l.id, login |-> l.login,
                   plain |-> l.plain, set |-> st]
  <1>3. e \in EventsOf(Times, Ids)
    BY <1>1, <1>2 DEF EventsOf
  <1>4. e.time = l.time /\ e.type = l.name /\ e.id = l.id /\ e.login = l.login /\ e.set = st
    OBVIOUS
  <1>5. ck_log_event_new_from_string(l) = e
    BY DEF ck_log_event_new_from_string, st
  <1> HIDE DEF e
  <1> QED BY <1>3, <1>4, <1>5 DEF st

\* Reading keeps the order.
LEMMA ParsedIs ==
  ASSUME LoggerInv, NEW f \in Inodes, NEW K, Ordered(text[f], K), K = {} \/ K = Times
  PROVE  /\ Parsed(f) \in Seq(EventsOf(Times, Ids))
         /\ \A e : e \in Range(Parsed(f)) <=>
              \E l \in Range(text[f]) : parses(l) /\ e = ck_log_event_new_from_string(l)
         /\ Ordered(Parsed(f), K)
  <1> DEFINE L == LinesOf(Times, Ids)
             E == EventsOf(Times, Ids)
             S == {l \in Range(text[f]) : parses(l)}
             ls == Among(text[f], S)
             es == [i \in DOMAIN ls |-> ck_log_event_new_from_string(ls[i])]
  <1>1. text[f] \in Seq(L)
    BY DEF LoggerInv, LoggerTypeOK
  <1>2. \A l \in L : l.time \in Times
    BY DEF LinesOf
  <1>3. K = Times => \A i \in DOMAIN text[f] : text[f][i] \in S => text[f][i].time \in K
    BY <1>1, <1>2
  <1>4. Parsed(f) = es
    BY DEF Parsed
  <1>5. \A l \in S : parses(l)
    OBVIOUS
  <1>6. \A l : l \in S <=> l \in Range(text[f]) /\ parses(l)
    OBVIOUS
  <1> HIDE DEF L, S
  <1>7. ls \in Seq(L) /\ Range(ls) = Range(text[f]) \cap S /\ (K = Times => Increasing(ls))
    BY <1>1, <1>3, AmongIs
  <1> HIDE DEF ls
  <1>8. \A i \in DOMAIN ls : ls[i] \in L /\ parses(ls[i]) /\ ls[i] \in Range(ls)
    BY <1>5, <1>7 DEF Range
  <1>9. \A i \in DOMAIN ls : /\ ck_log_event_new_from_string(ls[i]) \in E
                             /\ ck_log_event_new_from_string(ls[i]).time = ls[i].time
    BY <1>8, ReadIs DEF L
  <1>10. DOMAIN ls = 1 .. Len(ls) /\ Len(ls) \in Nat
    BY <1>7
  <1> HIDE DEF E
  <1>11. /\ es \in Seq(E) /\ DOMAIN es = DOMAIN ls
         /\ \A i \in DOMAIN ls : es[i] = ck_log_event_new_from_string(ls[i])
    BY <1>9, <1>10
  <1> HIDE DEF es
  <1>12. ASSUME NEW e
         PROVE  e \in Range(es) <=>
                  \E l \in Range(text[f]) : parses(l) /\ e = ck_log_event_new_from_string(l)
    <2>1. e \in Range(es) <=> \E i \in DOMAIN ls : e = ck_log_event_new_from_string(ls[i])
      BY <1>11 DEF Range
    <2>2. \A l : l \in Range(ls) <=> \E i \in DOMAIN ls : l = ls[i]
      BY DEF Range
    <2> QED BY <1>6, <1>7, <2>1, <2>2
  <1>13. Ordered(es, K)
    <2>1. CASE K = Times
      BY <1>7, <1>9, <1>11, <2>1 DEF Ordered, Increasing
    <2>2. CASE K = {}
      BY <2>2 DEF Ordered
    <2> QED BY <2>1, <2>2
  <1> QED BY <1>4, <1>11, <1>12, <1>13 DEF E

\* A file from since on.
LEMMA StreamIs ==
  ASSUME LoggerInv, NEW f \in Inodes, NEW K, Ordered(text[f], K), K = {} \/ K = Times, NEW since
  PROVE  /\ process_log_stream(f, since) \in Seq(EventsOf(Times, Ids))
         /\ \A e : e \in Range(process_log_stream(f, since)) <=>
                     e \in Range(Parsed(f)) /\ e.time >= since
         /\ Ordered(process_log_stream(f, since), K)
  <1> DEFINE E == EventsOf(Times, Ids)
             S == {e \in Range(Parsed(f)) : e.time >= since}
             es == Among(Parsed(f), S)
  <1>1. Parsed(f) \in Seq(E) /\ Ordered(Parsed(f), K)
    BY ParsedIs
  <1>2. K = Times => \A i \in DOMAIN Parsed(f) : Parsed(f)[i] \in S => Parsed(f)[i].time \in K
    <2>1. \A e \in E : e.time \in Times
      BY DEF EventsOf
    <2> QED BY <1>1, <2>1
  <1>3. \A e : e \in S <=> e \in Range(Parsed(f)) /\ e.time >= since
    OBVIOUS
  <1>4. process_log_stream(f, since) = es
    BY DEF process_log_stream, NotOlder
  <1> HIDE DEF S, E
  <1>5. es \in Seq(E) /\ Range(es) = Range(Parsed(f)) \cap S /\ (K = Times => Increasing(es))
    BY <1>1, <1>2, AmongIs
  <1> HIDE DEF es
  <1>6. Ordered(es, K)
    BY <1>5 DEF Ordered, Increasing
  <1> QED BY <1>3, <1>4, <1>5, <1>6 DEF E

----------------------------------------------------------------------------
\* The list of files, the newest first.
LEMMA FileListIs ==
  ASSUME LoggerInv
  PROVE  /\ get_log_file_list \in Seq(Inodes \cup {NoFile})
         /\ DOMAIN get_log_file_list = 1 .. Len(rotated) + 1 /\ Len(rotated) \in Nat
         /\ \A j, k \in DOMAIN get_log_file_list :
              j < k /\ get_log_file_list[j] # NoFile /\ get_log_file_list[k] # NoFile
                => get_log_file_list[k] < get_log_file_list[j]
         /\ path # NoFile =>
              /\ \A k \in DOMAIN get_log_file_list : get_log_file_list[k] # NoFile
              /\ \A f \in 1 .. made :
                   \E k \in DOMAIN get_log_file_list : get_log_file_list[k] = f
  <1> DEFINE fs == <<path>> \o rotated
             N == Len(rotated)
  <1>1. /\ rotated \in Seq(Inodes) /\ made \in 0 .. MaxFiles /\ MaxFiles \in Nat
        /\ path \in Inodes \cup {NoFile}
    BY LoggerAssumption DEF LoggerInv, LoggerTypeOK, LoggerAssumption
  <1>2. /\ path \in {NoFile, made}
        /\ N = IF path = NoFile THEN made ELSE made - 1
        /\ \A k \in DOMAIN rotated : rotated[k] = N + 1 - k
    BY DEF LoggerInv, FilesInv
  <1>3. /\ fs \in Seq(Inodes \cup {NoFile}) /\ N \in Nat /\ DOMAIN fs = 1 .. N + 1
        /\ fs[1] = path /\ \A k \in 2 .. N + 1 : k - 1 \in DOMAIN rotated /\ fs[k] = rotated[k - 1]
    BY <1>1
  <1>4. \A k \in 2 .. N + 1 : fs[k] = N + 2 - k
    BY <1>2, <1>3
  <1>5. get_log_file_list = fs
    BY DEF get_log_file_list
  <1> HIDE DEF fs, N
  <1>6. path # NoFile => path = N + 1 /\ made = N + 1
    BY <1>1, <1>2, <1>3
  <1>7. ASSUME NEW j \in DOMAIN fs, NEW k \in DOMAIN fs, j < k, fs[j] # NoFile, fs[k] # NoFile
        PROVE  fs[k] < fs[j]
    <2>1. k \in 2 .. N + 1
      BY <1>3, <1>7
    <2>2. CASE j = 1
      BY <1>3, <1>4, <1>6, <1>7, <2>1, <2>2
    <2>3. CASE j # 1
      <3>1. j \in 2 .. N + 1
        BY <1>3, <2>3
      <3> QED BY <1>3, <1>4, <1>7, <2>1, <3>1
    <2> QED BY <2>2, <2>3
  <1>8. ASSUME path # NoFile, NEW k \in DOMAIN fs PROVE fs[k] # NoFile
    <2>1. CASE k = 1
      BY <1>3, <1>8, <2>1
    <2>2. CASE k # 1
      BY <1>3, <1>4, <2>2 DEF NoFile
    <2> QED BY <2>1, <2>2
  <1>9. ASSUME path # NoFile, NEW f \in 1 .. made PROVE \E k \in DOMAIN fs : fs[k] = f
    <2>1. CASE f = made
      BY <1>3, <1>6, <1>9, <2>1
    <2>2. CASE f # made
      <3>1. N + 2 - f \in 2 .. N + 1 /\ N + 2 - f \in DOMAIN fs
        BY <1>3, <1>6, <1>9, <2>2
      <3>2. fs[N + 2 - f] = f
        BY <1>3, <1>4, <3>1
      <3> QED BY <3>1, <3>2
    <2> QED BY <2>1, <2>2
  <1> QED BY <1>3, <1>5, <1>7, <1>8, <1>9 DEF N

\* What ck-history reads.
LEMMA ReadingIs ==
  ASSUME LoggerInv, NEW K, TextOrdered(K), K = {} \/ K = Times, NEW since
  PROVE  /\ all_events(since) \in Seq(EventsOf(Times, Ids))
         /\ \A e : e \in Range(all_events(since)) <=>
              \E k \in DOMAIN get_log_file_list :
                /\ IsRead(get_log_file_list, k, since)
                /\ e \in Range(Parsed(get_log_file_list[k])) /\ e.time >= since
         /\ Ordered(all_events(since), K)
  <1> DEFINE E == EventsOf(Times, Ids)
             fs == get_log_file_list
             N == Len(rotated) + 1
             Part(k) == IF IsRead(fs, k, since) THEN process_log_stream(fs[k], since) ELSE <<>>
             parts == [k \in DOMAIN fs |-> Part(k)]
             ss == Reverse(parts)
  <1>1. /\ DOMAIN fs = 1 .. N /\ N \in Nat
        /\ \A k \in 1 .. N : fs[k] # NoFile => fs[k] \in Inodes
        /\ \A j, k \in 1 .. N : j < k /\ fs[j] # NoFile /\ fs[k] # NoFile => fs[k] < fs[j]
    BY FileListIs
  <1>2. all_events(since) = FlattenSeq(ss)
    BY DEF all_events
  <1>3. \A k \in 1 .. N : IsRead(fs, k, since) => fs[k] \in Inodes /\ fs[k] # NoFile
    BY <1>1 DEF IsRead
  <1> HIDE DEF fs
  <1>4. ASSUME NEW k \in 1 .. N
        PROVE  /\ Part(k) \in Seq(E) /\ Ordered(Part(k), K)
               /\ \A e : e \in Range(Part(k)) <=>
                    /\ IsRead(fs, k, since)
                    /\ e \in Range(Parsed(fs[k])) /\ e.time >= since
    <2>1. CASE IsRead(fs, k, since)
      <3>1. fs[k] \in Inodes /\ Ordered(text[fs[k]], K)
        BY <1>3, <2>1 DEF TextOrdered
      <3> QED BY <2>1, <3>1, StreamIs
    <2>2. CASE ~ IsRead(fs, k, since)
      <3>1. Part(k) = <<>> /\ <<>> \in Seq(E) /\ Ordered(<<>>, K) /\ Range(<<>>) = {}
        BY <2>2 DEF Range, Ordered
      <3> HIDE DEF Part
      <3> QED BY <2>2, <3>1
    <2> QED BY <2>1, <2>2
  <1> HIDE DEF Part, E
  <1>5. parts \in Seq(Seq(E)) /\ Len(parts) = N /\ \A k \in 1 .. N : parts[k] = Part(k)
    BY <1>1, <1>4
  <1> HIDE DEF N, parts
  <1>6. /\ ss \in Seq(Seq(E)) /\ DOMAIN ss = 1 .. N
        /\ \A i \in 1 .. N : N - i + 1 \in 1 .. N /\ ss[i] = Part(N - i + 1)
    <2>1. /\ ss \in Seq(Seq(E)) /\ Len(ss) = N
          /\ \A i \in 1 .. N : ss[i] = parts[N - i + 1]
      BY <1>5, ReverseIs
    <2>2. \A i \in 1 .. N : N - i + 1 \in 1 .. N
      BY <1>1
    <2> HIDE DEF ss
    <2>3. DOMAIN ss = 1 .. N
      BY <2>1
    <2> QED BY <1>5, <2>1, <2>2, <2>3
  <1> HIDE DEF ss
  <1>7. \A k \in DOMAIN ss : Ordered(ss[k], K)
    BY <1>4, <1>6
  <1>8. ASSUME NEW i \in DOMAIN ss, NEW j \in DOMAIN ss, i < j,
               NEW x \in Range(ss[i]), NEW y \in Range(ss[j]), x.time \in K, y.time \in K
        PROVE  x.time < y.time
    <2> DEFINE p == N - i + 1
               q == N - j + 1
    <2>1. /\ p \in 1 .. N /\ q \in 1 .. N /\ q < p /\ ss[i] = Part(p) /\ ss[j] = Part(q)
      BY <1>1, <1>6, <1>8
    <2> HIDE DEF p, q
    <2>2. /\ fs[p] \in Inodes /\ fs[q] \in Inodes /\ fs[p] < fs[q]
          /\ x \in Range(Parsed(fs[p])) /\ y \in Range(Parsed(fs[q]))
      BY <1>1, <1>3, <1>4, <1>8, <2>1
    <2>3. PICK l \in Range(text[fs[p]]) : parses(l) /\ x = ck_log_event_new_from_string(l)
      BY <2>2, ParsedIs DEF TextOrdered
    <2>4. PICK m \in Range(text[fs[q]]) : parses(m) /\ y = ck_log_event_new_from_string(m)
      BY <2>2, ParsedIs DEF TextOrdered
    <2>5. l \in LinesOf(Times, Ids) /\ m \in LinesOf(Times, Ids)
      BY <2>2, <2>3, <2>4, LinesTyped
    <2>6. l.time = x.time /\ m.time = y.time
      BY <2>3, <2>4, <2>5, ReadIs
    <2> QED BY <1>8, <2>2, <2>3, <2>4, <2>6 DEF TextOrdered
  <1>9. /\ FlattenSeq(ss) \in Seq(E) /\ Ordered(FlattenSeq(ss), K)
        /\ \A x : x \in Range(FlattenSeq(ss)) <=> \E k \in DOMAIN ss : x \in Range(ss[k])
    BY <1>6, <1>7, <1>8, FlattenIs
  <1>10. ASSUME NEW e
         PROVE  e \in Range(FlattenSeq(ss)) <=>
                  \E k \in 1 .. N : /\ IsRead(fs, k, since)
                                    /\ e \in Range(Parsed(fs[k])) /\ e.time >= since
    <2>1. (\E i \in 1 .. N : e \in Range(ss[i])) <=> \E k \in 1 .. N : e \in Range(Part(k))
      <3>1. ASSUME NEW k \in 1 .. N
            PROVE  N - k + 1 \in 1 .. N /\ ss[N - k + 1] = Part(k)
        BY <1>1, <1>6
      <3> QED BY <1>6, <3>1
    <2> QED BY <1>4, <1>6, <1>9, <2>1
  <1> QED BY <1>1, <1>2, <1>9, <1>10 DEF E, fs

----------------------------------------------------------------------------
\* No order is needed to know what is read.
LEMMA NothingOrdered == TextOrdered({})
  BY DEF TextOrdered, Ordered

\* Every event that is read comes from a line that was written.
LEMMA ReadWritten ==
  ASSUME LoggerInv, NEW since, NEW e \in Range(all_events(since))
  PROVE  \E l \in Written : /\ l \in LinesOf(Times, Ids) /\ parses(l)
                            /\ e = ck_log_event_new_from_string(l)
  <1>1. PICK k \in DOMAIN get_log_file_list :
          /\ IsRead(get_log_file_list, k, since)
          /\ e \in Range(Parsed(get_log_file_list[k]))
    BY ReadingIs, NothingOrdered
  <1>2. get_log_file_list[k] \in Inodes
    BY <1>1, FileListIs DEF IsRead
  <1>3. PICK l \in Range(text[get_log_file_list[k]]) :
          parses(l) /\ e = ck_log_event_new_from_string(l)
    <2>1. Ordered(text[get_log_file_list[k]], {})
      BY <1>2, NothingOrdered DEF TextOrdered
    <2> QED BY <1>1, <1>2, <2>1, ParsedIs
  <1> QED BY <1>2, <1>3, LinesTyped

\* An added line has all members, and the pattern drops the one whose group is misspelt.
LEMMA AllRecords == HistoryInv => RecordsComplete
  <1> SUFFICES ASSUME HistoryInv, NEW r \in generate_report_last(0)
               PROVE  r.set = Members("SEAT_SESSION_ADDED") \ {"session_remote_host_name"}
    BY DEF RecordsComplete
  <1> DEFINE es == all_events(0)
             A == "SEAT_SESSION_ADDED"
  <1>1. PICK i \in DOMAIN es : es[i].type = A /\ r = print_last_report_record(es, i)
    BY DEF generate_report_last
  <1>2. es[i] \in Range(es)
    BY DEF Range
  <1>3. LoggerInv
    BY DEF HistoryInv, BaseInv
  <1>4. PICK l \in Written : /\ l \in LinesOf(Times, Ids) /\ parses(l)
                             /\ es[i] = ck_log_event_new_from_string(l)
    BY <1>2, <1>3, ReadWritten
  <1>5. l.name = A /\ es[i].set = l.set \cap Groups(l.name) \cap Members(l.name)
    BY <1>1, <1>4, ReadIs
  <1>6. l.set = Members(A)
    BY <1>3, <1>5, LinesTyped DEF HistoryInv, LinesInv
  <1>7. Members(A) \cap Groups(A) \cap Members(A) = Members(A) \ {"session_remote_host_name"}
    <2>1. /\ A \notin SeatEvents /\ A \in SessionEvents /\ A \notin DeviceEvents
          /\ A \notin ActiveEvents /\ A # "SYSTEM_START"
      BY DEF SeatEvents, SessionEvents, DeviceEvents, ActiveEvents
    <2>2. Members(A) = SessionStrings \cup SessionNumbers /\ Groups(A) = SessionGroups
      BY <2>1 DEF Members, Groups
    <2> QED BY <2>2 DEF SessionGroups
  <1>8. r.set = es[i].set
    BY <1>1 DEF print_last_report_record
  <1> QED BY <1>5, <1>6, <1>7, <1>8

\* What ck-history knows of a login is all that the daemon knew, but for the remote host
\* (RecordsComplete): copying, formatting and parsing lose nothing else (ck-log-event.c).
THEOREM RecordsCorrect == HistorySpec => []RecordsComplete
  BY AllRecords, HistoryInvHolds, PTL

----------------------------------------------------------------------------
\* When all is said, everything is in order.
LEMMA SettledOrder ==
  ASSUME HistoryInv, Settles
  PROVE  LoggerInv /\ TextOrdered(Times)
  BY DEF HistoryInv, BaseInv, Settles, OrderInv, TextOrdered, Kept

\* A file is read when all newer ones have no older event.
LEMMA EverythingRead ==
  ASSUME LoggerInv, path # NoFile, NEW since \in Nat, NEW k \in DOMAIN get_log_file_list,
         \A j \in 1 .. k - 1 :
           \A d \in Range(Parsed(get_log_file_list[j])) : ~ (d.time < since)
  PROVE  IsRead(get_log_file_list, k, since)
  <1>1. \A j \in 1 .. k - 1 : j \in DOMAIN get_log_file_list
    BY FileListIs
  <1>2. \A j \in DOMAIN get_log_file_list : get_log_file_list[j] # NoFile
    BY FileListIs
  <1> QED BY <1>1, <1>2 DEF IsRead, IsLast, Range

\* Nothing is older than the beginning: all files are read.
LEMMA ReadsAll ==
  ASSUME LoggerInv, path # NoFile, TextOrdered(Times), NEW k \in DOMAIN get_log_file_list
  PROVE  /\ IsRead(get_log_file_list, k, 0) /\ get_log_file_list[k] \in Inodes
         /\ \A e \in Range(Parsed(get_log_file_list[k])) :
              /\ e.time \in Times /\ e.time >= 0
              /\ \E l \in Range(text[get_log_file_list[k]]) : l.time = e.time
  <1> DEFINE fs == get_log_file_list
  <1>1. /\ DOMAIN fs = 1 .. Len(rotated) + 1 /\ Len(rotated) \in Nat
        /\ \A j \in DOMAIN fs : fs[j] \in Inodes
    BY FileListIs
  <1>2. ASSUME NEW j \in DOMAIN fs, NEW d \in Range(Parsed(fs[j]))
        PROVE  d.time \in Times /\ \E l \in Range(text[fs[j]]) : l.time = d.time
    <2>1. PICK l \in Range(text[fs[j]]) : parses(l) /\ d = ck_log_event_new_from_string(l)
      BY <1>1, <1>2, ParsedIs DEF TextOrdered
    <2>2. l \in LinesOf(Times, Ids) /\ l.time \in Times
      BY <1>1, LinesTyped
    <2> QED BY <2>1, <2>2, ReadIs
  <1>3. \A t \in Times : t >= 0 /\ ~ (t < 0)
    BY LoggerAssumption DEF Times, LoggerAssumption
  <1>4. \A j \in 1 .. k - 1 : \A d \in Range(Parsed(fs[j])) : ~ (d.time < 0)
    <2>1. \A j \in 1 .. k - 1 : j \in DOMAIN fs
      BY <1>1
    <2> QED BY <1>2, <1>3, <2>1
  <1>5. IsRead(fs, k, 0)
    BY <1>4, EverythingRead
  <1> QED BY <1>1, <1>2, <1>3, <1>5

\* A file that is not read comes before one with an older event, so it has only older ones.
LEMMA AllSince == HistoryInv => SinceIsComplete
  <1> SUFFICES ASSUME HistoryInv, Settles, NEW since \in Times
               PROVE  all_events(since) = NotOlder(all_events(0), since)
    BY DEF SinceIsComplete
  <1> DEFINE E == EventsOf(Times, Ids)
             fs == get_log_file_list
             a == all_events(since)
             b == all_events(0)
             S == {e \in Range(b) : e.time >= since}
             c == Among(b, S)
  <1>1. LoggerInv /\ TextOrdered(Times) /\ path # NoFile
    BY SettledOrder DEF Settles
  <1>2. since \in Nat /\ \A t \in Times : t \in Nat
    BY TimesAreNumbers DEF HistoryInv
  <1>3. \A e \in E : e.time \in Times
    BY DEF EventsOf
  <1>4. /\ a \in Seq(E) /\ b \in Seq(E) /\ Ordered(a, Times) /\ Ordered(b, Times)
        /\ \A e : e \in Range(a) <=>
             \E k \in DOMAIN fs : /\ IsRead(fs, k, since)
                                  /\ e \in Range(Parsed(fs[k])) /\ e.time >= since
        /\ \A e : e \in Range(b) <=>
             \E k \in DOMAIN fs : /\ IsRead(fs, k, 0)
                                  /\ e \in Range(Parsed(fs[k])) /\ e.time >= 0
    BY <1>1, ReadingIs
  <1>5. NotOlder(all_events(0), since) = c
    BY DEF NotOlder
  <1>6. \A e : e \in S <=> e \in Range(b) /\ e.time >= since
    OBVIOUS
  <1> HIDE DEF E, a, b, S
  <1>7. c \in Seq(E) /\ Range(c) = Range(b) \cap S /\ Increasing(c)
    <2>1. \A i \in DOMAIN b : b[i].time \in Times
      BY <1>3, <1>4
    <2> QED BY <1>4, <2>1, AmongIs
  <1>8. Increasing(a)
    <2>1. \A i \in DOMAIN a : a[i].time \in Times
      BY <1>3, <1>4
    <2> QED BY <1>4, <2>1 DEF Ordered, Increasing
  <1> HIDE DEF c
  <1>9. /\ DOMAIN fs = 1 .. Len(rotated) + 1 /\ Len(rotated) \in Nat
        /\ \A k \in DOMAIN fs : fs[k] \in Inodes /\ fs[k] # NoFile
        /\ \A j, k \in DOMAIN fs : j < k => fs[k] < fs[j]
    BY <1>1, FileListIs
  <1>10. ASSUME NEW j \in DOMAIN fs, NEW d \in Range(Parsed(fs[j]))
         PROVE  d.time \in Times /\ \E l \in Range(text[fs[j]]) : l.time = d.time
    BY <1>1, <1>10, ReadsAll
  <1>11. \A k \in DOMAIN fs : IsRead(fs, k, 0)
    BY <1>1, ReadsAll
  <1>12. ASSUME NEW e, NEW k \in DOMAIN fs, e \in Range(Parsed(fs[k])), e.time >= since
         PROVE  IsRead(fs, k, since)
    <2>1. ASSUME NEW j \in 1 .. k - 1, NEW d \in Range(Parsed(fs[j])), d.time < since
          PROVE  FALSE
      <3>1. j \in DOMAIN fs /\ fs[k] < fs[j]
        BY <1>9, <2>1
      <3>2. PICK l \in Range(text[fs[k]]) : l.time = e.time
        BY <1>10, <1>12
      <3>3. PICK m \in Range(text[fs[j]]) : m.time = d.time
        BY <1>10, <2>1, <3>1
      <3>4. e.time \in Times /\ d.time \in Times
        BY <1>10, <1>12, <2>1, <3>1
      <3>5. l.time < m.time
        BY <1>1, <1>9, <3>1, <3>2, <3>3, <3>4 DEF TextOrdered
      <3>6. e.time \in Nat /\ d.time \in Nat
        BY <1>2, <3>4
      <3> QED BY <1>2, <1>12, <2>1, <3>2, <3>3, <3>5, <3>6
    <2> QED BY <1>1, <1>2, <2>1, EverythingRead
  <1>13. ASSUME NEW e PROVE e \in Range(a) <=> e \in Range(c)
    <2>1. \A k \in DOMAIN fs : e \in Range(Parsed(fs[k])) => e.time >= 0
      <3> SUFFICES ASSUME NEW k \in DOMAIN fs, e \in Range(Parsed(fs[k])) PROVE e.time >= 0
        OBVIOUS
      <3>1. e.time \in Times
        BY <1>10
      <3>2. e.time \in Nat
        BY <1>2, <3>1
      <3> QED BY <3>2
    <2>2. e \in Range(c) <=> e \in Range(b) /\ e.time >= since
      BY <1>6, <1>7
    <2> QED BY <1>4, <1>11, <1>12, <2>1, <2>2
  <1>14. Range(a) = Range(c)
    BY <1>13
  <1>15. \A x \in E : x.time \in Nat
    BY <1>2, <1>3
  <1>16. a = c
    BY <1>4, <1>7, <1>8, <1>14, <1>15, SameIncreasing
  <1> QED BY <1>5, <1>16 DEF a, b

\* With --since, ck-history finds all events from then on though it stops at the first file
\* with an older one (SinceIsComplete), however often the log was rotated (ck-history.c,
\* process_logs).
THEOREM SinceCorrect == HistorySpec => []SinceIsComplete
  BY AllSince, HistoryInvHolds, PTL

----------------------------------------------------------------------------
(* The story the log tells.                                                *)

\* The line of a session that is added.
Added(l) == l.name = "SEAT_SESSION_ADDED"

\* e may have ended the session of b. Nothing has yet; the first that did has one of the
\* names.
Ender(e, b) ==
  e.time > b.time /\ \/ e.name = "SEAT_SESSION_REMOVED" /\ e.id = b.id
                     \/ e.name \in SystemEvents
Unended(b) == \A e \in Logged : ~ Ender(e, b)
EndedBy(b, names) ==
  \E e \in Logged : /\ Ender(e, b) /\ e.name \in names
                    /\ \A d \in Logged : Ender(d, b) => e.time <= d.time

\* Logins are numbered; a session that is open has its own, which is not over unless the
\* system goes down.
LoginsInv ==
  /\ \A t \in Times : fate[t] # "none" <=> t <= logins
  /\ \A i \in Ids : open[i] # 0 => /\ open[i] <= logins /\ i \in 1 .. serial
                                   /\ fate[open[i]] \in {"NOW", "DOWN"}
  /\ \A i, j \in Ids : open[i] = open[j] /\ open[i] # 0 => i = j
  /\ \A t \in Times : fate[t] = "NOW" => \E i \in Ids : open[i] = t
  /\ \A t \in odd : t <= logins

\* Two handlers are never about the same session.
Distinct(hs) ==
  \A j, k \in DOMAIN hs : j # k => hs[j].id # hs[k].id /\ hs[j].login # hs[k].login

\* A session whose programs for its start are run is open, and its line has not been logged;
\* one whose programs for its end are run is closed, and its first line has been.
HandlersInv ==
  /\ Distinct(handlers)
  /\ \A h \in Range(handlers) :
       /\ h.id \in 1 .. serial /\ h.login <= logins
       /\ h.type = "SEAT_SESSION_ADDED" =>
            /\ open[h.id] = h.login /\ fate[h.login] = "NOW"
            /\ h.login \in odd <=> h.id \in Odd
            /\ \A l \in Logged : Added(l) => l.login # h.login
       /\ h.type = "SEAT_SESSION_REMOVED" =>
            /\ open[h.id] = 0 /\ fate[h.login] \in {"NORMAL", "DOWN"}
            /\ \E l \in Logged : Added(l) /\ l.login = h.login /\ l.id = h.id

\* Every login has one line, or will have.
AddedInv ==
  /\ \A l \in Logged : Added(l) =>
       /\ l.login \in Times /\ l.login <= logins
       /\ l.login \in odd <=> l.id \in Odd
       /\ \A m \in Logged : Added(m) /\ m.login = l.login => m = l
       /\ \A i \in Ids : open[i] = l.login => l.id = i
  /\ \A t \in Times : fate[t] # "none" =>
       \/ \E h \in Range(handlers) : h.type = "SEAT_SESSION_ADDED" /\ h.login = t
       \/ \E l \in Logged : Added(l) /\ l.login = t

\* How a login ended is what the first line says that may have ended it; or that line is
\* still to come, from a handler or the next start of the system.
FateInv ==
  \A b \in Logged : Added(b) =>
    /\ fate[b.login] = "NOW" => Unended(b)
    /\ fate[b.login] = "NORMAL" =>
         \/ EndedBy(b, {"SEAT_SESSION_REMOVED"})
         \/ /\ Unended(b)
            /\ \E h \in Range(handlers) : /\ h.type = "SEAT_SESSION_REMOVED"
                                          /\ h.login = b.login /\ h.id = b.id
    /\ fate[b.login] = "DOWN" => EndedBy(b, {"SYSTEM_STOP", "SYSTEM_RESTART"})
    /\ fate[b.login] = "CRASH" =>
         \/ EndedBy(b, {"SYSTEM_START"})
         \/ Unended(b) /\ system = "down"

\* What the log tells of each login.
Story == LoginsInv /\ HandlersInv /\ AddedInv /\ FateInv

----------------------------------------------------------------------------
\* The lines of logins are the same, and so is what has ended them.
SameAdded == \A l : l \in Logged' /\ Added(l) <=> l \in Logged /\ Added(l)
Quiet ==
  /\ SameAdded
  /\ \A b \in Logged : /\ Unended(b) => Unended(b)'
                       /\ \A N : EndedBy(b, N) => EndedBy(b, N)'

\* The same lines tell the same.
LEMMA SameLines ==
  ASSUME Logged' = Logged
  PROVE  Quiet
  BY DEF Quiet, SameAdded, Unended, EndedBy

\* A line is the latest when it is new: it may be the first to end a session, and never
\* takes the place of another.
LEMMA MoreLines ==
  ASSUME BaseInv, LinesInv, NEW n, n.time = clock + 1, Logged' = Logged \cup {n}
  PROVE  /\ n \notin Logged
         /\ Unended(n)'
         /\ \A b \in Logged :
              /\ n.time > b.time
              /\ \A N : EndedBy(b, N) => EndedBy(b, N)'
              /\ Unended(b) /\ ~ Ender(n, b) => Unended(b)'
              /\ Unended(b) /\ Ender(n, b) => \A N : n.name \in N => EndedBy(b, N)'
  <1>1. clock \in Nat /\ \A b \in Logged : b.time \in Nat /\ b.time <= clock
    BY LinesTyped, TimesAreNumbers DEF BaseInv, LinesInv
  <1>2. \A b \in Logged : n.time > b.time /\ ~ (b.time > n.time) /\ b.time <= n.time
    BY <1>1
  <1>3. n \notin Logged /\ ~ (n.time > n.time) /\ n.time <= n.time
    BY <1>1, <1>2
  <1>4. Unended(n)'
    BY <1>2, <1>3 DEF Unended, Ender
  <1>5. ASSUME NEW b \in Logged, NEW N, EndedBy(b, N) PROVE EndedBy(b, N)'
    <2>1. PICK e \in Logged : /\ Ender(e, b) /\ e.name \in N
                              /\ \A d \in Logged : Ender(d, b) => e.time <= d.time
      BY <1>5 DEF EndedBy
    <2>2. e \in Logged' /\ \A d \in Logged' : Ender(d, b) => e.time <= d.time
      BY <1>2, <2>1
    <2> QED BY <2>1, <2>2 DEF EndedBy
  <1>6. ASSUME NEW b \in Logged, Unended(b), ~ Ender(n, b) PROVE Unended(b)'
    BY <1>6 DEF Unended
  <1>7. ASSUME NEW b \in Logged, Unended(b), Ender(n, b), NEW N, n.name \in N
        PROVE  EndedBy(b, N)'
    <2>1. n \in Logged' /\ \A d \in Logged' : Ender(d, b) => n.time <= d.time
      BY <1>3, <1>7 DEF Unended
    <2> QED BY <1>7, <2>1 DEF EndedBy
  <1> QED BY <1>2, <1>3, <1>4, <1>5, <1>6, <1>7

\* Nothing happens to a login.
LEMMA StoryFrame ==
  ASSUME Story, Quiet, UNCHANGED <<open, handlers, fate, logins, serial, odd>>,
         system = "down" => system' = "down"
  PROVE  Story'
  <1>1. LoginsInv'
    BY DEF Story, LoginsInv
  <1>2. HandlersInv'
    BY DEF Story, HandlersInv, Distinct, Quiet, SameAdded
  <1>3. AddedInv'
    BY DEF Story, AddedInv, Quiet, SameAdded
  <1>4. FateInv'
    <2> SUFFICES ASSUME NEW b \in Logged', Added(b)
                 PROVE  /\ fate[b.login] = "NOW" => Unended(b)'
                        /\ fate[b.login] = "NORMAL" =>
                             \/ EndedBy(b, {"SEAT_SESSION_REMOVED"})'
                             \/ /\ Unended(b)'
                                /\ \E h \in Range(handlers) : /\ h.type = "SEAT_SESSION_REMOVED"
                                                              /\ h.login = b.login /\ h.id = b.id
                        /\ fate[b.login] = "DOWN" => EndedBy(b, {"SYSTEM_STOP", "SYSTEM_RESTART"})'
                        /\ fate[b.login] = "CRASH" =>
                             \/ EndedBy(b, {"SYSTEM_START"})'
                             \/ Unended(b)' /\ system' = "down"
      BY DEF FateInv, Added
    <2>1. b \in Logged
      BY DEF Quiet, SameAdded
    <2> QED BY <2>1 DEF Story, FateInv, Quiet
  <1> QED BY <1>1, <1>2, <1>3, <1>4 DEF Story

\* The daemon is gone.
LEMMA StoryForgets ==
  ASSUME BaseInv, Story, Quiet, handlers = <<>>, NEW how \in {"PHANTOM", "CRASH"}, Forgets(how),
         UNCHANGED <<logins, odd>>, how = "CRASH" => system' = "down",
         system = "down" => system' = "down"
  PROVE  Story'
  <1>1. /\ handlers' = <<>> /\ \A i \in Ids : open'[i] = 0
        /\ \A t \in Times : fate'[t] = IF t \in LoggedIn /\ fate[t] = "NOW" THEN how ELSE fate[t]
    BY DEF Forgets, Ends
  <1>2. \A t \in Times : fate[t] = "NOW" => t \in LoggedIn
    BY DEF Story, LoginsInv, LoggedIn
  <1>3. \A t \in Times : /\ fate[t] = "NOW" => fate'[t] = how
                         /\ fate[t] # "NOW" => fate'[t] = fate[t]
    BY <1>1, <1>2
  <1>4. 0 \notin Times /\ Range(<<>>) = {}
    BY DEF Times, Range
  <1>5. LoginsInv'
    BY <1>1, <1>3 DEF Story, LoginsInv
  <1>6. HandlersInv'
    BY <1>1, <1>4 DEF HandlersInv, Distinct
  <1>7. AddedInv'
    BY <1>1, <1>3, <1>4 DEF Story, AddedInv, Quiet, SameAdded
  <1>8. FateInv'
    <2> SUFFICES ASSUME NEW b \in Logged', Added(b)
                 PROVE  /\ fate'[b.login] = "NOW" => Unended(b)'
                        /\ fate'[b.login] = "NORMAL" => EndedBy(b, {"SEAT_SESSION_REMOVED"})'
                        /\ fate'[b.login] = "DOWN" => EndedBy(b, {"SYSTEM_STOP", "SYSTEM_RESTART"})'
                        /\ fate'[b.login] = "CRASH" =>
                             \/ EndedBy(b, {"SYSTEM_START"})'
                             \/ Unended(b)' /\ system' = "down"
      BY DEF FateInv, Added
    <2>1. b \in Logged
      BY DEF Quiet, SameAdded
    <2>2. b.login \in Times
      BY <2>1 DEF Story, AddedInv
    <2>3. CASE fate[b.login] = "NOW"
      BY <1>3, <2>1, <2>2, <2>3 DEF Story, FateInv, Quiet
    <2>4. CASE fate[b.login] # "NOW"
      BY <1>3, <1>4, <2>1, <2>2, <2>4 DEF Story, FateInv, Quiet
    <2> QED BY <2>3, <2>4
  <1> QED BY <1>5, <1>6, <1>7, <1>8 DEF Story

\* The system goes down in order, or comes up: that ends every login that nothing else has.
LEMMA StorySystem ==
  ASSUME BaseInv, Story, SameAdded, NEW nm,
         \A b \in Logged : /\ \A N : EndedBy(b, N) => EndedBy(b, N)'
                           /\ Unended(b) => \A N : nm \in N => EndedBy(b, N)',
         handlers = <<>>, UNCHANGED <<open, handlers, serial, logins, odd>>,
         \/ nm \in {"SYSTEM_STOP", "SYSTEM_RESTART"} /\ Ends("DOWN") /\ system # "down"
         \/ /\ nm = "SYSTEM_START" /\ system = "down" /\ fate' = fate
            /\ \A i \in Ids : open[i] = 0
  PROVE  Story'
  <1>1. \A t \in Times : fate[t] = "NOW" => t \in LoggedIn
    BY DEF Story, LoginsInv, LoggedIn
  <1>2. 0 \notin Times /\ Range(<<>>) = {}
    BY DEF Times, Range
  <1>3. \A t \in Times : /\ fate[t] = "NOW" => fate'[t] = "DOWN"
                         /\ fate[t] # "NOW" => fate'[t] = fate[t]
    BY <1>1, <1>2 DEF Ends, LoggedIn
  <1>4. LoginsInv'
    <2>1. \A t \in Times : fate'[t] # "none" <=> t <= logins'
      BY <1>3 DEF Story, LoginsInv
    <2>2. \A i \in Ids : open[i] # 0 => open[i] \in Times
      BY LoggerAssumption DEF BaseInv, OwnTypeOK, Times, LoggerAssumption
    <2>3. \A i \in Ids : open'[i] # 0 => /\ open'[i] <= logins' /\ i \in 1 .. serial'
                                         /\ fate'[open'[i]] \in {"NOW", "DOWN"}
      BY <1>3, <2>2 DEF Story, LoginsInv
    <2>4. \A t \in Times : fate'[t] = "NOW" => \E i \in Ids : open'[i] = t
      BY <1>3
    <2> QED BY <2>1, <2>3, <2>4 DEF Story, LoginsInv
  <1>5. HandlersInv'
    BY <1>2 DEF HandlersInv, Distinct
  <1>6. AddedInv'
    BY <1>2, <1>3 DEF Story, AddedInv, SameAdded
  <1>7. FateInv'
    <2> SUFFICES ASSUME NEW b \in Logged', Added(b)
                 PROVE  /\ fate'[b.login] # "NOW"
                        /\ fate'[b.login] = "NORMAL" => EndedBy(b, {"SEAT_SESSION_REMOVED"})'
                        /\ fate'[b.login] = "DOWN" => EndedBy(b, {"SYSTEM_STOP", "SYSTEM_RESTART"})'
                        /\ fate'[b.login] = "CRASH" => EndedBy(b, {"SYSTEM_START"})'
      BY DEF FateInv, Added
    <2>1. b \in Logged
      BY DEF SameAdded
    <2>2. b.login \in Times
      BY <2>1 DEF Story, AddedInv
    <2>3. CASE fate[b.login] = "NOW"
      <3>1. nm \in {"SYSTEM_STOP", "SYSTEM_RESTART"}
        BY <1>1, <1>2, <2>2, <2>3 DEF LoggedIn
      <3> QED BY <1>3, <2>1, <2>2, <2>3, <3>1 DEF Story, FateInv
    <2>4. CASE fate[b.login] # "NOW"
      BY <1>2, <1>3, <2>1, <2>2, <2>4 DEF Story, FateInv
    <2> QED BY <2>3, <2>4
  <1> QED BY <1>4, <1>5, <1>6, <1>7 DEF Story

\* Handlers stay distinct when one is added or the latest ends.
LEMMA DistinctAppend ==
  ASSUME NEW hs \in Seq(Handler), NEW h \in Handler, Distinct(hs),
         \A g \in Range(hs) : g.id # h.id /\ g.login # h.login
  PROVE  Distinct(Append(hs, h)) /\ Range(Append(hs, h)) = Range(hs) \cup {h}
  <1> DEFINE c == Append(hs, h)
  <1>1. /\ DOMAIN c = 1 .. Len(hs) + 1 /\ DOMAIN hs = 1 .. Len(hs) /\ Len(hs) \in Nat
        /\ \A k \in 1 .. Len(hs) : c[k] = hs[k]
        /\ c[Len(hs) + 1] = h
    OBVIOUS
  <1>2. Range(c) = Range(hs) \cup {h}
    BY RangeAppend
  <1> HIDE DEF c
  <1>3. \A k \in DOMAIN c : \/ k = Len(hs) + 1 /\ c[k] = h
                            \/ k \in DOMAIN hs /\ c[k] = hs[k] /\ c[k] \in Range(hs)
    BY <1>1 DEF Range
  <1>4. Distinct(c)
    <2> SUFFICES ASSUME NEW j \in DOMAIN c, NEW k \in DOMAIN c, j # k
                 PROVE  c[j].id # c[k].id /\ c[j].login # c[k].login
      BY DEF Distinct
    <2> QED BY <1>3 DEF Distinct
  <1> QED BY <1>2, <1>4 DEF c

LEMMA DistinctFront ==
  ASSUME OwnTypeOK, handlers # <<>>, Distinct(handlers)
  PROVE  /\ Distinct(Front(handlers)) /\ Last(handlers) \in Range(handlers)
         /\ \A g : g \in Range(handlers) <=> g \in Range(Front(handlers)) \/ g = Last(handlers)
         /\ \A g \in Range(Front(handlers)) :
              g.id # Last(handlers).id /\ g.login # Last(handlers).login
  <1> DEFINE n == Len(handlers)
             f == Front(handlers)
  <1>1. /\ Last(handlers) = handlers[n] /\ n \in DOMAIN handlers
        /\ \A k \in DOMAIN f : k \in DOMAIN handlers /\ k # n /\ f[k] = handlers[k]
        /\ \A k \in DOMAIN handlers : k # n => k \in DOMAIN f
    BY LastFront
  <1> HIDE DEF n, f
  <1>2. Distinct(f)
    BY <1>1 DEF Distinct
  <1>3. ASSUME NEW g PROVE g \in Range(handlers) <=> g \in Range(f) \/ g = Last(handlers)
    BY <1>1 DEF Range
  <1>4. \A g \in Range(f) : g.id # Last(handlers).id /\ g.login # Last(handlers).login
    BY <1>1 DEF Range, Distinct
  <1> QED BY <1>2, <1>3, <1>4 DEF f

\* What handlers and open sessions are about.
LEMMA HandlersTyped ==
  ASSUME BaseInv
  PROVE  /\ \A h \in Range(handlers) : /\ h.type \in SessionEvents /\ h.id \in Ids
                                       /\ h.login \in Times /\ h.login # 0
         /\ \A i \in Ids : open[i] # 0 => open[i] \in Times
         /\ 0 \notin Times
  <1>1. \A h \in Range(handlers) : h \in Handler
    BY DEF BaseInv, OwnTypeOK, Range
  <1>2. 0 \notin Times /\ \A i \in Ids : open[i] # 0 => open[i] \in Times
    BY LoggerAssumption DEF BaseInv, OwnTypeOK, Times, LoggerAssumption
  <1> QED BY <1>1, <1>2 DEF Handler

\* Who leaves the logger alone leaves the lines alone.
LEMMA LogStays ==
  ASSUME UNCHANGED logvars
  PROVE  Logged' = Logged
  <1>1. text' = text /\ Pending' = Pending
    BY DEF logvars, threadvars, filevars, Pending
  <1>2. Written' = Written
    BY <1>1 DEF Written
  <1>3. Logged' = Written' \cup {Line(e) : e \in Range(Pending')}
    BY DEF Logged, Line, ck_log_event_to_string
  <1> QED BY <1>1, <1>2, <1>3 DEF Logged

\* A session is opened.
LEMMA StoryAdded ==
  ASSUME BaseInv, Story, on_seat_session_added_full
  PROVE  Story'
  <1> DEFINE s == serial + 1
             t == logins + 1
             h == [type |-> "SEAT_SESSION_ADDED", id |-> s, login |-> t]
  <1>1. /\ serial' = s /\ logins' = t /\ open' = [open EXCEPT ![s] = t]
        /\ fate' = [fate EXCEPT ![t] = "NOW"]
        /\ odd' = IF s \in Odd THEN odd \cup {t} ELSE odd
        /\ handlers' = Append(handlers, h)
        /\ UNCHANGED <<logvars, system>>
    BY DEF on_seat_session_added_full, ck_session_run_programs
  <1>2. /\ serial \in 0 .. MaxIds /\ serial < MaxIds /\ logins \in 0 .. MaxEvents
        /\ logins < MaxEvents /\ MaxIds \in Nat /\ MaxEvents \in Nat
    BY LoggerAssumption DEF BaseInv, OwnTypeOK, on_seat_session_added_full, LoggerAssumption
  <1>3. /\ s \in Ids /\ t \in Times /\ s \notin 1 .. serial /\ t # 0 /\ ~ (t <= logins)
        /\ \A i : i \in 1 .. serial => i \in 1 .. s
        /\ s \in 1 .. s /\ t <= t
        /\ \A u \in Times \cup {0} : (u <= logins => u <= t) /\ (u <= t => u <= logins \/ u = t)
    BY <1>2 DEF Ids, Times
  <1>4. /\ h \in Handler /\ h.type = "SEAT_SESSION_ADDED" /\ h.id = s /\ h.login = t
    BY <1>3 DEF Handler, SessionEvents
  <1> HIDE DEF s, t, h
  <1>5. /\ open'[s] = t /\ \A i \in Ids : i # s => open'[i] = open[i]
        /\ fate'[t] = "NOW" /\ \A u \in Times : u # t => fate'[u] = fate[u]
        /\ \A u : u # t => (u \in odd' <=> u \in odd)
        /\ t \in odd' <=> s \in Odd
    <2>1. t \notin odd
      BY <1>3 DEF Story, LoginsInv
    <2>2. (\A u : u # t => (u \in odd' <=> u \in odd)) /\ (t \in odd' <=> s \in Odd)
      BY <1>1, <2>1
    <2> QED BY <1>1, <1>3, <2>2 DEF BaseInv, OwnTypeOK
  <1>6. Logged' = Logged
    BY <1>1, LogStays
  <1>7. /\ \A g \in Range(handlers) : /\ g.id \in 1 .. serial /\ g.login <= logins
                                       /\ g.id \in Ids /\ g.login \in Times
                                       /\ g.id # s /\ g.login # t
        /\ \A i \in Ids : open[i] # 0 => i # s /\ open[i] <= logins /\ open[i] # t
        /\ \A l \in Logged : Added(l) => l.login # t
    BY <1>3, HandlersTyped DEF Story, HandlersInv, LoginsInv, AddedInv
  <1>8. Distinct(handlers') /\ Range(handlers') = Range(handlers) \cup {h}
    BY <1>1, <1>4, <1>7, DistinctAppend DEF BaseInv, OwnTypeOK, Story, HandlersInv
  <1>9. LoginsInv'
    <2>1. \A u \in Times : fate'[u] # "none" <=> u <= logins'
      BY <1>1, <1>3, <1>5 DEF Story, LoginsInv
    <2>2. ASSUME NEW i \in Ids, open'[i] # 0
          PROVE  /\ open'[i] <= logins' /\ i \in 1 .. serial'
                 /\ fate'[open'[i]] \in {"NOW", "DOWN"}
      <3>1. CASE i = s
        BY <1>1, <1>3, <1>5, <3>1
      <3>2. CASE i # s
        <4>1. open[i] # 0 /\ open'[i] = open[i] /\ open[i] \in Times /\ open[i] # t
          BY <1>5, <1>7, <2>2, <3>2, HandlersTyped
        <4> QED BY <1>1, <1>3, <1>5, <4>1 DEF Story, LoginsInv
      <3> QED BY <3>1, <3>2
    <2>3. \A i, j \in Ids : open'[i] = open'[j] /\ open'[i] # 0 => i = j
      BY <1>3, <1>5, <1>7 DEF Story, LoginsInv
    <2>4. ASSUME NEW u \in Times, fate'[u] = "NOW" PROVE \E i \in Ids : open'[i] = u
      <3>1. CASE u = t
        BY <1>3, <1>5, <3>1
      <3>2. CASE u # t
        <4>1. PICK i \in Ids : open[i] = u
          BY <1>5, <2>4, <3>2 DEF Story, LoginsInv
        <4>2. open'[i] = u
          BY <1>5, <1>7, <4>1, HandlersTyped
        <4> QED BY <4>2
      <3> QED BY <3>1, <3>2
    <2>5. \A u \in odd' : u <= logins'
      <3>1. \A u \in odd : u \in Times
        BY DEF BaseInv, OwnTypeOK
      <3> QED BY <1>1, <1>3, <1>5, <3>1 DEF Story, LoginsInv
    <2> QED BY <2>1, <2>2, <2>3, <2>4, <2>5 DEF LoginsInv
  <1>10. HandlersInv'
    <2>1. ASSUME NEW g \in Range(handlers')
          PROVE  /\ g.id \in 1 .. serial' /\ g.login <= logins'
                 /\ g.type = "SEAT_SESSION_ADDED" =>
                      /\ open'[g.id] = g.login /\ fate'[g.login] = "NOW"
                      /\ g.login \in odd' <=> g.id \in Odd
                      /\ \A l \in Logged : Added(l) => l.login # g.login
                 /\ g.type = "SEAT_SESSION_REMOVED" =>
                      /\ open'[g.id] = 0 /\ fate'[g.login] \in {"NORMAL", "DOWN"}
                      /\ \E l \in Logged : Added(l) /\ l.login = g.login /\ l.id = g.id
      <3>1. CASE g = h
        BY <1>1, <1>3, <1>4, <1>5, <1>7, <3>1
      <3>2. CASE g \in Range(handlers)
        <4>1. /\ g.id \in 1 .. serial' /\ g.login <= logins'
              /\ open'[g.id] = open[g.id] /\ fate'[g.login] = fate[g.login]
              /\ g.login \in odd' <=> g.login \in odd
          BY <1>1, <1>3, <1>5, <1>7, <3>2
        <4> QED BY <3>2, <4>1 DEF Story, HandlersInv
      <3> QED BY <1>8, <3>1, <3>2
    <2> QED BY <1>6, <1>8, <2>1 DEF HandlersInv, Added
  <1>11. AddedInv'
    <2>1. ASSUME NEW l \in Logged, Added(l)
          PROVE  /\ l.login \in Times /\ l.login <= logins'
                 /\ l.login \in odd' <=> l.id \in Odd
                 /\ \A m \in Logged : Added(m) /\ m.login = l.login => m = l
                 /\ \A i \in Ids : open'[i] = l.login => l.id = i
      <3>1. l.login # t /\ l.login \in Times
        BY <1>7, <2>1 DEF Story, AddedInv
      <3> QED BY <1>1, <1>3, <1>5, <2>1, <3>1 DEF Story, AddedInv
    <2>2. ASSUME NEW u \in Times, fate'[u] # "none"
          PROVE  \/ \E g \in Range(handlers') : g.type = "SEAT_SESSION_ADDED" /\ g.login = u
                 \/ \E l \in Logged : Added(l) /\ l.login = u
      <3>1. CASE u = t
        BY <1>4, <1>8, <3>1
      <3>2. CASE u # t
        BY <1>5, <1>8, <2>2, <3>2 DEF Story, AddedInv
      <3> QED BY <3>1, <3>2
    <2> QED BY <1>6, <2>1, <2>2 DEF AddedInv, Added
  <1>12. FateInv'
    <2> SUFFICES ASSUME NEW b \in Logged, Added(b)
                 PROVE  /\ fate'[b.login] = "NOW" => Unended(b)'
                        /\ fate'[b.login] = "NORMAL" =>
                             \/ EndedBy(b, {"SEAT_SESSION_REMOVED"})'
                             \/ /\ Unended(b)'
                                /\ \E g \in Range(handlers') : /\ g.type = "SEAT_SESSION_REMOVED"
                                                               /\ g.login = b.login /\ g.id = b.id
                        /\ fate'[b.login] = "DOWN" => EndedBy(b, {"SYSTEM_STOP", "SYSTEM_RESTART"})'
                        /\ fate'[b.login] = "CRASH" =>
                             \/ EndedBy(b, {"SYSTEM_START"})'
                             \/ Unended(b)' /\ system' = "down"
      BY <1>6 DEF FateInv, Added
    <2>1. b.login \in Times /\ fate'[b.login] = fate[b.login]
      BY <1>5, <1>7 DEF Story, AddedInv
    <2>2. Quiet
      BY <1>6, SameLines
    <2> QED BY <1>1, <1>8, <2>1, <2>2 DEF Story, FateInv, Quiet
  <1> QED BY <1>9, <1>10, <1>11, <1>12 DEF Story

\* A session is closed.
LEMMA StoryRemoved ==
  ASSUME BaseInv, Story, NEW i \in Ids, on_seat_session_removed_full(i), ~ misled'
  PROVE  Story'
  <1> DEFINE t == open[i]
             h == [type |-> "SEAT_SESSION_REMOVED", id |-> i, login |-> t]
  <1>1. /\ t # 0 /\ open' = [open EXCEPT ![i] = 0]
        /\ fate' = [fate EXCEPT ![t] = IF @ = "NOW" THEN "NORMAL" ELSE @]
        /\ handlers' = Append(handlers, h)
        /\ UNCHANGED <<logvars, system, logins, serial, odd>>
        /\ \A g \in Range(handlers) : g.login # t
    BY DEF on_seat_session_removed_full, ck_session_run_programs, Range
  <1>2. t \in Times
    BY <1>1, HandlersTyped
  <1>3. /\ h \in Handler /\ h.type = "SEAT_SESSION_REMOVED" /\ h.id = i /\ h.login = t
    BY <1>2 DEF Handler, SessionEvents
  <1>4. t <= logins /\ i \in 1 .. serial /\ fate[t] \in {"NOW", "DOWN"}
    BY <1>1 DEF Story, LoginsInv
  <1> HIDE DEF h
  <1>5. /\ open'[i] = 0 /\ \A j \in Ids : j # i => open'[j] = open[j]
        /\ fate'[t] = (IF fate[t] = "NOW" THEN "NORMAL" ELSE fate[t])
        /\ \A u \in Times : u # t => fate'[u] = fate[u]
    BY <1>1, <1>2 DEF BaseInv, OwnTypeOK
  <1>6. \A j \in Ids : open[j] = t => j = i
    BY <1>1 DEF Story, LoginsInv
  <1>7. Logged' = Logged
    BY <1>1, LogStays
  <1>8. PICK a \in Logged : Added(a) /\ a.login = t /\ a.id = i
    <2>1. fate[t] # "none"
      BY <1>4
    <2>2. PICK a \in Logged : Added(a) /\ a.login = t
      BY <1>1, <1>2, <2>1 DEF Story, AddedInv
    <2>3. a.id = i
      BY <2>2 DEF Story, AddedInv
    <2> QED BY <2>2, <2>3
  <1>9. \A g \in Range(handlers) : /\ g.id \in Ids /\ g.login \in Times /\ g.login # 0
                                   /\ g.type \in SessionEvents
                                   /\ g.id # i /\ g.login # t
    <2> SUFFICES ASSUME NEW g \in Range(handlers) PROVE g.id # i
      BY <1>1, HandlersTyped
    <2>1. g.type = "SEAT_SESSION_ADDED" \/ g.type = "SEAT_SESSION_REMOVED"
      BY HandlersTyped DEF SessionEvents
    <2> QED BY <1>1, <2>1 DEF Story, HandlersInv
  <1> HIDE DEF t
  <1>10. Distinct(handlers') /\ Range(handlers') = Range(handlers) \cup {h}
    BY <1>1, <1>3, <1>9, DistinctAppend DEF BaseInv, OwnTypeOK, Story, HandlersInv
  <1>11. LoginsInv'
    <2>1. \A u \in Times : fate'[u] # "none" <=> u <= logins'
      BY <1>1, <1>2, <1>4, <1>5 DEF Story, LoginsInv
    <2>2. ASSUME NEW j \in Ids, open'[j] # 0
          PROVE  /\ open'[j] <= logins' /\ j \in 1 .. serial'
                 /\ fate'[open'[j]] \in {"NOW", "DOWN"}
      <3>1. j # i /\ open[j] # 0 /\ open'[j] = open[j] /\ open[j] \in Times /\ open[j] # t
        BY <1>5, <1>6, <2>2, HandlersTyped
      <3> QED BY <1>1, <1>5, <3>1 DEF Story, LoginsInv
    <2>3. \A j, k \in Ids : open'[j] = open'[k] /\ open'[j] # 0 => j = k
      BY <1>5 DEF Story, LoginsInv
    <2>4. ASSUME NEW u \in Times, fate'[u] = "NOW" PROVE \E j \in Ids : open'[j] = u
      <3>1. u # t /\ fate[u] = "NOW"
        BY <1>4, <1>5, <2>4
      <3>2. PICK j \in Ids : open[j] = u
        BY <3>1 DEF Story, LoginsInv
      <3>3. j # i
        BY <3>1, <3>2 DEF t
      <3> QED BY <1>5, <3>2, <3>3
    <2>5. \A u \in odd' : u <= logins'
      BY <1>1 DEF Story, LoginsInv
    <2> QED BY <2>1, <2>2, <2>3, <2>4, <2>5 DEF LoginsInv
  <1>12. HandlersInv'
    <2>1. ASSUME NEW g \in Range(handlers')
          PROVE  /\ g.id \in 1 .. serial' /\ g.login <= logins'
                 /\ g.type = "SEAT_SESSION_ADDED" =>
                      /\ open'[g.id] = g.login /\ fate'[g.login] = "NOW"
                      /\ g.login \in odd' <=> g.id \in Odd
                      /\ \A l \in Logged : Added(l) => l.login # g.login
                 /\ g.type = "SEAT_SESSION_REMOVED" =>
                      /\ open'[g.id] = 0 /\ fate'[g.login] \in {"NORMAL", "DOWN"}
                      /\ \E l \in Logged : Added(l) /\ l.login = g.login /\ l.id = g.id
      <3>1. CASE g = h
        BY <1>1, <1>3, <1>4, <1>5, <1>8, <3>1
      <3>2. CASE g \in Range(handlers)
        <4>1. /\ open'[g.id] = open[g.id] /\ fate'[g.login] = fate[g.login]
          BY <1>5, <1>9, <3>2
        <4> QED BY <1>1, <3>2, <4>1 DEF Story, HandlersInv
      <3> QED BY <1>10, <3>1, <3>2
    <2> QED BY <1>7, <1>10, <2>1 DEF HandlersInv, Added
  <1>13. AddedInv'
    <2>1. ASSUME NEW l \in Logged, Added(l)
          PROVE  /\ l.login \in Times /\ l.login <= logins'
                 /\ l.login \in odd' <=> l.id \in Odd
                 /\ \A m \in Logged : Added(m) /\ m.login = l.login => m = l
                 /\ \A j \in Ids : open'[j] = l.login => l.id = j
      <3>1. l.login \in Times /\ l.login # 0
        BY <2>1, HandlersTyped DEF Story, AddedInv
      <3> QED BY <1>1, <1>5, <2>1, <3>1 DEF Story, AddedInv
    <2>2. ASSUME NEW u \in Times, fate'[u] # "none"
          PROVE  \/ \E g \in Range(handlers') : g.type = "SEAT_SESSION_ADDED" /\ g.login = u
                 \/ \E l \in Logged : Added(l) /\ l.login = u
      <3>1. CASE u = t
        BY <1>8, <3>1
      <3>2. CASE u # t
        BY <1>5, <1>10, <2>2, <3>2 DEF Story, AddedInv
      <3> QED BY <3>1, <3>2
    <2> QED BY <1>7, <2>1, <2>2 DEF AddedInv, Added
  <1>14. FateInv'
    <2> SUFFICES ASSUME NEW b \in Logged, Added(b)
                 PROVE  /\ fate'[b.login] = "NOW" => Unended(b)'
                        /\ fate'[b.login] = "NORMAL" =>
                             \/ EndedBy(b, {"SEAT_SESSION_REMOVED"})'
                             \/ /\ Unended(b)'
                                /\ \E g \in Range(handlers') : /\ g.type = "SEAT_SESSION_REMOVED"
                                                               /\ g.login = b.login /\ g.id = b.id
                        /\ fate'[b.login] = "DOWN" => EndedBy(b, {"SYSTEM_STOP", "SYSTEM_RESTART"})'
                        /\ fate'[b.login] = "CRASH" =>
                             \/ EndedBy(b, {"SYSTEM_START"})'
                             \/ Unended(b)' /\ system' = "down"
      BY <1>7 DEF FateInv, Added
    <2>1. b.login \in Times
      BY DEF Story, AddedInv
    <2>2. Quiet
      BY <1>7, SameLines
    <2>3. CASE b.login # t
      <3>1. fate'[b.login] = fate[b.login]
        BY <1>5, <2>1, <2>3
      <3> QED BY <1>1, <1>10, <2>1, <2>2, <3>1 DEF Story, FateInv, Quiet
    <2>4. CASE b.login = t
      <3>1. b.id = i
        BY <1>8, <2>4 DEF Story, AddedInv
      <3>2. CASE fate[t] = "NOW"
        <4>1. Unended(b)' /\ fate'[t] = "NORMAL"
          BY <1>5, <2>2, <2>4, <3>2 DEF Story, FateInv, Quiet
        <4> QED BY <1>3, <1>10, <2>4, <3>1, <4>1
      <3>3. CASE fate[t] = "DOWN"
        BY <1>5, <2>2, <2>4, <3>3 DEF Story, FateInv, Quiet
      <3> QED BY <1>4, <3>2, <3>3
    <2> QED BY <2>3, <2>4
  <1> QED BY <1>11, <1>12, <1>13, <1>14 DEF Story

\* The programs of a handler are done and its line is logged.
LEMMA StoryProgramsEnd ==
  ASSUME BaseInv, LinesInv, Story, ProgramsEnd
  PROVE  Story'
  <1> DEFINE h == Last(handlers)
             e == Event(h.type, h.id, h.login)
  <1>1. /\ handlers # <<>> /\ handlers' = Front(handlers)
        /\ UNCHANGED <<system, logins, serial, open, fate, odd>>
    BY DEF ProgramsEnd
  <1>2. /\ h.type \in SessionEvents /\ h.id \in Ids /\ h.login \in Times
    BY <1>1, LastFront DEF BaseInv
  <1>3. /\ Distinct(handlers') /\ h \in Range(handlers)
        /\ \A g : g \in Range(handlers) <=> g \in Range(handlers') \/ g = h
        /\ \A g \in Range(handlers') : g.id # h.id /\ g.login # h.login
    BY <1>1, DistinctFront DEF BaseInv, Story, HandlersInv
  <1>4. clock < MaxEvents /\ Queues(e) /\ running
    BY StepProgramsEnd
  <1> HIDE DEF h
  <1>5. PICK n : /\ n = Line(e) /\ e \in EventsOf(Times, Ids) /\ n.time = clock + 1
                 /\ n.name = event_type_to_name(h.type) /\ n.id = h.id /\ n.login = h.login
    BY <1>2, <1>4, NewLine, TypesAre
  <1>6. n.name = h.type
    BY <1>2, <1>5 DEF event_type_to_name, SessionEvents, SleepEvents
  <1> HIDE DEF e
  <1>7. Logged' = Logged \cup {n}
    BY <1>4, <1>5, QueuesLogged DEF BaseInv
  <1>8. /\ n \notin Logged
        /\ Unended(n)'
        /\ \A b \in Logged :
             /\ n.time > b.time
             /\ \A N : EndedBy(b, N) => EndedBy(b, N)'
             /\ Unended(b) /\ ~ Ender(n, b) => Unended(b)'
             /\ Unended(b) /\ Ender(n, b) => \A N : n.name \in N => EndedBy(b, N)'
    BY <1>5, <1>7, MoreLines
  <1>9. system # "down"
    BY <1>4 DEF BaseInv, DaemonInv
  <1>10. /\ h.id \in 1 .. serial /\ h.login <= logins
         /\ h.type = "SEAT_SESSION_ADDED" =>
              /\ open[h.id] = h.login /\ fate[h.login] = "NOW"
              /\ h.login \in odd <=> h.id \in Odd
              /\ \A l \in Logged : Added(l) => l.login # h.login
         /\ h.type = "SEAT_SESSION_REMOVED" =>
              /\ open[h.id] = 0 /\ fate[h.login] \in {"NORMAL", "DOWN"}
              /\ \E l \in Logged : Added(l) /\ l.login = h.login /\ l.id = h.id
    BY <1>3 DEF Story, HandlersInv
  <1>11. LoginsInv'
    BY <1>1 DEF Story, LoginsInv
  <1>12. HandlersInv'
    <2>1. ASSUME NEW g \in Range(handlers')
          PROVE  /\ g.id \in 1 .. serial /\ g.login <= logins
                 /\ g.type = "SEAT_SESSION_ADDED" =>
                      /\ open[g.id] = g.login /\ fate[g.login] = "NOW"
                      /\ g.login \in odd <=> g.id \in Odd
                      /\ \A l \in Logged' : Added(l) => l.login # g.login
                 /\ g.type = "SEAT_SESSION_REMOVED" =>
                      /\ open[g.id] = 0 /\ fate[g.login] \in {"NORMAL", "DOWN"}
                      /\ \E l \in Logged' : Added(l) /\ l.login = g.login /\ l.id = g.id
      BY <1>3, <1>5, <1>7, <2>1 DEF Story, HandlersInv
    <2> QED BY <1>1, <1>3, <2>1 DEF HandlersInv, Added
  <1>13. AddedInv'
    <2>1. ASSUME NEW l \in Logged', Added(l)
          PROVE  /\ l.login \in Times /\ l.login <= logins
                 /\ l.login \in odd <=> l.id \in Odd
                 /\ \A m \in Logged' : Added(m) /\ m.login = l.login => m = l
                 /\ \A j \in Ids : open[j] = l.login => l.id = j
      <3>1. CASE l = n
        <4>1. h.type = "SEAT_SESSION_ADDED"
          BY <1>6, <2>1, <3>1 DEF Added
        <4>2. \A j \in Ids : open[j] = h.login => h.id = j
          BY <1>2, <1>10, <4>1, HandlersTyped DEF Story, LoginsInv
        <4> QED BY <1>2, <1>5, <1>7, <1>10, <3>1, <4>1, <4>2
      <3>2. CASE l \in Logged
        <4>1. Added(n) => n.login # l.login
          BY <1>5, <1>6, <1>10, <2>1, <3>2 DEF Added
        <4> QED BY <1>7, <2>1, <3>2, <4>1 DEF Story, AddedInv
      <3> QED BY <1>7, <3>1, <3>2
    <2>2. ASSUME NEW u \in Times, fate[u] # "none"
          PROVE  \/ \E g \in Range(handlers') : g.type = "SEAT_SESSION_ADDED" /\ g.login = u
                 \/ \E l \in Logged' : Added(l) /\ l.login = u
      <3>1. CASE \E l \in Logged : Added(l) /\ l.login = u
        BY <1>7, <3>1
      <3>2. ASSUME NEW g \in Range(handlers), g.type = "SEAT_SESSION_ADDED", g.login = u
            PROVE  \/ \E k \in Range(handlers') : k.type = "SEAT_SESSION_ADDED" /\ k.login = u
                   \/ \E l \in Logged' : Added(l) /\ l.login = u
        <4>1. CASE g = h
          BY <1>5, <1>6, <1>7, <3>2, <4>1 DEF Added
        <4>2. CASE g \in Range(handlers')
          BY <3>2, <4>2
        <4> QED BY <1>3, <4>1, <4>2
      <3> QED BY <2>2, <3>1, <3>2 DEF Story, AddedInv
    <2> QED BY <1>1, <2>1, <2>2 DEF AddedInv, Added
  <1>14. FateInv'
    <2> SUFFICES ASSUME NEW b \in Logged', Added(b)
                 PROVE  /\ fate[b.login] = "NOW" => Unended(b)'
                        /\ fate[b.login] = "NORMAL" =>
                             \/ EndedBy(b, {"SEAT_SESSION_REMOVED"})'
                             \/ /\ Unended(b)'
                                /\ \E g \in Range(handlers') : /\ g.type = "SEAT_SESSION_REMOVED"
                                                               /\ g.login = b.login /\ g.id = b.id
                        /\ fate[b.login] = "DOWN" => EndedBy(b, {"SYSTEM_STOP", "SYSTEM_RESTART"})'
                        /\ fate[b.login] = "CRASH" => EndedBy(b, {"SYSTEM_START"})'
      BY <1>1 DEF FateInv, Added
    <2>1. CASE b = n
      <3>1. h.type = "SEAT_SESSION_ADDED"
        BY <1>6, <2>1 DEF Added
      <3> QED BY <1>5, <1>8, <1>10, <2>1, <3>1
    <2>2. CASE b \in Logged
      <3>0. b.login \in Times /\ \A j \in Ids : open[j] = b.login => b.id = j
        BY <2>2 DEF Story, AddedInv
      <3>1. Ender(n, b) => h.type = "SEAT_SESSION_REMOVED" /\ h.id = b.id /\ n.name = h.type
        BY <1>2, <1>5, <1>6 DEF Ender, SessionEvents, SystemEvents
      <3>2. h.type = "SEAT_SESSION_REMOVED" /\ h.id = b.id => Ender(n, b)
        BY <1>5, <1>6, <1>8, <2>2 DEF Ender
      <3>3. CASE fate[b.login] = "NOW"
        <4>1. PICK j \in Ids : open[j] = b.login
          BY <3>0, <3>3 DEF Story, LoginsInv
        <4>2. open[b.id] # 0
          BY <3>0, <4>1, HandlersTyped
        <4>3. ~ Ender(n, b)
          BY <1>10, <3>1, <4>2
        <4> QED BY <1>8, <2>2, <3>3, <4>3 DEF Story, FateInv
      <3>4. CASE fate[b.login] = "NORMAL"
        <4>1. CASE EndedBy(b, {"SEAT_SESSION_REMOVED"})
          BY <1>8, <2>2, <3>4, <4>1
        <4>2. CASE Unended(b)
          <5>1. CASE Ender(n, b)
            <6>1. n.name \in {"SEAT_SESSION_REMOVED"}
              BY <3>1, <5>1
            <6> QED BY <1>8, <2>2, <3>4, <4>2, <5>1, <6>1
          <5>2. CASE ~ Ender(n, b)
            <6>0. ~ EndedBy(b, {"SEAT_SESSION_REMOVED"})
              BY <4>2 DEF EndedBy, Unended
            <6>1. PICK g \in Range(handlers) : /\ g.type = "SEAT_SESSION_REMOVED"
                                               /\ g.login = b.login /\ g.id = b.id
              BY <2>2, <3>4, <6>0 DEF Story, FateInv
            <6>2. g \in Range(handlers')
              BY <1>3, <3>2, <5>2, <6>1
            <6> QED BY <1>8, <2>2, <3>4, <4>2, <5>2, <6>1, <6>2
          <5> QED BY <5>1, <5>2
        <4> QED BY <2>2, <3>4, <4>1, <4>2 DEF Story, FateInv
      <3>5. CASE fate[b.login] \notin {"NOW", "NORMAL"}
        BY <1>8, <1>9, <2>2, <3>5 DEF Story, FateInv
      <3> QED BY <3>3, <3>4, <3>5
    <2> QED BY <1>7, <2>1, <2>2
  <1> QED BY <1>11, <1>12, <1>13, <1>14 DEF Story

\* It is true unless something is lost or misleads.
StoryInv == Sound => Story

\* The story is true initially.
LEMMA StoryStart == HistoryInit => StoryInv
  <1> SUFFICES ASSUME HistoryInit PROVE Story
    BY DEF StoryInv
  <1>1. BaseInv
    BY BaseStart
  <1>2. /\ \A f \in Inodes : text[f] = <<>>
        /\ taken = <<>> /\ queue = <<>> /\ handlers = <<>> /\ logins = 0 /\ odd = {}
        /\ \A i \in Ids : open[i] = 0 /\ \A t \in Times : fate[t] = "none"
        /\ \A t \in Times : fate[t] = "none"
    BY DEF HistoryInit, LoggerInit
  <1>3. Range(<<>>) = {} /\ \A t \in Times : ~ (t <= 0)
    BY <1>1, TimesAreNumbers DEF Range
  <1>4. Pending = <<>> /\ Written = {}
    BY <1>2, <1>3 DEF Pending, Written
  <1>5. Logged = {}
    BY <1>3, <1>4 DEF Logged
  <1>6. LoginsInv
    BY <1>2, <1>3 DEF LoginsInv
  <1>7. HandlersInv
    BY <1>2, <1>3 DEF HandlersInv, Distinct
  <1>8. AddedInv /\ FateInv
    BY <1>2, <1>5 DEF AddedInv, FateInv
  <1> QED BY <1>6, <1>7, <1>8 DEF Story

\* Only what is logged adds a line.
LEMMA NoLine ==
  ASSUME BaseInv, LogStep, clock' = clock, ~ lost'
  PROVE  Quiet
  <1>1. clock' # clock + 1
    BY TimesAreNumbers
  <1>2. Logged' = Logged
    BY <1>1, KeepsLogged, WritesLogged DEF LogStep, BaseInv
  <1> QED BY <1>2, SameLines

\* An event that is not of a session adds a line that no login has.
LEMMA OtherLine ==
  ASSUME BaseInv, LinesInv, clock < MaxEvents, NEW t \in Types \ SessionEvents,
         Queues(Event(t, 0, 0)) \/ Inserts(Event(t, 0, 0))
  PROVE  /\ SameAdded
         /\ \A b \in Logged : /\ \A N : EndedBy(b, N) => EndedBy(b, N)'
                              /\ t \notin SystemEvents => (Unended(b) => Unended(b)')
                              /\ t \in SystemEvents =>
                                   (Unended(b) => \A N : t \in N => EndedBy(b, N)')
  <1> DEFINE e == Event(t, 0, 0)
  <1>1. PICK n : /\ n = Line(e) /\ e \in EventsOf(Times, Ids) /\ n \in LinesOf(Times, Ids)
                 /\ n.time = clock + 1 /\ n.name = event_type_to_name(t)
    BY NewLine, TypesAre
  <1> HIDE DEF e
  <1>2. Logged' = Logged \cup {n}
    <2>1. Queues(e) \/ Inserts(e)
      BY DEF e
    <2> QED BY <1>1, <2>1, QueuesLogged, InsertsLogged DEF BaseInv
  <1>3. /\ \A b \in Logged :
             /\ n.time > b.time
             /\ \A N : EndedBy(b, N) => EndedBy(b, N)'
             /\ Unended(b) /\ ~ Ender(n, b) => Unended(b)'
             /\ Unended(b) /\ Ender(n, b) => \A N : n.name \in N => EndedBy(b, N)'
    BY <1>1, <1>2, MoreLines
  <1>4. /\ n.name # "SEAT_SESSION_ADDED" /\ n.name # "SEAT_SESSION_REMOVED"
        /\ t \in SystemEvents => n.name = t
        /\ t \notin SystemEvents => n.name \notin SystemEvents
    BY <1>1 DEF event_type_to_name, SessionEvents, SystemEvents, SleepEvents
  <1>5. SameAdded
    BY <1>2, <1>4 DEF SameAdded, Added
  <1>6. \A b \in Logged : Ender(n, b) <=> t \in SystemEvents
    BY <1>3, <1>4 DEF Ender
  <1> QED BY <1>3, <1>4, <1>5, <1>6

\* Which types of events end logins.
LEMMA SystemTypes ==
  /\ "SYSTEM_START" \in SystemEvents
  /\ \A t \in Actions \cup Stops :
       t \in {"SYSTEM_STOP", "SYSTEM_RESTART"} /\ t \in SystemEvents
  /\ \A t \in SystemEvents : t \in Types \ SessionEvents
  /\ \A t \in Noise : t \in Types \ SessionEvents /\ t \notin SystemEvents
  BY HistoryAssumption
  DEF HistoryAssumption, SystemEvents, SessionEvents, Types, SeatEvents, DeviceEvents,
      ActiveEvents, SleepEvents

\* The story stays true: one case per action of HistoryNext.
LEMMA StoryNext ==
  ASSUME HistoryInv, StoryInv, [HistoryNext]_historyvars
  PROVE  StoryInv'
  <1> SUFFICES ASSUME Sound' PROVE Story'
    BY DEF StoryInv
  <1>1. BaseInv /\ LinesInv /\ LogStep
    BY BaseNext DEF HistoryInv
  <1>2. Sound /\ Story /\ ~ lost' /\ ~ misled'
    BY <1>1 DEF LogStep, Sound, StoryInv
  <1>3. CASE UNCHANGED historyvars
    <2>1. Quiet
      BY <1>1, <1>2, <1>3, NoLine DEF historyvars
    <2> QED BY <1>2, <1>3, <2>1, StoryFrame DEF historyvars, daemonvars
  <1>4. CASE StartDaemon
    <2>1. Quiet
      BY <1>1, <1>2, <1>4, NoLine DEF StartDaemon
    <2> QED BY <1>2, <1>4, <2>1, StoryFrame DEF StartDaemon, daemonvars
  <1>5. CASE RotateLog
    <2>1. Quiet
      BY <1>1, <1>2, <1>5, NoLine DEF RotateLog
    <2> QED BY <1>2, <1>5, <2>1, StoryFrame DEF RotateLog, daemonvars
  <1>6. CASE DaemonDies
    <2>1. Quiet
      BY <1>1, <1>2, <1>6, NoLine DEF DaemonDies
    <2>2. handlers = <<>>
      BY <1>2, <1>6 DEF DaemonDies, Forgets
    <2> QED BY <1>1, <1>2, <1>6, <2>1, <2>2, StoryForgets DEF DaemonDies
  <1>7. CASE GoDown
    <2>1. Quiet
      BY <1>1, <1>2, <1>7, NoLine DEF GoDown
    <2>2. handlers = <<>>
      BY <1>2, <1>7 DEF GoDown, Forgets
    <2> QED BY <1>1, <1>2, <1>7, <2>1, <2>2, StoryForgets DEF GoDown
  <1>8. CASE LogWriter
    <2>1. Quiet
      BY <1>1, <1>2, <1>8, NoLine DEF LogWriter
    <2>2. CASE running'
      BY <1>2, <1>8, <2>1, <2>2, StoryFrame DEF LogWriter, daemonvars
    <2>3. CASE ~ running'
      <3>1. handlers = <<>> /\ Forgets("PHANTOM")
        BY <1>2, <1>8, <2>3 DEF LogWriter, Forgets
      <3> QED BY <1>1, <1>2, <1>8, <2>1, <3>1, StoryForgets DEF LogWriter
    <2> QED BY <2>2, <2>3
  <1>9. CASE on_seat_session_added_full
    BY <1>1, <1>2, <1>9, StoryAdded
  <1>10. CASE ProgramsEnd
    BY <1>1, <1>2, <1>10, StoryProgramsEnd
  <1>11. ASSUME NEW i \in Ids, on_seat_session_removed_full(i) PROVE Story'
    BY <1>1, <1>2, <1>11, StoryRemoved
  <1>12. ASSUME NEW t \in Actions, log_system_action_event(t) PROVE Story'
    <2>1. clock < MaxEvents /\ running /\ Queues(Event(t, 0, 0))
      BY <1>1, <1>12, StepAction
    <2>2. /\ Ends("DOWN") /\ handlers = <<>>
          /\ UNCHANGED <<open, handlers, serial, logins, odd>>
      BY <1>2, <1>12 DEF log_system_action_event, daemonvars
    <2>3. system # "down"
      BY <1>1, <2>1 DEF BaseInv, DaemonInv
    <2>4. /\ SameAdded
          /\ \A b \in Logged : /\ \A N : EndedBy(b, N) => EndedBy(b, N)'
                               /\ Unended(b) => \A N : t \in N => EndedBy(b, N)'
      BY <1>1, <2>1, OtherLine, SystemTypes
    <2>5. t \in {"SYSTEM_STOP", "SYSTEM_RESTART"}
      BY SystemTypes
    <2> QED BY <1>1, <1>2, <2>2, <2>3, <2>4, <2>5, StorySystem
  <1>13. ASSUME NEW t \in Stops, LogSystemStop(t) PROVE Story'
    <2>1. clock < MaxEvents /\ Inserts(Event(t, 0, 0))
      BY <1>1, <1>2, <1>13, StepStop
    <2>2. /\ Ends("DOWN") /\ handlers = <<>> /\ system # "down"
          /\ UNCHANGED <<open, handlers, serial, logins, odd>>
      BY <1>2, <1>13 DEF LogSystemStop, daemonvars
    <2>4. /\ SameAdded
          /\ \A b \in Logged : /\ \A N : EndedBy(b, N) => EndedBy(b, N)'
                               /\ Unended(b) => \A N : t \in N => EndedBy(b, N)'
      BY <1>1, <2>1, OtherLine, SystemTypes
    <2>5. t \in {"SYSTEM_STOP", "SYSTEM_RESTART"}
      BY SystemTypes
    <2> QED BY <1>1, <1>2, <2>2, <2>4, <2>5, StorySystem
  <1>14. CASE LogSystemStart
    <2> DEFINE t == "SYSTEM_START"
    <2>1. clock < MaxEvents /\ ~ running /\ Inserts(Event(t, 0, 0))
      BY <1>1, <1>2, <1>14, StepStart
    <2>2. /\ system = "down" /\ fate' = fate
          /\ UNCHANGED <<open, handlers, serial, logins, odd>>
      BY <1>14 DEF LogSystemStart, daemonvars
    <2>3. handlers = <<>> /\ \A i \in Ids : open[i] = 0
      BY <1>1, <2>1 DEF BaseInv, DaemonInv
    <2>4. /\ SameAdded
          /\ \A b \in Logged : /\ \A N : EndedBy(b, N) => EndedBy(b, N)'
                               /\ Unended(b) => \A N : t \in N => EndedBy(b, N)'
      BY <1>1, <2>1, OtherLine, SystemTypes
    <2> QED BY <1>1, <1>2, <2>2, <2>3, <2>4, StorySystem
  <1>15. ASSUME NEW t \in Noise, LogOther(t) PROVE Story'
    <2>1. clock < MaxEvents /\ Queues(Event(t, 0, 0))
      BY <1>1, <1>15, StepOther
    <2>2. Quiet
      BY <1>1, <2>1, OtherLine, SystemTypes DEF Quiet
    <2> QED BY <1>2, <1>15, <2>2, StoryFrame DEF LogOther, daemonvars
  <1> QED BY <1>3, <1>4, <1>5, <1>6, <1>7, <1>8, <1>9, <1>10, <1>11, <1>12, <1>13, <1>14, <1>15
          DEF HistoryNext

\* As long as nothing is lost and nothing misleads, the log tells what happened to each login.
LEMMA StoryInvHolds == HistorySpec => []StoryInv
  <1>1. HistoryInv /\ StoryInv /\ [HistoryNext]_historyvars => StoryInv'
    BY StoryNext
  <1> QED BY <1>1, StoryStart, HistoryInvHolds, PTL DEF HistorySpec

----------------------------------------------------------------------------
(* The report.                                                             *)

\* When all is written, ck-history reads every line that can be parsed, in order.
LEMMA SettledReads ==
  ASSUME HistoryInv, Settles
  PROVE  /\ all_events(0) \in Seq(EventsOf(Times, Ids))
         /\ Increasing(all_events(0))
         /\ \A e : e \in Range(all_events(0)) <=>
              \E l \in Logged : parses(l) /\ e = ck_log_event_new_from_string(l)
  <1> DEFINE es == all_events(0)
             fs == get_log_file_list
             E == EventsOf(Times, Ids)
  <1>1. LoggerInv /\ TextOrdered(Times) /\ path # NoFile
    BY SettledOrder DEF Settles
  <1>2. /\ es \in Seq(E) /\ Ordered(es, Times)
        /\ \A e : e \in Range(es) <=>
             \E k \in DOMAIN fs : /\ IsRead(fs, k, 0)
                                  /\ e \in Range(Parsed(fs[k])) /\ e.time >= 0
    BY <1>1, ReadingIs
  <1> HIDE DEF es
  <1>3. Increasing(es)
    <2>1. \A e \in E : e.time \in Times
      BY DEF EventsOf
    <2>2. \A i \in DOMAIN es : es[i].time \in Times
      <3> HIDE DEF E
      <3> QED BY <1>2, <2>1
    <2> QED BY <1>2, <2>2 DEF Ordered, Increasing
  <1>4. \A k \in DOMAIN fs : /\ IsRead(fs, k, 0) /\ fs[k] \in Inodes
                             /\ \A e \in Range(Parsed(fs[k])) : e.time >= 0
    BY <1>1, ReadsAll
  <1>5. Logged = Written
    <2>1. Range(Pending) = {}
      BY DEF Settles, Range
    <2> QED BY <2>1 DEF Logged
  <1>6. ASSUME NEW k \in DOMAIN fs, NEW e
        PROVE  e \in Range(Parsed(fs[k])) <=>
                 \E l \in Range(text[fs[k]]) : parses(l) /\ e = ck_log_event_new_from_string(l)
    BY <1>1, <1>4, ParsedIs DEF TextOrdered
  <1>7. ASSUME NEW l
        PROVE  l \in Written <=> \E k \in DOMAIN fs : l \in Range(text[fs[k]])
    <2>1. ASSUME l \in Written PROVE \E k \in DOMAIN fs : l \in Range(text[fs[k]])
      <3>1. PICK f \in Inodes : l \in Range(text[f])
        BY <2>1 DEF Written
      <3>2. f \in 1 .. made
        <4>1. ~ f > made
          BY <1>1, <3>1 DEF LoggerInv, FilesInv, Range
        <4>2. made \in Nat
          BY <1>1, LoggerAssumption DEF LoggerInv, LoggerTypeOK, LoggerAssumption
        <4> QED BY <4>1, <4>2 DEF Inodes
      <3>3. PICK k \in DOMAIN fs : fs[k] = f
        BY <1>1, <3>2, FileListIs
      <3> QED BY <3>1, <3>3
    <2>2. ASSUME NEW k \in DOMAIN fs, l \in Range(text[fs[k]]) PROVE l \in Written
      BY <1>1, <1>4, <2>2, LinesTyped
    <2> QED BY <2>1, <2>2
  <1>8. ASSUME NEW e
        PROVE  e \in Range(es) <=> \E l \in Logged : parses(l) /\ e = ck_log_event_new_from_string(l)
    <2>1. e \in Range(es) <=> \E k \in DOMAIN fs : e \in Range(Parsed(fs[k]))
      BY <1>2, <1>4
    <2> QED BY <1>5, <1>6, <1>7, <2>1
  <1> QED BY <1>2, <1>3, <1>8 DEF es

\* The status of a session is told by the first line that may have ended it.
LEMMA StatusIs ==
  ASSUME HistoryInv, Settles, NEW i \in DOMAIN all_events(0), NEW b \in Logged, parses(b),
         Added(b), all_events(0)[i] = ck_log_event_new_from_string(b)
  PROVE  /\ Unended(b) => get_event_record_status(all_events(0), i) = "NOW"
         /\ EndedBy(b, {"SEAT_SESSION_REMOVED"}) =>
              get_event_record_status(all_events(0), i) = "NORMAL"
         /\ EndedBy(b, {"SYSTEM_STOP", "SYSTEM_RESTART"}) =>
              get_event_record_status(all_events(0), i) = "DOWN"
         /\ EndedBy(b, {"SYSTEM_START"}) =>
              get_event_record_status(all_events(0), i) = "CRASH"
  <1> DEFINE es == all_events(0)
             R == RemoveEvents(es, i)
             E == EventsOf(Times, Ids)
             Rd(l) == ck_log_event_new_from_string(l)
  <1>1. /\ es \in Seq(E) /\ Increasing(es)
        /\ \A e : e \in Range(es) <=> \E l \in Logged : parses(l) /\ e = Rd(l)
    BY SettledReads
  <1>2. /\ \A l \in Logged : /\ l \in LinesOf(Times, Ids) /\ l.time \in Nat
                             /\ l.plain = (l.id \notin Odd)
    BY LinesTyped, TimesAreNumbers DEF HistoryInv, BaseInv, LinesInv
  <1>3. \A l \in Logged : parses(l) =>
          Rd(l).time = l.time /\ Rd(l).type = l.name /\ Rd(l).id = l.id
    BY <1>2, ReadIs
  <1> HIDE DEF es, Rd, E
  <1>4. es[i] = Rd(b) /\ i \in DOMAIN es
    BY DEF es, Rd
  <1>5. DOMAIN es = 1 .. Len(es) /\ Len(es) \in Nat
    BY <1>1
  <1>6. \A j : j \in R <=> /\ j \in i + 1 .. Len(es)
                           /\ \/ es[j].type = "SEAT_SESSION_REMOVED" /\ es[j].id = es[i].id
                              \/ es[j].type \in SystemEvents
    BY DEF RemoveEvents
  <1>7. \A j \in R : j \in DOMAIN es /\ j \in Nat /\ i < j
    BY <1>4, <1>5, <1>6
  <1>8. ASSUME NEW j \in R PROVE \E d \in Logged : parses(d) /\ Ender(d, b) /\ es[j] = Rd(d)
    <2>1. PICK d \in Logged : parses(d) /\ es[j] = Rd(d)
      BY <1>1, <1>7 DEF Range
    <2>2. es[i].time < es[j].time
      BY <1>1, <1>4, <1>7 DEF Increasing
    <2>3. d.time > b.time
      BY <1>2, <1>3, <1>4, <2>1, <2>2
    <2> QED BY <1>3, <1>4, <1>6, <2>1, <2>3 DEF Ender
  <1>9. ASSUME NEW d \in Logged, Ender(d, b) PROVE \E j \in R : es[j] = Rd(d) /\ parses(d)
    <2>1. parses(d)
      <3>1. b.plain
        BY DEF parses, Added, SessionEvents
      <3>2. CASE d.name = "SEAT_SESSION_REMOVED" /\ d.id = b.id
        BY <1>2, <3>1, <3>2 DEF parses
      <3>3. CASE d.name \in SystemEvents
        BY <3>3 DEF parses, SystemEvents, SessionEvents
      <3> QED BY <1>9, <3>2, <3>3 DEF Ender
    <2>2. PICK j \in DOMAIN es : es[j] = Rd(d)
      BY <1>1, <2>1 DEF Range
    <2>3. b.time < d.time /\ es[j].time = d.time /\ es[i].time = b.time
      BY <1>2, <1>3, <1>4, <1>9, <2>1, <2>2 DEF Ender
    <2>4. ~ (j < i) /\ j # i
      BY <1>1, <1>2, <1>4, <2>2, <2>3 DEF Increasing
    <2>5. j \in i + 1 .. Len(es)
      BY <1>4, <1>5, <2>2, <2>4
    <2>6. j \in R
      BY <1>3, <1>4, <1>6, <1>9, <2>1, <2>2, <2>5 DEF Ender
    <2> QED BY <2>1, <2>2, <2>6
  <1> HIDE DEF R
  <1>10. ASSUME Unended(b) PROVE get_event_record_status(es, i) = "NOW"
    <2>1. R = {}
      BY <1>8, <1>10 DEF Unended
    <2> QED BY <2>1 DEF get_event_record_status, R
  <1>11. ASSUME NEW N, EndedBy(b, N)
         PROVE  R # {} /\ es[find_first_matching_remove_event(es, i)].type \in N
    <2>1. PICK e \in Logged : /\ Ender(e, b) /\ e.name \in N
                              /\ \A d \in Logged : Ender(d, b) => e.time <= d.time
      BY <1>11 DEF EndedBy
    <2>2. PICK k \in R : es[k] = Rd(e) /\ parses(e)
      BY <1>9, <2>1
    <2> DEFINE j == find_first_matching_remove_event(es, i)
    <2>3. j \in R /\ \A m \in R : j <= m
      <3>1. \E x \in R : \A m \in R : x <= m
        BY <1>7, <2>2, LeastNatural
      <3>2. j = CHOOSE x \in R : \A m \in R : x <= m
        BY DEF find_first_matching_remove_event, R
      <3> HIDE DEF j
      <3> QED BY <3>1, <3>2
    <2> HIDE DEF j
    <2>4. PICK d \in Logged : parses(d) /\ Ender(d, b) /\ es[j] = Rd(d)
      BY <1>8, <2>3
    <2>5. es[k].time = e.time /\ es[j].time = d.time /\ e.time <= d.time
      BY <1>3, <2>1, <2>2, <2>4
    <2>6. ~ (j < k)
      BY <1>1, <1>2, <1>7, <2>2, <2>3, <2>5 DEF Increasing
    <2>7. j = k
      BY <1>7, <2>2, <2>3, <2>6
    <2> QED BY <1>3, <2>1, <2>2, <2>7 DEF j
  <1>12. ASSUME EndedBy(b, {"SEAT_SESSION_REMOVED"})
         PROVE  get_event_record_status(es, i) = "NORMAL"
    BY <1>11, <1>12 DEF get_event_record_status, R
  <1>13. ASSUME EndedBy(b, {"SYSTEM_STOP", "SYSTEM_RESTART"})
         PROVE  get_event_record_status(es, i) = "DOWN"
    <2>1. /\ R # {}
          /\ es[find_first_matching_remove_event(es, i)].type \in {"SYSTEM_STOP", "SYSTEM_RESTART"}
      BY <1>11, <1>13
    <2> QED BY <2>1 DEF get_event_record_status, R
  <1>14. ASSUME EndedBy(b, {"SYSTEM_START"})
         PROVE  get_event_record_status(es, i) = "CRASH"
    BY <1>11, <1>14 DEF get_event_record_status, R
  <1> QED BY <1>10, <1>12, <1>13, <1>14 DEF es

\* Each line of the report comes from the one line of a login, and its status from the first
\* line that may have ended it.
LEMMA ReportTrue == HistoryInv /\ StoryInv => ReportIsRight
  <1> SUFFICES ASSUME HistoryInv, StoryInv, Settles, system # "down",
                      \A t \in Times : fate[t] # "PHANTOM"
               PROVE  {<<r.login, r.status>> : r \in generate_report_last(0)} =
                        {<<t, fate[t]>> : t \in {u \in Times : fate[u] # "none" /\ u \notin odd}}
    BY DEF ReportIsRight
  <1> DEFINE es == all_events(0)
             A == "SEAT_SESSION_ADDED"
             Told == {<<r.login, r.status>> : r \in generate_report_last(0)}
             True == {<<t, fate[t]>> : t \in {u \in Times : fate[u] # "none" /\ u \notin odd}}
  <1>1. Story /\ handlers = <<>>
    BY DEF Settles, StoryInv, Sound
  <1>2. /\ es \in Seq(EventsOf(Times, Ids))
        /\ \A e : e \in Range(es) <=> \E l \in Logged : parses(l) /\ e = ck_log_event_new_from_string(l)
    BY SettledReads
  <1>3. \A l \in Logged : l \in LinesOf(Times, Ids) /\ l.plain = (l.id \notin Odd)
    BY LinesTyped DEF HistoryInv, BaseInv, LinesInv
  <1>4. ASSUME NEW i \in DOMAIN es, NEW b \in Logged, parses(b), Added(b),
               es[i] = ck_log_event_new_from_string(b)
        PROVE  /\ b.login \in Times /\ fate[b.login] # "none" /\ b.login \notin odd
               /\ print_last_report_record(es, i).login = b.login
               /\ print_last_report_record(es, i).status = fate[b.login]
    <2>1. b.login \in Times /\ b.login <= logins /\ (b.login \in odd <=> b.id \in Odd)
      BY <1>1, <1>4 DEF Story, AddedInv
    <2>2. fate[b.login] # "none"
      BY <1>1, <2>1 DEF Story, LoginsInv
    <2>3. b.login \notin odd
      BY <1>3, <1>4, <2>1 DEF parses, Added, SessionEvents
    <2>4. es[i].login = b.login
      BY <1>3, <1>4, ReadIs
    <2>5. fate[b.login] \in {"NOW", "NORMAL", "DOWN", "CRASH"}
      BY <2>1, <2>2 DEF HistoryInv, BaseInv, OwnTypeOK, Statuses
    <2>6. Range(handlers) = {}
      BY <1>1 DEF Range
    <2>7. /\ fate[b.login] = "NOW" => Unended(b)
          /\ fate[b.login] = "NORMAL" => EndedBy(b, {"SEAT_SESSION_REMOVED"})
          /\ fate[b.login] = "DOWN" => EndedBy(b, {"SYSTEM_STOP", "SYSTEM_RESTART"})
          /\ fate[b.login] = "CRASH" => EndedBy(b, {"SYSTEM_START"})
      BY <1>1, <1>4, <2>6 DEF Story, FateInv
    <2>8. get_event_record_status(es, i) = fate[b.login]
      BY <1>4, <2>5, <2>7, StatusIs
    <2> QED BY <2>1, <2>2, <2>3, <2>4, <2>8 DEF print_last_report_record
  <1>5. \A r : r \in generate_report_last(0) <=>
          \E i \in DOMAIN es : es[i].type = A /\ r = print_last_report_record(es, i)
    BY DEF generate_report_last
  <1> HIDE DEF es
  <1>6. ASSUME NEW p \in Told PROVE p \in True
    <2>1. PICK r \in generate_report_last(0) : p = <<r.login, r.status>>
      BY <1>6
    <2>2. PICK i \in DOMAIN es : es[i].type = A /\ r = print_last_report_record(es, i)
      BY <1>5, <2>1
    <2>3. PICK b \in Logged : parses(b) /\ es[i] = ck_log_event_new_from_string(b)
      BY <1>2, <2>2 DEF Range
    <2>4. Added(b)
      BY <1>3, <2>2, <2>3, ReadIs DEF Added
    <2> QED BY <1>4, <2>1, <2>2, <2>3, <2>4
  <1>7. ASSUME NEW p \in True PROVE p \in Told
    <2>1. PICK t \in Times : p = <<t, fate[t]>> /\ fate[t] # "none" /\ t \notin odd
      BY <1>7
    <2>2. PICK b \in Logged : Added(b) /\ b.login = t
      <3>1. Range(handlers) = {}
        BY <1>1 DEF Range
      <3> QED BY <1>1, <2>1, <3>1 DEF Story, AddedInv
    <2>3. b.id \notin Odd
      BY <1>1, <2>1, <2>2 DEF Story, AddedInv
    <2>4. parses(b)
      BY <1>3, <2>2, <2>3 DEF parses, Added
    <2>5. PICK i \in DOMAIN es : es[i] = ck_log_event_new_from_string(b)
      BY <1>2, <2>4 DEF Range
    <2>6. es[i].type = A
      BY <1>3, <2>2, <2>4, <2>5, ReadIs DEF Added
    <2>7. print_last_report_record(es, i) \in generate_report_last(0)
      BY <1>5, <2>6
    <2> QED BY <1>4, <2>1, <2>2, <2>4, <2>5, <2>7
  <1> QED BY <1>6, <1>7

\* ck-history reports every login that can be parsed, once, with the way it ended
\* (ReportIsRight), through restarts of the system and the reuse of session ids, as long as
\* no event was lost and the daemon did not die under a login (ck-history.c, ck-manager.c).
THEOREM ReportCorrect == HistorySpec => []ReportIsRight
  BY ReportTrue, HistoryInvHolds, StoryInvHolds, PTL
=============================================================================
