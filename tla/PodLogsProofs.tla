----------------------------- MODULE PodLogsProofs ----------------------------
(***************************************************************************)
(* Proofs about the Logs tab, for any pods, queries, buffer size, backoff  *)
(* and any number of restarts: the viewer shows an unbroken tail of one    *)
(* stream, its hits are those a scan of the whole buffer would find, the   *)
(* streaming badge is true and the pod shown is the one picked.            *)
(***************************************************************************)
EXTENDS PodLogs, FiniteSetTheorems, WellFoundedInduction, TLAPS

(* Induction over the naturals, as a fact about sets.                      *)
LEMMA NatInductionOnSets ==
    ASSUME NEW S, 0 \in S, \A n \in Nat : n \in S => n + 1 \in S
    PROVE  Nat \subseteq S
<1> DEFINE R == OpToRel(<, Nat)
           rest == Nat \ S
<1>1. \A x, y \in Nat : y < x => <<y, x>> \in R
  BY DEF OpToRel
<1>2. IsWellFoundedOn(R, Nat) /\ rest \subseteq Nat
  BY NatLessThanWellFounded, Zenon
<1> HIDE DEF R
<1>3. ASSUME rest # {} PROVE FALSE
  <2>1. PICK x \in rest : \A y \in rest : ~(<<y, x>> \in R)
    BY <1>2, <1>3, WFMin, Zenon
  <2>2. x # 0 /\ x \in Nat
    OBVIOUS
  <2>3. x - 1 \in Nat /\ x - 1 < x /\ x - 1 + 1 = x
    BY <2>2
  <2>4. x - 1 \in S
    BY <1>1, <2>1, <2>2, <2>3
  <2> QED
    BY <2>3, <2>4
<1> QED
  BY <1>3

-----------------------------------------------------------------------------
(* The hits of a scan: an ascending sequence that enumerates a set.        *)

Hits(buf, q, from) == {i \in 1..Len(buf) : i > from /\ buf[i].n \in q}

Ascending(s, set) ==
    /\ s \in Seq(Nat)
    /\ \A i, j \in 1..Len(s) : i < j => s[i] < s[j]
    /\ \A i \in 1..Len(s) : s[i] \in set
    /\ \A x \in set : \E i \in 1..Len(s) : s[i] = x

(* There is one ascending sequence of a set.                               *)
LEMMA AscendingUnique ==
    ASSUME NEW set, NEW s, NEW t, Ascending(s, set), Ascending(t, set)
    PROVE  s = t
<1> DEFINE S == {n \in Nat : \A k \in 1..n : k <= Len(s) /\ k <= Len(t) => s[k] = t[k]}
<1>0. s \in Seq(Nat) /\ t \in Seq(Nat) /\ Len(s) \in Nat /\ Len(t) \in Nat
  BY DEF Ascending
<1>1. 0 \in S
  OBVIOUS
<1>2. ASSUME NEW n \in Nat, n \in S PROVE n + 1 \in S
  <2> SUFFICES ASSUME n + 1 <= Len(s), n + 1 <= Len(t) PROVE s[n + 1] = t[n + 1]
    BY <1>2
  <2>1. \A k \in 1..n : s[k] = t[k]
    BY <1>0, <1>2
  <2> HIDE DEF S
  <2>2. n + 1 \in 1..Len(s) /\ n + 1 \in 1..Len(t)
    BY DEF Ascending
  <2>3. PICK j \in 1..Len(t) : t[j] = s[n + 1]
    BY <2>2 DEF Ascending
  <2>4. PICK i \in 1..Len(s) : s[i] = t[n + 1]
    BY <2>2 DEF Ascending
  <2>5. /\ s \in Seq(Nat) /\ t \in Seq(Nat)
        /\ \A a, b \in 1..Len(s) : a < b => s[a] < s[b]
        /\ \A a, b \in 1..Len(t) : a < b => t[a] < t[b]
    BY DEF Ascending
  <2>6. s[n + 1] \in Nat /\ t[n + 1] \in Nat
    BY <2>2, <2>5
  <2>7. j >= n + 1
    <3> SUFFICES ASSUME j <= n PROVE FALSE
      BY <2>5
    <3>1. s[j] = s[n + 1] /\ j \in 1..Len(s) /\ j < n + 1
      BY <2>1, <2>3, <2>5
    <3> QED
      BY <2>2, <2>5, <2>6, <3>1
  <2>8. i >= n + 1
    <3> SUFFICES ASSUME i <= n PROVE FALSE
      BY <2>5
    <3>1. t[i] = t[n + 1] /\ i \in 1..Len(t) /\ i < n + 1
      BY <2>1, <2>4, <2>5
    <3> QED
      BY <2>2, <2>5, <2>6, <3>1
  <2>9. t[n + 1] <= s[n + 1]
    <3>1. j = n + 1 \/ n + 1 < j
      BY <2>7
    <3>2. n + 1 < j => t[n + 1] < t[j]
      BY <2>2, <2>5
    <3> QED
      BY <2>3, <2>6, <3>1, <3>2
  <2>10. s[n + 1] <= t[n + 1]
    <3>1. i = n + 1 \/ n + 1 < i
      BY <2>8
    <3>2. n + 1 < i => s[n + 1] < s[i]
      BY <2>2, <2>5
    <3> QED
      BY <2>4, <2>6, <3>1, <3>2
  <2> QED
    BY <2>6, <2>9, <2>10
<1>3. Nat \subseteq S
  <2> HIDE DEF S
  <2> QED
    BY <1>1, <1>2, NatInductionOnSets
<1>4. \A k \in 1..Len(s) : k <= Len(t) => s[k] = t[k]
  <2>1. Len(s) \in S
    BY <1>0, <1>3
  <2> QED
    BY <1>0, <2>1
<1> HIDE DEF S
<1>5. /\ s \in Seq(Nat) /\ t \in Seq(Nat)
      /\ \A a, b \in 1..Len(s) : a < b => s[a] < s[b]
      /\ \A a, b \in 1..Len(t) : a < b => t[a] < t[b]
      /\ \A i \in 1..Len(s) : \E j \in 1..Len(t) : t[j] = s[i]
      /\ \A i \in 1..Len(t) : \E j \in 1..Len(s) : s[j] = t[i]
  BY DEF Ascending
<1>6. Len(s) = Len(t)
  <2>1. ASSUME Len(s) > Len(t) PROVE FALSE
    <3>1. Len(t) + 1 \in 1..Len(s)
      BY <1>5, <2>1
    <3>2. PICK j \in 1..Len(t) : t[j] = s[Len(t) + 1]
      BY <1>5, <3>1
    <3>3. j \in 1..Len(s) /\ j <= Len(t) /\ j < Len(t) + 1
      BY <1>0, <2>1
    <3>5. s[j] = s[Len(t) + 1] /\ s[j] \in Nat
      BY <1>0, <1>4, <3>2, <3>3
    <3>4. s[j] < s[Len(t) + 1]
      BY <1>5, <3>1, <3>3
    <3> QED
      BY <3>4, <3>5
  <2>2. ASSUME Len(t) > Len(s) PROVE FALSE
    <3>1. Len(s) + 1 \in 1..Len(t)
      BY <1>5, <2>2
    <3>2. PICK j \in 1..Len(s) : s[j] = t[Len(s) + 1]
      BY <1>5, <3>1
    <3>3. j \in 1..Len(t) /\ j <= Len(s) /\ j < Len(s) + 1
      BY <1>0, <2>2
    <3>5. t[j] = t[Len(s) + 1] /\ t[j] \in Nat
      BY <1>0, <1>4, <3>2, <3>3
    <3>4. t[j] < t[Len(s) + 1]
      BY <1>5, <3>1, <3>3
    <3> QED
      BY <3>4, <3>5
  <2> QED
    BY <1>5, <2>1, <2>2
<1> QED
  BY <1>4, <1>5, <1>6

(* The collecting pass, as a function of how far it has got.               *)
IsScan(f, buf, q, from, len) ==
    f = [i \in 0..len |->
            IF i = 0 THEN <<>>
            ELSE IF i > from /\ buf[i].n \in q THEN Append(f[i - 1], i)
            ELSE f[i - 1]]

(* There is one.                                                           *)
LEMMA ScanExists ==
    ASSUME NEW buf, NEW q, NEW from \in Nat, NEW len \in Nat
    PROVE  \E f : IsScan(f, buf, q, from, len)
<1> DEFINE S == {n \in Nat : \E f : IsScan(f, buf, q, from, n)}
<1>1. 0 \in S
  <2>1. IsScan([i \in 0..0 |-> <<>>], buf, q, from, 0)
    BY DEF IsScan
  <2> QED
    BY <2>1
<1>2. ASSUME NEW n \in Nat, n \in S PROVE n + 1 \in S
  <2>1. PICK f : IsScan(f, buf, q, from, n)
    BY <1>2
  <2> DEFINE end == IF n + 1 > from /\ buf[n + 1].n \in q THEN Append(f[n], n + 1) ELSE f[n]
             g == [i \in 0..(n + 1) |-> IF i = n + 1 THEN end ELSE f[i]]
  <2>2. \A i \in 0..n : f[i] = IF i = 0 THEN <<>>
                               ELSE IF i > from /\ buf[i].n \in q THEN Append(f[i - 1], i)
                               ELSE f[i - 1]
    BY <2>1 DEF IsScan
  <2>3. \A i \in 0..(n + 1) : g[i] = IF i = 0 THEN <<>>
                               ELSE IF i > from /\ buf[i].n \in q THEN Append(g[i - 1], i)
                               ELSE g[i - 1]
    <3> SUFFICES ASSUME NEW i \in 0..(n + 1)
                 PROVE  g[i] = IF i = 0 THEN <<>>
                               ELSE IF i > from /\ buf[i].n \in q THEN Append(g[i - 1], i)
                               ELSE g[i - 1]
      OBVIOUS
    <3>1. CASE i = n + 1
      <4>1. g[i] = end /\ g[i - 1] = f[n] /\ i # 0
        BY <3>1
      <4> HIDE DEF g
      <4> QED
        BY <3>1, <4>1
    <3>2. CASE i # n + 1
      <4> HIDE DEF end
      <4>1. i \in 0..n /\ g[i] = f[i] /\ (i # 0 => g[i - 1] = f[i - 1])
        BY <3>2
      <4> HIDE DEF g
      <4> QED
        BY <2>2, <4>1
    <3> QED
      BY <3>1, <3>2
  <2>4. DOMAIN g = 0..(n + 1) /\ g = [i \in 0..(n + 1) |-> g[i]]
    OBVIOUS
  <2> HIDE DEF g
  <2>5. IsScan(g, buf, q, from, n + 1)
    BY <2>3, <2>4 DEF IsScan
  <2> QED
    BY <2>5
<1> HIDE DEF S
<1>3. Nat \subseteq S
  BY <1>1, <1>2, NatInductionOnSets
<1> QED
  BY <1>3 DEF S

(* What the pass has collected is the hits so far, in order.               *)
LEMMA ScanCollects ==
    ASSUME NEW buf, NEW q, NEW from \in Nat, NEW len \in Nat,
           NEW f, IsScan(f, buf, q, from, len)
    PROVE  Ascending(f[len], {i \in 1..len : i > from /\ buf[i].n \in q})
<1> DEFINE hits(n) == {i \in 1..n : i > from /\ buf[i].n \in q}
           S == {n \in Nat : n <= len => Ascending(f[n], hits(n))}
<1>1. \A i \in 0..len : f[i] = IF i = 0 THEN <<>>
                               ELSE IF i > from /\ buf[i].n \in q THEN Append(f[i - 1], i)
                               ELSE f[i - 1]
  BY DEF IsScan
<1>2. 0 \in S
  <2>1. f[0] = <<>>
    BY <1>1
  <2>2. Ascending(f[0], hits(0))
    BY <2>1 DEF Ascending
  <2> QED
    BY <2>2
<1>3. ASSUME NEW n \in Nat, n \in S PROVE n + 1 \in S
  <2> SUFFICES ASSUME n + 1 <= len PROVE Ascending(f[n + 1], hits(n + 1))
    OBVIOUS
  <2>1. Ascending(f[n], hits(n)) /\ n + 1 \in 0..len
    BY <1>3
  <2>2. CASE n + 1 > from /\ buf[n + 1].n \in q
    <3> DEFINE s == f[n]
    <3>1. f[n + 1] = Append(s, n + 1)
      <4>1. n + 1 # 0 /\ n + 1 - 1 = n
        OBVIOUS
      <4>2. f[n + 1] = IF n + 1 = 0 THEN <<>>
                       ELSE IF n + 1 > from /\ buf[n + 1].n \in q
                            THEN Append(f[n + 1 - 1], n + 1)
                       ELSE f[n + 1 - 1]
        <5>1. n + 1 \in 0..len
          BY <2>1
        <5> HIDE DEF hits, S, s
        <5> QED
          BY <1>1, <5>1
      <4>3. f[n + 1] = Append(f[n + 1 - 1], n + 1)
        BY <2>2, <4>1, <4>2, Zenon
      <4> QED
        BY <4>1, <4>3, Zenon
    <3>2. hits(n + 1) = hits(n) \cup {n + 1} /\ \A x \in hits(n) : x \in Nat /\ x < n + 1
      BY <2>2
    <3> HIDE DEF hits, s
    <3>3. /\ s \in Seq(Nat) /\ \A i \in 1..Len(s) : s[i] \in hits(n)
          /\ \A i, j \in 1..Len(s) : i < j => s[i] < s[j]
          /\ \A x \in hits(n) : \E i \in 1..Len(s) : s[i] = x
      BY <2>1 DEF Ascending, s
    <3> DEFINE t == Append(s, n + 1)
    <3>4. t \in Seq(Nat) /\ Len(t) = Len(s) + 1 /\ t[Len(s) + 1] = n + 1
          /\ (\A i \in 1..Len(s) : t[i] = s[i]) /\ Len(s) \in Nat
      BY <3>3
    <3> HIDE DEF t
    <3>0. \A i \in 1..Len(t) : i = Len(s) + 1 \/ i \in 1..Len(s)
      BY <3>4
    <3>5. \A i, j \in 1..Len(t) : i < j => t[i] < t[j]
      <4> SUFFICES ASSUME NEW i \in 1..Len(t), NEW j \in 1..Len(t), i < j PROVE t[i] < t[j]
        OBVIOUS
      <4>1. i \in 1..Len(s) /\ t[i] = s[i]
        BY <3>0, <3>4
      <4>2. CASE j = Len(s) + 1
        BY <3>2, <3>3, <3>4, <4>1, <4>2
      <4>3. CASE j \in 1..Len(s)
        BY <3>3, <3>4, <4>1, <4>3
      <4> QED
        BY <3>0, <4>2, <4>3
    <3>6. \A i \in 1..Len(t) : t[i] \in hits(n + 1)
      BY <3>0, <3>2, <3>3, <3>4
    <3>7. \A x \in hits(n + 1) : \E i \in 1..Len(t) : t[i] = x
      <4>1. \A i \in 1..Len(s) : i \in 1..Len(t)
        BY <3>4
      <4>2. Len(s) + 1 \in 1..Len(t)
        BY <3>4
      <4> QED
        BY <3>2, <3>3, <3>4, <4>1, <4>2
    <3>8. Ascending(t, hits(n + 1))
      BY <3>4, <3>5, <3>6, <3>7 DEF Ascending
    <3> QED
      BY <3>1, <3>8 DEF t
  <2>3. CASE ~(n + 1 > from /\ buf[n + 1].n \in q)
    <3>1. f[n + 1] = f[n]
      BY <1>1, <2>1, <2>3
    <3>2. hits(n + 1) = hits(n)
      BY <2>3
    <3> QED
      BY <2>1, <3>1, <3>2
  <2> QED
    BY <2>2, <2>3
<1>4. Nat \subseteq S
  <2> HIDE DEF S
  <2> QED
    BY <1>2, <1>3, NatInductionOnSets
<1> QED
  BY <1>4

(* scanLines returns the hits beyond from, in order.                       *)
LEMMA ScanAscending ==
    ASSUME NEW buf \in Seq(Line), NEW q, NEW from \in Nat
    PROVE  Ascending(scanLines(buf, q, from), Hits(buf, q, from))
<1> DEFINE c == CHOOSE f : IsScan(f, buf, q, from, Len(buf))
<1>0. Len(buf) \in Nat
  OBVIOUS
<1>1. \E f : IsScan(f, buf, q, from, Len(buf))
  BY <1>0, ScanExists
<1>2. IsScan(c, buf, q, from, Len(buf))
  BY <1>1, Zenon
<1>3. scanLines(buf, q, from) = c[Len(buf)]
  BY Zenon DEF scanLines, IsScan
<1> HIDE DEF c
<1>4. Ascending(c[Len(buf)], {i \in 1..Len(buf) : i > from /\ buf[i].n \in q})
  BY <1>0, <1>2, ScanCollects
<1> QED
  BY <1>3, <1>4 DEF Hits

-----------------------------------------------------------------------------
(* The buffer's operations.                                                *)

Cut(s) == Len(s) - Len(trim(s))

(* trim keeps the end of a sequence.                                       *)
LEMMA TrimIs ==
    ASSUME NEW s \in Seq(Line)
    PROVE  /\ trim(s) \in Seq(Line) /\ Len(trim(s)) \in 0..MAX_LINES
           /\ Len(trim(s)) \in Nat /\ Len(trim(s)) <= MAX_LINES /\ Cut(s) \in Nat
           /\ Cut(s) \in 0..Len(s) /\ Len(s) = Len(trim(s)) + Cut(s)
           /\ \A i \in 1..Len(trim(s)) : trim(s)[i] = s[i + Cut(s)]
           /\ Len(s) <= MAX_LINES => trim(s) = s /\ Cut(s) = 0
           /\ Len(s) >= MAX_LINES => Len(trim(s)) = MAX_LINES
<1>1. MAX_LINES \in Nat \ {0}
  BY LogsAssumption DEF LogsAssumption
<1>2. CASE Len(s) <= MAX_LINES
  BY <1>1, <1>2 DEF trim, Cut
<1>3. CASE Len(s) > MAX_LINES
  <2> DEFINE c == Len(s) - MAX_LINES
             t == SubSeq(s, Len(s) - MAX_LINES + 1, Len(s))
  <2>1. trim(s) = t
    BY <1>1, <1>3 DEF trim
  <2>2. t \in Seq(Line) /\ Len(t) = MAX_LINES
    BY <1>1, <1>3
  <2>3. \A i \in 1..MAX_LINES : t[i] = s[i + (Len(s) - MAX_LINES)]
    BY <1>1, <1>3
  <2> HIDE DEF t
  <2>4. Cut(s) = Len(s) - MAX_LINES
    BY <2>1, <2>2 DEF Cut
  <2> QED
    BY <1>1, <1>3, <2>1, <2>2, <2>3, <2>4
<1> QED
  BY <1>1, <1>2, <1>3

(* Concatenation, by cases.                                                *)
LEMMA ConcatIs ==
    ASSUME NEW s \in Seq(Line), NEW t \in Seq(Line)
    PROVE  /\ s \o t \in Seq(Line) /\ Len(s \o t) = Len(s) + Len(t)
           /\ Len(s) \in Nat /\ Len(t) \in Nat
           /\ \A i \in 1..Len(s \o t) :
                 (s \o t)[i] = IF i <= Len(s) THEN s[i] ELSE t[i - Len(s)]
OBVIOUS

(* The leading hits that a drop takes.                                     *)
LEMMA RemovedIs ==
    ASSUME NEW set, Ascending(matches, set), NEW delta \in Nat
    PROVE  /\ Removed(delta) \in 0..Len(matches)
           /\ \A i \in 1..Removed(delta) : matches[i] <= delta
           /\ \A i \in 1..Len(matches) : i > Removed(delta) => matches[i] > delta
<1> DEFINE Stops(k) == /\ \A i \in 1..k : matches[i] <= delta
                       /\ k < Len(matches) => matches[k + 1] > delta
           S == {n \in Nat : n <= Len(matches) =>
                    \/ \A i \in 1..n : matches[i] <= delta
                    \/ \E k \in 0..Len(matches) : Stops(k)}
<1>1. /\ matches \in Seq(Nat) /\ Len(matches) \in Nat
      /\ \A i, j \in 1..Len(matches) : i < j => matches[i] < matches[j]
      /\ \A i \in 1..Len(matches) : matches[i] \in Nat
  BY DEF Ascending
<1>2. 0 \in S
  OBVIOUS
<1>3. ASSUME NEW n \in Nat, n \in S PROVE n + 1 \in S
  <2> SUFFICES ASSUME n + 1 <= Len(matches), ~ \E k \in 0..Len(matches) : Stops(k)
               PROVE  \A i \in 1..(n + 1) : matches[i] <= delta
    OBVIOUS
  <2>1. \A i \in 1..n : matches[i] <= delta
    BY <1>1, <1>3
  <2>0. n \in 0..Len(matches) /\ n < Len(matches)
    BY <1>1
  <2>2. ~ Stops(n) /\ n \in 0..Len(matches) /\ n < Len(matches)
    <3> HIDE DEF Stops
    <3> QED
      BY <2>0
  <2>3. n + 1 \in 1..Len(matches)
    BY <1>1
  <2>4. ~ (matches[n + 1] > delta)
    BY <2>1, <2>2
  <2>5. matches[n + 1] <= delta
    BY <1>1, <2>3, <2>4
  <2> QED
    BY <2>1, <2>5
<1>4. Nat \subseteq S
  <2> HIDE DEF S
  <2> QED
    BY <1>2, <1>3, NatInductionOnSets
<1>5. \E k \in 0..Len(matches) : Stops(k)
  <2>1. Len(matches) \in S
    BY <1>1, <1>4
  <2>2. CASE \A i \in 1..Len(matches) : matches[i] <= delta
    <3>1. Stops(Len(matches)) /\ Len(matches) \in 0..Len(matches)
      BY <1>1, <2>2
    <3> QED
      BY <3>1
  <2> QED
    BY <1>1, <2>1, <2>2
<1> HIDE DEF S
<1>6. Removed(delta) \in 0..Len(matches) /\ Stops(Removed(delta))
  <2>1. Removed(delta) = CHOOSE k \in 0..Len(matches) : Stops(k)
    BY Zenon DEF Removed
  <2> HIDE DEF Stops
  <2> QED
    BY <1>5, <2>1, Zenon
<1> DEFINE k == Removed(delta)
<1>7. k \in 0..Len(matches) /\ (\A i \in 1..k : matches[i] <= delta)
      /\ (k < Len(matches) => matches[k + 1] > delta)
  BY <1>6
<1> HIDE DEF k, Stops
<1>8. \A i \in 1..Len(matches) : i > k => matches[i] > delta
  <2> SUFFICES ASSUME NEW i \in 1..Len(matches), i > k PROVE matches[i] > delta
    OBVIOUS
  <2>1. k + 1 \in 1..Len(matches) /\ matches[k + 1] > delta
    BY <1>1, <1>7
  <2>2. i = k + 1 \/ matches[k + 1] < matches[i]
    BY <1>1, <1>7, <2>1
  <2>3. matches[i] \in Nat /\ matches[k + 1] \in Nat
    BY <1>1, <2>1
  <2> QED
    BY <2>1, <2>2, <2>3
<1> QED
  BY <1>7, <1>8 DEF k

(* A flush of p: the surviving hits, moved up, and the hits among the new  *)
(* lines are together the hits of the whole new buffer.                    *)
LEMMA RescanAscending ==
    ASSUME lines \in Seq(Line), NEW p \in Seq(Line), NEW q,
           Ascending(matches, Hits(lines, q, 0)), NEW d, d = Cut(lines \o p)
    PROVE  LET buf == trim(lines \o p)
               new == Shifted(d) \o scanLines(buf, q, larger(0, Len(lines) - d))
           IN  /\ Ascending(new, Hits(buf, q, 0))
               /\ \A i \in 1..Len(matches) : i > Removed(d) =>
                     i - Removed(d) \in 1..Len(new) /\ new[i - Removed(d)] = matches[i] - d
<1> DEFINE all == lines \o p
           buf == trim(all)
           from == larger(0, Len(lines) - d)
           k == Removed(d)
           a == Shifted(d)
           b == scanLines(buf, q, from)
           new == a \o b
<1>1. /\ all \in Seq(Line) /\ Len(all) = Len(lines) + Len(p)
      /\ Len(lines) \in Nat /\ Len(p) \in Nat
      /\ \A i \in 1..Len(all) : all[i] = IF i <= Len(lines) THEN lines[i] ELSE p[i - Len(lines)]
  BY ConcatIs
<1> HIDE DEF all
<1>2. /\ buf \in Seq(Line) /\ d \in 0..Len(all) /\ Len(all) = Len(buf) + d
      /\ Len(buf) \in Nat /\ d \in Nat
      /\ \A i \in 1..Len(buf) : buf[i] = all[i + d]
  <2>1. d = Cut(all)
    BY DEF all
  <2>2. /\ trim(all) \in Seq(Line) /\ Len(trim(all)) \in 0..MAX_LINES
        /\ Cut(all) \in 0..Len(all) /\ Len(all) = Len(trim(all)) + Cut(all)
        /\ \A i \in 1..Len(trim(all)) : trim(all)[i] = all[i + Cut(all)]
    BY <1>1, TrimIs
  <2> QED
    BY <2>1, <2>2
<1> HIDE DEF buf
<1>3. from \in Nat /\ (from = 0 \/ from = Len(lines) - d) /\ from >= Len(lines) - d
  BY <1>1, <1>2 DEF larger
<1> HIDE DEF from
<1>4. /\ k \in 0..Len(matches)
      /\ \A i \in 1..k : matches[i] <= d
      /\ \A i \in 1..Len(matches) : i > k => matches[i] > d
  BY <1>2, RemovedIs
<1>5. /\ matches \in Seq(Nat) /\ Len(matches) \in Nat
      /\ \A i, j \in 1..Len(matches) : i < j => matches[i] < matches[j]
      /\ \A i \in 1..Len(matches) :
            matches[i] \in 1..Len(lines) /\ lines[matches[i]].n \in q
      /\ \A x \in 1..Len(lines) : lines[x].n \in q =>
            \E i \in 1..Len(matches) : matches[i] = x
  BY <1>1 DEF Ascending, Hits
<1>6. a = [i \in 1..(Len(matches) - k) |-> matches[i + k] - d]
  BY DEF Shifted
<1> HIDE DEF k
<1>7. \A i \in 1..(Len(matches) - k) :
         i + k \in 1..Len(matches) /\ matches[i + k] > d /\ matches[i + k] - d \in Nat
  BY <1>2, <1>4, <1>5
<1>8. /\ a \in Seq(Nat) /\ Len(a) = Len(matches) - k /\ Len(a) \in Nat
      /\ \A i \in 1..Len(a) : a[i] = matches[i + k] - d
  <2> DEFINE m == Len(matches) - k
  <2>1. m \in Nat
    BY <1>4, <1>5
  <2>2. a \in [1..m -> Nat] /\ \A i \in 1..m : a[i] = matches[i + k] - d
    BY <1>6, <1>7
  <2> HIDE DEF a, m
  <2>3. a \in Seq(Nat) /\ Len(a) = m
    BY <2>1, <2>2
  <2> QED
    BY <2>1, <2>2, <2>3 DEF m
<1> HIDE DEF a
<1>9. /\ b \in Seq(Nat) /\ Len(b) \in Nat
      /\ \A i, j \in 1..Len(b) : i < j => b[i] < b[j]
      /\ \A i \in 1..Len(b) : b[i] \in 1..Len(buf) /\ b[i] > from /\ buf[b[i]].n \in q
      /\ \A x \in 1..Len(buf) : x > from /\ buf[x].n \in q =>
            \E i \in 1..Len(b) : b[i] = x
  <2>1. Ascending(b, Hits(buf, q, from))
    BY <1>2, <1>3, ScanAscending
  <2> HIDE DEF b
  <2>2. b \in Seq(Nat) /\ Len(b) \in Nat
    BY <2>1 DEF Ascending
  <2> QED
    BY <2>1, <2>2 DEF Ascending, Hits
<1> HIDE DEF b
<1>10. /\ new \in Seq(Nat) /\ Len(new) = Len(a) + Len(b)
       /\ \A i \in 1..Len(new) : new[i] = IF i <= Len(a) THEN a[i] ELSE b[i - Len(a)]
  BY <1>8, <1>9
<1> HIDE DEF new
<1>11. \A i \in 1..Len(new) :
          \/ i \in 1..Len(a) /\ new[i] = a[i]
          \/ i > Len(a) /\ i - Len(a) \in 1..Len(b) /\ new[i] = b[i - Len(a)]
  BY <1>8, <1>9, <1>10
<1>12. \A i \in 1..Len(a) :
          /\ i + k \in 1..Len(matches) /\ matches[i + k] \in 1..Len(lines) /\ matches[i + k] > d
          /\ a[i] \in 1..Len(buf) /\ a[i] + d = matches[i + k] /\ a[i] <= Len(lines) - d
  <2> SUFFICES ASSUME NEW i \in 1..Len(a)
               PROVE  /\ i + k \in 1..Len(matches) /\ matches[i + k] \in 1..Len(lines)
                      /\ matches[i + k] > d /\ a[i] \in 1..Len(buf)
                      /\ a[i] + d = matches[i + k] /\ a[i] <= Len(lines) - d
    OBVIOUS
  <2>1. i + k \in 1..Len(matches) /\ matches[i + k] > d /\ a[i] = matches[i + k] - d
    BY <1>7, <1>8
  <2>2. matches[i + k] \in 1..Len(lines)
    BY <1>5, <2>1
  <2> QED
    BY <1>1, <1>2, <2>1, <2>2
<1>13. \A i \in 1..Len(a) : a[i] <= from /\ buf[a[i]].n \in q
  <2> SUFFICES ASSUME NEW i \in 1..Len(a) PROVE a[i] <= from /\ buf[a[i]].n \in q
    OBVIOUS
  <2>1. buf[a[i]] = lines[matches[i + k]]
    <3>1. a[i] \in 1..Len(buf) /\ a[i] + d = matches[i + k] /\ matches[i + k] \in 1..Len(lines)
      BY <1>12
    <3>2. buf[a[i]] = all[matches[i + k]]
      BY <1>2, <3>1
    <3>3. matches[i + k] \in 1..Len(all) /\ matches[i + k] <= Len(lines)
      BY <1>1, <3>1
    <3> QED
      BY <1>1, <3>2, <3>3
  <2>2. lines[matches[i + k]].n \in q
    BY <1>5, <1>12
  <2>3. a[i] <= from
    BY <1>1, <1>2, <1>3, <1>12
  <2> QED
    BY <2>1, <2>2, <2>3
<1>14. \A i, j \in 1..Len(new) : i < j => new[i] < new[j]
  <2> SUFFICES ASSUME NEW i \in 1..Len(new), NEW j \in 1..Len(new), i < j PROVE new[i] < new[j]
    OBVIOUS
  <2>1. CASE i \in 1..Len(a) /\ j \in 1..Len(a)
    <3>1. matches[i + k] < matches[j + k]
      BY <1>4, <1>5, <1>12, <2>1
    <3>2. new[i] = a[i] /\ new[j] = a[j]
      BY <1>11, <2>1
    <3>3. /\ a[i] + d = matches[i + k] /\ a[i] \in 1..Len(buf)
          /\ a[j] + d = matches[j + k] /\ a[j] \in 1..Len(buf)
      BY <1>12, <2>1
    <3> QED
      BY <1>2, <3>1, <3>2, <3>3
  <2>2. CASE i \in 1..Len(a) /\ j > Len(a)
    <3>1. new[i] = a[i] /\ new[j] = b[j - Len(a)] /\ j - Len(a) \in 1..Len(b)
      <4>1. ~(j \in 1..Len(a))
        BY <1>8, <2>2
      <4>2. new[i] = a[i]
        <5>1. ~(i > Len(a))
          BY <1>8, <2>2
        <5> QED
          BY <1>11, <5>1
      <4> QED
        BY <1>11, <4>1, <4>2
    <3>2. a[i] <= from /\ b[j - Len(a)] > from /\ a[i] \in Nat /\ b[j - Len(a)] \in Nat
      <4>1. a[i] <= from /\ a[i] \in 1..Len(buf)
        BY <1>12, <1>13, <2>2
      <4>2. b[j - Len(a)] > from /\ b[j - Len(a)] \in 1..Len(buf)
        BY <1>9, <3>1
      <4> QED
        BY <1>2, <4>1, <4>2
    <3> QED
      BY <1>3, <3>1, <3>2
  <2>3. CASE i > Len(a)
    <3>1. /\ new[i] = b[i - Len(a)] /\ i - Len(a) \in 1..Len(b)
          /\ new[j] = b[j - Len(a)] /\ j - Len(a) \in 1..Len(b)
      <4>1. ~(i \in 1..Len(a)) /\ ~(j \in 1..Len(a))
        BY <1>8, <1>10, <2>3
      <4> QED
        BY <1>11, <4>1
    <3>2. i - Len(a) < j - Len(a)
      BY <1>8
    <3> QED
      BY <1>9, <3>1, <3>2
  <2> QED
    BY <1>8, <1>10, <2>1, <2>2, <2>3
<1>15. \A i \in 1..Len(new) : new[i] \in Hits(buf, q, 0)
  <2> SUFFICES ASSUME NEW i \in 1..Len(new)
               PROVE  new[i] \in 1..Len(buf) /\ new[i] > 0 /\ buf[new[i]].n \in q
    BY DEF Hits
  <2>1. CASE i \in 1..Len(a) /\ new[i] = a[i]
    BY <1>2, <1>12, <1>13, <2>1
  <2>2. CASE i - Len(a) \in 1..Len(b) /\ new[i] = b[i - Len(a)]
    <3>1. b[i - Len(a)] \in 1..Len(buf) /\ buf[b[i - Len(a)]].n \in q
      BY <1>9, <2>2
    <3> QED
      BY <1>2, <2>2, <3>1
  <2> QED
    BY <1>11, <2>1, <2>2
<1>16. \A x \in Hits(buf, q, 0) : \E i \in 1..Len(new) : new[i] = x
  <2> SUFFICES ASSUME NEW x \in 1..Len(buf), buf[x].n \in q
               PROVE  \E i \in 1..Len(new) : new[i] = x
    BY DEF Hits
  <2>1. CASE x > from
    <3>1. PICK i \in 1..Len(b) : b[i] = x
      BY <1>9, <2>1
    <3>2. i + Len(a) \in 1..Len(new) /\ new[i + Len(a)] = b[i]
      <4>1. Len(new) = Len(a) + Len(b) /\ Len(a) \in Nat /\ Len(b) \in Nat
        BY <1>8, <1>9, <1>10
      <4>2. i + Len(a) \in 1..Len(new) /\ ~(i + Len(a) <= Len(a)) /\ i + Len(a) - Len(a) = i
        BY <4>1
      <4>3. new[i + Len(a)] = IF i + Len(a) <= Len(a) THEN a[i + Len(a)]
                              ELSE b[i + Len(a) - Len(a)]
        BY <1>10, <4>2
      <4> QED
        BY <4>2, <4>3
    <3> QED
      BY <3>1, <3>2
  <2>2. CASE x <= from
    <3>1. x + d \in 1..Len(lines) /\ x + d \in 1..Len(all)
      BY <1>1, <1>2, <1>3, <2>2
    <3>2. lines[x + d].n \in q
      BY <1>1, <1>2, <3>1
    <3>3. PICK i \in 1..Len(matches) : matches[i] = x + d
      BY <1>5, <3>1, <3>2
    <3>4. i > k
      <4> SUFFICES ASSUME i <= k PROVE FALSE
        BY <1>4, <1>5
      <4>1. matches[i] <= d
        BY <1>4, <1>5
      <4> QED
        BY <1>2, <3>3, <4>1
    <3>5. i - k \in 1..Len(a) /\ a[i - k] = x
      <4>1. i - k \in 1..Len(a) /\ i - k + k = i
        BY <1>4, <1>5, <1>8, <3>4
      <4> QED
        BY <1>2, <1>8, <3>3, <4>1
    <3>6. i - k \in 1..Len(new) /\ new[i - k] = a[i - k]
      <4>1. i - k \in 1..Len(new) /\ i - k <= Len(a)
        BY <1>8, <1>9, <1>10, <3>5
      <4> QED
        BY <1>10, <4>1
    <3> QED
      BY <3>5, <3>6
  <2> QED
    BY <1>2, <1>3, <2>1, <2>2
<1>17. Ascending(new, Hits(buf, q, 0))
  BY <1>10, <1>14, <1>15, <1>16 DEF Ascending
<1>18. \A i \in 1..Len(matches) : i > k => i - k \in 1..Len(new) /\ new[i - k] = matches[i] - d
  <2> SUFFICES ASSUME NEW i \in 1..Len(matches), i > k
               PROVE  i - k \in 1..Len(new) /\ new[i - k] = matches[i] - d
    OBVIOUS
  <2>1. i - k \in 1..Len(a) /\ i - k + k = i
    BY <1>4, <1>5, <1>8
  <2>2. a[i - k] = matches[i] - d
    BY <1>8, <2>1
  <2> QED
    BY <1>8, <1>9, <1>10, <2>1, <2>2
<1> QED
  BY <1>17, <1>18 DEF new, a, b, k, from, buf, all

-----------------------------------------------------------------------------
(* The invariant.                                                          *)

Bookkeeping == [query : QueryOrNone, buf : 0..MaxStarts, len : Nat, dropped : Nat]

StreamOK ==
    /\ clock \in Time /\ log \in Seq(Time) /\ Len(log) <= MaxLog
    /\ generation \in 0..MaxStarts /\ source \in Sources \cup {None}
    /\ lines \in Seq(Line) /\ pending \in Seq(Line)
    /\ Len(lines) <= MAX_LINES /\ Len(pending) <= MAX_LINES
    /\ arrived \in 0..MaxArrived /\ dropped \in Nat
    /\ lastLineAt \in Time \cup {None} /\ (lastLineAt # None => lastLineAt <= clock)
    /\ reads \subseteq Loop
    /\ running \in BOOLEAN /\ error \in BOOLEAN
    /\ reconnecting \in BOOLEAN /\ truncated \in BOOLEAN
    /\ query \in QueryOrNone /\ debounced \in QueryOrNone /\ last \in Bookkeeping

(* At most one loop is of the current generation; the flags speak of it.   *)
RunInv ==
    /\ \A r \in reads : r.gen <= generation
    /\ \A r \in reads : r.gen = generation => r.src = source
    /\ \A r, s \in reads : r.gen = generation /\ s.gen = generation => r = s
    /\ running <=> \E r \in reads : r.gen = generation
    /\ reconnecting => running /\ \A r \in reads : r.gen = generation => r.at # "read"

(* With l on screen and p staged of the a lines received, cut whether the  *)
(* viewer says truncated and on whether the stream runs: p is the end of   *)
(* what was received, l an unbroken run that p continues, unless p alone   *)
(* will fill the screen.                                                   *)
Unbroken(l, p, a, cut, on) ==
    /\ \A i \in 1..Len(p) : p[i].k = a - Len(p) + i
    /\ \E b \in 0..a :
          /\ \A i \in 1..Len(l) : l[i].k = b - Len(l) + i
          /\ on /\ Len(p) < MAX_LINES => b = a - Len(p)
    /\ on /\ Len(l) = 0 /\ Len(p) < MAX_LINES => a = Len(p)
    /\ ~cut => /\ \A i \in 1..Len(l) : l[i].k = i
               /\ on => a = Len(l) + Len(p)

BufferInv ==
    /\ Unbroken(lines, pending, arrived, truncated, running)
    /\ \A i \in 1..Len(lines) : lines[i].src = source
    /\ \A i \in 1..Len(pending) : pending[i].src = source
    /\ timer # None => timer = generation /\ running
    /\ Len(pending) > 0 => timer = generation
    /\ dropped + Len(lines) + Len(pending) <= arrived

(* The hits are those of the whole buffer, and the bookkeeping describes   *)
(* the buffer they were found in.                                          *)
SearchInv ==
    /\ last.query = debounced /\ last.buf <= generation
    /\ last.len = Len(lines) /\ last.dropped = dropped
    /\ debounced = None => matches = <<>>
    /\ debounced # None => Ascending(matches, Hits(lines, debounced, 0))
    /\ active # None => active \in 1..Len(matches)

(* The newest GET, if it is pending, is for the pod picked.                *)
PickInv ==
    /\ choices \subseteq Pods /\ selected \in Pods \cup {None}
    /\ pod \in Pods \cup {None} /\ container \in Containers
    /\ gets \subseteq Get /\ loadId \in 0..MaxGets
    /\ loading \in BOOLEAN /\ loadError \in BOOLEAN /\ follow \in BOOLEAN
    /\ \A g \in gets : g.id <= loadId
    /\ \A g, h \in gets : g.id = h.id => g = h
    /\ \A g \in gets : g.id = loadId => g.name = selected
    /\ PickIsShown

LogsInv ==
    /\ StreamOK
    /\ RunInv
    /\ BufferInv
    /\ SearchInv
    /\ PickInv

(* What the tab does to its stream.                                        *)
Restarts ==
    /\ generation < MaxStarts /\ query' \in {query, None}
    /\ \E src \in Sources, f \in BOOLEAN, q \in {None, debounced} : start(src, f, q)
Stops == generation < MaxStarts /\ stop
StreamMove == StreamNext \/ Restarts \/ Stops \/ UNCHANGED stream

(* The answer of a GET mounts the tab, restarts it or changes nothing.     *)
LEMMA AnswerMoves ==
    ASSUME PickInv, NEW g \in gets, NEW recreated, GetAnswered(g, recreated)
    PROVE  Restarts \/ UNCHANGED stream
<1>1. g.name \in Pods /\ <<g.name, DefaultContainer>> \in Sources
  BY TabAssumption DEF PickInv, Get, TabAssumption
<1>2. CASE Mount(g.name) /\ generation < MaxStarts
  <2>1. TRUE \in BOOLEAN
    OBVIOUS
  <2> QED
    BY <1>1, <1>2, <2>1 DEF Mount, Restarts
<1>3. CASE selectDefaultContainerAndRestart(g.name) /\ generation < MaxStarts
  <2>1. follow \in BOOLEAN
    BY DEF PickInv
  <2> QED
    BY <1>1, <1>3, <2>1 DEF selectDefaultContainerAndRestart, Restarts
<1> QED
  BY <1>2, <1>3 DEF GetAnswered

(* Every step of the tab, as the stream sees it.                           *)
LEMMA EveryMove ==
    ASSUME PickInv, [Next]_vars
    PROVE  StreamMove
<1>1. CASE StreamNext
  BY <1>1 DEF StreamMove
<1>2. ASSUME NEW c \in Containers, NEW f \in BOOLEAN, ChangeOptions(c, f) PROVE StreamMove
  <2>1. <<pod, c>> \in Sources
    BY <1>2, TabAssumption DEF ChangeOptions, PickInv, TabAssumption
  <2> QED
    BY <1>2, <2>1 DEF ChangeOptions, Restarts, StreamMove
<1>3. CASE restart
  <2>1. <<pod, container>> \in Sources /\ follow \in BOOLEAN
    BY <1>3, TabAssumption DEF restart, PickInv, TabAssumption
  <2> QED
    BY <1>3, <2>1 DEF restart, Restarts, StreamMove
<1>4. CASE (\E cs \in SUBSET Pods : NewChoices(cs)) \/ (\E p \in Pods : pick(p))
  BY <1>4 DEF NewChoices, pick, loadPod, Stops, StreamMove
<1>5. ASSUME NEW g \in gets, NEW recreated \in BOOLEAN, GetAnswered(g, recreated) PROVE StreamMove
  BY <1>5, AnswerMoves DEF StreamMove
<1>6. CASE \E g \in gets : GetFailed(g)
  BY <1>6 DEF GetFailed, StreamMove
<1>7. CASE UNCHANGED vars
  BY <1>7 DEF vars, StreamMove
<1> QED
  BY <1>1, <1>2, <1>3, <1>4, <1>5, <1>6, <1>7 DEF Next

-----------------------------------------------------------------------------
(* The loops.                                                              *)

(* The current loop goes on, as new.                                       *)
LEMMA LoopGoesOn ==
    ASSUME StreamOK, RunInv, NEW r \in reads, ~stale(r), NEW new,
           reads' = (reads \ {r}) \cup {new}, new.gen = r.gen, new.src = r.src,
           UNCHANGED <<generation, source, running>>, reconnecting' => new.at # "read"
    PROVE  RunInv'
<1>1. r.gen = generation /\ running
  BY DEF RunInv, stale
<1>2. \A s \in reads' : s.gen = generation => s = new
  BY <1>1 DEF RunInv
<1>3. new \in reads' /\ new.gen = generation
  BY <1>1
<1>4. \A s \in reads' : s.gen <= generation
  BY <1>1 DEF RunInv
<1>5. new.src = source
  BY <1>1 DEF RunInv
<1> QED
  BY <1>1, <1>2, <1>3, <1>4, <1>5 DEF RunInv

(* A loop ends: the current one with the flags off, another unnoticed.     *)
LEMMA LoopEnds ==
    ASSUME StreamOK, RunInv, NEW r \in reads, reads' = reads \ {r},
           UNCHANGED <<generation, source>>,
           stale(r) => UNCHANGED <<running, reconnecting>>,
           ~stale(r) => running' = FALSE /\ reconnecting' = FALSE
    PROVE  RunInv'
<1>1. CASE stale(r)
  BY <1>1 DEF RunInv, stale
<1>2. CASE ~stale(r)
  <2>1. ~running' /\ ~reconnecting'
    BY <1>2
  <2>2. \A s \in reads' : s.gen # generation /\ s.gen <= generation
    BY <1>2 DEF RunInv, stale
  <2> QED
    BY <2>1, <2>2 DEF RunInv
<1> QED
  BY <1>1, <1>2

(* What stop() leaves behind is of the generations before.                 *)
LEMMA DisownedAre ==
    ASSUME StreamOK, RunInv
    PROVE  /\ Disowned \subseteq Loop
           /\ \A r \in Disowned : r.gen < generation + 1
<1> SUFFICES ASSUME NEW r \in reads
             PROVE  /\ [r EXCEPT !.began = 0, !.delay = 0] \in Loop
                    /\ [r EXCEPT !.began = 0, !.delay = 0].gen < generation + 1
  BY DEF Disowned
<1>1. r \in Loop /\ r.gen <= generation /\ generation \in Nat
  BY DEF StreamOK, RunInv
<1>2. 0 \in Time /\ 0 \in 0..RETRY_MAX_MS
  BY LogsAssumption DEF Time, LogsAssumption
<1>3. [r EXCEPT !.began = 0, !.delay = 0] \in Loop
  BY <1>1, <1>2 DEF Loop
<1>4. [r EXCEPT !.began = 0, !.delay = 0].gen = r.gen /\ r.gen \in Nat
  BY <1>1 DEF Loop
<1> QED
  BY <1>1, <1>3, <1>4

(* The loop of a start().                                                  *)
Started(src, f, first) ==
    [gen |-> generation + 1, src |-> src, follow |-> f, at |-> "fetch", next |-> first,
     began |-> clock, delay |-> 0, until |-> 0, window |-> None]

(* Every step keeps the loops and the flags in step.                       *)
LEMMA RunStep ==
    ASSUME StreamOK, RunInv, StreamMove
    PROVE  RunInv'
<1>1. CASE UNCHANGED <<generation, source, reads, running, reconnecting>>
  BY <1>1 DEF RunInv
<1>2. CASE FlushTimer \/ Searching \/ Write \/ Tick \/ UNCHANGED stream
  BY <1>1, <1>2 DEF FlushTimer, Searching, Typed, move, Debounced, clear, Write, Tick,
     stream, status
<1>3. ASSUME NEW r \in reads, Superseded(r) PROVE RunInv'
  BY <1>3, LoopEnds DEF Superseded
<1>4. ASSUME NEW r \in reads, Connected(r) PROVE RunInv'
  <2> DEFINE new == [r EXCEPT !.at = "read"]
  <2>1. new.gen = r.gen /\ new.src = r.src
    BY DEF StreamOK, Loop
  <2>2. ~reconnecting' /\ UNCHANGED <<generation, source, running>> /\ ~stale(r)
        /\ reads' = (reads \ {r}) \cup {new}
    BY <1>4 DEF Connected
  <2> HIDE DEF new
  <2> QED
    BY <2>1, <2>2, LoopGoesOn
<1>5. ASSUME NEW r \in reads,
             \/ NoBody(r) \/ (\E n \in 0..1 : Ended(r, n))
             \/ \E fatal \in BOOLEAN : Failed(r, fatal)
      PROVE  RunInv'
  BY <1>5, LoopEnds DEF NoBody, Ended, Failed, finish
<1>6. ASSUME NEW r \in reads, NEW n \in 1..2, Received(r, n) PROVE RunInv'
  <2> DEFINE new == [r EXCEPT !.next = @ + n]
  <2>1. new.gen = r.gen /\ new.src = r.src /\ new.at = r.at
    BY DEF StreamOK, Loop
  <2>2. UNCHANGED <<generation, source, running, reconnecting>> /\ ~stale(r) /\ r.at = "read"
        /\ reads' = (reads \ {r}) \cup {new}
    BY <1>6 DEF Received
  <2>3. ~reconnecting'
    BY <2>2 DEF RunInv, stale
  <2> HIDE DEF new
  <2> QED
    BY <2>1, <2>2, <2>3, LoopGoesOn
<1>7. ASSUME NEW r \in reads, Dropped(r) PROVE RunInv'
  <2> DEFINE delay == IF clock - r.began >= RETRY_RESET_MS THEN 0 ELSE r.delay
             new == [r EXCEPT !.at = "wait", !.delay = delay,
                              !.until = clock + delay, !.window = sinceLastLine]
  <2>1. new.gen = r.gen /\ new.src = r.src /\ new.at = "wait"
    <3> HIDE DEF delay
    <3> QED
      BY DEF StreamOK, Loop
  <2>3. reads' = (reads \ {r}) \cup {new}
    BY <1>7 DEF Dropped
  <2> HIDE DEF new
  <2>2. UNCHANGED <<generation, source, running>> /\ ~stale(r)
    BY <1>7 DEF Dropped
  <2> QED
    BY <2>1, <2>2, <2>3, LoopGoesOn
<1>8. ASSUME NEW r \in reads, Retry(r) PROVE RunInv'
  <2> DEFINE delay == IF r.delay = 0 THEN RETRY_FIRST_MS
                      ELSE IF 2 * r.delay < RETRY_MAX_MS THEN 2 * r.delay ELSE RETRY_MAX_MS
             again(first) == [r EXCEPT !.at = "fetch", !.next = first, !.began = clock,
                                       !.window = None, !.until = 0, !.delay = delay]
  <2>0. PICK first : reads' = (reads \ {r}) \cup {again(first)}
    BY <1>8 DEF Retry, StreamOK, Loop
  <2> DEFINE new == again(first)
  <2>1. new.gen = r.gen /\ new.src = r.src /\ new.at = "fetch"
    <3> HIDE DEF delay
    <3> QED
      BY DEF StreamOK, Loop
  <2>3. reads' = (reads \ {r}) \cup {new}
    BY <2>0
  <2> HIDE DEF new
  <2>2. UNCHANGED <<generation, source, running>> /\ ~stale(r)
    BY <1>8 DEF Retry
  <2> QED
    BY <2>1, <2>2, <2>3, LoopGoesOn
<1>9. CASE Stops
  <2>1. /\ generation' = generation + 1 /\ reads' = Disowned
        /\ ~running' /\ ~reconnecting'
    BY <1>9 DEF Stops, stop
  <2>2. \A r \in Disowned : r.gen < generation + 1
    BY DisownedAre
  <2>3. \A r \in reads' : r.gen <= generation' /\ r.gen # generation'
    <3>1. Disowned \subseteq Loop /\ generation \in Nat
      BY DisownedAre DEF StreamOK
    <3>2. \A r \in Disowned : r.gen \in Nat
      BY <3>1 DEF Loop
    <3> QED
      BY <2>1, <2>2, <3>1, <3>2
  <2> QED
    BY <2>1, <2>3 DEF RunInv
<1>10. CASE Restarts
  <2>1. PICK src \in Sources, f \in BOOLEAN, q \in {None, debounced} : start(src, f, q)
    BY <1>10 DEF Restarts
  <2>2. PICK first : reads' = Disowned \cup {Started(src, f, first)}
    BY <2>1 DEF start, Started
  <2>3. /\ generation' = generation + 1 /\ source' = src
        /\ running' /\ ~reconnecting'
    BY <2>1 DEF start
  <2>4. Started(src, f, first).gen = generation + 1 /\ Started(src, f, first).src = src
    BY DEF Started
  <2>5. \A r \in Disowned : r.gen <= generation' /\ r.gen # generation'
    <3>1. Disowned \subseteq Loop /\ generation \in Nat /\ \A r \in Disowned : r.gen < generation + 1
      BY DisownedAre DEF StreamOK
    <3>2. \A r \in Disowned : r.gen \in Nat
      BY <3>1 DEF Loop
    <3> QED
      BY <2>3, <3>1, <3>2
  <2>6. generation + 1 <= generation + 1
    BY DEF StreamOK
  <2> QED
    BY <2>2, <2>3, <2>4, <2>5, <2>6 DEF RunInv
<1> QED
  BY <1>2, <1>3, <1>4, <1>5, <1>6, <1>7, <1>8, <1>9, <1>10
     DEF StreamMove, StreamNext, Reading

-----------------------------------------------------------------------------
(* The buffer.                                                             *)

(* Staging the next lines c keeps the tail unbroken.                       *)
LEMMA StageUnbroken ==
    ASSUME NEW l \in Seq(Line), NEW p \in Seq(Line), NEW c \in Seq(Line), NEW a \in Nat,
           NEW cut, NEW on, NEW more
    PROVE  (/\ on /\ Unbroken(l, p, a, cut, on)
            /\ \A i \in 1..Len(c) : c[i].k = a + i
            /\ ~more => ~cut /\ Len(p \o c) <= MAX_LINES)
           => Unbroken(l, trim(p \o c), a + Len(c), more, on)
<1>0. SUFFICES ASSUME on, Unbroken(l, p, a, cut, on),
                      \A i \in 1..Len(c) : c[i].k = a + i,
                      ~more => ~cut /\ Len(p \o c) <= MAX_LINES
               PROVE  Unbroken(l, trim(p \o c), a + Len(c), more, on)
  OBVIOUS
<1> DEFINE all == p \o c
           t == trim(all)
           d == Cut(all)
           m == Len(c)
<1>1. /\ all \in Seq(Line) /\ Len(all) = Len(p) + m /\ Len(p) \in Nat /\ m \in Nat
      /\ \A i \in 1..Len(all) : all[i] = IF i <= Len(p) THEN p[i] ELSE c[i - Len(p)]
  BY ConcatIs
<1>2. \A i \in 1..Len(all) : all[i].k = a - Len(p) + i
  <2> SUFFICES ASSUME NEW i \in 1..Len(all) PROVE all[i].k = a - Len(p) + i
    OBVIOUS
  <2> HIDE DEF all, m
  <2>1. CASE i <= Len(p)
    <3>1. i \in 1..Len(p) /\ all[i] = p[i]
      BY <1>1, <2>1
    <3> QED
      BY <1>0, <3>1 DEF Unbroken
  <2>2. CASE i > Len(p)
    <3>0. i - Len(p) \in 1..m /\ ~(i <= Len(p))
      BY <1>1, <2>2
    <3>1. i - Len(p) \in 1..Len(c) /\ all[i] = c[i - Len(p)]
      BY <1>1, <3>0 DEF m
    <3>2. c[i - Len(p)].k = a + (i - Len(p))
      BY <1>0, <3>1
    <3> QED
      BY <1>1, <3>1, <3>2
  <2> QED
    BY <1>1, <2>1, <2>2
<1> HIDE DEF all
<1>3. /\ t \in Seq(Line) /\ Len(t) \in Nat /\ d \in Nat
      /\ Len(all) = Len(t) + d /\ Len(t) <= MAX_LINES
      /\ \A i \in 1..Len(t) : t[i] = all[i + d]
      /\ Len(all) <= MAX_LINES => d = 0
      /\ Len(all) >= MAX_LINES => Len(t) = MAX_LINES
  BY <1>1, TrimIs
<1> HIDE DEF t, d, m
<1>4. MAX_LINES \in Nat \ {0}
  BY LogsAssumption DEF LogsAssumption
<1>5. \A i \in 1..Len(t) : t[i].k = (a + m) - Len(t) + i
  <2> SUFFICES ASSUME NEW i \in 1..Len(t) PROVE t[i].k = (a + m) - Len(t) + i
    OBVIOUS
  <2>1. i + d \in 1..Len(all) /\ t[i] = all[i + d]
    BY <1>1, <1>3
  <2>2. t[i].k = a - Len(p) + (i + d)
    BY <1>2, <2>1
  <2>3. Len(p) + m = Len(t) + d
    BY <1>1, <1>3
  <2>4. Len(p) \in Nat /\ m \in Nat /\ Len(t) \in Nat /\ d \in Nat
    BY <1>1, <1>3
  <2>6. a - Len(p) + (i + d) = (a + m) - Len(t) + i
    BY <2>3, <2>4
  <2> QED
    BY <2>2, <2>6
<1>6. Len(t) < MAX_LINES => Len(p) < MAX_LINES /\ Len(t) = Len(p) + m
  BY <1>1, <1>3, <1>4
<1>7. PICK b \in 0..a : /\ \A i \in 1..Len(l) : l[i].k = b - Len(l) + i
                        /\ Len(p) < MAX_LINES => b = a - Len(p)
  BY <1>0 DEF Unbroken
<1>8. b \in 0..(a + m) /\ (Len(t) < MAX_LINES => b = (a + m) - Len(t))
  <2>1. Len(p) \in Nat /\ m \in Nat /\ Len(t) \in Nat
    BY <1>1, <1>3
  <2>2. Len(p) < MAX_LINES => b = a - Len(p)
    BY <1>7
  <2> QED
    BY <1>6, <2>1, <2>2
<1>9. Len(l) = 0 /\ Len(t) < MAX_LINES => a + m = Len(t)
  BY <1>0, <1>1, <1>6 DEF Unbroken
<1>10. ASSUME ~more
       PROVE  (\A i \in 1..Len(l) : l[i].k = i) /\ a + m = Len(l) + Len(t)
  <2>1. Len(all) <= MAX_LINES /\ ~cut
    BY <1>0, <1>10 DEF all
  <2>2. Len(t) = Len(p) + m /\ Len(l) \in Nat
    BY <1>1, <1>3, <2>1
  <2> QED
    BY <1>0, <1>1, <2>1, <2>2 DEF Unbroken
<1>11. Unbroken(l, t, a + m, more, on)
  <2>1. \E e \in 0..(a + m) :
           /\ \A i \in 1..Len(l) : l[i].k = e - Len(l) + i
           /\ on /\ Len(t) < MAX_LINES => e = (a + m) - Len(t)
    BY <1>7, <1>8
  <2>2. on /\ Len(l) = 0 /\ Len(t) < MAX_LINES => a + m = Len(t)
    BY <1>9
  <2>3. ~more => /\ \A i \in 1..Len(l) : l[i].k = i
                 /\ on => a + m = Len(l) + Len(t)
    BY <1>10
  <2> QED
    BY <1>5, <2>1, <2>2, <2>3, Zenon DEF Unbroken
<1> QED
  BY <1>11 DEF all, t, m

(* So does moving the staged lines to the screen.                          *)
LEMMA FlushUnbroken ==
    ASSUME NEW l \in Seq(Line), NEW p \in Seq(Line), NEW a \in Nat, NEW cut,
           NEW on, NEW e \in Seq(Line), Len(e) = 0, NEW still, NEW more
    PROVE  (/\ on /\ Unbroken(l, p, a, cut, on)
            /\ ~more => ~cut /\ Len(l \o p) <= MAX_LINES)
           => Unbroken(trim(l \o p), e, a, more, still)
<1>0. SUFFICES ASSUME on, Unbroken(l, p, a, cut, on),
                      ~more => ~cut /\ Len(l \o p) <= MAX_LINES
               PROVE  Unbroken(trim(l \o p), e, a, more, still)
  OBVIOUS
<1> DEFINE all == l \o p
           t == trim(all)
           d == Cut(all)
<1>1. /\ all \in Seq(Line) /\ Len(all) = Len(l) + Len(p) /\ Len(l) \in Nat /\ Len(p) \in Nat
      /\ \A i \in 1..Len(all) : all[i] = IF i <= Len(l) THEN l[i] ELSE p[i - Len(l)]
  BY ConcatIs
<1> HIDE DEF all
<1>2. /\ t \in Seq(Line) /\ Len(t) \in Nat /\ d \in Nat
      /\ Len(all) = Len(t) + d /\ Len(t) <= MAX_LINES
      /\ \A i \in 1..Len(t) : t[i] = all[i + d]
      /\ Len(all) <= MAX_LINES => d = 0
      /\ Len(all) >= MAX_LINES => Len(t) = MAX_LINES
  BY <1>1, TrimIs
<1> HIDE DEF t, d
<1>3. MAX_LINES \in Nat \ {0}
  BY LogsAssumption DEF LogsAssumption
<1>4. PICK b \in 0..a : /\ \A i \in 1..Len(l) : l[i].k = b - Len(l) + i
                        /\ Len(p) < MAX_LINES => b = a - Len(p)
  BY <1>0 DEF Unbroken
<1>5. \A i \in 1..Len(t) : t[i].k = a - Len(t) + i
  <2> SUFFICES ASSUME NEW i \in 1..Len(t) PROVE t[i].k = a - Len(t) + i
    OBVIOUS
  <2>1. i + d \in 1..Len(all) /\ t[i] = all[i + d]
    BY <1>1, <1>2
  <2>2. CASE i + d <= Len(l)
    <3>1. i + d \in 1..Len(l) /\ t[i] = l[i + d]
      BY <1>1, <2>1, <2>2
    <3>2. Len(p) < MAX_LINES
      BY <1>1, <1>2, <1>3, <2>2
    <3>3. t[i].k = b - Len(l) + (i + d)
      BY <1>4, <3>1
    <3>4. Len(all) = Len(l) + Len(p) /\ Len(all) = Len(t) + d /\ b = a - Len(p)
      BY <1>1, <1>2, <1>4, <3>2
    <3>5. Len(p) \in Nat /\ Len(l) \in Nat /\ Len(t) \in Nat /\ d \in Nat
      BY <1>1, <1>2
    <3>6. b - Len(l) + (i + d) = a - Len(t) + i
      BY <3>4, <3>5
    <3> QED
      BY <3>3, <3>6, Zenon
  <2>3. CASE i + d > Len(l)
    <3>1. i + d - Len(l) \in 1..Len(p) /\ t[i] = p[i + d - Len(l)]
      BY <1>1, <1>2, <2>1, <2>3
    <3>2. t[i].k = a - Len(p) + (i + d - Len(l))
      BY <1>0, <3>1 DEF Unbroken
    <3>3. Len(all) = Len(l) + Len(p) /\ Len(all) = Len(t) + d
      BY <1>1, <1>2
    <3>4. Len(p) \in Nat /\ Len(l) \in Nat /\ Len(t) \in Nat /\ d \in Nat
      BY <1>1, <1>2
    <3>5. a - Len(p) + (i + d - Len(l)) = a - Len(t) + i
      BY <3>3, <3>4
    <3> QED
      BY <3>2, <3>5, Zenon
  <2> QED
    BY <1>1, <1>2, <2>2, <2>3
<1>6. Len(t) = 0 => a = 0
  <2> SUFFICES ASSUME Len(t) = 0 PROVE a = 0
    OBVIOUS
  <2>1. Len(l) = 0 /\ Len(p) = 0
    BY <1>1, <1>2, <1>3
  <2> QED
    BY <1>0, <1>3, <2>1 DEF Unbroken
<1>7. ASSUME ~more
      PROVE  (\A i \in 1..Len(t) : t[i].k = i) /\ a = Len(t)
  <2>1. Len(all) <= MAX_LINES /\ ~cut
    BY <1>0, <1>7 DEF all
  <2>2. a = Len(l) + Len(p) /\ Len(t) = Len(l) + Len(p)
    BY <1>0, <1>1, <1>2, <2>1 DEF Unbroken
  <2> QED
    BY <1>1, <1>5, <2>2
<1>8. a \in 0..a /\ a - Len(e) = a /\ 1..Len(e) = {}
  OBVIOUS
<1>9. Unbroken(t, e, a, more, still)
  <2>1. \A i \in 1..Len(e) : e[i].k = a - Len(e) + i
    BY <1>8
  <2>2. \E b2 \in 0..a : /\ \A i \in 1..Len(t) : t[i].k = b2 - Len(t) + i
                         /\ still /\ Len(e) < MAX_LINES => b2 = a - Len(e)
    BY <1>5, <1>8
  <2>3. still /\ Len(t) = 0 /\ Len(e) < MAX_LINES => a = Len(e)
    BY <1>6, <1>8
  <2>4. ~more =>
           /\ \A i \in 1..Len(t) : t[i].k = i
           /\ still => a = Len(t) + Len(e)
    BY <1>2, <1>7, <1>8
  <2> QED
    BY <1>0, <2>1, <2>2, <2>3, <2>4 DEF Unbroken
<1> QED
  BY <1>9 DEF all, t

(* Stopping only drops what was staged.                                    *)
LEMMA StopUnbroken ==
    ASSUME NEW l \in Seq(Line), NEW p \in Seq(Line), NEW a \in Nat, NEW cut, NEW on,
           NEW e \in Seq(Line), Len(e) = 0, NEW off
    PROVE  Unbroken(l, p, a, cut, on) /\ ~off => Unbroken(l, e, a, cut, off)
<1>0. SUFFICES ASSUME Unbroken(l, p, a, cut, on), ~off PROVE Unbroken(l, e, a, cut, off)
  OBVIOUS
<1>1. 1..Len(e) = {}
  OBVIOUS
<1>2. PICK b \in 0..a : \A i \in 1..Len(l) : l[i].k = b - Len(l) + i
  BY <1>0 DEF Unbroken
<1>3. ~cut => \A i \in 1..Len(l) : l[i].k = i
  BY <1>0 DEF Unbroken
<1> QED
  BY <1>0, <1>1, <1>2, <1>3 DEF Unbroken

(* The bounds are numbers.                                                 *)
LEMMA BoundsAre ==
    /\ MaxLog \in Nat /\ MaxArrived \in Nat /\ MaxClock \in Nat /\ MaxStarts \in Nat
    /\ MAX_LINES \in Nat \ {0} /\ Second \in Nat \ {0}
    /\ RETRY_FIRST_MS \in Nat /\ RETRY_MAX_MS \in Nat /\ RETRY_RESET_MS \in Nat
    /\ RETRY_FIRST_MS <= RETRY_MAX_MS
<1>1. {MaxLog, MaxArrived, MaxClock, MaxStarts} \subseteq Nat
  BY LogsAssumption DEF LogsAssumption
<1>2. MaxLog \in Nat /\ MaxArrived \in Nat /\ MaxClock \in Nat /\ MaxStarts \in Nat
  BY <1>1, Zenon
<1>3. {RETRY_FIRST_MS, RETRY_MAX_MS, RETRY_RESET_MS} \subseteq Nat \ {0}
  BY LogsAssumption DEF LogsAssumption
<1>4. RETRY_FIRST_MS \in Nat /\ RETRY_MAX_MS \in Nat /\ RETRY_RESET_MS \in Nat
  BY <1>3, Zenon
<1> QED
  BY <1>2, <1>4, LogsAssumption DEF LogsAssumption

(* A chunk is the next lines of the log, numbered on.                      *)
LEMMA ChunkIs ==
    ASSUME StreamOK, NEW r \in reads, NEW n \in Nat,
           r.next + n <= Len(log) + 1, arrived + n <= MaxArrived
    PROVE  /\ Chunk(r, n) \in Seq(Line) /\ Len(Chunk(r, n)) = n
           /\ \A i \in 1..n : Chunk(r, n)[i].k = arrived + i /\ Chunk(r, n)[i].src = r.src
<1>0. r \in Loop /\ Len(log) \in Nat /\ Len(log) <= MaxLog /\ arrived \in 0..MaxArrived
  BY DEF StreamOK
<1>1. /\ r.src \in Sources /\ r.next \in 1..(MaxLog + 1) /\ arrived \in Nat
      /\ MaxLog \in Nat /\ MaxArrived \in Nat
  BY <1>0, BoundsAre DEF Loop
<1>2. \A i \in 1..n : [src |-> r.src, n |-> r.next + i - 1, k |-> arrived + i] \in Line
  <2> SUFFICES ASSUME NEW i \in 1..n
               PROVE  r.next + i - 1 \in 1..MaxLog /\ arrived + i \in 1..MaxArrived
    BY <1>1 DEF Line
  <2> QED
    BY <1>0, <1>1
<1> QED
  BY <1>2 DEF Chunk

(* flush(), with staged lines p of a stream that runs and has received a.  *)
LEMMA FlushBuffer ==
    ASSUME StreamOK, NEW p \in Seq(Line), NEW cut \in BOOLEAN, NEW a \in 0..MaxArrived,
           flush(p, cut), arrived' = a, source' = source, running,
           Unbroken(lines, p, a, cut, running),
           \A i \in 1..Len(lines) : lines[i].src = source,
           \A i \in 1..Len(p) : p[i].src = source,
           dropped + Len(lines) + Len(p) <= a
    PROVE  /\ BufferInv'
           /\ lines' \in Seq(Line) /\ pending' \in Seq(Line)
           /\ Len(lines') <= MAX_LINES /\ Len(pending') <= MAX_LINES
           /\ dropped' \in Nat /\ truncated' \in BOOLEAN /\ timer' = None
<1> DEFINE all == lines \o p
<1>1. /\ all \in Seq(Line) /\ Len(all) = Len(lines) + Len(p)
      /\ Len(lines) \in Nat /\ Len(p) \in Nat
      /\ \A i \in 1..Len(all) : all[i] = IF i <= Len(lines) THEN lines[i] ELSE p[i - Len(lines)]
  BY ConcatIs DEF StreamOK
<1>2. /\ trim(all) \in Seq(Line) /\ Len(trim(all)) \in Nat /\ Len(trim(all)) <= MAX_LINES
      /\ Cut(all) \in Nat /\ Len(all) = Len(trim(all)) + Cut(all)
      /\ \A i \in 1..Len(trim(all)) : trim(all)[i] = all[i + Cut(all)]
  BY <1>1, TrimIs
<1>3. /\ lines' = trim(all) /\ pending' = <<>> /\ timer' = None
      /\ dropped' = dropped + Len(all) - Len(trim(all))
      /\ truncated' = (cut \/ Len(all) > MAX_LINES)
  BY DEF flush
<1>4. MAX_LINES \in Nat
  BY LogsAssumption DEF LogsAssumption
<1>5. pending' \in Seq(Line) /\ Len(pending') = 0
  BY <1>3
<1>6. truncated' \in BOOLEAN /\ (~truncated' => ~cut /\ Len(all) <= MAX_LINES)
  <2>1. ~(Len(all) > MAX_LINES) => Len(all) <= MAX_LINES
    BY <1>1, <1>4
  <2>2. truncated' = (cut \/ Len(all) > MAX_LINES)
    BY <1>3
  <2> QED
    BY <2>1, <2>2, Zenon
<1>7. Unbroken(lines', pending', arrived', truncated', running')
  <2>1. a \in Nat /\ lines \in Seq(Line)
    BY DEF StreamOK
  <2>2. Unbroken(trim(all), pending', a, truncated', running')
    BY <1>5, <1>6, <2>1, FlushUnbroken
  <2> QED
    BY <1>3, <2>2
<1>8. \A i \in 1..Len(all) : all[i].src = source
  <2> SUFFICES ASSUME NEW i \in 1..Len(all) PROVE all[i].src = source
    OBVIOUS
  <2> HIDE DEF all
  <2>1. CASE i <= Len(lines)
    BY <1>1, <2>1
  <2>2. CASE i > Len(lines)
    <3>1. i - Len(lines) \in 1..Len(p) /\ ~(i <= Len(lines))
      BY <1>1, <2>2
    <3> QED
      BY <1>1, <3>1
  <2> QED
    BY <1>1, <2>1, <2>2
<1> HIDE DEF all
<1>9. \A i \in 1..Len(lines') : lines'[i].src = source'
  <2> SUFFICES ASSUME NEW i \in 1..Len(trim(all)) PROVE trim(all)[i].src = source
    BY <1>3
  <2>1. i + Cut(all) \in 1..Len(all)
    BY <1>1, <1>2
  <2> QED
    BY <1>2, <1>8, <2>1
<1>10. dropped' \in Nat /\ dropped' + Len(lines') + Len(pending') <= arrived'
  <2>1. dropped \in Nat /\ a \in Nat /\ dropped' = dropped + Cut(all)
    BY <1>1, <1>2, <1>3 DEF StreamOK
  <2>2. Cut(all) + Len(lines') = Len(lines) + Len(p) /\ Len(lines') \in Nat
    <3>1. Len(all) = Len(lines) + Len(p) /\ Len(lines) \in Nat /\ Len(p) \in Nat
      BY <1>1
    <3>2. Len(all) = Len(trim(all)) + Cut(all) /\ Len(trim(all)) \in Nat /\ Cut(all) \in Nat
      BY <1>2
    <3>3. Cut(all) + Len(trim(all)) = Len(lines) + Len(p)
      BY <3>1, <3>2
    <3> QED
      BY <1>3, <3>2, <3>3, Zenon
  <2> QED
    BY <1>1, <1>2, <1>5, <2>1, <2>2
<1>11. 1..Len(pending') = {} /\ ~(Len(pending') > 0) /\ 0 <= MAX_LINES
  BY <1>4, <1>5
<1> QED
  BY <1>2, <1>3, <1>5, <1>6, <1>7, <1>9, <1>10, <1>11 DEF BufferInv

BufferOK ==
    /\ lines \in Seq(Line) /\ pending \in Seq(Line)
    /\ Len(lines) <= MAX_LINES /\ Len(pending) <= MAX_LINES
    /\ arrived \in 0..MaxArrived /\ dropped \in Nat /\ truncated \in BOOLEAN

(* The flush of what is staged.                                            *)
LEMMA FlushStaged ==
    ASSUME StreamOK, BufferInv, running, flush(pending, truncated),
           UNCHANGED <<arrived, source>>
    PROVE  BufferInv' /\ BufferOK'
<1>1. /\ pending \in Seq(Line) /\ truncated \in BOOLEAN /\ arrived \in 0..MaxArrived
  BY DEF StreamOK
<1>2. /\ Unbroken(lines, pending, arrived, truncated, running)
      /\ \A i \in 1..Len(lines) : lines[i].src = source
      /\ \A i \in 1..Len(pending) : pending[i].src = source
      /\ dropped + Len(lines) + Len(pending) <= arrived
  BY DEF BufferInv
<1>3. arrived' = arrived /\ source' = source
  OBVIOUS
<1>4. /\ BufferInv' /\ lines' \in Seq(Line) /\ pending' \in Seq(Line)
      /\ Len(lines') <= MAX_LINES /\ Len(pending') <= MAX_LINES
      /\ dropped' \in Nat /\ truncated' \in BOOLEAN
  BY <1>1, <1>2, <1>3, FlushBuffer
<1> QED
  BY <1>1, <1>3, <1>4 DEF BufferOK

(* Staging the next n lines of the current stream.                         *)
LEMMA StageBuffer ==
    ASSUME StreamOK, RunInv, BufferInv, NEW r \in reads, ~stale(r), NEW n \in Nat,
           r.next + n <= Len(log) + 1, arrived + n <= MaxArrived, NEW p,
           p = trim(pending \o Chunk(r, n)), NEW more,
           ~more => ~truncated /\ Len(pending \o Chunk(r, n)) <= MAX_LINES
    PROVE  /\ running /\ p \in Seq(Line) /\ Len(p) <= MAX_LINES
           /\ Unbroken(lines, p, arrived + n, more, running)
           /\ \A i \in 1..Len(p) : p[i].src = source
           /\ arrived + n \in 0..MaxArrived
           /\ dropped + Len(lines) + Len(p) <= arrived + n
<1> DEFINE c == Chunk(r, n)
           all == pending \o c
<1>1. running /\ r.src = source
  BY DEF RunInv, stale
<1>2. /\ c \in Seq(Line) /\ Len(c) = n
      /\ \A i \in 1..n : c[i].k = arrived + i /\ c[i].src = r.src
  BY ChunkIs
<1> HIDE DEF c
<1>3. /\ lines \in Seq(Line) /\ pending \in Seq(Line) /\ arrived \in Nat /\ dropped \in Nat
      /\ Len(lines) \in Nat
  BY DEF StreamOK
<1>4. /\ all \in Seq(Line) /\ Len(all) = Len(pending) + Len(c) /\ Len(pending) \in Nat
      /\ \A i \in 1..Len(all) : all[i] = IF i <= Len(pending) THEN pending[i]
                                        ELSE c[i - Len(pending)]
  BY <1>2, <1>3, ConcatIs
<1>5. Unbroken(lines, trim(all), arrived + Len(c), more, running)
  <2>1. Unbroken(lines, pending, arrived, truncated, running)
    BY DEF BufferInv
  <2>2. \A i \in 1..Len(c) : c[i].k = arrived + i
    BY <1>2
  <2>3. ~more => ~truncated /\ Len(pending \o c) <= MAX_LINES
    BY DEF c
  <2> QED
    BY <1>1, <1>2, <1>3, <2>1, <2>2, <2>3, StageUnbroken
<1> HIDE DEF all
<1>6. /\ trim(all) \in Seq(Line) /\ Len(trim(all)) \in Nat /\ Len(trim(all)) <= MAX_LINES
      /\ Cut(all) \in Nat /\ Len(all) = Len(trim(all)) + Cut(all)
      /\ \A i \in 1..Len(trim(all)) : trim(all)[i] = all[i + Cut(all)]
  BY <1>4, TrimIs
<1>7. p = trim(all)
  BY DEF all, c
<1>8. \A i \in 1..Len(all) : all[i].src = source
  <2> SUFFICES ASSUME NEW i \in 1..Len(all) PROVE all[i].src = source
    OBVIOUS
  <2>1. CASE i <= Len(pending)
    <3>1. i \in 1..Len(pending) /\ all[i] = pending[i]
      BY <1>4, <2>1
    <3> QED
      BY <3>1 DEF BufferInv
  <2>2. CASE i > Len(pending)
    <3>1. i - Len(pending) \in 1..n /\ ~(i <= Len(pending))
      BY <1>2, <1>4, <2>2
    <3>2. all[i] = c[i - Len(pending)]
      BY <1>4, <3>1
    <3> QED
      BY <1>1, <1>2, <3>1, <3>2
  <2> QED
    BY <1>4, <2>1, <2>2
<1>9. \A i \in 1..Len(p) : p[i].src = source
  <2> SUFFICES ASSUME NEW i \in 1..Len(trim(all)) PROVE trim(all)[i].src = source
    BY <1>7
  <2>1. i + Cut(all) \in 1..Len(all)
    BY <1>6
  <2> QED
    BY <1>6, <1>8, <2>1
<1>10. arrived + n \in 0..MaxArrived
  BY <1>3, BoundsAre
<1>11. dropped + Len(lines) + Len(trim(all)) <= arrived + n
  <2>1. dropped + Len(lines) + Len(pending) <= arrived
    BY DEF BufferInv
  <2>2. Len(trim(all)) <= Len(pending) + n
    BY <1>2, <1>4, <1>6
  <2>3. Len(trim(all)) \in Nat /\ Len(pending) \in Nat
    BY <1>4, <1>6
  <2> QED
    BY <1>3, <2>1, <2>2, <2>3
<1> QED
  BY <1>1, <1>2, <1>5, <1>6, <1>7, <1>9, <1>10, <1>11

(* Every step keeps the tail unbroken.                                     *)
LEMMA BufferStep ==
    ASSUME StreamOK, RunInv, BufferInv, StreamMove
    PROVE  BufferInv' /\ BufferOK'
<1>1. CASE UNCHANGED <<buffer, generation, source, running>>
  <2>1. BufferOK
    BY DEF StreamOK, BufferOK
  <2> QED
    BY <1>1, <2>1 DEF BufferInv, BufferOK, buffer
<1>2. CASE Searching \/ Write \/ Tick \/ UNCHANGED stream
  BY <1>1, <1>2 DEF Searching, Typed, move, Debounced, clear, Write, Tick, stream, status
<1>3. ASSUME NEW r \in reads, Superseded(r) \/ Connected(r) \/ Retry(r)
      PROVE  BufferInv' /\ BufferOK'
  BY <1>1, <1>3 DEF Superseded, Connected, Retry
<1>4. CASE FlushTimer
  <2>1. timer = generation /\ running
    BY <1>4 DEF FlushTimer, BufferInv
  <2>2. flush(pending, truncated) /\ UNCHANGED <<arrived, source>>
    BY <1>4, <2>1 DEF FlushTimer, status
  <2> QED
    BY <2>1, <2>2, FlushStaged
<1>5. ASSUME NEW r \in reads,
             NoBody(r) \/ Dropped(r) \/ \E fatal \in BOOLEAN : Failed(r, fatal)
      PROVE  BufferInv' /\ BufferOK'
  <2>1. ~stale(r)
    BY <1>5 DEF NoBody, Dropped, Failed
  <2>2. running
    BY <2>1 DEF RunInv, stale
  <2>3. flush(pending, truncated) /\ UNCHANGED <<arrived, source>>
    BY <1>5 DEF NoBody, Dropped, Failed, finish
  <2> QED
    BY <2>2, <2>3, FlushStaged
<1>6. ASSUME NEW r \in reads, NEW n \in 1..2, Received(r, n) PROVE BufferInv' /\ BufferOK'
  <2> DEFINE all == pending \o Chunk(r, n)
  <2>1. /\ ~stale(r) /\ r.next + n <= Len(log) + 1 /\ arrived + n <= MaxArrived
        /\ UNCHANGED <<lines, dropped, generation, source, running>>
    BY <1>6 DEF Received
  <2>2. /\ pending' = trim(all) /\ truncated' = (truncated \/ Len(all) > MAX_LINES)
        /\ timer' = (IF timer = None THEN generation ELSE timer)
        /\ arrived' = arrived + Len(Chunk(r, n))
    BY <1>6 DEF Received, append
  <2>3. Len(Chunk(r, n)) = n /\ Len(all) \in Nat
    <3>1. Chunk(r, n) \in Seq(Line) /\ Len(Chunk(r, n)) = n
      BY <2>1, ChunkIs
    <3>2. pending \in Seq(Line)
      BY DEF StreamOK
    <3> QED
      BY <3>1, <3>2, ConcatIs
  <2> HIDE DEF all
  <2>4. truncated' \in BOOLEAN /\ (~truncated' => ~truncated /\ Len(all) <= MAX_LINES)
    <3>1. ~(Len(all) > MAX_LINES) => Len(all) <= MAX_LINES
      BY <2>3, BoundsAre
    <3>2. truncated \in BOOLEAN
      BY DEF StreamOK
    <3> QED
      BY <2>2, <3>1, <3>2, Zenon
  <2>5. n \in Nat
    OBVIOUS
  <2>6. /\ running /\ pending' \in Seq(Line) /\ Len(pending') <= MAX_LINES
        /\ Unbroken(lines, pending', arrived + n, truncated', running)
        /\ \A i \in 1..Len(pending') : pending'[i].src = source
        /\ arrived + n \in 0..MaxArrived
        /\ dropped + Len(lines) + Len(pending') <= arrived + n
    BY <2>1, <2>2, <2>4, <2>5, StageBuffer DEF all
  <2>7. timer' = generation
    BY <2>2 DEF BufferInv
  <2>8. arrived' = arrived + n
    BY <2>2, <2>3
  <2>9. BufferOK'
    BY <2>1, <2>4, <2>6, <2>8 DEF StreamOK, BufferOK
  <2>10. \A i \in 1..Len(lines) : lines[i].src = source
    BY DEF BufferInv
  <2> QED
    BY <2>1, <2>6, <2>7, <2>8, <2>9, <2>10 DEF BufferInv
<1>7. ASSUME NEW r \in reads, NEW n \in 0..1, Ended(r, n) PROVE BufferInv' /\ BufferOK'
  <2> DEFINE all == pending \o Chunk(r, n)
             p == trim(all)
             cut == truncated \/ Len(all) > MAX_LINES
  <2>1. /\ ~stale(r) /\ r.next + n <= Len(log) + 1 /\ arrived + n <= MaxArrived
        /\ arrived' = arrived + n /\ n \in Nat
    BY <1>7 DEF Ended
  <2>2. flush(p, cut) /\ source' = source
    BY <1>7 DEF Ended, finish
  <2>3. Len(all) \in Nat
    <3>1. Chunk(r, n) \in Seq(Line)
      BY <2>1, ChunkIs
    <3>2. pending \in Seq(Line)
      BY DEF StreamOK
    <3> QED
      BY <3>1, <3>2, ConcatIs
  <2>4. cut \in BOOLEAN /\ (~cut => ~truncated /\ Len(all) <= MAX_LINES)
    <3>1. ~(Len(all) > MAX_LINES) => Len(all) <= MAX_LINES
      BY <2>3, BoundsAre
    <3>2. truncated \in BOOLEAN
      BY DEF StreamOK
    <3> QED
      BY <3>1, <3>2, Zenon
  <2> HIDE DEF cut
  <2>5. /\ running /\ p \in Seq(Line) /\ Len(p) <= MAX_LINES
        /\ Unbroken(lines, p, arrived + n, cut, running)
        /\ \A i \in 1..Len(p) : p[i].src = source
        /\ arrived + n \in 0..MaxArrived
        /\ dropped + Len(lines) + Len(p) <= arrived + n
    BY <2>1, <2>4, StageBuffer
  <2>6. \A i \in 1..Len(lines) : lines[i].src = source
    BY DEF BufferInv
  <2> HIDE DEF p
  <2>7. /\ BufferInv' /\ lines' \in Seq(Line) /\ pending' \in Seq(Line)
        /\ Len(lines') <= MAX_LINES /\ Len(pending') <= MAX_LINES
        /\ dropped' \in Nat /\ truncated' \in BOOLEAN
    BY <2>1, <2>2, <2>4, <2>5, <2>6, FlushBuffer
  <2> QED
    BY <2>1, <2>5, <2>7 DEF BufferOK
<1>8. CASE Stops
  <2>1. /\ pending' = <<>> /\ timer' = None /\ ~running'
        /\ UNCHANGED <<source, lines, arrived, truncated, dropped>>
    BY <1>8 DEF Stops, stop
  <2>2. /\ lines \in Seq(Line) /\ pending \in Seq(Line) /\ arrived \in Nat
        /\ dropped \in Nat /\ Len(lines) \in Nat /\ Len(pending) \in Nat
    BY DEF StreamOK
  <2>3. pending' \in Seq(Line) /\ Len(pending') = 0
    BY <2>1
  <2>4. Unbroken(lines, pending, arrived, truncated, running)
    BY DEF BufferInv
  <2>5. Unbroken(lines, pending', arrived, truncated, running')
    BY <2>1, <2>2, <2>3, <2>4, StopUnbroken
  <2>6. dropped + Len(lines) + Len(pending') <= arrived /\ 1..Len(pending') = {}
    BY <2>2, <2>3 DEF BufferInv
  <2>7. Len(pending') <= MAX_LINES /\ ~(Len(pending') > 0)
    BY <2>3, BoundsAre
  <2>8. BufferOK'
    BY <2>1, <2>3, <2>7 DEF StreamOK, BufferOK
  <2> QED
    BY <2>1, <2>5, <2>6, <2>7, <2>8 DEF BufferInv
<1>9. CASE Restarts
  <2>1. /\ lines' = <<>> /\ pending' = <<>> /\ arrived' = 0 /\ timer' = None
        /\ dropped' = 0
    BY <1>9 DEF Restarts, start
  <2>2. truncated' \in BOOLEAN
    BY <1>9 DEF Restarts, start
  <2>3. /\ lines' \in Seq(Line) /\ pending' \in Seq(Line) /\ Len(lines') = 0
        /\ Len(pending') = 0 /\ 1..Len(lines') = {} /\ 1..Len(pending') = {}
    BY <2>1
  <2>4. BufferOK'
    BY <2>1, <2>2, <2>3, BoundsAre DEF BufferOK
  <2>5. Unbroken(lines', pending', arrived', truncated', running')
    <3>1. 0 \in 0..arrived' /\ arrived' - Len(pending') = 0
          /\ arrived' = Len(lines') + Len(pending') /\ arrived' = Len(pending')
      <4>1. arrived' = 0 /\ Len(lines') = 0 /\ Len(pending') = 0
        BY <2>1, <2>3
      <4> QED
        BY <4>1
    <3> QED
      BY <2>3, <3>1 DEF Unbroken
  <2>6. dropped' + Len(lines') + Len(pending') <= arrived' /\ ~(Len(pending') > 0)
    BY <2>1, <2>3
  <2> QED
    BY <2>1, <2>3, <2>4, <2>5, <2>6 DEF BufferInv
<1> QED
  BY <1>2, <1>3, <1>4, <1>5, <1>6, <1>7, <1>8, <1>9 DEF StreamMove, StreamNext, Reading

-----------------------------------------------------------------------------
(* The types.                                                              *)

(* Where an answer can begin.                                              *)
LEMMA FirstLineIs ==
    ASSUME StreamOK, NEW w \in Nat \cup {None}
    PROVE  FirstLine(w) \subseteq 1..(MaxLog + 1)
<1>0. Len(log) \in Nat /\ Len(log) <= MaxLog /\ MaxLog \in Nat
  BY BoundsAre DEF StreamOK
<1>1. CASE w = None
  <2>1. larger(1, Len(log)) \in 1..(MaxLog + 1) /\ 1 \in 1..(MaxLog + 1)
    BY <1>0 DEF larger
  <2> QED
    BY <1>1, <2>1 DEF FirstLine
<1>2. CASE w # None
  <2> DEFINE before == {n \in 1..Len(log) : log[n] < clock - w * Second}
  <2>1. IsFiniteSet(1..Len(log)) /\ Cardinality(1..Len(log)) = Len(log)
    <3>0. 1 \in Int /\ Len(log) \in Int
      BY <1>0
    <3>1. Cardinality(1..Len(log)) = IF 1 > Len(log) THEN 0 ELSE Len(log) - 1 + 1
      BY <3>0, FS_Interval, Zenon
    <3>2. IsFiniteSet(1..Len(log))
      BY <1>0, FS_Interval
    <3> QED
      BY <1>0, <3>1, <3>2
  <2>2. before \subseteq 1..Len(log)
    OBVIOUS
  <2>3. FirstLine(w) = {1 + Cardinality(before)}
    BY <1>2 DEF FirstLine
  <2> HIDE DEF before
  <2>4. IsFiniteSet(before) /\ Cardinality(before) <= Len(log)
    BY <2>1, <2>2, FS_Subset
  <2>5. Cardinality(before) \in Nat
    BY <2>4, FS_CardinalityType
  <2> QED
    BY <1>0, <2>3, <2>4, <2>5
<1> QED
  BY <1>1, <1>2

(* The window of a resumed request.                                        *)
LEMMA WindowIs ==
    ASSUME StreamOK
    PROVE  sinceLastLine \in Nat \cup {None}
<1>1. CASE lastLineAt # None
  <2>1. clock \in Nat /\ lastLineAt \in Nat /\ lastLineAt <= clock
    BY <1>1, BoundsAre DEF StreamOK, Time
  <2> DEFINE x == clock - lastLineAt + Second - 1
  <2>2. x \in Nat /\ Second \in Nat \ {0}
    BY <2>1, BoundsAre
  <2>3. sinceLastLine = x \div Second + 1
    BY <1>1 DEF sinceLastLine
  <2> HIDE DEF x
  <2>4. x \div Second \in Nat
    BY <2>2
  <2> QED
    BY <2>3, <2>4
<1> QED
  BY <1>1 DEF sinceLastLine

(* Every loop stays a loop.                                                *)
LEMMA LoopsStep ==
    ASSUME StreamOK, RunInv, StreamMove
    PROVE  reads' \subseteq Loop
<1>0. reads \subseteq Loop /\ clock \in Time /\ clock \in Nat
  BY BoundsAre DEF StreamOK, Time
<1>1. CASE UNCHANGED reads
  BY <1>0, <1>1
<1>2. CASE FlushTimer \/ Searching \/ Write \/ Tick \/ UNCHANGED stream
  BY <1>1, <1>2 DEF FlushTimer, Searching, Typed, move, Debounced, clear, Write, Tick,
     stream, status
<1>3. ASSUME NEW r \in reads,
             \/ Superseded(r) \/ NoBody(r) \/ (\E n \in 0..1 : Ended(r, n))
             \/ \E fatal \in BOOLEAN : Failed(r, fatal)
      PROVE  reads' \subseteq Loop
  BY <1>0, <1>3 DEF Superseded, NoBody, Ended, Failed, finish
<1>4. ASSUME NEW r \in reads, NEW new \in Loop, reads' = (reads \ {r}) \cup {new}
      PROVE  reads' \subseteq Loop
  BY <1>0, <1>4
<1>5. ASSUME NEW r \in reads, Connected(r) PROVE reads' \subseteq Loop
  <2>1. [r EXCEPT !.at = "read"] \in Loop
    BY <1>0 DEF Loop
  <2> QED
    BY <1>4, <1>5, <2>1 DEF Connected
<1>6. ASSUME NEW r \in reads, NEW n \in 1..2, Received(r, n) PROVE reads' \subseteq Loop
  <2>0. r \in Loop /\ r.next \in 1..(MaxLog + 1)
    BY <1>0 DEF Loop
  <2>1. r.next + n \in 1..(MaxLog + 1)
    <3>1. r.next + n <= Len(log) + 1
      BY <1>6 DEF Received
    <3>2. Len(log) \in Nat /\ Len(log) <= MaxLog
      BY DEF StreamOK
    <3> QED
      BY <2>0, <3>1, <3>2, BoundsAre
  <2>2. [r EXCEPT !.next = r.next + n] \in Loop
    BY <2>0, <2>1 DEF Loop
  <2>3. reads' = (reads \ {r}) \cup {[r EXCEPT !.next = r.next + n]}
    BY <1>6, <2>0 DEF Received, Loop
  <2> QED
    BY <1>4, <2>2, <2>3
<1>7. ASSUME NEW r \in reads, Dropped(r) PROVE reads' \subseteq Loop
  <2> DEFINE delay == IF clock - r.began >= RETRY_RESET_MS THEN 0 ELSE r.delay
             until == clock + delay
             new == [r EXCEPT !.at = "wait", !.delay = delay,
                              !.until = until, !.window = sinceLastLine]
  <2>0. r \in Loop /\ r.delay \in 0..RETRY_MAX_MS
    BY <1>0 DEF Loop
  <2>1. delay \in 0..RETRY_MAX_MS
    BY <2>0, BoundsAre
  <2>2. reads' = (reads \ {r}) \cup {new}
    BY <1>7 DEF Dropped
  <2> HIDE DEF delay
  <2>3. until \in Nat
    BY <1>0, <2>1, BoundsAre
  <2> HIDE DEF until
  <2>4. sinceLastLine \in Nat \cup {None}
    BY WindowIs
  <2>5. new \in Loop
    BY <2>0, <2>1, <2>3, <2>4 DEF Loop
  <2> QED
    BY <1>4, <2>2, <2>5
<1>8. ASSUME NEW r \in reads, Retry(r) PROVE reads' \subseteq Loop
  <2> DEFINE delay == IF r.delay = 0 THEN RETRY_FIRST_MS
                      ELSE IF 2 * r.delay < RETRY_MAX_MS THEN 2 * r.delay ELSE RETRY_MAX_MS
             again(first) == [r EXCEPT !.at = "fetch", !.next = first, !.began = clock,
                                       !.window = None, !.until = 0, !.delay = delay]
  <2>0. r \in Loop /\ r.delay \in 0..RETRY_MAX_MS /\ r.window \in Nat \cup {None}
    BY <1>0 DEF Loop
  <2>1. PICK first \in FirstLine(r.window) : reads' = (reads \ {r}) \cup {again(first)}
    BY <1>8, <2>0 DEF Retry, Loop
  <2>2. first \in 1..(MaxLog + 1)
    BY <2>0, <2>1, FirstLineIs
  <2>3. delay \in 0..RETRY_MAX_MS
    BY <2>0, BoundsAre
  <2> HIDE DEF delay
  <2>4. again(first) \in Loop
    BY <1>0, <2>0, <2>2, <2>3 DEF Loop
  <2> QED
    BY <1>4, <2>1, <2>4
<1>9. CASE Stops
  BY <1>9, DisownedAre DEF Stops, stop
<1>10. CASE Restarts
  <2>1. PICK src \in Sources, f \in BOOLEAN, q \in {None, debounced} : start(src, f, q)
    BY <1>10 DEF Restarts
  <2>2. PICK first \in FirstLine(None) : reads' = Disowned \cup {Started(src, f, first)}
    BY <2>1 DEF start, Started
  <2>3. first \in 1..(MaxLog + 1)
    BY <2>2, FirstLineIs
  <2>4. generation + 1 \in 1..MaxStarts /\ 0 \in 0..RETRY_MAX_MS
    BY <1>10, BoundsAre DEF Restarts, StreamOK
  <2>5. Started(src, f, first) \in Loop
    BY <1>0, <2>3, <2>4 DEF Started, Loop
  <2> QED
    BY <2>2, <2>5, DisownedAre
<1> QED
  BY <1>2, <1>3, <1>5, <1>6, <1>7, <1>8, <1>9, <1>10 DEF StreamMove, StreamNext, Reading

-----------------------------------------------------------------------------
(* The search.                                                             *)

(* A query nobody asked of this buffer before: the whole of it is scanned. *)
LEMMA FreshSearch ==
    ASSUME NEW q, NEW buf \in Seq(Line), NEW id, NEW drop, Searched(q, buf, id, drop),
           q # last.query \/ id # last.buf
    PROVE  /\ last' = [query |-> q, buf |-> id, len |-> Len(buf), dropped |-> drop]
           /\ active' = None
           /\ q = None => matches' = <<>>
           /\ q # None => Ascending(matches', Hits(buf, q, 0))
<1>1. ASSUME q # None PROVE matches' = scanLines(buf, q, 0) /\ active' = None
  BY <1>1 DEF Searched
<1>2. Ascending(scanLines(buf, q, 0), Hits(buf, q, 0))
  BY ScanAscending
<1>3. q = None => matches' = <<>> /\ active' = None
  BY DEF Searched
<1>4. last' = [query |-> q, buf |-> id, len |-> Len(buf), dropped |-> drop]
  BY DEF Searched
<1> QED
  BY <1>1, <1>2, <1>3, <1>4

(* A flush: the hits are again those of the whole buffer, and a selection  *)
(* that survives is of the line it was of.                                 *)
LEMMA FlushSearch ==
    ASSUME StreamOK, SearchInv, NEW p \in Seq(Line), NEW cut, flush(p, cut),
           generation' = generation
    PROVE  /\ SearchInv'
           /\ active # None /\ active' # None =>
                 lines'[matches'[active']] = lines[matches[active]]
           /\ last' = [query |-> debounced, buf |-> last.buf, len |-> Len(lines'),
                       dropped |-> dropped']
<1> DEFINE all == lines \o p
           buf == trim(all)
           d == Cut(all)
           drop == dropped + Len(all) - Len(trim(all))
<1>0. lines \in Seq(Line) /\ dropped \in Nat /\ Len(lines) \in Nat
  BY DEF StreamOK
<1>1. /\ all \in Seq(Line) /\ Len(all) = Len(lines) + Len(p) /\ Len(p) \in Nat
      /\ \A i \in 1..Len(all) : all[i] = IF i <= Len(lines) THEN lines[i] ELSE p[i - Len(lines)]
  BY <1>0, ConcatIs
<1>2. /\ lines' = buf /\ dropped' = drop /\ debounced' = debounced
      /\ Searched(debounced, buf, last.buf, drop)
  BY DEF flush
<1>3. /\ buf \in Seq(Line) /\ Len(buf) \in Nat /\ d \in Nat /\ Len(all) = Len(buf) + d
      /\ \A i \in 1..Len(buf) : buf[i] = all[i + d]
  <2> HIDE DEF all
  <2> QED
    BY <1>1, TrimIs
<1>4. drop = dropped + d /\ drop - last.dropped = d /\ last.len = Len(lines)
  <2>1. drop = dropped + d
    BY DEF Cut
  <2>2. last.dropped = dropped /\ last.len = Len(lines)
    BY DEF SearchInv
  <2> HIDE DEF drop, d
  <2>3. drop - last.dropped = d
    BY <1>0, <1>3, <2>1, <2>2
  <2> QED
    BY <2>1, <2>2, <2>3
<1> HIDE DEF drop
<1>5. last' = [query |-> debounced, buf |-> last.buf, len |-> Len(buf), dropped |-> drop]
  BY <1>2 DEF Searched
<1>6. /\ last'.query = debounced' /\ last'.buf <= generation'
      /\ last'.len = Len(lines') /\ last'.dropped = dropped'
  BY <1>2, <1>5 DEF SearchInv
<1>7. CASE debounced = None
  <2>1. matches' = <<>> /\ active' = None
    BY <1>2, <1>7 DEF Searched
  <2> QED
    BY <1>2, <1>5, <1>6, <1>7, <2>1 DEF SearchInv
<1>8. CASE debounced # None
  <2> DEFINE new == Shifted(d) \o scanLines(buf, debounced, larger(0, Len(lines) - d))
             k == Removed(d)
  <2>1. Ascending(matches, Hits(lines, debounced, 0))
    BY <1>8 DEF SearchInv
  <2>2. Rescan(debounced, buf, last.buf, drop)
    BY <1>2, <1>8 DEF Searched, SearchInv
  <2>3. /\ matches' = new
        /\ active' = IF active = None \/ active <= k THEN None ELSE active - k
    BY <1>4, <2>2 DEF Rescan
  <2>4. /\ Ascending(new, Hits(buf, debounced, 0))
        /\ \A i \in 1..Len(matches) : i > k =>
              i - k \in 1..Len(new) /\ new[i - k] = matches[i] - d
    BY <1>0, <2>1, RescanAscending
  <2> HIDE DEF new
  <2>5. k \in 0..Len(matches) /\ \A i \in 1..Len(matches) : i > k => matches[i] > d
    BY <1>3, <2>1, RemovedIs
  <2> HIDE DEF k
  <2>6. matches \in Seq(Nat) /\ Len(matches) \in Nat
        /\ \A i \in 1..Len(matches) : matches[i] \in 1..Len(lines)
    BY <2>1 DEF Ascending, Hits
  <2>7. ASSUME active' # None
        PROVE  /\ active \in 1..Len(matches) /\ active' = active - k
               /\ active' \in 1..Len(new) /\ new[active'] = matches[active] - d
               /\ matches[active] > d
    <3>1. active # None /\ ~(active <= k) /\ active' = active - k
      BY <2>3, <2>7
    <3>2. active \in 1..Len(matches)
      BY <3>1 DEF SearchInv
    <3>3. active > k
      BY <2>5, <2>6, <3>1, <3>2
    <3> QED
      BY <2>4, <2>5, <3>1, <3>2, <3>3
  <2>8. SearchInv'
    BY <1>2, <1>6, <1>8, <2>3, <2>4, <2>7 DEF SearchInv
  <2>9. ASSUME active' # None PROVE lines'[matches'[active']] = lines[matches[active]]
    <3> DEFINE m == matches[active]
    <3>1. m \in 1..Len(lines) /\ m > d /\ matches'[active'] = m - d
      BY <2>3, <2>6, <2>7, <2>9
    <3> HIDE DEF m
    <3>2. m - d \in 1..Len(buf) /\ (m - d) + d = m /\ m \in 1..Len(all) /\ m <= Len(lines)
      BY <1>0, <1>1, <1>3, <3>1
    <3> HIDE DEF all, buf, d
    <3>3. buf[m - d] = all[m]
      BY <1>3, <3>2
    <3>4. all[m] = lines[m]
      BY <1>1, <3>2
    <3> QED
      BY <1>2, <3>1, <3>3, <3>4 DEF m
  <2> QED
    BY <1>2, <1>5, <2>8, <2>9
<1> QED
  BY <1>7, <1>8

(* Stepping through the hits, a pending query applied first.               *)
LEMMA MoveSearch ==
    ASSUME StreamOK, SearchInv, NEW step \in {1, -1}, move(step)
    PROVE  /\ SearchInv'
           /\ last' = [last EXCEPT !.query = query]
<1> DEFINE settled == query = debounced
           hits == IF settled THEN matches
                   ELSE IF query = None THEN <<>> ELSE scanLines(lines, query, 0)
           from == IF settled THEN active ELSE None
<1>1. /\ debounced' = query /\ matches' = hits /\ last' = [last EXCEPT !.query = query]
      /\ active' = IF hits = <<>> THEN from
                   ELSE IF from = None THEN IF step = 1 THEN 1 ELSE Len(hits)
                   ELSE ((from - 1 + step + Len(hits)) % Len(hits)) + 1
      /\ UNCHANGED <<lines, dropped, generation>>
  BY DEF move, buffer, status
<1>2. lines \in Seq(Line) /\ last \in Bookkeeping
  BY DEF StreamOK
<1>3. query # None => Ascending(scanLines(lines, query, 0), Hits(lines, query, 0))
  BY <1>2, ScanAscending
<1>4. /\ query = None => hits = <<>>
      /\ query # None => Ascending(hits, Hits(lines, query, 0))
  BY <1>3 DEF SearchInv
<1>5. hits \in Seq(Nat) /\ (from # None => from \in 1..Len(hits))
  <2>1. query = None => hits \in Seq(Nat)
    <3>1. query = None => hits = <<>>
      BY <1>4
    <3> HIDE DEF hits
    <3> QED
      BY <3>1
  <2>2. query # None => hits \in Seq(Nat)
    BY <1>4 DEF Ascending
  <2> QED
    BY <2>1, <2>2 DEF SearchInv
<1> HIDE DEF hits, from
<1>6. ASSUME active' # None PROVE active' \in 1..Len(hits)
  <2>1. CASE hits = <<>>
    BY <1>1, <1>5, <1>6, <2>1
  <2>2. CASE hits # <<>>
    <3> DEFINE h == Len(hits)
    <3>1. h \in Nat \ {0}
      BY <1>5, <2>2
    <3>2. CASE from = None
      <4>1. active' = 1 \/ active' = h
        BY <1>1, <2>2, <3>2
      <4> HIDE DEF h
      <4>2. 1 \in 1..h /\ h \in 1..h
        BY <3>1
      <4> QED
        BY <4>1, <4>2 DEF h
    <3>3. CASE from # None
      <4> DEFINE x == from - 1 + step + Len(hits)
      <4>1. active' = (x % h) + 1
        BY <1>1, <2>2, <3>3
      <4>2. x \in Int
        BY <1>5, <3>1, <3>3
      <4> HIDE DEF x, h
      <4>3. x % h \in 0..(h - 1)
        BY <3>1, <4>2
      <4>4. (x % h) + 1 \in 1..h
        BY <3>1, <4>3
      <4> QED
        BY <4>1, <4>4 DEF h
    <3> QED
      BY <3>2, <3>3
  <2> QED
    BY <2>1, <2>2
<1>7. /\ last'.query = debounced' /\ last'.buf <= generation'
      /\ last'.len = Len(lines') /\ last'.dropped = dropped'
  BY <1>1, <1>2 DEF SearchInv, Bookkeeping
<1> QED
  BY <1>1, <1>4, <1>6, <1>7 DEF SearchInv

(* Every step keeps the hits and their bookkeeping exact.                  *)
LEMMA SearchStep ==
    ASSUME StreamOK, RunInv, BufferInv, SearchInv, StreamMove
    PROVE  SearchInv' /\ last' \in Bookkeeping
<1>0. /\ lines \in Seq(Line) /\ last \in Bookkeeping /\ debounced \in QueryOrNone
      /\ query \in QueryOrNone /\ generation \in 0..MaxStarts /\ generation \in Nat
      /\ dropped \in Nat /\ last.buf \in 0..MaxStarts /\ Len(lines) \in Nat
  BY BoundsAre DEF StreamOK, Bookkeeping
<1>1. CASE UNCHANGED <<lines, dropped, generation, debounced, matches, last>>
           /\ active' \in {active, None}
  BY <1>0, <1>1 DEF SearchInv
<1>2. CASE Write \/ Tick \/ UNCHANGED stream \/ clear \/ \E q \in QueryOrNone : Typed(q)
  BY <1>1, <1>2 DEF Typed, clear, Write, Tick, stream, status, buffer, search
<1>3. ASSUME NEW r \in reads,
             Superseded(r) \/ Connected(r) \/ Retry(r) \/ \E n \in 1..2 : Received(r, n)
      PROVE  SearchInv' /\ last' \in Bookkeeping
  BY <1>1, <1>3 DEF Superseded, Connected, Retry, Received, search, buffer
<1>4. ASSUME NEW p \in Seq(Line), NEW cut, flush(p, cut), generation' = generation
      PROVE  SearchInv' /\ last' \in Bookkeeping
  <2>1. /\ SearchInv'
        /\ last' = [query |-> debounced, buf |-> last.buf, len |-> Len(lines'),
                    dropped |-> dropped']
    BY <1>4, FlushSearch
  <2>2. Len(lines') \in Nat /\ dropped' \in Nat
    <3>1. /\ lines' = trim(lines \o p)
          /\ dropped' = dropped + Cut(lines \o p)
      BY <1>4 DEF flush, Cut
    <3>2. lines \o p \in Seq(Line)
      BY <1>0, ConcatIs
    <3>3. Len(trim(lines \o p)) \in Nat /\ Cut(lines \o p) \in Nat
      BY <3>2, TrimIs
    <3> QED
      BY <1>0, <3>1, <3>3
  <2> QED
    BY <1>0, <2>1, <2>2 DEF Bookkeeping
<1>5. CASE FlushTimer
  <2>1. timer = generation /\ pending \in Seq(Line)
    BY <1>5 DEF FlushTimer, BufferInv, StreamOK
  <2> QED
    BY <1>4, <1>5, <2>1 DEF FlushTimer, status
<1>6. ASSUME NEW r \in reads,
             NoBody(r) \/ Dropped(r) \/ \E fatal \in BOOLEAN : Failed(r, fatal)
      PROVE  SearchInv' /\ last' \in Bookkeeping
  <2>1. pending \in Seq(Line)
    BY DEF StreamOK
  <2> QED
    BY <1>4, <1>6, <2>1 DEF NoBody, Dropped, Failed, finish
<1>7. ASSUME NEW r \in reads, NEW n \in 0..1, Ended(r, n)
      PROVE  SearchInv' /\ last' \in Bookkeeping
  <2>1. Chunk(r, n) \in Seq(Line)
    BY <1>7, ChunkIs DEF Ended
  <2>2. pending \o Chunk(r, n) \in Seq(Line)
    BY <2>1, ConcatIs DEF StreamOK
  <2>3. trim(pending \o Chunk(r, n)) \in Seq(Line)
    BY <2>2, TrimIs
  <2> QED
    BY <1>4, <1>7, <2>3 DEF Ended, finish
<1>8. CASE Debounced
  <2>1. /\ query # last.query /\ Searched(query, lines, last.buf, dropped)
        /\ debounced' = query /\ UNCHANGED <<lines, dropped, generation>>
    BY <1>8 DEF Debounced, SearchInv, buffer, status
  <2>2. /\ last' = [query |-> query, buf |-> last.buf, len |-> Len(lines),
                    dropped |-> dropped]
        /\ active' = None
        /\ query = None => matches' = <<>>
        /\ query # None => Ascending(matches', Hits(lines, query, 0))
    BY <1>0, <2>1, FreshSearch
  <2>3. last' \in Bookkeeping
    BY <1>0, <2>2 DEF Bookkeeping
  <2> QED
    BY <2>1, <2>2, <2>3 DEF SearchInv
<1>9. ASSUME NEW step \in {1, -1}, move(step) PROVE SearchInv' /\ last' \in Bookkeeping
  <2>1. SearchInv' /\ last' = [last EXCEPT !.query = query]
    BY <1>9, MoveSearch
  <2> QED
    BY <1>0, <2>1 DEF Bookkeeping
<1>10. CASE Stops
  <2>1. /\ generation' = generation + 1
        /\ UNCHANGED <<lines, dropped, debounced, matches, active, last>>
    BY <1>10 DEF Stops, stop, search
  <2>2. last.buf <= generation + 1
    BY <1>0 DEF SearchInv
  <2> QED
    BY <1>0, <2>1, <2>2 DEF SearchInv
<1>11. CASE Restarts
  <2>1. PICK src \in Sources, f \in BOOLEAN, q \in {None, debounced} : start(src, f, q)
    BY <1>11 DEF Restarts
  <2> DEFINE none == <<>>
  <2>2. /\ Searched(q, none, generation + 1, 0) /\ lines' = none /\ dropped' = 0
        /\ debounced' = q /\ generation' = generation + 1
    BY <2>1 DEF start
  <2>3. none \in Seq(Line) /\ Len(none) = 0
    OBVIOUS
  <2> HIDE DEF none
  <2>4. generation + 1 # last.buf /\ generation + 1 \in 0..MaxStarts
    BY <1>0, <1>11, BoundsAre DEF SearchInv, Restarts
  <2>5. /\ last' = [query |-> q, buf |-> generation + 1, len |-> Len(none), dropped |-> 0]
        /\ active' = None
        /\ q = None => matches' = <<>>
        /\ q # None => Ascending(matches', Hits(none, q, 0))
    BY <2>2, <2>3, <2>4, FreshSearch
  <2>6. q \in QueryOrNone
    BY <1>0 DEF QueryOrNone
  <2>7. last' \in Bookkeeping
    BY <2>3, <2>4, <2>5, <2>6 DEF Bookkeeping
  <2>8. generation + 1 <= generation + 1
    BY <1>0
  <2> QED
    BY <2>2, <2>3, <2>5, <2>7, <2>8 DEF SearchInv
<1> QED
  BY <1>2, <1>3, <1>5, <1>6, <1>7, <1>8, <1>9, <1>10, <1>11
     DEF StreamMove, StreamNext, Reading, Searching

-----------------------------------------------------------------------------
(* The rest of the types.                                                  *)

(* Only the cluster's own steps touch the log and the clock.               *)
LEMMA ClusterStep ==
    ASSUME StreamOK, StreamMove
    PROVE  /\ clock' \in Time /\ clock <= clock'
           /\ log' \in Seq(Time) /\ Len(log') <= MaxLog
<1>0. /\ clock \in Time /\ clock \in Nat /\ log \in Seq(Time) /\ Len(log) <= MaxLog
      /\ Len(log) \in Nat /\ clock <= clock
  BY BoundsAre DEF StreamOK, Time
<1>1. CASE Write
  <2>1. log' = Append(log, clock) /\ clock' = clock /\ Len(log) < MaxLog
    BY <1>1 DEF Write
  <2> QED
    BY <1>0, <2>1, BoundsAre
<1>2. CASE Tick
  <2>1. clock < MaxClock /\ clock' = clock + 1 /\ log' = log
    BY <1>2 DEF Tick
  <2>2. clock' \in Time /\ clock <= clock'
    BY <1>0, <2>1, BoundsAre DEF Time
  <2> QED
    BY <1>0, <2>1, <2>2
<1>3. CASE UNCHANGED cluster
  BY <1>0, <1>3 DEF cluster
<1>4. ASSUME NEW r \in reads,
             \/ Superseded(r) \/ Connected(r) \/ NoBody(r) \/ Dropped(r) \/ Retry(r)
             \/ (\E n \in 1..2 : Received(r, n)) \/ (\E n \in 0..1 : Ended(r, n))
             \/ \E fatal \in BOOLEAN : Failed(r, fatal)
      PROVE  UNCHANGED cluster
  BY <1>4 DEF Superseded, Connected, NoBody, Dropped, Retry, Received, Ended, Failed, finish
<1>5. ASSUME FlushTimer \/ Searching \/ Stops \/ Restarts \/ UNCHANGED stream
      PROVE  UNCHANGED cluster
  BY <1>5 DEF FlushTimer, Searching, Typed, move, Debounced, clear, Stops, stop, Restarts,
     start, stream
<1> QED
  BY <1>1, <1>2, <1>3, <1>4, <1>5 DEF StreamMove, StreamNext, Reading

(* The flags, the generation and the source.                               *)
LEMMA StatusStep ==
    ASSUME StreamOK, StreamMove
    PROVE  /\ generation' \in 0..MaxStarts /\ source' \in Sources \cup {None}
           /\ running' \in BOOLEAN /\ error' \in BOOLEAN /\ reconnecting' \in BOOLEAN
<1>0. /\ generation \in 0..MaxStarts /\ source \in Sources \cup {None}
      /\ running \in BOOLEAN /\ error \in BOOLEAN /\ reconnecting \in BOOLEAN
  BY DEF StreamOK
<1>1. CASE UNCHANGED status
  BY <1>0, <1>1 DEF status
<1>2. CASE FlushTimer \/ Searching \/ Write \/ Tick \/ UNCHANGED stream
  BY <1>1, <1>2 DEF FlushTimer, Searching, Typed, move, Debounced, clear, Write, Tick, stream
<1>3. ASSUME NEW r \in reads,
             Superseded(r) \/ Retry(r) \/ \E n \in 1..2 : Received(r, n)
      PROVE  UNCHANGED <<generation, source, running, error, reconnecting>>
  BY <1>3 DEF Superseded, Retry, Received
<1>4. ASSUME NEW r \in reads, Connected(r) \/ Dropped(r)
      PROVE  UNCHANGED <<generation, source, running, error>> /\ reconnecting' \in BOOLEAN
  BY <1>4 DEF Connected, Dropped
<1>5. ASSUME NEW r \in reads,
             \/ NoBody(r) \/ (\E n \in 0..1 : Ended(r, n))
             \/ \E fatal \in BOOLEAN : Failed(r, fatal)
      PROVE  /\ UNCHANGED <<generation, source>> /\ running' \in BOOLEAN
             /\ error' \in BOOLEAN /\ reconnecting' \in BOOLEAN
  <2> DEFINE Over(failed) == /\ running' = FALSE /\ reconnecting' = FALSE
                             /\ error' = (error \/ failed)
                             /\ UNCHANGED <<generation, source>>
  <2>0. ASSUME NEW failed, NEW p, NEW cut, finish(r, failed, p, cut)
        PROVE  Over(failed)
    BY <2>0 DEF finish
  <2> HIDE DEF Over
  <2>1. ASSUME NEW n \in 0..1, Ended(r, n) PROVE Over(FALSE)
    BY <2>0, <2>1, Zenon DEF Ended
  <2>2. Over(TRUE) \/ Over(FALSE)
    BY <1>5, <2>0, <2>1, Zenon DEF NoBody, Failed
  <2>3. error' \in BOOLEAN
    BY <1>0, <2>2, Zenon DEF Over
  <2> QED
    BY <2>2, <2>3, Zenon DEF Over
<1>6. ASSUME Stops \/ Restarts
      PROVE  /\ generation' \in 0..MaxStarts /\ source' \in Sources \cup {None}
             /\ running' \in BOOLEAN /\ error' \in BOOLEAN /\ reconnecting' \in BOOLEAN
  <2>1. generation' = generation + 1 /\ generation < MaxStarts
    BY <1>6 DEF Stops, stop, Restarts, start
  <2>2. generation' \in 0..MaxStarts
    BY <1>0, <2>1, BoundsAre
  <2>3. /\ source' \in Sources \cup {None}
        /\ running' \in BOOLEAN /\ error' \in BOOLEAN /\ reconnecting' \in BOOLEAN
    BY <1>0, <1>6 DEF Stops, stop, Restarts, start
  <2> QED
    BY <2>2, <2>3
<1> QED
  BY <1>0, <1>2, <1>3, <1>4, <1>5, <1>6 DEF StreamMove, StreamNext, Reading

(* The time of the last line, and the query.                               *)
LEMMA InputStep ==
    ASSUME StreamOK, StreamMove
    PROVE  /\ lastLineAt' \in {lastLineAt, clock, None}
           /\ query' \in QueryOrNone /\ debounced' \in {debounced, query, None}
<1>0. query \in QueryOrNone /\ None \in QueryOrNone
  BY DEF StreamOK, QueryOrNone
<1>1. ASSUME NEW r \in reads,
             \/ Superseded(r) \/ Connected(r) \/ NoBody(r) \/ Dropped(r) \/ Retry(r)
             \/ (\E n \in 1..2 : Received(r, n)) \/ (\E n \in 0..1 : Ended(r, n))
             \/ \E fatal \in BOOLEAN : Failed(r, fatal)
      PROVE  lastLineAt' \in {lastLineAt, clock} /\ UNCHANGED <<query, debounced>>
  BY <1>1 DEF Superseded, Connected, NoBody, Dropped, Retry, Received, Ended, Failed,
     finish, flush, append, buffer, search
<1>2. CASE FlushTimer \/ Write \/ Tick \/ UNCHANGED stream \/ Stops
  BY <1>0, <1>2 DEF FlushTimer, flush, Write, Tick, Stops, stop, stream, buffer, search
<1>3. CASE Searching
  BY <1>0, <1>3 DEF Searching, Typed, move, Debounced, clear, buffer
<1>4. CASE Restarts
  BY <1>0, <1>4 DEF Restarts, start
<1> QED
  BY <1>0, <1>1, <1>2, <1>3, <1>4 DEF StreamMove, StreamNext, Reading

(* Together.                                                               *)
LEMMA TypesStep ==
    ASSUME StreamOK, RunInv, BufferInv, SearchInv, StreamMove
    PROVE  StreamOK'
<1>1. /\ clock \in Time /\ clock \in Nat /\ debounced \in QueryOrNone
      /\ query \in QueryOrNone /\ None \in QueryOrNone
      /\ lastLineAt \in Time \cup {None} /\ (lastLineAt # None => lastLineAt <= clock)
  BY BoundsAre DEF StreamOK, Time, QueryOrNone
<1>2. clock' \in Nat /\ clock <= clock'
  BY ClusterStep, BoundsAre DEF Time
<1>3. lastLineAt' \in Time \cup {None} /\ (lastLineAt' # None => lastLineAt' <= clock')
  <2>1. CASE lastLineAt' = None
    BY <2>1
  <2>2. CASE lastLineAt' # None
    <3>1. lastLineAt' \in Time /\ lastLineAt' <= clock
      BY <1>1, <2>2, InputStep
    <3>2. lastLineAt' \in Nat
      BY <3>1, BoundsAre DEF Time
    <3> QED
      BY <1>1, <1>2, <3>1, <3>2
  <2> QED
    BY <2>1, <2>2
<1>4. query' \in QueryOrNone /\ debounced' \in QueryOrNone
  BY <1>1, InputStep
<1>5. BufferOK' /\ reads' \subseteq Loop /\ last' \in Bookkeeping
  BY BufferStep, LoopsStep, SearchStep
<1> QED
  BY <1>3, <1>4, <1>5, ClusterStep, StatusStep DEF StreamOK, BufferOK

-----------------------------------------------------------------------------
(* The picker.                                                             *)

(* The stream's own steps never change what it is of.                      *)
LEMMA SourceKept ==
    ASSUME StreamNext
    PROVE  source' = source
BY DEF StreamNext, FlushTimer, Searching, Typed, move, Debounced, clear, Write, Tick,
   Reading, Superseded, Connected, NoBody, Dropped, Retry, Received, Ended, Failed,
   finish, status

(* A pick is fetched: the newest GET is for it, or there is none to make.  *)
LEMMA LoadPodPicks ==
    ASSUME PickInv, loadPod(selected'), selected' \in Pods \cup {None}, choices' \subseteq Pods,
           UNCHANGED <<container, follow>>
    PROVE  PickInv'
<1> DEFINE new == [id |-> loadId + 1, name |-> selected']
<1>0. loadId \in Nat /\ MaxGets \in Nat /\ loadId < MaxGets
  BY TabAssumption DEF PickInv, TabAssumption, loadPod
<1>1. /\ loadId' = loadId + 1 /\ loading' = (selected' # None) /\ ~loadError'
      /\ gets' = IF selected' = None THEN gets ELSE gets \cup {new}
      /\ pod' = IF selected' = None THEN None ELSE pod
      /\ loading' \in BOOLEAN /\ loadError' \in BOOLEAN
  BY DEF loadPod
<1>2. loadId' \in 0..MaxGets /\ loadId + 1 \in 1..MaxGets
  BY <1>0, <1>1
<1>3. \A g \in gets : g.id \in Nat /\ g.id <= loadId /\ g.id # loadId + 1
  <2>1. \A g \in gets : g.id \in 1..MaxGets /\ g.id <= loadId
    BY DEF PickInv, Get
  <2> QED
    BY <1>0, <2>1
<1>4. \A g \in gets : g.id <= loadId'
  BY <1>0, <1>1, <1>3
<1>5. loadId + 1 <= loadId'
  BY <1>0, <1>1
<1>6. CASE selected' = None
  <2>1. ~loading' /\ gets' = gets /\ pod' = None
    BY <1>1, <1>6
  <2>2. \A g \in gets' : g.id # loadId'
    BY <1>1, <1>3, <2>1
  <2>3. PickIsShown'
    BY <1>6, <2>1, <2>2 DEF PickIsShown
  <2> QED
    BY <1>1, <1>2, <1>4, <1>6, <2>1, <2>2, <2>3 DEF PickInv
<1>7. CASE selected' # None
  <2>1. loading' /\ gets' = gets \cup {new} /\ pod' = pod /\ selected' \in Pods
    BY <1>1, <1>7
  <2>2. new \in Get /\ new.id = loadId' /\ new.name = selected'
    BY <1>1, <1>2, <2>1 DEF Get
  <2> HIDE DEF new
  <2>3. source' = source
    BY <1>7 DEF loadPod, stream, status
  <2>4. \A g \in gets' : g.id = loadId' => g = new
    BY <1>1, <1>3, <2>1
  <2>5. PickIsShown'
    BY <2>1, <2>2, <2>3 DEF PickIsShown, PickInv
  <2>6. \A g, h \in gets' : g.id = h.id => g = h
    <3> SUFFICES ASSUME NEW g \in gets', NEW h \in gets', g.id = h.id PROVE g = h
      OBVIOUS
    <3>1. CASE g.id = loadId'
      BY <2>4, <3>1
    <3>2. CASE g.id # loadId'
      BY <2>1, <2>2, <3>2 DEF PickInv
    <3> QED
      BY <3>1, <3>2
  <2>7. \A g \in gets' : g.id <= loadId'
    BY <1>1, <1>4, <1>5, <2>1, <2>2
  <2>8. gets' \subseteq Get
    BY <2>1, <2>2 DEF PickInv
  <2>9. pod' \in Pods \cup {None} /\ container' \in Containers /\ follow' \in BOOLEAN
    BY <2>1 DEF PickInv
  <2> QED
    BY <1>1, <1>2, <2>2, <2>4, <2>5, <2>6, <2>7, <2>8, <2>9 DEF PickInv
<1> QED
  BY <1>6, <1>7

(* A GET that answers shows its pod only if it is the newest.              *)
LEMMA AnswerPicks ==
    ASSUME PickInv, NEW g \in gets, NEW recreated, GetAnswered(g, recreated)
    PROVE  PickInv'
<1>0. gets' = gets \ {g} /\ UNCHANGED <<choices, selected, loadId, loadError>>
  BY DEF GetAnswered
<1>1. CASE g.id # loadId
  <2>1. UNCHANGED <<source, loading, pod, container, follow>>
    BY <1>1 DEF GetAnswered, stream, status
  <2>2. (\E h \in gets : h.id = loadId) <=> (\E h \in gets' : h.id = loadId)
    BY <1>0, <1>1
  <2>3. PickIsShown'
    BY <1>0, <2>1, <2>2 DEF PickInv, PickIsShown
  <2> QED
    BY <1>0, <2>1, <2>3 DEF PickInv
<1>2. CASE g.id = loadId
  <2>1. /\ ~loading' /\ loading' \in BOOLEAN /\ pod' = g.name
        /\ IF pod = None THEN generation < MaxStarts /\ Mount(g.name)
           ELSE IF g.name # pod \/ recreated
                THEN generation < MaxStarts /\ selectDefaultContainerAndRestart(g.name)
           ELSE UNCHANGED <<stream, container, follow>>
    BY <1>2 DEF GetAnswered
  <2>2. g.name = selected /\ g.name \in Pods /\ g.name # None
    BY <1>2, TabAssumption DEF PickInv, Get, TabAssumption
  <2>3. \A h \in gets' : h.id # loadId
    BY <1>0, <1>2 DEF PickInv
  <2>4. source' = <<g.name, container'>> /\ container' \in Containers /\ follow' \in BOOLEAN
    <3>1. CASE pod = None
      BY <2>1, <3>1, TabAssumption DEF Mount, start, TabAssumption
    <3>2. CASE pod # None /\ (g.name # pod \/ recreated)
      <4>1. follow \in BOOLEAN
        BY DEF PickInv
      <4> QED
        BY <2>1, <3>2, <4>1, TabAssumption
           DEF selectDefaultContainerAndRestart, start, TabAssumption
    <3>3. CASE pod # None /\ ~(g.name # pod \/ recreated)
      <4>1. UNCHANGED <<source, container, follow>> /\ g.name = pod
        BY <2>1, <3>3 DEF stream, status
      <4> QED
        BY <3>3, <4>1 DEF PickInv, PickIsShown
    <3> QED
      BY <3>1, <3>2, <3>3
  <2>5. PickIsShown'
    BY <1>0, <2>1, <2>2, <2>3, <2>4 DEF PickIsShown
  <2> QED
    BY <1>0, <2>1, <2>2, <2>3, <2>4, <2>5 DEF PickInv
<1> QED
  BY <1>1, <1>2

(* Every step keeps the pick.                                              *)
LEMMA PickStep ==
    ASSUME PickInv, [Next]_vars
    PROVE  PickInv'
<1>1. CASE StreamNext /\ UNCHANGED <<picker, tab>>
  <2>1. UNCHANGED <<source, choices, selected, gets, loadId, loading, loadError, pod,
                    container, follow>>
    BY <1>1, SourceKept DEF picker, tab
  <2> QED
    BY <2>1 DEF PickInv, PickIsShown
<1>2. ASSUME NEW c \in Containers, NEW f \in BOOLEAN, ChangeOptions(c, f) PROVE PickInv'
  <2>1. /\ UNCHANGED <<choices, selected, gets, loadId, loading, loadError, pod>>
        /\ container' = c /\ follow' = f /\ source' = <<pod, c>>
    BY <1>2 DEF ChangeOptions, start, picker
  <2> QED
    BY <2>1 DEF PickInv, PickIsShown
<1>3. CASE restart
  <2>1. /\ UNCHANGED <<choices, selected, gets, loadId, loading, loadError, pod, container,
                       follow>>
        /\ source' = <<pod, container>>
    BY <1>3 DEF restart, start, picker, tab
  <2> QED
    BY <2>1 DEF PickInv, PickIsShown
<1>4. ASSUME NEW cs \in SUBSET Pods, NewChoices(cs) PROVE PickInv'
  <2>1. /\ choices' \subseteq Pods /\ selected' \in Pods \cup {None}
        /\ loadPod(selected') /\ UNCHANGED <<container, follow>>
    BY <1>4 DEF NewChoices
  <2> QED
    BY <2>1, LoadPodPicks
<1>5. ASSUME NEW p \in Pods, pick(p) PROVE PickInv'
  <2>1. /\ choices' \subseteq Pods /\ selected' \in Pods \cup {None}
        /\ loadPod(selected') /\ UNCHANGED <<container, follow>>
    BY <1>5 DEF pick, PickInv
  <2> QED
    BY <2>1, LoadPodPicks
<1>6. ASSUME NEW g \in gets, NEW recreated \in BOOLEAN, GetAnswered(g, recreated) PROVE PickInv'
  BY <1>6, AnswerPicks
<1>7. ASSUME NEW g \in gets, GetFailed(g) PROVE PickInv'
  <2>1. /\ gets' = gets \ {g} /\ UNCHANGED <<source, choices, selected, loadId, pod,
                                            container, follow>>
    BY <1>7 DEF GetFailed, stream, status, tab
  <2>2. CASE g.id # loadId
    <3>1. UNCHANGED <<loading, loadError>>
      BY <1>7, <2>2 DEF GetFailed
    <3>2. (\E h \in gets : h.id = loadId) <=> (\E h \in gets' : h.id = loadId)
      BY <2>1, <2>2
    <3>3. PickIsShown'
      BY <2>1, <3>1, <3>2 DEF PickInv, PickIsShown
    <3> QED
      BY <2>1, <3>1, <3>3 DEF PickInv
  <2>3. CASE g.id = loadId
    <3>1. ~loading' /\ loadError' /\ loading' \in BOOLEAN /\ loadError' \in BOOLEAN
      BY <1>7, <2>3 DEF GetFailed
    <3>2. \A h \in gets' : h.id # loadId
      BY <2>1, <2>3 DEF PickInv
    <3>3. PickIsShown'
      BY <2>1, <3>1, <3>2 DEF PickInv, PickIsShown
    <3> QED
      BY <2>1, <3>1, <3>3 DEF PickInv
  <2> QED
    BY <2>2, <2>3
<1>8. CASE UNCHANGED vars
  <2>1. UNCHANGED <<source, choices, selected, gets, loadId, loading, loadError, pod,
                    container, follow>>
    BY <1>8 DEF vars, stream, status, picker, tab
  <2> QED
    BY <2>1 DEF PickInv, PickIsShown
<1> QED
  BY <1>1, <1>2, <1>3, <1>4, <1>5, <1>6, <1>7, <1>8 DEF Next

-----------------------------------------------------------------------------
(* The theorems.                                                           *)

(* A tab that has not been opened satisfies the invariant.                 *)
LEMMA LogsInitially ==
    ASSUME Init
    PROVE  LogsInv
<1>1. log \in Seq(Time) /\ Len(log) <= MaxLog
  <2>0. MaxLog \in Nat
    BY BoundsAre
  <2>1. log = [n \in 1..(MaxLog - 1) |-> 0] /\ 0 \in Time /\ MaxLog \in Nat
    BY BoundsAre DEF Init, StreamInit, Time
  <2>2. CASE MaxLog = 0
    <3>1. 1..(MaxLog - 1) = 1..0
      BY <2>2
    <3>2. log \in [1..0 -> Time]
      BY <2>1, <3>1
    <3>3. log \in Seq(Time) /\ Len(log) = 0
      BY <3>2
    <3> QED
      BY <2>2, <3>3
  <2>3. CASE MaxLog > 0
    <3>1. log \in [1..(MaxLog - 1) -> Time] /\ MaxLog - 1 \in Nat
      BY <2>1, <2>3
    <3>2. log \in Seq(Time) /\ Len(log) = MaxLog - 1
      BY <3>1
    <3> QED
      BY <2>0, <3>2
  <2> QED
    BY <2>0, <2>2, <2>3
<1>2. last \in Bookkeeping
  BY BoundsAre DEF Init, StreamInit, Bookkeeping, QueryOrNone
<1>3. lines \in Seq(Line) /\ pending \in Seq(Line) /\ Len(lines) = 0 /\ Len(pending) = 0
  BY DEF Init, StreamInit
<1>4. clock \in Time /\ generation \in 0..MaxStarts /\ arrived \in 0..MaxArrived
      /\ dropped \in Nat /\ Len(lines) <= MAX_LINES /\ Len(pending) <= MAX_LINES
  BY <1>3, BoundsAre DEF Init, StreamInit, Time
<1>5. /\ running \in BOOLEAN /\ error \in BOOLEAN /\ reconnecting \in BOOLEAN
      /\ truncated \in BOOLEAN /\ query \in QueryOrNone /\ debounced \in QueryOrNone
      /\ source \in Sources \cup {None} /\ lastLineAt \in Time \cup {None}
      /\ lastLineAt = None /\ reads \subseteq Loop
  BY DEF Init, StreamInit, QueryOrNone
<1>6. StreamOK
  BY <1>1, <1>2, <1>3, <1>4, <1>5 DEF StreamOK
<1>7. RunInv
  BY DEF Init, StreamInit, RunInv
<1>8. BufferInv
  <2>1. 1..Len(lines) = {} /\ 1..Len(pending) = {} /\ ~(Len(pending) > 0)
    BY <1>3
  <2>2. arrived = 0 /\ dropped = 0 /\ timer = None
    BY DEF Init, StreamInit
  <2>3. 0 \in 0..arrived /\ arrived - Len(pending) = 0
        /\ arrived = Len(lines) + Len(pending) /\ arrived = Len(pending)
        /\ dropped + Len(lines) + Len(pending) <= arrived
    BY <1>3, <2>2
  <2>4. Unbroken(lines, pending, arrived, truncated, running)
    BY <2>1, <2>3 DEF Unbroken
  <2> QED
    BY <2>1, <2>2, <2>3, <2>4 DEF BufferInv
<1>9. SearchInv
  BY <1>3 DEF Init, StreamInit, SearchInv
<1>10. PickInv
  <2>1. /\ choices = {} /\ selected = None /\ pod = None /\ gets = {} /\ loadId = 0
        /\ ~loading /\ loading \in BOOLEAN /\ loadError \in BOOLEAN /\ follow \in BOOLEAN
        /\ container = DefaultContainer
    BY Zenon DEF Init
  <2>2. 0 \in 0..MaxGets /\ DefaultContainer \in Containers
    BY TabAssumption DEF TabAssumption
  <2> QED
    BY <2>1, <2>2 DEF PickInv, PickIsShown
<1> QED
  BY <1>6, <1>7, <1>8, <1>9, <1>10 DEF LogsInv

(* No step breaks it.                                                      *)
LEMMA LogsStep ==
    ASSUME LogsInv, [Next]_vars
    PROVE  LogsInv'
<1>1. StreamOK /\ RunInv /\ BufferInv /\ SearchInv /\ PickInv
  BY DEF LogsInv
<1>2. StreamMove
  BY <1>1, EveryMove
<1>3. StreamOK' /\ RunInv' /\ BufferInv' /\ SearchInv'
  BY <1>1, <1>2, TypesStep, RunStep, BufferStep, SearchStep
<1>4. PickInv'
  BY <1>1, PickStep
<1> QED
  BY <1>3, <1>4 DEF LogsInv

(* The invariant of the Logs tab.                                          *)
THEOREM LogsHold == Spec => []LogsInv
<1>1. Init => LogsInv
  BY LogsInitially
<1>2. LogsInv /\ [Next]_vars => LogsInv'
  BY LogsStep
<1> QED
  BY <1>1, <1>2, PTL DEF Spec

(* What the invariant says of the streaming badge: it is on exactly while  *)
(* a loop of the current generation lives (start and its finally in        *)
(* useLogsStream).                                                         *)
THEOREM RunningIsTruthful == Spec => []RunningTruthful
<1>1. LogsInv => RunningTruthful
  BY DEF LogsInv, RunInv, RunningTruthful, stale
<1> QED
  BY <1>1, LogsHold, PTL

(* The pod shown is the one picked, whatever order the GETs of loadPod     *)
(* answer in.                                                              *)
THEOREM PickAlwaysShown == Spec => []PickIsShown
<1>1. LogsInv => PickIsShown
  BY DEF LogsInv, PickInv
<1> QED
  BY <1>1, LogsHold, PTL

(* The hits useLogSearch keeps, read through LogViewer's rows.             *)
LEMMA HitsFollow ==
    ASSUME LogsInv
    PROVE  HitsShown
<1>1. lines \in Seq(Line) /\ SearchInv
  BY DEF LogsInv, StreamOK
<1>2. matches = IF debounced = None THEN <<>> ELSE scanLines(lines, debounced, 0)
  <2>1. CASE debounced = None
    BY <1>1, <2>1 DEF SearchInv
  <2>2. CASE debounced # None
    <3>1. Ascending(matches, Hits(lines, debounced, 0))
      BY <1>1, <2>2 DEF SearchInv
    <3>2. Ascending(scanLines(lines, debounced, 0), Hits(lines, debounced, 0))
      BY <1>1, ScanAscending
    <3>3. matches = scanLines(lines, debounced, 0)
      BY <3>1, <3>2, AscendingUnique
    <3> QED
      BY <2>2, <3>3
  <2> QED
    BY <2>1, <2>2
<1>3. active # None => active \in 1..Len(matches)
  BY <1>1 DEF SearchInv
<1>4. SearchExact
  BY <1>2, <1>3 DEF SearchExact
<1>5. ASSUME active # None, NEW filter \in BOOLEAN
      PROVE  /\ jumpRow(filter) \in 1..count(filter)
             /\ lineIndexOf(filter, jumpRow(filter)) = activeLine
  <2>1. debounced # None
    <3> SUFFICES ASSUME debounced = None PROVE FALSE
      OBVIOUS
    <3>1. matches = <<>>
      BY <1>1 DEF SearchInv
    <3>2. active \in 1..Len(matches)
      BY <1>3, <1>5
    <3> QED
      BY <3>1, <3>2
  <2>2. \A i \in 1..Len(matches) : matches[i] \in 1..Len(lines)
    BY <1>1, <2>1 DEF SearchInv, Ascending, Hits
  <2>3. matches[active] \in 1..Len(lines)
    BY <1>3, <1>5, <2>2
  <2>4. CASE filter
    BY <1>3, <1>5, <2>1, <2>4 DEF jumpRow, filtering, count, lineIndexOf, activeLine
  <2>5. CASE ~filter
    BY <1>5, <2>3, <2>5 DEF jumpRow, filtering, count, lineIndexOf, activeLine
  <2> QED
    BY <2>4, <2>5
<1> QED
  BY <1>4, <1>5 DEF HitsShown

(* The incremental rescan of useLogSearch agrees with a scan of the whole  *)
(* buffer, and the row a jump centres in LogViewer is the selected hit.    *)
THEOREM HitsAlwaysShown == Spec => []HitsShown
<1>1. LogsInv => HitsShown
  BY HitsFollow
<1> QED
  BY <1>1, LogsHold, PTL

(* The tail, read off the invariant: what the next flush will show is      *)
(* what FlushUnbroken says of it.                                          *)
LEMMA TailFollows ==
    ASSUME LogsInv
    PROVE  TailIntact
<1> DEFINE both == lines \o pending
           all == trim(both)
<1>0. /\ lines \in Seq(Line) /\ pending \in Seq(Line) /\ arrived \in Nat
      /\ Len(lines) \in Nat /\ Len(pending) \in Nat /\ Len(lines) <= MAX_LINES
      /\ generation # None
  <2>1. /\ lines \in Seq(Line) /\ pending \in Seq(Line) /\ arrived \in 0..MaxArrived
        /\ Len(lines) <= MAX_LINES /\ generation \in 0..MaxStarts
    BY DEF LogsInv, StreamOK
  <2>2. generation \in Int /\ arrived \in Nat
    BY <2>1, BoundsAre
  <2>3. None \notin Int
    BY LogsAssumption DEF LogsAssumption
  <2> QED
    BY <2>1, <2>2, <2>3
<1>1. BufferInv
  BY DEF LogsInv
<1>2. Unbroken(lines, pending, arrived, truncated, running)
  BY <1>1 DEF BufferInv
<1>3. /\ both \in Seq(Line) /\ Len(both) = Len(lines) + Len(pending)
      /\ \A i \in 1..Len(both) : both[i] = IF i <= Len(lines) THEN lines[i]
                                          ELSE pending[i - Len(lines)]
  BY <1>0, ConcatIs
<1>4. ~running => Len(pending) = 0
  <2>1. Len(pending) > 0 => timer = generation /\ timer # None
    BY <1>0, <1>1 DEF BufferInv
  <2>2. Len(pending) > 0 => running
    BY <1>1, <2>1 DEF BufferInv
  <2> QED
    BY <1>0, <2>2
<1> HIDE DEF both
<1>5. /\ all \in Seq(Line) /\ Len(all) \in Nat /\ Cut(both) \in Nat
      /\ Len(both) = Len(all) + Cut(both)
      /\ \A i \in 1..Len(all) : all[i] = both[i + Cut(both)]
      /\ Len(both) <= MAX_LINES => all = both
  BY <1>3, TrimIs
<1>6. \E b \in 0..arrived : \A i \in 1..Len(lines) : lines[i].k = b - Len(lines) + i
  BY <1>2 DEF Unbroken
<1>7. Consecutive(lines)
  <2>1. PICK b \in 0..arrived : \A i \in 1..Len(lines) : lines[i].k = b - Len(lines) + i
    BY <1>6
  <2> SUFFICES ASSUME NEW i \in 1..(Len(lines) - 1) PROVE lines[i + 1].k = lines[i].k + 1
    BY DEF Consecutive
  <2>2. i \in 1..Len(lines) /\ i + 1 \in 1..Len(lines)
    BY <1>0
  <2>3. lines[i].k = b - Len(lines) + i /\ lines[i + 1].k = b - Len(lines) + (i + 1)
    BY <2>1, <2>2
  <2>4. b - Len(lines) + (i + 1) = (b - Len(lines) + i) + 1
    BY <1>0
  <2> QED
    BY <2>3, <2>4
<1>8. ASSUME running
      PROVE  Consecutive(all) /\ (arrived > 0 => all # <<>> /\ all[Len(all)].k = arrived)
  <2> DEFINE none == <<>>
             more == truncated \/ Len(both) > MAX_LINES
  <2>0. none \in Seq(Line) /\ Len(none) = 0
    OBVIOUS
  <2> HIDE DEF none
  <2>1. ~more => ~truncated /\ Len(both) <= MAX_LINES
    <3>1. ~(Len(both) > MAX_LINES) => Len(both) <= MAX_LINES
      BY <1>0, <1>3, BoundsAre
    <3> QED
      BY <3>1, Zenon
  <2> HIDE DEF more
  <2>2. Unbroken(all, none, arrived, more, running)
    BY <1>0, <1>2, <1>8, <2>0, <2>1, FlushUnbroken DEF both
  <2> HIDE DEF all
  <2>3. \A i \in 1..Len(all) : all[i].k = arrived - Len(all) + i
    <3>1. PICK b \in 0..arrived :
             /\ \A i \in 1..Len(all) : all[i].k = b - Len(all) + i
             /\ Len(none) < MAX_LINES => b = arrived - Len(none)
      BY <1>8, <2>2 DEF Unbroken
    <3>2. b = arrived
      BY <1>0, <2>0, <3>1, BoundsAre
    <3> QED
      BY <3>1, <3>2
  <2>4. Len(all) = 0 => arrived = 0
    <3>1. Len(all) = 0 /\ Len(none) < MAX_LINES => arrived = Len(none)
      BY <1>8, <2>2 DEF Unbroken
    <3> QED
      BY <2>0, <3>1, BoundsAre
  <2>5. Consecutive(all)
    <3> SUFFICES ASSUME NEW i \in 1..(Len(all) - 1) PROVE all[i + 1].k = all[i].k + 1
      BY DEF Consecutive
    <3>1. i \in 1..Len(all) /\ i + 1 \in 1..Len(all)
      BY <1>5
    <3>2. all[i].k = arrived - Len(all) + i /\ all[i + 1].k = arrived - Len(all) + (i + 1)
      BY <2>3, <3>1
    <3>3. arrived - Len(all) + (i + 1) = (arrived - Len(all) + i) + 1
      BY <1>0, <1>5
    <3> QED
      BY <3>2, <3>3
  <2>6. arrived > 0 => all # <<>> /\ all[Len(all)].k = arrived
    <3> SUFFICES ASSUME arrived > 0 PROVE all # <<>> /\ all[Len(all)].k = arrived
      OBVIOUS
    <3>1. Len(all) \in 1..Len(all)
      BY <1>0, <1>5, <2>4
    <3>2. all[Len(all)].k = arrived - Len(all) + Len(all)
      BY <2>3, <3>1
    <3>3. arrived - Len(all) + Len(all) = arrived
      BY <1>0, <1>5
    <3>4. all # <<>>
      BY <3>1
    <3> QED
      BY <3>2, <3>3, <3>4
  <2> QED
    BY <2>5, <2>6
<1>9. ASSUME ~running PROVE Consecutive(all)
  <2>1. Len(pending) = 0 /\ Len(both) = Len(lines) /\ Len(both) <= MAX_LINES
    BY <1>0, <1>3, <1>4, <1>9
  <2>2. all = both
    BY <1>5, <2>1
  <2>3. both = lines
    <3>1. \A i \in 1..Len(lines) : both[i] = lines[i]
      BY <1>0, <1>3, <2>1
    <3> QED
      BY <1>0, <1>3, <2>1, <3>1
  <2> QED
    BY <1>7, <1>9, <2>2, <2>3
<1>10. Consecutive(all) /\ (running /\ arrived > 0 => all # <<>> /\ all[Len(all)].k = arrived)
  BY <1>8, <1>9
<1>11. ASSUME ~truncated, NEW i \in 1..Len(both) PROVE both[i].k = i
  <2>1. CASE i <= Len(lines)
    BY <1>2, <1>3, <1>11, <2>1 DEF Unbroken
  <2>2. CASE i > Len(lines)
    <3>1. i - Len(lines) \in 1..Len(pending) /\ ~(i <= Len(lines))
      BY <1>0, <1>3, <2>2
    <3>2. both[i] = pending[i - Len(lines)]
      BY <1>3, <3>1
    <3>3. pending[i - Len(lines)].k = arrived - Len(pending) + (i - Len(lines))
      BY <1>2, <3>1 DEF Unbroken
    <3>4. running
      BY <1>4, <3>1
    <3>5. arrived = Len(lines) + Len(pending)
      BY <1>2, <1>11, <3>4 DEF Unbroken
    <3>6. arrived - Len(pending) + (i - Len(lines)) = i
      BY <1>0, <3>5
    <3> QED
      BY <3>2, <3>3, <3>6
  <2> QED
    BY <1>0, <1>3, <2>1, <2>2
<1>12. \A i \in 1..Len(both) : both[i].src = source
  <2> SUFFICES ASSUME NEW i \in 1..Len(both) PROVE both[i].src = source
    OBVIOUS
  <2>1. CASE i <= Len(lines)
    BY <1>1, <1>3, <2>1 DEF BufferInv
  <2>2. CASE i > Len(lines)
    <3>1. i - Len(lines) \in 1..Len(pending) /\ ~(i <= Len(lines))
      BY <1>0, <1>3, <2>2
    <3> QED
      BY <1>1, <1>3, <3>1 DEF BufferInv
  <2> QED
    BY <1>0, <1>3, <2>1, <2>2
<1>13. \A i \in 1..Len(all) : all[i].src = source
  <2> SUFFICES ASSUME NEW i \in 1..Len(all) PROVE all[i].src = source
    OBVIOUS
  <2> HIDE DEF all
  <2>1. i + Cut(both) \in 1..Len(both)
    BY <1>5
  <2> QED
    BY <1>5, <1>12, <2>1
<1>14. pending # <<>> => timer = generation
  <2>1. pending # <<>> => Len(pending) > 0
    BY <1>0
  <2> QED
    BY <1>1, <2>1 DEF BufferInv
<1> QED
  BY <1>7, <1>10, <1>11, <1>13, <1>14 DEF TailIntact, both

(* What useLogsStream stages, trims and flushes is, at every moment and    *)
(* for any buffer size, the unbroken tail of what the stream received.     *)
THEOREM TailAlwaysIntact == Spec => []TailIntact
<1>1. LogsInv => TailIntact
  BY TailFollows
<1> QED
  BY <1>1, LogsHold, PTL

(* A step that changes the buffer of a stream is a flush of staged lines.  *)
LEMMA SelectionStep ==
    ASSUME LogsInv, [Next]_vars
    PROVE  [(/\ active # None /\ generation' = generation
             /\ lines' # lines /\ active' # None) => SelectedLine' = SelectedLine]_stream
<1>0. StreamOK /\ RunInv /\ BufferInv /\ SearchInv /\ PickInv
  BY DEF LogsInv
<1>1. StreamMove
  BY <1>0, EveryMove
<1> SUFFICES ASSUME active # None, generation' = generation, lines' # lines, active' # None
             PROVE  lines'[matches'[active']] = lines[matches[active]]
  BY DEF SelectedLine
<1>2. ASSUME NEW p \in Seq(Line), NEW cut, flush(p, cut)
      PROVE  lines'[matches'[active']] = lines[matches[active]]
  BY <1>0, <1>2, FlushSearch
<1>3. pending \in Seq(Line)
  BY <1>0 DEF StreamOK
<1>4. CASE FlushTimer
  BY <1>2, <1>3, <1>4 DEF FlushTimer
<1>5. CASE Searching \/ Write \/ Tick \/ UNCHANGED stream
  BY <1>5 DEF Searching, Typed, move, Debounced, clear, Write, Tick, stream, buffer
<1>6. ASSUME NEW r \in reads,
             Superseded(r) \/ Connected(r) \/ Retry(r) \/ \E n \in 1..2 : Received(r, n)
      PROVE  FALSE
  BY <1>6 DEF Superseded, Connected, Retry, Received, buffer
<1>7. ASSUME NEW r \in reads,
             NoBody(r) \/ Dropped(r) \/ \E fatal \in BOOLEAN : Failed(r, fatal)
      PROVE  lines'[matches'[active']] = lines[matches[active]]
  BY <1>2, <1>3, <1>7 DEF NoBody, Dropped, Failed, finish
<1>8. ASSUME NEW r \in reads, NEW n \in 0..1, Ended(r, n)
      PROVE  lines'[matches'[active']] = lines[matches[active]]
  <2>1. Chunk(r, n) \in Seq(Line)
    BY <1>0, <1>8, ChunkIs DEF Ended
  <2>2. pending \o Chunk(r, n) \in Seq(Line)
    BY <1>3, <2>1, ConcatIs
  <2>3. trim(pending \o Chunk(r, n)) \in Seq(Line)
    BY <2>2, TrimIs
  <2> QED
    BY <1>2, <1>8, <2>3 DEF Ended, finish
<1>9. ASSUME Stops \/ Restarts PROVE FALSE
  <2>1. generation' = generation + 1
    BY <1>9 DEF Stops, stop, Restarts, start
  <2>2. generation \in Nat
    BY <1>0, BoundsAre DEF StreamOK
  <2> QED
    BY <2>1, <2>2
<1> QED
  BY <1>1, <1>4, <1>5, <1>6, <1>7, <1>8, <1>9 DEF StreamMove, StreamNext, Reading

(* However many lines a flush drops from the head, useLogSearch keeps the  *)
(* selection on the line it was on or gives it up.                         *)
THEOREM SelectionAlwaysSticks == Spec => SelectionSticks
<1>1. LogsInv /\ [Next]_vars =>
        [(/\ active # None /\ generation' = generation
          /\ lines' # lines /\ active' # None) => SelectedLine' = SelectedLine]_stream
  BY SelectionStep
<1> QED
  BY <1>1, LogsHold, PTL DEF Spec, SelectionSticks

(* An ascending sequence of positive numbers is no longer than its bound.  *)
LEMMA AscendingBounded ==
    ASSUME NEW s, NEW set, NEW m \in Nat, Ascending(s, set), set \subseteq 1..m
    PROVE  s \in Seq(1..m) /\ Len(s) <= m
<1> DEFINE S == {n \in Nat : n \in 1..Len(s) => s[n] >= n}
<1>1. /\ s \in Seq(Nat) /\ Len(s) \in Nat
      /\ \A i, j \in 1..Len(s) : i < j => s[i] < s[j]
      /\ \A i \in 1..Len(s) : s[i] \in 1..m
  BY DEF Ascending
<1>2. 0 \in S
  OBVIOUS
<1>3. ASSUME NEW n \in Nat, n \in S PROVE n + 1 \in S
  <2> SUFFICES ASSUME n + 1 \in 1..Len(s) PROVE s[n + 1] >= n + 1
    OBVIOUS
  <2>1. s[n + 1] \in Nat /\ s[n + 1] >= 1
    BY <1>1
  <2>2. CASE n = 0
    BY <2>1, <2>2
  <2>3. CASE n > 0
    <3>1. n \in 1..Len(s) /\ n < n + 1
      BY <1>1, <2>3
    <3>2. s[n] >= n /\ s[n] \in Nat /\ s[n] < s[n + 1]
      BY <1>1, <1>3, <3>1
    <3> QED
      BY <2>1, <3>2
  <2> QED
    BY <2>2, <2>3
<1>4. Nat \subseteq S
  <2> HIDE DEF S
  <2> QED
    BY <1>2, <1>3, NatInductionOnSets
<1>5. Len(s) <= m
  <2>1. CASE Len(s) = 0
    BY <2>1
  <2>2. CASE Len(s) > 0
    <3>1. Len(s) \in 1..Len(s) /\ Len(s) \in S
      BY <1>1, <1>4, <2>2
    <3>2. s[Len(s)] >= Len(s) /\ s[Len(s)] \in 1..m
      BY <1>1, <3>1
    <3> QED
      BY <1>1, <3>2
  <2> QED
    BY <1>1, <2>1, <2>2
<1> HIDE DEF S
<1> QED
  BY <1>1, <1>5

(* The types, read off the invariant.                                      *)
LEMMA TypesFollow ==
    ASSUME LogsInv
    PROVE  TabTypeOK
<1>1. StreamOK /\ RunInv /\ BufferInv /\ SearchInv /\ PickInv
  BY DEF LogsInv
<1>2. dropped \in 0..MaxArrived
  <2>1. /\ dropped \in Nat /\ Len(lines) \in Nat /\ Len(pending) \in Nat
        /\ arrived \in 0..MaxArrived
    BY <1>1 DEF StreamOK
  <2>2. dropped + Len(lines) + Len(pending) <= arrived
    BY <1>1 DEF BufferInv
  <2> QED
    BY <2>1, <2>2, BoundsAre
<1>3. timer \in 1..MaxStarts \cup {None}
  <2> SUFFICES ASSUME timer # None PROVE timer \in 1..MaxStarts
    OBVIOUS
  <2>1. timer = generation /\ running
    BY <1>1 DEF BufferInv
  <2>2. PICK r \in reads : r.gen = generation
    BY <1>1, <2>1 DEF RunInv
  <2> QED
    BY <1>1, <2>1, <2>2 DEF StreamOK, Loop
<1>4. matches \in Seq(1..MAX_LINES) /\ Len(matches) \in 0..MAX_LINES
  <2>1. CASE debounced = None
    <3>1. matches = <<>>
      BY <1>1, <2>1 DEF SearchInv
    <3> QED
      BY <3>1, BoundsAre
  <2>2. CASE debounced # None
    <3>1. Ascending(matches, Hits(lines, debounced, 0))
      BY <1>1, <2>2 DEF SearchInv
    <3>2. Len(lines) \in Nat /\ Len(lines) <= MAX_LINES /\ MAX_LINES \in Nat
      BY <1>1, BoundsAre DEF StreamOK
    <3>3. Hits(lines, debounced, 0) \subseteq 1..MAX_LINES
      BY <3>2 DEF Hits
    <3>4. matches \in Seq(1..MAX_LINES) /\ Len(matches) <= MAX_LINES
      BY <3>1, <3>2, <3>3, AscendingBounded
    <3> QED
      BY <3>2, <3>4
  <2> QED
    BY <2>1, <2>2
<1>5. active \in 1..MAX_LINES \cup {None}
  <2>1. active # None => active \in 1..Len(matches)
    BY <1>1 DEF SearchInv
  <2>2. Len(matches) \in 0..MAX_LINES
    BY <1>4
  <2> QED
    BY <2>1, <2>2, BoundsAre
<1>6. {query, debounced, last.query} \subseteq QueryOrNone
  BY <1>1 DEF StreamOK, SearchInv
<1>7. {running, error, reconnecting, truncated} \subseteq BOOLEAN
  BY <1>1, Zenon DEF StreamOK
<1>8. TypeOK
  BY <1>1, <1>2, <1>3, <1>4, <1>5, <1>6, <1>7 DEF StreamOK, TypeOK
<1>9. {loading, loadError, follow} \subseteq BOOLEAN
  BY <1>1, Zenon DEF PickInv
<1> QED
  BY <1>1, <1>8, <1>9 DEF PickInv, TabTypeOK

(* The types of the Logs tab.                                              *)
THEOREM LogsTypeCorrect == Spec => []TabTypeOK
<1>1. LogsInv => TabTypeOK
  BY TypesFollow
<1> QED
  BY <1>1, LogsHold, PTL
===============================================================================
