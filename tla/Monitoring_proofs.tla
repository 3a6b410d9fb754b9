--------------------------- MODULE Monitoring_proofs ---------------------------
(***************************************************************************)
(* Proofs about Monitoring, for every set of devices, workers and consoles  *)
(* and every capacity.                                                      *)
(***************************************************************************)
EXTENDS Monitoring, SequenceTheorems, WellFoundedInduction, TLAPS

-------------------------------------------------------------
(* Induction over the naturals, on a set of them.                           *)

LEMMA SetInduction ==
  ASSUME NEW S, 0 \in S, \A n \in Nat : n \in S => n + 1 \in S
  PROVE  Nat \subseteq S
<1> DEFINE T == Nat \ S
<1>1. SUFFICES ASSUME T # {} PROVE FALSE
  OBVIOUS
<1>2. PICK x \in T : \A y \in T : ~ (<<y, x>> \in OpToRel(<, Nat))
  <2>1. T \subseteq Nat
    OBVIOUS
  <2> HIDE DEF T
  <2> QED
    BY <1>1, <2>1, WFMin, NatLessThanWellFounded
<1>3. x \in Nat /\ x # 0 /\ x \notin S
  OBVIOUS
<1>4. x - 1 \in Nat /\ x - 1 < x /\ (x - 1) + 1 = x
  BY <1>3
<1>5. x - 1 \in T
  BY <1>3, <1>4
<1>6. <<x - 1, x>> \in OpToRel(<, Nat)
  BY <1>3, <1>4 DEF OpToRel
<1> QED
  BY <1>2, <1>5, <1>6

\* A set of naturals that is not empty has a least element.
LEMMA MinFacts ==
  ASSUME NEW S, S \subseteq Nat, S # {}
  PROVE  Min(S) \in S /\ \A x \in S : Min(S) <= x
<1>1. PICK x \in S : \A y \in S : ~ (<<y, x>> \in OpToRel(<, Nat))
  BY WFMin, NatLessThanWellFounded
<1>2. \A y \in S : x <= y
  <2> SUFFICES ASSUME NEW y \in S, ~(x <= y) PROVE FALSE
    OBVIOUS
  <2>1. x \in Nat /\ y \in Nat /\ y < x
    OBVIOUS
  <2>2. <<y, x>> \in OpToRel(<, Nat)
    BY <2>1 DEF OpToRel
  <2> QED
    BY <1>1, <2>2
<1> QED
  BY <1>2 DEF Min
-----------------------------------------------------------------------------
(* The alerts of a sequence of events.                                      *)

\* One step of the recursion in AlertsUpTo.
AlertsStep(s, f, n) ==
  IF n = 0 THEN <<>> ELSE IF IsAlert(s[n]) THEN Append(f[n - 1], s[n]) ELSE f[n - 1]

\* The recursion has a solution for every sequence.
LEMMA AlertsExist ==
  ASSUME NEW R, NEW s \in Seq(R)
  PROVE  \E f \in [0..Len(s) -> Seq(R)] : \A n \in 0..Len(s) : f[n] = AlertsStep(s, f, n)
<1> DEFINE G == {m \in Nat : m <= Len(s) =>
                   \E f \in [0..m -> Seq(R)] : \A n \in 0..m : f[n] = AlertsStep(s, f, n)}
<1>1. 0 \in G
  <2>1. [n \in 0..0 |-> <<>>] \in [0..0 -> Seq(R)]
    OBVIOUS
  <2>2. \A n \in 0..0 : [m \in 0..0 |-> <<>>][n] = AlertsStep(s, [m \in 0..0 |-> <<>>], n)
    BY DEF AlertsStep
  <2> QED
    BY <2>1, <2>2
<1>2. ASSUME NEW m \in Nat, m \in G PROVE m + 1 \in G
  <2>0. m + 1 \in Nat
    OBVIOUS
  <2> SUFFICES ASSUME m + 1 <= Len(s)
               PROVE  \E f \in [0..m + 1 -> Seq(R)] :
                        \A n \in 0..m + 1 : f[n] = AlertsStep(s, f, n)
    BY <2>0
  <2>1. PICK h \in [0..m -> Seq(R)] : \A n \in 0..m : h[n] = AlertsStep(s, h, n)
    BY <1>2, Len(s) \in Nat
  <2> DEFINE new == AlertsStep(s, h, m + 1)
             f == [n \in 0..m + 1 |-> IF n = m + 1 THEN new ELSE h[n]]
  <2>2. h[m] \in Seq(R) /\ s[m + 1] \in R
    BY Len(s) \in Nat
  <2>3. new \in Seq(R)
    BY <2>2 DEF AlertsStep
  <2>4. f \in [0..m + 1 -> Seq(R)]
    <3> HIDE DEF new
    <3> QED
      BY <2>3
  <2>5. \A n \in 0..m : f[n] = h[n]
    OBVIOUS
  <2>6. f[m + 1] = new
    OBVIOUS
  <2>7. \A n \in 0..m + 1 : f[n] = AlertsStep(s, f, n)
    <3> HIDE DEF new, f
    <3> TAKE n \in 0..m + 1
    <3>1. CASE n = m + 1
      BY <3>1, <2>5, <2>6 DEF AlertsStep, new
    <3>2. CASE n \in 0..m
      <4>1. n = 0 \/ n - 1 \in 0..m
        BY <3>2
      <4> QED
        BY <2>1, <3>2, <4>1, <2>5 DEF AlertsStep
    <3> QED
      BY <3>1, <3>2
  <2> QED
    BY <2>4, <2>7
<1>3. Nat \subseteq G
  <2> HIDE DEF G
  <2> QED
    BY <1>1, <1>2, SetInduction
<1>4. Len(s) \in G
  BY <1>3, Len(s) \in Nat
<1> QED
  BY <1>4

\* AlertsUpTo satisfies its recursion.
LEMMA AlertsRecursion ==
  ASSUME NEW R, NEW s \in Seq(R)
  PROVE  \A n \in 0..Len(s) : AlertsUpTo(s)[n] = AlertsStep(s, AlertsUpTo(s), n)
<1> DEFINE F(f) == [n \in 0..Len(s) |->
                     IF n = 0 THEN <<>>
                     ELSE IF IsAlert(s[n]) THEN Append(f[n - 1], s[n]) ELSE f[n - 1]]
<1>1. PICK f \in [0..Len(s) -> Seq(R)] : \A n \in 0..Len(s) : f[n] = AlertsStep(s, f, n)
  BY AlertsExist
<1>2. f = F(f)
  BY <1>1 DEF AlertsStep
<1>3. AlertsUpTo(s) = F(AlertsUpTo(s))
  <2>1. AlertsUpTo(s) = CHOOSE g : g = F(g)
    BY DEF AlertsUpTo
  <2> HIDE DEF F
  <2> QED
    BY <1>2, <2>1
<1> QED
  BY <1>3 DEF AlertsStep

LEMMA AlertsCases ==
  ASSUME NEW R, NEW s \in Seq(R)
  PROVE  /\ AlertsUpTo(s)[0] = <<>>
         /\ \A n \in Nat :
              n + 1 <= Len(s) =>
                AlertsUpTo(s)[n + 1] = IF IsAlert(s[n + 1])
                                         THEN Append(AlertsUpTo(s)[n], s[n + 1])
                                         ELSE AlertsUpTo(s)[n]
<1> DEFINE U == AlertsUpTo(s)
<1>0. Len(s) \in Nat
  OBVIOUS
<1>1. \A n \in 0..Len(s) : U[n] = AlertsStep(s, U, n)
  BY AlertsRecursion
<1> HIDE DEF U
<1>2. U[0] = AlertsStep(s, U, 0)
  BY <1>0, <1>1
<1>3. U[0] = <<>>
  BY <1>2 DEF AlertsStep
<1>4. ASSUME NEW n \in Nat, n + 1 <= Len(s)
      PROVE  U[n + 1] = IF IsAlert(s[n + 1]) THEN Append(U[n], s[n + 1]) ELSE U[n]
  <2>1. n + 1 \in 0..Len(s) /\ (n + 1) - 1 = n /\ n + 1 # 0
    BY <1>0, <1>4
  <2>2. U[n + 1] = AlertsStep(s, U, n + 1)
    BY <1>1, <2>1
  <2> QED
    BY <2>1, <2>2 DEF AlertsStep
<1> QED
  BY <1>3, <1>4 DEF U

\* The alerts of a sequence are among its events.
LEMMA AlertsType ==
  ASSUME NEW R, NEW s \in Seq(R)
  PROVE  \A n \in 0..Len(s) : AlertsUpTo(s)[n] \in Seq(R)
<1> DEFINE U(n) == AlertsUpTo(s)[n]
           G == {n \in Nat : n <= Len(s) => U(n) \in Seq(R)}
<1>1. 0 \in G
  <2>1. U(0) = <<>>
    BY AlertsCases
  <2>2. <<>> \in Seq(R)
    OBVIOUS
  <2> HIDE DEF U
  <2> QED
    BY <2>1, <2>2
<1>2. ASSUME NEW n \in Nat, n \in G PROVE n + 1 \in G
  <2> SUFFICES ASSUME n + 1 <= Len(s) PROVE U(n + 1) \in Seq(R)
    OBVIOUS
  <2>1. n <= Len(s) /\ n + 1 \in 0..Len(s) /\ (n + 1) - 1 = n /\ n + 1 # 0
    BY Len(s) \in Nat
  <2>2. U(n) \in Seq(R) /\ s[n + 1] \in R
    BY <1>2, <2>1
  <2>3. U(n + 1) = IF IsAlert(s[n + 1]) THEN Append(U(n), s[n + 1]) ELSE U(n)
    BY <2>1, AlertsCases
  <2> HIDE DEF U
  <2>4. Append(U(n), s[n + 1]) \in Seq(R)
    BY <2>2, AppendProperties
  <2> QED
    BY <2>2, <2>3, <2>4
<1>3. Nat \subseteq G
  <2> HIDE DEF G
  <2> QED
    BY <1>1, <1>2, SetInduction
<1> QED
  BY <1>3

\* What comes after does not change what came before.
LEMMA AlertsAgree ==
  ASSUME NEW R, NEW s \in Seq(R), NEW t \in Seq(R), Len(s) <= Len(t),
         \A i \in 1..Len(s) : t[i] = s[i]
  PROVE  \A n \in 0..Len(s) : AlertsUpTo(t)[n] = AlertsUpTo(s)[n]
<1> DEFINE U(n) == AlertsUpTo(s)[n]
           V(n) == AlertsUpTo(t)[n]
           G == {n \in Nat : n <= Len(s) => V(n) = U(n)}
<1>1. 0 \in G
  BY AlertsCases
<1>2. ASSUME NEW n \in Nat, n \in G PROVE n + 1 \in G
  <2> SUFFICES ASSUME n + 1 <= Len(s) PROVE V(n + 1) = U(n + 1)
    OBVIOUS
  <2>1. n <= Len(s) /\ n + 1 \in 0..Len(s) /\ (n + 1) - 1 = n /\ n + 1 # 0
        /\ n + 1 \in 1..Len(s) /\ n + 1 \in 0..Len(t)
    BY Len(s) \in Nat, Len(t) \in Nat
  <2>2. V(n) = U(n) /\ t[n + 1] = s[n + 1]
    BY <1>2, <2>1
  <2>3. U(n + 1) = IF IsAlert(s[n + 1]) THEN Append(U(n), s[n + 1]) ELSE U(n)
    BY <2>1, AlertsCases
  <2>4. V(n + 1) = IF IsAlert(t[n + 1]) THEN Append(V(n), t[n + 1]) ELSE V(n)
    BY <2>1, AlertsCases
  <2> HIDE DEF U, V
  <2> QED
    BY <2>2, <2>3, <2>4
<1>3. Nat \subseteq G
  <2> HIDE DEF G
  <2> QED
    BY <1>1, <1>2, SetInduction
<1> QED
  BY <1>3

AppendsLast(s, t, e) == Append(s \o t, e) = s \o Append(t, e)

LEMMA AppendConcat ==
  ASSUME NEW R, NEW s \in Seq(R), NEW t \in Seq(R), NEW e \in R
  PROVE  AppendsLast(s, t, e)
<1>1. s \o t \in Seq(R) /\ <<e>> \in Seq(R)
  BY ConcatProperties
<1>2. Append(s \o t, e) = (s \o t) \o <<e>> /\ Append(t, e) = t \o <<e>>
  BY <1>1, AppendIsConcat
<1> QED
  BY <1>1, <1>2, ConcatAssociative DEF AppendsLast

\* The alerts of two sequences in a row.
LEMMA AlertsConcat ==
  ASSUME NEW R, NEW s \in Seq(R), NEW t \in Seq(R)
  PROVE  /\ Alerts(s) \in Seq(R)
         /\ Alerts(s \o t) = Alerts(s) \o Alerts(t)
<1> DEFINE x == s \o t
           k == Len(s)
           U(n) == AlertsUpTo(t)[n]
           V(n) == AlertsUpTo(x)[n]
           G == {n \in Nat : n <= Len(t) => V(k + n) = Alerts(s) \o U(n)}
<1>0. k \in Nat /\ Len(t) \in Nat /\ x \in Seq(R) /\ Len(x) = k + Len(t)
  OBVIOUS
<1>a. \A i \in 1..k : x[i] = s[i]
  OBVIOUS
<1>b. \A i \in 1..Len(t) : x[k + i] = t[i]
  OBVIOUS
<1>c. Alerts(s) \in Seq(R)
  BY <1>0, AlertsType DEF Alerts
<1> HIDE DEF x, k
<1>1. 0 \in G
  <2>1. k + 0 = k /\ k \in 0..Len(s) /\ Len(s) <= Len(x)
    BY <1>0 DEF k
  <2>2. V(k) = Alerts(s)
    <3>1. \A i \in 1..Len(s) : x[i] = s[i]
      BY <1>a DEF k
    <3>2. \A n \in 0..Len(s) : V(n) = AlertsUpTo(s)[n]
      BY <1>0, <2>1, <3>1, AlertsAgree
    <3> QED
      BY <3>2, <2>1 DEF Alerts, k
  <2>3. U(0) = <<>>
    BY <1>0, AlertsCases
  <2>4. Alerts(s) \o <<>> = Alerts(s)
    BY <1>c
  <2> QED
    BY <2>1, <2>2, <2>3, <2>4
<1>2. ASSUME NEW n \in Nat, n \in G PROVE n + 1 \in G
  <2> SUFFICES ASSUME n + 1 <= Len(t) PROVE V(k + (n + 1)) = Alerts(s) \o U(n + 1)
    OBVIOUS
  <2>1. n <= Len(t) /\ n + 1 \in 0..Len(t) /\ (n + 1) - 1 = n /\ n + 1 # 0
        /\ k + (n + 1) \in 0..Len(x) /\ (k + (n + 1)) - 1 = k + n /\ k + (n + 1) # 0
        /\ n + 1 \in 1..Len(t) /\ n \in 0..Len(t)
    BY <1>0
  <2>2. V(k + n) = Alerts(s) \o U(n) /\ x[k + (n + 1)] = t[n + 1] /\ t[n + 1] \in R
    BY <1>2, <2>1, <1>b
  <2>3. U(n) \in Seq(R)
    BY <2>1, AlertsType
  <2>4. U(n + 1) = IF IsAlert(t[n + 1]) THEN Append(U(n), t[n + 1]) ELSE U(n)
    BY <2>1, AlertsCases
  <2>5. V(k + (n + 1)) = IF IsAlert(x[k + (n + 1)]) THEN Append(V(k + n), x[k + (n + 1)])
                         ELSE V(k + n)
    <3> DEFINE m == k + n
    <3>1. m \in Nat /\ k + (n + 1) = m + 1 /\ m + 1 <= Len(x)
      BY <1>0
    <3> HIDE DEF m
    <3>2. V(m + 1) = IF IsAlert(x[m + 1]) THEN Append(V(m), x[m + 1]) ELSE V(m)
      BY <3>1, <1>0, AlertsCases
    <3> QED
      BY <3>1, <3>2 DEF m
  <2> HIDE DEF U, V
  <2>6. AppendsLast(Alerts(s), U(n), t[n + 1])
    BY <1>c, <2>2, <2>3, AppendConcat
  <2>7. CASE IsAlert(t[n + 1])
    <3>1. V(k + (n + 1)) = Append(Alerts(s) \o U(n), t[n + 1])
      BY ONLY <2>2, <2>5, <2>7
    <3>2. U(n + 1) = Append(U(n), t[n + 1])
      BY ONLY <2>4, <2>7
    <3> QED
      BY ONLY <2>6, <3>1, <3>2 DEF AppendsLast
  <2>8. CASE ~IsAlert(t[n + 1])
    BY ONLY <2>2, <2>4, <2>5, <2>8
  <2> QED
    BY <2>7, <2>8
<1>3. Nat \subseteq G
  <2> HIDE DEF G
  <2> QED
    BY <1>1, <1>2, SetInduction
<1>4. V(k + Len(t)) = Alerts(s) \o U(Len(t))
  BY <1>3, <1>0
<1> QED
  BY <1>4, <1>0, <1>c DEF Alerts, x

\* The alerts of no event and of one.
LEMMA AlertsSmall ==
  ASSUME NEW R, NEW e \in R
  PROVE  /\ Alerts(<<>>) = <<>>
         /\ Alerts(<<e>>) = IF IsAlert(e) THEN <<e>> ELSE <<>>
<1>1. Alerts(<<>>) = <<>>
  <2>1. <<>> \in Seq(R) /\ Len(<<>>) = 0
    OBVIOUS
  <2> QED
    BY <2>1, AlertsCases DEF Alerts
<1>2. Alerts(<<e>>) = IF IsAlert(e) THEN <<e>> ELSE <<>>
  <2>1. <<e>> \in Seq(R) /\ Len(<<e>>) = 1 /\ <<e>>[1] = e /\ Append(<<>>, e) = <<e>>
    OBVIOUS
  <2>2. AlertsUpTo(<<e>>)[0] = <<>>
    BY <2>1, AlertsCases
  <2>3. AlertsUpTo(<<e>>)[1] = IF IsAlert(e) THEN Append(<<>>, e) ELSE <<>>
    <3>1. 0 \in Nat /\ 0 + 1 = 1 /\ 0 + 1 <= Len(<<e>>)
      BY <2>1
    <3>2. AlertsUpTo(<<e>>)[0 + 1] = IF IsAlert(<<e>>[0 + 1])
                                       THEN Append(AlertsUpTo(<<e>>)[0], <<e>>[0 + 1])
                                       ELSE AlertsUpTo(<<e>>)[0]
      BY <2>1, <3>1, AlertsCases
    <3> QED
      BY <2>1, <2>2, <3>1, <3>2
  <2> QED
    BY <2>1, <2>3 DEF Alerts
<1> QED
  BY <1>1, <1>2

LEMMA AlertsAppend ==
  ASSUME NEW R, NEW s \in Seq(R), NEW e \in R
  PROVE  /\ IsAlert(e) => Alerts(Append(s, e)) = Append(Alerts(s), e)
         /\ ~IsAlert(e) => Alerts(Append(s, e)) = Alerts(s)
<1>1. <<e>> \in Seq(R)
  OBVIOUS
<1>2. Append(s, e) = s \o <<e>>
  BY AppendIsConcat
<1>3. Alerts(s) \in Seq(R) /\ Alerts(s \o <<e>>) = Alerts(s) \o Alerts(<<e>>)
  BY <1>1, AlertsConcat
<1>4. Alerts(<<e>>) = IF IsAlert(e) THEN <<e>> ELSE <<>>
  BY AlertsSmall
<1>5. Append(Alerts(s), e) = Alerts(s) \o <<e>> /\ Alerts(s) \o <<>> = Alerts(s)
  BY <1>3, AppendIsConcat, ConcatEmptySeq
<1> QED
  BY <1>2, <1>3, <1>4, <1>5

LEMMA AlertsHead ==
  ASSUME NEW R, NEW s \in Seq(R), s # <<>>
  PROVE  /\ IsAlert(Head(s)) => Alerts(s) = <<Head(s)>> \o Alerts(Tail(s))
         /\ ~IsAlert(Head(s)) => Alerts(s) = Alerts(Tail(s))
<1>1. Head(s) \in R /\ Tail(s) \in Seq(R) /\ <<Head(s)>> \in Seq(R)
  OBVIOUS
<1>2. s = <<Head(s)>> \o Tail(s)
  OBVIOUS
<1> DEFINE h == Head(s)
           t == Tail(s)
<1> HIDE DEF h, t
<1>3. Alerts(t) \in Seq(R) /\ Alerts(<<h>> \o t) = Alerts(<<h>>) \o Alerts(t)
  BY <1>1, AlertsConcat DEF h, t
<1>4. Alerts(<<h>>) = IF IsAlert(h) THEN <<h>> ELSE <<>>
  BY <1>1, AlertsSmall DEF h
<1>5. <<>> \o Alerts(t) = Alerts(t)
  BY <1>3, ConcatEmptySeq
<1>6. Alerts(s) = Alerts(<<h>>) \o Alerts(t)
  BY <1>2, <1>3 DEF h, t
<1> QED
  BY <1>4, <1>5, <1>6 DEF h, t

\* Removing what is no alert.
LEMMA AlertsRemove ==
  ASSUME NEW R, NEW s \in Seq(R), NEW i \in 1..Len(s), ~IsAlert(s[i])
  PROVE  /\ RemoveAt(s, i) \in Seq(R)
         /\ Len(RemoveAt(s, i)) = Len(s) - 1
         /\ Alerts(RemoveAt(s, i)) = Alerts(s)
<1> DEFINE a == SubSeq(s, 1, i - 1)
           b == SubSeq(s, i, Len(s))
           c == SubSeq(s, i + 1, Len(s))
           e == s[i]
<1>0. Len(s) \in Nat /\ i \in Nat /\ e \in R /\ <<e>> \in Seq(R)
  OBVIOUS
<1>1. a \in Seq(R) /\ b \in Seq(R) /\ c \in Seq(R)
  OBVIOUS
<1>2. Len(a) = i - 1 /\ Len(c) = Len(s) - i
  OBVIOUS
<1>3. s = a \o b
  <2>1. 1 \in 1..Len(s) + 1 /\ i - 1 \in 1 - 1..Len(s) /\ Len(s) \in i - 1..Len(s)
    BY <1>0
  <2>2. SubSeq(s, 1, i - 1) \o SubSeq(s, (i - 1) + 1, Len(s)) = SubSeq(s, 1, Len(s))
    BY <2>1, ConcatAdjacentSubSeq
  <2>3. (i - 1) + 1 = i /\ SubSeq(s, 1, Len(s)) = s
    BY <1>0, SubSeqFull
  <2> QED
    BY <2>2, <2>3
<1>4. b = <<e>> \o c
  BY <1>0, Len(s) \in i..Len(s), SubSeqRecursiveFirst
<1>5. RemoveAt(s, i) = a \o c
  BY DEF RemoveAt
<1>6. ~IsAlert(e)
  OBVIOUS
<1> HIDE DEF a, b, c, e
<1>7. /\ Alerts(a) \in Seq(R) /\ Alerts(c) \in Seq(R)
      /\ Alerts(a \o b) = Alerts(a) \o Alerts(b)
      /\ Alerts(a \o c) = Alerts(a) \o Alerts(c)
      /\ Alerts(<<e>> \o c) = Alerts(<<e>>) \o Alerts(c)
  BY <1>0, <1>1, AlertsConcat
<1>8. Alerts(<<e>>) = <<>>
  BY <1>0, <1>6, AlertsSmall
<1>9. <<>> \o Alerts(c) = Alerts(c)
  BY <1>7, ConcatEmptySeq
<1>10. Alerts(RemoveAt(s, i)) = Alerts(s)
  BY ONLY <1>3, <1>4, <1>5, <1>7, <1>8, <1>9
<1>11. a \o c \in Seq(R) /\ Len(a \o c) = Len(a) + Len(c)
  BY <1>1, ConcatProperties
<1> QED
  BY <1>0, <1>2, <1>5, <1>10, <1>11
-----------------------------------------------------------------------------
(* The buffer.                                                              *)

Events == {Telemetry, Pong} \cup AlertEvents

LEMMA EventFacts ==
  /\ ~IsAlert(Telemetry) /\ ~IsAlert(Pong)
  /\ ~Critical(Telemetry) /\ Critical(Pong)
  /\ \A e \in AlertEvents : IsAlert(e)
  /\ \A e : IsAlert(e) => Critical(e)
  BY DEF IsAlert, Critical, Telemetry, Pong, AlertEvents, Alert, Event

\* What Put displaces is no alert.
LEMMA OldestFacts ==
  ASSUME NEW R, NEW s \in Seq(R)
  PROVE  Oldest(s) = 0 \/ (Oldest(s) \in 1..Len(s) /\ ~IsAlert(s[Oldest(s)]))
<1> DEFINE I == {i \in 1..Len(s) : ~Critical(s[i])}
<1>1. Oldest(s) = IF I # {} THEN Min(I) ELSE 0
  BY DEF Oldest, SelectInSeq
<1>2. CASE I = {}
  BY <1>1, <1>2
<1>3. CASE I # {}
  <2>1. I \subseteq Nat
    BY Len(s) \in Nat
  <2> HIDE DEF I
  <2>2. Min(I) \in I
    BY <1>3, <2>1, MinFacts
  <2>3. Oldest(s) \in I
    BY <1>1, <1>3, <2>2
  <2> QED
    BY <2>3, EventFacts DEF I
<1> QED
  BY <1>2, <1>3

\* BoundedClientBuffer.put keeps the capacity and loses no alert.
LEMMA PutFacts ==
  ASSUME NEW R, NEW s \in Seq(R), NEW e \in R, Len(s) <= Capacity
  PROVE  /\ Put(s, e) \in Seq(R)
         /\ Len(Put(s, e)) <= Capacity
         /\ IsAlert(e) /\ ~Refuses(s, e) => Alerts(Put(s, e)) = Append(Alerts(s), e)
         /\ ~IsAlert(e) => Alerts(Put(s, e)) = Alerts(s)
<1>0. Len(s) \in Nat /\ Capacity \in Nat \ {0}
  BY CapacityAssumption
<1>1. CASE Refuses(s, e)
  BY <1>1 DEF Put
<1>2. CASE ~Refuses(s, e) /\ Len(s) < Capacity
  <2>1. Put(s, e) = Append(s, e)
    BY <1>0, <1>2 DEF Put
  <2>2. Append(s, e) \in Seq(R) /\ Len(Append(s, e)) = Len(s) + 1
    BY AppendProperties
  <2> QED
    BY <1>0, <1>2, <2>1, <2>2, AlertsAppend
<1>3. CASE ~Refuses(s, e) /\ Len(s) >= Capacity
  <2> DEFINE i == Oldest(s)
             t == RemoveAt(s, i)
  <2>1. i # 0
    BY <1>3 DEF Refuses
  <2>2. i \in 1..Len(s) /\ ~IsAlert(s[i])
    BY <2>1, OldestFacts
  <2>3. Put(s, e) = Append(t, e)
    BY <1>3 DEF Put
  <2> HIDE DEF i
  <2>4. t \in Seq(R) /\ Len(t) = Len(s) - 1 /\ Alerts(t) = Alerts(s)
    BY <2>2, AlertsRemove
  <2> HIDE DEF t
  <2>5. Append(t, e) \in Seq(R) /\ Len(Append(t, e)) = Len(t) + 1
    BY <2>4, AppendProperties
  <2>6. /\ IsAlert(e) => Alerts(Append(t, e)) = Append(Alerts(t), e)
        /\ ~IsAlert(e) => Alerts(Append(t, e)) = Alerts(t)
    BY <2>4, AlertsAppend
  <2> QED
    BY <1>0, <2>3, <2>4, <2>5, <2>6
<1> QED
  BY <1>0, <1>1, <1>2, <1>3
-----------------------------------------------------------------------------
(* What is on its way to a console: its buffer and, behind it, its channel. *)

OnItsWay(b, c) == Alerts(b \o c)

Regroups(s, t, u) == (s \o t) \o u = s \o (t \o u)

LEMMA ConcatRegroups ==
  ASSUME NEW R, NEW s \in Seq(R), NEW t \in Seq(R), NEW u \in Seq(R)
  PROVE  Regroups(s, t, u)
  BY ConcatAssociative DEF Regroups

LEMMA TailOfConcat ==
  ASSUME NEW R, NEW e \in R, NEW s \in Seq(R)
  PROVE  Tail(<<e>> \o s) = s
<1>1. <<e>> \in Seq(R) /\ Len(<<e>>) = 1 /\ <<e>> \o s \in Seq(R) /\ Len(<<e>> \o s) = 1 + Len(s)
  OBVIOUS
<1>2. <<e>> \o s # <<>>
  BY <1>1
<1>3. Tail(<<e>> \o s) \in Seq(R) /\ Len(Tail(<<e>> \o s)) = Len(s)
  BY <1>1, <1>2, HeadTailProperties
<1>4. \A i \in 1..Len(s) : Tail(<<e>> \o s)[i] = s[i]
  <2> TAKE i \in 1..Len(s)
  <2>1. i \in 1..Len(Tail(<<e>> \o s)) /\ i + 1 \in 1..Len(<<e>>) + Len(s)
        /\ ~(i + 1 <= Len(<<e>>)) /\ (i + 1) - Len(<<e>>) = i
    BY <1>1, <1>3
  <2>2. Tail(<<e>> \o s)[i] = (<<e>> \o s)[i + 1]
    BY <1>1, <1>2, <2>1, HeadTailProperties
  <2>3. (<<e>> \o s)[i + 1] = s[(i + 1) - Len(<<e>>)]
    BY <1>1, <2>1, ConcatProperties
  <2> QED
    BY <2>1, <2>2, <2>3
<1> QED
  BY <1>3, <1>4, SeqEqual

LEMMA OnItsWayFacts ==
  ASSUME NEW R, NEW b \in Seq(R), NEW c \in Seq(R)
  PROVE  /\ Alerts(b) \in Seq(R) /\ Alerts(c) \in Seq(R)
         /\ OnItsWay(b, c) = Alerts(b) \o Alerts(c)
  BY AlertsConcat DEF OnItsWay

LEMMA BroadcastOnItsWay ==
  ASSUME NEW R, NEW b \in Seq(R), NEW c \in Seq(R), NEW e \in R
  PROVE  OnItsWay(b, Append(c, e)) =
           IF IsAlert(e) THEN Append(OnItsWay(b, c), e) ELSE OnItsWay(b, c)
<1>1. /\ Alerts(b) \in Seq(R) /\ Alerts(c) \in Seq(R)
      /\ OnItsWay(b, c) = Alerts(b) \o Alerts(c)
  BY OnItsWayFacts
<1>2. Append(c, e) \in Seq(R)
  BY AppendProperties
<1>3. OnItsWay(b, Append(c, e)) = Alerts(b) \o Alerts(Append(c, e))
  BY <1>2, OnItsWayFacts
<1>4. CASE IsAlert(e)
  <2>1. Alerts(Append(c, e)) = Append(Alerts(c), e)
    BY <1>4, AlertsAppend
  <2>2. AppendsLast(Alerts(b), Alerts(c), e)
    BY <1>1, AppendConcat
  <2> QED
    BY <1>1, <1>3, <1>4, <2>1, <2>2 DEF AppendsLast
<1>5. CASE ~IsAlert(e)
  <2>1. Alerts(Append(c, e)) = Alerts(c)
    BY <1>5, AlertsAppend
  <2> QED
    BY <1>1, <1>3, <1>5, <2>1
<1> QED
  BY <1>4, <1>5

LEMMA ReceiveOnItsWay ==
  ASSUME NEW R, NEW b \in Seq(R), Len(b) <= Capacity, NEW c \in Seq(R), c # <<>>,
         ~ (IsAlert(Head(c)) /\ Refuses(b, Head(c)))
  PROVE  OnItsWay(Put(b, Head(c)), Tail(c)) = OnItsWay(b, c)
<1> DEFINE e == Head(c)
           t == Tail(c)
           p == Put(b, e)
<1>1. e \in R /\ t \in Seq(R)
  BY HeadTailProperties
<1>2. /\ IsAlert(e) => Alerts(c) = <<e>> \o Alerts(t)
      /\ ~IsAlert(e) => Alerts(c) = Alerts(t)
  BY AlertsHead
<1>3. ~ (IsAlert(e) /\ Refuses(b, e))
  OBVIOUS
<1> HIDE DEF e, t
<1>4. /\ p \in Seq(R)
      /\ IsAlert(e) => Alerts(p) = Append(Alerts(b), e)
      /\ ~IsAlert(e) => Alerts(p) = Alerts(b)
  BY <1>1, <1>3, PutFacts
<1> HIDE DEF p
<1>5. /\ Alerts(b) \in Seq(R) /\ Alerts(t) \in Seq(R) /\ <<e>> \in Seq(R)
      /\ OnItsWay(b, c) = Alerts(b) \o Alerts(c)
      /\ OnItsWay(p, t) = Alerts(p) \o Alerts(t)
  <2>1. Alerts(b) \in Seq(R) /\ OnItsWay(b, c) = Alerts(b) \o Alerts(c)
    BY OnItsWayFacts
  <2>2. p \in Seq(R)
    BY <1>4
  <2>3. Alerts(t) \in Seq(R) /\ OnItsWay(p, t) = Alerts(p) \o Alerts(t)
    BY <1>1, <2>2, OnItsWayFacts
  <2> QED
    BY <1>1, <2>1, <2>3
<1>6. Append(Alerts(b), e) = Alerts(b) \o <<e>>
  BY <1>1, <1>5, AppendIsConcat
<1>7. Regroups(Alerts(b), <<e>>, Alerts(t))
  BY <1>5, ConcatRegroups
<1>8. OnItsWay(p, t) = OnItsWay(b, c)
  BY ONLY <1>2, <1>4, <1>5, <1>6, <1>7 DEF Regroups
<1> QED
  BY <1>8 DEF e, t, p

LEMMA SendOnItsWay ==
  ASSUME NEW R, NEW b \in Seq(R), b # <<>>, NEW c \in Seq(R)
  PROVE  /\ ~IsAlert(Head(b)) => OnItsWay(Tail(b), c) = OnItsWay(b, c)
         /\ IsAlert(Head(b)) => OnItsWay(Tail(b), c) = Tail(OnItsWay(b, c))
<1> DEFINE e == Head(b)
           t == Tail(b)
<1>1. e \in R /\ t \in Seq(R)
  BY HeadTailProperties
<1>2. /\ IsAlert(e) => Alerts(b) = <<e>> \o Alerts(t)
      /\ ~IsAlert(e) => Alerts(b) = Alerts(t)
  BY AlertsHead
<1> HIDE DEF e, t
<1>3. /\ Alerts(t) \in Seq(R) /\ Alerts(c) \in Seq(R) /\ <<e>> \in Seq(R)
      /\ OnItsWay(b, c) = Alerts(b) \o Alerts(c)
      /\ OnItsWay(t, c) = Alerts(t) \o Alerts(c)
  <2>1. Alerts(c) \in Seq(R) /\ OnItsWay(b, c) = Alerts(b) \o Alerts(c)
    BY OnItsWayFacts
  <2>2. Alerts(t) \in Seq(R) /\ OnItsWay(t, c) = Alerts(t) \o Alerts(c)
    BY <1>1, OnItsWayFacts
  <2>3. <<e>> \in Seq(R)
    BY <1>1
  <2> QED
    BY <2>1, <2>2, <2>3
<1>4. ASSUME IsAlert(e) PROVE OnItsWay(t, c) = Tail(OnItsWay(b, c))
  <2> DEFINE u == Alerts(t) \o Alerts(c)
  <2>1. u \in Seq(R)
    BY <1>3, ConcatProperties
  <2>2. OnItsWay(b, c) = <<e>> \o u
    <3>1. Regroups(<<e>>, Alerts(t), Alerts(c))
      BY <1>3, ConcatRegroups
    <3> QED
      BY ONLY <1>2, <1>3, <1>4, <3>1 DEF Regroups
  <2>3. OnItsWay(t, c) = u
    BY <1>3
  <2> HIDE DEF u
  <2>4. Tail(<<e>> \o u) = u
    BY <1>1, <2>1, TailOfConcat
  <2> QED
    BY <2>2, <2>3, <2>4
<1>5. ~IsAlert(e) => OnItsWay(t, c) = OnItsWay(b, c)
  BY <1>2, <1>3
<1> QED
  BY <1>4, <1>5 DEF e, t

LEMMA PongOnItsWay ==
  ASSUME NEW R, Pong \in R, NEW b \in Seq(R), Len(b) <= Capacity, NEW c \in Seq(R)
  PROVE  OnItsWay(Put(b, Pong), c) = OnItsWay(b, c)
<1> DEFINE p == Put(b, Pong)
<1>1. p \in Seq(R) /\ Alerts(p) = Alerts(b)
  BY PutFacts, EventFacts
<1> HIDE DEF p
<1>2. OnItsWay(b, c) = Alerts(b) \o Alerts(c) /\ OnItsWay(p, c) = Alerts(p) \o Alerts(c)
  BY <1>1, OnItsWayFacts
<1>3. OnItsWay(p, c) = OnItsWay(b, c)
  BY <1>1, <1>2
<1> QED
  BY <1>3 DEF p
-----------------------------------------------------------------------------
(* The workers.                                                             *)

WorkerStates ==
  [at : {"idle", "evaluating", "judged", "decided", "publishing"},
   todo : SUBSET Devices, device : Devices \cup {0}, verdict : BOOLEAN,
   existing : {"none", "active", "gone"},
   results : Seq([device : Devices, effect : Effects])]

\* What AlertTypeOK and WorkerInv say of one worker.
Fits(r) ==
  /\ r \in WorkerStates
  /\ OncePerDevice(r.results)
  /\ r.at = "idle" => r.results = <<>>
  /\ r.at \in {"judged", "decided"} => r.device \in r.todo
  /\ \A i \in DOMAIN r.results : r.results[i].device \notin r.todo
  /\ r.at = "publishing" => r.results # <<>>

\* AlertTypeOK and WorkerInv, said worker by worker.
AlertInv ==
  /\ rule \in BOOLEAN
  /\ sample \in [Devices -> [Ages -> {"none", "high", "low"}]]
  /\ active \subseteq Devices
  /\ faults \in 0..MaxFaults
  /\ worker \in [Workers -> WorkerStates]
  /\ \A w \in Workers : Fits(worker[w])

LEMMA AlertInvIsTheParts == AlertInv <=> AlertTypeOK /\ WorkerInv
<1>1. ASSUME AlertInv PROVE AlertTypeOK /\ WorkerInv
  BY <1>1 DEF AlertInv, Fits, AlertTypeOK, WorkerInv, WorkerStates, At
<1>2. ASSUME AlertTypeOK, WorkerInv PROVE AlertInv
  <2>1. worker \in [Workers -> WorkerStates]
    BY <1>2 DEF AlertTypeOK, WorkerStates
  <2>2. ASSUME NEW w \in Workers PROVE Fits(worker[w])
    BY <1>2, <2>1, <2>2 DEF Fits, AlertTypeOK, WorkerInv, At
  <2> QED
    BY <1>2, <2>1, <2>2 DEF AlertInv, AlertTypeOK
<1> QED
  BY <1>1, <1>2

LEMMA IdleFits == Fits(Idle)
<1>1. <<>> \in Seq([device : Devices, effect : Effects]) /\ DOMAIN <<>> = {}
  OBVIOUS
<1> QED
  BY <1>1 DEF Fits, Idle, WorkerStates, OncePerDevice

\* A step that changes one worker only.
LEMMA OneWorkerMoves ==
  ASSUME AlertInv, NEW w \in Workers, NEW r, Fits(r), worker' = [worker EXCEPT ![w] = r],
         rule' \in BOOLEAN, sample' = sample, active' = active, faults' \in 0..MaxFaults
  PROVE  AlertInv'
<1>1. r \in WorkerStates
  BY DEF Fits
<1>2. worker' \in [Workers -> WorkerStates]
  BY <1>1 DEF AlertInv
<1>3. ASSUME NEW v \in Workers PROVE Fits(worker'[v])
  BY <1>3 DEF AlertInv
<1> QED
  BY <1>2, <1>3 DEF AlertInv, Fits, WorkerStates, OncePerDevice, Effects, Ages

\* A step that changes none.
LEMMA NoWorkerMoves ==
  ASSUME AlertInv, worker' = worker, rule' \in BOOLEAN, active' \subseteq Devices,
         sample' \in [Devices -> [Ages -> {"none", "high", "low"}]], faults' \in 0..MaxFaults
  PROVE  AlertInv'
<1>1. worker' \in [Workers -> WorkerStates]
  BY DEF AlertInv
<1>2. ASSUME NEW w \in Workers PROVE Fits(worker'[w])
  BY DEF AlertInv
<1> QED
  BY <1>1, <1>2 DEF AlertInv, Fits, WorkerStates, OncePerDevice, Effects, Ages

LEMMA InitAlertInv == AlertInit => AlertInv
<1> SUFFICES ASSUME AlertInit PROVE AlertInv
  OBVIOUS
<1>1. faults \in 0..MaxFaults
  BY WindowAssumption DEF AlertInit
<1>2. \A w \in Workers : worker[w] = Idle
  BY DEF AlertInit
<1>3. worker \in [Workers -> WorkerStates]
  BY IdleFits DEF AlertInit, Fits
<1> QED
  BY <1>1, <1>2, <1>3, IdleFits DEF AlertInit, AlertInv

LEMMA AbortAlertInv ==
  ASSUME AlertInv, NEW w \in Workers, Abort(w),
         rule' = rule, sample' = sample, active' = active, faults' \in 0..MaxFaults
  PROVE  AlertInv'
  BY IdleFits, OneWorkerMoves DEF Abort, AlertInv

\* A write puts a device that was still to do among the results.
LEMMA WriteAlertInv ==
  ASSUME AlertInv, NEW w \in Workers, At(w, "decided"),
         NEW effect \in {"OPEN", "RESOLVED", "AGAIN", "none"}, Write(w, effect),
         UNCHANGED <<rule, sample, active, faults>>
  PROVE  AlertInv'
<1> DEFINE s == worker[w]
           d == s.device
           x == [device |-> d, effect |-> effect]
           y == IF effect = "none" THEN s.results ELSE Append(s.results, x)
           r == [s EXCEPT !.at = "evaluating", !.todo = s.todo \ {d}, !.device = 0,
                          !.verdict = FALSE, !.existing = "none", !.results = y]
           Rs == [device : Devices, effect : Effects]
<1>1. Fits(s) /\ s.at = "decided"
  BY DEF AlertInv, At
<1>2. worker' = [worker EXCEPT ![w] = r]
  BY DEF Write
<1>3. d \in s.todo /\ s.todo \in SUBSET Devices /\ s.results \in Seq(Rs)
  BY <1>1 DEF Fits, WorkerStates
<1>4. /\ r.at = "evaluating" /\ r.todo = s.todo \ {d} /\ r.results = y
      /\ y \in Seq(Rs) => r \in WorkerStates
  <2>1. s \in WorkerStates
    BY <1>1 DEF Fits
  <2> HIDE DEF s, y, d
  <2> QED
    BY <2>1, <1>3 DEF WorkerStates
<1>5. /\ y \in Seq(Rs)
      /\ OncePerDevice(y)
      /\ \A i \in DOMAIN y : y[i].device \notin s.todo \ {d}
  <2>1. CASE effect = "none"
    BY <1>1, <1>3, <2>1 DEF Fits
  <2>2. CASE effect # "none"
    <3> DEFINE q == s.results
    <3>1. x \in Rs
      BY <1>3, <2>2 DEF Effects
    <3>2. \A i \in DOMAIN q : q[i].device \notin s.todo
      BY <1>1 DEF Fits
    <3>3. OncePerDevice(q)
      BY <1>1 DEF Fits
    <3>4. y = Append(q, x) /\ x.device = d
      BY <2>2
    <3>5. q \in Seq(Rs)
      BY <1>3
    <3> HIDE DEF q, x, y, s, d
    <3>6. /\ y \in Seq(Rs) /\ Len(q) \in Nat /\ DOMAIN q = 1..Len(q)
          /\ DOMAIN y = DOMAIN q \cup {Len(q) + 1} /\ y[Len(q) + 1] = x
          /\ \A i \in DOMAIN q : y[i] = q[i]
      BY <3>1, <3>4, <3>5
    <3>7. \A i \in DOMAIN q : q[i].device # d
      BY <3>2, <1>3
    <3>8. OncePerDevice(y)
      BY <3>3, <3>4, <3>6, <3>7 DEF OncePerDevice
    <3>9. \A i \in DOMAIN y : y[i].device \notin s.todo \ {d}
      BY <3>2, <3>4, <3>6
    <3> QED
      BY <3>6, <3>8, <3>9
  <2> QED
    BY <2>1, <2>2
<1>6. Fits(r)
  BY <1>4, <1>5 DEF Fits
<1> HIDE DEF r
<1> QED
  BY <1>2, <1>6, OneWorkerMoves DEF AlertInv

LEMMA ReadAlertInv ==
  ASSUME AlertInv, NEW w \in Workers,
         StartEvaluation(w) \/ ReadSamples(w) \/ ReadExisting(w)
  PROVE  AlertInv'
<1> DEFINE s == worker[w]
<1>0. Fits(s) /\ s \in WorkerStates
  BY DEF AlertInv, Fits
<1>1. CASE StartEvaluation(w)
  <2> DEFINE r == [s EXCEPT !.at = "evaluating", !.todo = Reporting]
  <2>1. worker' = [worker EXCEPT ![w] = r]
    BY <1>1 DEF StartEvaluation
  <2>2. Reporting \subseteq Devices
    BY DEF Reporting
  <2>3. s.results = <<>>
    BY <1>0, <1>1 DEF StartEvaluation, At, Fits
  <2>4. Fits(r)
    <3> HIDE DEF s
    <3>1. r \in WorkerStates /\ r.at = "evaluating" /\ r.results = <<>>
      BY <1>0, <2>2, <2>3 DEF WorkerStates
    <3> HIDE DEF r
    <3> QED
      BY <3>1 DEF Fits, OncePerDevice
  <2> HIDE DEF r
  <2> QED
    BY <1>1, <2>1, <2>4, OneWorkerMoves DEF StartEvaluation, AlertInv
<1>2. CASE ReadSamples(w)
  <2>0. PICK d \in s.todo :
          worker' = [worker EXCEPT ![w] = [s EXCEPT !.at = "judged", !.device = d, !.verdict = Triggered(d)]]
    BY <1>2 DEF ReadSamples
  <2> DEFINE r == [s EXCEPT !.at = "judged", !.device = d, !.verdict = Triggered(d)]
  <2>1. worker' = [worker EXCEPT ![w] = r]
    BY <2>0
  <2>2. s.todo \subseteq Devices
    BY <1>0 DEF WorkerStates
  <2>3. Triggered(d) \in BOOLEAN
    BY DEF Triggered
  <2>4. Fits(r)
    <3> HIDE DEF s
    <3>1. r \in WorkerStates /\ r.at = "judged" /\ r.device = d /\ r.todo = s.todo
          /\ r.results = s.results
      BY <1>0, <2>2, <2>3 DEF WorkerStates
    <3> HIDE DEF r
    <3> QED
      BY <1>0, <2>2, <3>1 DEF Fits
  <2> HIDE DEF r
  <2> QED
    BY <1>2, <2>1, <2>4, OneWorkerMoves DEF ReadSamples, AlertInv
<1>3. CASE ReadExisting(w)
  <2> DEFINE x == IF s.device \in active THEN "active" ELSE "none"
             r == [s EXCEPT !.at = "decided", !.existing = x]
  <2>1. worker' = [worker EXCEPT ![w] = r]
    BY <1>3 DEF ReadExisting
  <2>2. s.at = "judged" /\ x \in {"active", "none"}
    BY <1>3 DEF ReadExisting, At
  <2>3. Fits(r)
    <3> HIDE DEF s, x
    <3>1. r \in WorkerStates /\ r.at = "decided" /\ r.device = s.device /\ r.todo = s.todo
          /\ r.results = s.results
      BY <1>0, <2>2 DEF WorkerStates
    <3> HIDE DEF r
    <3> QED
      BY <1>0, <2>2, <3>1 DEF Fits
  <2> HIDE DEF r
  <2> QED
    BY <1>3, <2>1, <2>3, OneWorkerMoves DEF ReadExisting, AlertInv
<1> QED
  BY <1>1, <1>2, <1>3

LEMMA DecideAlertInv ==
  ASSUME AlertInv, NEW w \in Workers, OpenAlert(w) \/ ResolveAlert(w) \/ LeaveAlert(w)
  PROVE  AlertInv'
<1>1. At(w, "decided") /\ UNCHANGED <<rule, sample, active, faults>>
  BY DEF OpenAlert, ResolveAlert, LeaveAlert
<1>2. Abort(w) \/ \E effect \in {"OPEN", "RESOLVED", "AGAIN", "none"} : Write(w, effect)
  BY DEF OpenAlert, ResolveAlert, LeaveAlert
<1>3. CASE Abort(w)
  BY <1>1, <1>3, AbortAlertInv DEF AlertInv
<1>4. CASE \E effect \in {"OPEN", "RESOLVED", "AGAIN", "none"} : Write(w, effect)
  BY <1>1, <1>4, WriteAlertInv
<1> QED
  BY <1>2, <1>3, <1>4

\* What is committed is announced: the same devices, in the same order.
LEMMA CommitAlertInv ==
  ASSUME AlertInv, NEW w \in Workers, CommitEvaluation(w)
  PROVE  AlertInv'
<1> DEFINE s == worker[w]
           q == s.results
           y == ToAnnounce(q)
           Rs == [device : Devices, effect : Effects]
           resolved == With(q, "RESOLVED")
<1>0. Fits(s) /\ s \in WorkerStates /\ s.at = "evaluating" /\ q \in Seq(Rs)
  BY DEF AlertInv, Fits, CommitEvaluation, At, WorkerStates
<1>1. active' \subseteq Devices
  BY DEF CommitEvaluation, AlertInv, With
<1>2. /\ y \in Seq(Rs) /\ DOMAIN y = DOMAIN q
      /\ \A i \in DOMAIN q : y[i].device = q[i].device
  <2> HIDE DEF q
  <2>1. Len(q) \in Nat /\ DOMAIN q = 1..Len(q) /\ \A i \in DOMAIN q : q[i] \in Rs
    <3> HIDE DEF Rs
    <3> QED
      BY <1>0
  <2>2. y = [i \in DOMAIN q |-> [q[i] EXCEPT !.effect = "announce"]]
    BY DEF ToAnnounce
  <2>3. \A i \in DOMAIN q : [q[i] EXCEPT !.effect = "announce"] \in Rs
                           /\ [q[i] EXCEPT !.effect = "announce"].device = q[i].device
    BY <2>1 DEF Effects
  <2> HIDE DEF y, Rs
  <2>4. DOMAIN y = DOMAIN q /\ \A i \in DOMAIN q : y[i] \in Rs /\ y[i].device = q[i].device
    BY <2>2, <2>3
  <2>5. y \in Seq(Rs)
    BY <2>1, <2>2, <2>4, IsASeq
  <2> QED
    BY <2>4, <2>5
<1>3. ASSUME NEW v \in Workers PROVE Fits(worker'[v])
  <2> DEFINE u == worker[v]
  <2>0. Fits(u) /\ u \in WorkerStates
    BY DEF AlertInv, Fits
  <2>1. \/ v = w /\ worker'[v] = Idle
        \/ v = w /\ q # <<>> /\ worker'[v] = [s EXCEPT !.at = "publishing", !.results = y]
        \/ worker'[v] = [u EXCEPT !.existing = "gone"]
        \/ worker'[v] = u
    BY DEF CommitEvaluation, AfterCommit
  <2>2. CASE worker'[v] = Idle
    BY <2>2, IdleFits
  <2>3. CASE q # <<>> /\ worker'[v] = [s EXCEPT !.at = "publishing", !.results = y]
    <3> DEFINE r == [s EXCEPT !.at = "publishing", !.results = y]
    <3>1. OncePerDevice(q) /\ \A i \in DOMAIN q : q[i].device \notin s.todo
      BY <1>0 DEF Fits
    <3>2. y # <<>>
      BY <1>0, <1>2, <2>3
    <3> HIDE DEF s, q, y
    <3>3. r \in WorkerStates /\ r.at = "publishing" /\ r.todo = s.todo /\ r.results = y
      BY <1>0, <1>2 DEF WorkerStates
    <3> HIDE DEF r
    <3>4. Fits(r)
      BY <1>2, <3>1, <3>2, <3>3 DEF Fits, OncePerDevice
    <3> QED
      BY <2>3, <3>4 DEF r
  <2>4. CASE worker'[v] = [u EXCEPT !.existing = "gone"]
    <3> DEFINE r == [u EXCEPT !.existing = "gone"]
    <3> HIDE DEF u
    <3>1. r \in WorkerStates /\ r.at = u.at /\ r.device = u.device /\ r.todo = u.todo
          /\ r.results = u.results
      BY <2>0 DEF WorkerStates
    <3> HIDE DEF r
    <3>2. Fits(r)
      BY <2>0, <3>1 DEF Fits
    <3> QED
      BY <2>4, <3>2 DEF r
  <2>5. CASE worker'[v] = u
    BY <2>0, <2>5
  <2> QED
    BY <2>1, <2>2, <2>3, <2>4, <2>5
<1>4. worker' \in [Workers -> WorkerStates]
  <2>1. DOMAIN worker' = Workers /\ worker' = [v \in Workers |-> worker'[v]]
    BY DEF CommitEvaluation, AfterCommit
  <2>2. \A v \in Workers : worker'[v] \in WorkerStates
    BY <1>3 DEF Fits
  <2> QED
    BY <2>1, <2>2
<1> QED
  BY <1>1, <1>3, <1>4
  DEF CommitEvaluation, AlertInv, Fits, WorkerStates, OncePerDevice, Effects, Ages

LEMMA PublishAlertInv ==
  ASSUME AlertInv, NEW w \in Workers, Publish(w)
  PROVE  AlertInv' /\ NoticeOf(w) \in Devices
<1> DEFINE s == worker[w]
           q == s.results
           t == Tail(q)
           Rs == [device : Devices, effect : Effects]
           r == [s EXCEPT !.results = t]
<1>0. Fits(s) /\ s \in WorkerStates /\ s.at = "publishing" /\ q \in Seq(Rs) /\ q # <<>>
  BY DEF AlertInv, Fits, Publish, At, WorkerStates
<1>1. NoticeOf(w) \in Devices
  <2>1. Head(q) \in Rs
    BY <1>0, HeadTailProperties
  <2> QED
    BY <2>1 DEF NoticeOf
<1>2. CASE Len(q) = 1
  <2>1. worker' = [worker EXCEPT ![w] = Idle]
    BY <1>2 DEF Publish
  <2> QED
    BY <1>1, <2>1, IdleFits, OneWorkerMoves DEF Publish, AlertInv
<1>3. CASE Len(q) # 1
  <2>1. worker' = [worker EXCEPT ![w] = r]
    BY <1>3 DEF Publish
  <2>2. OncePerDevice(q) /\ \A i \in DOMAIN q : q[i].device \notin s.todo
    BY <1>0 DEF Fits
  <2>3. Fits(r)
    <3> HIDE DEF s, q, t
    <3>1. /\ Len(q) \in Nat /\ DOMAIN q = 1..Len(q) /\ t \in Seq(Rs) /\ Len(t) = Len(q) - 1
          /\ DOMAIN t = 1..Len(t) /\ \A i \in 1..Len(t) : t[i] = q[i + 1]
      BY <1>0, HeadTailProperties DEF t
    <3>2. t # <<>>
      BY <1>0, <1>3, <3>1
    <3>3. \A i \in DOMAIN t : i + 1 \in DOMAIN q /\ t[i] = q[i + 1]
      BY <3>1
    <3>4. OncePerDevice(t)
      <4>1. SUFFICES ASSUME NEW i \in DOMAIN t, NEW j \in DOMAIN t, t[i].device = t[j].device
                     PROVE  i = j
        BY DEF OncePerDevice
      <4>2. i + 1 = j + 1
        BY <2>2, <3>3, <4>1 DEF OncePerDevice
      <4> QED
        BY <3>1, <4>2
    <3>5. r \in WorkerStates /\ r.at = "publishing" /\ r.todo = s.todo /\ r.results = t
      BY <1>0, <3>1 DEF WorkerStates
    <3> HIDE DEF r
    <3> QED
      BY <2>2, <3>2, <3>3, <3>4, <3>5 DEF Fits
  <2> HIDE DEF r
  <2> QED
    BY <1>1, <2>1, <2>3, OneWorkerMoves DEF Publish, AlertInv
<1> QED
  BY <1>2, <1>3

\* Rules, samples and the clock concern no worker.
LEMMA DataAlertInv ==
  ASSUME AlertInv,
         CreateRule \/ Tick \/ (\E d \in Devices, a \in Ages, v \in {"high", "low"} : StoreSample(d, a, v))
  PROVE  AlertInv'
<1>1. UNCHANGED <<active, worker, faults>> /\ rule' \in BOOLEAN
  BY DEF CreateRule, Tick, StoreSample, AlertInv
<1>2. sample' \in [Devices -> [Ages -> {"none", "high", "low"}]]
  <2>1. CASE CreateRule
    BY <2>1 DEF CreateRule, AlertInv
  <2>2. CASE Tick
    <3>1. \A a \in Ages : a # 0 => a - 1 \in Ages
      BY WindowAssumption DEF Ages
    <3>2. sample' = [d \in Devices |-> [a \in Ages |-> IF a = 0 THEN "none" ELSE sample[d][a - 1]]]
      BY <2>2 DEF Tick
    <3> QED
      BY <3>1, <3>2 DEF AlertInv
  <2>3. ASSUME NEW d \in Devices, NEW a \in Ages, NEW v \in {"high", "low"}, StoreSample(d, a, v)
        PROVE  sample' \in [Devices -> [Ages -> {"none", "high", "low"}]]
    BY <2>3 DEF StoreSample, AlertInv
  <2> QED
    BY <2>1, <2>2, <2>3
<1> QED
  BY <1>1, <1>2, NoWorkerMoves DEF AlertInv

LEMMA FailAlertInv ==
  ASSUME AlertInv, NEW w \in Workers, FailCycle(w)
  PROVE  AlertInv'
<1>1. faults' \in 0..MaxFaults
  BY WindowAssumption DEF FailCycle, AlertInv
<1> QED
  BY <1>1, AbortAlertInv DEF FailCycle
-----------------------------------------------------------------------------
(* What workers have written and not committed.                             *)

Open(r) == r.at \in {"evaluating", "judged", "decided"}
Named(q) == With(q, "OPEN") \cup With(q, "RESOLVED")

\* WritesHold and the second part of ApartInv, of a worker in state r when the
\* alerts of act are open; the first part, of two workers.
Current(r, act) == /\ Open(r) => /\ With(r.results, "OPEN") \cap act = {}
                                 /\ With(r.results, "RESOLVED") \subseteq act
                   /\ r.at = "decided" /\ r.existing = "active" => r.device \in act
Apart(r, x) == Open(r) /\ Open(x) => Named(r.results) \cap Named(x.results) = {}

WritesInv ==
  /\ \A w \in Workers : Current(worker[w], active)
  /\ \A v, w \in Workers : v # w => Apart(worker[v], worker[w])

LEMMA WritesInvIsTheParts == WritesInv <=> ApartInv /\ WritesHold
  BY DEF WritesInv, ApartInv, WritesHold, Current, Apart, Open, Named, Written, At,
         InTransaction

\* A step that changes one worker and no alert.
LEMMA OneWorkerWrites ==
  ASSUME WritesInv, AlertInv, NEW w \in Workers, NEW r, worker' = [worker EXCEPT ![w] = r],
         active' = active, Current(r, active),
         \A v \in Workers \ {w} : Apart(r, worker[v])
  PROVE  WritesInv'
<1>1. worker'[w] = r /\ \A v \in Workers : v # w => worker'[v] = worker[v]
  BY DEF AlertInv
<1>2. \A v \in Workers : Current(worker'[v], active')
  BY <1>1 DEF WritesInv
<1>3. ASSUME NEW v \in Workers, NEW u \in Workers, v # u PROVE Apart(worker'[v], worker'[u])
  <2>1. CASE v = w
    BY <1>1, <1>3, <2>1
  <2>2. CASE u = w
    <3>1. Apart(r, worker[v])
      BY <1>3, <2>2
    <3>2. Apart(worker[v], r)
      BY <3>1 DEF Apart
    <3> QED
      BY <1>1, <1>3, <2>2, <3>2
  <2>3. CASE v # w /\ u # w
    BY <1>1, <1>3, <2>3 DEF WritesInv
  <2> QED
    BY <2>1, <2>2, <2>3
<1> QED
  BY <1>2, <1>3 DEF WritesInv, Current, Apart, Open, Named, With

\* A worker that has written nothing agrees with everybody.
LEMMA NothingWritten ==
  ASSUME NEW r, r.results = <<>>, NEW x, NEW act, r.at # "decided"
  PROVE  Current(r, act) /\ Apart(r, x)
<1>1. DOMAIN <<>> = {}
  OBVIOUS
<1> QED
  BY <1>1 DEF Current, Apart, Named, With

LEMMA IdleWrites ==
  ASSUME WritesInv, AlertInv, NEW w \in Workers, worker' = [worker EXCEPT ![w] = Idle],
         active' = active
  PROVE  WritesInv'
<1>1. Idle.results = <<>> /\ Idle.at # "decided"
  BY DEF Idle
<1>2. Current(Idle, active)
  BY <1>1, NothingWritten
<1>3. \A v \in Workers \ {w} : Apart(Idle, worker[v])
  BY <1>1, NothingWritten
<1> QED
  BY <1>2, <1>3, OneWorkerWrites

\* A worker that reads goes on with what it had written.
LEMMA ReadWrites ==
  ASSUME WritesInv, AlertInv, NEW w \in Workers,
         StartEvaluation(w) \/ ReadSamples(w) \/ ReadExisting(w)
  PROVE  WritesInv'
<1> DEFINE s == worker[w]
           r == worker'[w]
<1>0. Fits(s) /\ s \in WorkerStates
  BY DEF AlertInv, Fits
<1>1. active' = active /\ worker' = [worker EXCEPT ![w] = r]
  BY DEF StartEvaluation, ReadSamples, ReadExisting, AlertInv
<1>2. CASE StartEvaluation(w)
  <2>1. r.results = <<>> /\ r.at = "evaluating"
    BY <1>0, <1>2 DEF StartEvaluation, At, Fits, AlertInv, WorkerStates
  <2> HIDE DEF r
  <2>2. Current(r, active) /\ \A v \in Workers \ {w} : Apart(r, worker[v])
    BY <2>1, NothingWritten
  <2> QED
    BY <1>1, <2>2, OneWorkerWrites
<1>3. CASE ReadSamples(w) \/ ReadExisting(w)
  <2>0. \/ /\ s.at = "evaluating"
           /\ \E d \in s.todo : r = [s EXCEPT !.at = "judged", !.device = d, !.verdict = Triggered(d)]
        \/ /\ s.at = "judged"
           /\ r = [s EXCEPT !.at = "decided",
                            !.existing = IF s.device \in active THEN "active" ELSE "none"]
    BY <1>3 DEF ReadSamples, ReadExisting, At, AlertInv
  <2> HIDE DEF r, s
  <2>1. r.results = s.results /\ Open(s) /\ Open(r)
    BY <1>0, <2>0 DEF WorkerStates, Open
  <2>2. r.at = "decided" /\ r.existing = "active" => r.device \in active
    BY <1>0, <2>0 DEF WorkerStates
  <2> USE DEF s
  <2> HIDE DEF r
  <2>3. Current(r, active)
    BY <2>1, <2>2 DEF WritesInv, Current
  <2>4. \A v \in Workers \ {w} : Apart(r, worker[v])
    BY <2>1 DEF WritesInv, Apart
  <2> QED
    BY <1>1, <2>3, <2>4, OneWorkerWrites
<1> QED
  BY <1>2, <1>3

\* A write agrees with the alerts when nobody else has written its device.
LEMMA WriteWrites ==
  ASSUME WritesInv, AlertInv, NEW w \in Workers, At(w, "decided"),
         NEW effect \in {"OPEN", "RESOLVED", "AGAIN", "none"}, Write(w, effect),
         active' = active,
         effect \in {"OPEN", "RESOLVED"} => ~Pending(w, worker[w].device),
         effect = "OPEN" => worker[w].device \notin active,
         effect = "RESOLVED" => worker[w].device \in active
  PROVE  WritesInv'
<1> DEFINE s == worker[w]
           d == s.device
           q == s.results
           x == [device |-> d, effect |-> effect]
           r == worker'[w]
           y == r.results
<1>0. Fits(s) /\ s \in WorkerStates /\ s.at = "decided" /\ Open(s) /\ Current(s, active)
  BY DEF AlertInv, Fits, At, Open, WritesInv
<1>1. worker' = [worker EXCEPT ![w] = r]
  BY DEF Write, AlertInv
<1>2. r.at = "evaluating" /\ y = IF effect = "none" THEN q ELSE Append(q, x)
  BY <1>0 DEF Write, AlertInv, WorkerStates
<1>3. q \in Seq([device : Devices, effect : Effects])
  BY <1>0 DEF WorkerStates
<1>4. \A i \in DOMAIN y : (i \in DOMAIN q /\ y[i] = q[i]) \/ (effect # "none" /\ y[i] = x)
  <2> HIDE DEF q, x, r
  <2>1. CASE effect = "none"
    BY <1>2, <2>1
  <2>2. CASE effect # "none"
    <3>1. y = Append(q, x)
      BY <1>2, <2>2
    <3> HIDE DEF y
    <3>2. Len(q) \in Nat /\ DOMAIN q = 1..Len(q) /\ DOMAIN y = 1..Len(q) + 1
          /\ \A i \in 1..Len(q) : y[i] = q[i]
      BY <1>3, <3>1
    <3>3. y[Len(q) + 1] = x
      BY <1>3, <3>1
    <3>4. \A i \in 1..Len(q) + 1 : i \in 1..Len(q) \/ i = Len(q) + 1
      BY <3>2
    <3> QED
      BY <2>2, <3>2, <3>3, <3>4
  <2> QED
    BY <2>1, <2>2
<1>5. /\ \A e \in {"OPEN", "RESOLVED"} : With(y, e) \subseteq With(q, e) \cup (IF effect = e THEN {d} ELSE {})
      /\ Named(y) \subseteq Named(q) \cup (IF effect \in {"OPEN", "RESOLVED"} THEN {d} ELSE {})
  <2>1. x.device = d /\ x.effect = effect
    OBVIOUS
  <2> HIDE DEF x, y, q, d
  <2>2. ASSUME NEW e \in {"OPEN", "RESOLVED"}, NEW c \in With(y, e)
        PROVE  c \in With(q, e) \cup (IF effect = e THEN {d} ELSE {})
    <3>1. PICK i \in DOMAIN y : y[i] = [device |-> c, effect |-> e]
      BY <2>2 DEF With
    <3>2. y[i].device = c /\ y[i].effect = e /\ c \in Devices
      BY <2>2, <3>1 DEF With
    <3>3. CASE i \in DOMAIN q /\ y[i] = q[i]
      BY <3>1, <3>2, <3>3 DEF With
    <3>4. CASE y[i] = x
      BY <2>1, <3>2, <3>4
    <3> QED
      BY <1>4, <3>3, <3>4
  <2>3. Named(y) \subseteq Named(q) \cup (IF effect \in {"OPEN", "RESOLVED"} THEN {d} ELSE {})
    BY <2>2 DEF Named
  <2> QED
    BY <2>2, <2>3
<1>6. Current(r, active)
  <2>1. With(q, "OPEN") \cap active = {} /\ With(q, "RESOLVED") \subseteq active
    BY <1>0 DEF Current
  <2>2. With(y, "OPEN") \cap active = {} /\ With(y, "RESOLVED") \subseteq active
    <3> HIDE DEF y, q, d
    <3>1. With(y, "OPEN") \subseteq With(q, "OPEN") \cup (IF effect = "OPEN" THEN {d} ELSE {})
      BY <1>5
    <3>2. With(y, "RESOLVED") \subseteq With(q, "RESOLVED") \cup (IF effect = "RESOLVED" THEN {d} ELSE {})
      BY <1>5
    <3> QED
      BY <2>1, <3>1, <3>2 DEF d
  <2> QED
    BY <1>2, <2>2 DEF Current
<1>7. ASSUME NEW v \in Workers \ {w} PROVE Apart(r, worker[v])
  <2> SUFFICES ASSUME Open(worker[v]) PROVE Named(y) \cap Named(worker[v].results) = {}
    BY DEF Apart
  <2>1. Named(q) \cap Named(worker[v].results) = {}
    BY <1>0 DEF WritesInv, Apart
  <2>2. effect \in {"OPEN", "RESOLVED"} => d \notin Named(worker[v].results)
    BY DEF Pending, InTransaction, Open, Named, Written
  <2> HIDE DEF y, q, d
  <2> QED
    BY <1>5, <2>1, <2>2
<1> HIDE DEF r
<1> QED
  BY <1>1, <1>6, <1>7, OneWorkerWrites

LEMMA DecideWrites ==
  ASSUME WritesInv, AlertInv, NEW w \in Workers,
         OpenAlert(w) \/ ResolveAlert(w) \/ LeaveAlert(w)
  PROVE  WritesInv'
<1> DEFINE d == worker[w].device
<1>0. At(w, "decided") /\ active' = active
  BY DEF OpenAlert, ResolveAlert, LeaveAlert
<1>1. CASE OpenAlert(w)
  <2>1. CASE d \in active
    BY <1>0, <1>1, <2>1, IdleWrites DEF OpenAlert, Abort
  <2>2. CASE d \notin active
    <3>1. Write(w, "OPEN") /\ ~Pending(w, d)
      BY <1>1, <2>2 DEF OpenAlert
    <3> QED
      BY <1>0, <2>2, <3>1, WriteWrites
  <2> QED
    BY <2>1, <2>2
<1>2. CASE ResolveAlert(w)
  <2>1. CASE worker[w].existing = "active"
    <3>1. Write(w, "RESOLVED") /\ ~Pending(w, d)
      BY <1>2, <2>1 DEF ResolveAlert
    <3>2. d \in active
      BY <1>0, <2>1 DEF WritesInv, Current, At
    <3> QED
      BY <1>0, <3>1, <3>2, WriteWrites
  <2>2. CASE worker[w].existing # "active"
    <3>1. Write(w, "AGAIN")
      BY <1>2, <2>2 DEF ResolveAlert
    <3> QED
      BY <1>0, <3>1, WriteWrites
  <2> QED
    BY <2>1, <2>2
<1>3. CASE LeaveAlert(w)
  <2>1. Write(w, "none")
    BY <1>3 DEF LeaveAlert
  <2> QED
    BY <1>0, <2>1, WriteWrites
<1> QED
  BY <1>1, <1>2, <1>3

\* A commit changes no alert on which another transaction relies.
LEMMA CommitWrites ==
  ASSUME WritesInv, AlertInv, NEW w \in Workers, CommitEvaluation(w)
  PROVE  WritesInv'
<1> DEFINE s == worker[w]
           q == s.results
           resolved == With(q, "RESOLVED")
           opened == With(q, "OPEN")
<1>0. s.at = "evaluating" /\ Open(s) /\ active' = (active \ resolved) \cup opened
  BY DEF CommitEvaluation, At, Open
<1>1. opened \subseteq Named(q) /\ resolved \subseteq Named(q)
  BY DEF Named
<1>2. ~Open(worker'[w])
  <2>1. worker'[w] = Idle \/ worker'[w] = [s EXCEPT !.at = "publishing", !.results = ToAnnounce(q)]
    BY DEF CommitEvaluation, AfterCommit
  <2>2. s \in WorkerStates
    BY DEF AlertInv
  <2> HIDE DEF s
  <2>3. [s EXCEPT !.at = "publishing", !.results = ToAnnounce(q)].at = "publishing"
    BY <2>2 DEF WorkerStates
  <2>4. Idle.at = "idle"
    BY DEF Idle
  <2> QED
    BY <2>1, <2>3, <2>4 DEF Open
<1>3. ASSUME NEW v \in Workers, v # w
      PROVE  /\ worker'[v].at = worker[v].at /\ worker'[v].results = worker[v].results
             /\ worker'[v].device = worker[v].device
             /\ worker'[v].at = "decided" /\ worker'[v].existing = "active"
                  => worker[v].existing = "active" /\ worker[v].device \notin resolved
  <2> DEFINE u == worker[v]
  <2>1. IF u.at = "decided" /\ u.existing = "active" /\ u.device \in resolved
          THEN worker'[v] = [u EXCEPT !.existing = "gone"] ELSE worker'[v] = u
    BY <1>3 DEF CommitEvaluation, AfterCommit, At
  <2>2. u \in WorkerStates
    BY DEF AlertInv
  <2> HIDE DEF u, resolved
  <2>3. LET x == [u EXCEPT !.existing = "gone"] IN
        x.at = u.at /\ x.results = u.results /\ x.device = u.device /\ x.existing = "gone"
    BY <2>2 DEF WorkerStates
  <2> QED
    BY <2>1, <2>3 DEF u
<1>4. ASSUME NEW v \in Workers PROVE Current(worker'[v], active')
  <2>1. CASE v = w
    BY <1>2, <2>1 DEF Current, Open
  <2>2. CASE v # w
    <3> DEFINE u == worker[v]
               z == worker'[v]
    <3>1. Current(u, active) /\ (Open(u) => Named(q) \cap Named(u.results) = {})
      BY <1>0, <2>2 DEF WritesInv, Apart
    <3>2. /\ With(u.results, "OPEN") \subseteq Named(u.results)
          /\ With(u.results, "RESOLVED") \subseteq Named(u.results)
      BY DEF Named
    <3>3. z.at = u.at /\ z.results = u.results /\ z.device = u.device
          /\ (z.at = "decided" /\ z.existing = "active"
                => u.existing = "active" /\ u.device \notin resolved)
      BY <1>3, <2>2
    <3> HIDE DEF u, z, q, resolved, opened
    <3>4. Open(z) => With(z.results, "OPEN") \cap active' = {} /\ With(z.results, "RESOLVED") \subseteq active'
      <4> SUFFICES ASSUME Open(u)
                   PROVE  With(u.results, "OPEN") \cap active' = {} /\ With(u.results, "RESOLVED") \subseteq active'
        BY <3>3 DEF Open
      <4>1. With(u.results, "OPEN") \cap active = {} /\ With(u.results, "RESOLVED") \subseteq active
        BY <3>1 DEF Current
      <4>2. With(u.results, "OPEN") \cap opened = {} /\ With(u.results, "RESOLVED") \cap resolved = {}
        BY <1>1, <3>1, <3>2
      <4> QED
        BY <1>0, <4>1, <4>2
    <3>5. z.at = "decided" /\ z.existing = "active" => z.device \in active'
      BY <1>0, <3>1, <3>3 DEF Current
    <3> QED
      BY <3>4, <3>5 DEF Current, z
  <2> QED
    BY <2>1, <2>2
<1>5. ASSUME NEW v \in Workers, NEW u \in Workers, v # u PROVE Apart(worker'[v], worker'[u])
  <2>1. CASE v = w \/ u = w
    BY <1>2, <2>1 DEF Apart
  <2>2. CASE v # w /\ u # w
    <3>1. Apart(worker[v], worker[u])
      BY <1>5 DEF WritesInv
    <3>2. worker'[v].at = worker[v].at /\ worker'[v].results = worker[v].results
      BY <1>3, <2>2
    <3>3. worker'[u].at = worker[u].at /\ worker'[u].results = worker[u].results
      BY <1>3, <2>2
    <3> QED
      BY <3>1, <3>2, <3>3 DEF Apart, Open
  <2> QED
    BY <2>1, <2>2
<1> QED
  BY <1>4, <1>5 DEF WritesInv, Current, Apart, Open, Named, With

LEMMA PublishWrites ==
  ASSUME WritesInv, AlertInv, NEW w \in Workers, Publish(w)
  PROVE  WritesInv'
<1> DEFINE r == worker'[w]
<1>1. worker' = [worker EXCEPT ![w] = r] /\ active' = active
  BY DEF Publish, AlertInv
<1>2. ~Open(r) /\ r.at # "decided"
  <2> DEFINE s == worker[w]
  <2>1. s \in WorkerStates /\ s.at = "publishing"
    BY DEF AlertInv, Publish, At
  <2>2. r = Idle \/ r = [s EXCEPT !.results = Tail(s.results)]
    BY DEF Publish, AlertInv
  <2> HIDE DEF s, r
  <2>3. [s EXCEPT !.results = Tail(s.results)].at = "publishing"
    BY <2>1 DEF WorkerStates
  <2>4. Idle.at = "idle"
    BY DEF Idle
  <2> QED
    BY <2>2, <2>3, <2>4 DEF Open
<1> HIDE DEF r
<1>3. Current(r, active) /\ \A v \in Workers \ {w} : Apart(r, worker[v])
  BY <1>2 DEF Current, Apart
<1> QED
  BY <1>1, <1>3, OneWorkerWrites

LEMMA InitWrites == AlertInit => WritesInv
<1> SUFFICES ASSUME AlertInit PROVE WritesInv
  OBVIOUS
<1>1. Idle.results = <<>> /\ Idle.at # "decided"
  BY DEF Idle
<1>2. Current(Idle, {}) /\ Apart(Idle, Idle)
  BY <1>1, NothingWritten
<1> QED
  BY <1>2 DEF WritesInv, AlertInit

LEMMA SameWrites ==
  ASSUME WritesInv, worker' = worker, active' = active
  PROVE  WritesInv'
<1>1. \A w \in Workers : Current(worker'[w], active')
  BY DEF WritesInv
<1>2. \A v, w \in Workers : v # w => Apart(worker'[v], worker'[w])
  BY DEF WritesInv
<1> QED
  BY <1>1, <1>2 DEF WritesInv, Current, Apart, Open, Named, With
-----------------------------------------------------------------------------
(* The connections.                                                         *)

RealtimeInv == RealtimeTypeOK /\ NoAlertLost

\* RealtimeInv, said console by console.
Linked(v, lk, ch, bf, ow) ==
  /\ lk \in {"closed", "open"}
  /\ ch \in Seq({Telemetry} \cup AlertEvents) /\ Len(ch) <= MaxChannel
  /\ bf \in Seq(Events) /\ Len(bf) <= Capacity
  /\ ow \in Seq(AlertEvents)
  /\ ow = OnItsWay(bf, ch)

LinkTypes ==
  /\ link \in [Consoles -> {"closed", "open"}]
  /\ channel \in [Consoles -> Seq({Telemetry} \cup AlertEvents)]
  /\ buffer \in [Consoles -> Seq(Events)]
  /\ owed \in [Consoles -> Seq(AlertEvents)]

AllLinked == \A v \in Consoles : Linked(v, link[v], channel[v], buffer[v], owed[v])

LEMMA RealtimeInvIsTheParts == RealtimeInv <=> LinkTypes /\ AllLinked
  BY DEF RealtimeInv, RealtimeTypeOK, NoAlertLost, LinkTypes, AllLinked, Linked, OnItsWay, Events

LEMMA NothingLinked ==
  ASSUME NEW v, NEW lk \in {"closed", "open"}
  PROVE  Linked(v, lk, <<>>, <<>>, <<>>)
<1>1. /\ <<>> \in Seq({Telemetry} \cup AlertEvents) /\ <<>> \in Seq(Events)
      /\ <<>> \in Seq(AlertEvents) /\ Len(<<>>) = 0
  OBVIOUS
<1>2. <<>> \o <<>> = <<>>
  OBVIOUS
<1>3. OnItsWay(<<>>, <<>>) = <<>>
  BY <1>2, AlertsSmall DEF OnItsWay
<1> QED
  BY <1>1, <1>3, CapacityAssumption DEF Linked

LEMMA InitRealtimeInv == RealtimeInit => LinkTypes /\ AllLinked
<1> SUFFICES ASSUME RealtimeInit PROVE LinkTypes /\ AllLinked
  OBVIOUS
<1>1. LinkTypes
  BY DEF RealtimeInit, LinkTypes
<1>2. AllLinked
  BY NothingLinked DEF RealtimeInit, AllLinked
<1> QED
  BY <1>1, <1>2

\* A step that changes one console only.
LEMMA OneConsoleMoves ==
  ASSUME LinkTypes, AllLinked, NEW v \in Consoles, NEW lk, NEW ch, NEW bf, NEW ow,
         Linked(v, lk, ch, bf, ow),
         link' = [link EXCEPT ![v] = lk], channel' = [channel EXCEPT ![v] = ch],
         buffer' = [buffer EXCEPT ![v] = bf], owed' = [owed EXCEPT ![v] = ow]
  PROVE  LinkTypes' /\ AllLinked'
<1>1. LinkTypes'
  <2>1. /\ lk \in {"closed", "open"} /\ ch \in Seq({Telemetry} \cup AlertEvents)
        /\ bf \in Seq(Events) /\ ow \in Seq(AlertEvents)
    BY DEF Linked
  <2> QED
    BY <2>1 DEF LinkTypes, AlertEvents, Events, Telemetry, Pong, Alert, Event
<1>2. ASSUME NEW u \in Consoles PROVE Linked(u, link'[u], channel'[u], buffer'[u], owed'[u])
  <2>1. CASE u = v
    <3>1. link'[u] = lk /\ channel'[u] = ch /\ buffer'[u] = bf /\ owed'[u] = ow
      BY <2>1 DEF LinkTypes
    <3> QED
      BY <2>1, <3>1
  <2>2. CASE u # v
    <3>1. link'[u] = link[u] /\ channel'[u] = channel[u] /\ buffer'[u] = buffer[u] /\ owed'[u] = owed[u]
      BY <2>2 DEF LinkTypes
    <3> QED
      BY <3>1 DEF AllLinked
  <2> QED
    BY <2>1, <2>2
<1>3. AllLinked'
  BY <1>2 DEF AllLinked, Linked, AlertEvents, Events, Telemetry, Pong, Alert, Event
<1> QED
  BY <1>1, <1>3

LEMMA CloseRealtimeInv ==
  ASSUME LinkTypes, AllLinked, NEW v \in Consoles, Close(v)
  PROVE  LinkTypes' /\ AllLinked'
<1>1. "closed" \in {"closed", "open"}
  OBVIOUS
<1> QED
  BY <1>1, NothingLinked, OneConsoleMoves DEF Close

LEMMA ConnectRealtimeInv ==
  ASSUME LinkTypes, AllLinked, NEW v \in Consoles, Connect(v)
  PROVE  LinkTypes' /\ AllLinked'
<1>1. Linked(v, "open", channel[v], buffer[v], owed[v])
  BY DEF AllLinked, Linked
<1>2. /\ link' = [link EXCEPT ![v] = "open"]
      /\ channel' = [channel EXCEPT ![v] = channel[v]]
      /\ buffer' = [buffer EXCEPT ![v] = buffer[v]]
      /\ owed' = [owed EXCEPT ![v] = owed[v]]
  BY DEF Connect, LinkTypes
<1> QED
  BY <1>1, <1>2, OneConsoleMoves

LEMMA ChannelEvents ==
  ASSUME NEW c \in Seq({Telemetry} \cup AlertEvents)
  PROVE  c \in Seq(Events)
  BY SeqMonotonic DEF Events

LEMMA ReceiveRealtimeInv ==
  ASSUME LinkTypes, AllLinked, NEW v \in Consoles, ReceiveRedis(v)
  PROVE  LinkTypes' /\ AllLinked'
<1> DEFINE b == buffer[v]
           c == channel[v]
           e == Head(c)
           t == Tail(c)
<1>0. Linked(v, link[v], c, b, owed[v]) /\ c # <<>>
  BY DEF AllLinked, ReceiveRedis
<1>1. CASE IsAlert(e) /\ Refuses(b, e)
  BY <1>1, CloseRealtimeInv DEF ReceiveRedis
<1>2. CASE ~ (IsAlert(e) /\ Refuses(b, e))
  <2>1. /\ channel' = [channel EXCEPT ![v] = t]
        /\ buffer' = [buffer EXCEPT ![v] = Put(b, e)]
        /\ link' = link /\ owed' = owed
    BY <1>2 DEF ReceiveRedis
  <2>2. /\ link' = [link EXCEPT ![v] = link[v]]
        /\ owed' = [owed EXCEPT ![v] = owed[v]]
    BY <2>1 DEF LinkTypes
  <2>3. /\ c \in Seq(Events) /\ b \in Seq(Events) /\ Len(b) <= Capacity
        /\ c \in Seq({Telemetry} \cup AlertEvents) /\ Len(c) <= MaxChannel
    BY <1>0, ChannelEvents DEF Linked
  <2>4. t \in Seq({Telemetry} \cup AlertEvents) /\ Len(t) = Len(c) - 1
    <3> HIDE DEF c
    <3> QED
      BY <1>0, <2>3, HeadTailProperties
  <2>5. e \in Events
    <3> HIDE DEF c
    <3> QED
      BY <1>0, <2>3, HeadTailProperties
  <2> HIDE DEF b, c
  <2>6. OnItsWay(Put(b, e), t) = OnItsWay(b, c)
    BY <1>0, <1>2, <2>3, ReceiveOnItsWay
  <2> HIDE DEF e
  <2>7. Put(b, e) \in Seq(Events) /\ Len(Put(b, e)) <= Capacity
    BY <2>3, <2>5, PutFacts
  <2>8. Len(t) <= MaxChannel
    <3>1. Len(c) \in Nat /\ MaxChannel \in Nat
      BY <2>3, CapacityAssumption
    <3> QED
      BY <2>3, <2>4, <3>1
  <2> HIDE DEF t
  <2>9. Linked(v, link[v], t, Put(b, e), owed[v])
    BY <1>0, <2>4, <2>6, <2>7, <2>8 DEF Linked
  <2> QED
    BY <2>1, <2>2, <2>9, OneConsoleMoves
<1> QED
  BY <1>1, <1>2

LEMMA SendRealtimeInv ==
  ASSUME LinkTypes, AllLinked, NEW v \in Consoles, SendClient(v)
  PROVE  LinkTypes' /\ AllLinked'
<1> DEFINE b == buffer[v]
           c == channel[v]
           t == Tail(b)
           o == IF IsAlert(Head(b)) THEN Tail(owed[v]) ELSE owed[v]
<1>0. Linked(v, link[v], c, b, owed[v]) /\ b # <<>>
  BY DEF AllLinked, SendClient
<1>1. /\ link' = [link EXCEPT ![v] = link[v]] /\ channel' = [channel EXCEPT ![v] = c]
      /\ buffer' = [buffer EXCEPT ![v] = t] /\ owed' = [owed EXCEPT ![v] = o]
  BY DEF SendClient, LinkTypes
<1>2. /\ c \in Seq(Events) /\ b \in Seq(Events) /\ Len(b) <= Capacity
      /\ owed[v] = OnItsWay(b, c) /\ owed[v] \in Seq(AlertEvents)
  BY <1>0, ChannelEvents DEF Linked
<1>3. t \in Seq(Events) /\ Len(t) = Len(b) - 1 /\ Len(t) <= Capacity
  <2> HIDE DEF b
  <2>1. Len(b) \in Nat /\ Capacity \in Nat
    BY <1>2, CapacityAssumption
  <2> QED
    BY <1>0, <1>2, <2>1, HeadTailProperties
<1>4. o = OnItsWay(t, c)
  <2> HIDE DEF b, c
  <2>1. /\ ~IsAlert(Head(b)) => OnItsWay(Tail(b), c) = OnItsWay(b, c)
        /\ IsAlert(Head(b)) => OnItsWay(Tail(b), c) = Tail(OnItsWay(b, c))
    BY <1>0, <1>2, SendOnItsWay
  <2> QED
    BY <1>2, <2>1
<1>5. o \in Seq(AlertEvents)
  <2>1. CASE ~IsAlert(Head(b))
    BY <1>2, <2>1
  <2>2. CASE IsAlert(Head(b))
    <3>1. owed[v] # <<>>
      <4> HIDE DEF b, c
      <4>1. Head(b) \in Events /\ Tail(b) \in Seq(Events)
        BY <1>0, <1>2, HeadTailProperties
      <4>2. Alerts(b) = <<Head(b)>> \o Alerts(Tail(b)) /\ Alerts(Tail(b)) \in Seq(Events)
        BY <1>0, <1>2, <2>2, <4>1, AlertsHead, OnItsWayFacts
      <4> DEFINE h == Head(b)
                 x == Alerts(Tail(b))
                 y == Alerts(c)
      <4>3. y \in Seq(Events) /\ OnItsWay(b, c) = Alerts(b) \o y
        BY <1>2, OnItsWayFacts
      <4>4. OnItsWay(b, c) = (<<h>> \o x) \o y /\ x \in Seq(Events) /\ h \in Events
        BY <4>1, <4>2, <4>3
      <4> HIDE DEF h, x, y
      <4>5. Len((<<h>> \o x) \o y) # 0
        BY <4>3, <4>4
      <4> QED
        BY <1>2, <4>4, <4>5
    <3> QED
      BY <1>2, <2>2, <3>1, HeadTailProperties
  <2> QED
    BY <2>1, <2>2
<1>6. Linked(v, link[v], c, t, o)
  <2> HIDE DEF b, t, o, c
  <2> QED
    BY <1>0, <1>3, <1>4, <1>5 DEF Linked
<1> QED
  BY <1>1, <1>6, OneConsoleMoves

LEMMA PongRealtimeInv ==
  ASSUME LinkTypes, AllLinked, NEW v \in Consoles, ReceiveClient(v)
  PROVE  LinkTypes' /\ AllLinked'
<1> DEFINE b == buffer[v]
           c == channel[v]
<1>0. Linked(v, link[v], c, b, owed[v])
  BY DEF AllLinked
<1>1. /\ link' = [link EXCEPT ![v] = link[v]] /\ channel' = [channel EXCEPT ![v] = c]
      /\ buffer' = [buffer EXCEPT ![v] = Put(b, Pong)] /\ owed' = [owed EXCEPT ![v] = owed[v]]
  BY DEF ReceiveClient, LinkTypes
<1>2. c \in Seq(Events) /\ b \in Seq(Events) /\ Len(b) <= Capacity /\ Pong \in Events
  BY <1>0, ChannelEvents DEF Linked, Events
<1> HIDE DEF b, c
<1>3. Put(b, Pong) \in Seq(Events) /\ Len(Put(b, Pong)) <= Capacity
  BY <1>2, PutFacts
<1>4. OnItsWay(Put(b, Pong), c) = OnItsWay(b, c)
  BY <1>2, PongOnItsWay
<1>5. Linked(v, link[v], c, Put(b, Pong), owed[v])
  BY <1>0, <1>3, <1>4 DEF Linked
<1> QED
  BY <1>1, <1>5, OneConsoleMoves

\* A closed connection is owed nothing, an open one what was published.
LEMMA BroadcastRealtimeInv ==
  ASSUME LinkTypes, AllLinked, NEW e \in {Telemetry} \cup AlertEvents, Broadcast(e)
  PROVE  LinkTypes' /\ AllLinked'
<1> DEFINE ch(v) == IF link[v] = "open" THEN Append(channel[v], e) ELSE channel[v]
           ow(v) == IF link[v] = "open" /\ IsAlert(e) THEN Append(owed[v], e) ELSE owed[v]
<1>1. /\ channel' = [v \in Consoles |-> ch(v)] /\ owed' = [v \in Consoles |-> ow(v)]
      /\ link' = link /\ buffer' = buffer
  BY DEF Broadcast
<1>2. ASSUME NEW v \in Consoles PROVE Linked(v, link[v], ch(v), buffer[v], ow(v))
  <2> DEFINE c == channel[v]
             b == buffer[v]
  <2>0. Linked(v, link[v], c, b, owed[v]) /\ Len(c) < MaxChannel
    BY DEF AllLinked, Broadcast
  <2>1. CASE link[v] # "open"
    BY <2>0, <2>1
  <2>2. CASE link[v] = "open"
    <3> DEFINE o == owed[v]
    <3>1. /\ c \in Seq({Telemetry} \cup AlertEvents) /\ b \in Seq(Events) /\ o \in Seq(AlertEvents)
          /\ c \in Seq(Events) /\ e \in Events /\ o = OnItsWay(b, c)
      BY <2>0, ChannelEvents DEF Linked, Events
    <3>2. ch(v) = Append(c, e) /\ ow(v) = IF IsAlert(e) THEN Append(o, e) ELSE o
      BY <2>2
    <3> HIDE DEF c, b, o, ch, ow
    <3>3. Append(c, e) \in Seq({Telemetry} \cup AlertEvents) /\ Len(Append(c, e)) = Len(c) + 1
      BY <3>1, AppendProperties
    <3>4. Len(Append(c, e)) <= MaxChannel
      <4>1. Len(c) \in Nat /\ MaxChannel \in Nat
        BY <3>1, CapacityAssumption
      <4> QED
        BY <2>0, <3>3, <4>1
    <3>5. OnItsWay(b, Append(c, e)) = IF IsAlert(e) THEN Append(o, e) ELSE o
      BY <3>1, BroadcastOnItsWay
    <3>6. ow(v) \in Seq(AlertEvents)
      <4>1. CASE IsAlert(e)
        <5>1. e \in AlertEvents
          BY <4>1, EventFacts
        <5> QED
          BY <3>1, <3>2, <4>1, <5>1, AppendProperties
      <4>2. CASE ~IsAlert(e)
        BY <3>1, <3>2, <4>2
      <4> QED
        BY <4>1, <4>2
    <3>7. ow(v) = OnItsWay(b, ch(v))
      BY <3>2, <3>5
    <3> QED
      BY <2>0, <3>2, <3>3, <3>4, <3>6, <3>7 DEF Linked, b
  <2> QED
    BY <2>1, <2>2
<1> HIDE DEF ch, ow
<1>3. LinkTypes'
  BY <1>1, <1>2 DEF Linked, LinkTypes, AlertEvents, Events, Telemetry, Pong, Alert, Event
<1>4. AllLinked'
  BY <1>1, <1>2 DEF AllLinked, Linked, AlertEvents, Events, Telemetry, Pong, Alert, Event
<1> QED
  BY <1>3, <1>4
-----------------------------------------------------------------------------
(* The whole.                                                               *)

LEMMA InvIsTheParts ==
  MonitoringInv <=> (AlertInv /\ WritesInv) /\ (LinkTypes /\ AllLinked)
  BY AlertInvIsTheParts, WritesInvIsTheParts, RealtimeInvIsTheParts
     DEF MonitoringInv, MonitoringTypeOK, RealtimeInv

LEMMA NextKeepsInv ==
  ASSUME MonitoringInv, Next
  PROVE  MonitoringInv'
<1> DEFINE OfWorkers == AlertInv /\ WritesInv
           OfConsoles == LinkTypes /\ AllLinked
<1>0. AlertInv /\ WritesInv /\ LinkTypes /\ AllLinked
  BY InvIsTheParts
<1>a. (AlertInv /\ WritesInv)' /\ (LinkTypes /\ AllLinked)' => MonitoringInv'
  BY InvIsTheParts, PTL
<1>b. UNCHANGED realtimeVars => LinkTypes' /\ AllLinked'
  BY <1>0 DEF realtimeVars, LinkTypes, AllLinked, Linked, AlertEvents, Events, Telemetry, Pong,
              Alert, Event
<1>c. ASSUME UNCHANGED alertVars PROVE AlertInv' /\ WritesInv'
  <2>1. /\ rule' = rule /\ sample' = sample /\ active' = active /\ worker' = worker
        /\ faults' = faults
    BY <1>c DEF alertVars
  <2>2. /\ rule' \in BOOLEAN /\ active' \subseteq Devices /\ faults' \in 0..MaxFaults
        /\ sample' \in [Devices -> [Ages -> {"none", "high", "low"}]]
    BY <1>0, <2>1 DEF AlertInv
  <2> QED
    BY <1>0, <2>1, <2>2, NoWorkerMoves, SameWrites
<1>1. ASSUME NEW w \in Workers, Transaction(w), UNCHANGED realtimeVars
      PROVE  OfWorkers' /\ OfConsoles'
  <2>1. AlertInv'
    BY <1>0, <1>1, ReadAlertInv, DecideAlertInv, CommitAlertInv DEF Transaction
  <2>2. WritesInv'
    BY <1>0, <1>1, ReadWrites, DecideWrites, CommitWrites DEF Transaction
  <2> QED
    BY <1>b, <1>1, <2>1, <2>2
<1>2. ASSUME NEW w \in Workers, Announce(w) PROVE OfWorkers' /\ OfConsoles'
  <2>1. AlertInv' /\ NoticeOf(w) \in Devices
    BY <1>0, <1>2, PublishAlertInv DEF Announce
  <2>2. WritesInv'
    BY <1>0, <1>2, PublishWrites DEF Announce
  <2>3. Alert(NoticeOf(w)) \in {Telemetry} \cup AlertEvents
    BY <2>1, NoticesAssumption DEF AlertEvents
  <2>4. LinkTypes' /\ AllLinked'
    BY <1>0, <1>b, <1>2, <2>3, BroadcastRealtimeInv DEF Announce
  <2> QED
    BY <2>1, <2>2, <2>4
<1>3. ASSUME NEW w \in Workers, FailCycle(w), UNCHANGED realtimeVars
      PROVE  OfWorkers' /\ OfConsoles'
  <2>1. AlertInv'
    BY <1>0, <1>3, FailAlertInv
  <2>2. worker' = [worker EXCEPT ![w] = Idle] /\ active' = active
    BY <1>3 DEF FailCycle, Abort
  <2>3. WritesInv'
    BY <1>0, <2>2, IdleWrites
  <2> QED
    BY <1>b, <1>3, <2>1, <2>3
<1>4. ASSUME CreateRule \/ Tick
             \/ (\E d \in Devices, a \in Ages, v \in {"high", "low"} : StoreSample(d, a, v)),
             UNCHANGED realtimeVars
      PROVE  OfWorkers' /\ OfConsoles'
  <2>1. AlertInv'
    BY <1>0, <1>4, DataAlertInv
  <2>2. worker' = worker /\ active' = active
    BY <1>4 DEF CreateRule, Tick, StoreSample
  <2>3. WritesInv'
    BY <1>0, <2>2, SameWrites
  <2> QED
    BY <1>b, <1>4, <2>1, <2>3
<1>5. ASSUME RealtimeStep, UNCHANGED alertVars
      PROVE  OfWorkers' /\ OfConsoles'
  <2>1. ASSUME NEW v \in Consoles,
               Connect(v) \/ ReceiveRedis(v) \/ SendClient(v) \/ ReceiveClient(v) \/ Disconnect(v)
        PROVE  LinkTypes' /\ AllLinked'
    BY <1>0, <2>1, ConnectRealtimeInv, ReceiveRealtimeInv, SendRealtimeInv, PongRealtimeInv,
       CloseRealtimeInv DEF Disconnect
  <2>2. ASSUME Broadcast(Telemetry) PROVE LinkTypes' /\ AllLinked'
    BY <1>0, <2>2, BroadcastRealtimeInv
  <2>3. LinkTypes' /\ AllLinked'
    BY <1>5, <2>1, <2>2 DEF RealtimeStep
  <2> QED
    BY <1>c, <1>5, <2>3
<1>6. OfWorkers' /\ OfConsoles'
  <2> HIDE DEF OfWorkers, OfConsoles
  <2> QED
    BY <1>1, <1>2, <1>3, <1>4, <1>5 DEF Next, WorkerStep
<1> QED
  BY <1>a, <1>6

\* A step that changes nothing.
LEMMA StutterKeepsInv ==
  ASSUME MonitoringInv, UNCHANGED vars
  PROVE  MonitoringInv'
<1>1. /\ worker' = worker /\ active' = active /\ rule' = rule /\ sample' = sample
      /\ faults' = faults
      /\ link' = link /\ channel' = channel /\ buffer' = buffer /\ owed' = owed
  BY DEF vars, alertVars, realtimeVars
<1>2. AlertInv /\ WritesInv
  BY InvIsTheParts
<1>3. WritesInv'
  BY <1>1, <1>2, SameWrites
<1>4. WritesInv' => ApartInv' /\ WritesHold'
  BY WritesInvIsTheParts, PTL
<1> QED
  BY <1>1, <1>3, <1>4 DEF MonitoringInv, MonitoringTypeOK, AlertTypeOK, RealtimeTypeOK, WorkerInv,
     NoAlertLost, OncePerDevice, Effects, Ages, At, AlertEvents, Telemetry, Pong, Alert, Event

\* The inductive invariant of the workers, the events they publish and the consoles.
THEOREM Invariance == Spec => []MonitoringInv
<1>1. Init => MonitoringInv
  BY InitAlertInv, InitWrites, InitRealtimeInv, InvIsTheParts DEF Init
<1>2. MonitoringInv /\ [Next]_vars => MonitoringInv'
  BY NextKeepsInv, StutterKeepsInv
<1> QED
  BY <1>1, <1>2, PTL DEF Spec

\* A cycle writes each device at most once and a buffer never exceeds its capacity
\* (postgres.py, evaluate_alerts; hub.py, BoundedClientBuffer.put).
THEOREM TypeCorrect == Spec => []MonitoringTypeOK
  BY Invariance, PTL DEF MonitoringInv

\* Only the commit of a worker takes it from its evaluation to what it announces.
LEMMA OnlyCommitsCommit ==
  ASSUME AlertInv, Next, NEW w \in Workers, Commits(w)
  PROVE  CommitEvaluation(w)
<1>1. worker[w] \in WorkerStates /\ worker[w].at = "evaluating" /\ worker'[w].at = "publishing"
  BY DEF AlertInv, Commits, At
<1>2. worker'[w].at # worker[w].at
  BY <1>1
<1>3. ASSUME NEW v \in Workers, NEW x, worker' = [worker EXCEPT ![v] = x], x.at # "publishing"
      PROVE  FALSE
  <2>1. worker'[w] = IF v = w THEN x ELSE worker[w]
    BY <1>3 DEF AlertInv
  <2> QED
    BY <1>1, <1>2, <1>3, <2>1
<1>4. ASSUME NEW v \in Workers,
             StartEvaluation(v) \/ ReadSamples(v) \/ ReadExisting(v) \/ OpenAlert(v)
               \/ ResolveAlert(v) \/ LeaveAlert(v) \/ FailCycle(v)
      PROVE  FALSE
  <2> DEFINE s == worker[v]
             x == worker'[v]
  <2>0. s \in WorkerStates
    BY DEF AlertInv
  <2>1. worker' = [worker EXCEPT ![v] = x]
    BY <1>4 DEF StartEvaluation, ReadSamples, ReadExisting, OpenAlert, ResolveAlert, LeaveAlert,
       FailCycle, Write, Abort, AlertInv
  <2>2. CASE StartEvaluation(v) \/ ReadSamples(v) \/ ReadExisting(v)
    <3>0. \/ x = [s EXCEPT !.at = "evaluating", !.todo = Reporting]
          \/ \E d \in s.todo : x = [s EXCEPT !.at = "judged", !.device = d, !.verdict = Triggered(d)]
          \/ x = [s EXCEPT !.at = "decided",
                           !.existing = IF s.device \in active THEN "active" ELSE "none"]
      BY <2>2 DEF StartEvaluation, ReadSamples, ReadExisting, AlertInv
    <3>1. x.at # "publishing"
      <4> HIDE DEF x, s
      <4> QED
        BY <2>0, <3>0 DEF WorkerStates
    <3> HIDE DEF x
    <3> QED
      BY <1>3, <2>1, <3>1
  <2>3. CASE OpenAlert(v) \/ ResolveAlert(v) \/ LeaveAlert(v) \/ FailCycle(v)
    <3>1. Abort(v) \/ \E effect \in {"OPEN", "RESOLVED", "AGAIN", "none"} : Write(v, effect)
      BY <2>3 DEF OpenAlert, ResolveAlert, LeaveAlert, FailCycle
    <3>2. x.at # "publishing"
      BY <2>0, <3>1 DEF Abort, Write, Idle, WorkerStates, AlertInv
    <3> HIDE DEF x
    <3> QED
      BY <1>3, <2>1, <3>2
  <2> QED
    BY <1>4, <2>2, <2>3
<1>5. ASSUME NEW v \in Workers, Publish(v) PROVE FALSE
  <2>1. v # w
    BY <1>1, <1>5 DEF Publish, At
  <2> QED
    BY <1>2, <1>5, <2>1 DEF Publish, AlertInv
<1>6. ASSUME NEW v \in Workers, CommitEvaluation(v), v # w PROVE FALSE
  <2>1. worker'[w] = worker[w]
    BY <1>1, <1>6 DEF CommitEvaluation, AfterCommit, At
  <2> QED
    BY <1>2, <2>1
<1>7. ASSUME CreateRule \/ Tick
               \/ (\E d \in Devices, a \in Ages, v \in {"high", "low"} : StoreSample(d, a, v))
               \/ UNCHANGED alertVars
      PROVE  FALSE
  BY <1>2, <1>7 DEF CreateRule, Tick, StoreSample, alertVars
<1> QED
  BY <1>4, <1>5, <1>6, <1>7 DEF Next, WorkerStep, Transaction, Announce

\* What a worker commits about the alerts is true of them at that moment: it opens one
\* only for a device that has none, resolves only those that are open, and touches no
\* other, however the reads and commits of several workers interleave (postgres.py,
\* evaluate_alerts).
THEOREM CommitsStayCurrent == Spec => CommitsAreCurrent
<1> DEFINE TrueWhenMade == \A w \in Workers : Commits(w) =>
             \A d \in Devices :
               IF d \in With(worker[w].results, "OPEN") THEN d \notin active /\ d \in active'
               ELSE IF d \in With(worker[w].results, "RESOLVED") THEN d \in active /\ d \notin active'
               ELSE d \in active' <=> d \in active
<1>1. MonitoringInv /\ [Next]_vars => [TrueWhenMade]_alertVars
  <2> SUFFICES ASSUME MonitoringInv, [Next]_vars, alertVars' # alertVars,
                      NEW w \in Workers, Commits(w), NEW d \in Devices
               PROVE
                  IF d \in With(worker[w].results, "OPEN") THEN d \notin active /\ d \in active'
                  ELSE IF d \in With(worker[w].results, "RESOLVED") THEN d \in active /\ d \notin active'
                  ELSE d \in active' <=> d \in active
    OBVIOUS
  <2>1. Next /\ AlertInv
    BY InvIsTheParts DEF vars
  <2>2. CommitEvaluation(w)
    BY <2>1, OnlyCommitsCommit
  <2> DEFINE opened == With(worker[w].results, "OPEN")
             resolved == With(worker[w].results, "RESOLVED")
  <2>3. active' = (active \ resolved) \cup opened
    BY <2>2 DEF CommitEvaluation
  <2>4. opened \cap active = {} /\ resolved \subseteq active
    BY <2>2 DEF MonitoringInv, WritesHold, InTransaction, CommitEvaluation, At
  <2> HIDE DEF opened, resolved
  <2> QED
    BY <2>3, <2>4 DEF opened, resolved
<1> QED
  BY <1>1, Invariance, PTL DEF CommitsAreCurrent, Spec

\* While a console stays connected no alert published to it is lost, repeated or
\* overtaken, whatever its buffer displaces (hub.py, serve).
THEOREM AlertsArrive == Spec => []NoAlertLost
  BY Invariance, PTL DEF MonitoringInv
================================================================================
