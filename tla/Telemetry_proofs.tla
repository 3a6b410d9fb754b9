---------------------------- MODULE Telemetry_proofs ----------------------------
(***************************************************************************)
(* Proofs about AgentQueue and Telemetry, for any sizes, quotas and limits. *)
(***************************************************************************)
EXTENDS Telemetry, FiniteSetTheorems, WellFoundedInduction, TLAPS

-----------------------------------------------------------------------------
(* Induction over the naturals, on a set of them.                           *)

LEMMA SetInduction ==
  ASSUME NEW S, 0 \in S, \A n \in Nat : n \in S => n + 1 \in S
  PROVE  Nat \subseteq S
<1> DEFINE T == Nat \ S
<1>1. SUFFICES ASSUME T # {} PROVE FALSE
  OBVIOUS
<1>2. PICK x \in T : \A y \in T : ~ (<<y, x>> \in OpToRel(<, Nat))
  <2>1. T \subseteq Nat
    OBVIOUS
  <2> HIDE DEF T
  <2> QED
    BY <1>1, <2>1, WFMin, NatLessThanWellFounded
<1>3. x \in Nat /\ x # 0 /\ x \notin S
  OBVIOUS
<1>4. x - 1 \in Nat /\ x - 1 < x /\ (x - 1) + 1 = x
  BY <1>3
<1>5. x - 1 \in T
  BY <1>3, <1>4
<1>6. <<x - 1, x>> \in OpToRel(<, Nat)
  BY <1>3, <1>4 DEF OpToRel
<1> QED
  BY <1>2, <1>5, <1>6

\* A set of naturals that is not empty has a least element.
LEMMA MinFacts ==
  ASSUME NEW S, S \subseteq Nat, S # {}
  PROVE  Min(S) \in S /\ \A x \in S : Min(S) <= x
<1>1. PICK x \in S : \A y \in S : ~ (<<y, x>> \in OpToRel(<, Nat))
  BY WFMin, NatLessThanWellFounded
<1>2. \A y \in S : x <= y
  <2> SUFFICES ASSUME NEW y \in S, ~(x <= y) PROVE FALSE
    OBVIOUS
  <2>1. x \in Nat /\ y \in Nat /\ y < x
    OBVIOUS
  <2>2. <<y, x>> \in OpToRel(<, Nat)
    BY <2>1 DEF OpToRel
  <2> QED
    BY <1>1, <2>2
<1> QED
  BY <1>2 DEF Min
-----------------------------------------------------------------------------
(* What Keep leaves of a sequence.                                          *)

LEMMA AppendFacts ==
  ASSUME NEW R, NEW q \in Seq(R), NEW r \in R
  PROVE  /\ Append(q, r) \in Seq(R)
         /\ ToSet(Append(q, r)) = ToSet(q) \cup {r}
         /\ Distinct(q) /\ r \notin ToSet(q) => Distinct(Append(q, r))
<1> DEFINE x == Append(q, r)
<1>1. x \in Seq(R) /\ Len(q) \in Nat /\ Len(x) = Len(q) + 1 /\ DOMAIN q = 1..Len(q)
  OBVIOUS
<1>2. DOMAIN x = DOMAIN q \cup {Len(q) + 1} /\ x[Len(q) + 1] = r
  OBVIOUS
<1>3. \A i \in DOMAIN q : x[i] = q[i]
  OBVIOUS
<1> HIDE DEF x
<1>4. ToSet(x) = ToSet(q) \cup {r}
  BY <1>2, <1>3 DEF ToSet
<1>5. ASSUME Distinct(q), r \notin ToSet(q) PROVE Distinct(x)
  BY <1>2, <1>3, <1>5 DEF Distinct, ToSet
<1> QED
  BY <1>1, <1>4, <1>5 DEF x

\* One step of the recursion in Kept.
Chosen(q, S, k, n) ==
  IF n = 0 THEN <<>> ELSE IF q[n] \in S THEN Append(k[n - 1], q[n]) ELSE k[n - 1]

LEMMA KeptExists ==
  ASSUME NEW R, NEW q \in Seq(R), NEW S
  PROVE  \E k \in [0..Len(q) -> Seq(R)] : \A n \in 0..Len(q) : k[n] = Chosen(q, S, k, n)
<1> DEFINE G == {m \in Nat : m <= Len(q) =>
                   \E k \in [0..m -> Seq(R)] : \A n \in 0..m : k[n] = Chosen(q, S, k, n)}
<1>1. 0 \in G
  <2>1. <<>> \in Seq(R)
    OBVIOUS
  <2>2. [n \in 0..0 |-> <<>>] \in [0..0 -> Seq(R)]
    BY <2>1
  <2>3. \A n \in 0..0 : [m \in 0..0 |-> <<>>][n] = Chosen(q, S, [m \in 0..0 |-> <<>>], n)
    BY DEF Chosen
  <2> QED
    BY <2>2, <2>3
<1>2. ASSUME NEW m \in Nat, m \in G PROVE m + 1 \in G
  <2>0. m + 1 \in Nat
    OBVIOUS
  <2> SUFFICES ASSUME m + 1 <= Len(q)
               PROVE  \E k \in [0..m + 1 -> Seq(R)] :
                        \A n \in 0..m + 1 : k[n] = Chosen(q, S, k, n)
    BY <2>0
  <2>1. PICK h \in [0..m -> Seq(R)] : \A n \in 0..m : h[n] = Chosen(q, S, h, n)
    BY <1>2, Len(q) \in Nat
  <2> DEFINE new == Chosen(q, S, h, m + 1)
             k == [n \in 0..m + 1 |-> IF n = m + 1 THEN new ELSE h[n]]
  <2>2. h[m] \in Seq(R) /\ q[m + 1] \in R
    BY Len(q) \in Nat
  <2>3. new \in Seq(R)
    BY <2>2 DEF Chosen
  <2>4. k \in [0..m + 1 -> Seq(R)]
    <3> HIDE DEF new
    <3> QED
      BY <2>3
  <2>5. \A n \in 0..m : k[n] = h[n]
    OBVIOUS
  <2>6. k[m + 1] = new
    OBVIOUS
  <2>7. \A n \in 0..m + 1 : k[n] = Chosen(q, S, k, n)
    <3> HIDE DEF new, k
    <3> TAKE n \in 0..m + 1
    <3>1. CASE n = m + 1
      BY <3>1, <2>5, <2>6 DEF Chosen, new
    <3>2. CASE n \in 0..m
      <4>1. n = 0 \/ n - 1 \in 0..m
        BY <3>2
      <4> QED
        BY <2>1, <3>2, <4>1, <2>5 DEF Chosen
    <3> QED
      BY <3>1, <3>2
  <2> QED
    BY <2>4, <2>7
<1>3. Nat \subseteq G
  <2> HIDE DEF G
  <2> QED
    BY <1>1, <1>2, SetInduction
<1>4. Len(q) \in G
  BY <1>3, Len(q) \in Nat
<1> QED
  BY <1>4

LEMMA KeptFacts ==
  ASSUME NEW R, NEW q \in Seq(R), NEW S
  PROVE  \A n \in 0..Len(q) : Kept(q, S)[n] = Chosen(q, S, Kept(q, S), n)
<1> DEFINE F(k) == [n \in 0..Len(q) |->
                     IF n = 0 THEN <<>>
                     ELSE IF q[n] \in S THEN Append(k[n - 1], q[n]) ELSE k[n - 1]]
<1>1. PICK k \in [0..Len(q) -> Seq(R)] : \A n \in 0..Len(q) : k[n] = Chosen(q, S, k, n)
  BY KeptExists
<1>2. k = F(k)
  BY <1>1 DEF Chosen
<1>3. Kept(q, S) = F(Kept(q, S))
  <2>1. Kept(q, S) = CHOOSE kk : kk = F(kk)
    BY DEF Kept
  <2> HIDE DEF F
  <2> QED
    BY <1>2, <2>1
<1> QED
  BY <1>3 DEF Chosen

\* Of what the first n rows hold, the rows in S are kept, each once if it is there once.
LEMMA KeptPrefix ==
  ASSUME NEW R, NEW q \in Seq(R), NEW S
  PROVE  \A n \in 0..Len(q) :
           /\ Kept(q, S)[n] \in Seq(R)
           /\ ToSet(Kept(q, S)[n]) = {q[i] : i \in 1..n} \cap S
           /\ Distinct(q) => Distinct(Kept(q, S)[n])
<1> DEFINE K(n) == Kept(q, S)[n]
           Fine(n) == /\ K(n) \in Seq(R)
                      /\ ToSet(K(n)) = {q[i] : i \in 1..n} \cap S
                      /\ Distinct(q) => Distinct(K(n))
           G == {m \in Nat : m <= Len(q) => Fine(m)}
<1>0. Len(q) \in Nat /\ DOMAIN q = 1..Len(q)
  OBVIOUS
<1>1. 0 \in G
  <2>1. K(0) = <<>>
    BY <1>0, KeptFacts DEF Chosen
  <2>2. <<>> \in Seq(R) /\ ToSet(<<>>) = {} /\ Distinct(<<>>)
    BY DEF ToSet, Distinct
  <2>3. {q[i] : i \in 1..0} = {}
    OBVIOUS
  <2> HIDE DEF K
  <2> QED
    BY <2>1, <2>2, <2>3
<1>2. ASSUME NEW m \in Nat, m \in G PROVE m + 1 \in G
  <2>0. m + 1 \in Nat
    OBVIOUS
  <2> SUFFICES ASSUME m + 1 <= Len(q) PROVE Fine(m + 1)
    BY <2>0
  <2>1. Fine(m) /\ m + 1 \in DOMAIN q /\ m + 1 \in 0..Len(q)
    BY <1>0, <1>2
  <2>2. K(m + 1) = IF q[m + 1] \in S THEN Append(K(m), q[m + 1]) ELSE K(m)
    BY <2>1, KeptFacts, (m + 1) - 1 = m, m + 1 # 0 DEF Chosen
  <2>3. {q[i] : i \in 1..m + 1} = {q[i] : i \in 1..m} \cup {q[m + 1]}
    <3>1. 1..m + 1 = (1..m) \cup {m + 1}
      OBVIOUS
    <3> QED
      BY <3>1
  <2>4. q[m + 1] \in R
    BY <2>1
  <2> HIDE DEF K
  <2>5. CASE q[m + 1] \notin S
    BY <2>1, <2>2, <2>3, <2>5
  <2>6. CASE q[m + 1] \in S
    <3> DEFINE old == K(m)
               r == q[m + 1]
    <3>0. old \in Seq(R) /\ r \in R /\ (Distinct(q) => Distinct(old))
      BY <2>1, <2>4
    <3>1. K(m + 1) = Append(old, r)
      BY <2>2, <2>6
    <3>2. Distinct(q) => r \notin ToSet(old)
      <4> SUFFICES ASSUME Distinct(q), r \in ToSet(old) PROVE FALSE
        OBVIOUS
      <4>1. PICK i \in 1..m : q[i] = r
        BY <2>1
      <4> QED
        BY <1>0, <2>1, <4>1, i # m + 1 DEF Distinct
    <3> HIDE DEF old, r
    <3>3. /\ Append(old, r) \in Seq(R)
          /\ ToSet(Append(old, r)) = ToSet(old) \cup {r}
          /\ Distinct(old) /\ r \notin ToSet(old) => Distinct(Append(old, r))
      BY <3>0, AppendFacts
    <3>4. ToSet(old) = {q[i] : i \in 1..m} \cap S
      BY <2>1 DEF old
    <3>5. {q[i] : i \in 1..m + 1} \cap S = ToSet(old) \cup {r}
      BY <2>3, <2>6, <3>4 DEF r
    <3> QED
      BY <3>0, <3>1, <3>2, <3>3, <3>5
  <2> QED
    BY <2>5, <2>6
<1>3. Nat \subseteq G
  <2> HIDE DEF G
  <2> QED
    BY <1>1, <1>2, SetInduction
<1>4. ASSUME NEW n \in 0..Len(q) PROVE Fine(n)
  <2>1. n \in Nat /\ n <= Len(q)
    BY <1>0
  <2>2. n \in G
    BY <1>3, <2>1
  <2> QED
    BY <2>1, <2>2
<1> HIDE DEF G
<1> QED
  BY <1>4

LEMMA KeepFacts ==
  ASSUME NEW R, NEW q \in Seq(R), NEW S
  PROVE  /\ Keep(q, S) \in Seq(R)
         /\ ToSet(Keep(q, S)) = ToSet(q) \cap S
         /\ Distinct(q) => Distinct(Keep(q, S))
<1>1. Len(q) \in 0..Len(q) /\ ToSet(q) = {q[i] : i \in 1..Len(q)}
  BY DEF ToSet
<1>2. /\ Kept(q, S)[Len(q)] \in Seq(R)
      /\ ToSet(Kept(q, S)[Len(q)]) = {q[i] : i \in 1..Len(q)} \cap S
      /\ Distinct(q) => Distinct(Kept(q, S)[Len(q)])
  BY <1>1, KeptPrefix
<1> QED
  BY <1>1, <1>2 DEF Keep
-----------------------------------------------------------------------------
(* Bytes.                                                                   *)

Sized(rows, size) == \A r \in rows : size[Count(r)] \in Nat

\* The bytes themselves.
Octets(rows, size) == UNION {{r} \X (1..size[Count(r)]) : r \in rows}

LEMMA OctetFacts ==
  ASSUME NEW rows, NEW size
  PROVE  /\ Bytes(rows, size) = Cardinality(Octets(rows, size))
         /\ \A p : p \in Octets(rows, size) <=>
                     \E r \in rows : \E k \in 1..size[Count(r)] : p = <<r, k>>
  BY DEF Bytes, Octets

LEMMA BytesFinite ==
  ASSUME NEW rows, IsFiniteSet(rows), NEW size, Sized(rows, size)
  PROVE  IsFiniteSet(Octets(rows, size)) /\ Bytes(rows, size) \in Nat
<1> DEFINE part(r) == {r} \X (1..size[Count(r)])
           parts == {part(r) : r \in rows}
           f == [r \in rows |-> part(r)]
<1>1. \A r \in rows : IsFiniteSet(part(r))
  <2> TAKE r \in rows
  <2>1. IsFiniteSet({r}) /\ IsFiniteSet(1..size[Count(r)])
    <3>1. size[Count(r)] \in Int /\ 1 \in Int
      BY DEF Sized
    <3> QED
      BY <3>1, FS_Interval, FS_Singleton
  <2> QED
    BY <2>1, FS_Product
<1>2. IsFiniteSet(parts)
  <2>1. f \in Surjection(rows, parts)
    <3> HIDE DEF part
    <3> QED
      BY DEF Surjection
  <2> HIDE DEF f, parts
  <2> QED
    BY <2>1, FS_Surjection
<1>3. \A x \in parts : IsFiniteSet(x)
  <2> HIDE DEF part
  <2> QED
    BY <1>1
<1>4. IsFiniteSet(UNION parts)
  <2> HIDE DEF parts
  <2> QED
    BY <1>2, <1>3, FS_UNION
<1>5. IsFiniteSet(Octets(rows, size))
  BY <1>4 DEF Octets
<1> QED
  BY <1>5, FS_CardinalityType, OctetFacts

LEMMA BytesOfFewer ==
  ASSUME NEW rows, IsFiniteSet(rows), NEW size, Sized(rows, size), NEW fewer \in SUBSET rows
  PROVE  /\ Bytes(fewer, size) \in Nat /\ Bytes(rows, size) \in Nat
         /\ Bytes(fewer, size) <= Bytes(rows, size)
<1>1. Octets(fewer, size) \in SUBSET Octets(rows, size)
  BY OctetFacts
<1>2. IsFiniteSet(fewer) /\ Sized(fewer, size)
  BY FS_Subset DEF Sized
<1> QED
  BY <1>1, <1>2, BytesFinite, FS_Subset, OctetFacts

LEMMA BytesOfOneMore ==
  ASSUME NEW rows, IsFiniteSet(rows), NEW size, Sized(rows, size), NEW r, size[Count(r)] \in Nat
  PROVE  /\ IsFiniteSet(rows \cup {r}) /\ Sized(rows \cup {r}, size)
         /\ Bytes(rows, size) \in Nat /\ Bytes(rows \cup {r}, size) \in Nat
         /\ Bytes(rows \cup {r}, size) <= Bytes(rows, size) + size[Count(r)]
<1> DEFINE n == size[Count(r)]
           one == {r} \X (1..n)
           old == Octets(rows, size)
<1>1. IsFiniteSet(rows \cup {r}) /\ Sized(rows \cup {r}, size)
  BY FS_AddElement DEF Sized
<1>2. IsFiniteSet(old) /\ Cardinality(old) = Bytes(rows, size) /\ Bytes(rows, size) \in Nat
  BY BytesFinite, OctetFacts
<1>3. IsFiniteSet(one) /\ Cardinality(one) = n
  <2>1. n \in Nat /\ n \in Int /\ 1 \in Int
    OBVIOUS
  <2> HIDE DEF n
  <2>2. IsFiniteSet({r}) /\ Cardinality({r}) = 1
    BY FS_Singleton
  <2>3. IsFiniteSet(1..n) /\ Cardinality(1..n) = IF 1 > n THEN 0 ELSE n - 1 + 1
    BY <2>1, FS_Interval
  <2>4. Cardinality(1..n) = n
    BY <2>1, <2>3
  <2>5. IsFiniteSet(one) /\ Cardinality(one) = 1 * n
    <3> DEFINE A == {r}
               B == 1..n
    <3>1. /\ IsFiniteSet(A) /\ Cardinality(A) = 1
          /\ IsFiniteSet(B) /\ Cardinality(B) = n
      BY <2>2, <2>3, <2>4
    <3> HIDE DEF A, B
    <3>2. IsFiniteSet(A \X B) /\ Cardinality(A \X B) = Cardinality(A) * Cardinality(B)
      BY <3>1, FS_Product
    <3> QED
      BY <3>1, <3>2 DEF A, B
  <2> QED
    BY <2>1, <2>5
<1>4. Octets(rows \cup {r}, size) = old \cup one
  BY DEF Octets
<1> HIDE DEF old, one
<1>5. Cardinality(old \cup one) = Cardinality(old) + Cardinality(one) - Cardinality(old \cap one)
  BY <1>2, <1>3, FS_Union
<1>6. Cardinality(old \cap one) \in Nat
  BY <1>2, FS_Intersection, FS_CardinalityType
<1>7. Bytes(rows \cup {r}, size) = Cardinality(old \cup one)
  BY <1>4, OctetFacts
<1>8. Cardinality(old \cup one) \in Nat
  BY <1>2, <1>3, FS_Union, FS_CardinalityType
<1>9. n \in Nat
  OBVIOUS
<1> HIDE DEF n
<1>10. Cardinality(old \cup one) <= Bytes(rows, size) + n
  BY <1>2, <1>3, <1>5, <1>6, <1>8, <1>9
<1> QED
  BY <1>1, <1>2, <1>7, <1>8, <1>10 DEF n

\* Rows that are written anew, with as many samples, take no more bytes.
LEMMA BytesOfImage ==
  ASSUME NEW rows, IsFiniteSet(rows), NEW size, Sized(rows, size),
         NEW images, NEW f \in Surjection(rows, images), \A r \in rows : Count(f[r]) = Count(r)
  PROVE  /\ IsFiniteSet(images) /\ Sized(images, size)
         /\ Bytes(images, size) \in Nat /\ Bytes(images, size) <= Bytes(rows, size)
<1>1. IsFiniteSet(images)
  BY FS_Surjection
<1>2. \A y \in images : \E r \in rows : f[r] = y
  BY DEF Surjection
<1>3. Sized(images, size)
  BY <1>2 DEF Sized
<1> DEFINE S == Octets(rows, size)
           T == Octets(images, size)
           g == [p \in S |-> <<f[p[1]], p[2]>>]
<1>4. f \in [rows -> images]
  BY DEF Surjection
<1>5. \A p \in S : g[p] \in T
  <2> TAKE p \in S
  <2>1. PICK r \in rows : \E k \in 1..size[Count(r)] : p = <<r, k>>
    BY OctetFacts
  <2>2. PICK k \in 1..size[Count(r)] : p = <<r, k>>
    BY <2>1
  <2>3. g[p] = <<f[r], k>> /\ f[r] \in images /\ k \in 1..size[Count(f[r])]
    BY <1>4, <2>2
  <2> QED
    BY <2>3, OctetFacts
<1>6. \A t \in T : \E p \in S : g[p] = t
  <2> TAKE t \in T
  <2>0. PICK y \in images : \E k \in 1..size[Count(y)] : t = <<y, k>>
    BY OctetFacts
  <2>1. PICK k \in 1..size[Count(y)] : t = <<y, k>>
    BY <2>0
  <2>2. PICK r \in rows : f[r] = y
    BY <1>2
  <2>3. k \in 1..size[Count(r)]
    BY <2>1, <2>2
  <2>4. <<r, k>> \in S
    BY <2>3, OctetFacts
  <2>5. g[<<r, k>>] = <<y, k>>
    BY <2>2, <2>4
  <2> QED
    BY <2>1, <2>4, <2>5
<1>7. g \in Surjection(S, T)
  <2>1. g \in [S -> T]
    BY <1>5
  <2> HIDE DEF g, S, T
  <2> QED
    BY <1>6, <2>1 DEF Surjection
<1>8. IsFiniteSet(S)
  BY BytesFinite
<1>9. Cardinality(T) <= Cardinality(S)
  <2> HIDE DEF g, S, T
  <2> QED
    BY <1>7, <1>8, FS_Surjection
<1> QED
  BY <1>1, <1>3, <1>9, BytesFinite, OctetFacts
-----------------------------------------------------------------------------
(* What eviction leaves of a queue.                                         *)

\* d is q without some periodic rows.
Trimmed(q, d) ==
  /\ d \in Seq(Row)
  /\ ToSet(d) \subseteq ToSet(q)
  /\ \A r \in ToSet(q) \ ToSet(d) : ~r.critical
  /\ Distinct(q) => Distinct(d)

LEMMA FiniteQueue == ASSUME NEW R, NEW q \in Seq(R) PROVE IsFiniteSet(ToSet(q))
<1> DEFINE f == [i \in 1..Len(q) |-> q[i]]
<1>1. Len(q) \in Int /\ 1 \in Int /\ DOMAIN q = 1..Len(q)
  OBVIOUS
<1>2. IsFiniteSet(1..Len(q))
  BY <1>1, FS_Interval
<1>3. f \in Surjection(1..Len(q), ToSet(q))
  BY <1>1 DEF Surjection, ToSet
<1> HIDE DEF f
<1> QED
  BY <1>2, <1>3, FS_Surjection

LEMMA DropFacts ==
  ASSUME NEW q \in Seq(Row), NEW k \in 0..Len(Periodic(q))
  PROVE  Trimmed(q, DropOldest(q, k))
<1> DEFINE periodic == {r \in ToSet(q) : ~r.critical}
           p == Periodic(q)
           S == ToSet(q) \ ToSet(SubSeq(p, 1, k))
<1>1. p \in Seq(Row) /\ ToSet(p) = ToSet(q) \cap periodic
  BY KeepFacts DEF Periodic
<1>2. k \in Nat /\ k <= Len(p) /\ Len(p) \in Nat
  BY <1>1
<1> HIDE DEF p, periodic
<1>3. ToSet(SubSeq(p, 1, k)) \subseteq ToSet(p)
  BY <1>1, <1>2 DEF ToSet
<1>4. S \subseteq ToSet(q) /\ \A r \in ToSet(q) \ S : ~r.critical
  BY <1>1, <1>3 DEF periodic
<1>5. DropOldest(q, k) = Keep(q, S)
  BY DEF DropOldest, p
<1> HIDE DEF S
<1>6. /\ Keep(q, S) \in Seq(Row)
      /\ ToSet(Keep(q, S)) = ToSet(q) \cap S
      /\ Distinct(q) => Distinct(Keep(q, S))
  BY KeepFacts
<1> QED
  BY <1>4, <1>5, <1>6 DEF Trimmed

LEMMA RoomFacts ==
  ASSUME NEW q \in Seq(Row), NEW x, NEW required, HasRoom(q, x, required)
  PROVE  /\ Trimmed(q, MakeRoom(q, x, required))
         /\ QueueBytes(MakeRoom(q, x, required)) + QuarantineBytes(x) + required <= MaxQueue
<1> DEFINE k == Min(Enough(q, x, required))
<1>1. k \in Enough(q, x, required)
  <2>1. Enough(q, x, required) \subseteq Nat
    <3>1. Periodic(q) \in Seq(Row)
      BY KeepFacts DEF Periodic
    <3> QED
      BY <3>1 DEF Enough
  <2> QED
    BY <2>1, MinFacts DEF HasRoom
<1>2. /\ k \in 0..Len(Periodic(q))
      /\ QueueBytes(DropOldest(q, k)) + QuarantineBytes(x) + required <= MaxQueue
  BY <1>1 DEF Enough
<1>3. MakeRoom(q, x, required) = DropOldest(q, k)
  BY DEF MakeRoom
<1> HIDE DEF k
<1> QED
  BY <1>2, <1>3, DropFacts

LEMMA TrimmedTwice ==
  ASSUME NEW q, NEW d, NEW e, Trimmed(q, d), Trimmed(d, e)
  PROVE  Trimmed(q, e)
  BY DEF Trimmed
-----------------------------------------------------------------------------
(* The store: the parts of the invariant that do not concern the loop.      *)

Bounds == /\ MaxQueue \in Nat /\ MaxQuarantine \in Nat /\ MaxDepth \in Nat /\ Retention \in Nat
          /\ PollDelay \in Nat /\ MaxBackoff \in Nat /\ MaxSamples \in Nat
          /\ DiskEvictions \in Nat
          /\ \A n \in BatchSizes : n \in Nat /\ n > 0
          /\ \A n \in 1..MaxSamples : PlainSize[n] \in Nat /\ SealedSize[n] \in Nat

LEMMA BoundsHold == Bounds
  BY SizesAssumption, LimitsAssumption DEF Bounds

Partition(q, x, a, e, p, i, c) ==
  /\ q \cup x \cup (a \cup e \cup p \cup i) = 1..c
  /\ q \cap x = {}
  /\ (q \cup x) \cap (a \cup e \cup p \cup i) = {}
  /\ a \cap (e \cup p \cup i) = {}
  /\ e \cap (p \cup i) = {}
  /\ p \cap i = {}

RowOK(r) == r \in Row /\ Sound(r) /\ r.depth <= MaxDepth /\ r.wait <= MaxWait
SealedOK(x) == x \in Sealed /\ Sound(x)
Guarded(r) == IF r.critical THEN Samples(r) \subseteq protected
                            ELSE Samples(r) \cap protected = {}

StoreOK ==
  /\ queue \in Seq(Row) /\ Distinct(queue) /\ Disjoint(ToSet(queue))
  /\ \A r \in ToSet(queue) : RowOK(r) /\ Guarded(r)
  /\ IsFiniteSet(quarantine) /\ Disjoint(quarantine)
  /\ \A x \in quarantine : SealedOK(x)
  /\ collected \in 0..MaxSamples
  /\ Partition(SamplesOf(ToSet(queue)), SamplesOf(quarantine),
               acknowledged, evicted, expired, isolated, collected)
  /\ protected \subseteq 1..collected
  /\ CriticalNeverEvicted
  /\ WithinQuotas

LoopOK == /\ pc \in {"collect", "dispatch", "sending", "sleeping"}
          /\ sending \in Row
          /\ SendingInv

LEMMA AgentParts == AgentInv <=> StoreOK /\ LoopOK
<1>1. ASSUME AgentInv PROVE StoreOK /\ LoopOK
  <2>1. Partition(SamplesOf(ToSet(queue)), SamplesOf(quarantine),
                  acknowledged, evicted, expired, isolated, collected)
    BY <1>1 DEF AgentInv, PlacesInv, Partition, InQueue, InQuarantine, Gone
  <2>2. \A r \in ToSet(queue) : r \in Row
    BY <1>1 DEF AgentInv, AgentTypeOK, ToSet
  <2> QED
    BY <1>1, <2>1, <2>2 DEF AgentInv, AgentTypeOK, StoreInv, CriticalInv, StoreOK, LoopOK, RowOK,
                            SealedOK, Guarded
<1>2. ASSUME StoreOK, LoopOK PROVE AgentInv
  <2>1. PlacesInv
    BY <1>2 DEF StoreOK, PlacesInv, Partition, InQueue, InQuarantine, Gone
  <2>2. AgentTypeOK
    <3>1. 1..collected \subseteq 1..MaxSamples
      BY <1>2, BoundsHold DEF StoreOK, Bounds
    <3>2. {acknowledged, evicted, expired, isolated, protected} \subseteq SUBSET (1..MaxSamples)
      BY <1>2, <3>1 DEF StoreOK, Partition
    <3> QED
      BY <1>2, <3>2 DEF AgentTypeOK, StoreOK, LoopOK, RowOK, SealedOK
  <2> QED
    BY <1>2, <2>1, <2>2 DEF AgentInv, StoreInv, CriticalInv, StoreOK, LoopOK, RowOK, SealedOK, Guarded
<1> QED
  BY <1>1, <1>2
-----------------------------------------------------------------------------
(* Samples of rows, and rows that replace rows.                             *)

LEMMA SamplesIn1 ==
  ASSUME NEW rows
  PROVE  \A s : s \in SamplesOf(rows) <=> \E r \in rows : s \in Samples(r)
  BY DEF SamplesOf

\* What the rows left out hold is what the others do not.
LEMMA SamplesLeft ==
  ASSUME NEW rows, Disjoint(rows), NEW kept \in SUBSET rows
  PROVE  /\ SamplesOf(rows) = SamplesOf(kept) \cup SamplesOf(rows \ kept)
         /\ SamplesOf(kept) \cap SamplesOf(rows \ kept) = {}
         /\ Disjoint(kept)
  BY SamplesIn1 DEF Disjoint

LEMMA SamplesOfOne ==
  ASSUME NEW rows, NEW r
  PROVE  SamplesOf(rows \cup {r}) = SamplesOf(rows) \cup Samples(r)
  BY SamplesIn1

LEMMA QueueFacts ==
  ASSUME StoreOK
  PROVE  /\ IsFiniteSet(ToSet(queue)) /\ Sized(ToSet(queue), PlainSize)
         /\ Sized(quarantine, SealedSize)
         /\ \A r \in ToSet(queue) \cup quarantine :
              r.first \in Nat /\ r.last \in Nat /\ Count(r) \in 1..MaxSamples
         /\ QueueBytes(queue) \in Nat /\ QuarantineBytes(quarantine) \in Nat
<1>1. IsFiniteSet(ToSet(queue)) /\ IsFiniteSet(quarantine)
  BY FiniteQueue DEF StoreOK
<1>2. ASSUME NEW r \in ToSet(queue) \cup quarantine
      PROVE  r.first \in Nat /\ r.last \in Nat /\ Count(r) \in 1..MaxSamples
  <2>1. r.first \in Nat /\ r.last \in Nat /\ Sound(r)
    BY DEF StoreOK, RowOK, SealedOK, Row, Sealed
  <2>2. collected \in Nat /\ collected <= MaxSamples /\ MaxSamples \in Nat
    BY BoundsHold DEF StoreOK, Bounds
  <2> QED
    BY <2>1, <2>2 DEF Sound, Count
<1>3. Sized(ToSet(queue), PlainSize) /\ Sized(quarantine, SealedSize)
  BY <1>2, BoundsHold DEF Sized, Bounds
<1> QED
  BY <1>1, <1>2, <1>3, BytesFinite DEF QueueBytes, QuarantineBytes

\* Rows that hold what was collected, or some of it; what is dropped is evicted.
LEMMA Regrouped ==
  ASSUME StoreOK, NEW rows, Disjoint(rows), \A r \in rows : RowOK(r)' /\ Guarded(r)',
         queue' \in Seq(Row), Distinct(queue'), ToSet(queue') \subseteq rows,
         \A r \in rows \ ToSet(queue') : ~r.critical,
         IsFiniteSet(quarantine'), Disjoint(quarantine'), \A x \in quarantine' : SealedOK(x)',
         collected' \in 0..MaxSamples,
         Partition(SamplesOf(rows), SamplesOf(quarantine'),
                   acknowledged', evicted, expired', isolated', collected'),
         evicted' = evicted \cup SamplesOf(rows \ ToSet(queue')),
         protected' \subseteq 1..collected', evicted \cap protected' = {},
         WithinQuotas'
  PROVE  StoreOK'
<1> DEFINE Q == SamplesOf(ToSet(queue'))
           L == SamplesOf(rows \ ToSet(queue'))
<1>1. SamplesOf(rows) = Q \cup L /\ Q \cap L = {} /\ Disjoint(ToSet(queue'))
  BY SamplesLeft
<1>2. L \cap protected' = {}
  <2>1. \A r \in rows \ ToSet(queue') : Samples(r) \cap protected' = {}
    BY DEF Guarded, Samples
  <2> QED
    BY <2>1, SamplesIn1
<1> HIDE DEF Q, L
<1>3. evicted' = evicted \cup L
  BY DEF L
<1>4. Partition(Q, SamplesOf(quarantine'), acknowledged', evicted', expired', isolated', collected')
  <2> DEFINE X == SamplesOf(quarantine')
  <2>1. Partition(Q \cup L, X, acknowledged', evicted, expired', isolated', collected')
    BY <1>1
  <2> HIDE DEF X
  <2>2. Partition(Q, X, acknowledged', evicted \cup L, expired', isolated', collected')
    BY <1>1, <2>1 DEF Partition
  <2> QED
    BY <1>3, <2>2 DEF X
<1>5. Partition(SamplesOf(ToSet(queue)), SamplesOf(quarantine),
                acknowledged, evicted, expired, isolated, collected)'
  BY <1>4 DEF Q, SamplesOf, Partition, Samples
<1>6. CriticalNeverEvicted'
  BY <1>2, <1>3 DEF CriticalNeverEvicted
<1>7. \A r \in ToSet(queue') : RowOK(r)' /\ Guarded(r)'
  OBVIOUS
<1>8. Disjoint(ToSet(queue))' /\ Distinct(queue)' /\ Disjoint(quarantine)'
  BY <1>1 DEF Disjoint, Samples, Distinct
<1>9. (\A r \in ToSet(queue) : RowOK(r) /\ Guarded(r))'
  BY <1>7 DEF RowOK, Guarded, Sound
<1>10. (\A x \in quarantine : SealedOK(x))'
  BY DEF SealedOK, Sound
<1> QED
  BY <1>5, <1>6, <1>8, <1>9, <1>10 DEF StoreOK
-----------------------------------------------------------------------------
(* Operations of the store.                                                 *)

LEMMA BytesAppended ==
  ASSUME NEW rows, IsFiniteSet(rows), Sized(rows, PlainSize), NEW r, PlainSize[Count(r)] \in Nat,
         NEW kept \in SUBSET (rows \cup {r})
  PROVE  /\ Bytes(kept, PlainSize) \in Nat /\ Bytes(rows, PlainSize) \in Nat
         /\ Bytes(kept, PlainSize) <= Bytes(rows, PlainSize) + PlainSize[Count(r)]
<1> DEFINE more == rows \cup {r}
           n == PlainSize[Count(r)]
<1>1. /\ IsFiniteSet(more) /\ Sized(more, PlainSize)
      /\ Bytes(rows, PlainSize) \in Nat /\ Bytes(more, PlainSize) \in Nat
      /\ Bytes(more, PlainSize) <= Bytes(rows, PlainSize) + n
  BY BytesOfOneMore
<1> HIDE DEF more
<1>2. Bytes(kept, PlainSize) \in Nat /\ Bytes(kept, PlainSize) <= Bytes(more, PlainSize)
  BY <1>1, BytesOfFewer DEF more
<1>3. n \in Nat
  OBVIOUS
<1> HIDE DEF n
<1> QED
  BY <1>1, <1>2, <1>3 DEF n

LEMMA NewRowFacts ==
  ASSUME NEW c \in Nat, NEW n \in Nat, n > 0, NEW critical \in BOOLEAN
  PROVE  LET r == NewRow(c + 1, n, critical)
         IN  /\ r \in Row /\ r.first = c + 1 /\ r.last = c + n /\ Count(r) = n
             /\ r.critical = critical /\ r.depth = 0 /\ r.wait = 0
             /\ Samples(r) = (c + 1)..(c + n)
  BY DEF NewRow, Row, Count, Samples

LEMMA MaxWaitFacts ==
  /\ MaxWait \in Nat /\ MaxBackoff + MaxBackoff \div 4 <= MaxWait /\ 4 * PollDelay <= MaxWait
<1> DEFINE a == MaxBackoff + MaxBackoff \div 4
           b == 4 * PollDelay
<1>1. a \in Nat /\ b \in Nat
  BY BoundsHold DEF Bounds
<1> HIDE DEF a, b
<1>2. \E x \in {a, b} : \A y \in {a, b} : y <= x
  BY <1>1, a <= b \/ b <= a
<1>3. Max({a, b}) \in {a, b} /\ \A y \in {a, b} : y <= Max({a, b})
  BY <1>2 DEF Max
<1> QED
  BY <1>1, <1>3 DEF a, b, MaxWait

\* The physical quota evicts as many periodic rows as there are, at most.
LEMMA EvictionFacts ==
  ASSUME NEW q \in Seq(Row), NEW k \in 0..Min({DiskEvictions, Len(Periodic(q))})
  PROVE  Trimmed(q, DropOldest(q, k))
<1>1. Periodic(q) \in Seq(Row)
  BY KeepFacts DEF Periodic
<1> DEFINE l == Len(Periodic(q))
           m == Min({DiskEvictions, l})
<1>2. l \in Nat /\ DiskEvictions \in Nat
  BY <1>1, BoundsHold DEF Bounds
<1>3. m \in Nat /\ m <= l
  BY <1>2, MinFacts
<1>4. k \in 0..m
  OBVIOUS
<1> HIDE DEF m
<1>5. k \in 0..l
  BY <1>2, <1>3, <1>4
<1> QED
  BY <1>5, DropFacts

LEMMA EnqueueKeeps ==
  ASSUME StoreOK, NEW n \in BatchSizes, NEW critical \in BOOLEAN, collected + n <= MaxSamples,
         Enqueue(n, critical), UNCHANGED <<quarantine, acknowledged, expired, isolated>>
  PROVE  StoreOK'
<1> PICK new : new = NewRow(collected + 1, n, critical)
  OBVIOUS
<1> DEFINE room == MakeRoom(queue, quarantine, PlainSize[n])
           full == Append(room, new)
           rows == ToSet(queue) \cup {new}
<1>0. /\ n \in Nat /\ n > 0 /\ collected \in Nat /\ MaxSamples \in Nat /\ n \in 1..MaxSamples
      /\ PlainSize[n] \in Nat /\ MaxDepth \in Nat
  BY BoundsHold DEF Bounds, StoreOK
<1>1. CASE ~HasRoom(queue, quarantine, PlainSize[n])
  <2>1. UNCHANGED <<queue, evicted, collected, protected>>
    BY <1>1 DEF Enqueue
  <2> QED
    BY <2>1 DEF StoreOK, RowOK, SealedOK, Guarded, Sound, Samples, SamplesOf, Disjoint, Distinct,
                Partition, CriticalNeverEvicted, WithinQuotas, QueueBytes, QuarantineBytes, Bytes
<1>2. CASE HasRoom(queue, quarantine, PlainSize[n])
  <2>1. PICK k \in 0..Min({DiskEvictions, Len(Periodic(full))}) :
          /\ queue' = DropOldest(full, k)
          /\ evicted' = evicted \cup
               (SamplesOf(ToSet(queue) \cup ToSet(full)) \ SamplesOf(ToSet(queue')))
          /\ collected' = collected + n
          /\ protected' = IF critical
                            THEN protected \cup (collected + 1)..(collected + n)
                            ELSE protected
    BY <1>2 DEF Enqueue
  <2>2. /\ new \in Row /\ new.first = collected + 1 /\ new.last = collected + n /\ Count(new) = n
        /\ new.critical = critical /\ new.depth = 0 /\ new.wait = 0
        /\ Samples(new) = (collected + 1)..(collected + n)
    BY <1>0, NewRowFacts
  <2>3. /\ Trimmed(queue, room)
        /\ QueueBytes(room) + QuarantineBytes(quarantine) + PlainSize[n] <= MaxQueue
    BY <1>2, RoomFacts DEF StoreOK
  <2> HIDE DEF room
  <2>4. room \in Seq(Row) /\ ToSet(room) \subseteq ToSet(queue) /\ Distinct(room)
    BY <2>3 DEF Trimmed, StoreOK
  <2>5. \A r \in ToSet(queue) : Samples(r) \subseteq 1..collected
    BY <1>0 DEF StoreOK, RowOK, Row, Sound, Samples
  <2>6. new \notin ToSet(queue)
    <3>1. collected + n \in Samples(new) /\ collected + n \notin 1..collected
      BY <1>0, <2>2
    <3> QED
      BY <2>5, <3>1
  <2>7. full \in Seq(Row) /\ ToSet(full) = ToSet(room) \cup {new} /\ Distinct(full)
    BY <2>2, <2>4, <2>6, AppendFacts
  <2> HIDE DEF full
  <2>8. Trimmed(full, queue')
    BY <2>1, <2>7, EvictionFacts
  <2>9. queue' \in Seq(Row) /\ Distinct(queue') /\ ToSet(queue') \subseteq rows
    BY <2>4, <2>7, <2>8 DEF Trimmed
  <2>10. \A r \in rows \ ToSet(queue') : ~r.critical
    BY <2>3, <2>7, <2>8 DEF Trimmed
  <2>11. Disjoint(rows)
    <3>1. \A r \in ToSet(queue) : Samples(r) \cap Samples(new) = {}
      BY <1>0, <2>2, <2>5
    <3> QED
      BY <3>1 DEF StoreOK, Disjoint
  <2>12. \A r \in rows : RowOK(r)'
    <3>1. RowOK(new)'
      BY <1>0, <2>1, <2>2, MaxWaitFacts DEF RowOK, Sound
    <3>2. \A r \in ToSet(queue) : RowOK(r)'
      BY <1>0, <2>1 DEF StoreOK, RowOK, Row, Sound
    <3> QED
      BY <3>1, <3>2
  <2>13. \A r \in rows : Guarded(r)'
    <3>1. Guarded(new)'
      <4>1. protected \cap Samples(new) = {}
        BY <1>0, <2>2 DEF StoreOK
      <4> QED
        BY <2>1, <2>2, <4>1 DEF Guarded, Samples
    <3>2. ASSUME NEW r \in ToSet(queue) PROVE Guarded(r)'
      <4>1. Samples(r) \cap (collected + 1)..(collected + n) = {} /\ Guarded(r)
        BY <1>0, <2>5 DEF StoreOK
      <4> QED
        BY <2>1, <4>1 DEF Guarded, Samples
    <3> QED
      BY <3>1, <3>2
  <2>14. evicted' = evicted \cup SamplesOf(rows \ ToSet(queue'))
    <3>1. ToSet(queue) \cup ToSet(full) = rows
      BY <2>4, <2>7
    <3>2. SamplesOf(rows) \ SamplesOf(ToSet(queue')) = SamplesOf(rows \ ToSet(queue'))
      BY <2>9, <2>11, SamplesLeft
    <3> QED
      BY <2>1, <3>1, <3>2
  <2>15. Partition(SamplesOf(rows), SamplesOf(quarantine'),
                   acknowledged', evicted, expired', isolated', collected')
    <3>1. SamplesOf(rows) = SamplesOf(ToSet(queue)) \cup Samples(new)
      BY SamplesOfOne
    <3>2. 1..collected' = (1..collected) \cup Samples(new) /\ (1..collected) \cap Samples(new) = {}
      BY <1>0, <2>1, <2>2
    <3> HIDE DEF rows
    <3> QED
      BY <3>1, <3>2 DEF StoreOK, Partition
  <2>16. protected' \subseteq 1..collected' /\ evicted \cap protected' = {}
    <3>1. protected \subseteq 1..collected /\ evicted \subseteq 1..collected
          /\ evicted \cap protected = {}
      BY DEF StoreOK, Partition, CriticalNeverEvicted
    <3> QED
      BY <1>0, <2>1, <3>1
  <2>17. WithinQuotas'
    <3>1. IsFiniteSet(ToSet(room)) /\ Sized(ToSet(room), PlainSize)
      BY <2>4, FiniteQueue, QueueFacts DEF Sized
    <3>2. ToSet(queue') \in SUBSET (ToSet(room) \cup {new})
      BY <2>7, <2>8 DEF Trimmed
    <3>3. /\ Bytes(ToSet(queue'), PlainSize) \in Nat /\ Bytes(ToSet(room), PlainSize) \in Nat
          /\ Bytes(ToSet(queue'), PlainSize) <= Bytes(ToSet(room), PlainSize) + PlainSize[n]
      BY <1>0, <2>2, <3>1, <3>2, BytesAppended
    <3>4. QueueBytes(queue)' = Bytes(ToSet(queue'), PlainSize)
          /\ QuarantineBytes(quarantine)' = QuarantineBytes(quarantine)
          /\ QueueBytes(room) = Bytes(ToSet(room), PlainSize)
      BY DEF QueueBytes, QuarantineBytes, Bytes, Count
    <3>5. QuarantineBytes(quarantine) \in Nat /\ QuarantineBytes(quarantine) <= MaxQuarantine
      BY QueueFacts DEF StoreOK, WithinQuotas
    <3> QED
      BY <1>0, <2>3, <3>3, <3>4, <3>5, BoundsHold DEF WithinQuotas, Bounds
  <2>18. /\ IsFiniteSet(quarantine') /\ Disjoint(quarantine')
         /\ \A x \in quarantine' : SealedOK(x)'
    BY <1>0, <2>1 DEF StoreOK, SealedOK, Sound, Sealed, Disjoint
  <2>19. collected' \in 0..MaxSamples
    BY <1>0, <2>1
  <2> HIDE DEF rows
  <2> QED
    BY <2>9, <2>10, <2>11, <2>12, <2>13, <2>14, <2>15, <2>16, <2>17, <2>18, <2>19, Regrouped
<1> QED
  BY <1>1, <1>2
LEMMA StoreUnchanged ==
  ASSUME StoreOK, UNCHANGED <<storeVars, fateVars, collected, protected>>
  PROVE  StoreOK'
  BY DEF StoreOK, storeVars, fateVars, RowOK, SealedOK, Guarded, Sound, Samples, SamplesOf, Disjoint,
         Distinct, Partition, CriticalNeverEvicted, WithinQuotas, QueueBytes, QuarantineBytes, Bytes

\* Steps that collect nothing: rows keep their samples, and the quotas hold if the
\* bytes did not grow.
LEMMA SameCollected ==
  ASSUME StoreOK, UNCHANGED <<collected, protected>>
  PROVE  /\ \A r : (RowOK(r)' <=> RowOK(r)) /\ (Guarded(r)' <=> Guarded(r))
         /\ \A x : SealedOK(x)' <=> SealedOK(x)
         /\ protected' \subseteq 1..collected' /\ collected' \in 0..MaxSamples
         /\ evicted \cap protected' = {}
  BY DEF StoreOK, RowOK, SealedOK, Guarded, Sound, Samples, CriticalNeverEvicted

LEMMA NextBytes ==
  /\ QueueBytes(queue)' = Bytes(ToSet(queue'), PlainSize)
  /\ QuarantineBytes(quarantine)' = Bytes(quarantine', SealedSize)
  /\ QueueBytes(queue) = Bytes(ToSet(queue), PlainSize)
  /\ QuarantineBytes(quarantine) = Bytes(quarantine, SealedSize)
  BY DEF QueueBytes, QuarantineBytes, Bytes, Count

LEMMA FewerBytes ==
  ASSUME StoreOK,
         Bytes(ToSet(queue'), PlainSize) \in Nat, Bytes(quarantine', SealedSize) \in Nat,
         Bytes(ToSet(queue'), PlainSize) <= Bytes(ToSet(queue), PlainSize),
         Bytes(quarantine', SealedSize) <= Bytes(quarantine, SealedSize)
  PROVE  WithinQuotas'
<1>1. /\ Bytes(ToSet(queue), PlainSize) \in Nat /\ Bytes(quarantine, SealedSize) \in Nat
      /\ Bytes(ToSet(queue), PlainSize) + Bytes(quarantine, SealedSize) <= MaxQueue
      /\ Bytes(quarantine, SealedSize) <= MaxQuarantine
      /\ MaxQueue \in Nat /\ MaxQuarantine \in Nat
  BY QueueFacts, NextBytes, BoundsHold DEF StoreOK, WithinQuotas, Bounds
<1> QED
  BY <1>1, NextBytes DEF WithinQuotas

LEMMA WithoutFacts ==
  ASSUME StoreOK, NEW r
  PROVE  /\ Without(r) \in Seq(Row) /\ Distinct(Without(r))
         /\ ToSet(Without(r)) = ToSet(queue) \ {r}
<1> DEFINE S == ToSet(queue) \ {r}
<1>1. Without(r) = Keep(queue, S)
  BY DEF Without
<1>2. S = ToSet(queue) \cap S
  OBVIOUS
<1> HIDE DEF S
<1>3. /\ Keep(queue, S) \in Seq(Row) /\ ToSet(Keep(queue, S)) = ToSet(queue) \cap S
      /\ Distinct(Keep(queue, S))
  BY KeepFacts DEF StoreOK
<1> QED
  BY <1>1, <1>2, <1>3 DEF S

LEMMA AcknowledgeKeeps ==
  ASSUME StoreOK, NEW r \in ToSet(queue), Acknowledge(r), UNCHANGED <<collected, protected>>
  PROVE  StoreOK'
<1> DEFINE rows == ToSet(queue) \ {r}
<1>1. /\ queue' = Without(r) /\ acknowledged' = acknowledged \cup Samples(r)
      /\ UNCHANGED <<quarantine, evicted, expired, isolated>>
  BY DEF Acknowledge
<1>2. queue' \in Seq(Row) /\ Distinct(queue') /\ ToSet(queue') = rows
  BY <1>1, WithoutFacts
<1>3. rows \in SUBSET ToSet(queue) /\ Disjoint(ToSet(queue))
  BY DEF StoreOK
<1>4. /\ SamplesOf(ToSet(queue)) = SamplesOf(rows) \cup Samples(r)
      /\ SamplesOf(rows) \cap Samples(r) = {}
      /\ Disjoint(rows)
  <2>1. ToSet(queue) \ rows = {} \cup {r}
    OBVIOUS
  <2>2. SamplesOf(ToSet(queue) \ rows) = Samples(r)
    BY <2>1, SamplesOfOne, SamplesIn1
  <2> HIDE DEF rows
  <2> QED
    BY <1>3, <2>2, SamplesLeft
<1>5. \A x \in rows : RowOK(x)' /\ Guarded(x)'
  BY SameCollected DEF StoreOK
<1>6. Partition(SamplesOf(rows), SamplesOf(quarantine'),
                acknowledged', evicted, expired', isolated', collected')
  <2> HIDE DEF rows
  <2> QED
    BY <1>1, <1>4 DEF StoreOK, Partition
<1>7. evicted' = evicted \cup SamplesOf(rows \ ToSet(queue'))
  <2>1. rows \ ToSet(queue') = {}
    BY <1>2
  <2> QED
    BY <1>1, <2>1, SamplesIn1
<1>8. WithinQuotas'
  <2>1. /\ Bytes(rows, PlainSize) \in Nat
        /\ Bytes(rows, PlainSize) <= Bytes(ToSet(queue), PlainSize)
    BY <1>3, QueueFacts, BytesOfFewer
  <2> QED
    BY <1>1, <1>2, <2>1, QueueFacts, NextBytes, FewerBytes
<1>9. /\ IsFiniteSet(quarantine') /\ Disjoint(quarantine')
      /\ \A x \in quarantine' : SealedOK(x)'
  BY <1>1, SameCollected DEF StoreOK
<1> HIDE DEF rows
<1> QED
  BY <1>2, <1>4, <1>5, <1>6, <1>7, <1>8, <1>9, SameCollected, Regrouped

\* A queue whose rows are written anew in their places, with the samples they had.
LEMMA Rewritten ==
  ASSUME StoreOK, NEW f \in [ToSet(queue) -> Row],
         queue' = [i \in DOMAIN queue |-> f[queue[i]]],
         \A r \in ToSet(queue) : /\ f[r].first = r.first /\ f[r].last = r.last
                                 /\ f[r].critical = r.critical /\ f[r].depth = r.depth
                                 /\ f[r].wait <= MaxWait,
         UNCHANGED <<collected, protected>>
  PROVE  /\ queue' \in Seq(Row) /\ Distinct(queue') /\ Disjoint(ToSet(queue'))
         /\ \A r \in ToSet(queue') : RowOK(r)' /\ Guarded(r)'
         /\ SamplesOf(ToSet(queue')) = SamplesOf(ToSet(queue))
         /\ Bytes(ToSet(queue'), PlainSize) \in Nat
         /\ Bytes(ToSet(queue'), PlainSize) <= Bytes(ToSet(queue), PlainSize)
<1>0. /\ queue \in Seq(Row) /\ Distinct(queue) /\ Disjoint(ToSet(queue))
      /\ \A r \in ToSet(queue) : RowOK(r) /\ Guarded(r)
  BY DEF StoreOK
<1>1. \A i \in DOMAIN queue : queue[i] \in ToSet(queue) /\ f[queue[i]] \in Row
  BY DEF ToSet
<1>2. /\ queue' \in Seq(Row) /\ DOMAIN queue' = DOMAIN queue
      /\ \A i \in DOMAIN queue : queue'[i] = f[queue[i]]
  BY <1>0, <1>1
<1>3. ToSet(queue') = {f[r] : r \in ToSet(queue)}
  BY <1>2 DEF ToSet
<1>4. \A r \in ToSet(queue) : Samples(f[r]) = Samples(r) /\ Count(f[r]) = Count(r)
  BY DEF Samples, Count
<1>5. \A r \in ToSet(queue) : Samples(r) # {}
  <2> TAKE r \in ToSet(queue)
  <2>1. r.first \in Nat /\ r.last \in Nat /\ r.first <= r.last
    BY <1>0, QueueFacts DEF RowOK, Sound
  <2> QED
    BY <2>1 DEF Samples
<1>6. \A r, x \in ToSet(queue) : f[r] = f[x] => r = x
  <2> SUFFICES ASSUME NEW r \in ToSet(queue), NEW x \in ToSet(queue), f[r] = f[x] PROVE r = x
    OBVIOUS
  <2>1. Samples(r) = Samples(x) /\ Samples(r) # {}
    BY <1>4, <1>5
  <2> QED
    BY <1>0, <2>1 DEF Disjoint
<1>7. Distinct(queue')
  BY <1>0, <1>1, <1>2, <1>6 DEF Distinct
<1>8. Disjoint(ToSet(queue'))
  BY <1>0, <1>3, <1>4 DEF Disjoint
<1>9. ASSUME NEW r \in ToSet(queue) PROVE RowOK(f[r]) /\ Guarded(f[r])
  BY <1>0, <1>4 DEF RowOK, Guarded, Sound
<1>10. \A r \in ToSet(queue') : RowOK(r)' /\ Guarded(r)'
  BY <1>3, <1>9, SameCollected
<1>11. SamplesOf(ToSet(queue')) = SamplesOf(ToSet(queue))
  <2>1. \A s : s \in SamplesOf(ToSet(queue')) <=> \E r \in ToSet(queue) : s \in Samples(f[r])
    BY <1>3, SamplesIn1
  <2>2. \A s : s \in SamplesOf(ToSet(queue)) <=> \E r \in ToSet(queue) : s \in Samples(f[r])
    BY <1>4, SamplesIn1
  <2> QED
    BY <2>1, <2>2
<1>12. f \in Surjection(ToSet(queue), ToSet(queue'))
  BY <1>3 DEF Surjection
<1>13. /\ Bytes(ToSet(queue'), PlainSize) \in Nat
       /\ Bytes(ToSet(queue'), PlainSize) <= Bytes(ToSet(queue), PlainSize)
  BY <1>4, <1>12, QueueFacts, BytesOfImage
<1> QED
  BY <1>2, <1>7, <1>8, <1>10, <1>11, <1>13

Deferred(r, delay) ==
  [r EXCEPT !.attempts = IF @ < MaxBackoff THEN @ + 1 ELSE @, !.wait = delay]

LEMMA DeferKeeps ==
  ASSUME StoreOK, NEW r \in ToSet(queue), NEW delay \in 0..MaxWait, Defer(r, delay),
         UNCHANGED <<collected, protected>>
  PROVE  StoreOK'
<1> DEFINE d == Deferred(r, delay)
           f == [x \in ToSet(queue) |-> IF x = r THEN d ELSE x]
           rows == ToSet(queue')
<1>1. /\ queue' = [i \in DOMAIN queue |-> IF queue[i] = r THEN d ELSE queue[i]]
      /\ UNCHANGED <<quarantine, acknowledged, evicted, expired, isolated>>
  BY DEF Defer, Deferred, fateVars
<1>2. /\ d \in Row /\ d.first = r.first /\ d.last = r.last /\ d.critical = r.critical
      /\ d.depth = r.depth /\ d.wait <= MaxWait
  <2>1. r \in Row /\ delay \in Nat /\ delay <= MaxWait
    BY MaxWaitFacts DEF StoreOK, RowOK
  <2> DEFINE n == IF r.attempts < MaxBackoff THEN r.attempts + 1 ELSE r.attempts
  <2>2. n \in Nat
    BY <2>1 DEF Row
  <2>3. d = [r EXCEPT !.attempts = n, !.wait = delay]
    BY DEF Deferred
  <2> HIDE DEF d, n
  <2> QED
    BY <2>1, <2>2, <2>3 DEF Row
<1> HIDE DEF d
<1>3. \A x \in ToSet(queue) : x \in Row /\ x.wait <= MaxWait
  BY DEF StoreOK, RowOK
<1>4. f \in [ToSet(queue) -> Row]
  BY <1>2, <1>3
<1>5. \A x \in ToSet(queue) : /\ f[x].first = x.first /\ f[x].last = x.last
                              /\ f[x].critical = x.critical /\ f[x].depth = x.depth
                              /\ f[x].wait <= MaxWait
  BY <1>2, <1>3
<1>6. queue' = [i \in DOMAIN queue |-> f[queue[i]]]
  BY <1>1 DEF ToSet
<1> HIDE DEF f
<1>7. /\ queue' \in Seq(Row) /\ Distinct(queue') /\ Disjoint(rows)
      /\ \A x \in rows : RowOK(x)' /\ Guarded(x)'
      /\ SamplesOf(rows) = SamplesOf(ToSet(queue))
      /\ Bytes(rows, PlainSize) \in Nat /\ Bytes(rows, PlainSize) <= Bytes(ToSet(queue), PlainSize)
  BY <1>4, <1>5, <1>6, Rewritten
<1>8. WithinQuotas'
  BY <1>1, <1>7, QueueFacts, NextBytes, FewerBytes
<1>9. /\ IsFiniteSet(quarantine') /\ Disjoint(quarantine')
      /\ \A x \in quarantine' : SealedOK(x)'
  BY <1>1, SameCollected DEF StoreOK
<1>10. evicted' = evicted \cup SamplesOf(rows \ rows)
  BY <1>1, SamplesIn1
<1>11. Partition(SamplesOf(rows), SamplesOf(quarantine'),
                 acknowledged', evicted, expired', isolated', collected')
  BY <1>1, <1>7 DEF StoreOK, Partition
<1> QED
  BY <1>7, <1>8, <1>9, <1>10, <1>11, SameCollected, Regrouped
\* A cycle passes for a row, and for a sealed payload.
Rested(r) == [r EXCEPT !.wait = IF @ > 0 THEN @ - 1 ELSE 0]
Aged(x)   == [x EXCEPT !.left = IF @ > 0 THEN @ - 1 ELSE 0]

LEMMA RestedFacts ==
  ASSUME NEW r \in Row, r.wait <= MaxWait
  PROVE  /\ Rested(r) \in Row /\ Rested(r).first = r.first /\ Rested(r).last = r.last
         /\ Rested(r).critical = r.critical /\ Rested(r).depth = r.depth
         /\ Rested(r).wait <= MaxWait
<1> DEFINE n == IF r.wait > 0 THEN r.wait - 1 ELSE 0
<1>1. n \in Nat /\ n <= MaxWait
  BY MaxWaitFacts DEF Row
<1>2. Rested(r) = [r EXCEPT !.wait = n]
  BY DEF Rested
<1> HIDE DEF n
<1> QED
  BY <1>1, <1>2 DEF Row

LEMMA AgedFacts ==
  ASSUME NEW x \in Sealed
  PROVE  Aged(x) \in Sealed /\ Aged(x).first = x.first /\ Aged(x).last = x.last
<1> DEFINE n == IF x.left > 0 THEN x.left - 1 ELSE 0
<1>1. n \in Nat
  BY DEF Sealed
<1>2. Aged(x) = [x EXCEPT !.left = n]
  BY DEF Aged
<1> HIDE DEF n
<1> QED
  BY <1>1, <1>2 DEF Sealed

LEMMA SleepKeeps ==
  ASSUME StoreOK, Sleep
  PROVE  StoreOK'
<1> DEFINE f == [r \in ToSet(queue) |-> Rested(r)]
           g == [x \in quarantine |-> Aged(x)]
           rows == ToSet(queue')
<1>1. /\ queue' = [i \in DOMAIN queue |-> Rested(queue[i])]
      /\ quarantine' = {Aged(x) : x \in quarantine}
      /\ UNCHANGED <<acknowledged, evicted, expired, isolated, collected, protected>>
  BY DEF Sleep, Rested, Aged, fateVars
<1>2. \A r \in ToSet(queue) :
        /\ f[r] \in Row /\ f[r].first = r.first /\ f[r].last = r.last
        /\ f[r].critical = r.critical /\ f[r].depth = r.depth /\ f[r].wait <= MaxWait
  BY RestedFacts DEF StoreOK, RowOK
<1>3. f \in [ToSet(queue) -> Row]
  BY <1>2
<1>4. queue' = [i \in DOMAIN queue |-> f[queue[i]]]
  BY <1>1 DEF ToSet
<1> HIDE DEF f
<1>5. /\ queue' \in Seq(Row) /\ Distinct(queue') /\ Disjoint(rows)
      /\ \A r \in rows : RowOK(r)' /\ Guarded(r)'
      /\ SamplesOf(rows) = SamplesOf(ToSet(queue))
      /\ Bytes(rows, PlainSize) \in Nat /\ Bytes(rows, PlainSize) <= Bytes(ToSet(queue), PlainSize)
  BY <1>1, <1>2, <1>3, <1>4, Rewritten
<1>6. \A x \in quarantine : /\ Aged(x) \in Sealed /\ Aged(x).first = x.first
                            /\ Aged(x).last = x.last
  BY AgedFacts DEF StoreOK, SealedOK
<1>7. \A x \in quarantine : /\ Samples(Aged(x)) = Samples(x) /\ Count(Aged(x)) = Count(x)
                            /\ SealedOK(Aged(x))
  BY <1>6 DEF Samples, Count, StoreOK, SealedOK, Sound
<1>8. \A x \in quarantine' : SealedOK(x)'
  BY <1>1, <1>7, SameCollected
<1>9. Disjoint(quarantine')
  BY <1>1, <1>7 DEF Disjoint, StoreOK
<1>10. SamplesOf(quarantine') = SamplesOf(quarantine)
  <2>1. \A s : s \in SamplesOf(quarantine') <=> \E x \in quarantine : s \in Samples(Aged(x))
    BY <1>1, SamplesIn1
  <2>2. \A s : s \in SamplesOf(quarantine) <=> \E x \in quarantine : s \in Samples(Aged(x))
    BY <1>7, SamplesIn1
  <2> QED
    BY <2>1, <2>2
<1>11. /\ IsFiniteSet(quarantine')
       /\ Bytes(quarantine', SealedSize) \in Nat
       /\ Bytes(quarantine', SealedSize) <= Bytes(quarantine, SealedSize)
  <2>1. g \in Surjection(quarantine, quarantine')
    BY <1>1 DEF Surjection
  <2>2. \A x \in quarantine : Count(g[x]) = Count(x)
    BY <1>7
  <2>3. IsFiniteSet(quarantine) /\ Sized(quarantine, SealedSize)
    BY QueueFacts DEF StoreOK
  <2> HIDE DEF g
  <2> QED
    BY <2>1, <2>2, <2>3, BytesOfImage
<1>12. WithinQuotas'
  BY <1>5, <1>11, FewerBytes
<1>13. evicted' = evicted \cup SamplesOf(rows \ rows)
  BY <1>1, SamplesIn1
<1>14. Partition(SamplesOf(rows), SamplesOf(quarantine'),
                 acknowledged', evicted, expired', isolated', collected')
  BY <1>1, <1>5, <1>10 DEF StoreOK, Partition
<1>15. UNCHANGED <<collected, protected>>
  BY <1>1
<1> QED
  BY <1>5, <1>8, <1>9, <1>11, <1>12, <1>13, <1>14, <1>15, SameCollected, Regrouped

\* What is in quarantine leaves it, and the rest stays.
LEMMA SealedLess ==
  ASSUME StoreOK, NEW gone \in SUBSET quarantine
  PROVE  /\ IsFiniteSet(quarantine \ gone) /\ Disjoint(quarantine \ gone)
         /\ SamplesOf(quarantine) = SamplesOf(quarantine \ gone) \cup SamplesOf(gone)
         /\ SamplesOf(quarantine \ gone) \cap SamplesOf(gone) = {}
         /\ Bytes(quarantine \ gone, SealedSize) \in Nat
         /\ Bytes(quarantine \ gone, SealedSize) <= Bytes(quarantine, SealedSize)
<1> DEFINE kept == quarantine \ gone
<1>1. kept \in SUBSET quarantine /\ quarantine \ kept = gone
  OBVIOUS
<1>2. IsFiniteSet(quarantine) /\ Disjoint(quarantine) /\ Sized(quarantine, SealedSize)
  BY QueueFacts DEF StoreOK
<1> HIDE DEF kept
<1>3. /\ SamplesOf(quarantine) = SamplesOf(kept) \cup SamplesOf(gone)
      /\ SamplesOf(kept) \cap SamplesOf(gone) = {}
      /\ Disjoint(kept)
  BY <1>1, <1>2, SamplesLeft
<1>4. IsFiniteSet(kept)
  BY <1>1, <1>2, FS_Subset
<1>5. Bytes(kept, SealedSize) \in Nat /\ Bytes(kept, SealedSize) <= Bytes(quarantine, SealedSize)
  BY <1>1, <1>2, BytesOfFewer
<1> QED
  BY <1>3, <1>4, <1>5 DEF kept

LEMMA PurgeKeeps ==
  ASSUME StoreOK, PurgeExpired, UNCHANGED <<queue, acknowledged, evicted, isolated, collected, protected>>
  PROVE  StoreOK'
<1> DEFINE rows == ToSet(queue)
<1>1. quarantine' = quarantine \ Outdated /\ expired' = expired \cup SamplesOf(Outdated)
  BY DEF PurgeExpired
<1>2. /\ IsFiniteSet(quarantine') /\ Disjoint(quarantine')
      /\ SamplesOf(quarantine) = SamplesOf(quarantine') \cup SamplesOf(Outdated)
      /\ SamplesOf(quarantine') \cap SamplesOf(Outdated) = {}
      /\ Bytes(quarantine', SealedSize) \in Nat
      /\ Bytes(quarantine', SealedSize) <= Bytes(quarantine, SealedSize)
  <2>1. Outdated \in SUBSET quarantine
    BY DEF Outdated
  <2> QED
    BY <1>1, <2>1, SealedLess
<1>3. /\ queue' \in Seq(Row) /\ Distinct(queue') /\ Disjoint(rows) /\ ToSet(queue') = rows
      /\ \A r \in rows : RowOK(r)' /\ Guarded(r)'
  BY SameCollected DEF StoreOK
<1>4. \A x \in quarantine' : SealedOK(x)'
  BY <1>1, SameCollected DEF StoreOK
<1>5. WithinQuotas'
  BY <1>2, <1>3, QueueFacts, NextBytes, FewerBytes
<1>6. evicted' = evicted \cup SamplesOf(rows \ rows)
  BY SamplesIn1
<1>7. Partition(SamplesOf(rows), SamplesOf(quarantine'),
                acknowledged', evicted, expired', isolated', collected')
  BY <1>1, <1>2 DEF StoreOK, Partition
<1> HIDE DEF rows
<1> QED
  BY <1>2, <1>3, <1>4, <1>5, <1>6, <1>7, SameCollected, Regrouped

LEMMA RestartCorruptKeeps ==
  ASSUME StoreOK, RestartCorrupt
  PROVE  StoreOK'
<1>1. /\ queue' = <<>> /\ quarantine' = {}
      /\ isolated' = isolated \cup SamplesOf(ToSet(queue) \cup quarantine)
      /\ UNCHANGED <<acknowledged, evicted, expired, collected, protected>>
  BY DEF RestartCorrupt
<1>2. queue' \in Seq(Row) /\ Distinct(queue') /\ ToSet(queue') = {}
  BY <1>1 DEF Distinct, ToSet
<1>3. SamplesOf({}) = {} /\ Disjoint({}) /\ IsFiniteSet({})
  BY FS_EmptySet DEF SamplesOf, Disjoint
<1>4. SamplesOf(ToSet(queue) \cup quarantine) = SamplesOf(ToSet(queue)) \cup SamplesOf(quarantine)
  BY SamplesIn1
<1>5. WithinQuotas'
  <2>1. {} \in SUBSET ToSet(queue) /\ {} \in SUBSET quarantine
    OBVIOUS
  <2>2. /\ Bytes({}, PlainSize) \in Nat /\ Bytes({}, PlainSize) <= Bytes(ToSet(queue), PlainSize)
        /\ Bytes({}, SealedSize) \in Nat /\ Bytes({}, SealedSize) <= Bytes(quarantine, SealedSize)
    BY <2>1, QueueFacts, BytesOfFewer DEF StoreOK
  <2> QED
    BY <1>1, <1>2, <2>2, FewerBytes
<1>6. Partition(SamplesOf({}), SamplesOf(quarantine'),
                acknowledged', evicted, expired', isolated', collected')
  BY <1>1, <1>3, <1>4 DEF StoreOK, Partition
<1>7. evicted' = evicted \cup SamplesOf({} \ ToSet(queue'))
  BY <1>1, SamplesIn1
<1>8. UNCHANGED <<collected, protected>>
  BY <1>1
<1> QED
  BY <1>1, <1>2, <1>3, <1>5, <1>6, <1>7, <1>8, SameCollected, Regrouped

\* A half of a row: some of its samples, one level deeper.
HalfOK(r, first, last, c) ==
  /\ RowOK(c) /\ Guarded(c) /\ c.critical = r.critical
  /\ Samples(c) = first..last /\ Samples(c) \subseteq Samples(r) /\ Samples(c) # {}
  /\ Count(c) \in 1..MaxSamples

LEMMA ChildFacts ==
  ASSUME StoreOK, NEW r \in ToSet(queue), r.depth < MaxDepth,
         NEW first \in Nat, NEW last \in Nat, r.first <= first, first <= last, last <= r.last,
         NEW c, c = Child(r, first, last)
  PROVE  HalfOK(r, first, last, c)
<1>1. r \in Row /\ r.first \in Nat /\ r.last \in Nat /\ 1 <= r.first /\ r.last <= collected
      /\ r.depth \in Nat /\ collected \in Nat /\ MaxSamples \in Nat /\ MaxDepth \in Nat
      /\ collected <= MaxSamples
  BY BoundsHold DEF StoreOK, RowOK, Row, Sound, Bounds
<1>2. c \in Row /\ c.first = first /\ c.last = last /\ c.critical = r.critical /\ c.wait = 0
      /\ c.depth = r.depth + 1
  <2> DEFINE d == r.depth + 1
  <2>1. d \in Nat
    BY <1>1
  <2>2. c = [r EXCEPT !.first = first, !.last = last, !.depth = d, !.attempts = 0, !.wait = 0]
    BY DEF Child
  <2> HIDE DEF d
  <2>0. r \in Row
    BY <1>1
  <2>3. c \in Row
    BY ONLY <2>0, <2>1, <2>2, first \in Nat, last \in Nat, 0 \in Nat DEF Row
  <2>4. c.first = first /\ c.last = last /\ c.critical = r.critical /\ c.wait = 0 /\ c.depth = d
    BY <1>1, <2>2 DEF Row
  <2> QED
    BY <2>3, <2>4 DEF d
<1>3. RowOK(c)
  BY <1>1, <1>2, MaxWaitFacts DEF RowOK, Sound
<1>4. Samples(c) = first..last /\ Samples(c) \subseteq Samples(r) /\ first \in Samples(c)
  BY <1>1, <1>2 DEF Samples
<1>5. Guarded(c)
  BY <1>2, <1>4 DEF StoreOK, Guarded
<1>6. Count(c) \in 1..MaxSamples
  BY <1>1, <1>2 DEF Count
<1> QED
  BY <1>2, <1>3, <1>4, <1>5, <1>6 DEF HalfOK

LEMMA HalvesFacts ==
  ASSUME StoreOK, NEW r \in ToSet(queue), Count(r) # 1, r.depth < MaxDepth,
         NEW middle, middle = r.first + (Count(r) \div 2),
         NEW left, left = Child(r, r.first, middle - 1),
         NEW right, right = Child(r, middle, r.last)
  PROVE  /\ HalfOK(r, r.first, middle - 1, left) /\ HalfOK(r, middle, r.last, right)
         /\ Samples(r) = Samples(left) \cup Samples(right)
         /\ Samples(left) \cap Samples(right) = {}
<1>1. /\ middle \in Nat /\ middle - 1 \in Nat /\ r.first \in Nat /\ r.last \in Nat
      /\ r.first <= middle - 1 /\ middle <= r.last /\ r.first <= r.last
      /\ r.first <= r.first /\ r.last <= r.last /\ middle - 1 <= r.last /\ r.first <= middle
  <2>1. /\ r.first \in Nat /\ r.last \in Nat /\ Count(r) \in 1..MaxSamples /\ MaxSamples \in Nat
        /\ 1 <= r.first
    BY QueueFacts, BoundsHold DEF Bounds, StoreOK, RowOK, Sound
  <2>2. Count(r) = r.last + 1 - r.first
    BY DEF Count
  <2> QED
    BY <2>1, <2>2
<1>2. HalfOK(r, r.first, middle - 1, left)
  BY <1>1, ChildFacts
<1>3. HalfOK(r, middle, r.last, right)
  BY <1>1, ChildFacts
<1>4. /\ Samples(left) = r.first..(middle - 1) /\ Samples(right) = middle..r.last
      /\ Samples(r) = r.first..r.last
  BY <1>2, <1>3 DEF HalfOK, Samples
<1> QED
  BY <1>1, <1>2, <1>3, <1>4

LEMMA SplitKeeps ==
  ASSUME StoreOK, NEW r \in ToSet(queue), Count(r) # 1, r.depth < MaxDepth, Split(r),
         UNCHANGED <<collected, protected>>
  PROVE  StoreOK'
<1> PICK middle : middle = r.first + (Count(r) \div 2)
  OBVIOUS
<1> PICK left : left = Child(r, r.first, middle - 1)
  OBVIOUS
<1> PICK right : right = Child(r, middle, r.last)
  OBVIOUS
<1> DEFINE n == PlainSize[Count(left)]
           m == PlainSize[Count(right)]
           room == MakeRoom(Without(r), quarantine, n)
           one == Append(room, left)
           two == MakeRoom(one, quarantine, m)
           rest == ToSet(queue) \ {r}
           rows == rest \cup {left, right}
<1>1. CASE ~(HasRoom(Without(r), quarantine, n) /\ HasRoom(one, quarantine, m))
  <2>1. UNCHANGED <<storeVars, fateVars>>
    BY <1>1 DEF Split
  <2> QED
    BY <2>1, StoreUnchanged
<1>2. CASE HasRoom(Without(r), quarantine, n) /\ HasRoom(one, quarantine, m)
  <2>1. /\ queue' = Append(two, right)
        /\ evicted' = evicted \cup (SamplesOf(ToSet(queue)) \ SamplesOf(ToSet(queue')))
        /\ UNCHANGED <<quarantine, acknowledged, expired, isolated>>
    BY <1>2 DEF Split
  <2>2. /\ HalfOK(r, r.first, middle - 1, left) /\ HalfOK(r, middle, r.last, right)
        /\ Samples(r) = Samples(left) \cup Samples(right)
        /\ Samples(left) \cap Samples(right) = {}
    <3> HIDE DEF n, m
    <3> QED
      BY HalvesFacts
  <2>3. /\ RowOK(left) /\ Guarded(left) /\ left.critical = r.critical
        /\ Samples(left) # {} /\ Count(left) \in 1..MaxSamples
    BY <2>2 DEF HalfOK
  <2>4. /\ RowOK(right) /\ Guarded(right) /\ right.critical = r.critical
        /\ Samples(right) # {} /\ Count(right) \in 1..MaxSamples
    BY <2>2 DEF HalfOK
  <2>5. /\ Samples(r) = Samples(left) \cup Samples(right)
        /\ Samples(left) \cap Samples(right) = {}
    BY <2>2
  <2>6. n \in Nat /\ m \in Nat
    BY <2>3, <2>4, BoundsHold DEF Bounds
  <2> HIDE DEF n, m
  <2>7. Without(r) \in Seq(Row) /\ Distinct(Without(r)) /\ ToSet(Without(r)) = rest
    BY WithoutFacts
  <2>8. \A x \in rest : Samples(x) \cap Samples(r) = {}
    BY DEF StoreOK, Disjoint
  <2>9. left \notin rest /\ right \notin rest /\ left # right
    BY <2>3, <2>4, <2>5, <2>8
  <2>10. Trimmed(Without(r), room)
    BY <1>2, <2>7, RoomFacts
  <2> HIDE DEF room, rest
  <2>11. /\ room \in Seq(Row) /\ Distinct(room) /\ ToSet(room) \subseteq rest
         /\ \A x \in rest \ ToSet(room) : ~x.critical
    BY <2>7, <2>10 DEF Trimmed
  <2>12. one \in Seq(Row) /\ Distinct(one) /\ ToSet(one) = ToSet(room) \cup {left}
    BY <2>3, <2>9, <2>11, AppendFacts DEF RowOK
  <2> HIDE DEF one
  <2>13. /\ Trimmed(one, two)
         /\ QueueBytes(two) + QuarantineBytes(quarantine) + m <= MaxQueue
    BY <1>2, <2>12, RoomFacts
  <2> HIDE DEF two
  <2>14. /\ two \in Seq(Row) /\ Distinct(two) /\ ToSet(two) \subseteq rest \cup {left}
         /\ \A x \in (rest \cup {left}) \ ToSet(two) : ~x.critical
    BY <2>11, <2>12, <2>13 DEF Trimmed
  <2>15. queue' \in Seq(Row) /\ Distinct(queue') /\ ToSet(queue') = ToSet(two) \cup {right}
    BY <2>1, <2>4, <2>9, <2>14, AppendFacts DEF RowOK
  <2>16. /\ ToSet(queue') \subseteq rows
         /\ \A x \in rows \ ToSet(queue') : ~x.critical
    BY <2>14, <2>15
  <2>17. Disjoint(rows)
    <3>1. Disjoint(rest)
      BY DEF StoreOK, Disjoint, rest
    <3> QED
      BY <2>5, <2>8, <3>1 DEF Disjoint
  <2>18. \A x \in rows : RowOK(x)' /\ Guarded(x)'
    <3>1. \A x \in rest : RowOK(x) /\ Guarded(x)
      BY DEF rest, StoreOK
    <3> QED
      BY <2>3, <2>4, <3>1, SameCollected
  <2>19. SamplesOf(rows) = SamplesOf(ToSet(queue))
    <3>1. ToSet(queue) = rest \cup {r}
      BY DEF rest
    <3>2. \A s : s \in SamplesOf(rows) <=> s \in SamplesOf(ToSet(queue))
      BY <2>5, <3>1, SamplesIn1
    <3> QED
      BY <3>2
  <2>20. evicted' = evicted \cup SamplesOf(rows \ ToSet(queue'))
    <3>1. SamplesOf(rows) \ SamplesOf(ToSet(queue')) = SamplesOf(rows \ ToSet(queue'))
      <4> HIDE DEF rows
      <4> QED
        BY <2>16, <2>17, SamplesLeft
    <3> QED
      BY <2>1, <2>19, <3>1
  <2>21. Partition(SamplesOf(rows), SamplesOf(quarantine'),
                   acknowledged', evicted, expired', isolated', collected')
    BY <2>1, <2>19 DEF StoreOK, Partition
  <2>22. WithinQuotas'
    <3>1. IsFiniteSet(ToSet(two)) /\ Sized(ToSet(two), PlainSize)
      <4>1. IsFiniteSet(ToSet(two))
        BY <2>14, FiniteQueue
      <4>2. \A x \in rest \cup {left} : PlainSize[Count(x)] \in Nat
        BY <2>3, QueueFacts, BoundsHold DEF rest, Sized, Bounds
      <4> QED
        BY <2>14, <4>1, <4>2 DEF Sized
    <3>2. ToSet(queue') \in SUBSET (ToSet(two) \cup {right}) /\ PlainSize[Count(right)] = m
      BY <2>15 DEF m
    <3>3. /\ Bytes(ToSet(queue'), PlainSize) \in Nat /\ Bytes(ToSet(two), PlainSize) \in Nat
          /\ Bytes(ToSet(queue'), PlainSize) <= Bytes(ToSet(two), PlainSize) + m
      BY <2>6, <3>1, <3>2, BytesAppended
    <3>4. QueueBytes(queue)' = Bytes(ToSet(queue'), PlainSize)
          /\ QuarantineBytes(quarantine)' = QuarantineBytes(quarantine)
          /\ QueueBytes(two) = Bytes(ToSet(two), PlainSize)
      BY <2>1 DEF QueueBytes, QuarantineBytes, Bytes, Count
    <3>5. QuarantineBytes(quarantine) \in Nat /\ QuarantineBytes(quarantine) <= MaxQuarantine
      BY QueueFacts DEF StoreOK, WithinQuotas
    <3> QED
      BY <2>6, <2>13, <3>3, <3>4, <3>5, BoundsHold DEF WithinQuotas, Bounds
  <2>23. /\ IsFiniteSet(quarantine') /\ Disjoint(quarantine')
         /\ \A x \in quarantine' : SealedOK(x)'
    BY <2>1, SameCollected DEF StoreOK
  <2> HIDE DEF rows
  <2> QED
    BY <2>15, <2>16, <2>17, <2>18, <2>20, <2>21, <2>22, <2>23, SameCollected, Regrouped
<1> QED
  BY <1>1, <1>2

LEMMA QuarantineKeeps ==
  ASSUME StoreOK, NEW r \in ToSet(queue), Quarantine(r), UNCHANGED <<collected, protected>>
  PROVE  StoreOK'
<1> PICK x : x = [first |-> r.first, last |-> r.last, left |-> Retention]
  OBVIOUS
<1> DEFINE kept == quarantine \ Outdated
           n == SealedSize[Count(r)]
           rows == ToSet(queue) \ {r}
<1>1. CASE ~(/\ CanSeal
             /\ HasRoom(Without(r), kept, n)
             /\ QuarantineBytes(kept) + n <= MaxQuarantine)
  <2>1. UNCHANGED <<storeVars, fateVars>>
    BY <1>1 DEF Quarantine
  <2> QED
    BY <2>1, StoreUnchanged
<1>2. CASE /\ CanSeal
           /\ HasRoom(Without(r), kept, n)
           /\ QuarantineBytes(kept) + n <= MaxQuarantine
  <2>1. /\ queue' = MakeRoom(Without(r), kept, n)
        /\ quarantine' = kept \cup {x}
        /\ expired' = expired \cup SamplesOf(Outdated)
        /\ evicted' = evicted \cup
             (SamplesOf(ToSet(queue)) \ (Samples(r) \cup SamplesOf(ToSet(queue'))))
        /\ UNCHANGED <<acknowledged, isolated>>
    BY <1>2 DEF Quarantine
  <2>2. Outdated \in SUBSET quarantine
    BY DEF Outdated
  <2>3. /\ IsFiniteSet(kept) /\ Disjoint(kept) /\ kept \in SUBSET quarantine
        /\ SamplesOf(quarantine) = SamplesOf(kept) \cup SamplesOf(Outdated)
        /\ SamplesOf(kept) \cap SamplesOf(Outdated) = {}
    BY <2>2, SealedLess
  <2>4. n \in Nat
    BY QueueFacts, BoundsHold DEF Bounds
  <2> HIDE DEF kept, n
  <2>5. Without(r) \in Seq(Row) /\ Distinct(Without(r)) /\ ToSet(Without(r)) = rows
    BY WithoutFacts
  <2>6. /\ Trimmed(Without(r), queue')
        /\ QueueBytes(queue') + QuarantineBytes(kept) + n <= MaxQueue
    BY <1>2, <2>1, <2>5, RoomFacts
  <2>7. /\ queue' \in Seq(Row) /\ Distinct(queue') /\ ToSet(queue') \subseteq rows
        /\ \A y \in rows \ ToSet(queue') : ~y.critical
    BY <2>5, <2>6 DEF Trimmed
  <2>8. /\ Disjoint(rows) /\ SamplesOf(ToSet(queue)) = SamplesOf(rows) \cup Samples(r)
        /\ SamplesOf(rows) \cap Samples(r) = {}
    <3>1. rows \in SUBSET ToSet(queue) /\ Disjoint(ToSet(queue))
      BY DEF StoreOK
    <3>0. ToSet(queue) \ rows = {} \cup {r}
      OBVIOUS
    <3> HIDE DEF rows
    <3>2. SamplesOf(ToSet(queue) \ rows) = Samples(r)
      <4>1. SamplesOf({}) = {}
        BY DEF SamplesOf
      <4>2. SamplesOf({} \cup {r}) = SamplesOf({}) \cup Samples(r)
        BY ONLY SamplesOfOne
      <4> QED
        BY <3>0, <4>1, <4>2
    <3> QED
      BY <3>1, <3>2, SamplesLeft
  <2>9. \A y \in rows : RowOK(y)' /\ Guarded(y)'
    BY SameCollected DEF StoreOK
  <2>10. /\ x \in Sealed /\ x.first = r.first /\ x.last = r.last
         /\ Samples(x) = Samples(r) /\ Count(x) = Count(r) /\ SealedOK(x)
    <3>1. r.first \in Nat /\ r.last \in Nat /\ Sound(r) /\ Retention \in Nat
      BY QueueFacts, BoundsHold DEF StoreOK, RowOK, Bounds
    <3>2. x \in Sealed /\ x.first = r.first /\ x.last = r.last
      BY <3>1 DEF Sealed
    <3> QED
      BY <3>1, <3>2 DEF Samples, Count, SealedOK, Sound
  <2>11. SamplesOf(quarantine') = SamplesOf(kept) \cup Samples(r)
    BY <2>1, <2>10, SamplesOfOne
  <2>12. /\ SamplesOf(kept) \cap Samples(r) = {}
    <3>1. SamplesOf(ToSet(queue)) \cap SamplesOf(quarantine) = {}
      BY DEF StoreOK, Partition
    <3> QED
      BY <2>3, <2>8, <3>1
  <2>13. Disjoint(quarantine')
    <3>1. \A y \in kept : Samples(y) \cap Samples(x) = {}
      BY <2>10, <2>12, SamplesIn1
    <3> QED
      BY <2>1, <2>3, <3>1 DEF Disjoint
  <2>14. \A y \in quarantine' : SealedOK(y)'
    <3>1. \A y \in kept : SealedOK(y)
      BY <2>3 DEF StoreOK
    <3> QED
      BY <2>1, <2>10, <3>1, SameCollected
  <2>15. /\ IsFiniteSet(quarantine') /\ Bytes(quarantine', SealedSize) \in Nat
         /\ Bytes(kept, SealedSize) \in Nat
         /\ Bytes(quarantine', SealedSize) <= Bytes(kept, SealedSize) + n
    <3>1. Sized(kept, SealedSize)
      BY <2>3, QueueFacts DEF Sized
    <3>2. SealedSize[Count(x)] = n
      BY <2>10 DEF n
    <3> QED
      BY <2>1, <2>3, <2>4, <3>1, <3>2, BytesOfOneMore
  <2>16. WithinQuotas'
    <3>1. Bytes(ToSet(queue'), PlainSize) \in Nat
      <4>1. IsFiniteSet(ToSet(queue'))
        BY <2>7, FiniteQueue
      <4>2. Sized(ToSet(queue'), PlainSize)
        BY <2>7, QueueFacts DEF Sized
      <4> QED
        BY <4>1, <4>2, BytesFinite
    <3>2. /\ QueueBytes(queue') = Bytes(ToSet(queue'), PlainSize)
          /\ QuarantineBytes(kept) = Bytes(kept, SealedSize)
      BY DEF QueueBytes, QuarantineBytes
    <3>3. QuarantineBytes(kept) + n <= MaxQuarantine
      BY <1>2
    <3> QED
      BY <2>4, <2>6, <2>15, <3>1, <3>2, <3>3, NextBytes, BoundsHold DEF WithinQuotas, Bounds
  <2>17. Partition(SamplesOf(rows), SamplesOf(quarantine'),
                   acknowledged', evicted, expired', isolated', collected')
    <3> HIDE DEF rows
    <3> QED
      BY <2>1, <2>3, <2>8, <2>11, <2>12 DEF StoreOK, Partition
  <2>18. evicted' = evicted \cup SamplesOf(rows \ ToSet(queue'))
    <3> HIDE DEF rows
    <3>1. SamplesOf(rows) \ SamplesOf(ToSet(queue')) = SamplesOf(rows \ ToSet(queue'))
      BY <2>7, <2>8, SamplesLeft
    <3>2. SamplesOf(ToSet(queue)) \ (Samples(r) \cup SamplesOf(ToSet(queue')))
            = SamplesOf(rows) \ SamplesOf(ToSet(queue'))
      BY <2>8
    <3> QED
      BY <2>1, <3>1, <3>2
  <2> HIDE DEF rows
  <2> QED
    BY <2>7, <2>8, <2>9, <2>13, <2>14, <2>15, <2>16, <2>17, <2>18, SameCollected, Regrouped
<1> QED
  BY <1>1, <1>2
-----------------------------------------------------------------------------
(* The loop.                                                                *)

\* A power of two is a natural number: it counts the subsets of a set.
LEMMA PowerFacts == ASSUME NEW k \in Nat PROVE 2 ^ k \in Nat
<1> DEFINE S == 1..k
<1>1. IsFiniteSet(S) /\ Cardinality(S) = k
  <2>1. k \in Int /\ 1 \in Int
    OBVIOUS
  <2>2. IsFiniteSet(1..k) /\ Cardinality(1..k) = IF 1 > k THEN 0 ELSE k - 1 + 1
    BY <2>1, FS_Interval
  <2> QED
    BY <2>1, <2>2
<1> HIDE DEF S
<1>2. IsFiniteSet(SUBSET S) /\ Cardinality(SUBSET S) = 2 ^ Cardinality(S)
  BY <1>1, FS_SUBSET
<1> QED
  BY <1>1, <1>2, FS_CardinalityType

LEMMA BackoffFacts ==
  ASSUME NEW r \in Row, NEW delay \in Backoff(r)
  PROVE  delay \in 0..MaxWait
<1> DEFINE a == Min({r.attempts, 6})
           p == 2 ^ a
           base == Min({p, MaxBackoff})
<1>1. r.attempts \in Nat /\ MaxBackoff \in Nat
  BY BoundsHold DEF Row, Bounds
<1>2. a \in Nat
  <2>1. {r.attempts, 6} \subseteq Nat /\ {r.attempts, 6} # {}
    BY <1>1
  <2> QED
    BY <2>1, MinFacts
<1> HIDE DEF a
<1>3. p \in Nat
  BY <1>2, PowerFacts
<1> HIDE DEF p
<1>4. base \in Nat /\ base <= MaxBackoff
  <2>1. {p, MaxBackoff} \subseteq Nat /\ {p, MaxBackoff} # {}
    BY <1>1, <1>3
  <2> QED
    BY <2>1, MinFacts
<1>5. delay \in base..(base + (base \div 4))
  BY DEF Backoff, p, a
<1> HIDE DEF base
<1>6. base + (base \div 4) <= MaxBackoff + MaxBackoff \div 4
  BY <1>1, <1>4
<1> QED
  BY <1>1, <1>4, <1>5, <1>6, MaxWaitFacts

LEMMA AgentStarts == AgentInit => AgentInv
<1> SUFFICES ASSUME AgentInit PROVE AgentInv
  OBVIOUS
<1>1. ToSet(queue) = {} /\ queue \in Seq(Row) /\ Distinct(queue)
  BY DEF AgentInit, ToSet, Distinct
<1>2. SamplesOf({}) = {} /\ Disjoint({}) /\ IsFiniteSet({})
  BY FS_EmptySet DEF SamplesOf, Disjoint
<1>3. Bytes({}, PlainSize) = 0 /\ Bytes({}, SealedSize) = 0
  <2>1. UNION {{r} \X (1..PlainSize[Count(r)]) : r \in {}} = {}
    OBVIOUS
  <2>2. UNION {{r} \X (1..SealedSize[Count(r)]) : r \in {}} = {}
    OBVIOUS
  <2>3. Cardinality({}) = 0
    BY FS_EmptySet
  <2> QED
    BY <2>1, <2>2, <2>3 DEF Bytes
<1>4. /\ MaxQueue \in Nat /\ MaxQuarantine \in Nat /\ MaxSamples \in Nat
  BY BoundsHold DEF Bounds
<1>0. /\ quarantine = {} /\ collected = 0 /\ acknowledged = {} /\ evicted = {} /\ expired = {}
      /\ isolated = {} /\ protected = {}
  BY DEF AgentInit
<1>5. WithinQuotas
  <2>1. QueueBytes(queue) = 0 /\ QuarantineBytes(quarantine) = 0
    BY <1>0, <1>1, <1>3 DEF QueueBytes, QuarantineBytes
  <2> QED
    BY <1>4, <2>1 DEF WithinQuotas
<1>6. Partition({}, {}, {}, {}, {}, {}, 0)
  <2>1. 1..0 = {}
    OBVIOUS
  <2> QED
    BY <2>1 DEF Partition
<1>7. StoreOK
  <2>1. Partition(SamplesOf(ToSet(queue)), SamplesOf(quarantine),
                  acknowledged, evicted, expired, isolated, collected)
    BY <1>0, <1>1, <1>2, <1>6
  <2>2. collected \in 0..MaxSamples /\ CriticalNeverEvicted /\ protected \subseteq 1..collected
    BY <1>0, <1>4 DEF CriticalNeverEvicted
  <2>3. /\ IsFiniteSet(quarantine) /\ Disjoint(quarantine) /\ Disjoint(ToSet(queue))
        /\ \A x \in quarantine : SealedOK(x)
        /\ \A r \in ToSet(queue) : RowOK(r) /\ Guarded(r)
    BY <1>0, <1>1, <1>2
  <2> QED
    BY <1>1, <1>5, <2>1, <2>2, <2>3 DEF StoreOK
<1>8. LoopOK
  <2>1. NoRow \in Row
    BY DEF NoRow, Row
  <2> QED
    BY <2>1 DEF AgentInit, LoopOK, SendingInv
<1> QED
  BY <1>7, <1>8, AgentParts

LEMMA NoRowFacts == NoRow \in Row
  BY DEF NoRow, Row

\* Outside a dispatch nobody awaits an answer.
LEMMA LoopIdles ==
  ASSUME pc' \in {"collect", "dispatch", "sleeping"}, sending' \in Row
  PROVE  LoopOK'
  BY DEF LoopOK, SendingInv

LEMMA CollectKeeps ==
  ASSUME StoreOK, LoopOK, NEW n \in BatchSizes, NEW critical \in BOOLEAN, Collect(n, critical)
  PROVE  StoreOK' /\ LoopOK'
<1>1. StoreOK'
  BY EnqueueKeeps DEF Collect
<1>2. pc' = "dispatch" /\ sending' = sending
  BY DEF Collect
<1> QED
  BY <1>1, <1>2, LoopIdles DEF LoopOK

LEMMA CollectNothingKeeps ==
  ASSUME StoreOK, LoopOK, CollectNothing
  PROVE  StoreOK' /\ LoopOK'
<1>1. UNCHANGED <<storeVars, fateVars, collected, protected>> /\ pc' = "dispatch" /\ sending' = sending
  BY DEF CollectNothing
<1> QED
  BY <1>1, StoreUnchanged, LoopIdles DEF LoopOK

\* What is sent is a row of the queue that is due.
LEMMA DueFacts ==
  ASSUME StoreOK, Due # <<>>
  PROVE  Head(Due) \in ToSet(queue) /\ Head(Due).wait = 0
<1> DEFINE S == {r \in ToSet(queue) : r.wait = 0}
<1>1. Due = Keep(queue, S)
  BY DEF Due
<1>2. S \subseteq ToSet(queue)
  OBVIOUS
<1> HIDE DEF S
<1>3. Due \in Seq(Row) /\ ToSet(Due) = ToSet(queue) \cap S
  BY <1>1, KeepFacts DEF StoreOK
<1>4. Head(Due) \in ToSet(Due)
  BY <1>3 DEF ToSet
<1> QED
  BY <1>3, <1>4 DEF S

LEMMA StartDispatchKeeps ==
  ASSUME StoreOK, LoopOK, StartDispatch
  PROVE  StoreOK' /\ LoopOK'
<1>1. UNCHANGED <<storeVars, fateVars, collected, protected>> /\ UNCHANGED queue
  BY DEF StartDispatch, storeVars
<1>2. StoreOK'
  BY <1>1, StoreUnchanged
<1>3. CASE Due = <<>>
  <2>1. pc' = "sleeping" /\ sending' = sending
    BY <1>3 DEF StartDispatch
  <2> QED
    BY <1>2, <2>1, LoopIdles DEF LoopOK
<1>4. CASE Due # <<>>
  <2>1. pc' = "sending" /\ sending' = Head(Due)
    BY <1>4 DEF StartDispatch
  <2>2. sending' \in ToSet(queue') /\ sending' \in Row
    BY <1>1, <1>4, <2>1, DueFacts DEF StoreOK, RowOK
  <2>3. SendingInv'
    BY <2>2 DEF SendingInv
  <2> QED
    BY <1>2, <2>1, <2>2, <2>3 DEF LoopOK
<1> QED
  BY <1>3, <1>4

LEMMA AnswerKeeps ==
  ASSUME StoreOK, LoopOK, Answer
  PROVE  StoreOK' /\ LoopOK'
<1>1. /\ Answered /\ pc = "sending" /\ pc' = "sleeping" /\ sending' = NoRow
      /\ UNCHANGED <<collected, protected>>
  BY DEF Answer, Confirmed, Accepted, Retained, Retry, TooLarge, Rejected, Answered
<1>2. sending \in ToSet(queue) /\ sending \in Row
  BY <1>1 DEF LoopOK, SendingInv
<1>3. PollDelay \in 0..MaxWait /\ 2 * PollDelay \in 0..MaxWait
  BY MaxWaitFacts, BoundsHold DEF Bounds
<1>4. CASE Acknowledge(sending)
  BY <1>1, <1>2, <1>4, AcknowledgeKeeps, LoopIdles, NoRowFacts
<1>5. CASE \E delay \in 0..MaxWait : Defer(sending, delay)
  BY <1>1, <1>2, <1>5, DeferKeeps, LoopIdles, NoRowFacts
<1>6. CASE Quarantine(sending)
  BY <1>1, <1>2, <1>6, QuarantineKeeps, LoopIdles, NoRowFacts
<1>7. CASE Split(sending) /\ Count(sending) # 1 /\ ~(sending.depth >= MaxDepth)
  <2>1. sending.depth < MaxDepth
    BY <1>2, <1>7, BoundsHold DEF Row, Bounds
  <2> QED
    BY <1>1, <1>2, <1>7, <2>1, SplitKeeps, LoopIdles, NoRowFacts
<1>8. Answer => \/ Acknowledge(sending)
                \/ \E delay \in 0..MaxWait : Defer(sending, delay)
                \/ Quarantine(sending)
                \/ Split(sending) /\ Count(sending) # 1 /\ ~(sending.depth >= MaxDepth)
  <2>1. \A delay \in Backoff(sending) : delay \in 0..MaxWait
    BY <1>2, BackoffFacts
  <2>2. Confirmed => Acknowledge(sending)
    BY DEF Confirmed
  <2>3. Accepted \/ Retained \/ Retry => \E delay \in 0..MaxWait : Defer(sending, delay)
    BY <1>3, <2>1 DEF Accepted, Retained, Retry
  <2>4. Rejected => Quarantine(sending)
    BY DEF Rejected
  <2>5. TooLarge => \/ Quarantine(sending)
                    \/ Split(sending) /\ Count(sending) # 1 /\ ~(sending.depth >= MaxDepth)
    BY DEF TooLarge
  <2> QED
    BY <2>2, <2>3, <2>4, <2>5 DEF Answer
<1> QED
  BY <1>4, <1>5, <1>6, <1>7, <1>8

LEMMA ReconcileKeeps ==
  ASSUME StoreOK, LoopOK, NEW r \in ToSet(queue), NEW remote, remote \in RemoteStatus,
         Reconcile(r, remote)
  PROVE  StoreOK' /\ LoopOK'
<1>1. pc' = pc /\ pc = "sleeping" /\ sending' = sending /\ UNCHANGED <<collected, protected>>
  BY DEF Reconcile
<1>2. PollDelay \in 0..MaxWait /\ 2 * PollDelay \in 0..MaxWait /\ 4 * PollDelay \in 0..MaxWait
  BY MaxWaitFacts, BoundsHold DEF Bounds
<1>3. \/ Acknowledge(r)
      \/ \E delay \in {PollDelay, 2 * PollDelay, 4 * PollDelay} : Defer(r, delay)
  BY DEF Reconcile, RemoteStatus
<1>4. StoreOK'
  <2>1. CASE Acknowledge(r)
    BY <1>1, <2>1, AcknowledgeKeeps
  <2>2. CASE \E delay \in {PollDelay, 2 * PollDelay, 4 * PollDelay} : Defer(r, delay)
    <3>1. PICK delay \in 0..MaxWait : Defer(r, delay)
      BY <1>2, <2>2
    <3> QED
      BY <1>1, <3>1, DeferKeeps
  <2> QED
    BY <1>3, <2>1, <2>2
<1> QED
  BY <1>1, <1>4, LoopIdles DEF LoopOK

LEMMA AgentNextKeeps ==
  ASSUME AgentInv, AgentNext
  PROVE  AgentInv'
<1>0. StoreOK /\ LoopOK
  BY AgentParts
<1> SUFFICES StoreOK' /\ LoopOK'
  <2>1. (StoreOK /\ LoopOK => AgentInv)'
    BY AgentParts, PTL
  <2> QED
    BY <2>1
<1>1. CASE \E n \in BatchSizes, critical \in BOOLEAN : Collect(n, critical)
  BY <1>0, <1>1, CollectKeeps
<1>2. CASE CollectNothing
  BY <1>0, <1>2, CollectNothingKeeps
<1>3. CASE StartDispatch
  BY <1>0, <1>3, StartDispatchKeeps
<1>4. CASE Answer
  BY <1>0, <1>4, AnswerKeeps
<1>5. CASE Sleep
  <2>1. pc' = "collect" /\ sending' = sending
    BY <1>5 DEF Sleep
  <2> QED
    BY <1>0, <1>5, <2>1, SleepKeeps, LoopIdles DEF LoopOK
<1>6. CASE Restart
  <2>1. UNCHANGED <<storeVars, fateVars, collected, protected>> /\ pc' = "collect" /\ sending' = NoRow
    BY <1>6 DEF Restart
  <2> QED
    BY <1>0, <2>1, StoreUnchanged, LoopIdles, NoRowFacts
<1>7. CASE RestartCorrupt
  <2>1. pc' = "collect" /\ sending' = NoRow
    BY <1>7 DEF RestartCorrupt
  <2> QED
    BY <1>0, <1>7, <2>1, RestartCorruptKeeps, LoopIdles, NoRowFacts
<1>8. CASE PurgeExpiredQuarantine
  <2>1. /\ PurgeExpired /\ UNCHANGED <<queue, acknowledged, evicted, isolated, collected, protected>>
        /\ pc' = "sleeping" /\ sending' = sending
    BY <1>8 DEF PurgeExpiredQuarantine
  <2> QED
    BY <1>0, <2>1, PurgeKeeps, LoopIdles DEF LoopOK
<1>9. CASE \E r \in ToSet(queue), remote \in RemoteStatus : Reconcile(r, remote)
  BY <1>0, <1>9, ReconcileKeeps
<1> QED
  BY <1>1, <1>2, <1>3, <1>4, <1>5, <1>6, <1>7, <1>8, <1>9 DEF AgentNext

\* A step that does not concern the agent.
LEMMA AgentUnchanged ==
  ASSUME AgentInv, UNCHANGED agentVars
  PROVE  AgentInv'
<1>0. StoreOK /\ LoopOK
  BY AgentParts
<1>1. /\ UNCHANGED <<storeVars, fateVars, collected, protected>> /\ UNCHANGED <<pc, sending>>
      /\ UNCHANGED queue
  BY DEF agentVars, storeVars
<1>2. StoreOK' /\ LoopOK'
  BY <1>0, <1>1, StoreUnchanged DEF LoopOK, SendingInv
<1>3. (StoreOK /\ LoopOK => AgentInv)'
  BY AgentParts, PTL
<1> QED
  BY <1>2, <1>3
-----------------------------------------------------------------------------
(* The theorems about the agent.                                            *)

\* The inductive invariant of the agent's loop over its durable queue.
THEOREM AgentInvariance == AgentSpec => []AgentInv
<1>1. AgentInit => AgentInv
  BY AgentStarts
<1>2. AgentInv /\ [AgentNext]_agentVars => AgentInv'
  BY AgentNextKeeps, AgentUnchanged
<1> QED
  BY <1>1, <1>2, PTL DEF AgentSpec

\* Type correctness; also no batch is split beyond MaxDepth, and none is
\* deferred for longer than the longest backoff or poll delay.
THEOREM AgentTypeCorrect == AgentSpec => []AgentTypeOK
<1>1. AgentInv => AgentTypeOK
  BY DEF AgentInv
<1> QED
  BY <1>1, AgentInvariance, PTL

LEMMA CountOfOne ==
  ASSUME NEW S, \A x, y \in S : x = y
  PROVE  Cardinality(S) = IF S = {} THEN 0 ELSE 1
<1>1. CASE S = {}
  BY <1>1, FS_EmptySet
<1>2. CASE S # {}
  <2>1. PICK x \in S : TRUE
    BY <1>2
  <2>2. S = {x}
    BY <2>1
  <2> QED
    BY <2>2, FS_Singleton
<1> QED
  BY <1>1, <1>2

LEMMA ConservedFacts == AgentInv => SamplesConserved
<1> SUFFICES ASSUME AgentInv, NEW s \in 1..MaxSamples
             PROVE  Homes(s) = IF s <= collected THEN 1 ELSE 0
  BY DEF SamplesConserved
<1> DEFINE Q == {i \in DOMAIN queue : s \in Samples(queue[i])}
           X == {x \in quarantine : s \in Samples(x)}
           fates == <<acknowledged, evicted, expired, isolated>>
           F == {fate \in {1, 2, 3, 4} : s \in fates[fate]}
           Held(S) == IF S = {} THEN 0 ELSE 1
<1>1. /\ Distinct(queue) /\ Disjoint(ToSet(queue)) /\ Disjoint(quarantine)
      /\ PlacesInv /\ queue \in Seq(Row) /\ collected \in Nat
  BY DEF AgentInv, StoreInv, AgentTypeOK
<1>2. \A i, j \in Q : i = j
  <2>1. \A i, j \in Q : queue[i] = queue[j]
    BY <1>1 DEF Disjoint, ToSet
  <2> QED
    BY <1>1, <2>1 DEF Distinct
<1>3. \A x, y \in X : x = y
  BY <1>1 DEF Disjoint
<1>4. /\ fates[1] = acknowledged /\ fates[2] = evicted
      /\ fates[3] = expired /\ fates[4] = isolated
  OBVIOUS
<1> HIDE DEF fates
<1>5. \A f, g \in F : f = g
  BY <1>1, <1>4 DEF PlacesInv
<1>6. Cardinality(Q) = Held(Q) /\ Cardinality(X) = Held(X) /\ Cardinality(F) = Held(F)
  <2> HIDE DEF Q, X, F
  <2> QED
    BY <1>2, <1>3, <1>5, CountOfOne
<1>7. Q # {} <=> s \in InQueue
  BY SamplesIn1 DEF InQueue, ToSet
<1>8. X # {} <=> s \in InQuarantine
  BY SamplesIn1 DEF InQuarantine
<1>9. F # {} <=> s \in Gone
  BY <1>4 DEF Gone
<1>10. Homes(s) = Held(Q) + Held(X) + Held(F)
  BY <1>6 DEF Homes, fates
<1> HIDE DEF Q, X, F
<1>11. s <= collected <=> s \in InQueue \/ s \in InQuarantine \/ s \in Gone
  <2>1. s \in Nat /\ 1 <= s
    BY BoundsHold DEF Bounds
  <2>2. s <= collected <=> s \in 1..collected
    BY <1>1, <2>1
  <2> QED
    BY <1>1, <2>2 DEF PlacesInv
<1>12. /\ ~(s \in InQueue /\ s \in InQuarantine)
       /\ ~((s \in InQueue \/ s \in InQuarantine) /\ s \in Gone)
  BY <1>1 DEF PlacesInv
<1> QED
  BY <1>7, <1>8, <1>9, <1>10, <1>11, <1>12

\* No sample is lost or duplicated on its way through the agent: every sample
\* collected is in exactly one queued row, sealed, or gone for one reason.
THEOREM Conserved == AgentSpec => []SamplesConserved
  BY ConservedFacts, AgentInvariance, PTL

\* Queue and quarantine stay within the shared quota, and the quarantine within
\* its own, through insertions, splits, rollbacks and encryption.
THEOREM QuotasHold == AgentSpec => []WithinQuotas
<1>1. AgentInv => WithinQuotas
  BY DEF AgentInv
<1> QED
  BY <1>1, AgentInvariance, PTL

\* No quota evicts a critical sample, also after its batch was split.
THEOREM CriticalKept == AgentSpec => []CriticalNeverEvicted
<1>1. AgentInv => CriticalNeverEvicted
  BY DEF AgentInv
<1> QED
  BY <1>1, AgentInvariance, PTL
-----------------------------------------------------------------------------
(* The pipeline: where the rows of the next queue come from.                *)

LEMMA IdFacts ==
  ASSUME StoreOK, NEW r \in ToSet(queue)
  PROVE  /\ Id(r) \in Ids /\ SamplesIn(Id(r)) = Samples(r)
         /\ Id(r)[1] = r.first /\ Id(r)[2] = r.last
         /\ r.last <= collected /\ r.first \in Nat /\ r.last \in Nat /\ 1 <= r.first
<1>1. /\ r.first \in Nat /\ r.last \in Nat /\ 1 <= r.first /\ r.first <= r.last
      /\ r.last <= collected
  BY QueueFacts DEF StoreOK, RowOK, Sound
<1>2. collected \in Nat /\ collected <= MaxSamples /\ MaxSamples \in Nat
  BY BoundsHold DEF StoreOK, Bounds
<1>3. r.first \in 1..MaxSamples /\ r.last \in 1..MaxSamples
  BY <1>1, <1>2
<1>4. Id(r) \in Ids
  BY <1>1, <1>3 DEF Id, Ids
<1> QED
  BY <1>1, <1>4 DEF Id, SamplesIn, Samples

\* No new batch: every row of the next queue is one of the queue, perhaps with
\* another wait.
SameBatches == \A y \in ToSet(queue') : \E x \in ToSet(queue) : Id(y) = Id(x)

LEMMA AcknowledgeIds ==
  ASSUME StoreOK, NEW r, Acknowledge(r)
  PROVE  SameBatches
<1>1. queue' = Without(r)
  BY DEF Acknowledge
<1>2. ToSet(queue') = ToSet(queue) \ {r}
  BY <1>1, WithoutFacts
<1> QED
  BY <1>2 DEF SameBatches

LEMMA DeferIds ==
  ASSUME StoreOK, NEW r \in ToSet(queue), NEW delay, Defer(r, delay)
  PROVE  SameBatches
<1> DEFINE d == Deferred(r, delay)
<1>1. queue' = [i \in DOMAIN queue |-> IF queue[i] = r THEN d ELSE queue[i]]
  BY DEF Defer, Deferred
<1>2. d.first = r.first /\ d.last = r.last
  BY DEF Deferred, StoreOK, RowOK, Row
<1> HIDE DEF d
<1>3. DOMAIN queue' = DOMAIN queue
  BY <1>1
<1>4. \A i \in DOMAIN queue : Id(queue'[i]) = Id(queue[i])
  BY <1>1, <1>2 DEF Id
<1> QED
  BY <1>3, <1>4 DEF SameBatches, ToSet

LEMMA SleepIds ==
  ASSUME StoreOK, Sleep
  PROVE  SameBatches
<1>1. queue' = [i \in DOMAIN queue |-> Rested(queue[i])]
  BY DEF Sleep, Rested
<1>2. \A r \in ToSet(queue) : Id(Rested(r)) = Id(r)
  BY RestedFacts DEF StoreOK, RowOK, Id
<1>3. DOMAIN queue' = DOMAIN queue
  BY <1>1
<1>4. \A i \in DOMAIN queue : Id(queue'[i]) = Id(queue[i])
  BY <1>1, <1>2 DEF ToSet
<1> QED
  BY <1>3, <1>4 DEF SameBatches, ToSet

LEMMA QuarantineIds ==
  ASSUME StoreOK, NEW r, Quarantine(r)
  PROVE  SameBatches
<1> DEFINE kept == quarantine \ Outdated
           n == SealedSize[Count(r)]
<1>1. CASE queue' = queue
  BY <1>1 DEF SameBatches
<1>2. CASE HasRoom(Without(r), kept, n) /\ queue' = MakeRoom(Without(r), kept, n)
  <2> HIDE DEF kept, n
  <2>1. Without(r) \in Seq(Row) /\ ToSet(Without(r)) = ToSet(queue) \ {r}
    BY WithoutFacts
  <2>2. ToSet(queue') \subseteq ToSet(queue)
    BY <1>2, <2>1, RoomFacts DEF Trimmed
  <2> QED
    BY <2>2 DEF SameBatches
<1> QED
  BY <1>1, <1>2 DEF Quarantine, storeVars

\* A split puts the halves of one row among the others.
LEMMA SplitIds ==
  ASSUME StoreOK, NEW r \in ToSet(queue), Count(r) # 1, r.depth < MaxDepth, Split(r)
  PROVE  \A y \in ToSet(queue') : y \in ToSet(queue) \/ SamplesIn(Id(y)) \subseteq Samples(r)
<1> PICK middle : middle = r.first + (Count(r) \div 2)
  OBVIOUS
<1> PICK left : left = Child(r, r.first, middle - 1)
  OBVIOUS
<1> PICK right : right = Child(r, middle, r.last)
  OBVIOUS
<1> DEFINE n == PlainSize[Count(left)]
           m == PlainSize[Count(right)]
           room == MakeRoom(Without(r), quarantine, n)
           one == Append(room, left)
           two == MakeRoom(one, quarantine, m)
<1>1. CASE queue' = queue
  BY <1>1
<1>2. CASE /\ HasRoom(Without(r), quarantine, n) /\ HasRoom(one, quarantine, m)
           /\ queue' = Append(two, right)
  <2>1. /\ HalfOK(r, r.first, middle - 1, left) /\ HalfOK(r, middle, r.last, right)
    BY HalvesFacts
  <2>2. left \in Row /\ right \in Row
    BY <2>1 DEF HalfOK, RowOK
  <2>3. SamplesIn(Id(left)) \subseteq Samples(r) /\ SamplesIn(Id(right)) \subseteq Samples(r)
    BY <2>1 DEF HalfOK, SamplesIn, Id, Samples
  <2> HIDE DEF n, m
  <2>4. Without(r) \in Seq(Row) /\ ToSet(Without(r)) = ToSet(queue) \ {r}
    BY WithoutFacts
  <2>5. room \in Seq(Row) /\ ToSet(room) \subseteq ToSet(queue)
    BY <1>2, <2>4, RoomFacts DEF Trimmed
  <2> HIDE DEF room
  <2>6. one \in Seq(Row) /\ ToSet(one) = ToSet(room) \cup {left}
    BY <2>2, <2>5, AppendFacts
  <2> HIDE DEF one
  <2>7. two \in Seq(Row) /\ ToSet(two) \subseteq ToSet(queue) \cup {left}
    BY <1>2, <2>5, <2>6, RoomFacts DEF Trimmed
  <2> HIDE DEF two
  <2>8. ToSet(queue') = ToSet(two) \cup {right}
    BY <1>2, <2>2, <2>7, AppendFacts
  <2> QED
    BY <2>3, <2>7, <2>8
<1>3. \/ queue' = queue
      \/ /\ HasRoom(Without(r), quarantine, n) /\ HasRoom(one, quarantine, m)
         /\ queue' = Append(two, right)
  BY DEF Split, storeVars
<1> QED
  BY <1>1, <1>2, <1>3

\* A collection adds a batch of new samples at most.
LEMMA EnqueueIds ==
  ASSUME StoreOK, NEW n \in BatchSizes, NEW critical \in BOOLEAN, Enqueue(n, critical)
  PROVE  /\ collected' \in Nat /\ collected <= collected'
         /\ \A y \in ToSet(queue') : y \in ToSet(queue) \/ y.first = collected + 1
<1> PICK new : new = NewRow(collected + 1, n, critical)
  OBVIOUS
<1> DEFINE room == MakeRoom(queue, quarantine, PlainSize[n])
           full == Append(room, new)
<1>0. n \in Nat /\ n > 0 /\ collected \in Nat
  BY BoundsHold DEF Bounds, StoreOK
<1>1. CASE ~HasRoom(queue, quarantine, PlainSize[n])
  BY <1>0, <1>1 DEF Enqueue
<1>2. CASE HasRoom(queue, quarantine, PlainSize[n])
  <2>1. PICK k \in 0..Min({DiskEvictions, Len(Periodic(full))}) :
          /\ queue' = DropOldest(full, k)
          /\ collected' = collected + n
    BY <1>2 DEF Enqueue
  <2>2. new \in Row /\ new.first = collected + 1
    BY <1>0, NewRowFacts
  <2>3. Trimmed(queue, room)
    BY <1>2, RoomFacts DEF StoreOK
  <2> HIDE DEF room
  <2>4. room \in Seq(Row) /\ ToSet(room) \subseteq ToSet(queue)
    BY <2>3 DEF Trimmed
  <2>5. full \in Seq(Row) /\ ToSet(full) = ToSet(room) \cup {new}
    BY <2>2, <2>4, AppendFacts
  <2> HIDE DEF full
  <2>6. ToSet(queue') \subseteq ToSet(full)
    BY <2>1, <2>5, EvictionFacts DEF Trimmed
  <2> QED
    BY <1>0, <2>1, <2>2, <2>4, <2>5, <2>6
<1> QED
  BY <1>1, <1>2
-----------------------------------------------------------------------------
(* The pipeline: the agent's invariant through every step.                  *)

LEMMA TakesReply ==
  ASSUME TakeReply \/ TimeOut
  PROVE  Answer
  BY DEF TakeReply, TimeOut, Answer

LEMMA ReuploadKeeps ==
  ASSUME AgentInv, NEW r \in ToSet(queue), Reupload(r)
  PROVE  AgentInv'
<1>0. StoreOK /\ LoopOK
  BY AgentParts
<1>1. UNCHANGED <<collected, protected, pc, sending>> /\ pc = "sleeping"
  BY DEF Reupload
<1>2. r \in Row
  BY <1>0 DEF StoreOK, RowOK
<1>3. \A delay \in {PollDelay} \cup Backoff(r) : delay \in 0..MaxWait
  <2>1. PollDelay \in 0..MaxWait
    BY MaxWaitFacts, BoundsHold DEF Bounds
  <2> QED
    BY <1>2, <2>1, BackoffFacts
<1>4. StoreOK'
  <2>1. CASE \E delay \in {PollDelay} \cup Backoff(r) : Defer(r, delay)
    <3>1. PICK delay \in 0..MaxWait : Defer(r, delay)
      BY <1>3, <2>1
    <3> QED
      BY <1>0, <1>1, <3>1, DeferKeeps
  <2>2. CASE UNCHANGED <<storeVars, fateVars>>
    BY <1>0, <1>1, <2>2, StoreUnchanged
  <2> QED
    BY <2>1, <2>2 DEF Reupload
<1>5. LoopOK'
  BY <1>0, <1>1, LoopIdles DEF LoopOK
<1>6. (StoreOK /\ LoopOK => AgentInv)'
  BY AgentParts, PTL
<1> QED
  BY <1>4, <1>5, <1>6

\* The status applied is one the server gave.
LEMMA ReportedFacts ==
  ASSUME TypeOK, ReportInv, StoreOK, NEW r \in ToSet(queue), report.id = Id(r)
  PROVE  report.status \in RemoteStatus /\ report.id \in Ids
<1>1. Id(r) \in Ids /\ Id(r)[1] = r.first /\ 1 <= r.first
  BY IdFacts
<1>2. Id(r) # NoId
  <2>1. NoId[1] = 0
    BY DEF NoId
  <2> QED
    BY <1>1, <2>1
<1> QED
  BY <1>1, <1>2 DEF TypeOK, ReportInv

LEMMA AgentKept ==
  ASSUME TypeOK, AgentInv, ReportInv, Next
  PROVE  AgentInv'
<1>1. ASSUME AgentLocal PROVE AgentNext
  BY <1>1 DEF AgentLocal, AgentNext
<1>2. ASSUME Post PROVE AgentNext
  BY <1>2 DEF Post, AgentNext
<1>3. ASSUME TakeReply \/ TimeOut PROVE AgentNext
  BY <1>3, TakesReply DEF AgentNext
<1>4. ASSUME AgentRestarts PROVE AgentNext
  BY <1>4 DEF AgentRestarts, AgentNext
<1>5. ASSUME NEW r \in ToSet(queue), QueryStatus(r) PROVE UNCHANGED agentVars
  BY <1>5 DEF QueryStatus
<1>6. ASSUME NEW r \in ToSet(queue), ApplyStatus(r) PROVE AgentNext
  <2>1. report.id = Id(r) /\ Reconcile(r, report.status)
    BY <1>6 DEF ApplyStatus
  <2>2. report.status \in RemoteStatus
    BY <2>1, AgentParts, ReportedFacts
  <2> QED
    BY <2>1, <2>2 DEF AgentNext
<1>7. ASSUME NEW id \in Ids, ServerStep(id) \/ Lose(id) PROVE UNCHANGED agentVars
  BY <1>7 DEF ServerStep, Ingest, Refuse, HandleReupload, Work, Reopen, DecidePurge, Lose
<1> QED
  BY <1>1, <1>2, <1>3, <1>4, <1>5, <1>6, <1>7, AgentNextKeeps, AgentUnchanged, ReuploadKeeps
     DEF Next, AgentLoop
-----------------------------------------------------------------------------
(* The pipeline: the server's batches.                                      *)

\* A batch moves, and the others stay where they are.
Moves(id, from, to) ==
  /\ phase[id] = from /\ phase' \in [Ids -> Server!Phase] /\ phase'[id] = to
  /\ \A b \in Ids : b # id => phase'[b] = phase[b]

LEMMA MoveFacts ==
  ASSUME Server!LifecycleTypeOK, NEW id \in Ids, NEW from \in Server!Phase, NEW to \in Server!Phase,
         Server!Move(id, from, to)
  PROVE  Moves(id, from, to)
  BY DEF Server!LifecycleTypeOK, Server!Move, Moves

\* What a step of the server's lifecycle does to a batch.
Kept1(id) == \A b \in Ids : /\ stored[b] # {} => stored'[b] # {}
                            /\ phase[b] # "absent" => phase'[b] # "absent"
                            /\ phase'[b] # "absent" => phase[b] # "absent" \/ b = id

LEMMA AcceptKeeps ==
  ASSUME Server!LifecycleTypeOK, ServerInv, NEW id \in Ids, Server!Accept(id, id)
  PROVE  Server!LifecycleTypeOK' /\ ServerInv' /\ Kept1(id)
<1>1. Moves(id, "absent", "pending")
  BY MoveFacts DEF Server!Accept, Server!Phase
<1>2. accepted' = [accepted EXCEPT ![id] = id] /\ UNCHANGED <<stored, reopened>>
  BY DEF Server!Accept
<1>3. Server!LifecycleTypeOK'
  <2>1. accepted' \in [Ids -> Ids \cup {NoId}]
    BY <1>2 DEF Server!LifecycleTypeOK
  <2> QED
    BY <1>1, <1>2, <2>1 DEF Server!LifecycleTypeOK, Moves
<1> QED
  <2>1. accepted'[id] = id /\ \A b \in Ids : b # id => accepted'[b] = accepted[b]
    BY <1>2 DEF Server!LifecycleTypeOK
  <2> QED
    BY <1>1, <1>2, <1>3, <2>1 DEF Moves, ServerInv, Kept1

LEMMA FinishKeeps ==
  ASSUME Server!LifecycleTypeOK, ServerInv, NEW id \in Ids, Server!Finish(id)
  PROVE  /\ Server!LifecycleTypeOK' /\ ServerInv' /\ Kept1(id) /\ phase[id] # "absent"
<1>0. MaxReprocess \in Nat
  BY TelemetryAssumption
<1>1. CASE Server!Store(id)
  <2>1. Moves(id, "pending", "stored")
    BY <1>1, MoveFacts DEF Server!Store, Server!Phase
  <2>2. stored' = [stored EXCEPT ![id] = {accepted[id]}] /\ UNCHANGED <<accepted, reopened>>
    BY <1>1 DEF Server!Store
  <2>3. accepted[id] = id
    BY <2>1 DEF Moves, ServerInv
  <2>4. stored' \in [Ids -> SUBSET Ids]
    BY <2>2, <2>3 DEF Server!LifecycleTypeOK
  <2>5. stored'[id] # {} /\ \A b \in Ids : b # id => stored'[b] = stored[b]
    BY <2>2, <2>3 DEF Server!LifecycleTypeOK
  <2>6. Server!LifecycleTypeOK'
    BY <2>1, <2>2, <2>4 DEF Server!LifecycleTypeOK, Moves
  <2> QED
    BY <2>1, <2>2, <2>5, <2>6 DEF Moves, ServerInv, Kept1
<1>2. CASE Server!Park(id)
  <2>1. Moves(id, "pending", "parked")
    BY <1>2, MoveFacts DEF Server!Park, Server!Phase
  <2>2. UNCHANGED <<accepted, stored, reopened>> /\ reopened[id] < MaxReprocess
    BY <1>2 DEF Server!Park
  <2>3. Server!LifecycleTypeOK'
    BY <2>1, <2>2 DEF Server!LifecycleTypeOK, Moves
  <2> QED
    BY <2>1, <2>2, <2>3 DEF Moves, ServerInv, Kept1
<1>3. CASE Server!Exhaust(id)
  <2>1. Moves(id, "pending", "exhausted")
    BY <1>3, MoveFacts DEF Server!Exhaust, Server!Phase
  <2>2. UNCHANGED <<accepted, stored, reopened>>
    BY <1>3 DEF Server!Exhaust
  <2>3. Server!LifecycleTypeOK'
    BY <2>1, <2>2 DEF Server!LifecycleTypeOK, Moves
  <2> QED
    BY <2>1, <2>2, <2>3 DEF Moves, ServerInv, Kept1
<1> QED
  BY <1>1, <1>2, <1>3 DEF Server!Finish

LEMMA ReopenKeeps ==
  ASSUME Server!LifecycleTypeOK, ServerInv, NEW id \in Ids, Server!Reopen(id)
  PROVE  Server!LifecycleTypeOK' /\ ServerInv' /\ Kept1(id) /\ phase[id] # "absent"
<1>0. MaxReprocess \in Nat
  BY TelemetryAssumption
<1>1. Moves(id, "parked", "awaiting")
  BY MoveFacts DEF Server!Reopen, Server!Phase
<1>2. reopened' = [reopened EXCEPT ![id] = @ + 1] /\ UNCHANGED <<accepted, stored>>
  BY DEF Server!Reopen
<1>3. reopened[id] \in 0..MaxReprocess /\ reopened[id] < MaxReprocess
  BY <1>1 DEF Moves, ServerInv, Server!LifecycleTypeOK
<1>4. reopened[id] + 1 \in 0..MaxReprocess
  BY <1>0, <1>3
<1>5. /\ reopened' \in [Ids -> 0..MaxReprocess]
      /\ \A b \in Ids : b # id => reopened'[b] = reopened[b]
  BY <1>2, <1>4 DEF Server!LifecycleTypeOK
<1>6. Server!LifecycleTypeOK'
  BY <1>1, <1>2, <1>5 DEF Server!LifecycleTypeOK, Moves
<1> QED
  BY <1>1, <1>2, <1>5, <1>6 DEF Moves, ServerInv, Kept1

LEMMA ResumeKeeps ==
  ASSUME Server!LifecycleTypeOK, ServerInv, NEW id \in Ids, Server!Resume(id)
  PROVE  Server!LifecycleTypeOK' /\ ServerInv' /\ Kept1(id) /\ phase[id] # "absent"
<1>1. Moves(id, "awaiting", "pending")
  BY MoveFacts DEF Server!Resume, Server!Phase
<1>2. UNCHANGED <<accepted, stored, reopened>>
  BY DEF Server!Resume
<1>3. Server!LifecycleTypeOK'
  BY <1>1, <1>2 DEF Server!LifecycleTypeOK, Moves
<1> QED
  BY <1>1, <1>2, <1>3 DEF Moves, ServerInv, Kept1

LEMMA LifecycleUnchanged ==
  ASSUME Server!LifecycleTypeOK, ServerInv, UNCHANGED <<phase, accepted, stored, reopened>>, NEW id
  PROVE  Server!LifecycleTypeOK' /\ ServerInv' /\ Kept1(id)
  BY DEF Server!LifecycleTypeOK, ServerInv, Kept1
-----------------------------------------------------------------------------
(* The pipeline: steps of the agent.                                        *)

\* Of what is posted, only refused batches overlap other rows of the next queue.
Refused == \A y \in ToSet(queue'), id \in Posted : Id(y) # id /\ Meet(Id(y), id) => Large(id)

LEMMA SameRefused ==
  ASSUME OverlapInv, SameBatches
  PROVE  Refused
  BY DEF OverlapInv, SameBatches, Refused

LEMMA SplitRefused ==
  ASSUME OverlapInv, StoreOK, NEW r \in ToSet(queue), Large(Id(r)),
         \A y \in ToSet(queue') : y \in ToSet(queue) \/ SamplesIn(Id(y)) \subseteq Samples(r)
  PROVE  Refused
<1> SUFFICES ASSUME NEW y \in ToSet(queue'), NEW id \in Posted, Id(y) # id, Meet(Id(y), id)
             PROVE  Large(id)
  BY DEF Refused
<1>1. CASE y \in ToSet(queue)
  BY <1>1 DEF OverlapInv
<1>2. CASE SamplesIn(Id(y)) \subseteq Samples(r)
  <2>1. Meet(Id(r), id)
    BY <1>2, IdFacts DEF Meet
  <2> QED
    BY <2>1 DEF OverlapInv
<1> QED
  BY <1>1, <1>2

LEMMA PostedFacts ==
  ASSUME TypeOK, NEW id \in Posted
  PROVE  id \in Ids /\ id[1] \in Nat /\ id[2] \in Nat
<1>1. id \in Ids
  BY DEF TypeOK, Posted
<1> QED
  BY <1>1, BoundsHold DEF Ids, Bounds

LEMMA CollectRefused ==
  ASSUME TypeOK, OverlapInv, StoreOK, StoreOK',
         \A y \in ToSet(queue') : y \in ToSet(queue) \/ y.first = collected + 1
  PROVE  Refused
<1> SUFFICES ASSUME NEW y \in ToSet(queue'), NEW id \in Posted, Id(y) # id, Meet(Id(y), id)
             PROVE  Large(id)
  BY DEF Refused
<1>1. CASE y \in ToSet(queue)
  BY <1>1 DEF OverlapInv
<1>2. CASE y.first = collected + 1
  <2>1. id[2] <= collected /\ id[1] \in Nat /\ id[2] \in Nat /\ collected \in Nat
    BY PostedFacts, BoundsHold DEF OverlapInv, StoreOK, Bounds
  <2>2. y.last \in Nat
    BY DEF StoreOK, RowOK, Row
  <2>3. SamplesIn(Id(y)) = y.first..y.last /\ SamplesIn(id) = id[1]..id[2]
    BY DEF SamplesIn, Id
  <2>4. SamplesIn(Id(y)) \cap SamplesIn(id) = {}
    BY <1>2, <2>1, <2>2, <2>3
  <2> QED
    BY <2>4 DEF Meet
<1> QED
  BY <1>1, <1>2

LEMMA OverlapOfAgent ==
  ASSUME TypeOK, OverlapInv, Refused, UNCHANGED <<phase, wire>>,
         collected \in Nat, collected' \in Nat, collected <= collected'
  PROVE  OverlapInv'
<1>1. Posted' = Posted
  BY DEF Posted, Known
<1>2. \A id \in Posted : id[2] <= collected'
  BY PostedFacts DEF OverlapInv
<1>3. \A id \in Ids : phase'[id] # "absent" => ~Large(id)
  BY DEF OverlapInv, Known
<1>4. /\ \A id \in Posted', r \in ToSet(queue') : Id(r) # id /\ Meet(Id(r), id) => Large(id)
      /\ \A a, b \in Posted' : a # b /\ Meet(a, b) => Large(a) \/ Large(b)
  BY <1>1 DEF Refused, OverlapInv
<1>5. \A id \in Posted' : id[2] <= collected'
  BY <1>1, <1>2
<1> QED
  BY <1>3, <1>4, <1>5 DEF OverlapInv, Known

\* Posting a row adds its batch, and no other row overlaps it.
LEMMA OverlapOfPost ==
  ASSUME TypeOK, OverlapInv, StoreOK, UNCHANGED <<phase, queue, collected>>,
         NEW r \in ToSet(queue), wire' = wire \cup {Id(r)}
  PROVE  OverlapInv'
<1>1. Posted' = Posted \cup {Id(r)}
  BY DEF Posted, Known
<1>2. \A x \in ToSet(queue) : Id(x) # Id(r) => ~Meet(Id(x), Id(r))
  <2> SUFFICES ASSUME NEW x \in ToSet(queue), Id(x) # Id(r) PROVE ~Meet(Id(x), Id(r))
    OBVIOUS
  <2>1. SamplesIn(Id(x)) = Samples(x) /\ SamplesIn(Id(r)) = Samples(r)
    BY IdFacts
  <2>2. x # r
    OBVIOUS
  <2> QED
    BY <2>1, <2>2 DEF Meet, StoreOK, Disjoint
<1>3. \A id \in Posted : Id(r) # id /\ Meet(Id(r), id) => Large(id)
  BY DEF OverlapInv
<1>4. \A a, b : Meet(a, b) <=> Meet(b, a)
  BY DEF Meet
<1>5. \A a, b \in Posted' : a # b /\ Meet(a, b) => Large(a) \/ Large(b)
  BY <1>1, <1>3, <1>4 DEF OverlapInv
<1>6. \A id \in Posted', x \in ToSet(queue') : Id(x) # id /\ Meet(Id(x), id) => Large(id)
  BY <1>1, <1>2 DEF OverlapInv
<1>7. \A id \in Posted' : id[2] <= collected'
  BY <1>1, IdFacts DEF OverlapInv
<1>8. \A id \in Ids : phase'[id] # "absent" => ~Large(id)
  BY DEF OverlapInv, Known
<1> QED
  BY <1>5, <1>6, <1>7, <1>8 DEF OverlapInv, Known

\* What the server does posts nothing new.
LEMMA OverlapOfServer ==
  ASSUME OverlapInv, UNCHANGED <<queue, collected>>, Posted' \subseteq Posted,
         \A id \in Ids : phase'[id] # "absent" => ~Large(id)
  PROVE  OverlapInv'
<1>1. /\ \A id \in Posted' : id[2] <= collected'
      /\ \A id \in Posted', r \in ToSet(queue') : Id(r) # id /\ Meet(Id(r), id) => Large(id)
      /\ \A a, b \in Posted' : a # b /\ Meet(a, b) => Large(a) \/ Large(b)
  BY DEF OverlapInv
<1> QED
  BY <1>1 DEF OverlapInv, Known

LEMMA NoReplyFacts == NoReport \in [id : Ids \cup {NoId}, status : RemoteStatus \cup {"NONE"}]
  BY DEF NoReport

\* A step of the agent that confirms nothing.
LEMMA NothingConfirmed ==
  ASSUME PipelineInv, AgentInv', OverlapInv', UNCHANGED <<serverVars, acknowledged>>,
         wire' \subseteq Ids, reuploads' \subseteq Ids, reply' = NoReply,
         report' = report \/ report' = NoReport
  PROVE  PipelineInv'
<1>1. UNCHANGED <<phase, accepted, stored, reopened>> /\ UNCHANGED purge
  BY DEF serverVars
<1>2. Server!LifecycleTypeOK' /\ ServerInv'
  BY <1>1, LifecycleUnchanged DEF PipelineInv, TypeOK
<1>3. report' \in [id : Ids \cup {NoId}, status : RemoteStatus \cup {"NONE"}]
  BY NoReplyFacts DEF PipelineInv, TypeOK
<1>4. TypeOK'
  BY <1>1, <1>2, <1>3 DEF PipelineInv, TypeOK, AgentInv
<1>5. ReplyInv'
  BY DEF ReplyInv
<1>6. ReportInv'
  <2>1. CASE report' = report
    BY <1>1, <2>1 DEF PipelineInv, ReportInv
  <2>2. CASE report' = NoReport
    BY <2>2 DEF NoReport, ReportInv
  <2> QED
    BY <2>1, <2>2
<1>7. AcknowledgedIsSafe'
  BY <1>1 DEF PipelineInv, AcknowledgedIsSafe
<1> QED
  BY <1>2, <1>4, <1>5, <1>6, <1>7 DEF PipelineInv

LEMMA PipelineFacts ==
  ASSUME PipelineInv
  PROVE  /\ TypeOK /\ AgentInv /\ StoreOK /\ LoopOK /\ OverlapInv /\ ServerInv /\ ReportInv
         /\ Server!LifecycleTypeOK /\ wire \subseteq Ids /\ reuploads \subseteq Ids
         /\ collected \in Nat
         /\ pc # "sending" => reply = NoReply
  BY AgentParts DEF PipelineInv, TypeOK, ReplyInv, StoreOK

LEMMA AgentLocalSafe ==
  ASSUME PipelineInv, AgentInv', AgentLocal
  PROVE  PipelineInv'
<1>0. /\ UNCHANGED <<serverVars, wire, reuploads, reply, report, phase>>
      /\ StoreOK' /\ pc # "sending"
  <2>1. (AgentInv => StoreOK)'
    BY AgentParts, PTL
  <2> QED
    BY <2>1 DEF AgentLocal, netVars, serverVars, Collect, CollectNothing, Sleep
<1>1. CASE \E n \in BatchSizes : Collect(n, FALSE)
  <2>1. PICK n \in BatchSizes : Collect(n, FALSE)
    BY <1>1
  <2>2. Enqueue(n, FALSE) /\ acknowledged' = acknowledged
    BY <2>1 DEF Collect
  <2>3. /\ collected' \in Nat /\ collected <= collected'
        /\ \A y \in ToSet(queue') : y \in ToSet(queue) \/ y.first = collected + 1
    BY <2>2, PipelineFacts, EnqueueIds
  <2>4. OverlapInv'
    BY <1>0, <2>3, PipelineFacts, CollectRefused, OverlapOfAgent
  <2> QED
    BY <1>0, <2>2, <2>4, PipelineFacts, NothingConfirmed
<1>2. CASE CollectNothing
  <2>1. UNCHANGED <<queue, collected, acknowledged>>
    BY <1>2 DEF CollectNothing, storeVars, fateVars
  <2>2. SameBatches
    BY <2>1 DEF SameBatches
  <2>3. OverlapInv'
    BY <1>0, <2>1, <2>2, PipelineFacts, SameRefused, OverlapOfAgent
  <2> QED
    BY <1>0, <2>1, <2>3, PipelineFacts, NothingConfirmed
<1>3. CASE Sleep
  <2>1. UNCHANGED <<collected, acknowledged>>
    BY <1>3 DEF Sleep, fateVars
  <2>2. SameBatches
    BY <1>3, PipelineFacts, SleepIds
  <2>3. OverlapInv'
    BY <1>0, <2>1, <2>2, PipelineFacts, SameRefused, OverlapOfAgent
  <2> QED
    BY <1>0, <2>1, <2>3, PipelineFacts, NothingConfirmed
<1> QED
  BY <1>1, <1>2, <1>3 DEF AgentLocal

LEMMA PostSafe ==
  ASSUME PipelineInv, AgentInv', Post
  PROVE  PipelineInv'
<1>1. /\ UNCHANGED <<serverVars, reuploads, reply, report, phase, queue, collected, acknowledged>>
      /\ pc # "sending"
  BY DEF Post, StartDispatch, serverVars, storeVars, fateVars
<1>2. OverlapInv' /\ wire' \subseteq Ids
  <2>1. CASE pc' = "sending"
    <3>1. sending' \in ToSet(queue) /\ wire' = wire \cup {Id(sending')}
      BY <1>1, <2>1 DEF Post, AgentInv, SendingInv
    <3> QED
      BY <1>1, <3>1, PipelineFacts, IdFacts, OverlapOfPost
  <2>2. CASE pc' # "sending"
    <3>1. wire' = wire /\ SameBatches
      BY <1>1, <2>2 DEF Post, SameBatches
    <3> QED
      BY <1>1, <3>1, PipelineFacts, SameRefused, OverlapOfAgent
  <2> QED
    BY <2>1, <2>2
<1> QED
  BY <1>1, <1>2, PipelineFacts, NothingConfirmed

\* The answer in hand is a 413 for the row that is split.
LEMMA TakeReplySafe ==
  ASSUME PipelineInv, AgentInv', TakeReply \/ TimeOut
  PROVE  PipelineInv'
<1>1. /\ UNCHANGED <<serverVars, wire, reuploads, report, phase>> /\ reply' = NoReply
      /\ Accepted \/ Rejected \/ Retry \/ (TooLarge /\ reply = 413)
  BY DEF TakeReply, TimeOut, serverVars
<1>2. UNCHANGED collected /\ sending \in ToSet(queue) /\ sending \in Row
  <2>1. Answered
    BY <1>1 DEF Accepted, Rejected, Retry, TooLarge
  <2> QED
    BY <2>1, PipelineFacts DEF Answered, LoopOK, SendingInv
<1>3. ASSUME NEW delay, Defer(sending, delay) PROVE Refused /\ UNCHANGED acknowledged
  BY <1>2, <1>3, PipelineFacts, DeferIds, SameRefused DEF Defer, fateVars
<1>4. ASSUME Quarantine(sending) PROVE Refused /\ UNCHANGED acknowledged
  BY <1>4, PipelineFacts, QuarantineIds, SameRefused DEF Quarantine, fateVars
<1>5. ASSUME Split(sending), reply = 413, Count(sending) # 1, ~(sending.depth >= MaxDepth)
      PROVE  Refused /\ UNCHANGED acknowledged
  <2>1. Large(Id(sending))
    BY <1>5 DEF PipelineInv, ReplyInv, NoReply
  <2>2. sending.depth < MaxDepth
    BY <1>2, <1>5, BoundsHold DEF Row, Bounds
  <2>3. UNCHANGED acknowledged
    BY <1>5 DEF Split, fateVars
  <2> QED
    BY <1>2, <1>5, <2>1, <2>2, <2>3, PipelineFacts, SplitIds, SplitRefused
<1>6. Refused /\ UNCHANGED acknowledged
  <2>1. Accepted => Defer(sending, PollDelay)
    BY DEF Accepted
  <2>2. Retry => \E delay \in Backoff(sending) : Defer(sending, delay)
    BY DEF Retry
  <2>3. Rejected => Quarantine(sending)
    BY DEF Rejected
  <2>4. TooLarge => \/ Quarantine(sending)
                    \/ Split(sending) /\ Count(sending) # 1 /\ ~(sending.depth >= MaxDepth)
    BY DEF TooLarge
  <2> QED
    BY <1>1, <1>3, <1>4, <1>5, <2>1, <2>2, <2>3, <2>4
<1>7. OverlapInv'
  BY <1>1, <1>2, <1>6, PipelineFacts, OverlapOfAgent
<1> QED
  BY <1>1, <1>6, <1>7, PipelineFacts, NothingConfirmed

LEMMA AgentRestartsSafe ==
  ASSUME PipelineInv, AgentInv', AgentRestarts
  PROVE  PipelineInv'
<1>1. /\ UNCHANGED <<serverVars, wire, reuploads, phase, queue, collected, acknowledged>>
      /\ reply' = NoReply /\ report' = NoReport
  BY DEF AgentRestarts, Restart, serverVars, storeVars, fateVars
<1>2. SameBatches
  BY <1>1 DEF SameBatches
<1>3. OverlapInv'
  BY <1>1, <1>2, PipelineFacts, SameRefused, OverlapOfAgent
<1> QED
  BY <1>1, <1>3, PipelineFacts, NothingConfirmed

LEMMA ReuploadSafe ==
  ASSUME PipelineInv, AgentInv', NEW r \in ToSet(queue), Reupload(r)
  PROVE  PipelineInv'
<1>1. /\ UNCHANGED <<serverVars, wire, reply, report, phase, collected>> /\ pc # "sending"
      /\ reuploads' = reuploads \cup {Id(r)}
  BY DEF Reupload, serverVars
<1>2. SameBatches /\ UNCHANGED acknowledged
  <2>1. CASE \E delay \in {PollDelay} \cup Backoff(r) : Defer(r, delay)
    BY <2>1, PipelineFacts, DeferIds DEF Defer, fateVars
  <2>2. CASE UNCHANGED <<storeVars, fateVars>>
    BY <2>2 DEF SameBatches, storeVars, fateVars
  <2> QED
    BY <2>1, <2>2 DEF Reupload
<1>3. reuploads' \subseteq Ids
  BY <1>1, PipelineFacts, IdFacts
<1>4. OverlapInv'
  BY <1>1, <1>2, PipelineFacts, SameRefused, OverlapOfAgent
<1> QED
  BY <1>1, <1>2, <1>3, <1>4, PipelineFacts, NothingConfirmed

\* A status read from the server is true of the batch, and stays so.
LEMMA QueryStatusSafe ==
  ASSUME PipelineInv, AgentInv', NEW r \in ToSet(queue), QueryStatus(r)
  PROVE  PipelineInv'
<1>1. /\ UNCHANGED <<agentVars, serverVars, wire, reuploads, reply>>
      /\ phase[Id(r)] # "absent" /\ report' = [id |-> Id(r), status |-> RemoteOf(Id(r))]
  BY DEF QueryStatus
<1>2. /\ UNCHANGED <<phase, accepted, stored, reopened>> /\ UNCHANGED purge
      /\ UNCHANGED <<queue, collected, acknowledged, pc, sending>>
  BY <1>1 DEF serverVars, agentVars, storeVars, fateVars
<1>3. Id(r) \in Ids
  BY PipelineFacts, IdFacts
<1>4. /\ RemoteOf(Id(r)) \in RemoteStatus
      /\ RemoteOf(Id(r)) = "PROCESSED" => phase[Id(r)] = "stored"
      /\ RemoteOf(Id(r)) = "PURGE_LOCAL" => Id(r) \in purge
  <2> DEFINE id == Id(r)
  <2>1. phase[id] \in {"pending", "stored", "parked", "awaiting", "exhausted"}
    BY <1>1, <1>3, PipelineFacts DEF Server!LifecycleTypeOK, Server!Phase
  <2> HIDE DEF id
  <2>2. /\ RemoteOf(id) \in RemoteStatus
        /\ RemoteOf(id) = "PROCESSED" => phase[id] = "stored"
        /\ RemoteOf(id) = "PURGE_LOCAL" => id \in purge
    BY <2>1 DEF RemoteOf, RemoteStatus
  <2> QED
    BY <2>2 DEF id
<1>5. Server!LifecycleTypeOK' /\ ServerInv'
  BY <1>2, PipelineFacts, LifecycleUnchanged
<1>6. TypeOK'
  <2>1. report' \in [id : Ids \cup {NoId}, status : RemoteStatus \cup {"NONE"}]
    BY <1>1, <1>3, <1>4
  <2> QED
    BY <1>1, <1>2, <1>5, <2>1 DEF PipelineInv, TypeOK, AgentInv
<1>7. ReportInv'
  <2>1. report'.id = Id(r) /\ report'.status = RemoteOf(Id(r)) /\ report'.status # "NONE"
    BY <1>1, <1>4 DEF RemoteStatus
  <2>2. phase[Id(r)] = "stored" => stored[Id(r)] # {}
    BY <1>3 DEF PipelineInv, ServerInv
  <2> QED
    BY <1>2, <1>3, <1>4, <2>1, <2>2 DEF ReportInv
<1>8. SameBatches
  BY <1>2 DEF SameBatches
<1>9. OverlapInv'
  BY <1>1, <1>2, <1>8, PipelineFacts, SameRefused, OverlapOfAgent
<1>10. ReplyInv' /\ AcknowledgedIsSafe'
  BY <1>1, <1>2 DEF PipelineInv, ReplyInv, AcknowledgedIsSafe
<1> QED
  BY <1>5, <1>6, <1>7, <1>9, <1>10 DEF PipelineInv

\* What is acknowledged on a report is stored, or was given up.
LEMMA ApplyStatusSafe ==
  ASSUME PipelineInv, AgentInv', NEW r \in ToSet(queue), ApplyStatus(r)
  PROVE  PipelineInv'
<1>1. /\ UNCHANGED <<serverVars, wire, reuploads, reply>> /\ report' = NoReport
      /\ report.id = Id(r) /\ Reconcile(r, report.status)
  BY DEF ApplyStatus
<1>2. /\ UNCHANGED <<phase, accepted, stored, reopened>> /\ UNCHANGED purge
      /\ UNCHANGED <<collected, pc, sending>> /\ pc # "sending"
  BY <1>1 DEF serverVars, Reconcile
<1>3. report.status \in RemoteStatus /\ report.id \in Ids
  BY <1>1, PipelineFacts, ReportedFacts
<1>4. \/ report.status \in {"PROCESSED", "PURGE_LOCAL"} /\ Acknowledge(r)
      \/ \E delay \in {PollDelay, 2 * PollDelay, 4 * PollDelay} : Defer(r, delay)
  BY <1>1, <1>3 DEF Reconcile, RemoteStatus
<1>5. SameBatches
  BY <1>4, PipelineFacts, AcknowledgeIds, DeferIds
<1>6. AcknowledgedIsSafe'
  <2>1. CASE report.status \in {"PROCESSED", "PURGE_LOCAL"} /\ Acknowledge(r)
    <3>1. acknowledged' = acknowledged \cup Samples(r)
      BY <2>1 DEF Acknowledge
    <3>2. Samples(r) = SamplesIn(report.id) /\ (stored[report.id] # {} \/ report.id \in purge)
      BY <1>1, <2>1, PipelineFacts, IdFacts DEF PipelineInv, ReportInv
    <3> QED
      BY <1>2, <1>3, <3>1, <3>2 DEF PipelineInv, AcknowledgedIsSafe
  <2>2. CASE \E delay \in {PollDelay, 2 * PollDelay, 4 * PollDelay} : Defer(r, delay)
    <3>1. acknowledged' = acknowledged
      BY <2>2 DEF Defer, fateVars
    <3> QED
      BY <1>2, <3>1 DEF PipelineInv, AcknowledgedIsSafe
  <2> QED
    BY <1>4, <2>1, <2>2
<1>7. Server!LifecycleTypeOK' /\ ServerInv'
  BY <1>2, PipelineFacts, LifecycleUnchanged
<1>8. TypeOK'
  BY <1>1, <1>2, <1>7, NoReplyFacts DEF PipelineInv, TypeOK, AgentInv
<1>9. OverlapInv'
  BY <1>1, <1>2, <1>5, PipelineFacts, SameRefused, OverlapOfAgent
<1>10. ReplyInv' /\ ReportInv'
  BY <1>1, <1>2, PipelineFacts DEF ReplyInv, ReportInv, NoReport
<1> QED
  BY <1>6, <1>7, <1>8, <1>9, <1>10 DEF PipelineInv
-----------------------------------------------------------------------------
(* The pipeline: steps of the server.                                       *)

\* The server confirms nothing by itself, and what it stored or what was given
\* up stays so.
LEMMA ServerSafe ==
  ASSUME PipelineInv, AgentInv', UNCHANGED <<agentVars, report>>,
         Server!LifecycleTypeOK', ServerInv', NEW id \in Ids, Kept1(id),
         phase[id] # "absent" \/ phase'[id] = "absent" \/ (id \in wire /\ ~Large(id)),
         wire' \subseteq wire, reuploads' \subseteq reuploads,
         purge \subseteq purge', purge' \subseteq Ids,
         reply' \in {NoReply, 202, 401, 413, 503}, ReplyInv'
  PROVE  PipelineInv'
<1>1. UNCHANGED <<queue, collected, acknowledged>>
  BY DEF agentVars, storeVars, fateVars
<1>2. TypeOK'
  BY DEF PipelineInv, TypeOK, AgentInv
<1>3. Posted' \subseteq Posted
  BY DEF Posted, Known, Kept1
<1>4. \A b \in Ids : phase'[b] # "absent" => ~Large(b)
  BY DEF PipelineInv, OverlapInv, Known, Kept1
<1>5. OverlapInv'
  BY <1>1, <1>3, <1>4, PipelineFacts, OverlapOfServer
<1>6. ReportInv'
  BY DEF PipelineInv, ReportInv, Kept1
<1>7. AcknowledgedIsSafe'
  BY <1>1 DEF PipelineInv, AcknowledgedIsSafe, Kept1
<1> QED
  BY <1>2, <1>5, <1>6, <1>7 DEF PipelineInv

\* An answer reaches the agent only while it waits for it.
LEMMA ReplyToFacts ==
  ASSUME PipelineInv, NEW id, NEW code \in {202, 401, 413, 503}, ReplyTo(id, code),
         UNCHANGED <<pc, sending>>, code = 413 => Large(id)
  PROVE  ReplyInv' /\ reply' \in {NoReply, 202, 401, 413, 503}
<1>1. CASE pc = "sending" /\ Id(sending) = id
  <2>1. reply' = code /\ Id(sending') = id /\ pc' = "sending"
    BY <1>1 DEF ReplyTo
  <2> QED
    BY <2>1 DEF ReplyInv
<1>2. CASE ~(pc = "sending" /\ Id(sending) = id)
  <2>1. reply' = reply
    BY <1>2 DEF ReplyTo
  <2> QED
    BY <2>1 DEF PipelineInv, TypeOK, ReplyInv
<1> QED
  BY <1>1, <1>2

LEMMA SameReply ==
  ASSUME PipelineInv, UNCHANGED <<pc, sending, reply>>
  PROVE  ReplyInv' /\ reply' \in {NoReply, 202, 401, 413, 503}
  BY DEF PipelineInv, TypeOK, ReplyInv

LEMMA IngestSafe ==
  ASSUME PipelineInv, AgentInv', NEW id \in Ids, Ingest(id)
  PROVE  PipelineInv'
<1>1. /\ id \in wire /\ wire' \subseteq wire /\ UNCHANGED <<agentVars, purge, reuploads, report>>
      /\ UNCHANGED <<pc, sending>>
  BY DEF Ingest, Handles, agentVars
<1>2. CASE Large(id)
  <2>1. ReplyTo(id, 413) /\ UNCHANGED <<phase, accepted, stored, reopened>>
    BY <1>2 DEF Ingest
  <2>2. ReplyInv' /\ reply' \in {NoReply, 202, 401, 413, 503}
    BY <1>1, <1>2, <2>1, ReplyToFacts
  <2>3. Server!LifecycleTypeOK' /\ ServerInv' /\ Kept1(id)
    BY <2>1, PipelineFacts, LifecycleUnchanged
  <2>4. phase[id] # "absent" \/ phase'[id] = "absent"
    BY <2>1
  <2> QED
    BY <1>1, <2>2, <2>3, <2>4, ServerSafe DEF PipelineInv, TypeOK
<1>3. CASE ~Large(id)
  <2>1. /\ ReplyTo(id, 202)
        /\ Server!Accept(id, id) \/ UNCHANGED <<phase, accepted, stored, reopened>>
    BY <1>3 DEF Ingest
  <2>2. ReplyInv' /\ reply' \in {NoReply, 202, 401, 413, 503}
    BY <1>1, <2>1, ReplyToFacts
  <2>3. Server!LifecycleTypeOK' /\ ServerInv' /\ Kept1(id)
    BY <2>1, PipelineFacts, LifecycleUnchanged, AcceptKeeps
  <2> QED
    BY <1>1, <1>3, <2>2, <2>3, ServerSafe DEF PipelineInv, TypeOK
<1> QED
  BY <1>2, <1>3

LEMMA ServerStepSafe ==
  ASSUME PipelineInv, AgentInv', NEW id \in Ids, ServerStep(id) \/ Lose(id)
  PROVE  PipelineInv'
<1>1. CASE Ingest(id)
  BY <1>1, IngestSafe
<1>2. ASSUME UNCHANGED <<agentVars, serverVars, reuploads, report>>, wire' \subseteq wire,
             ReplyInv', reply' \in {NoReply, 202, 401, 413, 503}
      PROVE  PipelineInv'
  <2>1. UNCHANGED <<phase, accepted, stored, reopened>> /\ UNCHANGED purge
    BY <1>2 DEF serverVars
  <2>2. Server!LifecycleTypeOK' /\ ServerInv' /\ Kept1(id)
    BY <2>1, PipelineFacts, LifecycleUnchanged
  <2>3. phase[id] # "absent" \/ phase'[id] = "absent"
    BY <2>1
  <2> QED
    BY <1>2, <2>1, <2>2, <2>3, ServerSafe DEF PipelineInv, TypeOK
<1>3. CASE Refuse(id)
  <2>1. /\ UNCHANGED <<agentVars, serverVars, reuploads, report>> /\ wire' \subseteq wire
        /\ UNCHANGED <<pc, sending>>
    BY <1>3 DEF Refuse, Handles, agentVars
  <2>2. PICK code \in {401, 503} : ReplyTo(id, code)
    BY <1>3 DEF Refuse
  <2>3. code \in {202, 401, 413, 503} /\ (code = 413 => Large(id))
    OBVIOUS
  <2> QED
    BY <1>2, <2>1, <2>2, <2>3, ReplyToFacts
<1>4. CASE Lose(id)
  <2>1. /\ UNCHANGED <<agentVars, serverVars, reuploads, reply, report>> /\ wire' \subseteq wire
        /\ UNCHANGED <<pc, sending>>
    BY <1>4 DEF Lose, Handles, agentVars
  <2> QED
    BY <1>2, <2>1, SameReply
<1>5. ASSUME UNCHANGED <<agentVars, purge, wire, reply, report>>, reuploads' \subseteq reuploads,
             \/ Server!Finish(id) \/ Server!Reopen(id) \/ Server!Resume(id)
             \/ UNCHANGED <<phase, accepted, stored, reopened>>
      PROVE  PipelineInv'
  <2>1. UNCHANGED <<pc, sending>>
    BY <1>5 DEF agentVars
  <2>2. /\ Server!LifecycleTypeOK' /\ ServerInv' /\ Kept1(id)
        /\ phase[id] # "absent" \/ phase'[id] = "absent"
    BY <1>5, PipelineFacts, FinishKeeps, ReopenKeeps, ResumeKeeps, LifecycleUnchanged
  <2> QED
    BY <1>5, <2>1, <2>2, SameReply, ServerSafe DEF PipelineInv, TypeOK
<1>6. CASE HandleReupload(id) \/ Work(id) \/ Reopen(id)
  BY <1>5, <1>6 DEF HandleReupload, Work, Reopen, netVars
<1>7. CASE DecidePurge(id)
  <2>1. /\ UNCHANGED <<agentVars, phase, accepted, stored, reopened, wire, reuploads, reply, report>>
        /\ UNCHANGED <<pc, sending>> /\ purge' = purge \cup {id}
    BY <1>7 DEF DecidePurge, netVars, agentVars
  <2>2. Server!LifecycleTypeOK' /\ ServerInv' /\ Kept1(id)
    BY <2>1, PipelineFacts, LifecycleUnchanged
  <2> QED
    BY <2>1, <2>2, SameReply, ServerSafe DEF PipelineInv, TypeOK
<1> QED
  BY <1>1, <1>3, <1>4, <1>6, <1>7 DEF ServerStep
-----------------------------------------------------------------------------
(* The theorems about the pipeline.                                         *)

LEMMA PipelineStarts == Init => PipelineInv
<1> SUFFICES ASSUME Init PROVE PipelineInv
  OBVIOUS
<1>1. /\ AgentInit /\ Server!Init /\ purge = {} /\ wire = {} /\ reuploads = {}
      /\ reply = NoReply /\ report = NoReport
  BY DEF Init
<1>2. AgentInv
  BY <1>1, AgentStarts
<1>3. /\ phase = [b \in Ids |-> "absent"] /\ accepted = [b \in Ids |-> NoId]
      /\ stored = [b \in Ids |-> {}] /\ reopened = [b \in Ids |-> 0]
  BY <1>1 DEF Server!Init
<1>4. Server!LifecycleTypeOK
  BY <1>3, TelemetryAssumption DEF Server!LifecycleTypeOK, Server!Phase
<1>5. TypeOK
  BY <1>1, <1>2, <1>4, NoReplyFacts DEF TypeOK, AgentInv
<1>6. ReplyInv /\ ReportInv
  BY <1>1 DEF ReplyInv, ReportInv, NoReport
<1>7. ServerInv
  BY <1>3 DEF ServerInv
<1>8. Posted = {}
  BY <1>1, <1>3 DEF Posted, Known
<1>9. OverlapInv
  BY <1>3, <1>8 DEF OverlapInv, Known
<1>10. AcknowledgedIsSafe
  BY <1>1 DEF AgentInit, AcknowledgedIsSafe
<1> QED
  BY <1>2, <1>5, <1>6, <1>7, <1>9, <1>10 DEF PipelineInv

LEMMA PipelineKept == PipelineInv /\ [Next]_vars => PipelineInv'
<1> SUFFICES ASSUME PipelineInv, [Next]_vars PROVE PipelineInv'
  OBVIOUS
<1>1. CASE Next
  <2>1. AgentInv'
    BY <1>1, PipelineFacts, AgentKept
  <2> QED
    BY <1>1, <2>1, AgentLocalSafe, PostSafe, TakeReplySafe, AgentRestartsSafe, QueryStatusSafe,
       ApplyStatusSafe, ReuploadSafe, ServerStepSafe DEF Next, AgentLoop
<1>2. CASE UNCHANGED vars
  <2>1. UNCHANGED <<agentVars, phase, accepted, stored, reopened, purge, wire, reuploads, reply, report>>
    BY <1>2 DEF vars, serverVars, netVars
  <2>2. UNCHANGED <<queue, collected, acknowledged, pc, sending>>
    BY <2>1 DEF agentVars, storeVars, fateVars
  <2>3. AgentInv'
    BY <2>1, AgentUnchanged, PipelineFacts
  <2>4. Server!LifecycleTypeOK' /\ ServerInv'
    BY <2>1, PipelineFacts, LifecycleUnchanged
  <2>5. SameBatches
    BY <2>2 DEF SameBatches
  <2>6. OverlapInv'
    BY <2>1, <2>2, <2>5, PipelineFacts, SameRefused, OverlapOfAgent
  <2>7. TypeOK'
    BY <2>1, <2>3, <2>4 DEF PipelineInv, TypeOK, AgentInv
  <2>8. ReplyInv' /\ ReportInv' /\ AcknowledgedIsSafe'
    BY <2>1, <2>2 DEF PipelineInv, ReplyInv, ReportInv, AcknowledgedIsSafe
  <2> QED
    BY <2>3, <2>4, <2>6, <2>7, <2>8 DEF PipelineInv
<1> QED
  BY <1>1, <1>2

\* The inductive invariant of agent, connection and server together.
THEOREM PipelineInvariance == Spec => []PipelineInv
  BY PipelineStarts, PipelineKept, PTL DEF Spec

\* Type correctness of the whole pipeline.
THEOREM PipelineTypeCorrect == Spec => []TypeOK
<1>1. PipelineInv => TypeOK
  BY DEF PipelineInv
<1> QED
  BY <1>1, PipelineInvariance, PTL

\* No measurement is stored under two batch identifiers, whatever requests are
\* lost, late or repeated while the agent splits what the server refuses.
THEOREM NothingStoredTwice == Spec => []StoredOnce
<1>1. PipelineInv => StoredOnce
  <2> SUFFICES ASSUME PipelineInv, NEW a \in Ids, NEW b \in Ids, a # b, stored[a] # {},
                      stored[b] # {}
               PROVE  SamplesIn(a) \cap SamplesIn(b) = {}
    BY DEF StoredOnce
  <2>1. Known(a) /\ Known(b)
    BY DEF PipelineInv, ServerInv, Known
  <2>2. a \in Posted /\ b \in Posted /\ ~Large(a) /\ ~Large(b)
    BY <2>1 DEF Posted, PipelineInv, OverlapInv
  <2> QED
    BY <2>2 DEF PipelineInv, OverlapInv, Meet
<1> QED
  BY <1>1, PipelineInvariance, PTL

\* What the agent deletes as confirmed is stored, or an operator gave it up,
\* however old the status it acted on.
THEOREM DeletedIsSafe == Spec => []AcknowledgedIsSafe
<1>1. PipelineInv => AcknowledgedIsSafe
  BY DEF PipelineInv
<1> QED
  BY <1>1, PipelineInvariance, PTL

\* The agent's promises hold behind the real protocol too: with lost requests,
\* stale statuses, re-uploads and restarts, samples are conserved, quotas kept
\* and critical samples never evicted.
THEOREM AgentKeepsPromises == Spec => [](SamplesConserved /\ WithinQuotas /\ CriticalNeverEvicted)
<1>1. PipelineInv => SamplesConserved /\ WithinQuotas /\ CriticalNeverEvicted
  BY ConservedFacts DEF PipelineInv, AgentInv
<1> QED
  BY <1>1, PipelineInvariance, PTL

\* The server behind the connection is the lifecycle that MetricBatches refines:
\* each step of the pipeline is one of its steps or leaves its batches alone.
THEOREM PipelineServer == Spec => Server!Spec
<1>1. Init => Server!Init
  BY DEF Init
<1>2. [Next]_vars => [Server!Next]_<<phase, accepted, stored, reopened>>
  <2> SUFFICES ASSUME [Next]_vars
               PROVE  Server!Next \/ UNCHANGED <<phase, accepted, stored, reopened>>
    OBVIOUS
  <2>1. ASSUME UNCHANGED serverVars PROVE UNCHANGED <<phase, accepted, stored, reopened>>
    BY <2>1 DEF serverVars
  <2>2. ASSUME AgentLoop \/ TimeOut \/ AgentRestarts PROVE UNCHANGED serverVars
    BY <2>2 DEF AgentLoop, AgentLocal, Post, TakeReply, TimeOut, AgentRestarts
  <2>3. ASSUME NEW r \in ToSet(queue), QueryStatus(r) \/ ApplyStatus(r) \/ Reupload(r)
        PROVE  UNCHANGED serverVars
    BY <2>3 DEF QueryStatus, ApplyStatus, Reupload
  <2>4. ASSUME NEW id \in Ids, ServerStep(id) \/ Lose(id)
        PROVE  Server!Next \/ UNCHANGED <<phase, accepted, stored, reopened>>
    <3>1. ASSUME Ingest(id) \/ HandleReupload(id) \/ Work(id) \/ Reopen(id)
          PROVE  \/ Server!Accept(id, id) \/ Server!Finish(id) \/ Server!Reopen(id)
                 \/ Server!Resume(id) \/ UNCHANGED <<phase, accepted, stored, reopened>>
      BY <3>1 DEF Ingest, HandleReupload, Work, Reopen
    <3>2. ASSUME Refuse(id) \/ Lose(id) \/ DecidePurge(id)
          PROVE  UNCHANGED <<phase, accepted, stored, reopened>>
      BY <3>2 DEF Refuse, Lose, DecidePurge, serverVars
    <3> QED
      BY <2>4, <3>1, <3>2 DEF ServerStep, Server!Next
  <2>5. ASSUME UNCHANGED vars PROVE UNCHANGED serverVars
    BY <2>5 DEF vars
  <2> QED
    BY <2>1, <2>2, <2>3, <2>4, <2>5 DEF Next
<1> QED
  BY <1>1, <1>2, PTL DEF Spec, Server!Spec, Server!lifecycleVars
=============================================================================
