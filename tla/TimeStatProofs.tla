-------------------------- MODULE TimeStatProofs --------------------------
(***************************************************************************)
(* Theorems about time_stat, for one thread or two, any array and any      *)
(* times: every thread writes into its own block only, heap_sort keeps its *)
(* loop invariant, the runs that are merged are in order, and what is      *)
(* reported is the array that was passed, in order.                        *)
(*                                                                         *)
(* adjust and merge are recursive functions; what they return is proved by *)
(* induction over the set of the numbers for which it holds.               *)
(***************************************************************************)
EXTENDS TimeStat, TLAPS, FiniteSetTheorems, WellFoundedInduction

\* Every set of numbers has a least one.
LEMMA LeastNumber ==
    ASSUME NEW T \in SUBSET Nat, T # {}
    PROVE  \E m \in T : \A n \in T : m <= n
<1> DEFINE R == {p \in Nat \X Nat : p[1] < p[2]}
<1>1. IsWellFoundedOn(R, Nat)
    BY NatLessThanWellFounded DEF OpToRel
<1>2. PICK m \in T : \A n \in T : ~ (<<n, m>> \in R)
    BY <1>1, WFMin
<1>3. \A n \in T : ~(n < m)
    BY <1>2
<1> QED
    BY <1>3

\* Induction, for a set instead of a predicate.
LEMMA SetInduction ==
    ASSUME NEW T, 0 \in T, \A k \in Nat : k \in T => k + 1 \in T
    PROVE  Nat \subseteq T
<1> DEFINE U == {k \in Nat : k \notin T}
<1> SUFFICES ASSUME U # {} PROVE FALSE
    OBVIOUS
<1>1. PICK m \in U : \A n \in U : m <= n
    BY LeastNumber
<1>2. m # 0 /\ m - 1 \in Nat /\ m - 1 \in T
    BY <1>1
<1> QED
    BY <1>1, <1>2

----------------------------------------------------------------------------
(* Counting.                                                               *)

\* 1 for the value v, 0 for any other.
Is(e, v) == IF e = v THEN 1 ELSE 0

\* How often v is in the array a.
Count(a, v) == Cardinality({n \in DOMAIN a : a[n] = v})

\* What one assignment to an element changes.
LEMMA CountChange ==
    ASSUME NEW a, IsFiniteSet(DOMAIN a), a \in [DOMAIN a -> Nat],
           NEW m \in DOMAIN a, NEW x \in Nat, NEW v
    PROVE  /\ Count(a, v) \in Nat
           /\ Count([a EXCEPT ![m] = x], v) =
                Count(a, v) - Is(a[m], v) + Is(x, v)
<1> DEFINE S == {n \in DOMAIN a \ {m} : a[n] = v}
           b == [a EXCEPT ![m] = x]
<1>1. IsFiniteSet(S) /\ m \notin S
    BY FS_Subset
<1>2. Cardinality(S) \in Nat /\ Cardinality(S \cup {m}) = Cardinality(S) + 1
    BY <1>1, FS_AddElement, FS_CardinalityType
<1>3. {n \in DOMAIN a : a[n] = v} = IF a[m] = v THEN S \cup {m} ELSE S
    OBVIOUS
<1>4. {n \in DOMAIN b : b[n] = v} = IF x = v THEN S \cup {m} ELSE S
    OBVIOUS
<1>5. Count(a, v) = Cardinality(S) + Is(a[m], v)
    BY <1>2, <1>3 DEF Count, Is
<1>6. Count(b, v) = Cardinality(S) + Is(x, v)
    BY <1>2, <1>4 DEF Count, Is
<1>7. Is(a[m], v) \in {0, 1} /\ Is(x, v) \in {0, 1}
    BY DEF Is
<1> HIDE DEF S
<1> QED
    BY <1>2, <1>5, <1>6, <1>7

----------------------------------------------------------------------------
(* adjust.                                                                 *)

\* The greater child of p.
Child(a, base, n, p) ==
    LET c == 2 * p + 1
    IN  IF c # n - 1 /\ a[base + c] < a[base + c + 1] THEN c + 1 ELSE c

\* The child is below.
LEMMA ChildBelow ==
    ASSUME NEW a, NEW base, NEW n \in Nat, NEW p \in 0..(n - 1),
           2 * p + 1 <= n - 1
    PROVE  /\ Child(a, base, n, p) \in (p + 1)..(n - 1)
           /\ Child(a, base, n, p) \in {2 * p + 1, 2 * p + 2}
BY DEF Child

\* The loop of adjust ends at p: no child, or none that is greater.
Stops(a, base, temp, n, p) ==
    2 * p + 1 > n - 1 \/ temp >= a[base + Child(a, base, n, p)]

\* One turn of the loop, and what follows.
Sunk(a, base, temp, n, g, p) ==
    IF Stops(a, base, temp, n, p)
      THEN [a EXCEPT ![base + p] = temp]
      ELSE [g[Child(a, base, n, p)]
              EXCEPT ![base + p] = a[base + Child(a, base, n, p)]]

\* There is a function that is defined as "sink" of Adjust is.
LEMMA SinkDefined ==
    ASSUME NEW a, NEW base, NEW temp, NEW n \in Nat
    PROVE  \E g : g = [p \in 0..(n - 1) |-> Sunk(a, base, temp, n, g, p)]
<1> DEFINE Part(g, k) ==
             /\ g = [p \in 0..(n - 1) |-> g[p]]
             /\ \A p \in 0..(n - 1) :
                  p >= n - k => g[p] = Sunk(a, base, temp, n, g, p)
           T == {k \in Nat : k <= n => \E g : Part(g, k)}
<1>1. 0 \in T
  <2>1. Part([p \in 0..(n - 1) |-> 0], 0)
    OBVIOUS
  <2> QED
    BY <2>1
<1>2. ASSUME NEW k \in Nat, k \in T PROVE k + 1 \in T
  <2> SUFFICES ASSUME k + 1 <= n PROVE \E g : Part(g, k + 1)
    OBVIOUS
  <2>1. PICK g : Part(g, k)
    BY <1>2
  <2> DEFINE q == n - k - 1
             h == [g EXCEPT ![q] = Sunk(a, base, temp, n, g, q)]
  <2>2. q \in 0..(n - 1) /\ h[q] = Sunk(a, base, temp, n, g, q)
    BY <2>1
  <2>3. \A p \in 0..(n - 1) : p # q => h[p] = g[p]
    BY <2>1
  <2>4. ASSUME NEW p \in 0..(n - 1), p >= q
        PROVE  Sunk(a, base, temp, n, h, p) = Sunk(a, base, temp, n, g, p)
    <3>1. CASE 2 * p + 1 > n - 1
      BY <3>1 DEF Sunk, Stops
    <3>2. CASE 2 * p + 1 <= n - 1
      <4>1. h[Child(a, base, n, p)] = g[Child(a, base, n, p)]
        BY <2>2, <2>3, <2>4, <3>2, ChildBelow
      <4> QED
        BY <4>1 DEF Sunk
    <3> QED
      BY <3>1, <3>2
  <2>5. h = [p \in 0..(n - 1) |-> h[p]]
    BY <2>1
  <2>7. \A p \in 0..(n - 1) : p >= n - k => p >= q /\ p # q
    OBVIOUS
  <2>8. \A p \in 0..(n - 1) : p >= n - (k + 1) => p = q \/ p >= n - k
    OBVIOUS
  <2>9. q >= q
    OBVIOUS
  <2> HIDE DEF h, q
  <2>6. ASSUME NEW p \in 0..(n - 1), p >= n - (k + 1)
        PROVE  h[p] = Sunk(a, base, temp, n, h, p)
    <3>1. CASE p = q
      BY <2>2, <2>4, <2>9, <3>1
    <3>2. CASE p # q
      <4>1. p >= n - k /\ p >= q
        BY <2>6, <2>7, <2>8, <3>2
      <4>2. g[p] = Sunk(a, base, temp, n, g, p)
        BY <2>1, <4>1
      <4> QED
        BY <2>3, <2>4, <3>2, <4>1, <4>2
    <3> QED
      BY <3>1, <3>2
  <2> QED
    BY <2>5, <2>6
<1>3. n \in T
    BY <1>1, <1>2, SetInduction
<1>4. PICK g : Part(g, n)
    BY <1>3
<1>5. g = [p \in 0..(n - 1) |-> Sunk(a, base, temp, n, g, p)]
  <2>1. \A p \in 0..(n - 1) : g[p] = Sunk(a, base, temp, n, g, p)
    BY <1>4
  <2> QED
    BY <1>4, <2>1
<1> QED
    BY <1>5

\* Adjust, by one turn of its loop at a time.
LEMMA AdjustUnfolds ==
    ASSUME NEW a, NEW base, NEW n \in Nat, NEW from \in 0..(n - 1)
    PROVE  \E g : /\ \A p \in 0..(n - 1) :
                        g[p] = Sunk(a, base, a[base + from], n, g, p)
                  /\ Adjust(a, base, from, n) = g[from]
<1> DEFINE temp == a[base + from]
           G == CHOOSE g :
                  g = [p \in 0..(n - 1) |-> Sunk(a, base, temp, n, g, p)]
<1>1. G = [p \in 0..(n - 1) |-> Sunk(a, base, temp, n, G, p)]
    BY SinkDefined
<1>2. Adjust(a, base, from, n) = G[from]
    BY DEF Adjust, Sunk, Stops, Child
<1> HIDE DEF G
<1>3. \A p \in 0..(n - 1) : G[p] = Sunk(a, base, a[base + from], n, G, p)
    BY <1>1
<1> QED
    BY <1>2, <1>3

\* The parent of the element c of a heap.
Parent(c) == (c - 1) \div 2

\* It is before its children, which are two.
LEMMA ParentIs ==
    ASSUME NEW c \in Nat \ {0}
    PROVE  /\ Parent(c) \in Nat /\ Parent(c) < c
           /\ c = 2 * Parent(c) + 1 \/ c = 2 * Parent(c) + 2
BY DEF Parent

\* What adjust is given: a heap but for the element "from".
SinkInput(a, base, n, from) ==
    /\ IsFiniteSet(DOMAIN a) /\ a \in [DOMAIN a -> Values]
    /\ base \in Nat /\ n \in Nat /\ from \in 0..(n - 1)
    /\ \A m \in 0..(n - 1) : base + m \in DOMAIN a
    /\ DOMAIN a \subseteq Int
    /\ \A c \in 1..(n - 1) :
         Parent(c) > from => a[base + Parent(c)] >= a[base + c]

\* s is a with the hole at p filled, by temp or from below.
Sifted(a, base, n, temp, s, p) ==
    /\ s \in [DOMAIN a -> Values]
    /\ \A d \in DOMAIN a :
         d # base + p /\ ~(base + 2 * p + 1 <= d /\ d <= base + n - 1)
           => s[d] = a[d]
    /\ s[base + p] = IF Stops(a, base, temp, n, p)
                       THEN temp ELSE a[base + Child(a, base, n, p)]
    /\ \A m \in 0..(n - 1) :
         s[base + m] = temp \/ \E k \in 0..(n - 1) : s[base + m] = a[base + k]
    /\ \A c \in 1..(n - 1) :
         Parent(c) >= p => s[base + Parent(c)] >= s[base + c]
    /\ \A v : Count(s, v) = Count([a EXCEPT ![base + p] = temp], v)

\* No child of p is greater than the one that is chosen.
LEMMA ChildGreatest ==
    ASSUME NEW a, NEW base, NEW n, NEW from, SinkInput(a, base, n, from),
           NEW p \in 0..(n - 1), NEW c \in 1..(n - 1), Parent(c) = p
    PROVE  /\ 2 * p + 1 <= n - 1
           /\ a[base + Child(a, base, n, p)] >= a[base + c]
           /\ Parent(Child(a, base, n, p)) = p
<1> DEFINE l == 2 * p + 1
<1>0. n \in Nat /\ c \in Nat \ {0} /\ l \in Nat
    BY DEF SinkInput
<1>1. c = l \/ c = l + 1
  <2>1. c = 2 * Parent(c) + 1 \/ c = 2 * Parent(c) + 2
    BY <1>0, ParentIs
  <2> QED
    BY <2>1
<1>2. l \in 0..(n - 1) /\ a[base + l] \in Nat
    BY <1>0, <1>1, TimeStatAssumption DEF SinkInput
<1>3. l # n - 1 => l + 1 \in 0..(n - 1)
  <2> HIDE DEF l
  <2> QED
    BY <1>0, <1>2
<1>4. l # n - 1 => a[base + l + 1] \in Nat
  <2>1. l # n - 1 => base + (l + 1) \in DOMAIN a
    BY <1>3 DEF SinkInput
  <2>2. base + (l + 1) = base + l + 1
    BY DEF SinkInput
  <2> QED
    BY <2>1, <2>2, TimeStatAssumption DEF SinkInput
<1>5. base + (l + 1) = base + l + 1
    BY DEF SinkInput
<1>6. c = l + 1 => l # n - 1
    BY DEF SinkInput
<1>7. Parent(l) = p /\ Parent(l + 1) = p
    BY DEF Parent
<1>8. Child(a, base, n, p) =
        IF l # n - 1 /\ a[base + l] < a[base + l + 1] THEN l + 1 ELSE l
    BY DEF Child
<1>9. 2 * p + 1 <= n - 1
    BY <1>2 DEF SinkInput
<1> HIDE DEF l
<1>10. CASE c = l
    BY <1>2, <1>4, <1>5, <1>7, <1>8, <1>9, <1>10
<1>11. CASE c = l + 1
    BY <1>2, <1>4, <1>5, <1>6, <1>7, <1>8, <1>9, <1>11
<1> QED
    BY <1>1, <1>10, <1>11

\* The hole is filled.
LEMMA SinkStops ==
    ASSUME NEW a, NEW base, NEW n, NEW from, NEW temp \in Values,
           SinkInput(a, base, n, from),
           NEW p \in from..(n - 1), Stops(a, base, temp, n, p)
    PROVE  Sifted(a, base, n, temp, [a EXCEPT ![base + p] = temp], p)
<1> DEFINE s == [a EXCEPT ![base + p] = temp]
<1>1. p \in 0..(n - 1) /\ base + p \in DOMAIN a
    BY DEF SinkInput
<1>2. s \in [DOMAIN a -> Values] /\ s[base + p] = temp
    BY <1>1 DEF SinkInput
<1>3. \A d \in DOMAIN a : d # base + p => s[d] = a[d]
    BY DEF SinkInput
<1>4. \A m \in 0..(n - 1) :
         s[base + m] = temp \/ \E k \in 0..(n - 1) : s[base + m] = a[base + k]
  <2>1. TAKE m \in 0..(n - 1)
  <2>2. base + m \in DOMAIN a
    BY DEF SinkInput
  <2> HIDE DEF s
  <2> QED
    BY <1>2, <1>3, <2>2
<1>5. ASSUME NEW c \in 1..(n - 1), Parent(c) >= p
      PROVE  s[base + Parent(c)] >= s[base + c]
  <2>1. c \in Nat \ {0} /\ c # p /\ Parent(c) \in 0..(n - 1)
    BY <1>1, <1>5, ParentIs DEF SinkInput
  <2>2. base + c \in DOMAIN a /\ base + Parent(c) \in DOMAIN a
        /\ base + c # base + p
    BY <1>1, <2>1 DEF SinkInput
  <2>3. s[base + c] = a[base + c] /\ a[base + c] \in Nat
    BY <1>3, <2>2, TimeStatAssumption DEF SinkInput
  <2>4. CASE Parent(c) = p
    <3>1. 2 * p + 1 <= n - 1 /\ a[base + Child(a, base, n, p)] >= a[base + c]
      BY <1>1, <2>4, ChildGreatest
    <3>2. temp >= a[base + Child(a, base, n, p)]
      BY <3>1, <1>1 DEF Stops, SinkInput
    <3>3. a[base + Child(a, base, n, p)] \in Nat /\ temp \in Nat
      <4>1. Child(a, base, n, p) \in 0..(n - 1)
        BY <1>1, <3>1, ChildBelow DEF SinkInput
      <4> QED
        BY <4>1, TimeStatAssumption DEF SinkInput
    <3> HIDE DEF s
    <3> QED
      BY <1>2, <2>3, <2>4, <3>1, <3>2, <3>3
  <2>5. CASE Parent(c) # p
    <3>1. Parent(c) > from
      BY <1>1, <1>5, <2>1, <2>5 DEF SinkInput
    <3>2. s[base + Parent(c)] = a[base + Parent(c)]
      BY <1>1, <1>3, <2>1, <2>2, <2>5 DEF SinkInput
    <3> QED
      BY <2>3, <3>1, <3>2 DEF SinkInput
  <2> QED
    BY <2>4, <2>5
<1> HIDE DEF s
<1> QED
    BY <1>2, <1>3, <1>4, <1>5 DEF Sifted, s

\* The greater child goes up and the hole goes down.
LEMMA SinkFalls ==
    ASSUME NEW a, NEW base, NEW n, NEW from, NEW temp \in Values,
           SinkInput(a, base, n, from),
           NEW p \in from..(n - 1), ~Stops(a, base, temp, n, p),
           NEW r, Sifted(a, base, n, temp, r, Child(a, base, n, p))
    PROVE  Sifted(a, base, n, temp,
                  [r EXCEPT ![base + p] = a[base + Child(a, base, n, p)]], p)
<1> DEFINE q == Child(a, base, n, p)
           x == a[base + q]
           s == [r EXCEPT ![base + p] = x]
<1>1. /\ n \in Nat /\ base \in Nat /\ p \in Nat /\ p \in 0..(n - 1)
      /\ base + p \in DOMAIN a
    BY DEF SinkInput
<1>2. /\ 2 * p + 1 <= n - 1 /\ q \in 0..(n - 1) /\ q > p
      /\ q \in {2 * p + 1, 2 * p + 2}
    BY <1>1, ChildBelow DEF Stops
<1>3. base + q \in DOMAIN a /\ x \in Values /\ x \in Nat /\ temp \in Nat
    BY <1>2, TimeStatAssumption DEF SinkInput
<1>4. temp < x
    BY <1>2, <1>3, <1>1 DEF Stops
<1>5. /\ r \in [DOMAIN a -> Values]
      /\ \A d \in DOMAIN a :
           d # base + q /\ ~(base + 2 * q + 1 <= d /\ d <= base + n - 1)
             => r[d] = a[d]
      /\ r[base + q] = IF Stops(a, base, temp, n, q)
                         THEN temp ELSE a[base + Child(a, base, n, q)]
      /\ \A m \in 0..(n - 1) :
           r[base + m] = temp \/ \E k \in 0..(n - 1) : r[base + m] = a[base + k]
      /\ \A c \in 1..(n - 1) :
           Parent(c) >= q => r[base + Parent(c)] >= r[base + c]
      /\ \A v : Count(r, v) = Count([a EXCEPT ![base + q] = temp], v)
    BY DEF Sifted
<1>6. s \in [DOMAIN a -> Values] /\ s[base + p] = x
    BY <1>1, <1>3, <1>5
<1>7. \A d \in DOMAIN a : d # base + p => s[d] = r[d]
    BY <1>5
<1>8. DOMAIN a \subseteq Int
    BY DEF SinkInput
<1>9. r[base + p] = a[base + p]
    BY <1>1, <1>2, <1>5
<1> HIDE DEF q, x, s
<1>10. ASSUME NEW d \in DOMAIN a, d # base + p,
              ~(base + 2 * p + 1 <= d /\ d <= base + n - 1)
       PROVE  s[d] = a[d]
  <2>1. d # base + q /\ ~(base + 2 * q + 1 <= d /\ d <= base + n - 1)
    BY <1>1, <1>2, <1>8, <1>10
  <2> QED
    BY <1>5, <1>7, <1>10, <2>1
<1>11. ASSUME NEW m \in 0..(n - 1)
       PROVE  \/ s[base + m] = temp
              \/ \E k \in 0..(n - 1) : s[base + m] = a[base + k]
  <2>1. base + m \in DOMAIN a
    BY DEF SinkInput
  <2>2. CASE m = p
    BY <1>2, <1>6, <2>2 DEF x
  <2>3. CASE m # p
    BY <1>1, <1>5, <1>7, <2>1, <2>3
  <2> QED
    BY <2>2, <2>3
<1>12. ASSUME NEW c \in 1..(n - 1), Parent(c) >= p
       PROVE  s[base + Parent(c)] >= s[base + c]
  <2>1. /\ c \in Nat \ {0} /\ Parent(c) \in 0..(n - 1) /\ c # p
        /\ c = 2 * Parent(c) + 1 \/ c = 2 * Parent(c) + 2
    BY <1>1, <1>12, ParentIs
  <2>2. /\ base + c \in DOMAIN a /\ base + Parent(c) \in DOMAIN a
        /\ base + c # base + p
    BY <1>1, <2>1 DEF SinkInput
  <2>3. s[base + c] = r[base + c] /\ r[base + c] \in Nat
    BY <1>5, <1>7, <2>2, TimeStatAssumption
  <2>4. a[base + c] \in Nat
    BY <2>2, TimeStatAssumption DEF SinkInput
  <2>5. CASE Parent(c) = p
    <3>1. x >= a[base + c] /\ Parent(q) = p
      BY <1>1, <2>5, ChildGreatest DEF x, q
    <3>2. CASE c = q
      <4>1. CASE Stops(a, base, temp, n, q)
        BY <1>3, <1>4, <1>5, <1>6, <2>3, <2>5, <3>2, <4>1
      <4>2. CASE ~Stops(a, base, temp, n, q)
        <5> DEFINE qq == Child(a, base, n, q)
        <5>1. 2 * q + 1 <= n - 1
          BY <1>1, <1>2, <4>2 DEF Stops
        <5>2. qq \in 1..(n - 1) /\ (qq = 2 * q + 1 \/ qq = 2 * q + 2)
          BY <1>1, <1>2, <5>1, ChildBelow
        <5> HIDE DEF qq
        <5>3. Parent(qq) = q
          BY <1>1, <1>2, <5>2 DEF Parent
        <5>4. a[base + q] >= a[base + qq]
          BY <1>2, <5>2, <5>3 DEF SinkInput
        <5> QED
          BY <1>5, <1>6, <2>3, <2>5, <3>2, <4>2, <5>4 DEF qq, x
      <4> QED
        BY <4>1, <4>2
    <3>3. CASE c # q
      <4>1. /\ base + c # base + q
            /\ ~(base + 2 * q + 1 <= base + c /\ base + c <= base + n - 1)
        BY <1>1, <1>2, <2>1, <2>5, <3>3
      <4>2. r[base + c] = a[base + c]
        BY <1>5, <2>2, <4>1
      <4> QED
        BY <1>6, <2>3, <2>5, <3>1, <4>2
    <3> QED
      BY <3>2, <3>3
  <2>6. CASE Parent(c) > p /\ Parent(c) >= q
    <3>1. s[base + Parent(c)] = r[base + Parent(c)]
      BY <1>1, <1>7, <2>1, <2>2, <2>6
    <3> QED
      BY <1>5, <2>3, <2>6, <3>1
  <2>7. CASE Parent(c) > p /\ Parent(c) < q
    <3>1. /\ base + c # base + q
          /\ ~(base + 2 * q + 1 <= base + c /\ base + c <= base + n - 1)
      BY <1>1, <1>2, <2>1, <2>7
    <3>2. /\ base + Parent(c) # base + p /\ base + Parent(c) # base + q
          /\ ~(base + 2 * q + 1 <= base + Parent(c))
      BY <1>1, <1>2, <2>1, <2>7
    <3>3. s[base + c] = a[base + c]
      BY <1>5, <2>2, <2>3, <3>1
    <3>4. s[base + Parent(c)] = a[base + Parent(c)]
      BY <1>5, <1>7, <2>2, <3>2
    <3>5. Parent(c) > from
      BY <1>1, <2>1, <2>7 DEF SinkInput
    <3> QED
      BY <3>3, <3>4, <3>5 DEF SinkInput
  <2>8. Parent(c) = p \/ Parent(c) > p
    BY <1>1, <1>12, <2>1
  <2>9. Parent(c) >= q \/ Parent(c) < q
    BY <1>2, <2>1
  <2> QED
    BY <2>5, <2>6, <2>7, <2>8, <2>9
<1>13. ASSUME NEW v
       PROVE  Count(s, v) = Count([a EXCEPT ![base + p] = temp], v)
  <2>1. /\ IsFiniteSet(DOMAIN a)
        /\ a \in [DOMAIN a -> Nat] /\ r \in [DOMAIN a -> Nat]
    BY <1>5, TimeStatAssumption DEF SinkInput
  <2>2. Count(s, v) = Count(r, v) - Is(r[base + p], v) + Is(x, v)
    <3>1. Count([r EXCEPT ![base + p] = x], v)
            = Count(r, v) - Is(r[base + p], v) + Is(x, v)
      <4>1. /\ IsFiniteSet(DOMAIN r) /\ r \in [DOMAIN r -> Nat]
            /\ base + p \in DOMAIN r
        BY <1>1, <2>1
      <4> QED
        BY <1>3, <4>1, CountChange
    <3> QED
      BY <3>1 DEF s
  <2>3. Count([a EXCEPT ![base + q] = temp], v)
          = Count(a, v) - Is(a[base + q], v) + Is(temp, v)
    BY <1>3, <2>1, CountChange
  <2>4. Count([a EXCEPT ![base + p] = temp], v)
          = Count(a, v) - Is(a[base + p], v) + Is(temp, v)
    BY <1>1, <1>3, <2>1, CountChange
  <2>5. Count(r, v) = Count([a EXCEPT ![base + q] = temp], v)
    BY <1>5
  <2>6. Count(a, v) \in Nat
    BY <1>1, <2>1, CountChange
  <2>7. Is(x, v) \in Nat /\ Is(temp, v) \in Nat /\ Is(a[base + p], v) \in Nat
    BY DEF Is
  <2> QED
    BY <1>9, <2>2, <2>3, <2>4, <2>5, <2>6, <2>7 DEF x
<1> QED
    BY <1>6, <1>1, <1>2, <1>10, <1>11, <1>12, <1>13 DEF Sifted, s, q, x

\* What adjust makes of it: a heap from "from" on, of the same elements.
Heaped(a, base, n, from, s) ==
    /\ s \in [DOMAIN a -> Values]
    /\ \A d \in DOMAIN a :
         ~(base + from <= d /\ d <= base + n - 1) => s[d] = a[d]
    /\ \A m \in 0..(n - 1) : \E k \in 0..(n - 1) : s[base + m] = a[base + k]
    /\ \A c \in 1..(n - 1) :
         Parent(c) >= from => s[base + Parent(c)] >= s[base + c]
    /\ \A v : Count(s, v) = Count(a, v)

\* adjust mends the heap, by induction over the length below the hole.
LEMMA AdjustHeaps ==
    ASSUME NEW a, NEW base, NEW n, NEW from, SinkInput(a, base, n, from)
    PROVE  Heaped(a, base, n, from, Adjust(a, base, from, n))
<1> DEFINE temp == a[base + from]
<1>1. /\ n \in Nat /\ base \in Nat /\ from \in 0..(n - 1)
      /\ base + from \in DOMAIN a /\ temp \in Values
    BY DEF SinkInput
<1>2. PICK g : /\ \A p \in 0..(n - 1) : g[p] = Sunk(a, base, temp, n, g, p)
               /\ Adjust(a, base, from, n) = g[from]
    BY <1>1, AdjustUnfolds
<1> HIDE DEF temp
<1> DEFINE T == {k \in Nat : \A p \in from..(n - 1) :
                    p >= n - k => Sifted(a, base, n, temp, g[p], p)}
<1>3. 0 \in T
    BY <1>1
<1>4. ASSUME NEW k \in Nat, k \in T PROVE k + 1 \in T
  <2> SUFFICES ASSUME NEW p \in from..(n - 1), p >= n - (k + 1)
               PROVE  Sifted(a, base, n, temp, g[p], p)
    OBVIOUS
  <2>1. p \in 0..(n - 1) /\ g[p] = Sunk(a, base, temp, n, g, p)
    BY <1>1, <1>2
  <2>2. CASE Stops(a, base, temp, n, p)
    <3>1. g[p] = [a EXCEPT ![base + p] = temp]
      BY <2>1, <2>2 DEF Sunk
    <3> QED
      BY <1>1, <2>2, <3>1, SinkStops
  <2>3. CASE ~Stops(a, base, temp, n, p)
    <3> DEFINE q == Child(a, base, n, p)
    <3>1. g[p] = [g[q] EXCEPT ![base + p] = a[base + q]]
      BY <2>1, <2>3 DEF Sunk
    <3>2. 2 * p + 1 <= n - 1
      BY <1>1, <2>1, <2>3 DEF Stops
    <3>3. q \in (p + 1)..(n - 1)
      BY <1>1, <2>1, <3>2, ChildBelow
    <3> HIDE DEF q
    <3>4. q \in from..(n - 1) /\ q >= n - k
      BY <1>1, <2>1, <3>3
    <3>5. Sifted(a, base, n, temp, g[q], q)
      BY <1>4, <3>4
    <3> QED
      BY <1>1, <2>3, <3>1, <3>5, SinkFalls DEF q
  <2> QED
    BY <2>2, <2>3
<1>5. n - from \in T
  <2>1. Nat \subseteq T
    <3> HIDE DEF T
    <3> QED
      BY <1>3, <1>4, SetInduction
  <2> QED
    BY <1>1, <2>1
<1>6. Sifted(a, base, n, temp, g[from], from)
    BY <1>1, <1>5
<1> DEFINE s == g[from]
<1>7. [a EXCEPT ![base + from] = temp] = a
    BY <1>1 DEF temp, SinkInput
<1> HIDE DEF s
<1>8. \A d \in DOMAIN a :
         ~(base + from <= d /\ d <= base + n - 1) => s[d] = a[d]
    BY <1>1, <1>6 DEF Sifted, SinkInput, s
<1>9. \A m \in 0..(n - 1) : \E k \in 0..(n - 1) : s[base + m] = a[base + k]
    BY <1>1, <1>6 DEF Sifted, temp, s
<1>10. \A v : Count(s, v) = Count(a, v)
    BY <1>6, <1>7 DEF Sifted, s
<1> QED
    BY <1>2, <1>6, <1>8, <1>9, <1>10 DEF Heaped, Sifted, s

----------------------------------------------------------------------------
(* merge.                                                                  *)

\* The element of the first run comes next.
Left(a, start2, end, x, y) == y > end \/ (x < start2 /\ a[x] <= a[y])

\* One turn of the loops, and what follows.
Filled(a, start2, end, g, x, y) ==
    IF x = start2 /\ y = end + 1
      THEN a
      ELSE IF Left(a, start2, end, x, y)
        THEN [g[<<x + 1, y>>] EXCEPT ![x + y - start2] = a[x]]
        ELSE [g[<<x, y + 1>>] EXCEPT ![x + y - start2] = a[y]]

\* There is a function that is defined as "fill" of Merged is.
LEMMA FillDefined ==
    ASSUME NEW a, NEW start1 \in Nat, NEW start2 \in Nat, NEW end \in Nat
    PROVE  \E g : g = [p \in (start1..start2) \X (start2..(end + 1)) |->
                         Filled(a, start2, end, g, p[1], p[2])]
<1> DEFINE P == (start1..start2) \X (start2..(end + 1))
           Rest(p) == (start2 - p[1]) + (end + 1 - p[2])
           Part(g, k) ==
             /\ g = [p \in P |-> g[p]]
             /\ \A p \in P : Rest(p) < k =>
                  g[p] = Filled(a, start2, end, g, p[1], p[2])
           T == {k \in Nat : \E g : Part(g, k)}
<1>1. 0 \in T
  <2>1. Part([p \in P |-> 0], 0)
    <3>1. \A p \in P : ~(Rest(p) < 0)
      OBVIOUS
    <3> QED
      BY <3>1
  <2> QED
    BY <2>1
<1>2. ASSUME NEW k \in Nat, k \in T PROVE k + 1 \in T
  <2>1. PICK g : Part(g, k)
    BY <1>2
  <2> DEFINE h == [p \in P |-> IF Rest(p) = k
                                 THEN Filled(a, start2, end, g, p[1], p[2])
                                 ELSE g[p]]
  <2>2. h = [p \in P |-> h[p]]
    OBVIOUS
  <2>3. \A p \in P : h[p] = IF Rest(p) = k
                              THEN Filled(a, start2, end, g, p[1], p[2])
                              ELSE g[p]
    OBVIOUS
  <2> HIDE DEF h
  <2>4. ASSUME NEW p \in P, Rest(p) <= k
        PROVE  Filled(a, start2, end, h, p[1], p[2])
                 = Filled(a, start2, end, g, p[1], p[2])
    <3> DEFINE x == p[1]
               y == p[2]
    <3>1. x \in start1..start2 /\ y \in start2..(end + 1)
      OBVIOUS
    <3> HIDE DEF x, y
    <3>2. CASE x = start2 /\ y = end + 1
      BY <3>2 DEF Filled, x, y
    <3>3. CASE ~(x = start2 /\ y = end + 1) /\ Left(a, start2, end, x, y)
      <4>1. x < start2
        BY <3>1, <3>3 DEF Left
      <4>2. <<x + 1, y>> \in P
        BY <3>1, <4>1
      <4>3. Rest(<<x + 1, y>>) # k
        BY <2>4, <3>1, <4>1 DEF x, y
      <4>4. h[<<x + 1, y>>] = g[<<x + 1, y>>]
        BY <2>3, <4>2, <4>3
      <4> QED
        BY <3>3, <4>4 DEF Filled, x, y
    <3>4. CASE ~(x = start2 /\ y = end + 1) /\ ~Left(a, start2, end, x, y)
      <4>1. y <= end
        BY <3>1, <3>4 DEF Left
      <4>2. <<x, y + 1>> \in P
        BY <3>1, <4>1
      <4>3. Rest(<<x, y + 1>>) # k
        BY <2>4, <3>1, <4>1 DEF x, y
      <4>4. h[<<x, y + 1>>] = g[<<x, y + 1>>]
        BY <2>3, <4>2, <4>3
      <4> QED
        BY <3>4, <4>4 DEF Filled, x, y
    <3> QED
      BY <3>2, <3>3, <3>4
  <2>5. ASSUME NEW p \in P, Rest(p) < k + 1
        PROVE  h[p] = Filled(a, start2, end, h, p[1], p[2])
    <3>1. Rest(p) \in Int
      OBVIOUS
    <3>2. Rest(p) = k \/ Rest(p) < k
      BY <2>5, <3>1
    <3>3. Rest(p) <= k /\ (Rest(p) < k => Rest(p) # k)
      BY <3>1, <3>2
    <3> HIDE DEF Rest, P
    <3> QED
      BY <2>1, <2>3, <2>4, <3>2, <3>3
  <2>6. Part(h, k + 1)
    BY <2>2, <2>5
  <2> HIDE DEF Part
  <2> QED
    BY <2>6
<1>3. start2 < start1 \/ start1 <= start2
    OBVIOUS
<1>4. CASE start2 < start1
  <2>1. P = {}
    BY <1>4
  <2> QED
    BY <2>1
<1>5. CASE start1 <= start2
  <2> DEFINE k == (start2 - start1) + (end + 1) + 1
  <2>1. k \in Nat
    BY <1>5
  <2>2. k \in T
    <3> HIDE DEF T
    <3> QED
      BY <1>1, <1>2, <2>1, SetInduction
  <2>3. PICK g : Part(g, k)
    BY <2>2
  <2>4. \A p \in P : Rest(p) < k
    OBVIOUS
  <2>5. \A p \in P : g[p] = Filled(a, start2, end, g, p[1], p[2])
    BY <2>3, <2>4
  <2>6. g = [p \in P |-> Filled(a, start2, end, g, p[1], p[2])]
    BY <2>3, <2>5
  <2> QED
    BY <2>6
<1> QED
    BY <1>3, <1>4, <1>5

\* Merged, by one turn of its loops at a time.
LEMMA MergedUnfolds ==
    ASSUME NEW a, NEW start1 \in Nat, NEW start2 \in Nat, NEW end \in Nat,
           start1 <= start2, start2 <= end + 1
    PROVE  \E g : /\ \A x \in start1..start2, y \in start2..(end + 1) :
                        g[<<x, y>>] = Filled(a, start2, end, g, x, y)
                  /\ Merged(a, start1, start2, end) = g[<<start1, start2>>]
<1> DEFINE P == (start1..start2) \X (start2..(end + 1))
           G == CHOOSE g :
                  g = [p \in P |-> Filled(a, start2, end, g, p[1], p[2])]
<1>1. G = [p \in P |-> Filled(a, start2, end, G, p[1], p[2])]
    BY FillDefined
<1>2. Merged(a, start1, start2, end) = G[<<start1, start2>>]
    BY DEF Merged, Filled, Left
<1> HIDE DEF G
<1>3. \A x \in start1..start2, y \in start2..(end + 1) :
         G[<<x, y>>] = Filled(a, start2, end, G, x, y)
    BY <1>1
<1> QED
    BY <1>2, <1>3

\* What merge is given: two runs that are in order.
MergeInput(a, start1, start2, end) ==
    /\ IsFiniteSet(DOMAIN a) /\ a \in [DOMAIN a -> Values]
    /\ DOMAIN a \subseteq Int
    /\ start1 \in Nat /\ start2 \in Nat /\ end \in Nat
    /\ start1 <= start2 /\ start2 <= end + 1
    /\ start1..end \subseteq DOMAIN a
    /\ Ordered(a, start1, start2 - 1) /\ Ordered(a, start2, end)

\* s is a with the elements at S, in order, from k to the end.
Joined(a, end, k, S, s) ==
    /\ s \in [DOMAIN a -> Values]
    /\ \A d \in DOMAIN a : ~(k <= d /\ d <= end) => s[d] = a[d]
    /\ \A m \in k..end : \E n \in S : s[m] = a[n]
    /\ Ordered(s, k, end)
    /\ \A v : Cardinality({m \in k..end : s[m] = v})
                = Cardinality({n \in S : a[n] = v})

\* The least of what is left goes before the rest of it.
LEMMA TakeOne ==
    ASSUME NEW a, NEW start1, NEW start2, NEW end,
           MergeInput(a, start1, start2, end),
           NEW k \in start1..end, NEW S \in SUBSET (start1..end),
           NEW z \in S, \A n \in S : a[z] <= a[n],
           NEW r, Joined(a, end, k + 1, S \ {z}, r)
    PROVE  Joined(a, end, k, S, [r EXCEPT ![k] = a[z]])
<1> DEFINE s == [r EXCEPT ![k] = a[z]]
<1>1. /\ k \in Nat /\ end \in Nat /\ k \in DOMAIN a /\ S \subseteq DOMAIN a
      /\ start1..end \subseteq DOMAIN a /\ start1 \in Nat
      /\ z \in DOMAIN a /\ DOMAIN a \subseteq Int
    BY DEF MergeInput
<1>2. \A n \in S : a[n] \in Nat
    BY <1>1, TimeStatAssumption DEF MergeInput
<1>3. /\ r \in [DOMAIN a -> Values]
      /\ \A d \in DOMAIN a : ~(k + 1 <= d /\ d <= end) => r[d] = a[d]
      /\ \A m \in (k + 1)..end : \E n \in S \ {z} : r[m] = a[n]
      /\ Ordered(r, k + 1, end)
      /\ \A v : Cardinality({m \in (k + 1)..end : r[m] = v})
                  = Cardinality({n \in S \ {z} : a[n] = v})
    BY DEF Joined
<1>4. /\ s \in [DOMAIN a -> Values] /\ s[k] = a[z]
      /\ \A d \in DOMAIN a : d # k => s[d] = r[d]
    BY <1>1, <1>3 DEF MergeInput
<1>5. \A m \in k..end : m = k \/ (m \in (k + 1)..end /\ m \in DOMAIN a /\ m # k)
  <2>1. TAKE m \in k..end
  <2>2. m \in start1..end /\ m \in DOMAIN a
    BY <1>1
  <2>3. m \in Int /\ m >= k /\ m <= end
    BY <1>1
  <2>4. m # k => m \in (k + 1)..end
    BY <1>1, <2>3
  <2> QED
    BY <2>2, <2>4
<1> HIDE DEF s
<1>6. ASSUME NEW d \in DOMAIN a, ~(k <= d /\ d <= end) PROVE s[d] = a[d]
    BY <1>1, <1>3, <1>4, <1>6
<1>7. \A m \in k..end : \E n \in S : s[m] = a[n]
    BY <1>3, <1>4, <1>5
<1>8. Ordered(s, k, end)
  <2> SUFFICES ASSUME NEW m \in k..end, NEW n \in k..end, m <= n
               PROVE  s[m] <= s[n]
    BY DEF Ordered
  <2>1. CASE m = k
    <3>1. PICK j \in S : s[n] = a[j]
      BY <1>7
    <3> QED
      BY <1>2, <1>4, <2>1, <3>1
  <2>2. CASE m # k
    <3>1. m \in (k + 1)..end /\ n \in (k + 1)..end /\ n # k
      BY <1>1, <2>2
    <3> QED
      BY <1>3, <1>4, <1>5, <3>1 DEF Ordered
  <2> QED
    BY <2>1, <2>2
<1>9. ASSUME NEW v
      PROVE  Cardinality({m \in k..end : s[m] = v})
               = Cardinality({n \in S : a[n] = v})
  <2> DEFINE M == {m \in (k + 1)..end : r[m] = v}
             N == {n \in S \ {z} : a[n] = v}
  <2>1. IsFiniteSet(M) /\ IsFiniteSet(N)
    <3>1. k + 1 \in Int /\ end \in Int
      BY <1>1
    <3>2. IsFiniteSet((k + 1)..end)
      BY <3>1, FS_Interval
    <3>3. IsFiniteSet(DOMAIN a)
      BY DEF MergeInput
    <3> QED
      BY <1>1, <3>2, <3>3, FS_Subset
  <2>2. k \notin M /\ z \notin N /\ Cardinality(M) = Cardinality(N)
    <3>1. k \notin M /\ z \notin N
      BY <1>1
    <3> QED
      BY <1>3, <3>1
  <2>3. {m \in k..end : s[m] = v} = IF a[z] = v THEN M \cup {k} ELSE M
    <3>1. ASSUME NEW m
          PROVE  m \in k..end /\ s[m] = v
                   <=> m \in M \/ (m = k /\ a[z] = v)
      <4>1. CASE m = k
        BY <1>1, <1>4, <2>2, <4>1
      <4>2. CASE m # k
        <5>1. m \in k..end <=> m \in (k + 1)..end
          BY <1>1, <4>2
        <5>2. m \in (k + 1)..end => s[m] = r[m]
          BY <1>4, <1>5, <4>2, <5>1
        <5> QED
          BY <4>2, <5>1, <5>2
      <4> QED
        BY <4>1, <4>2
    <3> HIDE DEF M
    <3> QED
      BY <3>1
  <2>4. {n \in S : a[n] = v} = IF a[z] = v THEN N \cup {z} ELSE N
    OBVIOUS
  <2>5. Cardinality(M \cup {k}) = Cardinality(M) + 1
    BY <2>1, <2>2, FS_AddElement
  <2>6. Cardinality(N \cup {z}) = Cardinality(N) + 1
    BY <2>1, <2>2, FS_AddElement
  <2> HIDE DEF M, N
  <2> QED
    BY <2>2, <2>3, <2>4, <2>5, <2>6
<1> QED
    BY <1>4, <1>6, <1>7, <1>8, <1>9 DEF Joined, s

\* What is left of the two runs.
Sources(start2, end, x, y) == x..(start2 - 1) \cup y..end

\* merge puts the two runs in order, by induction over what is left.
LEMMA MergeJoins ==
    ASSUME NEW a, NEW start1, NEW start2, NEW end,
           MergeInput(a, start1, start2, end)
    PROVE  Joined(a, end, start1, start1..end, Merged(a, start1, start2, end))
<1>1. /\ start1 \in Nat /\ start2 \in Nat /\ end \in Nat
      /\ start1 <= start2 /\ start2 <= end + 1
    BY DEF MergeInput
<1>2. PICK g : /\ \A x \in start1..start2, y \in start2..(end + 1) :
                     g[<<x, y>>] = Filled(a, start2, end, g, x, y)
               /\ Merged(a, start1, start2, end) = g[<<start1, start2>>]
    BY <1>1, MergedUnfolds
<1> DEFINE Good(x, y) == Joined(a, end, x + y - start2,
                                Sources(start2, end, x, y), g[<<x, y>>])
           T == {k \in Nat : \A x \in start1..start2, y \in start2..(end + 1) :
                   (start2 - x) + (end + 1 - y) = k => Good(x, y)}
<1>3. 0 \in T
  <2> SUFFICES ASSUME NEW x \in start1..start2, NEW y \in start2..(end + 1),
                      (start2 - x) + (end + 1 - y) = 0
               PROVE  Good(x, y)
    OBVIOUS
  <2>1. x = start2 /\ y = end + 1
    BY <1>1
  <2>2. g[<<x, y>>] = a
    BY <1>2, <2>1 DEF Filled
  <2>3. Sources(start2, end, x, y) = {} /\ (x + y - start2)..end = {}
    BY <1>1, <2>1 DEF Sources
  <2> QED
    BY <2>2, <2>3 DEF Joined, MergeInput, Ordered
<1>4. ASSUME NEW k \in Nat, k \in T PROVE k + 1 \in T
  <2> SUFFICES ASSUME NEW x \in start1..start2, NEW y \in start2..(end + 1),
                      (start2 - x) + (end + 1 - y) = k + 1
               PROVE  Good(x, y)
    OBVIOUS
  <2> DEFINE S == Sources(start2, end, x, y)
             pos == x + y - start2
  <2>1. /\ x \in Nat /\ y \in Nat /\ ~(x = start2 /\ y = end + 1)
        /\ pos \in start1..end /\ S \in SUBSET (start1..end)
    BY <1>1 DEF Sources
  <2>2. \A n \in S : a[n] \in Nat
    BY <2>1, TimeStatAssumption DEF MergeInput
  <2>3. CASE Left(a, start2, end, x, y)
    <3>1. x < start2 /\ x \in S
      BY <1>1, <2>1, <2>3 DEF Left, Sources
    <3>2. \A n \in S : a[x] <= a[n]
      <4>1. \A n \in x..(start2 - 1) : a[x] <= a[n]
        BY <1>1, <2>1, <3>1 DEF MergeInput, Ordered
      <4>2. \A n \in y..end : a[x] <= a[n]
        <5> SUFFICES ASSUME NEW n \in y..end PROVE a[x] <= a[n]
          OBVIOUS
        <5>1. a[x] <= a[y] /\ y \in y..end
          BY <1>1, <2>1, <2>3 DEF Left
        <5>2. a[y] <= a[n]
          BY <1>1, <2>1, <5>1 DEF MergeInput, Ordered
        <5>3. y \in S /\ n \in S
          BY <5>1 DEF Sources
        <5> QED
          BY <2>2, <3>1, <5>1, <5>2, <5>3
      <4> QED
        BY <4>1, <4>2 DEF Sources
    <3>3. g[<<x, y>>] = [g[<<x + 1, y>>] EXCEPT ![pos] = a[x]]
      BY <1>2, <2>1, <2>3 DEF Filled
    <3>4. /\ x + 1 \in start1..start2
          /\ (start2 - (x + 1)) + (end + 1 - y) = k
          /\ x + 1 + y - start2 = pos + 1
      BY <1>1, <2>1, <3>1
    <3>5. Sources(start2, end, x + 1, y) = S \ {x}
      BY <1>1, <2>1, <3>1 DEF Sources
    <3>6. Good(x + 1, y)
      BY <1>4, <3>4
    <3>7. Joined(a, end, pos + 1, S \ {x}, g[<<x + 1, y>>])
      BY <3>4, <3>5, <3>6
    <3> HIDE DEF S, pos
    <3>8. Joined(a, end, pos, S, g[<<x, y>>])
      BY <2>1, <3>1, <3>2, <3>3, <3>7, TakeOne
    <3> QED
      BY <3>8 DEF S, pos
  <2>4. CASE ~Left(a, start2, end, x, y)
    <3>1. y <= end /\ y \in S
      BY <1>1, <2>1, <2>4 DEF Left, Sources
    <3>2. \A n \in S : a[y] <= a[n]
      <4>1. \A n \in y..end : a[y] <= a[n]
        BY <1>1, <2>1, <3>1 DEF MergeInput, Ordered
      <4>2. \A n \in x..(start2 - 1) : a[y] <= a[n]
        <5> SUFFICES ASSUME NEW n \in x..(start2 - 1) PROVE a[y] <= a[n]
          OBVIOUS
        <5>1. x < start2 /\ x \in x..(start2 - 1)
          BY <1>1, <2>1
        <5>2. a[x] <= a[n]
          BY <1>1, <2>1, <5>1 DEF MergeInput, Ordered
        <5>3. x \in S /\ n \in S
          BY <5>1 DEF Sources
        <5>4. ~(a[x] <= a[y])
          BY <2>4, <5>1 DEF Left
        <5> QED
          BY <2>2, <3>1, <5>2, <5>3, <5>4
      <4> QED
        BY <4>1, <4>2 DEF Sources
    <3>3. g[<<x, y>>] = [g[<<x, y + 1>>] EXCEPT ![pos] = a[y]]
      BY <1>2, <2>1, <2>4 DEF Filled
    <3>4. /\ y + 1 \in start2..(end + 1)
          /\ (start2 - x) + (end + 1 - (y + 1)) = k
          /\ x + (y + 1) - start2 = pos + 1
      BY <1>1, <2>1, <3>1
    <3>5. Sources(start2, end, x, y + 1) = S \ {y}
      BY <1>1, <2>1, <3>1 DEF Sources
    <3>6. Good(x, y + 1)
      BY <1>4, <3>4
    <3>7. Joined(a, end, pos + 1, S \ {y}, g[<<x, y + 1>>])
      BY <3>4, <3>5, <3>6
    <3> HIDE DEF S, pos
    <3>8. Joined(a, end, pos, S, g[<<x, y>>])
      BY <2>1, <3>1, <3>2, <3>3, <3>7, TakeOne
    <3> QED
      BY <3>8 DEF S, pos
  <2> QED
    BY <2>3, <2>4
<1>5. Nat \subseteq T
  <2> HIDE DEF T
  <2> QED
    BY <1>3, <1>4, SetInduction
<1>6. Good(start1, start2)
  <2>1. (start2 - start1) + (end + 1 - start2) \in Nat
    BY <1>1
  <2>2. start1 \in start1..start2 /\ start2 \in start2..(end + 1)
    BY <1>1
  <2> QED
    BY <1>5, <2>1, <2>2
<1>7. Sources(start2, end, start1, start2) = start1..end
    BY <1>1 DEF Sources
<1>8. start1 + start2 - start2 = start1
    BY <1>1
<1> QED
    BY <1>2, <1>6, <1>7, <1>8

\* merge loses and gains nothing.
LEMMA MergeCounts ==
    ASSUME NEW a, NEW start1, NEW start2, NEW end,
           MergeInput(a, start1, start2, end), NEW v
    PROVE  Count(Merged(a, start1, start2, end), v) = Count(a, v)
<1> DEFINE s == Merged(a, start1, start2, end)
           I == start1..end
           O == {n \in DOMAIN a \ I : a[n] = v}
           M == {n \in I : s[n] = v}
           N == {n \in I : a[n] = v}
<1>1. Joined(a, end, start1, I, s)
    BY MergeJoins
<1> HIDE DEF s
<1>2. I \subseteq DOMAIN a /\ DOMAIN s = DOMAIN a /\ IsFiniteSet(DOMAIN a)
      /\ \A n \in DOMAIN a \ I : s[n] = a[n]
    BY <1>1 DEF Joined, MergeInput
<1>3. /\ {n \in DOMAIN s : s[n] = v} = M \cup O
      /\ {n \in DOMAIN a : a[n] = v} = N \cup O
      /\ M \cap O = {} /\ N \cap O = {}
  <2> HIDE DEF I
  <2> QED
    BY <1>2
<1>4. IsFiniteSet(M) /\ IsFiniteSet(N) /\ IsFiniteSet(O)
  <2>1. M \subseteq DOMAIN a /\ N \subseteq DOMAIN a /\ O \subseteq DOMAIN a
    BY <1>2
  <2> HIDE DEF M, N, O
  <2> QED
    BY <1>2, <2>1, FS_Subset
<1>5. Cardinality(M) = Cardinality(N)
    BY <1>1 DEF Joined
<1> HIDE DEF M, N, O
<1>6. Cardinality({}) = 0
    BY FS_EmptySet
<1>7. Cardinality(M \cup O) = Cardinality(M) + Cardinality(O) - 0
    BY <1>3, <1>4, <1>6, FS_Union
<1>8. Cardinality(N \cup O) = Cardinality(N) + Cardinality(O) - 0
    BY <1>3, <1>4, <1>6, FS_Union
<1> QED
    BY <1>3, <1>5, <1>7, <1>8 DEF Count, s

----------------------------------------------------------------------------
(* The invariant.                                                          *)

\* What is passed has at least one element.
SizeInv == \E size \in 1..MaxSize : DOMAIN given = 0..(size - 1)

\* The part of the block that is a heap already, from the last parent up.
BuildInv(t) ==
    tpc[t] = "build" =>
       /\ cur[t] \in -1..(block_length - 1)
       /\ \A c \in 1..(block_length - 1) :
            Parent(c) > cur[t] => nums[Base(t) + Parent(c)] >= nums[Base(t) + c]

\* A heap of the smaller elements, then the greater ones in order.
SortInv(t) ==
    tpc[t] = "sort" =>
       /\ cur[t] \in -1..(block_length - 1)
       /\ block_length > 0 => cur[t] >= 0
       /\ \A c \in 1..cur[t] : nums[Base(t) + Parent(c)] >= nums[Base(t) + c]
       /\ Ordered(nums, Base(t) + cur[t] + 1, Base(t) + block_length - 1)
       /\ cur[t] < block_length - 1 =>
            \A m \in 0..cur[t] : nums[Base(t) + m] <= nums[Base(t) + cur[t] + 1]

\* A block is in order when its thread comes to the barrier.
DoneInv(t) ==
    tpc[t] = "barrier" /\ mpc = "create" =>
       Ordered(nums, Base(t), Base(t) + block_length - 1)

\* What is so of a thread and its block.
ThreadInv(t) == BuildInv(t) /\ SortInv(t) /\ DoneInv(t)

\* The caller merges when every thread has come to the barrier.
PhaseInv == mpc # "create" => \A t \in Threads : tpc[t] = "barrier"

\* The array is a permutation of what was passed.
CountInv == \A v : Count(nums, v) = Count(given, v)

\* How far the merging is: nothing, one block of two, two, and, if there is
\* an element behind the blocks, that one too.
MergeInv ==
    mpc = "merge" =>
       \/ gap = length /\ i = 0 /\ Ordered(nums, 0, length - 1)
       \/ gap = 0 /\ i = 0 /\ length = 1
       \/ /\ gap = block_length /\ i = 0 /\ gap > 0 /\ Turn = 2
          /\ Ordered(nums, 0, block_length - 1)
          /\ Ordered(nums, block_length, 2 * block_length - 1)
       \/ /\ gap = block_length /\ i = 2 * block_length /\ gap > 0 /\ Turn = 2
          /\ Ordered(nums, 0, 2 * block_length - 1)
       \/ /\ gap = 2 * block_length /\ i = 0 /\ gap > 0 /\ Turn = 2
          /\ Ordered(nums, 0, 2 * block_length - 1)
       \/ /\ gap = 4 * block_length /\ i = 0 /\ gap >= length
          /\ Ordered(nums, 0, length - 1)

\* What is reported is in order.
ReportInv == mpc = "report" => Ordered(nums, 0, length - 1)

\* All of it: the invariant that is inductive.
SortedInv ==
    /\ TypeOK /\ SizeInv
    /\ \A t \in Threads : ThreadInv(t)
    /\ PhaseInv /\ CountInv /\ MergeInv /\ ReportInv

\* The array begins at 0, and the blocks leave at most one element.
LEMMA Sizes ==
    ASSUME TypeOK, SizeInv
    PROVE  /\ length \in 1..MaxSize /\ DOMAIN nums = 0..(length - 1)
           /\ IsFiniteSet(DOMAIN nums) /\ DOMAIN given = DOMAIN nums
           /\ block_length \in Nat /\ block_length <= length
           /\ Turn = 1 => block_length = length
           /\ Turn = 2 => length \in {2 * block_length, 2 * block_length + 1}
           /\ \A t \in Threads : Base(t) \in Nat
                                 /\ Base(t) + block_length <= length
                                 /\ (t = 0 => Base(t) = 0)
                                 /\ (t = 1 => Base(t) = block_length)
           /\ Threads = 0..(Turn - 1) /\ Turn \in {1, 2}
<1>1. PICK size \in 1..MaxSize : DOMAIN given = 0..(size - 1)
    BY DEF SizeInv
<1>2. DOMAIN nums = DOMAIN given
    BY DEF TypeOK
<1>3. size \in Nat /\ size > 0 /\ MaxSize \in Nat
    BY TimeStatAssumption
<1>4. IsFiniteSet(0..(size - 1)) /\ Cardinality(0..(size - 1)) = size
  <2>1. 0 \in Int /\ size - 1 \in Int
    BY <1>3
  <2>2. /\ IsFiniteSet(0..(size - 1))
        /\ Cardinality(0..(size - 1)) =
             IF 0 > size - 1 THEN 0 ELSE (size - 1) - 0 + 1
    BY <2>1, FS_Interval
  <2> QED
    BY <1>3, <2>2
<1>5. length = size
    BY <1>1, <1>2, <1>4 DEF length
<1>6. block_length = size \div Turn
    BY <1>5 DEF block_length
<1>7. /\ block_length \in Nat /\ block_length <= size
      /\ Turn = 1 => block_length = size
      /\ Turn = 2 => size \in {2 * block_length, 2 * block_length + 1}
    BY <1>3, <1>6, TimeStatAssumption
<1>8. ASSUME NEW t \in Threads
      PROVE  /\ Base(t) \in Nat /\ Base(t) + block_length <= size
             /\ t = 0 => Base(t) = 0
             /\ t = 1 => Base(t) = block_length
  <2>1. t = 0 \/ (t = 1 /\ Turn = 2)
    BY TimeStatAssumption DEF Threads
  <2>2. CASE t = 0
    BY <1>3, <1>7, <2>2 DEF Base
  <2>3. CASE t = 1 /\ Turn = 2
    BY <1>3, <1>7, <2>3 DEF Base
  <2> QED
    BY <2>1, <2>2, <2>3
<1> QED
    BY <1>1, <1>2, <1>4, <1>5, <1>7, <1>8, TimeStatAssumption DEF Threads

\* A step that keeps the domain of the array keeps its blocks.
LEMMA SameBlocks ==
    ASSUME DOMAIN nums' = DOMAIN nums
    PROVE  /\ length' = length /\ block_length' = block_length
           /\ \A t : Base(t)' = Base(t)
BY DEF length, block_length, Base

\* What happens outside of a block does not matter to its thread.
LEMMA ElsewhereKeeps ==
    ASSUME TypeOK, SizeInv, NEW t \in Threads, ThreadInv(t),
           DOMAIN nums' = DOMAIN nums, tpc'[t] = tpc[t], cur'[t] = cur[t],
           mpc' = mpc,
           \A n \in Base(t)..(Base(t) + block_length - 1) : nums'[n] = nums[n]
    PROVE  ThreadInv(t)'
<1> DEFINE b == Base(t)
           bl == block_length
           j == cur[t]
<1>1. b \in Nat /\ bl \in Nat /\ Base(t)' = b /\ block_length' = bl
    BY Sizes, SameBlocks
<1>2. \A n \in b..(b + bl - 1) : nums'[n] = nums[n]
    OBVIOUS
<1> HIDE DEF b, bl
<1>3. ASSUME NEW lo \in Nat, NEW hi \in Int, lo >= b, hi <= b + bl - 1,
             Ordered(nums, lo, hi)
      PROVE  Ordered(nums', lo, hi)
  <2>1. \A n \in lo..hi : nums'[n] = nums[n]
    BY <1>1, <1>2, <1>3
  <2> QED
    BY <1>3, <2>1 DEF Ordered
<1>4. BuildInv(t)'
  <2> SUFFICES ASSUME tpc[t] = "build"
               PROVE  /\ j \in -1..(bl - 1)
                      /\ \A c \in 1..(bl - 1) : Parent(c) > j =>
                           nums'[b + Parent(c)] >= nums'[b + c]
    BY <1>1 DEF BuildInv
  <2>1. /\ j \in -1..(bl - 1)
        /\ \A c \in 1..(bl - 1) : Parent(c) > j =>
             nums[b + Parent(c)] >= nums[b + c]
    BY DEF ThreadInv, BuildInv, b, bl
  <2>2. \A c \in 1..(bl - 1) : /\ nums'[b + c] = nums[b + c]
                               /\ nums'[b + Parent(c)] = nums[b + Parent(c)]
    <3> TAKE c \in 1..(bl - 1)
    <3>1. Parent(c) \in Nat /\ Parent(c) < c
      BY ParentIs
    <3> QED
      BY <1>1, <1>2, <3>1
  <2> QED
    BY <2>1, <2>2
<1>5. SortInv(t)'
  <2> SUFFICES ASSUME tpc[t] = "sort"
               PROVE  /\ j \in -1..(bl - 1)
                      /\ bl > 0 => j >= 0
                      /\ \A c \in 1..j : nums'[b + Parent(c)] >= nums'[b + c]
                      /\ Ordered(nums', b + j + 1, b + bl - 1)
                      /\ j < bl - 1 =>
                           \A m \in 0..j : nums'[b + m] <= nums'[b + j + 1]
    BY <1>1 DEF SortInv
  <2>1. /\ j \in -1..(bl - 1)
        /\ bl > 0 => j >= 0
        /\ \A c \in 1..j : nums[b + Parent(c)] >= nums[b + c]
        /\ Ordered(nums, b + j + 1, b + bl - 1)
        /\ j < bl - 1 => \A m \in 0..j : nums[b + m] <= nums[b + j + 1]
    BY DEF ThreadInv, SortInv, b, bl
  <2> HIDE DEF j
  <2>2. \A c \in 1..j : /\ nums'[b + c] = nums[b + c]
                        /\ nums'[b + Parent(c)] = nums[b + Parent(c)]
    <3> TAKE c \in 1..j
    <3>1. Parent(c) \in Nat /\ Parent(c) < c
      BY ParentIs, <2>1
    <3> QED
      BY <1>1, <1>2, <2>1, <3>1
  <2>3. Ordered(nums', b + j + 1, b + bl - 1)
    BY <1>1, <1>3, <2>1
  <2>4. j < bl - 1 => /\ nums'[b + j + 1] = nums[b + j + 1]
                      /\ \A m \in 0..j : nums'[b + m] = nums[b + m]
    <3>1. j < bl - 1 => /\ b + j + 1 \in b..(b + bl - 1)
                        /\ \A m \in 0..j : b + m \in b..(b + bl - 1)
      BY <1>1, <2>1
    <3> QED
      BY <1>2, <3>1
  <2> QED
    BY <2>1, <2>2, <2>3, <2>4
<1>6. DoneInv(t)'
  <2> SUFFICES ASSUME tpc[t] = "barrier", mpc = "create"
               PROVE  Ordered(nums', b, b + bl - 1)
    BY <1>1 DEF DoneInv
  <2>1. Ordered(nums, b, b + bl - 1)
    BY DEF ThreadInv, DoneInv, b, bl
  <2> QED
    BY <1>1, <1>3, <2>1
<1> QED
    BY <1>4, <1>5, <1>6 DEF ThreadInv

\* The threads run while the caller is not past the barrier.
LEMMA ThreadBeforeBarrier ==
    ASSUME SortedInv, NEW t \in Threads, tpc[t] \in {"build", "sort"}
    PROVE  mpc = "create"
BY DEF SortedInv, PhaseInv

\* A step of a thread that permutes its block keeps what is said of the rest.
LEMMA ThreadKeeps ==
    ASSUME SortedInv, NEW t \in Threads, tpc[t] \in {"build", "sort"},
           nums' \in [DOMAIN nums -> Values],
           \A n \in DOMAIN nums :
              ~(Base(t) <= n /\ n <= Base(t) + block_length - 1)
                => nums'[n] = nums[n],
           \A v : Count(nums', v) = Count(nums, v),
           NEW pc \in {"build", "sort", "barrier"},
           tpc' = [tpc EXCEPT ![t] = pc],
           NEW c \in -1..MaxSize, cur' = [cur EXCEPT ![t] = c],
           UNCHANGED <<given, mpc, next, gap, i>>,
           ThreadInv(t)'
    PROVE  SortedInv'
<1>1. TypeOK /\ SizeInv /\ mpc = "create"
    BY ThreadBeforeBarrier DEF SortedInv
<1>2. DOMAIN nums' = DOMAIN nums /\ DOMAIN nums = DOMAIN given
    BY <1>1 DEF TypeOK
<1>3. length' = length
    BY <1>2, SameBlocks
<1>4. TypeOK'
    BY <1>1, <1>2, <1>3 DEF TypeOK
<1>5. SizeInv'
    BY <1>1 DEF SizeInv
<1>6. ASSUME NEW u \in Threads PROVE ThreadInv(u)'
  <2>1. CASE u = t
    BY <2>1
  <2>2. CASE u # t
    <3>1. tpc'[u] = tpc[u] /\ cur'[u] = cur[u]
      BY <1>1, <2>2 DEF TypeOK
    <3>2. \A n \in Base(u)..(Base(u) + block_length - 1) :
             /\ n \in DOMAIN nums
             /\ ~(Base(t) <= n /\ n <= Base(t) + block_length - 1)
      <4>1. /\ Base(u) \in Nat /\ block_length \in Nat /\ Base(t) \in Nat
            /\ Base(u) + block_length <= length
            /\ DOMAIN nums = 0..(length - 1) /\ length \in Nat
            /\ Base(u) + block_length <= Base(t)
               \/ Base(t) + block_length <= Base(u)
        <5>1. u \in {0, 1} /\ t \in {0, 1}
          BY <1>1, Sizes
        <5> QED
          BY <1>1, <2>2, <5>1, Sizes
      <4> QED
        BY <4>1
    <3>3. \A n \in Base(u)..(Base(u) + block_length - 1) : nums'[n] = nums[n]
      BY <3>2
    <3>4. ThreadInv(u)
      BY DEF SortedInv
    <3> QED
      BY <1>1, <1>2, <3>1, <3>3, <3>4, ElsewhereKeeps
  <2> QED
    BY <2>1, <2>2
<1>7. (PhaseInv /\ MergeInv /\ ReportInv)'
    BY <1>1 DEF PhaseInv, MergeInv, ReportInv
<1>8. CountInv'
    BY DEF SortedInv, CountInv
<1>9. Threads' = Threads
    BY DEF Threads
<1> QED
    BY <1>4, <1>5, <1>6, <1>7, <1>8, <1>9 DEF SortedInv

\* A parent sinks into the heap behind it.
LEMMA BuildHeapStep ==
    ASSUME SortedInv, NEW t \in Threads, BuildHeap(t)
    PROVE  /\ SortedInv'
           /\ \A n \in DOMAIN nums : nums'[n] # nums[n] =>
                n \in Base(t)..(Base(t) + block_length - 1)
<1> DEFINE b == Base(t)
           bl == block_length
           j == cur[t]
<1>1. /\ TypeOK /\ SizeInv /\ tpc[t] = "build" /\ ThreadInv(t)
      /\ UNCHANGED <<given, mpc, next, gap, i>>
    BY DEF SortedInv, BuildHeap
<1>2. /\ b \in Nat /\ bl \in Nat /\ b + bl <= length /\ bl <= length
      /\ DOMAIN nums = 0..(length - 1) /\ length \in 1..MaxSize
      /\ IsFiniteSet(DOMAIN nums) /\ MaxSize \in Nat
    BY <1>1, Sizes, TimeStatAssumption
<1>3. /\ j \in -1..(bl - 1)
      /\ \A c \in 1..(bl - 1) : Parent(c) > j =>
           nums[b + Parent(c)] >= nums[b + c]
    BY <1>1 DEF ThreadInv, BuildInv
<1>4. nums \in [DOMAIN nums -> Values]
    BY <1>1 DEF TypeOK
<1>5. CASE j >= 0
  <2>1. /\ nums' = Adjust(nums, b, j, bl)
        /\ cur' = [cur EXCEPT ![t] = j - 1] /\ tpc' = tpc
    BY <1>5 DEF BuildHeap
  <2> HIDE DEF b, bl, j
  <2>2. SinkInput(nums, b, bl, j)
    BY <1>2, <1>3, <1>4, <1>5 DEF SinkInput
  <2>3. Heaped(nums, b, bl, j, nums')
    BY <2>1, <2>2, AdjustHeaps
  <2>4. /\ nums' \in [DOMAIN nums -> Values]
        /\ \A n \in DOMAIN nums :
             ~(b <= n /\ n <= b + bl - 1) => nums'[n] = nums[n]
        /\ \A v : Count(nums', v) = Count(nums, v)
        /\ \A c \in 1..(bl - 1) : Parent(c) >= j =>
             nums'[b + Parent(c)] >= nums'[b + c]
    BY <1>2, <1>3, <1>5, <2>3 DEF Heaped
  <2>5. j - 1 \in -1..MaxSize /\ j - 1 \in -1..(bl - 1)
    BY <1>2, <1>3, <1>5
  <2>6. DOMAIN nums' = DOMAIN nums /\ Base(t)' = b /\ block_length' = bl
    BY <2>4, SameBlocks DEF b, bl
  <2>7. /\ tpc'[t] = "build" /\ cur'[t] = j - 1
        /\ tpc' = [tpc EXCEPT ![t] = "build"]
    BY <1>1, <2>1 DEF TypeOK
  <2>8. BuildInv(t)'
    <3>1. \A c \in 1..(bl - 1) : Parent(c) > j - 1 => Parent(c) >= j
      <4> TAKE c \in 1..(bl - 1)
      <4>1. Parent(c) \in Nat /\ j \in Int
        BY <1>3, ParentIs
      <4> QED
        BY <4>1
    <3> QED
      BY <2>4, <2>5, <2>6, <2>7, <3>1 DEF BuildInv
  <2>9. ThreadInv(t)'
    BY <2>7, <2>8 DEF ThreadInv, SortInv, DoneInv
  <2>10. SortedInv'
    BY <1>1, <2>1, <2>4, <2>5, <2>7, <2>9, ThreadKeeps DEF b, bl
  <2> QED
    BY <1>2, <2>4, <2>10 DEF b, bl
<1>6. CASE ~(j >= 0)
  <2>1. /\ tpc' = [tpc EXCEPT ![t] = "sort"]
        /\ cur' = [cur EXCEPT ![t] = bl - 1] /\ nums' = nums
    BY <1>6 DEF BuildHeap
  <2>2. Base(t)' = b /\ block_length' = bl
    BY <2>1, SameBlocks
  <2>3. tpc'[t] = "sort" /\ cur'[t] = bl - 1
    BY <1>1, <2>1 DEF TypeOK
  <2> HIDE DEF b, bl, j
  <2>4. j = -1
    BY <1>3, <1>6
  <2>5. \A c \in 1..(bl - 1) : nums[b + Parent(c)] >= nums[b + c]
    <3> TAKE c \in 1..(bl - 1)
    <3>1. Parent(c) \in Nat
      BY ParentIs
    <3> QED
      BY <1>3, <2>4, <3>1
  <2>6. SortInv(t)'
    <3>1. Ordered(nums, b + (bl - 1) + 1, b + bl - 1)
      BY <1>2 DEF Ordered
    <3> QED
      BY <1>2, <2>1, <2>2, <2>3, <2>5, <3>1 DEF SortInv
  <2>7. ThreadInv(t)'
    BY <2>3, <2>6 DEF ThreadInv, BuildInv, DoneInv
  <2>8. bl - 1 \in -1..MaxSize
    BY <1>2
  <2>9. SortedInv'
    BY <1>1, <1>4, <2>1, <2>7, <2>8, ThreadKeeps
  <2> QED
    BY <2>1, <2>9
<1> QED
    BY <1>5, <1>6

\* The root of a heap is its greatest element.
LEMMA RootGreatest ==
    ASSUME NEW a, NEW b \in Nat, NEW n \in Nat,
           \A m \in 0..n : a[b + m] \in Nat,
           \A c \in 1..n : a[b + Parent(c)] >= a[b + c]
    PROVE  \A m \in 0..n : a[b] >= a[b + m]
<1> DEFINE T == {m \in Nat : m <= n /\ ~(a[b] >= a[b + m])}
<1> SUFFICES ASSUME T # {} PROVE FALSE
  <2>1. \A m \in 0..n : m \in Nat /\ m <= n
    OBVIOUS
  <2> QED
    BY <2>1
<1>1. PICK m \in T : \A k \in T : m <= k
    BY LeastNumber
<1>2. /\ m \in 0..n /\ ~(a[b] >= a[b + m]) /\ a[b + m] \in Nat
      /\ a[b] \in Nat /\ b + 0 = b
    BY <1>1
<1>3. m # 0
    BY <1>2
<1>4. Parent(m) \in Nat /\ Parent(m) < m /\ m \in 1..n
    BY <1>2, <1>3, ParentIs
<1>5. a[b] >= a[b + Parent(m)] /\ a[b + Parent(m)] \in Nat
    BY <1>1, <1>2, <1>4
<1> QED
    BY <1>2, <1>4, <1>5

\* The root and the end of the heap change places.
LEMMA SwapKeeps ==
    ASSUME NEW a, IsFiniteSet(DOMAIN a), a \in [DOMAIN a -> Values],
           NEW m \in DOMAIN a, NEW n \in DOMAIN a, m # n,
           NEW s \in [DOMAIN a -> Values], s[m] = a[n], s[n] = a[m],
           \A d \in DOMAIN a : d # m /\ d # n => s[d] = a[d]
    PROVE  \A v : Count(s, v) = Count(a, v)
<1> DEFINE r == [a EXCEPT ![m] = a[n]]
<1>1. s = [r EXCEPT ![n] = a[m]]
    OBVIOUS
<1>2. /\ r \in [DOMAIN a -> Values] /\ DOMAIN r = DOMAIN a
      /\ r[n] = a[n] /\ r[m] = a[n]
      /\ \A d \in DOMAIN a : d # m => r[d] = a[d]
    OBVIOUS
<1>3. ASSUME NEW v PROVE Count(s, v) = Count(a, v)
  <2>1. a \in [DOMAIN a -> Nat] /\ a[n] \in Nat /\ a[m] \in Nat
    BY TimeStatAssumption
  <2>2. /\ Count(a, v) \in Nat
        /\ Count(r, v) = Count(a, v) - Is(a[m], v) + Is(a[n], v)
    BY <2>1, CountChange
  <2>3. r \in [DOMAIN r -> Nat] /\ IsFiniteSet(DOMAIN r) /\ n \in DOMAIN r
    BY <1>2, TimeStatAssumption
  <2> HIDE DEF r
  <2>4. Count([r EXCEPT ![n] = a[m]], v)
          = Count(r, v) - Is(r[n], v) + Is(a[m], v)
    BY <2>1, <2>3, CountChange
  <2>5. Is(a[m], v) \in Nat /\ Is(a[n], v) \in Nat
    BY DEF Is
  <2>6. Count(s, v) = Count(r, v) - Is(a[n], v) + Is(a[m], v)
    BY <1>1, <1>2, <2>4
  <2> QED
    BY <2>2, <2>5, <2>6
<1> QED
    BY <1>3

\* The greatest element goes behind the heap, and the heap is mended.
LEMMA SortBlockStep ==
    ASSUME SortedInv, NEW t \in Threads, SortBlock(t)
    PROVE  /\ SortedInv'
           /\ \A n \in DOMAIN nums : nums'[n] # nums[n] =>
                n \in Base(t)..(Base(t) + block_length - 1)
<1> DEFINE b == Base(t)
           bl == block_length
           j == cur[t]
<1>1. /\ TypeOK /\ SizeInv /\ tpc[t] = "sort" /\ ThreadInv(t)
      /\ UNCHANGED <<given, mpc, next, gap, i>>
    BY DEF SortedInv, SortBlock
<1>2. /\ b \in Nat /\ bl \in Nat /\ b + bl <= length /\ bl <= length
      /\ DOMAIN nums = 0..(length - 1) /\ length \in 1..MaxSize
      /\ IsFiniteSet(DOMAIN nums) /\ MaxSize \in Nat
    BY <1>1, Sizes, TimeStatAssumption
<1>3. /\ j \in -1..(bl - 1) /\ (bl > 0 => j >= 0)
      /\ \A c \in 1..j : nums[b + Parent(c)] >= nums[b + c]
      /\ Ordered(nums, b + j + 1, b + bl - 1)
      /\ j < bl - 1 => \A m \in 0..j : nums[b + m] <= nums[b + j + 1]
    BY <1>1 DEF ThreadInv, SortInv
<1>4. nums \in [DOMAIN nums -> Values]
    BY <1>1 DEF TypeOK
<1>5. \A m \in 0..(bl - 1) : b + m \in DOMAIN nums /\ nums[b + m] \in Nat
  <2> HIDE DEF b, bl
  <2>1. TAKE m \in 0..(bl - 1)
  <2>2. b + m \in DOMAIN nums
    BY <1>2
  <2> QED
    BY <1>4, <2>2, TimeStatAssumption
<1>6. CASE j > 0
  <2> DEFINE s == [nums EXCEPT ![b] = nums[b + j], ![b + j] = nums[b]]
  <2>1. /\ nums' = Adjust(s, b, 0, j)
        /\ cur' = [cur EXCEPT ![t] = j - 1] /\ tpc' = tpc
    BY <1>6 DEF SortBlock
  <2> HIDE DEF b, bl, j
  <2>2. /\ b \in DOMAIN nums /\ b + j \in DOMAIN nums /\ b # b + j
        /\ j \in Nat /\ j <= bl - 1 /\ b + 0 = b
    BY <1>2, <1>3, <1>5, <1>6
  <2>3. /\ s \in [DOMAIN nums -> Values] /\ s[b] = nums[b + j]
        /\ s[b + j] = nums[b]
        /\ \A d \in DOMAIN nums : d # b /\ d # b + j => s[d] = nums[d]
        /\ \A v : Count(s, v) = Count(nums, v)
    <3>1. /\ s \in [DOMAIN nums -> Values] /\ s[b] = nums[b + j]
          /\ s[b + j] = nums[b]
          /\ \A d \in DOMAIN nums : d # b /\ d # b + j => s[d] = nums[d]
      BY <1>4, <2>2
    <3> HIDE DEF s
    <3> QED
      BY <1>2, <1>4, <2>2, <3>1, SwapKeeps
  <2> HIDE DEF s
  <2>4. DOMAIN s = DOMAIN nums
    BY <2>3
  <2>5. \A m \in 1..(j - 1) : s[b + m] = nums[b + m]
    <3> TAKE m \in 1..(j - 1)
    <3>1. b + m \in DOMAIN nums /\ b + m # b /\ b + m # b + j
      BY <1>2, <1>5, <2>2
    <3> QED
      BY <2>3, <3>1
  <2>6. SinkInput(s, b, j, 0)
    <3>1. \A c \in 1..(j - 1) :
             Parent(c) > 0 => s[b + Parent(c)] >= s[b + c]
      <4> TAKE c \in 1..(j - 1)
      <4>1. Parent(c) \in Nat /\ Parent(c) < c /\ c \in 1..j
        BY <2>2, ParentIs
      <4>2. Parent(c) > 0 => Parent(c) \in 1..(j - 1)
        BY <2>2, <4>1
      <4> QED
        BY <1>3, <2>5, <4>1, <4>2
    <3>2. \A m \in 0..(j - 1) : b + m \in DOMAIN s
      BY <1>5, <2>2, <2>4, <1>2
    <3>3. DOMAIN s \subseteq Int /\ 0 \in 0..(j - 1)
      BY <1>2, <1>6, <2>2, <2>4
    <3> QED
      BY <1>2, <2>2, <2>3, <2>4, <3>1, <3>2, <3>3 DEF SinkInput
  <2>7. Heaped(s, b, j, 0, nums')
    BY <2>1, <2>6, AdjustHeaps
  <2>8. /\ nums' \in [DOMAIN nums -> Values]
        /\ \A d \in DOMAIN nums :
             ~(b <= d /\ d <= b + j - 1) => nums'[d] = s[d]
        /\ \A m \in 0..(j - 1) : \E k \in 0..(j - 1) : nums'[b + m] = s[b + k]
        /\ \A c \in 1..(j - 1) : nums'[b + Parent(c)] >= nums'[b + c]
        /\ \A v : Count(nums', v) = Count(nums, v)
    <3>1. \A c \in 1..(j - 1) : Parent(c) >= 0
      BY ParentIs, <2>2
    <3>2. b + 0 = b
      BY <1>2
    <3> QED
      BY <2>3, <2>4, <2>7, <3>1, <3>2 DEF Heaped
  <2>9. \A d \in DOMAIN nums :
           ~(b <= d /\ d <= b + bl - 1) => nums'[d] = nums[d]
    <3> TAKE d \in DOMAIN nums
    <3>1. ~(b <= d /\ d <= b + bl - 1) =>
             ~(b <= d /\ d <= b + j - 1) /\ d # b /\ d # b + j
      BY <1>2, <2>2
    <3> QED
      BY <2>3, <2>8, <3>1
  <2>10. nums'[b + j] = nums[b]
    <3>1. ~(b + j <= b + j - 1)
      BY <1>2, <2>2
    <3> QED
      BY <2>2, <2>3, <2>8, <3>1
  <2>11. \A d \in (b + j + 1)..(b + bl - 1) : nums'[d] = nums[d]
    <3> TAKE d \in (b + j + 1)..(b + bl - 1)
    <3>1. /\ d \in DOMAIN nums /\ d # b /\ d # b + j
          /\ ~(b <= d /\ d <= b + j - 1)
      BY <1>2, <2>2
    <3> QED
      BY <2>3, <2>8, <3>1
  <2>12. \A m \in 0..j : nums[b] >= nums[b + m]
    <3>1. \A m \in 0..j : nums[b + m] \in Nat
      BY <1>2, <1>5, <2>2
    <3> QED
      BY <1>2, <1>3, <2>2, <3>1, RootGreatest
  <2>13. \A m \in 0..(j - 1) : nums'[b + m] <= nums'[b + j]
    <3> TAKE m \in 0..(j - 1)
    <3>1. PICK k \in 0..(j - 1) : nums'[b + m] = s[b + k]
      BY <2>8
    <3>2. \E n \in 0..j : s[b + k] = nums[b + n]
      <4>1. CASE k = 0
        BY <2>2, <2>3, <4>1
      <4>2. CASE k # 0
        <5>1. k \in 1..(j - 1) /\ k \in 0..j
          BY <2>2, <4>2
        <5> QED
          BY <2>5, <5>1
      <4> QED
        BY <4>1, <4>2
    <3>3. PICK n \in 0..j : nums'[b + m] = nums[b + n]
      BY <3>1, <3>2
    <3>4. n \in 0..(bl - 1) /\ 0 \in 0..(bl - 1)
      BY <1>2, <2>2
    <3>5. nums[b + n] \in Nat /\ nums[b] \in Nat
      BY <1>5, <2>2, <3>4
    <3>6. nums[b] >= nums[b + n]
      BY <2>12
    <3> QED
      BY <2>10, <3>3, <3>5, <3>6
  <2>14. Ordered(nums', b + (j - 1) + 1, b + bl - 1)
    <3> SUFFICES ASSUME NEW m \in (b + j)..(b + bl - 1),
                        NEW n \in (b + j)..(b + bl - 1), m <= n
                 PROVE  nums'[m] <= nums'[n]
      BY <1>2, <2>2 DEF Ordered
    <3>1. CASE m = b + j /\ n = b + j
      <4>1. nums[b] \in Nat
        BY <1>4, <2>2, TimeStatAssumption
      <4> QED
        BY <2>10, <3>1, <4>1
    <3>2. CASE m = b + j /\ n # b + j
      <4>1. n \in (b + j + 1)..(b + bl - 1) /\ j < bl - 1
            /\ b + j + 1 \in (b + j + 1)..(b + bl - 1) /\ b + j + 1 <= n
        BY <1>2, <2>2, <3>2
      <4>2. nums[b] <= nums[b + j + 1]
        BY <1>3, <2>2, <4>1
      <4>3. nums[b + j + 1] <= nums[n]
        BY <1>3, <4>1 DEF Ordered
      <4>4. b + j + 1 \in DOMAIN nums /\ n \in DOMAIN nums
        BY <1>2, <2>2, <4>1
      <4>5. nums[b] \in Nat /\ nums[n] \in Nat /\ nums[b + j + 1] \in Nat
        BY <1>4, <2>2, <4>4, TimeStatAssumption
      <4> QED
        BY <2>10, <2>11, <3>2, <4>1, <4>2, <4>3, <4>5
    <3>3. CASE m # b + j
      <4>1. /\ m \in (b + j + 1)..(b + bl - 1)
            /\ n \in (b + j + 1)..(b + bl - 1)
        BY <1>2, <2>2, <3>3
      <4> QED
        BY <1>3, <2>11, <4>1 DEF Ordered
    <3> QED
      BY <3>1, <3>2, <3>3
  <2>15. DOMAIN nums' = DOMAIN nums /\ Base(t)' = b /\ block_length' = bl
    BY <2>8, SameBlocks DEF b, bl
  <2>16. /\ tpc'[t] = "sort" /\ cur'[t] = j - 1
         /\ tpc' = [tpc EXCEPT ![t] = "sort"]
    BY <1>1, <2>1 DEF TypeOK
  <2>17. SortInv(t)'
    <3>1. /\ j - 1 \in -1..(bl - 1) /\ j - 1 >= 0
          /\ b + (j - 1) + 1 = b + j
      BY <1>2, <1>6, <2>2
    <3> QED
      BY <2>8, <2>13, <2>14, <2>15, <2>16, <3>1 DEF SortInv
  <2>18. ThreadInv(t)'
    BY <2>16, <2>17 DEF ThreadInv, BuildInv, DoneInv
  <2>19. j - 1 \in -1..MaxSize
    BY <1>2, <2>2
  <2>20. SortedInv'
    BY <1>1, <2>1, <2>8, <2>9, <2>16, <2>18, <2>19, ThreadKeeps DEF b, bl
  <2> QED
    BY <1>2, <2>9, <2>20 DEF b, bl
<1>7. CASE ~(j > 0)
  <2>1. tpc' = [tpc EXCEPT ![t] = "barrier"] /\ cur' = cur /\ nums' = nums
    BY <1>7 DEF SortBlock
  <2>2. Base(t)' = b /\ block_length' = bl
    BY <2>1, SameBlocks
  <2>3. /\ tpc'[t] = "barrier" /\ cur' = [cur EXCEPT ![t] = j]
        /\ j \in -1..MaxSize
    BY <1>1, <2>1 DEF TypeOK
  <2> HIDE DEF b, bl, j
  <2>4. Ordered(nums, b, b + bl - 1)
    <3>1. CASE bl = 0
      BY <1>2, <3>1 DEF Ordered
    <3>2. CASE bl > 0
      <4>1. j = 0
        BY <1>3, <1>7, <3>2
      <4> SUFFICES ASSUME NEW m \in b..(b + bl - 1),
                          NEW n \in b..(b + bl - 1), m <= n
                   PROVE  nums[m] <= nums[n]
        BY DEF Ordered
      <4>2. /\ m \in DOMAIN nums /\ n \in DOMAIN nums
            /\ nums[m] \in Nat /\ nums[n] \in Nat
        <5>1. m \in DOMAIN nums /\ n \in DOMAIN nums
          BY <1>2
        <5> QED
          BY <1>4, <5>1, TimeStatAssumption
      <4>3. CASE m = n
        BY <4>2, <4>3
      <4>4. CASE m = b /\ m # n
        <5>1. /\ bl - 1 > 0 /\ n \in (b + 1)..(b + bl - 1)
              /\ b + 1 \in (b + 1)..(b + bl - 1) /\ b + 1 <= n
              /\ b + 1 \in DOMAIN nums
          BY <1>2, <4>4
        <5>2. nums[b] <= nums[b + 1]
          <6>1. 0 \in 0..j /\ b + 0 = b /\ b + j + 1 = b + 1
            BY <1>2, <4>1
          <6> QED
            BY <1>3, <4>1, <5>1, <6>1
        <5>3. nums[b + 1] <= nums[n]
          <6>1. b + j + 1 = b + 1
            BY <1>2, <4>1
          <6> QED
            BY <1>3, <5>1, <6>1 DEF Ordered
        <5>4. nums[b + 1] \in Nat
          BY <1>4, <5>1, TimeStatAssumption
        <5> QED
          BY <4>2, <4>4, <5>2, <5>3, <5>4
      <4>5. CASE m # b
        <5>1. /\ b + j + 1 = b + 1
              /\ m \in (b + 1)..(b + bl - 1) /\ n \in (b + 1)..(b + bl - 1)
          BY <1>2, <4>1, <4>5
        <5> QED
          BY <1>3, <5>1 DEF Ordered
      <4> QED
        BY <4>3, <4>4, <4>5
    <3> QED
      BY <1>2, <3>1, <3>2
  <2>5. DoneInv(t)'
    BY <2>1, <2>2, <2>4 DEF DoneInv
  <2>6. ThreadInv(t)'
    BY <2>3, <2>5 DEF ThreadInv, BuildInv, SortInv
  <2>7. SortedInv'
    BY <1>1, <1>4, <2>1, <2>3, <2>6, ThreadKeeps
  <2> QED
    BY <2>1, <2>7
<1> QED
    BY <1>6, <1>7

\* A thread is created, or is not.
LEMMA CreateThreadStep ==
    ASSUME SortedInv, CreateThread
    PROVE  SortedInv'
<1>1. /\ TypeOK /\ SizeInv /\ mpc = "create" /\ next < Turn /\ nums' = nums
      /\ UNCHANGED <<given, mpc, gap, i>> /\ next' = next + 1
    BY DEF SortedInv, CreateThread
<1>2. /\ length \in 1..MaxSize /\ MaxSize \in Nat /\ block_length \in Nat
      /\ block_length <= length /\ next \in Threads /\ Turn \in Nat
    BY <1>1, Sizes, TimeStatAssumption DEF TypeOK, Threads
<1>3. length' = length /\ block_length' = block_length
      /\ \A t : Base(t)' = Base(t)
    BY <1>1, SameBlocks
<1> DEFINE bl == block_length
           start == IF bl = 0 THEN -1
                    ELSE IF bl = 1 THEN 0 ELSE (bl - 2) \div 2
<1>4. start \in -1..(bl - 1) /\ start \in -1..MaxSize
  <2> HIDE DEF bl
  <2> QED
    BY <1>2 DEF bl
<1>5. \/ /\ tpc' = [tpc EXCEPT ![next] = "build"]
         /\ cur' = [cur EXCEPT ![next] = start]
      \/ tpc' = [tpc EXCEPT ![next] = "missing"] /\ cur' = cur
    BY DEF CreateThread
<1> HIDE DEF start
<1>6. TypeOK'
    BY <1>1, <1>2, <1>3, <1>4, <1>5 DEF TypeOK
<1>7. ASSUME NEW t \in Threads PROVE ThreadInv(t)'
  <2>1. CASE t # next
    <3>1. tpc'[t] = tpc[t] /\ cur'[t] = cur[t] /\ ThreadInv(t)
      BY <1>1, <1>5, <2>1 DEF TypeOK, SortedInv
    <3> QED
      BY <1>1, <3>1, ElsewhereKeeps
  <2>2. CASE t = next /\ tpc' = [tpc EXCEPT ![next] = "missing"]
    <3>1. tpc'[t] = "missing"
      BY <1>1, <1>2, <2>2 DEF TypeOK
    <3> QED
      BY <3>1 DEF ThreadInv, BuildInv, SortInv, DoneInv
  <2>3. CASE t = next /\ tpc' = [tpc EXCEPT ![next] = "build"]
                      /\ cur' = [cur EXCEPT ![next] = start]
    <3>1. tpc'[t] = "build" /\ cur'[t] = start
      BY <1>1, <1>2, <2>3 DEF TypeOK
    <3>2. \A c \in 1..(bl - 1) : ~(Parent(c) > start)
      BY <1>2 DEF Parent, start
    <3>3. BuildInv(t)'
      BY <1>3, <1>4, <3>1, <3>2 DEF BuildInv
    <3> QED
      BY <3>1, <3>3 DEF ThreadInv, SortInv, DoneInv
  <2> QED
    BY <1>5, <2>1, <2>2, <2>3
<1>8. (SizeInv /\ PhaseInv /\ MergeInv /\ ReportInv)'
    BY <1>1 DEF SizeInv, PhaseInv, MergeInv, ReportInv
<1>9. CountInv' /\ Threads' = Threads
    BY <1>1 DEF SortedInv, CountInv, Threads
<1> QED
    BY <1>6, <1>7, <1>8, <1>9 DEF SortedInv

\* Every block is sorted when the caller goes on.
LEMMA PassBarrierStep ==
    ASSUME SortedInv, PassBarrier
    PROVE  SortedInv'
<1>1. /\ TypeOK /\ SizeInv /\ mpc = "create" /\ mpc' = "merge" /\ i' = 0
      /\ UNCHANGED <<given, nums, tpc, cur, next>>
      /\ gap' = block_length
      /\ \A t \in Threads : tpc[t] = "barrier"
    BY DEF SortedInv, PassBarrier, block_length
<1>2. /\ length \in 1..MaxSize /\ MaxSize \in Nat /\ block_length \in Nat
      /\ block_length <= length /\ Turn \in {1, 2} /\ Threads = 0..(Turn - 1)
      /\ Turn = 1 => block_length = length
      /\ Turn = 2 => length \in {2 * block_length, 2 * block_length + 1}
      /\ \A t \in Threads : /\ t = 0 => Base(t) = 0
                            /\ t = 1 => Base(t) = block_length
    BY <1>1, Sizes, TimeStatAssumption
<1>3. length' = length /\ block_length' = block_length
    BY <1>1, SameBlocks
<1>4. \A t \in Threads : Ordered(nums, Base(t), Base(t) + block_length - 1)
    BY <1>1 DEF SortedInv, ThreadInv, DoneInv
<1>5. TypeOK'
    BY <1>1, <1>2, <1>3 DEF TypeOK
<1>6. MergeInv'
  <2>1. CASE Turn = 1
    <3>1. 0 \in Threads /\ 0 + block_length - 1 = length - 1
      BY <1>2, <2>1
    <3>2. Ordered(nums, 0, length - 1)
      BY <1>2, <1>4, <3>1
    <3> QED
      BY <1>1, <1>2, <1>3, <2>1, <3>2 DEF MergeInv
  <2>2. CASE Turn = 2 /\ block_length = 0
    <3>1. length = 1
      BY <1>2, <2>2
    <3> QED
      BY <1>1, <1>3, <2>2, <3>1 DEF MergeInv
  <2>3. CASE Turn = 2 /\ block_length > 0
    <3>1. /\ 0 \in Threads /\ 1 \in Threads
          /\ 0 + block_length - 1 = block_length - 1
          /\ block_length + block_length - 1 = 2 * block_length - 1
      BY <1>2, <2>3
    <3>2. /\ Ordered(nums, 0, block_length - 1)
          /\ Ordered(nums, block_length, 2 * block_length - 1)
      BY <1>2, <1>4, <3>1
    <3> QED
      BY <1>1, <1>3, <2>3, <3>2 DEF MergeInv
  <2> QED
    BY <1>2, <2>1, <2>2, <2>3
<1>7. \A t \in Threads : ThreadInv(t)'
    BY <1>1 DEF ThreadInv, BuildInv, SortInv, DoneInv
<1>8. (SizeInv /\ PhaseInv /\ ReportInv)'
    BY <1>1 DEF SizeInv, PhaseInv, ReportInv
<1>9. CountInv' /\ Threads' = Threads
    BY <1>1 DEF SortedInv, CountInv, Threads
<1> QED
    BY <1>5, <1>6, <1>7, <1>8, <1>9 DEF SortedInv

\* A step of the merging that permutes the array and keeps MergeInv.
LEMMA MergingKeeps ==
    ASSUME SortedInv, mpc = "merge", mpc' \in {"merge", "report"},
           nums' \in [DOMAIN nums -> Values],
           \A v : Count(nums', v) = Count(nums, v),
           UNCHANGED <<given, tpc, cur, next>>,
           gap' \in 0..(2 * length - 1), i' \in 0..length,
           MergeInv', ReportInv'
    PROVE  SortedInv'
<1>1. TypeOK /\ SizeInv /\ \A t \in Threads : tpc[t] = "barrier"
    BY DEF SortedInv, PhaseInv
<1>2. DOMAIN nums' = DOMAIN nums /\ DOMAIN nums = DOMAIN given
    BY <1>1 DEF TypeOK
<1>3. length' = length
    BY <1>2, SameBlocks
<1>4. TypeOK'
    BY <1>1, <1>2, <1>3 DEF TypeOK
<1>5. \A t \in Threads : ThreadInv(t)'
    BY <1>1 DEF ThreadInv, BuildInv, SortInv, DoneInv
<1>6. (SizeInv /\ PhaseInv)'
    BY <1>1 DEF SizeInv, PhaseInv
<1>7. CountInv' /\ Threads' = Threads
    BY DEF SortedInv, CountInv, Threads
<1> QED
    BY <1>4, <1>5, <1>6, <1>7 DEF SortedInv

\* What the merging of the first runs makes of the array.
LEMMA FirstRunsMerged ==
    ASSUME SortedInv, NEW start2 \in Nat, NEW end \in Nat,
           start2 <= end, end <= length - 1,
           Ordered(nums, 0, start2 - 1), Ordered(nums, start2, end)
    PROVE  /\ Merged(nums, 0, start2, end) \in [DOMAIN nums -> Values]
           /\ Ordered(Merged(nums, 0, start2, end), 0, end)
           /\ \A v : Count(Merged(nums, 0, start2, end), v) = Count(nums, v)
<1>1. TypeOK /\ SizeInv
    BY DEF SortedInv
<1>2. nums \in [DOMAIN nums -> Values]
    BY <1>1 DEF TypeOK
<1>3. /\ IsFiniteSet(DOMAIN nums) /\ DOMAIN nums = 0..(length - 1)
      /\ length \in Nat
    BY <1>1, Sizes
<1>4. MergeInput(nums, 0, start2, end)
    BY <1>2, <1>3 DEF MergeInput
<1>5. Joined(nums, end, 0, 0..end, Merged(nums, 0, start2, end))
    BY <1>4, MergeJoins
<1> QED
    BY <1>4, <1>5, MergeCounts DEF Joined

\* Two runs become one: it is the two blocks.
LEMMA MergePairStep ==
    ASSUME SortedInv, MergePair
    PROVE  SortedInv'
<1> DEFINE b == block_length
<1>1. /\ TypeOK /\ SizeInv /\ mpc = "merge" /\ MergeInv
      /\ gap < length /\ gap # 0 /\ i + 2 * gap - 1 < length
      /\ nums' = Merged(nums, i, i + gap, i + 2 * gap - 1)
      /\ i' = i + 2 * gap
      /\ UNCHANGED <<given, tpc, cur, mpc, next, gap>>
    BY DEF SortedInv, MergePair, MoreRuns
<1>2. /\ length \in Nat /\ b \in Nat /\ gap \in Nat /\ i \in Nat
      /\ Turn = 2 => length \in {2 * b, 2 * b + 1}
      /\ gap \in 0..(2 * length - 1)
    BY <1>1, Sizes DEF TypeOK
<1> HIDE DEF b
<1>3. /\ gap = b /\ i = 0 /\ b > 0 /\ Turn = 2
      /\ Ordered(nums, 0, b - 1) /\ Ordered(nums, b, 2 * b - 1)
    BY <1>1, <1>2 DEF MergeInv, b
<1>4. /\ nums' = Merged(nums, 0, b, 2 * b - 1)
      /\ 2 * b - 1 \in Nat /\ b <= 2 * b - 1 /\ 2 * b - 1 <= length - 1
    BY <1>1, <1>2, <1>3
<1>5. /\ nums' \in [DOMAIN nums -> Values]
      /\ Ordered(nums', 0, 2 * b - 1)
      /\ \A v : Count(nums', v) = Count(nums, v)
    BY <1>2, <1>3, <1>4, FirstRunsMerged
<1>6. block_length' = b
    BY <1>5, SameBlocks DEF b
<1>7. MergeInv' /\ ReportInv'
    BY <1>1, <1>2, <1>3, <1>5, <1>6 DEF MergeInv, ReportInv
<1>8. i' \in 0..length
    BY <1>1, <1>2
<1> QED
    BY <1>1, <1>2, <1>5, <1>7, <1>8, MergingKeeps

\* The end of a round: nothing is left over but the element behind the blocks.
LEMMA MergeRestStep ==
    ASSUME SortedInv, MergeRest
    PROVE  SortedInv'
<1> DEFINE b == block_length
<1>1. /\ TypeOK /\ SizeInv /\ mpc = "merge" /\ MergeInv
      /\ gap < length /\ gap # 0 /\ i + 2 * gap - 1 >= length
      /\ nums' = IF i + gap < length
                   THEN Merged(nums, i, i + gap, length - 1) ELSE nums
      /\ gap' = 2 * gap /\ i' = 0
      /\ UNCHANGED <<given, tpc, cur, mpc, next>>
    BY DEF SortedInv, MergeRest, MoreRuns
<1>2. /\ length \in Nat /\ b \in Nat /\ gap \in Nat /\ i \in Nat
      /\ Turn = 2 => length \in {2 * b, 2 * b + 1}
      /\ gap' \in 0..(2 * length - 1) /\ i' \in 0..length
      /\ nums \in [DOMAIN nums -> Values]
    BY <1>1, Sizes DEF TypeOK
<1> HIDE DEF b
<1>3. \/ /\ gap = b /\ i = 2 * b /\ b > 0 /\ Turn = 2
         /\ Ordered(nums, 0, 2 * b - 1)
      \/ /\ gap = 2 * b /\ i = 0 /\ b > 0 /\ Turn = 2
         /\ Ordered(nums, 0, 2 * b - 1)
    BY <1>1, <1>2 DEF MergeInv, b
<1>4. CASE gap = b
  <2>1. /\ i = 2 * b /\ b > 0 /\ Turn = 2
        /\ Ordered(nums, 0, 2 * b - 1)
    BY <1>2, <1>3, <1>4
  <2>2. ~(i + gap < length)
    BY <1>2, <1>4, <2>1
  <2>3. nums' = nums
    BY <1>1, <2>2
  <2>4. block_length' = b
    BY <2>3, SameBlocks DEF b
  <2>5. MergeInv' /\ ReportInv'
    BY <1>1, <1>2, <1>4, <2>1, <2>3, <2>4 DEF MergeInv, ReportInv
  <2> QED
    BY <1>1, <1>2, <2>3, <2>5, MergingKeeps
<1>5. CASE gap = 2 * b
  <2>1. /\ i = 0 /\ b > 0 /\ Turn = 2 /\ length = 2 * b + 1
        /\ Ordered(nums, 0, 2 * b - 1)
    BY <1>1, <1>2, <1>3, <1>5
  <2>2. /\ i + gap < length /\ i + gap = 2 * b
        /\ length - 1 = 2 * b /\ 2 * b \in Nat
    BY <1>2, <1>5, <2>1
  <2>3. nums' = Merged(nums, 0, 2 * b, 2 * b)
    BY <1>1, <2>1, <2>2
  <2>4. Ordered(nums, 2 * b, 2 * b)
    <3>1. 2 * b \in DOMAIN nums
      <4>1. DOMAIN nums = 0..(length - 1)
        BY <1>1, Sizes
      <4> QED
        BY <2>2, <4>1
    <3>2. nums[2 * b] \in Nat
      BY <1>2, <3>1, TimeStatAssumption
    <3> QED
      BY <2>2, <3>2 DEF Ordered
  <2>5. /\ nums' \in [DOMAIN nums -> Values]
        /\ Ordered(nums', 0, 2 * b)
        /\ \A v : Count(nums', v) = Count(nums, v)
    BY <2>1, <2>2, <2>3, <2>4, FirstRunsMerged
  <2>6. block_length' = b /\ length' = length
    BY <2>5, SameBlocks DEF b
  <2>7. MergeInv' /\ ReportInv'
    BY <1>1, <1>2, <1>5, <2>1, <2>2, <2>5, <2>6 DEF MergeInv, ReportInv
  <2> QED
    BY <1>1, <1>2, <2>5, <2>7, MergingKeeps
<1> QED
    BY <1>3, <1>4, <1>5

\* The merging is over when the array is one run.
LEMMA ReportStep ==
    ASSUME SortedInv, Report
    PROVE  SortedInv'
<1> DEFINE b == block_length
<1>1. /\ TypeOK /\ SizeInv /\ mpc = "merge" /\ MergeInv /\ mpc' = "report"
      /\ ~(gap < length /\ gap # 0)
      /\ UNCHANGED <<given, nums, tpc, cur, next, gap, i>>
    BY DEF SortedInv, Report, MoreRuns
<1>2. /\ length \in Nat /\ b \in Nat /\ gap \in Nat /\ i \in Nat
      /\ Turn = 2 => length \in {2 * b, 2 * b + 1}
      /\ gap \in 0..(2 * length - 1) /\ i \in 0..length
      /\ DOMAIN nums = 0..(length - 1) /\ nums \in [DOMAIN nums -> Values]
    BY <1>1, Sizes DEF TypeOK
<1> HIDE DEF b
<1>3. \/ Ordered(nums, 0, length - 1)
      \/ length = 1
      \/ gap = 2 * b /\ b > 0 /\ Turn = 2 /\ Ordered(nums, 0, 2 * b - 1)
    BY <1>1, <1>2 DEF MergeInv, b
<1>4. CASE length = 1
  <2>1. nums[0] \in Nat
    BY <1>2, <1>4, TimeStatAssumption
  <2> QED
    BY <1>4, <1>1, <1>2, <2>1, MergingKeeps, SameBlocks
    DEF Ordered, MergeInv, ReportInv
<1>5. CASE gap = 2 * b /\ b > 0 /\ Turn = 2 /\ Ordered(nums, 0, 2 * b - 1)
  <2>1. length = 2 * b
    BY <1>1, <1>2, <1>5
  <2>2. Ordered(nums, 0, length - 1)
    BY <1>5, <2>1
  <2> QED
    BY <1>1, <1>2, <2>2, MergingKeeps, SameBlocks DEF MergeInv, ReportInv
<1>6. CASE Ordered(nums, 0, length - 1)
    BY <1>1, <1>2, <1>6, MergingKeeps, SameBlocks DEF MergeInv, ReportInv
<1> QED
    BY <1>3, <1>4, <1>5, <1>6

----------------------------------------------------------------------------
(* The theorems.                                                           *)

\* The caller starts with the array that was passed, and no thread.
LEMMA InitSorted == Init => SortedInv
<1> SUFFICES ASSUME Init PROVE SortedInv
    OBVIOUS
<1>1. PICK size \in 1..MaxSize : given \in [0..(size - 1) -> Values]
    BY DEF Init
<1>2. SizeInv
    BY <1>1 DEF SizeInv
<1>3. /\ nums = given /\ tpc = [t \in Threads |-> "absent"]
      /\ cur = [t \in Threads |-> 0]
      /\ mpc = "create" /\ next = 0 /\ gap = 0 /\ i = 0
    BY DEF Init
<1>4. nums \in [DOMAIN given -> Values]
    BY <1>1, <1>3
<1>5. length \in Nat /\ length > 0
  <2>1. size \in Nat /\ size > 0 /\ 0 \in Int /\ size - 1 \in Int
    BY TimeStatAssumption
  <2>2. Cardinality(0..(size - 1)) =
          IF 0 > size - 1 THEN 0 ELSE (size - 1) - 0 + 1
    BY <2>1, FS_Interval
  <2>3. DOMAIN nums = 0..(size - 1)
    BY <1>1, <1>3
  <2> QED
    BY <2>1, <2>2, <2>3 DEF length
<1>6. gap \in 0..(2 * length - 1) /\ i \in 0..length /\ next \in 0..Turn
    BY <1>3, <1>5, TimeStatAssumption
<1>7. cur \in [Threads -> -1..MaxSize]
    BY <1>3, TimeStatAssumption
<1>8. TypeOK
    BY <1>3, <1>4, <1>6, <1>7 DEF TypeOK
<1>9. \A t \in Threads : ThreadInv(t)
    BY <1>3 DEF ThreadInv, BuildInv, SortInv, DoneInv
<1>10. PhaseInv /\ CountInv /\ MergeInv /\ ReportInv
    BY <1>3 DEF PhaseInv, CountInv, MergeInv, ReportInv
<1> QED
    BY <1>2, <1>8, <1>9, <1>10 DEF SortedInv

\* A step that changes nothing keeps the invariant.
LEMMA IdleSorted ==
    ASSUME SortedInv, UNCHANGED vars
    PROVE  SortedInv'
<1>1. length' = length /\ block_length' = block_length
      /\ (\A t : Base(t)' = Base(t)) /\ Threads' = Threads
    BY DEF vars, length, block_length, Base, Threads
<1>2. TypeOK'
    BY <1>1 DEF SortedInv, TypeOK, vars
<1>3. ASSUME NEW t \in Threads PROVE ThreadInv(t)'
    BY <1>1 DEF SortedInv, ThreadInv, BuildInv, SortInv, DoneInv, vars
<1>4. (SizeInv /\ PhaseInv /\ CountInv /\ ReportInv)'
    BY <1>1
    DEF SortedInv, SizeInv, PhaseInv, CountInv, ReportInv, vars
<1>5. MergeInv'
    BY <1>1 DEF SortedInv, MergeInv, vars
<1> QED
    BY <1>1, <1>2, <1>3, <1>4, <1>5 DEF SortedInv

\* The invariant is inductive.
LEMMA SortedInvariant == Spec => []SortedInv
<1>1. SortedInv /\ [Next]_vars => SortedInv'
  <2> SUFFICES ASSUME SortedInv, [Next]_vars PROVE SortedInv'
    OBVIOUS
  <2>1. CASE CreateThread
    BY <2>1, CreateThreadStep
  <2>2. CASE PassBarrier
    BY <2>2, PassBarrierStep
  <2>3. CASE MergePair
    BY <2>3, MergePairStep
  <2>4. CASE MergeRest
    BY <2>4, MergeRestStep
  <2>5. CASE Report
    BY <2>5, ReportStep
  <2>6. ASSUME NEW t \in Threads, BuildHeap(t) PROVE SortedInv'
    BY <2>6, BuildHeapStep
  <2>7. ASSUME NEW t \in Threads, SortBlock(t) PROVE SortedInv'
    BY <2>7, SortBlockStep
  <2>8. CASE UNCHANGED vars
    BY <2>8, IdleSorted
  <2> QED
    BY <2>1, <2>2, <2>3, <2>4, <2>5, <2>6, <2>7, <2>8 DEF Next, Caller, Thread
<1> QED
    BY <1>1, InitSorted, PTL DEF Spec

\* Every variable of time_stat has its type, and the merging ends before
\* twice the length, for any two threads or one, any array and any times.
THEOREM TimesTyped == Spec => []TypeOK
<1>1. SortedInv => TypeOK
    BY DEF SortedInv
<1> QED
    BY <1>1, SortedInvariant, PTL

\* The loop invariant of the second loop of heap_sort.
THEOREM HeapsThenSorted == Spec => []HeapThenSorted
<1>1. SortedInv => HeapThenSorted
  <2> SUFFICES ASSUME SortedInv, NEW t \in Threads, tpc[t] = "sort",
                      block_length > 0
               PROVE  LET b == Base(t)
                          j == cur[t]
                      IN  /\ \A c \in 1..j :
                               nums[b + ((c - 1) \div 2)] >= nums[b + c]
                          /\ Ordered(nums, b + j + 1, b + block_length - 1)
                          /\ j < block_length - 1 =>
                               \A m \in 0..j : nums[b + m] <= nums[b + j + 1]
    BY DEF HeapThenSorted
  <2>1. SortInv(t)
    BY DEF SortedInv, ThreadInv
  <2> QED
    BY <2>1 DEF SortInv, Parent
<1> QED
    BY <1>1, SortedInvariant, PTL

\* The multiples of g that are not greater than 2 * g.
LEMMA Multiples ==
    ASSUME NEW g \in Nat \ {0}, NEW m \in Nat, m <= 2 * g, (m % g) = 0
    PROVE  m \in {0, g, 2 * g}
<1> DEFINE q == m \div g
<1>1. q \in Nat /\ m = g * q
  <2>1. \A a, b \in Nat : b > 0 => a = b * (a \div b) + (a % b)
    OBVIOUS
  <2>2. g \in Nat /\ g > 0 /\ q \in Nat
    OBVIOUS
  <2>3. m = g * q + (m % g)
    BY <2>1, <2>2
  <2>4. g * q \in Nat
    BY <2>2
  <2> QED
    BY <2>2, <2>3, <2>4
<1> HIDE DEF q
<1>2. \A x, y, z \in Nat : x <= y => z * x <= z * y
    OBVIOUS
<1>3. q < 3
  <2> SUFFICES ASSUME 3 <= q PROVE FALSE
    BY <1>1
  <2>1. g * 3 <= g * q
    BY <1>1, <1>2
  <2> QED
    BY <1>1, <2>1
<1>4. q = 0 \/ q = 1 \/ q = 2
    BY <1>1, <1>3
<1> QED
    BY <1>1, <1>4

\* Every run of "gap" elements that is still to be merged is in order.
THEOREM RunsStaySorted == Spec => []RunsSorted
<1>1. SortedInv => RunsSorted
  <2> SUFFICES ASSUME SortedInv, mpc = "merge", gap > 0,
                      NEW n \in 0..(length - 1), n >= i, ((n - i) % gap) = 0
               PROVE  Ordered(nums, n, IF n + gap < length THEN n + gap - 1
                                                           ELSE length - 1)
    BY DEF RunsSorted
  <2> DEFINE b == block_length
             L == length
             to == IF n + gap < L THEN n + gap - 1 ELSE L - 1
  <2>1. /\ MergeInv /\ TypeOK /\ SizeInv
    BY DEF SortedInv
  <2>2. /\ L \in Nat /\ L > 0 /\ b \in Nat /\ gap \in Nat \ {0} /\ i \in Nat
        /\ Turn = 2 => L \in {2 * b, 2 * b + 1}
        /\ n \in Nat /\ n < L /\ n \in DOMAIN nums
    BY <2>1, Sizes DEF TypeOK
  <2>3. nums[n] \in Nat
    BY <2>1, <2>2, TimeStatAssumption DEF TypeOK
  <2>4. Ordered(nums, n, n)
    BY <2>2, <2>3 DEF Ordered
  <2>5. n - i <= 2 * gap => n - i \in {0, gap, 2 * gap}
    BY <2>2, Multiples
  <2>6. \/ gap = L /\ i = 0 /\ Ordered(nums, 0, L - 1)
        \/ /\ gap = b /\ i = 0 /\ Turn = 2
           /\ Ordered(nums, 0, b - 1) /\ Ordered(nums, b, 2 * b - 1)
        \/ /\ gap = b /\ i = 2 * b /\ Turn = 2
        \/ /\ gap = 2 * b /\ i = 0 /\ Turn = 2
           /\ Ordered(nums, 0, 2 * b - 1)
        \/ gap >= L /\ i = 0 /\ Ordered(nums, 0, L - 1)
    BY <2>1, <2>2 DEF MergeInv
  <2> HIDE DEF b, L
  <2>7. CASE gap >= L /\ i = 0 /\ Ordered(nums, 0, L - 1)
    <3>1. n = 0
      BY <2>2, <2>5, <2>7
    <3>2. to = L - 1
      BY <2>2, <2>7, <3>1
    <3> QED
      BY <2>7, <3>1, <3>2 DEF L
  <2>8. CASE /\ gap = b /\ i = 0 /\ Turn = 2
             /\ Ordered(nums, 0, b - 1) /\ Ordered(nums, b, 2 * b - 1)
    <3>1. n = 0 \/ n = b \/ n = 2 * b
      BY <2>2, <2>5, <2>8
    <3>2. n = 0 => to = b - 1
      BY <2>2, <2>8
    <3>3. n = b => to = 2 * b - 1
      BY <2>2, <2>8
    <3>4. n = 2 * b => to = n
      BY <2>2, <2>8
    <3> HIDE DEF to
    <3>5. Ordered(nums, n, to)
      BY <2>4, <2>8, <3>1, <3>2, <3>3, <3>4
    <3> QED
      BY <3>5 DEF to, L
  <2>9. CASE gap = b /\ i = 2 * b /\ Turn = 2
    <3>1. n = 2 * b
      BY <2>2, <2>9
    <3>2. to = n
      BY <2>2, <2>9, <3>1
    <3> QED
      BY <2>4, <3>2 DEF L
  <2>10. CASE gap = 2 * b /\ i = 0 /\ Turn = 2 /\ Ordered(nums, 0, 2 * b - 1)
    <3>1. n = 0 \/ n = 2 * b
      BY <2>2, <2>5, <2>10
    <3>2. n = 0 => to = 2 * b - 1
      BY <2>2, <2>10
    <3>3. n = 2 * b => to = n
      BY <2>2, <2>10
    <3> HIDE DEF to
    <3>4. Ordered(nums, n, to)
      BY <2>4, <2>10, <3>1, <3>2, <3>3
    <3> QED
      BY <3>4 DEF to, L
  <2>11. CASE gap = L /\ i = 0 /\ Ordered(nums, 0, L - 1)
    BY <2>2, <2>7, <2>11
  <2> QED
    BY <2>6, <2>7, <2>8, <2>9, <2>10, <2>11
<1> QED
    BY <1>1, SortedInvariant, PTL

\* What is reported is the array that was passed, in order: for any array,
\* of one element as of many, and with values that are equal.
THEOREM OrderReported == Spec => []ReportOrdered
<1>1. SortedInv => ReportOrdered
  <2> SUFFICES ASSUME SortedInv, mpc = "report"
               PROVE  Ordered(nums, 0, length - 1) /\ Bag(nums) = Bag(given)
    BY DEF ReportOrdered
  <2>1. ReportInv /\ CountInv
    BY DEF SortedInv
  <2>2. Ordered(nums, 0, length - 1)
    BY <2>1 DEF ReportInv
  <2>3. \A v \in Values : Count(nums, v) = Count(given, v)
    BY <2>1 DEF CountInv
  <2>4. /\ Bag(nums) = [v \in Values |-> Count(nums, v)]
        /\ Bag(given) = [v \in Values |-> Count(given, v)]
    BY DEF Bag, Count
  <2> QED
    BY <2>2, <2>3, <2>4
<1> QED
    BY <1>1, SortedInvariant, PTL

\* A thread writes into its own block: what lets the threads sort at the
\* same time without a lock, and a step of the model be a call of adjust.
THEOREM BlocksOwned == Spec => OwnBlockOnly
<1> DEFINE A == \A t \in Threads :
                  tpc[t] \in {"build", "sort"} /\ cur'[t] # cur[t] =>
                    \A n \in DOMAIN nums : nums'[n] # nums[n] =>
                      n \in Base(t)..(Base(t) + block_length - 1)
<1>1. SortedInv /\ [Next]_vars => A
  <2> SUFFICES ASSUME SortedInv, [Next]_vars, NEW t \in Threads,
                      tpc[t] \in {"build", "sort"}, cur'[t] # cur[t],
                      NEW n \in DOMAIN nums, nums'[n] # nums[n]
               PROVE  n \in Base(t)..(Base(t) + block_length - 1)
    OBVIOUS
  <2>1. mpc = "create" /\ cur \in [Threads -> -1..MaxSize]
    BY ThreadBeforeBarrier DEF SortedInv, TypeOK
  <2>2. nums' # nums /\ cur' # cur
    OBVIOUS
  <2>3. ~Caller /\ ~UNCHANGED vars
    BY <2>1, <2>2
    DEF Caller, CreateThread, PassBarrier, MergePair, MergeRest, Report, vars
  <2>4. PICK u \in Threads : Thread(u)
    BY <2>3 DEF Next
  <2>5. cur' = [cur EXCEPT ![u] = @ - 1]
    BY <2>2, <2>4 DEF Thread, BuildHeap, SortBlock
  <2>6. u = t
    BY <2>1, <2>5
  <2> QED
    BY <2>4, <2>6, BuildHeapStep, SortBlockStep DEF Thread
<1>2. [][A]_vars => OwnBlockOnly
    BY PTL DEF OwnBlockOnly, A
<1> QED
    BY <1>1, <1>2, SortedInvariant, PTL DEF Spec
=============================================================================
