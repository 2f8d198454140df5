--------------------------- MODULE SequenceLemmas ---------------------------
(***************************************************************************)
(* Induction by the least counterexample, what FlattenSeq of the community *)
(* modules does to a list of lists (the models spell out rows and texts    *)
(* with it), sums over finite sets, and images of finite sets.             *)
(***************************************************************************)
EXTENDS SequencesExt, SequenceTheorems, FiniteSetTheorems, WellFoundedInduction, TLAPS

LEMMA LeastOf == ASSUME NEW T \in SUBSET Nat, T # {} PROVE \E k \in T : \A x \in T : k <= x
<1>1. PICK k \in T : \A x \in T : <<x, k>> \notin OpToRel(<, Nat)
  BY WFMin, NatLessThanWellFounded
<1>2. \A x \in T : ~(x < k)
  BY <1>1 DEF OpToRel
<1> QED BY <1>2

(* A set that holds 1 and with each number the next one holds all up to n. *)
LEMMA UpTo ==
    ASSUME NEW n \in Nat, NEW G, n > 0 => 1 \in G, \A k \in 1 .. n - 1 : k \in G => k + 1 \in G
    PROVE  \A k \in 1 .. n : k \in G
<1> DEFINE bad == {k \in 1 .. n : k \notin G}
<1> SUFFICES ASSUME bad # {} PROVE FALSE
  OBVIOUS
<1>1. bad \in SUBSET Nat
  OBVIOUS
<1>2. PICK k \in bad : \A x \in bad : k <= x
  BY <1>1, LeastOf
<1>3. k \in 1 .. n /\ k \notin G /\ k # 1
  BY <1>2
<1>4. k - 1 \in 1 .. n - 1 /\ k - 1 \notin bad
  BY <1>2, <1>3
<1>5. k - 1 \in G
  BY <1>4
<1>6. (k - 1) + 1 \in G
  BY <1>4, <1>5
<1> QED BY <1>3, <1>6

-----------------------------------------------------------------------------
(* f[n] is the first n lists of s one after the other. *)
Flattening(f, s, n) ==
    /\ DOMAIN f = 1 .. n
    /\ n > 0 => f[1] = s[1]
    /\ \A i \in 2 .. n : f[i] = f[i - 1] \o s[i]

Recursion(f, s, n) == f = [i \in 1 .. n |-> IF i = 1 THEN s[i] ELSE f[i - 1] \o s[i]]
LEMMA FlatteningExists ==
    ASSUME NEW s, NEW n \in Nat \ {0}
    PROVE  \E f : Recursion(f, s, n)
<1> DEFINE P(m) == \E f : Recursion(f, s, m)
           G == {m \in 1 .. n : P(m)}
<1>1. P(1)
  <2> DEFINE g == [i \in 1 .. 1 |-> s[i]]
  <2>1. Recursion(g, s, 1)
    <3>1. \A i \in 1 .. 1 : g[i] = IF i = 1 THEN s[i] ELSE g[i - 1] \o s[i]
      OBVIOUS
    <3> QED BY <3>1 DEF Recursion
  <2> HIDE DEF g
  <2> QED BY <2>1
<1>2. ASSUME NEW k \in 1 .. n - 1, P(k)
      PROVE  P(k + 1)
  <2>1. PICK f : Recursion(f, s, k)
    BY <1>2
  <2> DEFINE g == [i \in 1 .. k + 1 |-> IF i = k + 1 THEN f[k] \o s[k + 1] ELSE f[i]]
  <2>2. ASSUME NEW i \in 1 .. k + 1
        PROVE  g[i] = IF i = 1 THEN s[i] ELSE g[i - 1] \o s[i]
    <3>1. CASE i = k + 1
      <4>1. g[i - 1] = f[k] /\ i # 1
        BY <3>1
      <4> QED BY <3>1, <4>1
    <3>2. CASE i # k + 1
      <4>1. i \in 1 .. k /\ (i # 1 => i - 1 \in 1 .. k)
        BY <3>2
      <4>2. f[i] = IF i = 1 THEN s[i] ELSE f[i - 1] \o s[i]
        BY <2>1, <4>1 DEF Recursion
      <4>3. g[i] = f[i] /\ (i # 1 => g[i - 1] = f[i - 1])
        BY <3>2, <4>1
      <4> QED BY <4>2, <4>3
    <3> QED BY <3>1, <3>2
  <2>3. Recursion(g, s, k + 1)
    BY <2>2 DEF Recursion
  <2> HIDE DEF g
  <2> QED BY <2>3
<1> HIDE DEF P
<1>3. 1 \in G
  BY <1>1
<1>4. ASSUME NEW k \in 1 .. n - 1, k \in G
      PROVE  k + 1 \in G
  <2>1. k + 1 \in 1 .. n /\ P(k)
    BY <1>4
  <2> QED BY <1>2, <2>1
<1> HIDE DEF G
<1>5. \A k \in 1 .. n : k \in G
  BY <1>3, <1>4, UpTo
<1>6. n \in G
  BY <1>5
<1> QED BY <1>6 DEF G, P

LEMMA FlattenUnfolds ==
    ASSUME NEW s, NEW n \in Nat \ {0}, n = Len(s)
    PROVE  \E f : Flattening(f, s, n) /\ FlattenSeq(s) = f[n]
<1> DEFINE f == CHOOSE g : g = [i \in 1 .. Len(s) |-> IF i = 1 THEN s[i] ELSE g[i - 1] \o s[i]]
<1>1. \E g : g = [i \in 1 .. Len(s) |-> IF i = 1 THEN s[i] ELSE g[i - 1] \o s[i]]
  BY FlatteningExists DEF Recursion
<1>2. f = [i \in 1 .. n |-> IF i = 1 THEN s[i] ELSE f[i - 1] \o s[i]]
  BY <1>1
<1>3. FlattenSeq(s) = f[n]
  BY DEF FlattenSeq
<1>4. Flattening(f, s, n)
  <2>1. DOMAIN f = 1 .. n
    BY <1>2
  <2>2. \A i \in 1 .. n : f[i] = IF i = 1 THEN s[i] ELSE f[i - 1] \o s[i]
    BY <1>2
  <2> HIDE DEF f
  <2>3. f[1] = s[1]
    BY <2>2
  <2>4. ASSUME NEW i \in 2 .. n
        PROVE  f[i] = f[i - 1] \o s[i]
    <3>1. i \in 1 .. n /\ i # 1
      OBVIOUS
    <3> QED BY <2>2, <3>1
  <2> QED BY <2>1, <2>3, <2>4 DEF Flattening
<1> QED BY <1>3, <1>4

LEMMA FlatteningIsSeq ==
    ASSUME NEW n \in Nat, NEW s, NEW f, NEW T, Flattening(f, s, n), \A i \in 1 .. n : s[i] \in Seq(T)
    PROVE  \A i \in 1 .. n : f[i] \in Seq(T)
<1> DEFINE G == {i \in 1 .. n : f[i] \in Seq(T)}
<1>1. n > 0 => 1 \in G
  BY DEF Flattening
<1>2. ASSUME NEW k \in 1 .. n - 1, k \in G
      PROVE  k + 1 \in G
  <2>1. k + 1 \in 2 .. n /\ (k + 1) - 1 = k
    OBVIOUS
  <2>2. f[k + 1] = f[k] \o s[k + 1]
    BY <2>1 DEF Flattening
  <2>3. f[k] \in Seq(T) /\ s[k + 1] \in Seq(T)
    BY <1>2, <2>1
  <2>4. f[k] \o s[k + 1] \in Seq(T)
    BY <2>3, ConcatProperties
  <2>5. f[k + 1] \in Seq(T) /\ k + 1 \in 1 .. n
    BY <2>1, <2>2, <2>4
  <2> QED BY <2>5
<1> HIDE DEF G
<1>3. \A k \in 1 .. n : k \in G
  BY <1>1, <1>2, UpTo
<1> QED BY <1>3 DEF G

Joins(e, a, b) ==
    /\ DOMAIN e = 1 .. Len(a) + Len(b) /\ Len(e) = Len(a) + Len(b)
    /\ \A i \in 1 .. Len(a) : e[i] = a[i]
    /\ \A i \in 1 .. Len(b) : e[Len(a) + i] = b[i]
LEMMA Joined ==
    ASSUME NEW T, NEW a \in Seq(T), NEW b \in Seq(T)
    PROVE  a \o b \in Seq(T) /\ Joins(a \o b, a, b)
<1>1. Len(a) \in Nat /\ Len(b) \in Nat
  BY LenProperties
<1>2. a \o b \in Seq(T) /\ Len(a \o b) = Len(a) + Len(b)
  BY ConcatProperties
<1>3. \A i \in 1 .. Len(a) + Len(b) : (a \o b)[i] = IF i <= Len(a) THEN a[i] ELSE b[i - Len(a)]
  BY ConcatProperties
<1>4. DOMAIN (a \o b) = 1 .. Len(a) + Len(b)
  BY <1>2, LenProperties
<1>5. ASSUME NEW i \in 1 .. Len(a) PROVE (a \o b)[i] = a[i]
  <2>1. i \in 1 .. Len(a) + Len(b) /\ i <= Len(a)
    BY <1>1
  <2> QED BY <1>3, <2>1
<1>6. ASSUME NEW i \in 1 .. Len(b) PROVE (a \o b)[Len(a) + i] = b[i]
  <2>1. Len(a) + i \in 1 .. Len(a) + Len(b) /\ ~(Len(a) + i <= Len(a)) /\ (Len(a) + i) - Len(a) = i
    BY <1>1
  <2> QED BY <1>3, <2>1
<1> QED BY <1>2, <1>4, <1>5, <1>6 DEF Joins
(* Which place of a join is whose. *)
LEMMA Halves ==
    ASSUME NEW k \in Nat, NEW l \in Nat, NEW i \in 1 .. k + l
    PROVE  i \in 1 .. k \/ \E j \in 1 .. l : i = k + j
<1>1. i <= k \/ (i - k \in 1 .. l /\ i = k + (i - k))
  OBVIOUS
<1> QED BY <1>1
LEMMA OneJoin ==
    ASSUME NEW T, NEW a \in Seq(T), NEW b \in Seq(T), NEW e, NEW g, Joins(e, a, b), Joins(g, a, b),
           e = [i \in DOMAIN e |-> e[i]], g = [i \in DOMAIN g |-> g[i]]
    PROVE  e = g
<1>1. Len(a) \in Nat /\ Len(b) \in Nat
  BY LenProperties
<1>2. ASSUME NEW i \in 1 .. Len(a) + Len(b)
      PROVE  e[i] = g[i]
  <2>1. i \in 1 .. Len(a) \/ \E j \in 1 .. Len(b) : i = Len(a) + j
    BY <1>1, Halves
  <2> QED BY <2>1 DEF Joins
<1> QED BY <1>2 DEF Joins
LEMMA IsJoin ==
    ASSUME NEW T, NEW a \in Seq(T), NEW b \in Seq(T), NEW e, Joins(e, a, b), e = [i \in DOMAIN e |-> e[i]]
    PROVE  a \o b = e
<1>1. PICK c \in Seq(T) : c = a \o b
  BY ConcatProperties
<1>2. Joins(c, a, b)
  BY <1>1, Joined
<1>3. c = [i \in DOMAIN c |-> c[i]]
  OBVIOUS
<1>4. c = e
  BY <1>2, <1>3, OneJoin
<1> QED BY <1>1, <1>4

(* Mapping the lists and mapping the result is the same. *)
Through(m, x) == [k \in DOMAIN x |-> m[x[k]]]
LEMMA ThroughIsSeq ==
    ASSUME NEW T, NEW x \in Seq(T), NEW m, NEW U, \A t \in T : m[t] \in U
    PROVE  /\ Through(m, x) \in Seq(U) /\ Len(Through(m, x)) = Len(x)
           /\ \A i \in 1 .. Len(x) : Through(m, x)[i] = m[x[i]]
  BY DEF Through
LEMMA JoinMaps ==
    ASSUME NEW T, NEW a \in Seq(T), NEW b \in Seq(T), NEW m
    PROVE  Through(m, a) \o Through(m, b) = Through(m, a \o b)
<1>1. PICK U : \A t \in T : m[t] \in U
  <2>1. \A t \in T : m[t] \in {m[v] : v \in T}
    OBVIOUS
  <2> QED BY <2>1
<1>2. PICK c \in Seq(U) : c = Through(m, a)
  BY <1>1, ThroughIsSeq
<1>3. PICK d \in Seq(U) : d = Through(m, b)
  BY <1>1, ThroughIsSeq
<1>4. PICK g \in Seq(T) : g = a \o b
  BY ConcatProperties
<1>5. Joins(g, a, b)
  BY <1>4, Joined
<1>6. PICK e \in Seq(U) : e = Through(m, g)
  BY <1>1, ThroughIsSeq
<1>7. Len(c) = Len(a) /\ Len(d) = Len(b) /\ Len(e) = Len(g) /\ Len(a) \in Nat /\ Len(b) \in Nat
  BY <1>1, <1>2, <1>3, <1>6, ThroughIsSeq, LenProperties
<1>8. \A i \in 1 .. Len(a) : c[i] = m[a[i]]
  BY <1>1, <1>2, ThroughIsSeq
<1>9. \A i \in 1 .. Len(b) : d[i] = m[b[i]]
  BY <1>1, <1>3, ThroughIsSeq
<1>10. \A i \in 1 .. Len(g) : e[i] = m[g[i]]
  BY <1>1, <1>6, ThroughIsSeq
<1>11. Joins(e, c, d)
  <2>1. Len(g) = Len(a) + Len(b)
    BY <1>5 DEF Joins
  <2>2. DOMAIN e = 1 .. Len(c) + Len(d) /\ Len(e) = Len(c) + Len(d)
    BY <2>1, <1>7, LenProperties
  <2>3. ASSUME NEW i \in 1 .. Len(c) PROVE e[i] = c[i]
    <3>1. i \in 1 .. Len(a) /\ i \in 1 .. Len(g)
      BY <2>1, <1>7
    <3>2. g[i] = a[i]
      BY <3>1, <1>5 DEF Joins
    <3> QED BY <3>1, <3>2, <1>8, <1>10
  <2>4. ASSUME NEW i \in 1 .. Len(d) PROVE e[Len(c) + i] = d[i]
    <3>1. i \in 1 .. Len(b) /\ Len(a) + i \in 1 .. Len(g)
      BY <2>1, <1>7
    <3>2. g[Len(a) + i] = b[i]
      BY <3>1, <1>5 DEF Joins
    <3> QED BY <3>1, <3>2, <1>7, <1>9, <1>10
  <2> QED BY <2>2, <2>3, <2>4 DEF Joins
<1>12. e = [i \in DOMAIN e |-> e[i]]
  OBVIOUS
<1>13. c \o d = e
  BY <1>11, <1>12, IsJoin
<1> QED BY <1>2, <1>3, <1>4, <1>6, <1>13
AllThrough(u, m, s, n) == \A i \in 1 .. n : u[i] = Through(m, s[i])
LEMMA FlatteningMaps ==
    ASSUME NEW n \in Nat, NEW s, NEW u, NEW f, NEW g, NEW T, NEW m,
           Flattening(f, s, n), Flattening(g, u, n),
           \A i \in 1 .. n : s[i] \in Seq(T), AllThrough(u, m, s, n)
    PROVE  \A i \in 1 .. n : g[i] = Through(m, f[i])
<1> DEFINE G == {i \in 1 .. n : g[i] = Through(m, f[i])}
<1>0. \A i \in 1 .. n : f[i] \in Seq(T)
  BY FlatteningIsSeq
<1>1. n > 0 => 1 \in G
  BY DEF Flattening, AllThrough
<1>2. ASSUME NEW k \in 1 .. n - 1, k \in G
      PROVE  k + 1 \in G
  <2>1. k \in 1 .. n /\ k + 1 \in 1 .. n /\ k + 1 \in 2 .. n /\ (k + 1) - 1 = k
    OBVIOUS
  <2>2. f[k + 1] = f[k] \o s[k + 1] /\ g[k + 1] = g[k] \o u[k + 1]
    BY <2>1 DEF Flattening
  <2>3. f[k] \in Seq(T) /\ s[k + 1] \in Seq(T)
    BY <1>0, <2>1
  <2>4. g[k] = Through(m, f[k]) /\ u[k + 1] = Through(m, s[k + 1])
    BY <1>2, <2>1 DEF AllThrough
  <2>5. g[k + 1] = Through(m, f[k + 1])
    <3>1. Through(m, f[k]) \o Through(m, s[k + 1]) = Through(m, f[k] \o s[k + 1])
      BY <2>3, JoinMaps
    <3> QED BY <3>1, <2>2, <2>4
  <2> QED BY <2>1, <2>5
<1> HIDE DEF G
<1>3. \A k \in 1 .. n : k \in G
  BY <1>1, <1>2, UpTo
<1> QED BY <1>3 DEF G

(* Nothing is lost. *)
Within(x, y) == \A k \in DOMAIN x : \E j \in DOMAIN y : y[j] = x[k]
LEMMA JoinHolds ==
    ASSUME NEW T, NEW a \in Seq(T), NEW b \in Seq(T)
    PROVE  Within(a, a \o b) /\ Within(b, a \o b) /\ \A x : Within(x, a) => Within(x, a \o b)
<1>1. PICK g : g = a \o b
  OBVIOUS
<1>2. Joins(g, a, b) /\ Len(a) \in Nat /\ Len(b) \in Nat /\ DOMAIN a = 1 .. Len(a) /\ DOMAIN b = 1 .. Len(b)
  BY <1>1, Joined, LenProperties
<1>3. \A i \in 1 .. Len(a) : i \in DOMAIN g
  BY <1>2 DEF Joins
<1>4. \A i \in 1 .. Len(b) : Len(a) + i \in DOMAIN g
  BY <1>2 DEF Joins
<1>5. Within(a, g) /\ Within(b, g)
  BY <1>2, <1>3, <1>4 DEF Within, Joins
<1>6. \A x : Within(x, a) => Within(x, g)
  BY <1>5 DEF Within
<1> QED BY <1>1, <1>5, <1>6
LEMMA FlatteningHolds ==
    ASSUME NEW n \in Nat, NEW s, NEW f, NEW T, Flattening(f, s, n), \A i \in 1 .. n : s[i] \in Seq(T)
    PROVE  \A i \in 1 .. n : \A h \in 1 .. i : Within(s[h], f[i])
<1> DEFINE G == {i \in 1 .. n : \A h \in 1 .. i : Within(s[h], f[i])}
<1>0. \A i \in 1 .. n : f[i] \in Seq(T)
  BY FlatteningIsSeq
<1>1. n > 0 => 1 \in G
  <2>1. n > 0 => f[1] = s[1]
    BY DEF Flattening
  <2>2. \A h \in 1 .. 1 : h = 1
    OBVIOUS
  <2>3. Within(s[1], s[1])
    BY DEF Within
  <2> QED BY <2>1, <2>2, <2>3
<1>2. ASSUME NEW k \in 1 .. n - 1, k \in G
      PROVE  k + 1 \in G
  <2>1. k \in 1 .. n /\ k + 1 \in 1 .. n /\ k + 1 \in 2 .. n /\ (k + 1) - 1 = k
    OBVIOUS
  <2>2. f[k + 1] = f[k] \o s[k + 1]
    BY <2>1 DEF Flattening
  <2>3. f[k] \in Seq(T) /\ s[k + 1] \in Seq(T)
    BY <1>0, <2>1
  <2>4. Within(s[k + 1], f[k + 1]) /\ \A x : Within(x, f[k]) => Within(x, f[k + 1])
    BY <2>2, <2>3, JoinHolds
  <2>5. \A h \in 1 .. k : Within(s[h], f[k])
    BY <1>2
  <2>6. \A h \in 1 .. k + 1 : h \in 1 .. k \/ h = k + 1
    OBVIOUS
  <2>7. \A h \in 1 .. k + 1 : Within(s[h], f[k + 1])
    BY <2>4, <2>5, <2>6
  <2> QED BY <2>1, <2>7
<1> HIDE DEF G
<1>3. \A k \in 1 .. n : k \in G
  BY <1>1, <1>2, UpTo
<1> QED BY <1>3 DEF G

(* The length is the sum of the lengths. *)
LEMMA FlatteningCounts ==
    ASSUME NEW n \in Nat, NEW s, NEW f, NEW T, NEW c, Flattening(f, s, n), \A i \in 1 .. n : s[i] \in Seq(T),
           c[0] = 0, \A i \in 1 .. n : c[i] = c[i - 1] + Len(s[i])
    PROVE  \A i \in 1 .. n : Len(f[i]) = c[i]
<1> DEFINE G == {i \in 1 .. n : Len(f[i]) = c[i]}
<1>0. \A i \in 1 .. n : f[i] \in Seq(T)
  BY FlatteningIsSeq
<1>1. n > 0 => 1 \in G
  <2> SUFFICES ASSUME n > 0 PROVE 1 \in G
    OBVIOUS
  <2>1. 1 \in 1 .. n /\ 1 - 1 = 0
    OBVIOUS
  <2>2. c[1] = c[0] + Len(s[1])
    BY <2>1
  <2>3. Len(s[1]) \in Nat
    BY <2>1
  <2> QED BY <2>1, <2>2, <2>3 DEF Flattening
<1>2. ASSUME NEW k \in 1 .. n - 1, k \in G
      PROVE  k + 1 \in G
  <2>1. k \in 1 .. n /\ k + 1 \in 1 .. n /\ k + 1 \in 2 .. n /\ (k + 1) - 1 = k
    OBVIOUS
  <2>2. f[k + 1] = f[k] \o s[k + 1] /\ c[k + 1] = c[k] + Len(s[k + 1])
    BY <2>1 DEF Flattening
  <2>3. f[k] \in Seq(T) /\ s[k + 1] \in Seq(T)
    BY <1>0, <2>1
  <2>4. Len(f[k + 1]) = Len(f[k]) + Len(s[k + 1])
    BY <2>2, <2>3, ConcatProperties
  <2>5. Len(f[k + 1]) = c[k + 1]
    BY <1>2, <2>2, <2>4
  <2> QED BY <2>1, <2>5
<1> HIDE DEF G
<1>3. \A k \in 1 .. n : k \in G
  BY <1>1, <1>2, UpTo
<1> QED BY <1>3 DEF G

(* Lists of one element. *)
Singles(s, x, n) == \A i \in 1 .. n : s[i] = <<x[i]>>
LEMMA FlatteningOfSingles ==
    ASSUME NEW n \in Nat, NEW s, NEW f, NEW x, Flattening(f, s, n), Singles(s, x, n)
    PROVE  \A i \in 1 .. n : f[i] = [k \in 1 .. i |-> x[k]]
<1> DEFINE G == {i \in 1 .. n : f[i] = [k \in 1 .. i |-> x[k]]}
           T == {x[i] : i \in 1 .. n}
<1>0. ASSUME NEW i \in 1 .. n
      PROVE  s[i] \in Seq(T) /\ Len(s[i]) = 1 /\ s[i][1] = x[i]
  <2>1. x[i] \in T /\ s[i] = <<x[i]>>
    BY DEF Singles
  <2> HIDE DEF T
  <2>2. \A t \in T : <<t>> \in Seq(T) /\ Len(<<t>>) = 1 /\ <<t>>[1] = t
    OBVIOUS
  <2> QED BY <2>1, <2>2
<1> HIDE DEF T
<1>1. n > 0 => 1 \in G
  <2> SUFFICES ASSUME n > 0 PROVE f[1] = [k \in 1 .. 1 |-> x[k]]
    OBVIOUS
  <2>1. f[1] = <<x[1]>>
    BY DEF Flattening, Singles
  <2> QED BY <2>1
<1>2. ASSUME NEW k \in 1 .. n - 1, k \in G
      PROVE  k + 1 \in G
  <2> DEFINE a == f[k]  b == s[k + 1]
  <2>1. k \in 1 .. n /\ k + 1 \in 1 .. n /\ k + 1 \in 2 .. n /\ (k + 1) - 1 = k
    OBVIOUS
  <2>2. f[k + 1] = a \o b
    BY <2>1 DEF Flattening
  <2>3. b \in Seq(T) /\ Len(b) = 1 /\ b[1] = x[k + 1]
    BY <1>0, <2>1
  <2>4. a = [j \in 1 .. k |-> x[j]]
    BY <1>2
  <2>5. a \in Seq(T) /\ Len(a) = k
    <3>1. \A j \in 1 .. k : x[j] \in T
      BY <2>1 DEF T
    <3>2. a \in [1 .. k -> T]
      BY <2>4, <3>1
    <3>3. a \in Seq(T)
      BY <2>1, <3>2
    <3> QED BY <2>1, <2>4, <3>3
  <2>6. PICK e : e = [j \in 1 .. k + 1 |-> x[j]]
    OBVIOUS
  <2>7. Joins(e, a, b)
    <3>1. DOMAIN e = 1 .. Len(a) + Len(b) /\ Len(e) = Len(a) + Len(b)
      BY <2>1, <2>3, <2>5, <2>6
    <3>2. \A i \in 1 .. Len(a) : e[i] = a[i]
      BY <2>1, <2>4, <2>5, <2>6
    <3>3. \A i \in 1 .. Len(b) : e[Len(a) + i] = b[i]
      BY <2>1, <2>3, <2>5, <2>6
    <3> QED BY <3>1, <3>2, <3>3 DEF Joins
  <2>8. e = [i \in DOMAIN e |-> e[i]]
    BY <2>6
  <2> HIDE DEF a, b
  <2>9. a \o b = e
    BY <2>3, <2>5, <2>7, <2>8, IsJoin
  <2> QED BY <2>1, <2>2, <2>6, <2>9
<1> HIDE DEF G
<1>3. \A k \in 1 .. n : k \in G
  BY <1>1, <1>2, UpTo
<1> QED BY <1>3 DEF G

-----------------------------------------------------------------------------
(* The same of FlattenSeq. *)
LEMMA FlattenOfNone == ASSUME NEW s, Len(s) = 0 PROVE FlattenSeq(s) = s
  BY DEF FlattenSeq
LEMMA ListsOf ==
    ASSUME NEW T, NEW s \in Seq(Seq(T))
    PROVE  /\ Len(s) \in Nat /\ DOMAIN s = 1 .. Len(s) /\ \A i \in 1 .. Len(s) : s[i] \in Seq(T)
           /\ Len(s) = 0 => s = <<>>
           /\ Len(s) # 0 => \E f : Flattening(f, s, Len(s)) /\ FlattenSeq(s) = f[Len(s)] /\ Len(s) \in 1 .. Len(s)
<1>1. Len(s) \in Nat /\ DOMAIN s = 1 .. Len(s) /\ \A i \in 1 .. Len(s) : s[i] \in Seq(T)
  BY LenProperties
<1>2. Len(s) # 0 => \E f : Flattening(f, s, Len(s)) /\ FlattenSeq(s) = f[Len(s)]
  BY <1>1, FlattenUnfolds
<1>3. Len(s) = 0 => s = <<>>
  OBVIOUS
<1>4. Len(s) # 0 => Len(s) \in 1 .. Len(s)
  BY <1>1
<1> QED BY <1>1, <1>2, <1>3, <1>4
LEMMA FlattenIsSeq == ASSUME NEW T, NEW s \in Seq(Seq(T)) PROVE FlattenSeq(s) \in Seq(T)
<1>1. CASE Len(s) = 0
  <2>1. FlattenSeq(s) = <<>>
    BY <1>1, ListsOf, FlattenOfNone
  <2> QED BY <2>1
<1>2. CASE Len(s) # 0
  <2>1. PICK f : Flattening(f, s, Len(s)) /\ FlattenSeq(s) = f[Len(s)] /\ Len(s) \in 1 .. Len(s)
    BY <1>2, ListsOf
  <2>2. \A i \in 1 .. Len(s) : f[i] \in Seq(T)
    BY <2>1, ListsOf, FlatteningIsSeq
  <2> QED BY <2>1, <2>2
<1> QED BY <1>1, <1>2
LEMMA FlattenMaps ==
    ASSUME NEW T, NEW s \in Seq(Seq(T)), NEW m, NEW u, DOMAIN u = DOMAIN s, u = [i \in DOMAIN s |-> u[i]],
           \A i \in DOMAIN s : u[i] = Through(m, s[i])
    PROVE  FlattenSeq(u) = Through(m, FlattenSeq(s))
<1>0. Len(u) = Len(s)
  BY ListsOf
<1>1. CASE Len(s) = 0
  <2>1. FlattenSeq(s) = <<>> /\ DOMAIN s = {}
    BY <1>1, ListsOf, FlattenOfNone
  <2>2. FlattenSeq(u) = u
    BY <1>0, <1>1, FlattenOfNone
  <2>3. u = [i \in {} |-> u[i]] /\ Through(m, <<>>) = [i \in {} |-> m[<<>>[i]]]
    BY <2>1 DEF Through
  <2> QED BY <2>1, <2>2, <2>3
<1>2. CASE Len(s) # 0
  <2>1. PICK f : Flattening(f, s, Len(s)) /\ FlattenSeq(s) = f[Len(s)] /\ Len(s) \in 1 .. Len(s)
    BY <1>2, ListsOf
  <2>2. PICK n \in Nat \ {0} : n = Len(s)
    BY <1>2, ListsOf
  <2>3. PICK g : Flattening(g, u, n) /\ FlattenSeq(u) = g[n]
    BY <2>2, <1>0, FlattenUnfolds
  <2>4. (\A i \in 1 .. n : s[i] \in Seq(T)) /\ AllThrough(u, m, s, n)
    BY <2>2, ListsOf DEF AllThrough
  <2>5. \A i \in 1 .. n : g[i] = Through(m, f[i])
    <3>1. Flattening(f, s, n)
      BY <2>1, <2>2
    <3> QED BY <3>1, <2>3, <2>4, FlatteningMaps
  <2> QED BY <2>1, <2>2, <2>3, <2>5
<1> QED BY <1>1, <1>2
LEMMA FlattenHolds ==
    ASSUME NEW T, NEW s \in Seq(Seq(T)), NEW h \in DOMAIN s
    PROVE  Within(s[h], FlattenSeq(s))
<1>1. Len(s) # 0 /\ h \in 1 .. Len(s)
  BY ListsOf
<1>2. PICK f : Flattening(f, s, Len(s)) /\ FlattenSeq(s) = f[Len(s)] /\ Len(s) \in 1 .. Len(s)
  BY <1>1, ListsOf
<1>3. \A i \in 1 .. Len(s) : \A k \in 1 .. i : Within(s[k], f[i])
  BY <1>2, ListsOf, FlatteningHolds
<1> QED BY <1>1, <1>2, <1>3
LEMMA FlattenCounts ==
    ASSUME NEW T, NEW s \in Seq(Seq(T)), NEW c, c[0] = 0, \A i \in 1 .. Len(s) : c[i] = c[i - 1] + Len(s[i])
    PROVE  Len(FlattenSeq(s)) = c[Len(s)]
<1>1. CASE Len(s) = 0
  <2>1. FlattenSeq(s) = <<>>
    BY <1>1, ListsOf, FlattenOfNone
  <2> QED BY <1>1, <2>1
<1>2. CASE Len(s) # 0
  <2>1. PICK f : Flattening(f, s, Len(s)) /\ FlattenSeq(s) = f[Len(s)] /\ Len(s) \in 1 .. Len(s)
    BY <1>2, ListsOf
  <2>2. PICK n \in Nat : n = Len(s)
    BY ListsOf
  <2>3. Flattening(f, s, n) /\ \A i \in 1 .. n : s[i] \in Seq(T)
    BY <2>1, <2>2, ListsOf
  <2>4. \A i \in 1 .. n : c[i] = c[i - 1] + Len(s[i])
    BY <2>2
  <2>5. \A i \in 1 .. n : Len(f[i]) = c[i]
    BY <2>3, <2>4, FlatteningCounts, SMTT(30)
  <2> QED BY <2>1, <2>2, <2>5
<1> QED BY <1>1, <1>2
LEMMA FlattenOfSingles ==
    ASSUME NEW n \in Nat, NEW x, NEW s, s = [i \in 1 .. n |-> <<x[i]>>]
    PROVE  FlattenSeq(s) = [i \in 1 .. n |-> x[i]]
<1>0. Len(s) = n
  OBVIOUS
<1>1. CASE n = 0
  <2>1. FlattenSeq(s) = s /\ 1 .. n = {}
    BY <1>0, <1>1, FlattenOfNone
  <2> QED BY <2>1
<1>2. CASE n # 0
  <2>1. PICK f : Flattening(f, s, n) /\ FlattenSeq(s) = f[n]
    BY <1>0, <1>2, FlattenUnfolds
  <2>2. Singles(s, x, n)
    BY DEF Singles
  <2>3. \A i \in 1 .. n : f[i] = [k \in 1 .. i |-> x[k]]
    BY <2>1, <2>2, FlatteningOfSingles
  <2>4. n \in 1 .. n
    BY <1>2
  <2> QED BY <2>1, <2>3, <2>4
<1> QED BY <1>1, <1>2

(* The places of a list whose elements are in a set. *)
Hits(e, H) == {k \in DOMAIN e : e[k] \in H}
LEMMA HitsAreFinite ==
    ASSUME NEW T, NEW e \in Seq(T), NEW H
    PROVE  IsFiniteSet(Hits(e, H)) /\ Cardinality(Hits(e, H)) \in Nat
<1>1. DOMAIN e = 1 .. Len(e) /\ Len(e) \in Nat
  OBVIOUS
<1>2. IsFiniteSet(1 .. Len(e))
  BY <1>1, FS_Interval
<1> QED BY <1>1, <1>2, FS_Subset, FS_CardinalityType DEF Hits
LEMMA HitsOfJoin ==
    ASSUME NEW T, NEW a \in Seq(T), NEW b \in Seq(T), NEW H
    PROVE  Cardinality(Hits(a \o b, H)) = Cardinality(Hits(a, H)) + Cardinality(Hits(b, H))
<1>1. PICK e : e = a \o b
  OBVIOUS
<1>2. Joins(e, a, b) /\ e \in Seq(T)
  BY <1>1, Joined
<1>3. PICK n \in Nat : n = Len(a)
  OBVIOUS
<1>4. DOMAIN a = 1 .. n /\ DOMAIN b = 1 .. Len(b) /\ Len(b) \in Nat
  BY <1>3
<1>5. PICK moved : moved = {n + i : i \in Hits(b, H)}
  OBVIOUS
<1>6. IsFiniteSet(moved) /\ Cardinality(moved) = Cardinality(Hits(b, H))
  <2>1. PICK f : f = [i \in Hits(b, H) |-> n + i]
    OBVIOUS
  <2>2. f \in [Hits(b, H) -> moved] /\ \A x \in moved : \E i \in Hits(b, H) : f[i] = x
    BY <1>5, <2>1
  <2>3. \A i, j \in Hits(b, H) : f[i] = f[j] => i = j
    BY <1>4, <2>1 DEF Hits
  <2>4. f \in Bijection(Hits(b, H), moved)
    BY <2>2, <2>3 DEF Bijection, Injection, Surjection, IsInjective
  <2>5. IsFiniteSet(Hits(b, H))
    BY HitsAreFinite
  <2> QED BY <2>4, <2>5, FS_Bijection DEF ExistsBijection
<1>7. Hits(a, H) \cap moved = {}
  <2> SUFFICES ASSUME NEW i \in Hits(b, H), n + i \in Hits(a, H) PROVE FALSE
    BY <1>5
  <2>1. i \in 1 .. Len(b) /\ n + i \in 1 .. n
    BY <1>4 DEF Hits
  <2> QED BY <2>1
<1>8. Hits(e, H) = Hits(a, H) \cup moved
  <2>1. ASSUME NEW k \in Hits(e, H) PROVE k \in Hits(a, H) \cup moved
    <3>1. k \in 1 .. n + Len(b) /\ e[k] \in H
      BY <1>2, <1>3 DEF Joins, Hits
    <3>2. CASE k <= n
      <4>1. k \in 1 .. n
        BY <3>1, <3>2
      <4>2. e[k] = a[k]
        BY <1>2, <1>3, <4>1 DEF Joins
      <4> QED BY <1>4, <3>1, <4>1, <4>2 DEF Hits
    <3>3. CASE ~(k <= n)
      <4>1. PICK i \in 1 .. Len(b) : k = n + i
        <5>1. k - n \in 1 .. Len(b) /\ k = n + (k - n)
          BY <1>4, <3>1, <3>3
        <5> QED BY <5>1
      <4>2. e[k] = b[i]
        BY <1>2, <1>3, <4>1 DEF Joins
      <4>3. i \in Hits(b, H)
        BY <1>4, <3>1, <4>1, <4>2 DEF Hits
      <4> QED BY <1>5, <4>1, <4>3
    <3> QED BY <3>2, <3>3
  <2>2. ASSUME NEW k \in Hits(a, H) PROVE k \in Hits(e, H)
    <3>1. k \in 1 .. n /\ a[k] \in H
      BY <1>4 DEF Hits
    <3>2. k \in 1 .. n + Len(b)
      BY <1>4, <3>1
    <3>3. e[k] = a[k] /\ k \in DOMAIN e
      BY <1>2, <1>3, <3>1, <3>2 DEF Joins
    <3> QED BY <3>1, <3>3 DEF Hits
  <2>3. ASSUME NEW i \in Hits(b, H) PROVE n + i \in Hits(e, H)
    <3>1. i \in 1 .. Len(b) /\ b[i] \in H
      BY <1>4 DEF Hits
    <3>2. n + i \in 1 .. n + Len(b)
      BY <1>4, <3>1
    <3>3. e[n + i] = b[i] /\ n + i \in DOMAIN e
      BY <1>2, <1>3, <3>1, <3>2 DEF Joins
    <3> QED BY <3>1, <3>3 DEF Hits
  <2> QED BY <1>5, <2>1, <2>2, <2>3
<1>9. IsFiniteSet(Hits(a, H)) /\ Cardinality(Hits(a, H)) \in Nat /\ Cardinality(Hits(b, H)) \in Nat
  BY HitsAreFinite
<1>10. PICK own : own = Hits(a, H)
  OBVIOUS
<1>11. Cardinality(own \cup moved) = Cardinality(own) + Cardinality(moved) - Cardinality(own \cap moved)
  BY <1>6, <1>9, <1>10, FS_Union
<1>12. Cardinality(own \cap moved) = 0
  BY <1>7, <1>10, FS_EmptySet
<1>13. Cardinality(own \cup moved) = Cardinality(own) + Cardinality(moved)
  BY <1>6, <1>9, <1>10, <1>11, <1>12
<1> QED BY <1>1, <1>6, <1>8, <1>10, <1>13
Tally(c, s, H, n) == c[0] = 0 /\ \A i \in 1 .. n : c[i] = c[i - 1] + Cardinality(Hits(s[i], H))
LEMMA FlatteningHits ==
    ASSUME NEW n \in Nat, NEW s, NEW f, NEW T, NEW H, NEW c, Flattening(f, s, n), \A i \in 1 .. n : s[i] \in Seq(T),
           Tally(c, s, H, n)
    PROVE  \A i \in 1 .. n : Cardinality(Hits(f[i], H)) = c[i]
<1> DEFINE G == {i \in 1 .. n : Cardinality(Hits(f[i], H)) = c[i]}
<1>0. \A i \in 1 .. n : f[i] \in Seq(T)
  BY FlatteningIsSeq
<1>1. n > 0 => 1 \in G
  <2> SUFFICES ASSUME n > 0 PROVE 1 \in G
    OBVIOUS
  <2>1. 1 \in 1 .. n /\ 1 - 1 = 0
    OBVIOUS
  <2>2. c[0] = 0 /\ c[1] = c[0] + Cardinality(Hits(s[1], H))
    BY <2>1 DEF Tally
  <2>3. Cardinality(Hits(s[1], H)) \in Nat
    BY <2>1, HitsAreFinite
  <2>4. f[1] = s[1]
    BY DEF Flattening
  <2> QED BY <2>1, <2>2, <2>3, <2>4
<1>2. ASSUME NEW k \in 1 .. n - 1, k \in G
      PROVE  k + 1 \in G
  <2>1. k \in 1 .. n /\ k + 1 \in 1 .. n /\ k + 1 \in 2 .. n /\ (k + 1) - 1 = k
    OBVIOUS
  <2>2. f[k + 1] = f[k] \o s[k + 1]
    BY <2>1 DEF Flattening
  <2>3. c[k + 1] = c[k] + Cardinality(Hits(s[k + 1], H))
    BY <2>1 DEF Tally
  <2>4. f[k] \in Seq(T) /\ s[k + 1] \in Seq(T)
    BY <1>0, <2>1
  <2>5. Cardinality(Hits(f[k + 1], H)) = Cardinality(Hits(f[k], H)) + Cardinality(Hits(s[k + 1], H))
    BY <2>2, <2>4, HitsOfJoin
  <2>6. Cardinality(Hits(f[k], H)) = c[k]
    BY <1>2
  <2> QED BY <2>1, <2>3, <2>5, <2>6
<1> HIDE DEF G
<1>3. \A k \in 1 .. n : k \in G
  BY <1>1, <1>2, UpTo
<1> QED BY <1>3 DEF G
LEMMA FlattenHits ==
    ASSUME NEW T, NEW s \in Seq(Seq(T)), NEW H, NEW c, Tally(c, s, H, Len(s))
    PROVE  Cardinality(Hits(FlattenSeq(s), H)) = c[Len(s)]
<1>1. CASE Len(s) = 0
  <2>1. FlattenSeq(s) = s /\ DOMAIN s = {}
    BY <1>1, ListsOf, FlattenOfNone
  <2>2. Hits(FlattenSeq(s), H) = {}
    BY <2>1 DEF Hits
  <2> QED BY <1>1, <2>2, FS_EmptySet DEF Tally
<1>2. CASE Len(s) # 0
  <2>1. PICK f : Flattening(f, s, Len(s)) /\ FlattenSeq(s) = f[Len(s)] /\ Len(s) \in 1 .. Len(s)
    BY <1>2, ListsOf
  <2>2. PICK n \in Nat : n = Len(s)
    BY ListsOf
  <2>3. Flattening(f, s, n) /\ \A i \in 1 .. n : s[i] \in Seq(T)
    BY <2>1, <2>2, ListsOf
  <2>4. Tally(c, s, H, n)
    BY <2>2
  <2>5. \A i \in 1 .. n : Cardinality(Hits(f[i], H)) = c[i]
    BY <2>3, <2>4, FlatteningHits
  <2> QED BY <2>1, <2>2, <2>5
<1> QED BY <1>1, <1>2

(* A running sum exists. *)
Sums(f, h, n) == f = [i \in 0 .. n |-> IF i = 0 THEN 0 ELSE f[i - 1] + h[i]]
LEMMA SumExists == ASSUME NEW n \in Nat, NEW h PROVE \E f : Sums(f, h, n)
<1> DEFINE P(m) == \E f : Sums(f, h, m - 1)
           G == {m \in 1 .. n + 1 : P(m)}
<1>1. P(1)
  <2> DEFINE g == [i \in 0 .. 0 |-> 0]
  <2>1. Sums(g, h, 0)
    <3>1. \A i \in 0 .. 0 : g[i] = IF i = 0 THEN 0 ELSE g[i - 1] + h[i]
      OBVIOUS
    <3> QED BY <3>1 DEF Sums
  <2> HIDE DEF g
  <2>2. 1 - 1 = 0
    OBVIOUS
  <2> QED BY <2>1, <2>2
<1>2. ASSUME NEW k \in 1 .. n, P(k)
      PROVE  P(k + 1)
  <2>1. PICK f : Sums(f, h, k - 1)
    BY <1>2
  <2> DEFINE g == [i \in 0 .. k |-> IF i = k THEN f[k - 1] + h[k] ELSE f[i]]
  <2>2. ASSUME NEW i \in 0 .. k
        PROVE  g[i] = IF i = 0 THEN 0 ELSE g[i - 1] + h[i]
    <3>1. CASE i = k
      <4>1. g[i - 1] = f[k - 1] /\ i # 0
        BY <3>1
      <4> QED BY <3>1, <4>1
    <3>2. CASE i # k
      <4>1. i \in 0 .. k - 1 /\ (i # 0 => i - 1 \in 0 .. k - 1)
        BY <3>2
      <4>2. f[i] = IF i = 0 THEN 0 ELSE f[i - 1] + h[i]
        BY <2>1, <4>1 DEF Sums
      <4>3. g[i] = f[i] /\ (i # 0 => g[i - 1] = f[i - 1])
        BY <3>2, <4>1
      <4> QED BY <4>2, <4>3
    <3> QED BY <3>1, <3>2
  <2>3. Sums(g, h, k)
    BY <2>2 DEF Sums
  <2> HIDE DEF g
  <2>4. (k + 1) - 1 = k
    OBVIOUS
  <2> QED BY <2>3, <2>4
<1> HIDE DEF P
<1>3. 1 \in G
  BY <1>1
<1>4. ASSUME NEW k \in 1 .. (n + 1) - 1, k \in G
      PROVE  k + 1 \in G
  <2>1. k + 1 \in 1 .. n + 1 /\ P(k) /\ k \in 1 .. n
    BY <1>4
  <2> QED BY <1>2, <2>1
<1> HIDE DEF G
<1>5. \A k \in 1 .. n + 1 : k \in G
  <2>1. n + 1 \in Nat
    OBVIOUS
  <2> QED BY <2>1, <1>3, <1>4, UpTo
<1>6. n + 1 \in G
  BY <1>5
<1>7. (n + 1) - 1 = n
  OBVIOUS
<1> QED BY <1>6, <1>7 DEF G, P
-----------------------------------------------------------------------------
(* Induction over the subsets of a finite set. *)
LEMMA BySubsets ==
    ASSUME NEW S, IsFiniteSet(S), NEW G,
           \A s \in SUBSET S : (\A r \in SUBSET s : r # s => r \in G) => s \in G
    PROVE  \A s \in SUBSET S : s \in G
<1> DEFINE bad == {s \in SUBSET S : s \notin G}
           sizes == {Cardinality(s) : s \in bad}
<1> SUFFICES ASSUME bad # {} PROVE FALSE
  OBVIOUS
<1>1. \A s \in SUBSET S : IsFiniteSet(s) /\ Cardinality(s) \in Nat
  BY FS_Subset, FS_CardinalityType
<1>2. sizes \in SUBSET Nat /\ sizes # {}
  BY <1>1
<1>3. PICK k \in sizes : \A x \in sizes : k <= x
  BY <1>2, LeastOf
<1>4. PICK s \in bad : Cardinality(s) = k
  BY <1>3
<1>5. ASSUME NEW r \in SUBSET s, r # s PROVE r \in G
  <2>1. IsFiniteSet(s) /\ r \in SUBSET S /\ Cardinality(r) \in Nat /\ k \in Nat
    BY <1>1, <1>4
  <2>2. Cardinality(r) <= k /\ Cardinality(r) # k
    BY <1>4, <1>5, <2>1, FS_Subset
  <2>3. r \notin bad
    BY <1>3, <2>1, <2>2
  <2> QED BY <2>1, <2>3
<1> QED BY <1>4, <1>5

(* A fold over a finite set goes through its subsets, taking one element at a time. *)
OneOf(s) == CHOOSE x \in s : TRUE
Folding(g, step, base, D) ==
    \A s \in D : g[s] = IF s = {} THEN base ELSE step[<<OneOf(s), g[s \ {OneOf(s)}]>>]
Smaller(S, n) == {s \in SUBSET S : Cardinality(s) < n}
HasFold(step, base, S, V) == \E g \in [SUBSET S -> V] : Folding(g, step, base, SUBSET S)
LEMMA FoldExists ==
    ASSUME NEW S, IsFiniteSet(S), NEW V, NEW base \in V, NEW step \in [S \X V -> V]
    PROVE  HasFold(step, base, S, V)
<1> DEFINE P(n) == \E g \in [Smaller(S, n) -> V] : Folding(g, step, base, Smaller(S, n))
           N == Cardinality(S) + 1
           G == {n \in 1 .. N : P(n)}
<1>0. /\ Cardinality(S) \in Nat /\ N \in Nat
      /\ \A s \in SUBSET S : IsFiniteSet(s) /\ Cardinality(s) \in Nat /\ Cardinality(s) <= Cardinality(S)
  BY FS_Subset, FS_CardinalityType
<1>1. P(1)
  <2>1. PICK g : g = [s \in Smaller(S, 1) |-> base]
    OBVIOUS
  <2>2. \A s \in Smaller(S, 1) : s = {}
    BY <1>0, FS_EmptySet DEF Smaller
  <2>3. g \in [Smaller(S, 1) -> V] /\ Folding(g, step, base, Smaller(S, 1))
    BY <2>1, <2>2 DEF Folding
  <2> QED BY <2>3
<1>2. ASSUME NEW n \in 1 .. N - 1, P(n)
      PROVE  P(n + 1)
  <2>1. PICK g \in [Smaller(S, n) -> V] : Folding(g, step, base, Smaller(S, n))
    BY <1>2
  <2>2. PICK h : h = [s \in Smaller(S, n + 1) |->
                        IF s = {} THEN base ELSE step[<<OneOf(s), g[s \ {OneOf(s)}]>>]]
    OBVIOUS
  <2>3. ASSUME NEW s \in Smaller(S, n + 1), s # {}
        PROVE  OneOf(s) \in S /\ s \ {OneOf(s)} \in Smaller(S, n)
    <3>1. s \in SUBSET S /\ Cardinality(s) < n + 1 /\ OneOf(s) \in s
      BY <2>3 DEF Smaller, OneOf
    <3>2. Cardinality(s \ {OneOf(s)}) = Cardinality(s) - 1
      BY <1>0, <3>1, FS_RemoveElement
    <3> QED BY <1>0, <3>1, <3>2 DEF Smaller
  <2>4. h \in [Smaller(S, n + 1) -> V]
    <3>1. ASSUME NEW s \in Smaller(S, n + 1) PROVE h[s] \in V
      <4>1. CASE s = {}
        BY <2>2, <4>1
      <4>2. CASE s # {}
        BY <2>2, <2>3, <4>2
      <4> QED BY <4>1, <4>2
    <3> QED BY <2>2, <3>1
  <2>5. \A s \in Smaller(S, n) : s \in Smaller(S, n + 1)
    BY <1>0 DEF Smaller
  <2>6. \A s \in Smaller(S, n) : h[s] = g[s]
    BY <2>1, <2>2, <2>5 DEF Folding
  <2>7. Folding(h, step, base, Smaller(S, n + 1))
    BY <2>2, <2>3, <2>6 DEF Folding
  <2> QED BY <2>4, <2>7
<1> HIDE DEF P, N
<1>3. 1 \in G
  BY <1>0, <1>1 DEF N
<1>4. \A k \in 1 .. N - 1 : k \in G => k + 1 \in G
  BY <1>0, <1>2
<1> HIDE DEF G
<1>5. N \in G
  BY <1>0, <1>3, <1>4, UpTo DEF N
<1>6. Smaller(S, N) = SUBSET S
  BY <1>0 DEF Smaller, N
<1> QED BY <1>5, <1>6 DEF G, P, HasFold

-----------------------------------------------------------------------------
(* Sums of finitely many integers: the order does not matter. *)
Adding(g, f, S) ==
    /\ g \in [SUBSET S -> Int]
    /\ \A s \in SUBSET S : g[s] = IF s = {} THEN 0 ELSE f[OneOf(s)] + g[s \ {OneOf(s)}]
LEMMA AddingExists ==
    ASSUME NEW S, IsFiniteSet(S), NEW f \in [S -> Int]
    PROVE  \E g : Adding(g, f, S)
<1>1. PICK step : step = [p \in S \X Int |-> f[p[1]] + p[2]]
  OBVIOUS
<1>2. step \in [S \X Int -> Int]
  BY <1>1
<1>3. PICK g \in [SUBSET S -> Int] : Folding(g, step, 0, SUBSET S)
  <2>1. PICK V : V = Int
    OBVIOUS
  <2>2. PICK z \in V : z = 0
    BY <2>1
  <2>3. step \in [S \X V -> V]
    BY <1>2, <2>1
  <2>4. HasFold(step, z, S, V)
    BY <2>3, FoldExists
  <2> QED BY <2>1, <2>2, <2>4 DEF HasFold
<1>4. ASSUME NEW s \in SUBSET S, s # {} PROVE g[s] = f[OneOf(s)] + g[s \ {OneOf(s)}]
  <2>1. OneOf(s) \in S /\ s \ {OneOf(s)} \in SUBSET S
    BY <1>4 DEF OneOf
  <2>2. g[s] = step[<<OneOf(s), g[s \ {OneOf(s)}]>>]
    BY <1>3, <1>4 DEF Folding
  <2> QED BY <1>1, <2>1, <2>2
<1> QED BY <1>3, <1>4 DEF Adding, Folding
LEMMA SumIsAdded ==
    ASSUME NEW S, IsFiniteSet(S), NEW f \in [S -> Int]
    PROVE  \E g : Adding(g, f, S) /\ SumFunction(f) = g[S]
<1> DEFINE c == CHOOSE g : g = [s \in SUBSET S |-> IF s = {} THEN 0
                                  ELSE f[CHOOSE x \in s : TRUE] + g[s \ {CHOOSE x \in s : TRUE}]]
<1>1. PICK g : Adding(g, f, S)
  BY AddingExists
<1>2. g = [s \in SUBSET S |-> IF s = {} THEN 0
                                  ELSE f[CHOOSE x \in s : TRUE] + g[s \ {CHOOSE x \in s : TRUE}]]
  BY <1>1 DEF Adding, OneOf
<1>3. c = [s \in SUBSET S |-> IF s = {} THEN 0
                                  ELSE f[CHOOSE x \in s : TRUE] + c[s \ {CHOOSE x \in s : TRUE}]]
  BY <1>2
<1>4. SumFunction(f) = c[S]
  BY DEF SumFunction, SumFunctionOnSet, FoldFunctionOnSet, MapThenFoldSet
<1> HIDE DEF c
<1> DEFINE G == {s \in SUBSET S : c[s] \in Int}
<1>5. ASSUME NEW s \in SUBSET S, \A r \in SUBSET s : r # s => r \in G PROVE s \in G
  <2>1. CASE s = {}
    BY <1>3, <2>1
  <2>2. CASE s # {}
    <3>1. PICK x : x = CHOOSE y \in s : TRUE
      OBVIOUS
    <3>2. x \in s /\ s \ {x} \in SUBSET s /\ s \ {x} # s
      BY <2>2, <3>1
    <3>3. c[s \ {x}] \in Int /\ f[x] \in Int
      BY <1>5, <3>2
    <3>4. c[s] = f[x] + c[s \ {x}]
      BY <1>3, <2>2, <3>1
    <3> QED BY <3>3, <3>4
  <2> QED BY <2>1, <2>2
<1> HIDE DEF G
<1>6. \A s \in SUBSET S : s \in G
  BY <1>5, BySubsets
<1>7. Adding(c, f, S)
  BY <1>3, <1>6 DEF Adding, OneOf, G
<1> QED BY <1>4, <1>7
AnyOrder(g, f, S) == \A s \in SUBSET S : \A x \in s : g[s] = f[x] + g[s \ {x}]
LEMMA AddsAny ==
    ASSUME NEW S, IsFiniteSet(S), NEW f \in [S -> Int], NEW g, Adding(g, f, S)
    PROVE  AnyOrder(g, f, S)
<1> DEFINE G == {s \in SUBSET S : \A x \in s : g[s] = f[x] + g[s \ {x}]}
<1>1. ASSUME NEW s \in SUBSET S, \A r \in SUBSET s : r # s => r \in G, NEW x \in s
      PROVE  g[s] = f[x] + g[s \ {x}]
  <2>1. PICK y : y = OneOf(s)
    OBVIOUS
  <2>2. y \in s /\ g[s] = f[y] + g[s \ {y}]
    BY <2>1 DEF Adding, OneOf
  <2>3. CASE y = x
    BY <2>2, <2>3
  <2>4. CASE y # x
    <3>1. /\ s \ {y} \in G /\ s \ {x} \in G /\ x \in s \ {y} /\ y \in s \ {x}
          /\ (s \ {y}) \ {x} = (s \ {x}) \ {y}
      BY <1>1, <2>2, <2>4
    <3>2. PICK r : r = (s \ {y}) \ {x}
      OBVIOUS
    <3>3. g[s \ {y}] = f[x] + g[r] /\ g[s \ {x}] = f[y] + g[r]
      BY <3>1, <3>2
    <3>4. g[r] \in Int /\ f[x] \in Int /\ f[y] \in Int
      BY <2>2, <3>2 DEF Adding
    <3> QED BY <2>2, <3>3, <3>4
  <2> QED BY <2>3, <2>4
<1>2. \A s \in SUBSET S : (\A r \in SUBSET s : r # s => r \in G) => s \in G
  BY <1>1
<1> HIDE DEF G
<1>3. \A s \in SUBSET S : s \in G
  BY <1>2, BySubsets
<1> QED BY <1>3 DEF G, AnyOrder
(* What is added up over a part depends on the part only. *)
LEMMA AddingAgrees ==
    ASSUME NEW S, IsFiniteSet(S), NEW f \in [S -> Int], NEW g, Adding(g, f, S),
           NEW T \in SUBSET S, NEW h, Adding(h, [x \in T |-> f[x]], T)
    PROVE  h[T] = g[T]
<1> DEFINE G == {s \in SUBSET T : h[s] = g[s]}
<1>0. IsFiniteSet(T)
  BY FS_Subset
<1>1. ASSUME NEW s \in SUBSET T, \A r \in SUBSET s : r # s => r \in G PROVE h[s] = g[s]
  <2>1. CASE s = {}
    BY <2>1 DEF Adding
  <2>2. CASE s # {}
    <3>1. PICK y : y = OneOf(s)
      OBVIOUS
    <3>2. y \in s /\ s \ {y} \in G
      BY <1>1, <2>2, <3>1 DEF OneOf
    <3>3. g[s] = f[y] + g[s \ {y}] /\ h[s] = f[y] + h[s \ {y}]
      BY <2>2, <3>1, <3>2 DEF Adding
    <3> QED BY <3>2, <3>3
  <2> QED BY <2>1, <2>2
<1>2. \A s \in SUBSET T : (\A r \in SUBSET s : r # s => r \in G) => s \in G
  BY <1>1
<1> HIDE DEF G
<1>3. \A s \in SUBSET T : s \in G
  BY <1>0, <1>2, BySubsets
<1> QED BY <1>3 DEF G

LEMMA SumOfNone == ASSUME NEW f, DOMAIN f = {} PROVE SumFunction(f) = 0
<1>1. f \in [{} -> Int] /\ IsFiniteSet({})
  BY FS_EmptySet
<1>2. PICK g : Adding(g, f, {}) /\ SumFunction(f) = g[{}]
  BY <1>1, SumIsAdded
<1> QED BY <1>2 DEF Adding
LEMMA SumIsInt ==
    ASSUME NEW S, IsFiniteSet(S), NEW f \in [S -> Int]
    PROVE  SumFunction(f) \in Int
<1>1. PICK g : Adding(g, f, S) /\ SumFunction(f) = g[S]
  BY SumIsAdded
<1> QED BY <1>1 DEF Adding
Without(f, x) == [y \in (DOMAIN f) \ {x} |-> f[y]]
LEMMA SumTakesOne ==
    ASSUME NEW S, IsFiniteSet(S), NEW f \in [S -> Int], NEW x \in S
    PROVE  SumFunction(f) = f[x] + SumFunction(Without(f, x))
<1>0. PICK T : T = S \ {x}
  OBVIOUS
<1>1. PICK r : r = [y \in T |-> f[y]]
  OBVIOUS
<1>2. r = Without(f, x) /\ r \in [T -> Int] /\ IsFiniteSet(T) /\ T \in SUBSET S
  BY <1>0, <1>1, FS_Subset DEF Without
<1>3. PICK g : Adding(g, f, S) /\ SumFunction(f) = g[S]
  BY SumIsAdded
<1>4. PICK h : Adding(h, r, T) /\ SumFunction(r) = h[T]
  BY <1>2, SumIsAdded
<1>5. g[S] = f[x] + g[T]
  BY <1>0, <1>3, AddsAny DEF AnyOrder
<1>6. h[T] = g[T]
  BY <1>1, <1>2, <1>3, <1>4, AddingAgrees
<1> QED BY <1>2, <1>3, <1>4, <1>5, <1>6
LEMMA SumIsNat ==
    ASSUME NEW S, IsFiniteSet(S), NEW f \in [S -> Nat]
    PROVE  SumFunction(f) \in Nat
<1>1. f \in [S -> Int]
  OBVIOUS
<1>2. PICK g : Adding(g, f, S) /\ SumFunction(f) = g[S]
  BY <1>1, SumIsAdded
<1> DEFINE G == {s \in SUBSET S : g[s] \in Nat}
<1>3. ASSUME NEW s \in SUBSET S, \A r \in SUBSET s : r # s => r \in G PROVE g[s] \in Nat
  <2>1. CASE s = {}
    <3>1. g[s] = 0
      BY <1>2, <2>1 DEF Adding
    <3> QED BY <3>1
  <2>2. CASE s # {}
    <3>1. PICK y : y = OneOf(s)
      OBVIOUS
    <3>2. y \in s /\ s \ {y} \in G
      BY <1>3, <2>2, <3>1 DEF OneOf
    <3>3. g[s] = f[y] + g[s \ {y}] /\ f[y] \in Nat
      BY <1>2, <2>2, <3>1, <3>2 DEF Adding
    <3> QED BY <3>2, <3>3
  <2> QED BY <2>1, <2>2
<1>4. \A s \in SUBSET S : (\A r \in SUBSET s : r # s => r \in G) => s \in G
  BY <1>3
<1> HIDE DEF G
<1>5. \A s \in SUBSET S : s \in G
  BY <1>4, BySubsets
<1> QED BY <1>2, <1>5 DEF G
(* Over 1 .. n the running sum adds up the same. *)
LEMMA SumRuns ==
    ASSUME NEW n \in Nat, NEW h \in [1 .. n -> Int], NEW c, c[0] = 0, \A i \in 1 .. n : c[i] = c[i - 1] + h[i]
    PROVE  SumFunction(h) = c[n]
<1>0. IsFiniteSet(1 .. n)
  BY FS_Interval
<1>1. PICK g : Adding(g, h, 1 .. n) /\ SumFunction(h) = g[1 .. n]
  BY <1>0, SumIsAdded
<1> DEFINE G == {k \in 1 .. n : g[1 .. k] = c[k]}
<1>2. g[{}] = 0
  BY <1>1 DEF Adding
<1>3. ASSUME NEW k \in 1 .. n PROVE g[1 .. k] = h[k] + g[1 .. k - 1]
  <2>1. 1 .. k \in SUBSET (1 .. n) /\ k \in 1 .. k /\ (1 .. k) \ {k} = 1 .. k - 1
    OBVIOUS
  <2>2. PICK s \in SUBSET (1 .. n) : s = 1 .. k
    BY <2>1
  <2>3. PICK S : S = 1 .. n
    OBVIOUS
  <2>4. IsFiniteSet(S) /\ h \in [S -> Int] /\ Adding(g, h, S)
    BY <1>0, <1>1, <2>3
  <2>5. AnyOrder(g, h, S)
    BY <2>4, AddsAny
  <2>6. g[s] = h[k] + g[s \ {k}]
    BY <2>1, <2>2, <2>3, <2>5 DEF AnyOrder
  <2> QED BY <2>1, <2>2, <2>6
<1>4. ASSUME NEW k \in 1 .. n PROVE g[1 .. k] \in Int /\ h[k] \in Int
  <2>1. 1 .. k \in SUBSET (1 .. n)
    OBVIOUS
  <2> QED BY <1>1, <2>1 DEF Adding
<1>5. n > 0 => 1 \in G
  <2> SUFFICES ASSUME n > 0 PROVE 1 \in G
    OBVIOUS
  <2>1. 1 \in 1 .. n /\ 1 .. 1 - 1 = {} /\ 1 - 1 = 0
    OBVIOUS
  <2>2. g[1 .. 1] = h[1] + g[1 .. 1 - 1] /\ h[1] \in Int
    BY <1>3, <1>4, <2>1
  <2>3. c[1] = c[1 - 1] + h[1]
    BY <2>1
  <2>4. g[1 .. 1] = h[1] /\ c[1] = h[1]
    BY <1>2, <2>1, <2>2, <2>3
  <2> QED BY <2>1, <2>4
<1>6. ASSUME NEW k \in 1 .. n - 1, k \in G PROVE k + 1 \in G
  <2>1. k + 1 \in 1 .. n /\ k \in 1 .. n /\ (k + 1) - 1 = k
    OBVIOUS
  <2>2. g[1 .. k + 1] = h[k + 1] + g[1 .. k] /\ g[1 .. k] = c[k] /\ g[1 .. k] \in Int /\ h[k + 1] \in Int
    BY <1>3, <1>4, <1>6, <2>1
  <2>3. c[k + 1] = c[k] + h[k + 1]
    BY <2>1
  <2>4. g[1 .. k + 1] = c[k + 1]
    BY <2>2, <2>3
  <2> QED BY <2>1, <2>4
<1> HIDE DEF G
<1>7. \A k \in 1 .. n : k \in G
  BY <1>5, <1>6, UpTo
<1>8. CASE n = 0
  <2>1. 1 .. n = {}
    BY <1>8
  <2> QED BY <1>1, <1>2, <1>8, <2>1
<1>9. CASE n # 0
  <2>1. n \in G
    BY <1>7, <1>9
  <2> QED BY <1>1, <2>1 DEF G
<1> QED BY <1>8, <1>9
(* Zeros add nothing. *)
Padded(e, f, T, S) ==
    /\ T \in SUBSET S /\ f \in [T -> Int] /\ e \in [S -> Int]
    /\ \A x \in S : e[x] = IF x \in T THEN f[x] ELSE 0
LEMMA SumOfPart ==
    ASSUME NEW S, IsFiniteSet(S), NEW T, NEW f, NEW e, Padded(e, f, T, S)
    PROVE  SumFunction(f) = SumFunction(e)
<1>0. /\ T \in SUBSET S /\ f \in [T -> Int] /\ e \in [S -> Int]
      /\ \A x \in S : e[x] = IF x \in T THEN f[x] ELSE 0
  BY DEF Padded
<1>1. IsFiniteSet(T)
  BY <1>0, FS_Subset
<1>2. PICK g : Adding(g, e, S) /\ SumFunction(e) = g[S]
  BY <1>0, SumIsAdded
<1>3. PICK h : Adding(h, f, T) /\ SumFunction(f) = h[T]
  BY <1>0, <1>1, SumIsAdded
<1>4. f = [x \in T |-> e[x]]
  BY <1>0
<1>5. h[T] = g[T]
  BY <1>0, <1>2, <1>3, <1>4, AddingAgrees
<1>6. AnyOrder(g, e, S)
  BY <1>0, <1>2, AddsAny
<1> DEFINE G == {s \in SUBSET S : g[s] = g[s \cap T]}
<1>7. ASSUME NEW s \in SUBSET S, \A r \in SUBSET s : r # s => r \in G PROVE g[s] = g[s \cap T]
  <2>1. CASE s = {}
    <3>1. s \cap T = s
      BY <2>1
    <3> QED BY <3>1
  <2>2. CASE s # {}
    <3>1. PICK y \in s : TRUE
      BY <2>2
    <3>2. PICK r \in SUBSET s : r = s \ {y}
      OBVIOUS
    <3>3. g[s] = e[y] + g[r] /\ g[r] = g[r \cap T]
      BY <1>6, <1>7, <3>2 DEF AnyOrder
    <3>4. g[r \cap T] \in Int /\ e[y] \in Int
      BY <1>0, <1>2, <3>2 DEF Adding
    <3>5. CASE y \in T
      <4>1. PICK w \in SUBSET S : w = s \cap T
        OBVIOUS
      <4>2. y \in w /\ r \cap T = w \ {y}
        BY <3>2, <3>5, <4>1
      <4>3. g[w] = e[y] + g[w \ {y}]
        BY <1>6, <4>2 DEF AnyOrder
      <4>4. g[w \ {y}] = g[r \cap T]
        BY <4>2
      <4>5. g[s \cap T] = e[y] + g[r \cap T]
        BY <4>1, <4>3, <4>4
      <4> QED BY <3>3, <4>5
    <3>6. CASE y \notin T
      <4>1. r \cap T = s \cap T
        BY <3>2, <3>6
      <4>2. e[y] = 0
        BY <1>0, <3>6
      <4>3. g[r] = g[s \cap T] /\ g[s \cap T] \in Int
        BY <3>3, <3>4, <4>1
      <4> QED BY <3>3, <4>2, <4>3
    <3> QED BY <3>5, <3>6
  <2> QED BY <2>1, <2>2
<1>8. \A s \in SUBSET S : (\A r \in SUBSET s : r # s => r \in G) => s \in G
  BY <1>7
<1> HIDE DEF G
<1>9. \A s \in SUBSET S : s \in G
  BY <1>8, BySubsets
<1>10. g[S] = g[S \cap T] /\ S \cap T = T
  BY <1>0, <1>9 DEF G
<1> QED BY <1>2, <1>3, <1>5, <1>10
LEMMA DisjointUnion ==
    ASSUME NEW A, IsFiniteSet(A), NEW B, IsFiniteSet(B), A \cap B = {}
    PROVE  /\ IsFiniteSet(A \cup B)
           /\ Cardinality(A \cup B) = Cardinality(A) + Cardinality(B)
           /\ Cardinality(A) \in Nat /\ Cardinality(B) \in Nat
<1>1. Cardinality(A) \in Nat /\ Cardinality(B) \in Nat
  BY FS_CardinalityType
<1>2. /\ IsFiniteSet(A \cup B)
      /\ Cardinality(A \cup B) = Cardinality(A) + Cardinality(B) - Cardinality(A \cap B)
  BY FS_Union
<1>3. Cardinality(A \cap B) = 0
  BY FS_EmptySet
<1> QED BY <1>1, <1>2, <1>3
(* The sizes of disjoint sets add up to the size of their union. *)
Parts(F, h, S) ==
    /\ h = [x \in S |-> h[x]]
    /\ \A x \in S : IsFiniteSet(F[x]) /\ h[x] = Cardinality(F[x])
    /\ \A x, y \in S : x # y => F[x] \cap F[y] = {}
LEMMA SumOfSizes ==
    ASSUME NEW S, IsFiniteSet(S), NEW F, NEW h, Parts(F, h, S)
    PROVE  /\ IsFiniteSet(UNION {F[x] : x \in S})
           /\ SumFunction(h) = Cardinality(UNION {F[x] : x \in S})
<1>1. /\ h = [x \in S |-> h[x]]
      /\ \A x \in S : IsFiniteSet(F[x]) /\ h[x] = Cardinality(F[x])
      /\ \A x, y \in S : x # y => F[x] \cap F[y] = {}
  BY DEF Parts
<1>2. h \in [S -> Int]
  <2>1. \A x \in S : Cardinality(F[x]) \in Nat
    BY <1>1, FS_CardinalityType
  <2>2. \A x \in S : Cardinality(F[x]) \in Int
    BY <2>1
  <2> QED BY <1>1, <2>2
<1>3. PICK g : Adding(g, h, S) /\ SumFunction(h) = g[S]
  BY <1>2, SumIsAdded
<1> DEFINE U(s) == UNION {F[x] : x \in s}
           G == {s \in SUBSET S : IsFiniteSet(U(s)) /\ g[s] = Cardinality(U(s))}
<1>4. ASSUME NEW s \in SUBSET S, \A r \in SUBSET s : r # s => r \in G
      PROVE  IsFiniteSet(U(s)) /\ g[s] = Cardinality(U(s))
  <2>1. CASE s = {}
    <3>1. U(s) = {} /\ g[s] = 0
      BY <1>3, <2>1 DEF Adding
    <3> QED BY <3>1, FS_EmptySet
  <2>2. CASE s # {}
    <3>1. PICK y : y = OneOf(s)
      OBVIOUS
    <3>2. y \in s /\ s \ {y} \in G
      BY <1>4, <2>2, <3>1 DEF OneOf
    <3>3. PICK r \in SUBSET s : r = s \ {y}
      OBVIOUS
    <3>4. g[s] = Cardinality(F[y]) + g[r] /\ IsFiniteSet(U(r)) /\ g[r] = Cardinality(U(r))
      BY <1>1, <1>3, <2>2, <3>1, <3>2, <3>3 DEF Adding
    <3>5. U(s) = F[y] \cup U(r)
      BY <3>2, <3>3
    <3>6. F[y] \cap U(r) = {}
      BY <1>1, <3>2, <3>3
    <3> HIDE DEF U
    <3>7. IsFiniteSet(F[y])
      BY <1>1, <3>2
    <3>8. /\ IsFiniteSet(F[y] \cup U(r))
          /\ Cardinality(F[y] \cup U(r)) = Cardinality(F[y]) + Cardinality(U(r))
      BY <3>4, <3>6, <3>7, DisjointUnion
    <3> QED BY <3>4, <3>5, <3>8
  <2> QED BY <2>1, <2>2
<1>5. \A s \in SUBSET S : (\A r \in SUBSET s : r # s => r \in G) => s \in G
  BY <1>4
<1> HIDE DEF G
<1>6. \A s \in SUBSET S : s \in G
  BY <1>5, BySubsets
<1>7. S \in G
  BY <1>6
<1> QED BY <1>1, <1>3, <1>7 DEF G
LEMMA FiniteImage ==
    ASSUME NEW S, IsFiniteSet(S), NEW f
    PROVE  IsFiniteSet({f[x] : x \in S})
<1>1. PICK T : T = {f[x] : x \in S}
  OBVIOUS
<1>2. PICK h : h = [x \in S |-> f[x]]
  OBVIOUS
<1>3. h \in Surjection(S, T)
  BY <1>1, <1>2 DEF Surjection
<1>4. IsFiniteSet(T)
  BY <1>3, FS_Surjection
<1> QED BY <1>1, <1>4
=============================================================================
