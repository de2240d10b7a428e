-------------------------- MODULE PersistenceProofs --------------------------
(***************************************************************************)
(* Proofs about Persistence, for every set of ids and requests, every      *)
(* capacity and every sequence of saves, failed saves, crashes and loads:  *)
(* a file that was cut short or damaged is refused, a whole one is refused *)
(* exactly when it is beyond one of the decoder's three limits, what a     *)
(* file restores is what was saved, the governor's books and its arena     *)
(* agree in every life of the service, and no handle of an earlier life is *)
(* accepted in a later one that knows of it.                               *)
(***************************************************************************)
EXTENDS Persistence, GovernorProofs, SequenceTheorems

-----------------------------------------------------------------------------
(* The order of a map's keys. *)

(* A finite set of numbers can be listed in ascending order: a member's    *)
(* place is the number of members that are not larger.                     *)
LEMMA AscendingLists ==
    ASSUME NEW S \in SUBSET Nat, IsFiniteSet(S)
    PROVE  /\ Cardinality(S) \in Nat
           /\ Ascending(S) \in [1 .. Cardinality(S) -> S]
           /\ \A x \in S : \E i \in 1 .. Cardinality(S) : Ascending(S)[i] = x
           /\ \A i, j \in 1 .. Cardinality(S) : Ascending(S)[i] = Ascending(S)[j] => i = j
<1> DEFINE n == Cardinality(S)
           Upto(x) == {y \in S : y <= x}
           place == [x \in S |-> Cardinality(Upto(x))]
<1>1. n \in Nat
  BY FS_CardinalityType
<1>2. ASSUME NEW x \in S
      PROVE  IsFiniteSet(Upto(x)) /\ place[x] \in 1 .. n
  <2>1. IsFiniteSet(Upto(x)) /\ Cardinality(Upto(x)) <= n
    BY FS_Subset
  <2>2. Cardinality(Upto(x)) \in Nat
    BY <2>1, FS_CardinalityType
  <2>3. x \in Upto(x)
    OBVIOUS
  <2>4. Cardinality(Upto(x)) # 0
    BY <2>1, <2>3, FS_EmptySet
  <2> QED BY <1>1, <2>1, <2>2, <2>4
<1>3. ASSUME NEW x \in S, NEW y \in S, x < y
      PROVE  place[x] < place[y]
  <2>1. Upto(x) \in SUBSET Upto(y)
    <3> SUFFICES ASSUME NEW z \in S, z <= x PROVE z <= y
      OBVIOUS
    <3>1. x \in Nat /\ y \in Nat /\ z \in Nat
      OBVIOUS
    <3> QED BY <1>3, <3>1
  <2>2. y \in Upto(y) /\ y \notin Upto(x)
    BY <1>3
  <2>3. /\ Cardinality(Upto(x)) <= Cardinality(Upto(y))
        /\ Cardinality(Upto(y)) # Cardinality(Upto(x))
    BY <1>2, <2>1, <2>2, FS_Subset
  <2>4. Cardinality(Upto(x)) \in Nat /\ Cardinality(Upto(y)) \in Nat
    BY <1>2, FS_CardinalityType
  <2> QED BY <2>3, <2>4
<1> HIDE DEF n
<1>4. place \in [S -> 1 .. n]
  BY <1>2
<1> HIDE DEF place
<1>5. \A x, y \in S : place[x] = place[y] => x = y
  <2> SUFFICES ASSUME NEW x \in S, NEW y \in S, place[x] = place[y], x # y PROVE FALSE
    OBVIOUS
  <2>1. x \in Nat /\ y \in Nat /\ place[x] \in Nat
    BY <1>1, <1>4
  <2>2. x < y \/ y < x
    BY <2>1
  <2> QED BY <1>3, <2>1, <2>2
<1>6. place \in Injection(S, 1 .. n)
  BY <1>4, <1>5 DEF Injection, IsInjective
<1>7. IsFiniteSet(1 .. n) /\ Cardinality(1 .. n) = n
  BY <1>1, FS_Interval
<1>8. place \in Surjection(S, 1 .. n)
  BY <1>6, <1>7, FS_Injection DEF n
<1>9. \A k \in 1 .. n : \E x \in S : place[x] = k
  BY <1>8 DEF Surjection
<1> DEFINE s == [k \in 1 .. n |-> CHOOSE x \in S : place[x] = k]
<1>10. ASSUME NEW k \in 1 .. n PROVE s[k] \in S /\ place[s[k]] = k
  BY <1>9
<1>11. s \in [1 .. n -> S]
  BY <1>10
<1>12. \A i, j \in DOMAIN s : i < j => s[i] < s[j]
  <2> SUFFICES ASSUME NEW i \in 1 .. n, NEW j \in 1 .. n, i < j PROVE s[i] < s[j]
    OBVIOUS
  <2> HIDE DEF s
  <2>1. s[i] \in S /\ s[j] \in S /\ place[s[i]] = i /\ place[s[j]] = j
    BY <1>10
  <2>2. s[i] \in Nat /\ s[j] \in Nat
    BY <2>1
  <2>3. ~(s[j] < s[i])
    <3> SUFFICES ASSUME s[j] < s[i] PROVE FALSE
      OBVIOUS
    <3>1. place[s[j]] < place[s[i]]
      BY <1>3, <2>1
    <3>2. i \in Int /\ j \in Int /\ j < i
      BY <2>1, <3>1
    <3> QED BY <3>2
  <2>4. s[i] # s[j]
    BY <1>1, <2>1
  <2> QED BY <2>2, <2>3, <2>4
<1> HIDE DEF s
<1>13. /\ Ascending(S) \in [1 .. n -> S]
       /\ \A i, j \in DOMAIN Ascending(S) : i < j => Ascending(S)[i] < Ascending(S)[j]
  <2>1. \E t \in [1 .. Cardinality(S) -> S] : \A i, j \in DOMAIN t : i < j => t[i] < t[j]
    BY <1>11, <1>12 DEF n
  <2> QED BY <2>1 DEF Ascending, n
<1> DEFINE a == Ascending(S)
<1> HIDE DEF a
<1>14. a \in [1 .. n -> S] /\ \A i, j \in 1 .. n : i < j => a[i] < a[j]
  BY <1>13 DEF a
<1>15. \A i, j \in 1 .. n : a[i] = a[j] => i = j
  <2> SUFFICES ASSUME NEW i \in 1 .. n, NEW j \in 1 .. n, a[i] = a[j], i # j PROVE FALSE
    OBVIOUS
  <2>1. a[i] \in Nat /\ (i < j \/ j < i)
    <3>1. a[i] \in Nat
      BY <1>14
    <3>2. i \in Int /\ j \in Int
      BY <1>1
    <3> QED BY <3>1, <3>2
  <2>2. a[i] < a[j] \/ a[j] < a[i]
    BY <1>14, <2>1
  <2> QED BY <2>1, <2>2
<1>16. a \in Surjection(1 .. n, S)
  <2>1. a \in Injection(1 .. n, S)
    BY <1>14, <1>15 DEF Injection, IsInjective
  <2> QED BY <1>7, <2>1, FS_Injection DEF n
<1>17. \A x \in S : \E i \in 1 .. n : a[i] = x
  BY <1>16 DEF Surjection
<1> QED BY <1>1, <1>14, <1>15, <1>17 DEF a, n

-----------------------------------------------------------------------------
(* The decoder's sum. *)

(***************************************************************************)
(* Intervals of bytes that do not overlap: their sizes add up to the       *)
(* number of bytes they cover, whatever order they are added in. Of the    *)
(* equation that defines the sum this is a solution, and the only one: a   *)
(* smallest set on which another one differs would be without the interval *)
(* that the sum takes first.                                               *)
(***************************************************************************)
LEMMA DisjointSum ==
    ASSUME NEW f, NEW S, IsFiniteSet(S), NEW C \in Nat, C < WordSize,
           \A i \in S : /\ f[i][3].region_size \in Nat /\ f[i][3].offset \in Nat
                        /\ f[i][3].offset + f[i][3].region_size <= C,
           \A i, j \in S : i = j \/ Disjoint(f[i][3], f[j][3])
    PROVE  BytesIn(f, S) <= C
<1> DEFINE size(i) == f[i][3].region_size
           start(i) == f[i][3].offset
           Fst(s) == CHOOSE x \in s : TRUE
           Eqn(g) == [s \in SUBSET S |->
                        IF s = {} THEN 0 ELSE LET x == Fst(s) IN size(x) + g[s \ {x}]]
           iter == CHOOSE g : g = Eqn(g)
           span(i) == start(i) .. start(i) + size(i) - 1
           cover(s) == {b \in 0 .. C - 1 : \E i \in s : b \in span(i)}
           w == [s \in SUBSET S |-> Cardinality(cover(s))]
<1>1. BytesIn(f, S) = iter[S] % WordSize
  BY Zenon DEF BytesIn, MapThenSumSet, MapThenFoldSet
<1>a. \A i \in S : size(i) \in Nat /\ start(i) \in Nat /\ start(i) + size(i) <= C
  OBVIOUS
<1>b. \A i, j \in S : \/ i = j
                      \/ start(i) + size(i) <= start(j)
                      \/ start(j) + size(j) <= start(i)
  BY DEF Disjoint
<1> HIDE DEF size, start
<1> HIDE DEF iter
<1>2. \A s \in SUBSET S : s # {} => Fst(s) \in s
  OBVIOUS
<1> HIDE DEF Fst
<1>3. \A s \in SUBSET S : IsFiniteSet(cover(s)) /\ w[s] \in Nat /\ w[s] <= C
  <2> SUFFICES ASSUME NEW s \in SUBSET S
               PROVE  IsFiniteSet(cover(s)) /\ Cardinality(cover(s)) \in Nat /\ Cardinality(cover(s)) <= C
    OBVIOUS
  <2>1. IsFiniteSet(0 .. C - 1) /\ Cardinality(0 .. C - 1) = C
    BY FS_Interval
  <2>2. cover(s) \in SUBSET (0 .. C - 1)
    OBVIOUS
  <2> HIDE DEF cover
  <2> QED BY <2>1, <2>2, FS_Subset, FS_CardinalityType
<1>4. w[{}] = 0
  <2>1. cover({}) = {}
    OBVIOUS
  <2> QED BY <2>1, FS_EmptySet
<1>5. ASSUME NEW s \in SUBSET S, s # {}
      PROVE  w[s] = size(Fst(s)) + w[s \ {Fst(s)}]
  <2> DEFINE x == Fst(s)
             t == s \ {x}
  <2>1. x \in s /\ x \in S /\ t \in SUBSET S
    BY <1>2, <1>5
  <2> HIDE DEF x
  <2>2. size(x) \in Nat /\ start(x) \in Nat /\ start(x) + size(x) <= C
    BY <1>a, <2>1
  <2>3. cover(s) = cover(t) \cup span(x)
    <3>1. span(x) \subseteq 0 .. C - 1
      BY <2>2
    <3> QED BY <2>1, <3>1
  <2>4. cover(t) \cap span(x) = {}
    <3> SUFFICES ASSUME NEW i \in t, NEW b \in span(i), b \in span(x) PROVE FALSE
      OBVIOUS
    <3>1. i \in S /\ i # x
      BY <2>1
    <3>2. size(i) \in Nat /\ start(i) \in Nat
      BY <1>a, <3>1
    <3>3. start(i) + size(i) <= start(x) \/ start(x) + size(x) <= start(i)
      BY <1>b, <2>1, <3>1
    <3>4. b \in Int /\ start(i) <= b /\ b <= start(i) + size(i) - 1
          /\ start(x) <= b /\ b <= start(x) + size(x) - 1
      OBVIOUS
    <3> QED BY <2>2, <3>2, <3>3, <3>4
  <2>5. IsFiniteSet(span(x)) /\ Cardinality(span(x)) = size(x)
    <3>1. start(x) \in Int /\ start(x) + size(x) - 1 \in Int
      BY <2>2
    <3>2. \A a, b \in Int :
            IsFiniteSet(a .. b) /\ Cardinality(a .. b) = IF a > b THEN 0 ELSE b - a + 1
      BY FS_Interval
    <3> DEFINE a == start(x)
               b == start(x) + size(x) - 1
    <3>3. IsFiniteSet(a .. b) /\ Cardinality(a .. b) = IF a > b THEN 0 ELSE b - a + 1
      <4> HIDE DEF a, b
      <4> QED BY <3>1, <3>2 DEF a, b
    <3>4. (IF a > b THEN 0 ELSE b - a + 1) = size(x)
      BY <2>2
    <3> QED BY <3>3, <3>4
  <2>6. IsFiniteSet(cover(t)) /\ Cardinality(cover(t)) \in Nat
    BY <1>3, <2>1
  <2> HIDE DEF cover, span, t
  <2>7. Cardinality(cover(s)) = Cardinality(cover(t)) + Cardinality(span(x)) - Cardinality(cover(t) \cap span(x))
    BY <2>3, <2>5, <2>6, FS_Union
  <2>8. Cardinality(cover(t) \cap span(x)) = 0
    BY <2>4, FS_EmptySet
  <2>9. w[s] = size(x) + w[t]
    BY <2>1, <2>2, <2>5, <2>6, <2>7, <2>8
  <2> QED BY <2>9 DEF x, t
<1> HIDE DEF w
<1>6. w = Eqn(w)
  <2>1. w = [s \in SUBSET S |-> w[s]]
    BY DEF w
  <2>2. ASSUME NEW s \in SUBSET S
        PROVE  w[s] = IF s = {} THEN 0 ELSE LET x == Fst(s) IN size(x) + w[s \ {x}]
    BY <1>4, <1>5
  <2> QED BY <2>1, <2>2, Zenon
<1>7. iter = Eqn(iter)
  BY <1>6, Zenon DEF iter
<1>8. \A s \in SUBSET S : iter[s] = w[s]
  <2> DEFINE Wrong == {s \in SUBSET S : iter[s] # w[s]}
             N == {Cardinality(s) : s \in Wrong}
  <2>1. \A s \in SUBSET S : IsFiniteSet(s) /\ Cardinality(s) \in Nat
    BY FS_Subset, FS_CardinalityType
  <2>2. SUFFICES ASSUME Wrong # {} PROVE FALSE
    OBVIOUS
  <2>3. N \in SUBSET Nat /\ N # {}
    BY <2>1, <2>2
  <2>4. PICK n \in N : \A k \in N : n <= k
    <3> HIDE DEF N
    <3> QED BY <2>3, LeastNumber
  <2>5. PICK s \in Wrong : n = Cardinality(s)
    OBVIOUS
  <2>6. CASE s = {}
    BY <1>4, <1>7, <2>5, <2>6
  <2>7. CASE s # {}
    <3> DEFINE x == Fst(s)
               t == s \ {x}
    <3>1. x \in s /\ t \in SUBSET S /\ IsFiniteSet(s) /\ s \in SUBSET S
      BY <1>2, <2>1, <2>5, <2>7
    <3> HIDE DEF x
    <3>2. Cardinality(t) = Cardinality(s) - 1
      BY <3>1, FS_RemoveElement
    <3>3. t \notin Wrong
      <4>1. Cardinality(s) \in Nat /\ Cardinality(t) \in Nat
        BY <2>1, <3>1
      <4>2. t \in Wrong => Cardinality(t) \in N
        OBVIOUS
      <4> HIDE DEF t, N, Wrong
      <4> QED BY <2>4, <2>5, <3>2, <4>1, <4>2
    <3>4. iter[t] = w[t]
      BY <3>1, <3>3
    <3>5. iter[s] = size(x) + iter[t] /\ w[s] = size(x) + w[t]
      <4>1. iter[s] = size(x) + iter[t]
        BY <1>7, <2>7, <3>1, Zenon DEF x
      <4> QED BY <1>5, <2>7, <3>1, <4>1 DEF x
    <3> QED BY <2>5, <3>4, <3>5
  <2> QED BY <2>6, <2>7
<1>9. iter[S] \in Nat /\ iter[S] <= C /\ iter[S] < WordSize
  <2> DEFINE total == iter[S]
  <2>1. S \in SUBSET S
    OBVIOUS
  <2>2. total = w[S] /\ w[S] \in Nat /\ w[S] <= C
    BY <1>3, <1>8, <2>1, Zenon
  <2> HIDE DEF total
  <2>3. total \in Nat /\ total <= C /\ total < WordSize
    BY <2>2, WordAssumption
  <2> QED BY <2>3 DEF total
<1>10. iter[S] % WordSize = iter[S]
  <2> HIDE DEF Eqn
  <2> QED BY <1>9, WordAssumption
<1> QED BY <1>1, <1>9, <1>10
-----------------------------------------------------------------------------
(* The file of a snapshot. *)

\* The items of a file before its checksum.
Item == {Word(x) : x \in Nat} \cup {Domain}
          \cup {RecordItem(id, rec) : id \in AllocIds, rec \in RecordType}

(* The first and the second part of a sequence. *)
LEMMA Joined ==
    ASSUME NEW T, NEW s \in Seq(T), NEW t \in Seq(T), NEW r, r = s \o t
    PROVE  /\ r \in Seq(T) /\ Len(r) = Len(s) + Len(t)
           /\ \A i \in 1 .. Len(s) : r[i] = s[i]
           /\ \A i \in 1 .. Len(t) : r[Len(s) + i] = t[i]
  OBVIOUS

\* Nine parts, of which u and v are sequences of n and m, and each in its place.
Together(a, b, c, p, u, q, v, x, y) ==
    <<a, b, c>> \o (<<p>> \o u) \o (<<q>> \o v) \o <<x, y>>

Placed(B, T, n, m, a, b, c, p, u, q, v, x, y) ==
    /\ B \in Seq(T) /\ Len(B) = n + m + 7
    /\ B[1] = a /\ B[2] = b /\ B[3] = c /\ B[4] = p
    /\ \A i \in 1 .. n : B[i + 4] = u[i]
    /\ B[n + 5] = q
    /\ \A i \in 1 .. m : B[n + 5 + i] = v[i]
    /\ B[n + m + 6] = x /\ B[n + m + 7] = y

(* The parts of a sequence put together as encode puts them, by place.     *)
LEMMA PartsOfFile ==
    ASSUME NEW T, NEW a \in T, NEW b \in T, NEW c \in T, NEW p \in T, NEW q \in T,
           NEW x \in T, NEW y \in T, NEW n \in Nat, NEW m \in Nat,
           NEW u \in [1 .. n -> T], NEW v \in [1 .. m -> T],
           NEW B, B = Together(a, b, c, p, u, q, v, x, y)
    PROVE  Placed(B, T, n, m, a, b, c, p, u, q, v, x, y)
<1>1. u \in Seq(T) /\ Len(u) = n /\ v \in Seq(T) /\ Len(v) = m
  OBVIOUS
<1> DEFINE U == <<p>> \o u
           V == <<q>> \o v
           C == <<a, b, c>> \o U
           D == C \o V
<1>2. /\ U \in Seq(T) /\ Len(U) = n + 1 /\ U[1] = p
      /\ \A i \in 1 .. n : U[i + 1] = u[i]
  BY <1>1
<1>3. /\ V \in Seq(T) /\ Len(V) = m + 1 /\ V[1] = q
      /\ \A i \in 1 .. m : V[i + 1] = v[i]
  BY <1>1
<1> HIDE DEF U, V
<1>4. /\ C \in Seq(T) /\ Len(C) = n + 4 /\ C[1] = a /\ C[2] = b /\ C[3] = c
      /\ \A i \in 1 .. n + 1 : C[i + 3] = U[i]
  BY <1>2
<1> HIDE DEF C
<1>5. /\ D \in Seq(T) /\ Len(D) = n + m + 5
      /\ \A i \in 1 .. n + 4 : D[i] = C[i]
      /\ \A i \in 1 .. m + 1 : D[n + 4 + i] = V[i]
  <2>1. /\ D \in Seq(T) /\ Len(D) = Len(C) + Len(V)
        /\ \A i \in 1 .. Len(C) : D[i] = C[i]
        /\ \A i \in 1 .. Len(V) : D[Len(C) + i] = V[i]
    <3>1. D = C \o V
      OBVIOUS
    <3>2. C \in Seq(T) /\ V \in Seq(T)
      BY <1>3, <1>4
    <3> HIDE DEF D
    <3> QED BY ONLY <3>1, <3>2, Joined
  <2> HIDE DEF D
  <2>2. Len(D) = n + m + 5
    BY <1>3, <1>4, <2>1
  <2> QED BY <1>3, <1>4, <2>1, <2>2
<1> HIDE DEF D
<1>6. B = D \o <<x, y>>
  BY DEF Together, C, D, U, V
<1>7. /\ B \in Seq(T) /\ Len(B) = n + m + 7
      /\ \A i \in 1 .. n + m + 5 : B[i] = D[i]
      /\ B[n + m + 6] = x /\ B[n + m + 7] = y
  <2> DEFINE W == <<x, y>>
  <2>1. W \in Seq(T) /\ Len(W) = 2 /\ W[1] = x /\ W[2] = y
    OBVIOUS
  <2> HIDE DEF W
  <2>2. /\ B \in Seq(T) /\ Len(B) = Len(D) + Len(W)
        /\ \A i \in 1 .. Len(D) : B[i] = D[i]
        /\ \A i \in 1 .. Len(W) : B[Len(D) + i] = W[i]
    <3>1. B = D \o W
      BY <1>6 DEF W
    <3>2. D \in Seq(T) /\ W \in Seq(T)
      BY <1>5, <2>1
    <3> QED BY ONLY <3>1, <3>2, Joined
  <2>3. Len(B) = n + m + 7
    BY <1>5, <2>1, <2>2
  <2>4. 1 \in 1 .. Len(W) /\ 2 \in 1 .. Len(W) /\ Len(D) + 1 = n + m + 6 /\ Len(D) + 2 = n + m + 7
    BY <1>5, <2>1
  <2>5. B[n + m + 6] = x /\ B[n + m + 7] = y
    BY <2>1, <2>2, <2>4
  <2> QED BY <1>5, <2>2, <2>3, <2>5
<1>8. B[1] = a /\ B[2] = b /\ B[3] = c
  BY <1>4, <1>5, <1>7
<1>9. B[4] = p
  <2>1. B[4] = D[4] /\ D[4] = C[4]
    BY <1>5, <1>7
  <2>2. C[1 + 3] = U[1]
    BY <1>4
  <2> QED BY <1>2, <2>1, <2>2
<1>10. ASSUME NEW i \in 1 .. n PROVE B[i + 4] = u[i]
  <2>1. B[i + 4] = D[i + 4] /\ D[i + 4] = C[i + 4]
    BY <1>5, <1>7
  <2>2. i + 1 \in 1 .. n + 1 /\ (i + 1) + 3 = i + 4
    OBVIOUS
  <2>3. C[i + 4] = U[i + 1]
    BY <1>4, <2>2
  <2> QED BY <1>2, <2>1, <2>3
<1>11. B[n + 5] = q
  <2>1. B[n + 5] = D[n + 5]
    BY <1>7
  <2>2. 1 \in 1 .. m + 1 /\ n + 4 + 1 = n + 5
    OBVIOUS
  <2>3. D[n + 5] = V[1]
    BY <1>5, <2>2
  <2> QED BY <1>3, <2>1, <2>3
<1>12. ASSUME NEW i \in 1 .. m PROVE B[n + 5 + i] = v[i]
  <2>1. B[n + 5 + i] = D[n + 5 + i]
    BY <1>7
  <2>2. i + 1 \in 1 .. m + 1 /\ n + 4 + (i + 1) = n + 5 + i
    OBVIOUS
  <2>3. D[n + 5 + i] = V[i + 1]
    BY <1>5, <2>2
  <2> QED BY <1>3, <2>1, <2>3
<1>13. /\ B \in Seq(T) /\ Len(B) = n + m + 7
       /\ B[n + m + 6] = x /\ B[n + m + 7] = y
  BY <1>7
<1>14. /\ \A i \in 1 .. n : B[i + 4] = u[i]
       /\ \A i \in 1 .. m : B[n + 5 + i] = v[i]
  BY <1>10, <1>12
<1> QED BY <1>8, <1>9, <1>11, <1>13, <1>14, Zenon DEF Placed

\* A book whose ids are below a counter, as every snapshot's are.
Bounded(book, next) == \A id \in InBook(book) : id < next

(***************************************************************************)
(* What a governor can be saved as: typed books under its id counter.      *)
(***************************************************************************)
SnapshotType ==
    [records : [AllocIds -> RecordType], retired : [AllocIds -> RecordType],
     next_alloc_id : Nat \ {0}, history_count : Nat]

SoundSnapshot(s) ==
    /\ s \in SnapshotType
    /\ Bounded(s.records, s.next_alloc_id) /\ Bounded(s.retired, s.next_alloc_id)

\* How many records a book has, and the rows they are written as.
Size(book) == Cardinality(InBook(book))
RecordsOf(book) ==
    [i \in 1 .. Size(book) |-> RecordItem(Ascending(InBook(book))[i], book[Ascending(InBook(book))[i]])]

\* A book is written as its size and one record for each of its ids.
LEMMA RowsOfBook ==
    ASSUME NEW book \in [AllocIds -> RecordType], NEW next \in Nat, Bounded(book, next)
    PROVE  /\ Size(book) \in Nat
           /\ RecordsOf(book) \in [1 .. Size(book) -> Item]
           /\ Rows(book) = <<Word(Size(book))>> \o RecordsOf(book)
           /\ \A i \in 1 .. Size(book) : \E id \in InBook(book) :
                 RecordsOf(book)[i] = RecordItem(id, book[id])
           /\ \A id \in InBook(book) : \E i \in 1 .. Size(book) :
                 RecordsOf(book)[i] = RecordItem(id, book[id])
           /\ \A i, j \in 1 .. Size(book) : RecordsOf(book)[i][2] = RecordsOf(book)[j][2] => i = j
<1> DEFINE S == InBook(book)
           a == Ascending(S)
           n == Cardinality(S)
<1>1. S \in SUBSET Nat /\ S \subseteq AllocIds
  BY GovernorIdAssumption DEF InBook
<1>2. IsFiniteSet(S)
  <2>1. \A x \in S : x <= next
    BY <1>1 DEF Bounded
  <2> HIDE DEF S
  <2> QED BY <1>1, <2>1, FS_BoundedSetOfNaturals
<1> HIDE DEF S
<1>3. n \in Nat /\ a \in [1 .. n -> S] /\ \A x \in S : \E i \in 1 .. n : a[i] = x
  BY <1>1, <1>2, AscendingLists
<1>4. Len(a) = n
  BY <1>3
<1>5. \A i \in 1 .. n : a[i] \in S /\ a[i] \in AllocIds /\ book[a[i]] \in RecordType
  BY <1>1, <1>3
<1>6. RecordsOf(book) = [i \in 1 .. n |-> RecordItem(a[i], book[a[i]])]
  BY DEF RecordsOf, Size, S
<1>7. Size(book) = n
  BY DEF Size, S
<1>8. Rows(book) = <<Word(n)>> \o [i \in 1 .. n |-> RecordItem(a[i], book[a[i]])]
  BY <1>4 DEF Rows, S
<1> HIDE DEF n, a
<1>9. RecordsOf(book) \in [1 .. n -> Item]
  BY <1>5, <1>6 DEF Item
<1>10. \A i \in 1 .. n : \E id \in S : RecordsOf(book)[i] = RecordItem(id, book[id])
  BY <1>5, <1>6
<1>11. \A id \in S : \E i \in 1 .. n : RecordsOf(book)[i] = RecordItem(id, book[id])
  BY <1>3, <1>6
<1>12. \A i, j \in 1 .. n : RecordsOf(book)[i][2] = RecordsOf(book)[j][2] => i = j
  <2>1. \A i \in 1 .. n : RecordsOf(book)[i][2] = a[i]
    BY <1>6 DEF RecordItem
  <2>2. \A i, j \in 1 .. n : a[i] = a[j] => i = j
    BY <1>1, <1>2, AscendingLists DEF n, a
  <2> QED BY <2>1, <2>2
<1> QED BY <1>3, <1>6, <1>7, <1>8, <1>9, <1>10, <1>11, <1>12 DEF S

\* File f of snapshot s, item by item: n current records and m retired ones.
IsFileOf(f, s, n, m) ==
    /\ n \in Nat /\ m \in Nat
    /\ Body(s) \in Seq(Item) /\ Len(Body(s)) = n + m + 7
    /\ f \in Seq(Item \cup {Checksum(Body(s))}) /\ Len(f) = n + m + 8
    /\ \A i \in 1 .. n + m + 7 : f[i] = Body(s)[i] /\ f[i] \in Item
    /\ f[n + m + 8] = Checksum(Body(s))
    /\ f[1] = Word(kMagic) /\ f[2] = Word(kVersion) /\ f[3] = Domain /\ f[4] = Word(n)
    /\ \A i \in 1 .. n : f[i + 4] = RecordsOf(s.records)[i]
    /\ f[n + 5] = Word(m)
    /\ \A i \in 1 .. m : f[n + 5 + i] = RecordsOf(s.retired)[i]
    /\ f[n + m + 6] = Word(s.next_alloc_id) /\ f[n + m + 7] = Word(s.history_count)

\* What encode writes.
LEMMA FileOfSnapshot ==
    ASSUME NEW s, SoundSnapshot(s)
    PROVE  IsFileOf(encode(s), s, Size(s.records), Size(s.retired))
<1> DEFINE f == encode(s)
           n == Size(s.records)
           m == Size(s.retired)
           B == Body(s)
           u == RecordsOf(s.records)
           v == RecordsOf(s.retired)
           all == Item \cup {Checksum(B)}
<1>1. /\ s.records \in [AllocIds -> RecordType] /\ s.retired \in [AllocIds -> RecordType]
      /\ s.next_alloc_id \in Nat /\ s.history_count \in Nat
      /\ Bounded(s.records, s.next_alloc_id) /\ Bounded(s.retired, s.next_alloc_id)
  BY DEF SoundSnapshot, SnapshotType
<1>2. n \in Nat /\ u \in [1 .. n -> Item] /\ Rows(s.records) = <<Word(n)>> \o u
  BY <1>1, RowsOfBook
<1>3. m \in Nat /\ v \in [1 .. m -> Item] /\ Rows(s.retired) = <<Word(m)>> \o v
  BY <1>1, RowsOfBook
<1>4. B = <<Word(kMagic), Word(kVersion), Domain>> \o (<<Word(n)>> \o u)
            \o (<<Word(m)>> \o v) \o <<Word(s.next_alloc_id), Word(s.history_count)>>
  BY <1>2, <1>3 DEF Body
<1> HIDE DEF B, u, v
<1>5. /\ Word(kMagic) \in Item /\ Word(kVersion) \in Item /\ Domain \in Item
      /\ Word(n) \in Item /\ Word(m) \in Item
      /\ Word(s.next_alloc_id) \in Item /\ Word(s.history_count) \in Item
  <2>1. (\A x \in Nat : Word(x) \in Item) /\ Domain \in Item
    BY DEF Item
  <2>2. kMagic \in Nat /\ kVersion \in Nat
    BY DEF kMagic, kVersion
  <2> QED BY <1>1, <1>2, <1>3, <2>1, <2>2
<1> HIDE DEF n, m
<1> DEFINE wa == Word(kMagic)  wb == Word(kVersion)  wn == Word(n)  wm == Word(m)
           wi == Word(s.next_alloc_id)  wh == Word(s.history_count)  wd == Domain
<1>a. wa \in Item /\ wb \in Item /\ wd \in Item /\ wn \in Item /\ wm \in Item
      /\ wi \in Item /\ wh \in Item
  BY <1>5
<1>b. B = Together(wa, wb, wd, wn, u, wm, v, wi, wh)
  BY <1>4 DEF Together
<1>c. n \in Nat /\ m \in Nat /\ u \in [1 .. n -> Item] /\ v \in [1 .. m -> Item]
  BY <1>2, <1>3
<1> HIDE DEF wa, wb, wd, wn, wm, wi, wh
<1>d. Placed(B, Item, n, m, wa, wb, wd, wn, u, wm, v, wi, wh)
  BY ONLY <1>a, <1>b, <1>c, PartsOfFile
<1>6. /\ B \in Seq(Item) /\ Len(B) = n + m + 7
      /\ B[1] = Word(kMagic) /\ B[2] = Word(kVersion) /\ B[3] = Domain /\ B[4] = Word(n)
      /\ \A i \in 1 .. n : B[i + 4] = u[i]
      /\ B[n + 5] = Word(m)
      /\ \A i \in 1 .. m : B[n + 5 + i] = v[i]
      /\ B[n + m + 6] = Word(s.next_alloc_id) /\ B[n + m + 7] = Word(s.history_count)
  BY <1>d DEF Placed, wa, wb, wd, wn, wm, wi, wh
<1>7. f = Append(B, Checksum(B))
  BY DEF encode, B
<1> HIDE DEF f
<1>8. /\ f \in Seq(all) /\ Len(f) = Len(B) + 1
      /\ \A i \in 1 .. Len(B) : f[i] = B[i]
      /\ f[Len(B) + 1] = Checksum(B)
  <2>1. Checksum(B) \in all /\ B \in Seq(all)
    BY <1>6
  <2> DEFINE c == Checksum(B)
  <2> HIDE DEF c, all
  <2> QED BY <1>7, <2>1 DEF c
<1>9. Len(f) = n + m + 8 /\ Len(B) + 1 = n + m + 8
  BY <1>2, <1>3, <1>6, <1>8
<1>10. \A i \in 1 .. n + m + 7 : f[i] = B[i] /\ f[i] \in Item
  BY <1>6, <1>8
<1> HIDE DEF all
<1>e. /\ {1, 2, 3, 4} \subseteq 1 .. n + m + 7
      /\ {n + 5, n + m + 6, n + m + 7} \subseteq 1 .. n + m + 7
  BY <1>c
<1>11. f[1] = B[1] /\ f[2] = B[2] /\ f[3] = B[3] /\ f[4] = B[4]
  BY <1>10, <1>e, Zenon
<1>12. f[n + 5] = B[n + 5] /\ f[n + m + 6] = B[n + m + 6] /\ f[n + m + 7] = B[n + m + 7]
  BY <1>10, <1>e, Zenon
<1>13. \A i \in 1 .. n : f[i + 4] = u[i]
  <2> SUFFICES ASSUME NEW i \in 1 .. n PROVE f[i + 4] = u[i]
    OBVIOUS
  <2>1. i + 4 \in 1 .. n + m + 7
    BY <1>2, <1>3
  <2> QED BY <1>6, <1>10, <2>1
<1>14. \A i \in 1 .. m : f[n + 5 + i] = v[i]
  <2> SUFFICES ASSUME NEW i \in 1 .. m PROVE f[n + 5 + i] = v[i]
    OBVIOUS
  <2>1. n + 5 + i \in 1 .. n + m + 7
    BY <1>2, <1>3
  <2> QED BY <1>6, <1>10, <2>1
<1>15. f[n + m + 8] = Checksum(B)
  BY <1>8, <1>9
<1>16. f \in Seq(all)
  BY <1>8
<1> HIDE DEF all
<1> QED
  BY <1>2, <1>3, <1>6, <1>9, <1>10, <1>11, <1>12, <1>13, <1>14, <1>15, <1>16, Zenon
  DEF IsFileOf, B, u, v, all, f, n, m

\* Only the last item of a file is a checksum.
LEMMA Kinds ==
    /\ \A x \in Item : x[1] # "checksum"
    /\ \A b : Checksum(b)[1] = "checksum"
  BY DEF Item, Word, Domain, RecordItem, Checksum

\* A file that is accepted ends with the checksum of what is before it.
LEMMA AcceptedSealed ==
    ASSUME NEW g, Accepts(g)
    PROVE  /\ 1 <= Len(g)
           /\ g[Len(g)][1] = "checksum"
           /\ g[Len(g)] = Checksum(SubSeq(g, 1, Len(g) - 1))
<1>1. WellFormed(g)
  BY DEF Accepts
<1>2. 1 <= Len(g)
  BY <1>1 DEF WellFormed, Has
<1>3. Sealed(g, Len(g))
  BY <1>1 DEF WellFormed
<1> QED BY <1>2, <1>3 DEF Sealed, Has

-----------------------------------------------------------------------------
(* Damage. *)

\* A file cut short is refused.
LEMMA PrefixRefused ==
    ASSUME NEW s, SoundSnapshot(s), NEW k \in 0 .. Len(encode(s)) - 1
    PROVE  ~Accepts(SubSeq(encode(s), 1, k))
<1> DEFINE f == encode(s)
           n == Size(s.records)
           m == Size(s.retired)
           g == SubSeq(f, 1, k)
           T == Item \cup {Checksum(Body(s))}
<1> SUFFICES ASSUME Accepts(g) PROVE FALSE
  OBVIOUS
<1>0. k \in 0 .. Len(f) - 1
  OBVIOUS
<1>f. IsFileOf(f, s, n, m)
  BY FileOfSnapshot
<1>3. 1 <= Len(g) /\ g[Len(g)][1] = "checksum"
  BY AcceptedSealed
<1> HIDE DEF f, n, m
<1>1. /\ n \in Nat /\ m \in Nat /\ f \in Seq(T) /\ Len(f) = n + m + 8
      /\ \A i \in 1 .. n + m + 7 : f[i] \in Item
  BY <1>f DEF IsFileOf
<1> HIDE DEF T
<1>2. k \in Int /\ 0 <= k /\ k <= n + m + 7
  BY <1>0, <1>1
<1>4. Len(g) = k /\ \A i \in 1 .. k : g[i] = f[i]
  BY <1>1, <1>2
<1> HIDE DEF g
<1>5. f[k] \in Item /\ g[k] = f[k] /\ Len(g) = k
  BY <1>1, <1>2, <1>3, <1>4
<1> QED BY <1>3, <1>5, Kinds

\* A file with a changed item is refused.
LEMMA ChangeRefused ==
    ASSUME NEW s, SoundSnapshot(s), NEW j \in 1 .. Len(encode(s)),
           NEW x, x # encode(s)[j]
    PROVE  ~Accepts([encode(s) EXCEPT ![j] = x])
<1> DEFINE f == encode(s)
           n == Size(s.records)
           m == Size(s.retired)
           B == Body(s)
           T == Item \cup {Checksum(B)} \cup {x}
           g == [f EXCEPT ![j] = x]
<1> SUFFICES ASSUME Accepts(g) PROVE FALSE
  OBVIOUS
<1>f. IsFileOf(f, s, n, m)
  BY FileOfSnapshot
<1>2. g[Len(g)] = Checksum(SubSeq(g, 1, Len(g) - 1))
  BY AcceptedSealed
<1>3. x # f[j] /\ j \in 1 .. Len(f)
  OBVIOUS
<1> HIDE DEF f, n, m
<1>1. /\ n \in Nat /\ m \in Nat /\ f \in Seq(Item \cup {Checksum(B)}) /\ Len(f) = n + m + 8
      /\ B \in Seq(Item) /\ Len(B) = n + m + 7
      /\ \A i \in 1 .. n + m + 7 : f[i] = B[i]
      /\ f[n + m + 8] = Checksum(B)
  BY <1>f DEF IsFileOf
<1> HIDE DEF B
<1>4. f \in Seq(T)
  BY <1>1
<1>5. g \in Seq(T) /\ Len(g) = Len(f) /\ g[j] = x /\ \A i \in 1 .. Len(f) : i # j => g[i] = f[i]
  <2>1. x \in T
    OBVIOUS
  <2> HIDE DEF T
  <2> QED BY <1>3, <1>4, <2>1
<1> HIDE DEF g
<1>6. Len(g) = n + m + 8 /\ Len(g) - 1 = n + m + 7 /\ n + m + 8 \in 1 .. Len(f)
  BY <1>1, <1>5
<1>7. CASE j = n + m + 8
  <2>1. x = Checksum(SubSeq(g, 1, n + m + 7))
    BY <1>2, <1>5, <1>6, <1>7
  <2> HIDE DEF T
  <2> DEFINE h == SubSeq(g, 1, n + m + 7)
  <2>2. h \in Seq(T) /\ Len(h) = n + m + 7 /\ \A i \in 1 .. n + m + 7 : h[i] = g[i]
    BY <1>1, <1>5, <1>6
  <2> HIDE DEF h
  <2>3. \A i \in 1 .. n + m + 7 : h[i] = B[i]
    BY <1>1, <1>5, <1>7, <2>2
  <2>4. h = B
    BY <1>1, <2>2, <2>3
  <2> QED BY <1>1, <1>3, <1>7, <2>1, <2>4 DEF h
<1>8. CASE j # n + m + 8
  <2>1. g[n + m + 8] = Checksum(B)
    BY <1>1, <1>5, <1>6, <1>8
  <2>2. Checksum(B) = Checksum(SubSeq(g, 1, n + m + 7))
    BY <1>2, <1>6, <2>1
  <2>3. B = SubSeq(g, 1, n + m + 7)
    BY <2>2 DEF Checksum
  <2>4. j \in 1 .. n + m + 7
    BY <1>1, <1>3, <1>8
  <2> HIDE DEF T
  <2>5. SubSeq(g, 1, n + m + 7)[j] = g[j]
    BY <1>1, <1>5, <1>6, <2>4
  <2>6. B[j] = x
    BY <1>5, <2>3, <2>5
  <2> QED BY <1>1, <1>3, <2>4, <2>6
<1> QED BY <1>7, <1>8

\* A file with an item of it repeated after its end is refused.
LEMMA TrailingRefused ==
    ASSUME NEW s, SoundSnapshot(s), NEW j \in 1 .. Len(encode(s))
    PROVE  ~Accepts(Append(encode(s), encode(s)[j]))
<1> DEFINE f == encode(s)
           n == Size(s.records)
           m == Size(s.retired)
           B == Body(s)
           T == Item \cup {Checksum(B)}
           g == Append(f, f[j])
<1> SUFFICES ASSUME Accepts(g) PROVE FALSE
  OBVIOUS
<1>1. IsFileOf(f, s, n, m)
  BY FileOfSnapshot
<1>2. g[Len(g)][1] = "checksum" /\ g[Len(g)] = Checksum(SubSeq(g, 1, Len(g) - 1))
  BY AcceptedSealed
<1>3. j \in 1 .. Len(f)
  OBVIOUS
<1> HIDE DEF f, n, m
<1>4. /\ n \in Nat /\ m \in Nat /\ f \in Seq(T) /\ Len(f) = n + m + 8
      /\ Len(B) = n + m + 7
      /\ \A i \in 1 .. n + m + 7 : f[i] \in Item
      /\ f[n + m + 8] = Checksum(B)
  BY <1>1 DEF IsFileOf
<1> HIDE DEF B, T
<1>5. Len(g) = Len(f) + 1 /\ g[Len(g)] = f[j] /\ SubSeq(g, 1, Len(g) - 1) = f
  <2>1. f[j] \in T
    BY <1>3, <1>4
  <2> DEFINE e == f[j]
  <2> HIDE DEF e
  <2>2. e \in T
    BY <2>1 DEF e
  <2>3. g = Append(f, e)
    BY DEF e
  <2> HIDE DEF g
  <2>4. g \in Seq(T) /\ Len(g) = Len(f) + 1 /\ g[Len(g)] = e
    BY <1>4, <2>2, <2>3
  <2>5. SubSeq(g, 1, Len(g) - 1) = f
    BY <1>4, <2>2, <2>3, <2>4
  <2> QED BY <2>4, <2>5 DEF e
<1> HIDE DEF g
<1>6. j = n + m + 8
  <2>1. f[j] \notin Item
    BY <1>2, <1>5, Kinds
  <2>2. ~(j \in 1 .. n + m + 7)
    BY <1>4, <2>1
  <2> QED BY <1>3, <1>4, <2>2
<1>7. Checksum(B) = Checksum(f)
  BY <1>2, <1>4, <1>5, <1>6
<1>8. B = f
  BY <1>7 DEF Checksum
<1> QED BY <1>4, <1>8

\* A damaged item is another item.
LEMMA DamagedDiffers ==
    /\ \A item \in Item : item \notin Damaged(item)
    /\ \A b : b # << >> => Checksum(b) \notin Damaged(Checksum(b))
<1>1. ASSUME NEW y \in Nat PROVE Word(y) \notin Damaged(Word(y))
  <2>1. Word(y)[1] = "word"
    BY DEF Word
  <2> QED BY <2>1 DEF Damaged
<1>2. Domain \notin Damaged(Domain)
  <2>1. Damaged(Domain) = {<<"domain", Capacity + 1, Low, High, Critical>>}
    BY DEF Damaged, Domain
  <2>2. Domain[2] # Capacity + 1
    BY CapacityAssumption DEF Domain
  <2> QED BY <2>1, <2>2
<1>3. ASSUME NEW id \in AllocIds, NEW rec \in RecordType
      PROVE  RecordItem(id, rec) \notin Damaged(RecordItem(id, rec))
  <2> DEFINE rec2 == [rec EXCEPT !.generation = rec.generation + 1]
  <2>1. Damaged(RecordItem(id, rec)) = {RecordItem(id, rec2)}
    <3> DEFINE item == RecordItem(id, rec)
    <3>1. item[1] = "record" /\ item[2] = id /\ item[3] = rec
      BY DEF RecordItem
    <3> HIDE DEF item
    <3>2. Damaged(item) = {RecordItem(item[2], [item[3] EXCEPT !.generation = item[3].generation + 1])}
      BY <3>1 DEF Damaged
    <3> QED BY <3>1, <3>2 DEF item
  <2>2. rec.generation \in Nat /\ rec2.generation = rec.generation + 1
    BY BoundAssumption DEF RecordType
  <2> HIDE DEF rec2
  <2>3. rec # rec2
    BY <2>2
  <2>4. RecordItem(id, rec)[3] = rec /\ RecordItem(id, rec2)[3] = rec2
    BY DEF RecordItem
  <2> QED BY <2>1, <2>3, <2>4
<1>4. ASSUME NEW b, b # << >> PROVE Checksum(b) \notin Damaged(Checksum(b))
  <2>1. Damaged(Checksum(b)) = {Checksum(<< >>)}
    BY DEF Damaged, Checksum
  <2>2. Checksum(b)[2] = b /\ Checksum(<< >>)[2] = << >>
    BY DEF Checksum
  <2> QED BY <1>4, <2>1, <2>2
<1>5. \A item \in Item : item \notin Damaged(item)
  BY <1>1, <1>2, <1>3 DEF Item
<1> QED BY <1>4, <1>5

-----------------------------------------------------------------------------
(* Reading back. *)

\* A book written as one record for each of its ids is read back.
LEMMA BookReadBack ==
    ASSUME NEW book \in [AllocIds -> RecordType], NEW f, NEW lo, NEW hi,
           \A i \in lo .. hi : \E id \in InBook(book) : f[i] = RecordItem(id, book[id]),
           \A id \in InBook(book) : \E i \in lo .. hi : f[i] = RecordItem(id, book[id])
    PROVE  BookOf(f, lo, hi) = book
<1>1. \A id, rec : RecordItem(id, rec)[2] = id /\ RecordItem(id, rec)[3] = rec
  BY DEF RecordItem
<1>2. ASSUME NEW id \in AllocIds PROVE BookOf(f, lo, hi)[id] = book[id]
  <2> DEFINE At(i) == f[i][2] = id
             row == CHOOSE i \in lo .. hi : At(i)
  <2>1. BookOf(f, lo, hi)[id] = IF \E i \in lo .. hi : At(i) THEN f[row][3] ELSE NoRecord
    BY DEF BookOf
  <2>2. CASE id \in InBook(book)
    <3>1. \E i \in lo .. hi : At(i)
      BY <1>1, <2>2
    <3>2. row \in lo .. hi /\ At(row)
      BY <3>1
    <3> HIDE DEF row
    <3>3. PICK j \in InBook(book) : f[row] = RecordItem(j, book[j])
      BY <3>2
    <3>4. j = id /\ f[row][3] = book[id]
      BY <1>1, <3>2, <3>3
    <3> QED BY <2>1, <3>1, <3>4
  <2>3. CASE id \notin InBook(book)
    <3>1. ~ \E i \in lo .. hi : At(i)
      BY <1>1, <2>3
    <3>2. book[id] = NoRecord
      BY <2>3 DEF InBook
    <3> QED BY <2>1, <3>1, <3>2
  <2> QED BY <2>2, <2>3
<1>3. BookOf(f, lo, hi) = [id \in AllocIds |-> BookOf(f, lo, hi)[id]]
  BY DEF BookOf
<1> HIDE DEF BookOf
<1>4. book = [id \in AllocIds |-> book[id]]
  OBVIOUS
<1> QED BY <1>2, <1>3, <1>4

\* decode makes of a snapshot's file the snapshot.
LEMMA ReadBack ==
    ASSUME NEW s, SoundSnapshot(s)
    PROVE  decode(encode(s)) = s
<1> DEFINE f == encode(s)
           n == Size(s.records)
           m == Size(s.retired)
<1>1. /\ s.records \in [AllocIds -> RecordType] /\ s.retired \in [AllocIds -> RecordType]
      /\ s.next_alloc_id \in Nat /\ s.history_count \in Nat
      /\ Bounded(s.records, s.next_alloc_id) /\ Bounded(s.retired, s.next_alloc_id)
      /\ s = [records |-> s.records, retired |-> s.retired,
              next_alloc_id |-> s.next_alloc_id, history_count |-> s.history_count]
  BY DEF SoundSnapshot, SnapshotType
<1>2. IsFileOf(f, s, n, m)
  BY FileOfSnapshot
<1>3. /\ \A i \in 1 .. n : \E id \in InBook(s.records) :
            RecordsOf(s.records)[i] = RecordItem(id, s.records[id])
      /\ \A id \in InBook(s.records) : \E i \in 1 .. n :
            RecordsOf(s.records)[i] = RecordItem(id, s.records[id])
  BY <1>1, RowsOfBook
<1>4. /\ \A i \in 1 .. m : \E id \in InBook(s.retired) :
            RecordsOf(s.retired)[i] = RecordItem(id, s.retired[id])
      /\ \A id \in InBook(s.retired) : \E i \in 1 .. m :
            RecordsOf(s.retired)[i] = RecordItem(id, s.retired[id])
  BY <1>1, RowsOfBook
<1> HIDE DEF f, n, m
<1>5. /\ n \in Nat /\ m \in Nat
      /\ f[4][2] = n /\ f[n + 5][2] = m
      /\ f[n + m + 6][2] = s.next_alloc_id /\ f[n + m + 7][2] = s.history_count
  BY <1>2 DEF IsFileOf, Word
<1>6. /\ \A i \in 1 .. n : f[i + 4] = RecordsOf(s.records)[i]
      /\ \A i \in 1 .. m : f[n + 5 + i] = RecordsOf(s.retired)[i]
  BY <1>2 DEF IsFileOf
<1>7. BookOf(f, 5, n + 4) = s.records
  <2>1. ASSUME NEW i \in 5 .. n + 4
        PROVE  \E id \in InBook(s.records) : f[i] = RecordItem(id, s.records[id])
    <3>1. i - 4 \in 1 .. n /\ (i - 4) + 4 = i
      BY <1>5
    <3>2. f[i] = RecordsOf(s.records)[i - 4]
      BY <1>6, <3>1
    <3> QED BY <1>3, <3>1, <3>2
  <2>2. ASSUME NEW id \in InBook(s.records)
        PROVE  \E i \in 5 .. n + 4 : f[i] = RecordItem(id, s.records[id])
    <3>1. PICK i \in 1 .. n : RecordsOf(s.records)[i] = RecordItem(id, s.records[id])
      BY <1>3
    <3>2. i + 4 \in 5 .. n + 4
      BY <1>5
    <3> QED BY <1>6, <3>1, <3>2
  <2> QED BY <1>1, <2>1, <2>2, BookReadBack
<1>8. BookOf(f, n + 6, n + m + 5) = s.retired
  <2>1. ASSUME NEW i \in n + 6 .. n + m + 5
        PROVE  \E id \in InBook(s.retired) : f[i] = RecordItem(id, s.retired[id])
    <3>1. i - n - 5 \in 1 .. m /\ n + 5 + (i - n - 5) = i
      BY <1>5
    <3>2. f[i] = RecordsOf(s.retired)[i - n - 5]
      BY <1>6, <3>1
    <3> QED BY <1>4, <3>1, <3>2
  <2>2. ASSUME NEW id \in InBook(s.retired)
        PROVE  \E i \in n + 6 .. n + m + 5 : f[i] = RecordItem(id, s.retired[id])
    <3>1. PICK i \in 1 .. m : RecordsOf(s.retired)[i] = RecordItem(id, s.retired[id])
      BY <1>4
    <3>2. n + 5 + i \in n + 6 .. n + m + 5
      BY <1>5
    <3> QED BY <1>6, <3>1, <3>2
  <2> QED BY <1>1, <2>1, <2>2, BookReadBack
<1>9. AfterRows(f, 4) = n + 5 /\ AfterRows(f, n + 5) = n + m + 6
  BY <1>5 DEF AfterRows
<1>10. /\ (n + 5) - 1 = n + 4 /\ (n + 5) + 1 = n + 6
       /\ (n + m + 6) - 1 = n + m + 5 /\ (n + m + 6) + 1 = n + m + 7
  BY <1>5
<1>11. decode(f) = [records |-> BookOf(f, 5, n + 4), retired |-> BookOf(f, n + 6, n + m + 5),
                    next_alloc_id |-> f[n + m + 6][2], history_count |-> f[n + m + 7][2]]
  BY <1>9, <1>10 DEF decode
<1> QED BY <1>1, <1>5, <1>7, <1>8, <1>11 DEF f

\* A snapshot's file has its items in order and is sealed.
LEMMA SavedWellFormed ==
    ASSUME NEW s, SoundSnapshot(s), Loadable(s)
    PROVE  WellFormed(encode(s))
<1> DEFINE f == encode(s)
           n == Size(s.records)
           m == Size(s.retired)
           B == Body(s)
           T == Item \cup {Checksum(B)}
<1>1. IsFileOf(f, s, n, m)
  BY FileOfSnapshot
<1>2. n <= MaxRecords /\ m <= MaxRecords
  BY DEF Loadable, Size
<1>3. /\ s.records \in [AllocIds -> RecordType] /\ s.retired \in [AllocIds -> RecordType]
      /\ s.next_alloc_id \in Nat
      /\ Bounded(s.records, s.next_alloc_id) /\ Bounded(s.retired, s.next_alloc_id)
  BY DEF SoundSnapshot, SnapshotType
<1>4. \A i \in 1 .. n : /\ RecordsOf(s.records)[i][1] = "record"
                          /\ RecordsOf(s.records)[i][3].backing_ref # "oversized"
  <2>1. \A i \in 1 .. n : \E id \in InBook(s.records) :
          RecordsOf(s.records)[i] = RecordItem(id, s.records[id])
    BY <1>3, RowsOfBook
  <2>2. \A id, rec : RecordItem(id, rec)[1] = "record" /\ RecordItem(id, rec)[3] = rec
    BY DEF RecordItem
  <2>3. \A id \in InBook(s.records) : s.records[id].backing_ref # "oversized"
    BY DEF Loadable
  <2> HIDE DEF n, m
  <2> QED BY <2>1, <2>2, <2>3
<1>5. \A i \in 1 .. m : /\ RecordsOf(s.retired)[i][1] = "record"
                          /\ RecordsOf(s.retired)[i][3].backing_ref # "oversized"
  <2>1. \A i \in 1 .. m : \E id \in InBook(s.retired) :
          RecordsOf(s.retired)[i] = RecordItem(id, s.retired[id])
    BY <1>3, RowsOfBook
  <2>2. \A id, rec : RecordItem(id, rec)[1] = "record" /\ RecordItem(id, rec)[3] = rec
    BY DEF RecordItem
  <2>3. \A id \in InBook(s.retired) : s.retired[id].backing_ref # "oversized"
    BY DEF Loadable
  <2> HIDE DEF n, m
  <2> QED BY <2>1, <2>2, <2>3
<1> HIDE DEF f, n, m
<1>6. /\ n \in Nat /\ m \in Nat /\ f \in Seq(T) /\ Len(f) = n + m + 8
      /\ B \in Seq(Item) /\ Len(B) = n + m + 7
      /\ \A i \in 1 .. n + m + 7 : f[i] = B[i]
      /\ f[n + m + 8] = Checksum(B)
  BY <1>1 DEF IsFileOf
<1>7. /\ f[1] = Word(kMagic) /\ f[2] = Word(kVersion) /\ f[3] = Domain
      /\ f[4] = Word(n) /\ f[n + 5] = Word(m)
      /\ f[n + m + 6] = Word(s.next_alloc_id) /\ f[n + m + 7] = Word(s.history_count)
      /\ \A i \in 1 .. n : f[i + 4] = RecordsOf(s.records)[i]
      /\ \A i \in 1 .. m : f[n + 5 + i] = RecordsOf(s.retired)[i]
  BY <1>1 DEF IsFileOf
<1> HIDE DEF B, T
<1>8. \A x : Word(x)[1] = "word" /\ Word(x)[2] = x
  BY DEF Word
<1>9. Has(f, 1, "word") /\ Has(f, 2, "word") /\ Has(f, n + m + 6, "word") /\ Has(f, n + m + 7, "word")
  <2>1. 1 <= Len(f) /\ 2 <= Len(f) /\ n + m + 6 <= Len(f) /\ n + m + 7 <= Len(f)
    BY <1>6
  <2> QED BY <1>7, <1>8, <2>1 DEF Has
<1>10. HasDomain(f, 3)
  <2>1. /\ Domain[1] = "domain" /\ Domain[3] = Low /\ Domain[4] = High /\ Domain[5] = Critical
    BY DEF Domain
  <2>2. 3 <= Len(f)
    BY <1>6
  <2> QED BY <1>7, <2>1, <2>2, WatermarkAssumption DEF HasDomain, Has, valid_watermarks
<1>11. HasRows(f, 4)
  <2>1. Has(f, 4, "word") /\ f[4][2] = n
    <3>1. 4 <= Len(f)
      BY <1>6
    <3> QED BY <1>7, <1>8, <3>1 DEF Has
  <2>2. ASSUME NEW j \in 1 .. n PROVE HasRecord(f, 4 + j)
    <3>1. 4 + j <= Len(f) /\ 4 + j = j + 4
      BY <1>6
    <3> QED BY <1>4, <1>7, <3>1 DEF HasRecord, Has
  <2> QED BY <1>2, <2>1, <2>2 DEF HasRows
<1>12. HasRows(f, n + 5)
  <2>1. Has(f, n + 5, "word") /\ f[n + 5][2] = m
    <3>1. n + 5 <= Len(f)
      BY <1>6
    <3> QED BY <1>7, <1>8, <3>1 DEF Has
  <2>2. ASSUME NEW j \in 1 .. m PROVE HasRecord(f, n + 5 + j)
    <3>1. n + 5 + j <= Len(f)
      BY <1>6
    <3> QED BY <1>5, <1>7, <3>1 DEF HasRecord, Has
  <2> QED BY <1>2, <2>1, <2>2 DEF HasRows
<1>13. AfterRows(f, 4) = n + 5 /\ AfterRows(f, n + 5) = n + m + 6
  <2>1. f[4][2] = n /\ f[n + 5][2] = m
    BY <1>7, <1>8
  <2>2. 4 + n + 1 = n + 5 /\ (n + 5) + m + 1 = n + m + 6
    BY <1>6
  <2> QED BY <2>1, <2>2, Zenon DEF AfterRows
<1>14. Sealed(f, n + m + 8)
  <2> DEFINE h == SubSeq(f, 1, n + m + 7)
  <2>1. h \in Seq(T) /\ Len(h) = n + m + 7 /\ \A i \in 1 .. n + m + 7 : h[i] = f[i]
    BY <1>6
  <2>2. (n + m + 8) - 1 = n + m + 7 /\ n + m + 8 <= Len(f)
    BY <1>6
  <2> HIDE DEF h
  <2>3. h = B
    BY <1>6, <2>1
  <2>4. f[n + m + 8] = Checksum(h)
    BY <1>6, <2>3
  <2>5. f[n + m + 8][1] = "checksum"
    BY <1>6, Kinds
  <2> QED BY <2>2, <2>4, <2>5 DEF Sealed, Has, h
<1>15. /\ (n + m + 6) + 1 = n + m + 7 /\ (n + m + 6) + 2 = n + m + 8
  BY <1>6
<1>16. WellFormed(f)
  BY <1>6, <1>7, <1>9, <1>10, <1>11, <1>12, <1>13, <1>14, <1>15, Zenon DEF WellFormed
<1> QED BY <1>16 DEF f

-----------------------------------------------------------------------------
(* The inductive invariant. *)

\* The file is what a sound snapshot is encoded as, or a part of it.
SoundFile(f) ==
    \E s : /\ SoundSnapshot(s)
           /\ f = encode(s) \/ \E k \in 0 .. Len(encode(s)) - 1 : f = SubSeq(encode(s), 1, k)

\* A save ends with its governor. What there is before the next one has no
\* allocation on its books.
NoneAtWork == ~running => ~writing /\ Current = {} /\ Retired = {}

\* What was loaded is on record as retired.
KnownRetired == \A h \in known : h[1] \in Retired

(***************************************************************************)
(* The governor's own invariant holds in every life of the service; the    *)
(* file and the snapshot on its way to it are those of such governors.     *)
(***************************************************************************)
PInv ==
    /\ GInv
    /\ running \in BOOLEAN /\ writing \in BOOLEAN
    /\ NoneAtWork
    /\ SoundSnapshot(saved)
    /\ SoundFile(file)
    /\ KnownRetired

\* A book without records.
LEMMA EmptyBook ==
    /\ NoBook \in [AllocIds -> RecordType]
    /\ InBook(NoBook) = {}
<1>1. NoRecord \in RecordType
  BY CapacityAssumption, WordAssumption, BoundAssumption
  DEF NoRecord, RecordType, Bytes, Reclaimability, Movability, Lifecycle, BackingRef
<1> QED BY <1>1 DEF NoBook, InBook

\* Snapshots of a governor, and of none, are sound.
LEMMA SnapshotSound == GInv => SoundSnapshot(snapshot)
<1> SUFFICES ASSUME GInv PROVE SoundSnapshot(snapshot)
  OBVIOUS
<1>1. snapshot \in SnapshotType
  BY DEF GInv, GovernorTypeOK, snapshot, SnapshotType
<1>2. InBook(snapshot.records) = Current /\ InBook(snapshot.retired) = Retired
  BY DEF snapshot, InBook, Current, Retired
<1>3. \A id \in Current \cup Retired : id < next_alloc_id
  BY DEF GInv, IdsFresh
<1>4. snapshot.next_alloc_id = next_alloc_id
  BY DEF snapshot
<1> QED BY <1>1, <1>2, <1>3, <1>4 DEF SoundSnapshot, Bounded

\* So is the one that stands for none.
LEMMA NoSnapshotSound == SoundSnapshot(NoSnapshot)
<1>1. NoSnapshot \in SnapshotType
  BY EmptyBook DEF NoSnapshot, SnapshotType
<1>2. InBook(NoSnapshot.records) = {} /\ InBook(NoSnapshot.retired) = {}
  BY EmptyBook DEF NoSnapshot
<1> QED BY <1>1, <1>2 DEF SoundSnapshot, Bounded

\* What is left of a write, and no file at all.
LEMMA PartialSound ==
    ASSUME NEW s, SoundSnapshot(s)
    PROVE  /\ \A f \in Partial(s) \cup {encode(s)} : SoundFile(f)
           /\ SoundFile(NoFile)
<1>1. Len(encode(s)) \in Nat \ {0}
  <2>1. IsFileOf(encode(s), s, Size(s.records), Size(s.retired))
    BY FileOfSnapshot
  <2> QED BY <2>1 DEF IsFileOf
<1>2. ASSUME NEW f \in Partial(s) PROVE SoundFile(f)
  <2>1. PICK k \in {x \in CutPoints : x < Len(encode(s))} : f = SubSeq(encode(s), 1, k)
    BY DEF Partial
  <2>2. k \in 0 .. Len(encode(s)) - 1
    BY <1>1, CutAssumption
  <2> QED BY <2>1, <2>2 DEF SoundFile
<1>3. SoundFile(encode(s))
  BY DEF SoundFile
<1>4. SoundFile(NoFile)
  <2>1. NoFile = SubSeq(encode(s), 1, 0)
    BY DEF NoFile
  <2>2. 0 \in 0 .. Len(encode(s)) - 1
    BY <1>1
  <2> QED BY <2>1, <2>2 DEF SoundFile
<1> QED BY <1>2, <1>3, <1>4

\* A sound file that is accepted is the whole of a snapshot, which it restores.
LEMMA AcceptedWhole ==
    ASSUME SoundFile(file), Accepts(file)
    PROVE  SoundSnapshot(decode(file))
<1>1. PICK s : /\ SoundSnapshot(s)
               /\ \/ file = encode(s)
                  \/ \E k \in 0 .. Len(encode(s)) - 1 : file = SubSeq(encode(s), 1, k)
  BY DEF SoundFile
<1>2. file = encode(s)
  BY <1>1, PrefixRefused
<1> QED BY <1>1, <1>2, ReadBack

-----------------------------------------------------------------------------
(* The steps. *)

\* An arena that a step makes anew is sound.
LEMMA NextInitStep == ArenaInit' => IInv'
<1>1. ArenaInit => IInv
  BY InitStep
<1> QED BY <1>1, PTL

\* A governor with an empty arena and no current record, whatever it knows
\* of retired allocations, satisfies the governor's invariant.
LEMMA Reborn ==
    ASSUME Fresh, records' = NoBook, retired' \in [AllocIds -> RecordType],
           next_alloc_id' \in Nat \ {0}, Bounded(retired', next_alloc_id'),
           history_count' \in Nat, initialized' = FALSE,
           current_committed' = 0, current_movable' = 0, current_pinned' = 0,
           pressure' \in PressureState
    PROVE  GInv'
<1>1. IInv'
  <2>1. ArenaInit'
    BY DEF Fresh, ArenaInit
  <2> QED BY <2>1, NextInitStep
<1>2. Live' = {}
  BY DEF Fresh, Live, FreeRegion
<1>3. Current' = {} /\ Retired' = InBook(retired')
  BY EmptyBook DEF Current, Retired, InBook
<1>4. GovernorTypeOK'
  <2>1. initialized' \in BOOLEAN
    BY Zenon
  <2>2. records' \in [AllocIds -> RecordType]
    BY EmptyBook
  <2> QED BY <2>1, <2>2 DEF GovernorTypeOK
<1>5. RecordsMirrorArena' /\ IdsFresh' /\ PinnedNotMovable' /\ AlignmentFits'
  BY <1>2, <1>3 DEF RecordsMirrorArena, IdsFresh, PinnedNotMovable, AlignmentFits, Bounded
<1>6. CommittedExact'
  BY DEF Fresh, CommittedExact
<1> QED BY <1>1, <1>4, <1>5, <1>6 DEF GInv

\* What survives a load is typed, and is what the snapshot had on record.
LEMMA SurvivingBook ==
    ASSUME NEW s, SoundSnapshot(s)
    PROVE  /\ Surviving(s) \in [AllocIds -> RecordType]
           /\ InBook(Surviving(s)) = InBook(s.records) \cup InBook(s.retired)
           /\ \A id \in AllocIds :
                 s.records[id].generation >= 1 \/ s.retired[id].generation >= 1
                   => Surviving(s)[id] # NoRecord
<1>1. s.records \in [AllocIds -> RecordType] /\ s.retired \in [AllocIds -> RecordType]
  BY DEF SoundSnapshot, SnapshotType
<1>2. \A rec \in RecordType : [rec EXCEPT !.lifecycle = "REVALIDATION_REQUIRED"] \in RecordType
  BY DEF RecordType, Lifecycle
<1>3. Surviving(s) \in [AllocIds -> RecordType]
  BY <1>1, <1>2 DEF Surviving
<1>4. \A rec \in RecordType : [rec EXCEPT !.lifecycle = "REVALIDATION_REQUIRED"] # NoRecord
  <2> SUFFICES ASSUME NEW rec \in RecordType
               PROVE  [rec EXCEPT !.lifecycle = "REVALIDATION_REQUIRED"].lifecycle # NoRecord.lifecycle
    OBVIOUS
  <2> QED BY DEF RecordType, NoRecord
<1>5. ASSUME NEW id \in AllocIds
      PROVE  Surviving(s)[id] # NoRecord <=> s.records[id] # NoRecord \/ s.retired[id] # NoRecord
  BY <1>1, <1>4 DEF Surviving
<1>6. InBook(Surviving(s)) = InBook(s.records) \cup InBook(s.retired)
  BY <1>5 DEF InBook
<1>7. ASSUME NEW id \in AllocIds,
             s.records[id].generation >= 1 \/ s.retired[id].generation >= 1
      PROVE  Surviving(s)[id] # NoRecord
  BY <1>1, <1>5, <1>7, Unrecorded
<1> QED BY <1>3, <1>6, <1>7

\* The first process starts with nothing saved.
LEMMA PersistenceInitStep == PersistenceInit => PInv
<1> SUFFICES ASSUME PersistenceInit PROVE PInv
  OBVIOUS
<1>1. GInv
  BY GovernorInitStep DEF PersistenceInit
<1>2. running \in BOOLEAN /\ writing \in BOOLEAN
  BY Zenon DEF PersistenceInit
<1>3. NoneAtWork
  BY DEF PersistenceInit, NoneAtWork
<1>4. SoundSnapshot(saved) /\ SoundFile(file)
  BY NoSnapshotSound, PartialSound DEF PersistenceInit
<1>5. KnownRetired
  BY DEF PersistenceInit, KnownRetired
<1> QED BY <1>1, <1>2, <1>3, <1>4, <1>5 DEF PInv

\* A call to the governor.
LEMMA GovernorCallStep ==
    ASSUME PInv, GovernorCall
    PROVE  PInv'
<1>1. GInv /\ Next /\ running
  BY DEF PInv, GovernorCall
<1>2. GInv'
  BY <1>1, GovernorStep
<1>3. NoneAtWork'
  BY <1>1 DEF GovernorCall, NoneAtWork
<1>4. KnownRetired'
  <2>1. \A id \in Retired : id \in Retired'
    BY <1>1, RetiredKept DEF Retired
  <2>2. known' = known /\ KnownRetired
    BY DEF GovernorCall, PInv
  <2> QED BY <2>1, <2>2 DEF KnownRetired
<1>5. SoundSnapshot(saved)' /\ SoundFile(file)' /\ running' \in BOOLEAN /\ writing' \in BOOLEAN
  BY DEF PInv, GovernorCall, SoundFile, SoundSnapshot, Bounded, InBook
<1> QED BY <1>2, <1>3, <1>4, <1>5 DEF PInv

\* A step that leaves the governor alone leaves its part of the invariant.
LEMMA GovernorAlone ==
    ASSUME PInv, UNCHANGED governor, known' = known
    PROVE  GInv' /\ Current' = Current /\ Retired' = Retired /\ KnownRetired'
<1>1. GInv'
  BY GovernorStep DEF PInv
<1>2. records' = records /\ retired' = retired
  BY DEF governor
<1> QED BY <1>1, <1>2 DEF PInv, KnownRetired, Current, Retired

\* A save, from the snapshot to the last write.
LEMMA SaveStep ==
    ASSUME PInv, BeginSave \/ EndSave
    PROVE  PInv'
<1>1. UNCHANGED governor /\ known' = known /\ running' = running
  BY DEF BeginSave, EndSave
<1>2. GInv' /\ Current' = Current /\ Retired' = Retired /\ KnownRetired'
  BY <1>1, GovernorAlone
<1>3. running = TRUE
  BY DEF PInv, NoneAtWork, BeginSave, EndSave
<1>4. writing' \in BOOLEAN /\ running' \in BOOLEAN
  BY <1>1, <1>3, Zenon DEF BeginSave, EndSave
<1>5. NoneAtWork'
  BY <1>1, <1>3 DEF NoneAtWork
<1>6. SoundSnapshot(saved')
  BY SnapshotSound, NoSnapshotSound DEF PInv, BeginSave, EndSave
<1>7. SoundFile(file')
  BY PartialSound, NoSnapshotSound DEF PInv, BeginSave, EndSave
<1> QED BY <1>2, <1>4, <1>5, <1>6, <1>7 DEF PInv, SoundFile, SoundSnapshot, Bounded, InBook

\* The end of a governor, by its destructor or with its process.
LEMMA EndStep ==
    ASSUME PInv, Destroyed \/ ProcessDies
    PROVE  PInv'
<1>1. Succeeded
  BY DEF Destroyed, ProcessDies
<1>2. GInv'
  <2>1. NoBook \in [AllocIds -> RecordType] /\ InBook(NoBook) = {}
    BY EmptyBook
  <2>2. Bounded(retired', next_alloc_id')
    BY <1>1, <2>1 DEF Succeeded, Bounded
  <2>3. pressure' \in PressureState
    BY <1>1 DEF Succeeded, PressureState
  <2>4. /\ Fresh /\ records' = NoBook /\ retired' \in [AllocIds -> RecordType]
        /\ next_alloc_id' \in Nat \ {0} /\ history_count' \in Nat /\ initialized' = FALSE
        /\ current_committed' = 0 /\ current_movable' = 0 /\ current_pinned' = 0
    BY <1>1, <2>1 DEF Succeeded
  <2> QED BY <2>2, <2>3, <2>4, Reborn
<1>3. running' \in BOOLEAN /\ writing' \in BOOLEAN
  BY <1>1, Zenon DEF Succeeded
<1>4. NoneAtWork'
  <2>1. writing' = FALSE /\ Current' = {} /\ Retired' = {}
    BY <1>1, EmptyBook DEF Succeeded, Current, Retired, InBook
  <2> QED BY <2>1 DEF NoneAtWork
<1>5. SoundSnapshot(saved')
  BY <1>1, NoSnapshotSound DEF Succeeded
<1>6. SoundFile(file')
  BY PartialSound DEF PInv, Destroyed, ProcessDies
<1>7. KnownRetired'
  BY <1>1 DEF Succeeded, KnownRetired
<1> QED BY <1>2, <1>3, <1>4, <1>5, <1>6, <1>7 DEF PInv, SoundFile, SoundSnapshot, Bounded, InBook

\* A governor, the next or the one at work, loads the file.
LEMMA LoadStep ==
    ASSUME PInv, load
    PROVE  PInv'
<1> DEFINE s == decode(file)
<1>1. SoundSnapshot(s)
  BY AcceptedWhole DEF PInv, load
<1>2. restore(s) /\ known' = HandlesOf(s) /\ running' = TRUE
      /\ UNCHANGED <<file, writing, saved>>
  BY DEF load
<1> HIDE DEF s
<1>3. /\ s.next_alloc_id \in Nat \ {0} /\ s.history_count \in Nat
      /\ Bounded(s.records, s.next_alloc_id) /\ Bounded(s.retired, s.next_alloc_id)
      /\ s.records \in [AllocIds -> RecordType] /\ s.retired \in [AllocIds -> RecordType]
  BY <1>1 DEF SoundSnapshot, SnapshotType
<1>4. /\ records' = NoBook /\ retired' = Surviving(s)
      /\ next_alloc_id' = s.next_alloc_id /\ history_count' = s.history_count
      /\ Fresh /\ initialized' = FALSE /\ pressure' = "REVALIDATION_REQUIRED"
      /\ current_committed' = 0 /\ current_movable' = 0 /\ current_pinned' = 0
  BY <1>2 DEF restore, RestoreBooks, RestoreIds
<1>5. /\ Surviving(s) \in [AllocIds -> RecordType]
      /\ InBook(Surviving(s)) = InBook(s.records) \cup InBook(s.retired)
      /\ \A id \in AllocIds :
            s.records[id].generation >= 1 \/ s.retired[id].generation >= 1
              => Surviving(s)[id] # NoRecord
  BY <1>1, SurvivingBook
<1>6. GInv'
  <2>1. Bounded(retired', next_alloc_id')
    BY <1>3, <1>4, <1>5 DEF Bounded
  <2>2. pressure' \in PressureState
    BY <1>4 DEF PressureState
  <2> QED BY <1>3, <1>4, <1>5, <2>1, <2>2, Reborn
<1>7. NoneAtWork'
  BY <1>2 DEF NoneAtWork
<1>8. KnownRetired'
  <2> SUFFICES ASSUME NEW h \in known' PROVE h[1] \in Retired'
    BY DEF KnownRetired
  <2>1. h \in HandlesOf(s)
    BY <1>2
  <2>2. /\ h[1] \in AllocIds /\ h[2] \in 1 .. MaxGeneration
        /\ h[2] <= s.records[h[1]].generation \/ h[2] <= s.retired[h[1]].generation
    BY <2>1 DEF HandlesOf
  <2>3. s.records[h[1]].generation \in Nat /\ s.retired[h[1]].generation \in Nat
    BY <1>3, <2>2, BoundAssumption DEF RecordType
  <2>4. s.records[h[1]].generation >= 1 \/ s.retired[h[1]].generation >= 1
    BY <2>2, <2>3, BoundAssumption
  <2> QED BY <1>4, <1>5, <2>2, <2>4 DEF Retired
<1>9. running' \in BOOLEAN /\ writing' \in BOOLEAN
  BY <1>2, Zenon DEF PInv
<1>10. SoundSnapshot(saved') /\ SoundFile(file')
  BY <1>2 DEF PInv
<1> QED BY <1>6, <1>7, <1>8, <1>9, <1>10 DEF PInv, SoundFile, SoundSnapshot, Bounded, InBook

\* Or begins without one.
LEMMA RefusedLoadStep ==
    ASSUME PInv, LoadRefused
    PROVE  PInv'
<1>1. UNCHANGED governor /\ UNCHANGED <<file, writing, saved, known>> /\ running' = TRUE
  BY DEF LoadRefused
<1>2. GInv' /\ Current' = Current /\ Retired' = Retired /\ KnownRetired'
  BY <1>1, GovernorAlone
<1>3. NoneAtWork'
  BY <1>1 DEF NoneAtWork
<1>4. running' \in BOOLEAN /\ writing' \in BOOLEAN
  BY <1>1, Zenon DEF PInv
<1>5. SoundSnapshot(saved') /\ SoundFile(file')
  BY <1>1 DEF PInv
<1> QED BY <1>2, <1>3, <1>4, <1>5 DEF PInv, SoundFile, SoundSnapshot, Bounded, InBook

(***************************************************************************)
(* Through saves, failed saves, destructors, deaths of the process and     *)
(* loads, in whatever order, the books and the arena of the governor in    *)
(* charge agree, and the file is a sound snapshot or a part of one.        *)
(***************************************************************************)
THEOREM PersistenceInvariant == PersistenceSpec => []PInv
<1>1. PersistenceInit => PInv
  BY PersistenceInitStep
<1>2. PInv /\ [PersistenceNext]_pvars => PInv'
  <2> SUFFICES ASSUME PInv, [PersistenceNext]_pvars PROVE PInv'
    OBVIOUS
  <2>1. CASE PersistenceNext
    BY <2>1, GovernorCallStep, SaveStep, EndStep, LoadStep, RefusedLoadStep DEF PersistenceNext
  <2>2. CASE UNCHANGED pvars
    <3>1. UNCHANGED governor /\ UNCHANGED <<file, writing, saved, running, known>>
      BY <2>2 DEF pvars, persistence
    <3>2. GInv' /\ Current' = Current /\ Retired' = Retired /\ KnownRetired'
      BY <3>1, GovernorAlone
    <3> QED BY <3>1, <3>2 DEF PInv, NoneAtWork, SoundFile, SoundSnapshot, Bounded, InBook
  <2> QED BY <2>1, <2>2
<1> QED BY <1>1, <1>2, PTL DEF PersistenceSpec

(***************************************************************************)
(* No handle that a governor has loaded is accepted by it, and each is on  *)
(* record as retired.                                                      *)
(***************************************************************************)
THEOREM KnownCorrect == PersistenceSpec => []KnownNeverHeld
<1>1. PInv => KnownNeverHeld
  BY DEF PInv, KnownRetired, GInv, IdsFresh, KnownNeverHeld, Holds
<1> QED BY <1>1, PersistenceInvariant, PTL

(***************************************************************************)
(* The records and the arena are two books of the same allocations in      *)
(* every life of the service, however it began.                            *)
(***************************************************************************)
THEOREM RecoveredRecordsCorrect == PersistenceSpec => []RecordsMirrorArena
<1>1. PInv => RecordsMirrorArena
  BY DEF PInv, GInv
<1> QED BY <1>1, PersistenceInvariant, PTL

(***************************************************************************)
(* A file that was cut short, has a damaged item or something after its    *)
(* end is refused, whatever governor it was saved from.                    *)
(***************************************************************************)
THEOREM DamageCorrect == PersistenceSpec => []DamageRefused
<1>1. PInv => DamageRefused
  <2> SUFFICES ASSUME PInv PROVE DamageRefused
    OBVIOUS
  <2> DEFINE s == snapshot
             f == encode(s)
  <2>1. SoundSnapshot(s)
    BY SnapshotSound DEF PInv
  <2>2. \A k \in 0 .. Len(f) - 1 : ~Accepts(SubSeq(f, 1, k))
    BY <2>1, PrefixRefused
  <2>3. \A i \in 1 .. Len(f) : ~Accepts(Append(f, f[i]))
    BY <2>1, TrailingRefused
  <2>4. ASSUME NEW i \in 1 .. Len(f), NEW x \in Damaged(f[i])
        PROVE  ~Accepts([f EXCEPT ![i] = x])
    <3>1. x # f[i]
      <4> DEFINE n == Size(s.records)
                 m == Size(s.retired)
                 B == Body(s)
      <4>1. IsFileOf(f, s, n, m)
        BY <2>1, FileOfSnapshot
      <4> HIDE DEF f, s, n, m
      <4>2. f[i] \in Item \/ (f[i] = Checksum(B) /\ B # << >>)
        <5>1. /\ n \in Nat /\ m \in Nat /\ Len(f) = n + m + 8 /\ Len(B) = n + m + 7
              /\ \A j \in 1 .. n + m + 7 : f[j] \in Item
              /\ f[n + m + 8] = Checksum(B)
          BY <4>1 DEF IsFileOf
        <5> HIDE DEF B
        <5>2. B # << >>
          BY <5>1
        <5>3. i \in 1 .. n + m + 7 \/ i = n + m + 8
          BY <2>4, <5>1
        <5> QED BY <5>1, <5>2, <5>3
      <4> HIDE DEF B
      <4> QED BY <2>4, <4>2, DamagedDiffers
    <3> QED BY <2>1, <3>1, ChangeRefused
  <2> HIDE DEF s, f
  <2>5. DamageRefused <=>
          /\ \A k \in 0 .. Len(f) - 1 : ~Accepts(SubSeq(f, 1, k))
          /\ \A i \in 1 .. Len(f) : \A x \in Damaged(f[i]) : ~Accepts([f EXCEPT ![i] = x])
          /\ \A i \in 1 .. Len(f) : ~Accepts(Append(f, f[i]))
    BY Zenon DEF DamageRefused, f, s
  <2> QED BY <2>2, <2>3, <2>4, <2>5, Zenon
<1> QED BY <1>1, PersistenceInvariant, PTL

-----------------------------------------------------------------------------
(* What the decoder asks of the records. *)

\* All that the decoder asks of a record, except that its region is no smaller
\* than its request. That is not kept: apply_relocation() takes any size.
WellPlaced(rec) ==
    /\ rec.requested_bytes # 0
    /\ is_pow2(rec.alignment)
    /\ rec.offset <= Capacity /\ rec.region_size <= Capacity - rec.offset
    /\ rec.offset % rec.alignment = 0
    /\ rec.generation # 0

\* Retired records keep what they had; of the current ones, the arena knows
\* the place.
RecordsValid ==
    /\ \A id \in Current : records[id].requested_bytes # 0
    /\ \A id \in Retired : WellPlaced(retired[id])

RInv == PInv /\ RecordsValid

\* A record is valid when it is well placed and has room for what was asked for.
LEMMA ValidWithRoom ==
    ASSUME NEW rec \in RecordType
    PROVE  validate_record(rec, Capacity)
             <=> WellPlaced(rec) /\ rec.requested_bytes <= rec.region_size
<1>1. rec.requested_bytes \in Nat /\ rec.region_size \in Nat
  BY CapacityAssumption DEF RecordType
<1>2. rec.region_size >= rec.requested_bytes <=> rec.requested_bytes <= rec.region_size
  BY <1>1
<1> QED BY <1>2 DEF validate_record, WellPlaced

\* A current record is well placed: it is where a live region is.
LEMMA CurrentPlaced ==
    ASSUME GInv, NEW id \in Current, records[id].requested_bytes # 0
    PROVE  WellPlaced(records[id])
<1>1. PICK r \in Live : Mirrors(records[id], r) /\ RegionSound(r) /\ r.generation >= 1
  BY Counterpart
<1>2. /\ records[id].offset = r.offset /\ records[id].region_size = r.size
      /\ records[id].generation = r.generation /\ records[id].alignment = r.alignment
  BY <1>1 DEF Mirrors
<1>3. is_pow2(r.alignment) /\ r.offset % r.alignment = 0
  BY DEF GInv, IInv, Aligned
<1>4. /\ r.offset \in Nat /\ r.size \in Nat /\ r.offset + r.size <= Capacity /\ Capacity \in Nat
      /\ r.generation \in Nat
  BY <1>1, CapacityAssumption, BoundAssumption DEF RegionSound, RegionType, EndOf, Bytes
<1>5. r.offset <= Capacity /\ r.size <= Capacity - r.offset /\ r.generation # 0
  BY <1>1, <1>4
<1> QED BY <1>2, <1>3, <1>5 DEF WellPlaced

\* A step that replaces one current record by another.
LEMMA OneReplaced ==
    ASSUME GInv, RecordsValid, NEW id \in AllocIds, NEW rec, rec.requested_bytes # 0,
           records' = [records EXCEPT ![id] = rec], Current' = Current \cup {id},
           retired' = retired
    PROVE  RecordsValid'
<1>1. \A j \in Current' : records'[j].requested_bytes # 0
  <2> SUFFICES ASSUME NEW j \in Current' PROVE records'[j].requested_bytes # 0
    OBVIOUS
  <2>1. records \in [AllocIds -> RecordType] /\ j \in AllocIds
    BY DEF GInv, GovernorTypeOK, Current
  <2>2. CASE j = id
    BY <2>1, <2>2
  <2>3. CASE j # id
    <3>1. records'[j] = records[j] /\ j \in Current
      BY <2>1, <2>3
    <3> QED BY <3>1 DEF RecordsValid
  <2> QED BY <2>2, <2>3
<1>2. \A j \in Retired' : WellPlaced(retired'[j])
  BY DEF RecordsValid, Retired
<1> QED BY <1>1, <1>2 DEF RecordsValid, WellPlaced

\* The governor's calls keep the records well placed.
LEMMA ValidCall ==
    ASSUME GInv, RecordsValid, Next
    PROVE  RecordsValid'
<1>1. CASE initialize \/ summary_locked \/ plan_query
  <2>1. records' = records /\ retired' = retired
    BY <1>1, QueryStep
  <2> QED BY <2>1 DEF RecordsValid, Current, Retired, WellPlaced
<1>2. ASSUME NEW req \in Requests, request_locked(req) PROVE RecordsValid'
  <2>1. retired' = retired /\ (Granted(next_alloc_id, req) \/ Refused(req))
    BY <1>2 DEF request_locked
  <2>2. CASE Granted(next_alloc_id, req)
    <3>1. PICK off \in Bytes :
            records' = [records EXCEPT ![next_alloc_id] = NewRecord(req, off)]
      BY <1>2, <2>2, GrantedStep
    <3>2. Current' = Current \cup {next_alloc_id}
      BY <1>2, <2>2, GrantedStep
    <3>3. next_alloc_id \in AllocIds /\ req.bytes # 0
      BY <1>2 DEF request_locked, validate_request
    <3>4. NewRecord(req, off).requested_bytes # 0
      BY <3>3 DEF NewRecord
    <3> QED BY <2>1, <3>1, <3>2, <3>3, <3>4, OneReplaced
  <2>3. CASE Refused(req)
    <3>1. records' = records
      BY <1>2, <2>3, RefusedStep
    <3> QED BY <2>1, <3>1 DEF RecordsValid, Current, Retired, WellPlaced
  <2> QED BY <2>1, <2>2, <2>3
<1>3. ASSUME NEW id \in AllocIds, NEW gen \in 1 .. MaxGeneration,
             NEW wb \in WorkerBoots, NEW sb \in SourceBoots, release_locked(id, gen, wb, sb)
      PROVE  RecordsValid'
  <2> DEFINE rec == [records[id] EXCEPT !.lifecycle = "RELEASED"]
  <2>1. /\ records' = [records EXCEPT ![id] = NoRecord] /\ Current' = Current \ {id}
        /\ id \in Current
    BY <1>3, ReleaseLockedStep
  <2>2. retired' = [retired EXCEPT ![id] = rec]
    BY <1>3 DEF release_locked
  <2>3. /\ records \in [AllocIds -> RecordType] /\ retired \in [AllocIds -> RecordType]
    BY DEF GInv, GovernorTypeOK
  <2>4. WellPlaced(records[id])
    BY <2>1, CurrentPlaced DEF RecordsValid
  <2>5. /\ rec.requested_bytes = records[id].requested_bytes
        /\ rec.alignment = records[id].alignment /\ rec.region_size = records[id].region_size
        /\ rec.offset = records[id].offset /\ rec.generation = records[id].generation
    BY <2>3 DEF RecordType
  <2>6. WellPlaced(rec)
    BY <2>4, <2>5 DEF WellPlaced
  <2> HIDE DEF rec
  <2>7. \A j \in Current' : records'[j].requested_bytes # 0
    BY <2>1, <2>3 DEF RecordsValid, Current
  <2>8. \A j \in Retired' : WellPlaced(retired'[j])
    <3> SUFFICES ASSUME NEW j \in Retired' PROVE WellPlaced(retired'[j])
      OBVIOUS
    <3>1. j \in AllocIds /\ retired'[j] # NoRecord
      BY DEF Retired
    <3>2. CASE j = id
      BY <2>2, <2>3, <2>6, <3>1, <3>2
    <3>3. CASE j # id
      <4>1. retired'[j] = retired[j]
        BY <2>2, <2>3, <3>1, <3>3
      <4>2. j \in Retired
        BY <3>1, <4>1 DEF Retired
      <4> QED BY <4>1, <4>2 DEF RecordsValid
    <3> QED BY <3>2, <3>3
  <2> QED BY <2>7, <2>8 DEF RecordsValid, WellPlaced
<1>4. ASSUME NEW id \in AllocIds, NEW gen \in 1 .. MaxGeneration, pin_locked(id, gen)
      PROVE  RecordsValid'
  <2>1. Current' = Current /\ retired' = retired /\ id \in Current
    BY <1>4, PinLockedStep
  <2>2. PICK r : records' = [records EXCEPT ![id] = PinCopy(records[id], r)]
    BY <1>4, PinLockedStep
  <2>3. records[id] \in RecordType
    BY DEF GInv, GovernorTypeOK
  <2>4. PinCopy(records[id], r).requested_bytes = records[id].requested_bytes
    BY <2>3 DEF PinCopy, RecordType
  <2>5. PinCopy(records[id], r).requested_bytes # 0
    BY <2>1, <2>4 DEF RecordsValid
  <2> QED BY <2>1, <2>2, <2>5, OneReplaced
<1>5. ASSUME NEW id \in AllocIds, NEW gen \in 1 .. MaxGeneration, unpin_locked(id, gen)
      PROVE  RecordsValid'
  <2>1. Current' = Current /\ retired' = retired /\ id \in Current
    BY <1>5, UnpinLockedStep
  <2>2. PICK r : records' = [records EXCEPT ![id] = UnpinCopy(records[id], r)]
    BY <1>5, UnpinLockedStep
  <2>3. records[id] \in RecordType
    BY DEF GInv, GovernorTypeOK
  <2>4. UnpinCopy(records[id], r).requested_bytes = records[id].requested_bytes
    BY <2>3 DEF UnpinCopy, RecordType
  <2>5. UnpinCopy(records[id], r).requested_bytes # 0
    BY <2>1, <2>4 DEF RecordsValid
  <2> QED BY <2>1, <2>2, <2>5, OneReplaced
<1>6. ASSUME NEW id \in AllocIds, NEW gen \in 1 .. MaxGeneration, NEW lo \in 0 .. Capacity,
             NEW n \in RelocationBytes \cup {records[id].region_size},
             apply_relocation(id, gen, lo, n)
      PROVE  RecordsValid'
  <2> DEFINE rec == MovedRecord(records[id], lo, n)
  <2>1. /\ Current' = Current /\ retired' = retired /\ id \in Current
        /\ records' = [records EXCEPT ![id] = rec]
    BY <1>6, RelocationStep
  <2>2. records[id] \in RecordType
    BY DEF GInv, GovernorTypeOK
  <2>3. rec.requested_bytes = records[id].requested_bytes
    BY <2>2 DEF MovedRecord, RecordType
  <2>4. rec.requested_bytes # 0
    BY <2>1, <2>3 DEF RecordsValid
  <2> QED BY <2>1, <2>4, OneReplaced
<1> QED BY <1>1, <1>2, <1>3, <1>4, <1>5, <1>6 DEF Next

\* A record that a book was read back with is in one of the rows.
LEMMA ReadFromRow ==
    ASSUME NEW f, NEW lo, NEW hi, NEW id \in AllocIds, BookOf(f, lo, hi)[id] # NoRecord
    PROVE  \E i \in lo .. hi : f[i][2] = id /\ BookOf(f, lo, hi)[id] = f[i][3]
<1> DEFINE At(i) == f[i][2] = id
           row == CHOOSE i \in lo .. hi : At(i)
<1>1. BookOf(f, lo, hi)[id] = IF \E i \in lo .. hi : At(i) THEN f[row][3] ELSE NoRecord
  BY DEF BookOf
<1>2. \E i \in lo .. hi : At(i)
  BY <1>1
<1>3. row \in lo .. hi /\ At(row)
  BY <1>2
<1> HIDE DEF row
<1> QED BY <1>1, <1>2, <1>3

\* What the decoder lets in is valid.
LEMMA LoadedValid ==
    ASSUME SoundFile(file), Accepts(file)
    PROVE  LET s == decode(file)
           IN  /\ \A id \in InBook(s.records) : validate_record(s.records[id], Capacity)
               /\ \A id \in InBook(s.retired) : validate_record(s.retired[id], Capacity)
<1> DEFINE f == file
           mid == AfterRows(f, 4)
           end == AfterRows(f, mid)
           rows == (5 .. mid - 1) \cup (mid + 1 .. end - 1)
<1>1. PICK s : /\ SoundSnapshot(s)
               /\ \/ file = encode(s)
                  \/ \E k \in 0 .. Len(encode(s)) - 1 : file = SubSeq(encode(s), 1, k)
  BY DEF SoundFile
<1>2. f[3][2] = Capacity
  <2>1. file = encode(s)
    BY <1>1, PrefixRefused
  <2>2. f[3] = Domain
    BY <1>1, <2>1, FileOfSnapshot DEF IsFileOf
  <2> QED BY <2>2 DEF Domain
<1>3. \A i \in rows : validate_record(f[i][3], Capacity)
  BY <1>2 DEF Accepts, Consistent
<1>4. /\ decode(f).records = BookOf(f, 5, mid - 1)
      /\ decode(f).retired = BookOf(f, mid + 1, end - 1)
  BY DEF decode
<1> HIDE DEF mid, end
<1>5. ASSUME NEW id \in InBook(decode(f).records)
      PROVE  validate_record(decode(f).records[id], Capacity)
  <2>1. id \in AllocIds /\ BookOf(f, 5, mid - 1)[id] # NoRecord
    BY <1>4, <1>5 DEF InBook
  <2>2. PICK i \in 5 .. mid - 1 : BookOf(f, 5, mid - 1)[id] = f[i][3]
    BY <2>1, ReadFromRow
  <2> QED BY <1>3, <1>4, <2>2
<1>6. ASSUME NEW id \in InBook(decode(f).retired)
      PROVE  validate_record(decode(f).retired[id], Capacity)
  <2>1. id \in AllocIds /\ BookOf(f, mid + 1, end - 1)[id] # NoRecord
    BY <1>4, <1>6 DEF InBook
  <2>2. PICK i \in mid + 1 .. end - 1 : BookOf(f, mid + 1, end - 1)[id] = f[i][3]
    BY <2>1, ReadFromRow
  <2> QED BY <1>3, <1>4, <2>2
<1> QED BY <1>5, <1>6

\* A governor that begins with what a file tells has valid records.
LEMMA ValidLoad ==
    ASSUME PInv, load
    PROVE  RecordsValid'
<1> DEFINE s == decode(file)
<1>1. SoundFile(file) /\ Accepts(file) /\ restore(s)
  BY DEF PInv, load
<1>2. /\ \A id \in InBook(s.records) : validate_record(s.records[id], Capacity)
      /\ \A id \in InBook(s.retired) : validate_record(s.retired[id], Capacity)
  BY <1>1, LoadedValid
<1>3. SoundSnapshot(s)
  BY <1>1, AcceptedWhole
<1> HIDE DEF s
<1>4. s.records \in [AllocIds -> RecordType] /\ s.retired \in [AllocIds -> RecordType]
  BY <1>3 DEF SoundSnapshot, SnapshotType
<1>5. records' = NoBook /\ retired' = Surviving(s)
  BY <1>1 DEF restore, RestoreBooks
<1>6. Current' = {}
  BY <1>5, EmptyBook DEF Current, InBook
<1>7. ASSUME NEW id \in Retired' PROVE WellPlaced(retired'[id])
  <2>1. id \in AllocIds /\ Surviving(s)[id] # NoRecord
    BY <1>5 DEF Retired
  <2>2. CASE s.records[id] # NoRecord
    <3> DEFINE rec == [s.records[id] EXCEPT !.lifecycle = "REVALIDATION_REQUIRED"]
    <3>1. Surviving(s)[id] = rec
      BY <2>1, <2>2 DEF Surviving
    <3>2. s.records[id] \in RecordType /\ validate_record(s.records[id], Capacity)
      BY <1>2, <1>4, <2>1, <2>2 DEF InBook
    <3>3. /\ rec.requested_bytes = s.records[id].requested_bytes
          /\ rec.alignment = s.records[id].alignment
          /\ rec.region_size = s.records[id].region_size
          /\ rec.offset = s.records[id].offset /\ rec.generation = s.records[id].generation
      BY <3>2 DEF RecordType
    <3> HIDE DEF rec
    <3> QED BY <1>5, <3>1, <3>2, <3>3, ValidWithRoom DEF WellPlaced
  <2>3. CASE s.records[id] = NoRecord
    <3>1. Surviving(s)[id] = s.retired[id]
      BY <2>1, <2>3 DEF Surviving
    <3>2. s.retired[id] \in RecordType /\ validate_record(s.retired[id], Capacity)
      BY <1>2, <1>4, <2>1, <3>1 DEF InBook
    <3> QED BY <1>5, <3>1, <3>2, ValidWithRoom
  <2> QED BY <2>2, <2>3
<1> QED BY <1>6, <1>7 DEF RecordsValid, WellPlaced

(***************************************************************************)
(* In every life of the service every record, current or retired, is one   *)
(* that the decoder would let in if it has room for what was asked for.    *)
(***************************************************************************)
LEMMA ValidInvariant == PersistenceSpec => []RInv
<1>1. PersistenceInit => RInv
  <2> SUFFICES ASSUME PersistenceInit PROVE RInv
    OBVIOUS
  <2>1. PInv
    BY PersistenceInitStep
  <2>2. Current = {} /\ Retired = {}
    BY DEF PersistenceInit, Init, Current, Retired
  <2> QED BY <2>1, <2>2 DEF RInv, RecordsValid
<1>2. RInv /\ PInv' /\ [PersistenceNext]_pvars => RInv'
  <2> SUFFICES ASSUME RInv, PInv', [PersistenceNext]_pvars PROVE RecordsValid'
    BY DEF RInv
  <2>1. PInv /\ GInv /\ RecordsValid
    BY DEF RInv, PInv
  <2>2. CASE GovernorCall
    BY <2>1, <2>2, ValidCall DEF GovernorCall
  <2>3. CASE records' = records /\ retired' = retired
    BY <2>1, <2>3 DEF RecordsValid, Current, Retired, WellPlaced
  <2>4. CASE Destroyed \/ ProcessDies
    <3>1. records' = NoBook /\ retired' = NoBook
      BY <2>4 DEF Destroyed, ProcessDies, Succeeded
    <3>2. Current' = {} /\ Retired' = {}
      BY <3>1, EmptyBook DEF Current, Retired, InBook
    <3> QED BY <3>2 DEF RecordsValid
  <2>5. CASE load
    BY <2>1, <2>5, ValidLoad
  <2>6. BeginSave \/ EndSave \/ LoadRefused \/ UNCHANGED pvars
          => records' = records /\ retired' = retired
    BY DEF BeginSave, EndSave, LoadRefused, pvars, governor
  <2> QED BY <2>2, <2>3, <2>4, <2>5, <2>6 DEF PersistenceNext
<1> QED BY <1>1, <1>2, PersistenceInvariant, PTL DEF PersistenceSpec

\* The rows of a snapshot's file, and the ids in them.
LEMMA RowsOfFile ==
    ASSUME NEW s, SoundSnapshot(s)
    PROVE  LET f == encode(s)
               n == Size(s.records)
               m == Size(s.retired)
           IN  /\ n \in Nat /\ m \in Nat /\ f[3] = Domain
               /\ AfterRows(f, 4) = n + 5 /\ AfterRows(f, n + 5) = n + m + 6
               /\ \A i \in 5 .. n + 4 : \E id \in InBook(s.records) :
                     f[i] = RecordItem(id, s.records[id])
               /\ \A i \in n + 6 .. n + m + 5 : \E id \in InBook(s.retired) :
                     f[i] = RecordItem(id, s.retired[id])
               /\ \A i, j \in 5 .. n + 4 : f[i][2] = f[j][2] => i = j
               /\ \A i, j \in n + 6 .. n + m + 5 : f[i][2] = f[j][2] => i = j
<1> DEFINE f == encode(s)
           n == Size(s.records)
           m == Size(s.retired)
           u == RecordsOf(s.records)
           v == RecordsOf(s.retired)
<1>1. /\ s.records \in [AllocIds -> RecordType] /\ s.retired \in [AllocIds -> RecordType]
      /\ s.next_alloc_id \in Nat
      /\ Bounded(s.records, s.next_alloc_id) /\ Bounded(s.retired, s.next_alloc_id)
  BY DEF SoundSnapshot, SnapshotType
<1>2. /\ \A i \in 1 .. n : \E id \in InBook(s.records) : u[i] = RecordItem(id, s.records[id])
      /\ \A i, j \in 1 .. n : u[i][2] = u[j][2] => i = j
  BY <1>1, RowsOfBook
<1>3. /\ \A i \in 1 .. m : \E id \in InBook(s.retired) : v[i] = RecordItem(id, s.retired[id])
      /\ \A i, j \in 1 .. m : v[i][2] = v[j][2] => i = j
  BY <1>1, RowsOfBook
<1>4. /\ n \in Nat /\ m \in Nat /\ f[3] = Domain /\ f[4] = Word(n) /\ f[n + 5] = Word(m)
      /\ \A i \in 1 .. n : f[i + 4] = u[i]
      /\ \A i \in 1 .. m : f[n + 5 + i] = v[i]
  BY FileOfSnapshot DEF IsFileOf
<1> HIDE DEF f, n, m, u, v
<1>5. \A i \in 5 .. n + 4 : i - 4 \in 1 .. n /\ f[i] = u[i - 4]
  <2> SUFFICES ASSUME NEW i \in 5 .. n + 4 PROVE i - 4 \in 1 .. n /\ f[i] = u[i - 4]
    OBVIOUS
  <2>1. i - 4 \in 1 .. n /\ (i - 4) + 4 = i
    BY <1>4
  <2> QED BY <1>4, <2>1
<1>6. \A i \in n + 6 .. n + m + 5 : i - n - 5 \in 1 .. m /\ f[i] = v[i - n - 5]
  <2> SUFFICES ASSUME NEW i \in n + 6 .. n + m + 5
               PROVE  i - n - 5 \in 1 .. m /\ f[i] = v[i - n - 5]
    OBVIOUS
  <2>1. i - n - 5 \in 1 .. m /\ n + 5 + (i - n - 5) = i
    BY <1>4
  <2> QED BY <1>4, <2>1
<1>7. \A i, j \in 5 .. n + 4 : f[i][2] = f[j][2] => i = j
  <2> SUFFICES ASSUME NEW i \in 5 .. n + 4, NEW j \in 5 .. n + 4, f[i][2] = f[j][2]
               PROVE  i = j
    OBVIOUS
  <2>1. i - 4 = j - 4
    BY <1>2, <1>5
  <2> QED BY <1>4, <2>1
<1>8. \A i, j \in n + 6 .. n + m + 5 : f[i][2] = f[j][2] => i = j
  <2> SUFFICES ASSUME NEW i \in n + 6 .. n + m + 5, NEW j \in n + 6 .. n + m + 5,
                      f[i][2] = f[j][2]
               PROVE  i = j
    OBVIOUS
  <2>1. i - n - 5 = j - n - 5
    BY <1>3, <1>6
  <2> QED BY <1>4, <2>1
<1>9. AfterRows(f, 4) = n + 5 /\ AfterRows(f, n + 5) = n + m + 6
  <2>1. f[4][2] = n /\ f[n + 5][2] = m
    BY <1>4 DEF Word
  <2> QED BY <1>4, <2>1 DEF AfterRows
<1>10. /\ \A i \in 5 .. n + 4 : \E id \in InBook(s.records) : f[i] = RecordItem(id, s.records[id])
       /\ \A i \in n + 6 .. n + m + 5 : \E id \in InBook(s.retired) :
             f[i] = RecordItem(id, s.retired[id])
  BY <1>2, <1>3, <1>5, <1>6
<1> QED BY <1>4, <1>7, <1>8, <1>9, <1>10 DEF f, n, m

\* The records of a snapshot that make sense together pass the decoder's checks.
LEMMA SavedConsistent ==
    ASSUME NEW s, SoundSnapshot(s), InBook(s.records) \cap InBook(s.retired) = {},
           \A id \in InBook(s.records) : validate_record(s.records[id], Capacity),
           \A id \in InBook(s.retired) : validate_record(s.retired[id], Capacity),
           \A i, j \in InBook(s.records) : i = j \/ Disjoint(s.records[i], s.records[j])
    PROVE  Consistent(encode(s))
<1> DEFINE f == encode(s)
           n == Size(s.records)
           m == Size(s.retired)
           live == 5 .. n + 4
           gone == n + 6 .. n + m + 5
<1>1. /\ n \in Nat /\ m \in Nat /\ f[3] = Domain
      /\ AfterRows(f, 4) = n + 5 /\ AfterRows(f, n + 5) = n + m + 6
      /\ \A i \in live : \E id \in InBook(s.records) : f[i] = RecordItem(id, s.records[id])
      /\ \A i \in gone : \E id \in InBook(s.retired) : f[i] = RecordItem(id, s.retired[id])
      /\ \A i, j \in live : f[i][2] = f[j][2] => i = j
      /\ \A i, j \in gone : f[i][2] = f[j][2] => i = j
  BY RowsOfFile
<1> HIDE DEF f, n, m
<1>2. \A id, rec : RecordItem(id, rec)[2] = id /\ RecordItem(id, rec)[3] = rec
  BY DEF RecordItem
<1>3. /\ \A i \in live : f[i][2] \in InBook(s.records) /\ f[i][3] = s.records[f[i][2]]
      /\ \A i \in gone : f[i][2] \in InBook(s.retired) /\ f[i][3] = s.retired[f[i][2]]
  BY <1>1, <1>2
<1>4. (n + 5) - 1 = n + 4 /\ (n + 5) + 1 = n + 6 /\ (n + m + 6) - 1 = n + m + 5
  BY <1>1
<1> HIDE DEF live, gone
<1>5. \A i \in live \cup gone : validate_record(f[i][3], Capacity)
  BY <1>3
<1>6. \A i, j \in live \cup gone : f[i][2] = f[j][2] => i = j
  <2> SUFFICES ASSUME NEW i \in live \cup gone, NEW j \in live \cup gone, f[i][2] = f[j][2]
               PROVE  i = j
    OBVIOUS
  <2>1. (i \in live /\ j \in live) \/ (i \in gone /\ j \in gone)
    BY <1>3
  <2> QED BY <1>1, <2>1
<1>7. \A i, j \in live : i = j \/ Disjoint(f[i][3], f[j][3])
  BY <1>1, <1>3
<1>8. BytesIn(f, live) <= Capacity
  <2>1. IsFiniteSet(live)
    BY <1>1, FS_Interval DEF live
  <2>2. ASSUME NEW i \in live
        PROVE  /\ f[i][3].region_size \in Nat /\ f[i][3].offset \in Nat
               /\ f[i][3].offset + f[i][3].region_size <= Capacity
    <3>1. f[i][3] \in RecordType
      BY <1>3 DEF SoundSnapshot, SnapshotType, InBook
    <3>2. f[i][3].region_size \in Nat /\ f[i][3].offset \in Nat /\ Capacity \in Nat
      BY <3>1, CapacityAssumption DEF RecordType, Bytes
    <3>3. f[i][3].region_size <= Capacity - f[i][3].offset
      BY <1>5 DEF validate_record
    <3> QED BY <3>2, <3>3
  <2>3. Capacity \in Nat /\ Capacity < WordSize
    BY CapacityAssumption, WordAssumption
  <2> QED BY <1>7, <2>1, <2>2, <2>3, DisjointSum
<1>9. f[3][2] = Capacity
  BY <1>1 DEF Domain
<1>10. /\ 5 .. AfterRows(f, 4) - 1 = live
       /\ AfterRows(f, 4) + 1 .. AfterRows(f, AfterRows(f, 4)) - 1 = gone
  <2>1. 5 .. (n + 5) - 1 = live /\ (n + 5) + 1 .. (n + m + 6) - 1 = gone
    BY <1>4, Zenon DEF live, gone
  <2> QED BY <1>1, <2>1
<1>11. Consistent(f)
  BY <1>5, <1>6, <1>7, <1>8, <1>9, <1>10, Zenon DEF Consistent
<1> QED BY <1>11 DEF f

\* A file that is accepted is within the decoder's limits.
LEMMA AcceptedLoadable ==
    ASSUME NEW s, SoundSnapshot(s), Accepts(encode(s))
    PROVE  Loadable(s)
<1> DEFINE f == encode(s)
           n == Size(s.records)
           m == Size(s.retired)
<1>1. IsFileOf(f, s, n, m)
  BY FileOfSnapshot
<1>2. AfterRows(f, 4) = n + 5 /\ AfterRows(f, n + 5) = n + m + 6
  BY RowsOfFile
<1>3. /\ s.records \in [AllocIds -> RecordType] /\ s.retired \in [AllocIds -> RecordType]
      /\ s.next_alloc_id \in Nat
      /\ Bounded(s.records, s.next_alloc_id) /\ Bounded(s.retired, s.next_alloc_id)
  BY DEF SoundSnapshot, SnapshotType
<1>4. /\ \A id \in InBook(s.records) : \E i \in 1 .. n :
            RecordsOf(s.records)[i] = RecordItem(id, s.records[id])
      /\ \A id \in InBook(s.retired) : \E i \in 1 .. m :
            RecordsOf(s.retired)[i] = RecordItem(id, s.retired[id])
  BY <1>3, RowsOfBook
<1>5. HasRows(f, 4) /\ HasRows(f, AfterRows(f, 4)) /\ Consistent(f)
  BY Zenon DEF Accepts, WellFormed
<1> HIDE DEF f, n, m
<1>6. /\ n \in Nat /\ m \in Nat
      /\ f[3] = Domain /\ f[4][2] = n /\ f[n + 5][2] = m
      /\ \A i \in 1 .. n : f[i + 4] = RecordsOf(s.records)[i]
      /\ \A i \in 1 .. m : f[n + 5 + i] = RecordsOf(s.retired)[i]
  BY <1>1 DEF IsFileOf, Word
<1>7. n <= MaxRecords /\ m <= MaxRecords
  BY <1>2, <1>5, <1>6 DEF HasRows
<1>8. /\ \A j \in 1 .. n : HasRecord(f, 4 + j)
      /\ \A j \in 1 .. m : HasRecord(f, n + 5 + j)
  BY <1>2, <1>5, <1>6 DEF HasRows
<1>9. \A i \in (5 .. n + 4) \cup (n + 6 .. n + m + 5) : validate_record(f[i][3], f[3][2])
  <2>1. /\ 5 .. AfterRows(f, 4) - 1 = 5 .. n + 4
        /\ AfterRows(f, 4) + 1 .. AfterRows(f, AfterRows(f, 4)) - 1 = n + 6 .. n + m + 5
    <3>1. (n + 5) - 1 = n + 4 /\ (n + 5) + 1 = n + 6 /\ (n + m + 6) - 1 = n + m + 5
      BY <1>6
    <3> QED BY <1>2, <3>1
  <2> QED BY <1>5, <2>1, Zenon DEF Consistent
<1>10. f[3][2] = Capacity
  BY <1>6 DEF Domain
<1>11. \A id, rec : RecordItem(id, rec)[3] = rec
  BY DEF RecordItem
<1>12. ASSUME NEW id \in InBook(s.records)
       PROVE  /\ s.records[id].requested_bytes <= s.records[id].region_size
              /\ s.records[id].backing_ref # "oversized"
  <2>1. PICK i \in 1 .. n : RecordsOf(s.records)[i] = RecordItem(id, s.records[id])
    BY <1>4
  <2>2. f[i + 4][3] = s.records[id] /\ i + 4 = 4 + i /\ i + 4 \in 5 .. n + 4
    BY <1>6, <1>11, <2>1
  <2>3. validate_record(s.records[id], Capacity) /\ s.records[id] \in RecordType
    BY <1>3, <1>9, <1>10, <2>2 DEF InBook
  <2>4. s.records[id].backing_ref # "oversized"
    BY <1>8, <2>2 DEF HasRecord
  <2> QED BY <2>3, <2>4, ValidWithRoom
<1>13. ASSUME NEW id \in InBook(s.retired)
       PROVE  /\ s.retired[id].requested_bytes <= s.retired[id].region_size
              /\ s.retired[id].backing_ref # "oversized"
  <2>1. PICK i \in 1 .. m : RecordsOf(s.retired)[i] = RecordItem(id, s.retired[id])
    BY <1>4
  <2>2. f[n + 5 + i][3] = s.retired[id] /\ n + 5 + i \in n + 6 .. n + m + 5
    BY <1>6, <1>11, <2>1
  <2>3. validate_record(s.retired[id], Capacity) /\ s.retired[id] \in RecordType
    BY <1>3, <1>9, <1>10, <2>2 DEF InBook
  <2>4. s.retired[id].backing_ref # "oversized"
    BY <1>8, <2>2 DEF HasRecord
  <2> QED BY <2>3, <2>4, ValidWithRoom
<1> QED BY <1>7, <1>12, <1>13 DEF Loadable, Size, n, m

(***************************************************************************)
(* In every state a governor reaches in any life of the service, the file  *)
(* that save() writes is accepted by load() exactly when its records are   *)
(* no more than the decoder admits, their texts no longer than it reads    *)
(* and their regions no smaller than what was asked for, and is then read  *)
(* back as it was. No assumption is made on requests, relocations or the   *)
(* number of ids.                                                          *)
(***************************************************************************)
THEOREM RoundTripCorrect == PersistenceSpec => []RoundTrip
<1>1. RInv => RoundTrip
  <2> SUFFICES ASSUME RInv PROVE RoundTrip
    OBVIOUS
  <2>1. GInv /\ RecordsValid /\ SoundSnapshot(snapshot)
    BY SnapshotSound DEF RInv, PInv
  <2>2. /\ snapshot.records = records /\ snapshot.retired = retired
        /\ InBook(records) = Current /\ InBook(retired) = Retired
    BY DEF snapshot, InBook, Current, Retired
  <2>3. Current \cap Retired = {}
    BY <2>1 DEF GInv, IdsFresh
  <2>4. \A i, j \in Current : i = j \/ Disjoint(records[i], records[j])
    <3> SUFFICES ASSUME NEW i \in Current, NEW j \in Current, i # j
                 PROVE  Disjoint(records[i], records[j])
      OBVIOUS
    <3>1. PICK p \in Live : p.alloc_id = i /\ Mirrors(records[i], p)
      BY <2>1, Counterpart
    <3>2. PICK q \in Live : q.alloc_id = j /\ Mirrors(records[j], q)
      BY <2>1, Counterpart
    <3>3. Apart(p, q)
      BY <2>1, <3>1, <3>2, LiveFacts DEF GInv
    <3> QED BY <3>1, <3>2, <3>3 DEF Apart, EndOf, Mirrors, Disjoint
  <2>5. ASSUME Loadable(snapshot) PROVE Accepts(encode(snapshot))
    <3>1. /\ \A id \in Current : records[id].requested_bytes <= records[id].region_size
          /\ \A id \in Retired : retired[id].requested_bytes <= retired[id].region_size
      BY <2>2, <2>5 DEF Loadable
    <3>2. records \in [AllocIds -> RecordType] /\ retired \in [AllocIds -> RecordType]
      BY <2>1 DEF GInv, GovernorTypeOK
    <3>3. \A id \in Current : validate_record(records[id], Capacity)
      BY <2>1, <3>1, <3>2, CurrentPlaced, ValidWithRoom DEF RecordsValid, Current
    <3>4. \A id \in Retired : validate_record(retired[id], Capacity)
      BY <2>1, <3>1, <3>2, ValidWithRoom DEF RecordsValid, Retired
    <3>5. Consistent(encode(snapshot))
      BY <2>1, <2>2, <2>3, <2>4, <3>3, <3>4, SavedConsistent
    <3> QED BY <2>1, <2>5, <3>5, SavedWellFormed DEF Accepts
  <2>6. Accepts(encode(snapshot)) => Loadable(snapshot)
    BY <2>1, AcceptedLoadable
  <2>7. decode(encode(snapshot)) = snapshot
    BY <2>1, ReadBack
  <2> QED BY <2>5, <2>6, <2>7, Zenon DEF RoundTrip
<1> QED BY <1>1, ValidInvariant, PTL

-----------------------------------------------------------------------------
(* A service that saves before it ends. *)

\* A service whose governors end, or forget their allocations by a load, only
\* when the file holds what they know: saved, and not called since.
SavedFirst == running /\ (~running' \/ load) => ~writing /\ file = encode(snapshot)
OrderlySpec == PersistenceInit /\ [][PersistenceNext /\ SavedFirst]_pvars

\* The handles of earlier governors are on record as retired, or in the file
\* that the next governor will load.
LostOnRecord ==
    /\ running => \A h \in lost : h[1] \in Retired
    /\ ~running => \E s : /\ SoundSnapshot(s) /\ file = encode(s)
                          /\ \A h \in lost : h[1] \in InBook(s.records) \cup InBook(s.retired)

\* The ids of a governor's handles are in its books.
LEMMA HandlesInBooks ==
    ASSUME GInv, NEW h \in HandlesOf(snapshot)
    PROVE  h[1] \in Current \cup Retired
<1>1. snapshot.records = records /\ snapshot.retired = retired
  BY DEF snapshot
<1>2. /\ h[1] \in AllocIds /\ h[2] \in 1 .. MaxGeneration
      /\ h[2] <= records[h[1]].generation \/ h[2] <= retired[h[1]].generation
  BY <1>1 DEF HandlesOf
<1>3. records[h[1]] \in RecordType /\ retired[h[1]] \in RecordType
  BY <1>2 DEF GInv, GovernorTypeOK
<1>4. records[h[1]].generation \in Nat /\ retired[h[1]].generation \in Nat
  BY <1>3, BoundAssumption DEF RecordType
<1>5. records[h[1]].generation >= 1 \/ retired[h[1]].generation >= 1
  BY <1>2, <1>4, BoundAssumption
<1> QED BY <1>2, <1>3, <1>5, Unrecorded DEF Current, Retired

\* What a governor that was saved knows is in the file: its own handles and
\* those of earlier ones.
LEMMA SavedHandles ==
    ASSUME PInv, LostOnRecord, running, SavedFirst, ~running' \/ load
    PROVE  /\ ~writing /\ SoundSnapshot(snapshot) /\ file = encode(snapshot)
           /\ \A h \in lost \cup HandlesOf(snapshot) :
                 h[1] \in InBook(snapshot.records) \cup InBook(snapshot.retired)
<1>1. ~writing /\ file = encode(snapshot)
  BY DEF SavedFirst
<1> DEFINE s == snapshot
<1>2. SoundSnapshot(s) /\ InBook(s.records) = Current /\ InBook(s.retired) = Retired
  BY SnapshotSound DEF PInv, snapshot, InBook, Current, Retired
<1>3. \A h \in lost : h[1] \in Retired
  BY DEF LostOnRecord
<1>4. \A h \in HandlesOf(snapshot) : h[1] \in Current \cup Retired
  BY HandlesInBooks DEF PInv
<1> HIDE DEF s
<1>5. \A h \in lost \cup HandlesOf(snapshot) : h[1] \in InBook(s.records) \cup InBook(s.retired)
  BY <1>2, <1>3, <1>4
<1> QED BY <1>1, <1>2, <1>5 DEF s

\* A governor ends with its file saved: what it leaves is all in the file.
LEMMA OrderlyEndStep ==
    ASSUME PInv, LostOnRecord, Destroyed \/ ProcessDies, SavedFirst
    PROVE  LostOnRecord'
<1>1. running /\ ~running' /\ lost' = lost \cup HandlesOf(snapshot)
  BY DEF Destroyed, ProcessDies, Succeeded
<1>2. /\ ~writing /\ SoundSnapshot(snapshot) /\ file = encode(snapshot)
      /\ \A h \in lost \cup HandlesOf(snapshot) :
            h[1] \in InBook(snapshot.records) \cup InBook(snapshot.retired)
  BY <1>1, SavedHandles
<1>3. file' = file
  BY <1>2 DEF Destroyed, ProcessDies
<1> DEFINE s == snapshot
<1>4. /\ SoundSnapshot(s) /\ file' = encode(s)
      /\ \A h \in lost' : h[1] \in InBook(s.records) \cup InBook(s.retired)
  BY <1>1, <1>2, <1>3
<1> HIDE DEF s
<1>5. \E t : /\ SoundSnapshot(t) /\ file' = encode(t)
             /\ \A h \in lost' : h[1] \in InBook(t.records) \cup InBook(t.retired)
  BY <1>4
<1> QED BY <1>1, <1>5 DEF LostOnRecord, SoundSnapshot, Bounded, InBook

\* A governor that loads finds them in the file and keeps them as retired.
LEMMA OrderlyLoadStep ==
    ASSUME PInv, LostOnRecord, load, SavedFirst
    PROVE  LostOnRecord'
<1>1. /\ restore(decode(file)) /\ running' = TRUE /\ lost' = lost \cup HandlesOf(snapshot)
  BY DEF load
<1>2. \E s : /\ SoundSnapshot(s) /\ file = encode(s)
             /\ \A h \in lost' : h[1] \in InBook(s.records) \cup InBook(s.retired)
  <2>1. CASE running
    <3> DEFINE s == snapshot
    <3>1. /\ SoundSnapshot(s) /\ file = encode(s)
          /\ \A h \in lost' : h[1] \in InBook(s.records) \cup InBook(s.retired)
      BY <1>1, <2>1, SavedHandles
    <3> HIDE DEF s
    <3> QED BY <3>1
  <2>2. CASE ~running
    <3>1. HandlesOf(snapshot) = {}
      <4> SUFFICES ASSUME NEW h \in HandlesOf(snapshot) PROVE FALSE
        OBVIOUS
      <4>1. Current = {} /\ Retired = {}
        BY <2>2 DEF PInv, NoneAtWork
      <4> QED BY <4>1, HandlesInBooks DEF PInv
    <3>2. lost' = lost
      BY <1>1, <3>1
    <3> QED BY <2>2, <3>2 DEF LostOnRecord
  <2> QED BY <2>1, <2>2
<1>3. PICK s : /\ SoundSnapshot(s) /\ file = encode(s)
               /\ \A h \in lost' : h[1] \in InBook(s.records) \cup InBook(s.retired)
  BY <1>2
<1>4. decode(file) = s
  BY <1>3, ReadBack
<1>5. retired' = Surviving(s)
  BY <1>1, <1>4 DEF restore, RestoreBooks
<1>6. InBook(Surviving(s)) = InBook(s.records) \cup InBook(s.retired)
  BY <1>3, SurvivingBook
<1>7. Retired' = InBook(retired')
  BY DEF Retired, InBook
<1> QED BY <1>1, <1>3, <1>5, <1>6, <1>7 DEF LostOnRecord

\* Calls, saves and a start without a file lose nothing.
LEMMA OrderlyOtherStep ==
    ASSUME PInv, LostOnRecord, GovernorCall \/ BeginSave \/ EndSave \/ LoadRefused
    PROVE  running' /\ LostOnRecord'
<1>1. CASE GovernorCall
  <2>1. GInv /\ Next /\ running /\ running' = running /\ lost' = lost
    BY <1>1 DEF PInv, GovernorCall
  <2>2. \A id \in Retired : id \in Retired'
    BY <2>1, RetiredKept DEF Retired
  <2> QED BY <2>1, <2>2 DEF LostOnRecord
<1>2. CASE BeginSave \/ EndSave
  <2>1. running /\ running' = running /\ lost' = lost /\ UNCHANGED governor
    BY <1>2 DEF BeginSave, EndSave, PInv, NoneAtWork
  <2>2. Retired' = Retired
    BY <2>1 DEF governor, Retired
  <2> QED BY <2>1, <2>2 DEF LostOnRecord
<1>3. CASE LoadRefused
  BY <1>3 DEF LoadRefused, LostOnRecord
<1> QED BY <1>1, <1>2, <1>3

\* An orderly service is a service.
LEMMA OrderlyIsService == OrderlySpec => PersistenceSpec
<1>1. [PersistenceNext /\ SavedFirst]_pvars => [PersistenceNext]_pvars
  OBVIOUS
<1> QED BY <1>1, PTL DEF OrderlySpec, PersistenceSpec

(***************************************************************************)
(* When every governor is saved before it ends or loads, no handle of an   *)
(* earlier one, or from before the load, is accepted: the ids that LostIds *)
(* shows reused are those given out after the last save, and no others.    *)
(***************************************************************************)
THEOREM OrderlyHandlesCorrect == OrderlySpec => []LostNeverHeld
<1>1. PersistenceInit => LostOnRecord
  BY DEF PersistenceInit, LostOnRecord
<1>2. PInv /\ LostOnRecord /\ [PersistenceNext /\ SavedFirst]_pvars => LostOnRecord'
  <2> SUFFICES ASSUME PInv, LostOnRecord, [PersistenceNext /\ SavedFirst]_pvars
               PROVE  LostOnRecord'
    OBVIOUS
  <2>1. CASE PersistenceNext /\ SavedFirst
    BY <2>1, OrderlyEndStep, OrderlyLoadStep, OrderlyOtherStep DEF PersistenceNext
  <2>2. CASE UNCHANGED pvars
    <3>1. running' = running /\ lost' = lost /\ file' = file /\ retired' = retired
          /\ records' = records
      BY <2>2 DEF pvars, persistence, governor
    <3> QED BY <3>1 DEF LostOnRecord, Retired, Current, SoundSnapshot, Bounded, InBook
  <2> QED BY <2>1, <2>2
<1>3. PInv /\ LostOnRecord => LostNeverHeld
  <2> SUFFICES ASSUME PInv, LostOnRecord, NEW h \in lost PROVE ~Holds(h[1], h[2])
    BY DEF LostNeverHeld
  <2>1. CASE running
    BY <2>1 DEF LostOnRecord, PInv, GInv, IdsFresh, Holds
  <2>2. CASE ~running
    BY <2>2 DEF PInv, NoneAtWork, Holds
  <2> QED BY <2>1, <2>2
<1> QED BY <1>1, <1>2, <1>3, PersistenceInvariant, OrderlyIsService, PTL DEF OrderlySpec

==============================================================================
