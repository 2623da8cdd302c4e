-------------------------- MODULE StudioDataProofs --------------------------
(***************************************************************************)
(* What the pure operators of the Studio and the BFF compute, for every    *)
(* input: the diff of two outputs, the registries behind the trust cases,  *)
(* and the contract between what the BFF sends and what the Studio reads.  *)
(***************************************************************************)
EXTENDS StudioText, StudioWire, TrustCatalog, EditorTelemetry,
        FiniteSetTheorems, SequenceTheorems, WellFoundedInduction, TLAPS

-----------------------------------------------------------------------------
(* Induction and recursion, stated of sets and functions: a property is    *)
(* the set of the numbers that have it, a recursive definition a function  *)
(* from functions to functions.                                            *)

LEMMA LeastNumber ==
    ASSUME NEW T, T \subseteq Nat, T # {}
    PROVE  \E x \in T : \A y \in T : x <= y
<1>. DEFINE Less == {ss \in Nat \X Nat : ss[1] < ss[2]}
<1>1. IsWellFoundedOn(Less, Nat)
  BY NatLessThanWellFounded DEF OpToRel
<1>2. \A x, y \in Nat : y < x => <<y, x>> \in Less
  OBVIOUS
<1>. HIDE DEF Less
<1>3. \E x \in T : \A y \in T : ~ (<<y, x>> \in Less)
  BY <1>1, WFMin
<1>4. PICK x \in T : \A y \in T : ~ (<<y, x>> \in Less)
  BY <1>3
<1>5. ASSUME NEW y \in T PROVE x <= y
  <2>1. x \in Nat /\ y \in Nat
    OBVIOUS
  <2>2. ~ (y < x)
    BY <1>2, <1>4, <2>1, Zenon
  <2>. QED  BY <2>1, <2>2
<1>. QED  BY <1>5

LEMMA SetInduction ==
    ASSUME NEW S, 0 \in S, \A n \in Nat : n \in S => n + 1 \in S
    PROVE  \A n \in Nat : n \in S
<1>1. SUFFICES ASSUME Nat \ S # {} PROVE FALSE
  OBVIOUS
<1>2. PICK x \in Nat \ S : \A y \in Nat \ S : x <= y
  BY <1>1, LeastNumber
<1>3. x - 1 \in Nat /\ x - 1 \notin Nat \ S
  BY <1>2
<1>. QED  BY <1>2, <1>3

\* A measure of the points of D, below N; a step on functions from D to V whose
\* value at a point depends on points of a smaller measure only; and two
\* functions that agree wherever they agree below.
Measures(m, D, N) == N \in Nat /\ m \in [D -> Nat] /\ \A x \in D : m[x] < N
StepBelow(F, m, D, V) ==
    /\ F \in [[D -> V] -> [D -> V]]
    /\ \A g, h \in [D -> V] : \A x \in D :
          (\A y \in D : m[y] < m[x] => g[y] = h[y]) => F[g][x] = F[h][x]
AgreeBelow(f, g, m, D) ==
    \A x \in D : (\A y \in D : m[y] < m[x] => f[y] = g[y]) => f[x] = g[x]

LEMMA SameBelow ==
    ASSUME NEW D, NEW m, NEW N, NEW f, NEW g, Measures(m, D, N), AgreeBelow(f, g, m, D)
    PROVE  \A x \in D : f[x] = g[x]
<1>. DEFINE T == {m[x] : x \in {y \in D : f[y] # g[y]}}
<1>1. SUFFICES ASSUME T # {} PROVE FALSE
  OBVIOUS
<1>2. T \subseteq Nat
  BY DEF Measures
<1>3. PICK n \in T : \A k \in T : n <= k
  <2>. HIDE DEF T
  <2>. QED  BY <1>1, <1>2, LeastNumber
<1>4. PICK x \in D : f[x] # g[x] /\ m[x] = n
  BY <1>3
<1>5. ASSUME NEW y \in D, m[y] < m[x], f[y] # g[y] PROVE FALSE
  <2>1. m[y] \in T /\ m[y] \in Nat /\ m[x] \in Nat
    BY <1>5 DEF Measures
  <2>2. n <= m[y]
    BY <1>3, <2>1
  <2>. QED  BY <1>4, <1>5, <2>1, <2>2
<1>. QED  BY <1>4, <1>5 DEF AgreeBelow

\* Such a step has a fixed point.
LEMMA BoundedRecursion ==
    ASSUME NEW D, NEW V, NEW m, NEW N, NEW F,
           Measures(m, D, N), StepBelow(F, m, D, V), V # {}
    PROVE  \E g \in [D -> V] : F[g] = g
<1>. DEFINE S == {n \in Nat : \E g \in [D -> V] : \A x \in D : m[x] < n => F[g][x] = g[x]}
<1>. USE DEF Measures
<1>1. 0 \in S
  <2>1. PICK v \in V : TRUE
    OBVIOUS
  <2>2. [x \in D |-> v] \in [D -> V]
    OBVIOUS
  <2>3. \A x \in D : ~ (m[x] < 0)
    OBVIOUS
  <2>. QED  BY <2>2, <2>3
<1>2. ASSUME NEW n \in Nat, n \in S PROVE n + 1 \in S
  <2>1. PICK g \in [D -> V] : \A x \in D : m[x] < n => F[g][x] = g[x]
    BY <1>2
  <2>2. F[g] \in [D -> V]
    BY DEF StepBelow
  <2>3. ASSUME NEW x \in D, m[x] < n + 1 PROVE F[F[g]][x] = F[g][x]
    <3>1. \A y \in D : m[y] < m[x] => m[y] < n
      BY <2>3
    <3>2. \A y \in D : m[y] < m[x] => F[g][y] = g[y]
      BY <2>1, <3>1
    <3>. QED  BY <2>2, <3>2 DEF StepBelow
  <2>. QED  BY <2>2, <2>3
<1>3. N \in S
  <2>. HIDE DEF S
  <2>. QED  BY <1>1, <1>2, SetInduction
<1>4. PICK g \in [D -> V] : \A x \in D : F[g][x] = g[x]
  BY <1>3
<1>. QED  BY <1>4 DEF StepBelow

-----------------------------------------------------------------------------
(* Flattened sequences                                                     *)

\* The lists over V and their concatenation, as operators the provers need not
\* look into.
Lists(V) == Seq(V)
Cat(a, b) == a \o b

LEMMA ListsJoin ==
    ASSUME NEW V PROVE \A a, b \in Lists(V) : Cat(a, b) \in Lists(V)
BY ConcatProperties DEF Lists, Cat

LEMMA ListsAssociate ==
    ASSUME NEW V PROVE \A a, b, c \in Lists(V) : Cat(Cat(a, b), c) = Cat(a, Cat(b, c))
BY ConcatAssociative DEF Lists, Cat

LEMMA ListsNothing ==
    ASSUME NEW V
    PROVE  <<>> \in Lists(V) /\ \A a \in Lists(V) : Cat(a, <<>>) = a /\ Cat(<<>>, a) = a
BY EmptySeq, ConcatEmptySeq DEF Lists, Cat

\* f is the recursive function that flattens the first n of seqs.
Flattens(f, seqs, n, V) ==
    /\ n \in Nat /\ seqs \in [1 .. n -> Lists(V)] /\ f \in [1 .. n -> Lists(V)]
    /\ \A i \in 1 .. n : f[i] = IF i = 1 THEN seqs[i] ELSE Cat(f[i - 1], seqs[i])

LEMMA FlattenEquation ==
    ASSUME NEW V, NEW seqs \in Seq(Seq(V)), Len(seqs) # 0
    PROVE  \E f : Flattens(f, seqs, Len(seqs), V) /\ FlattenSeq(seqs) = f[Len(seqs)]
<1>. DEFINE D == 1 .. Len(seqs)
            W == Seq(V)
            Body(g) == [i \in D |-> IF i = 1 THEN seqs[i] ELSE g[i - 1] \o seqs[i]]
            F == [g \in [D -> W] |-> Body(g)]
            m == [i \in D |-> i]
            f == CHOOSE g : g = Body(g)
<1>1. D \subseteq Nat /\ Len(seqs) \in Nat /\ \A i \in D : seqs[i] \in W
  OBVIOUS
<1>2. ASSUME NEW g \in [D -> W] PROVE Body(g) \in [D -> W]
  <2>1. \A i \in D : i # 1 => i - 1 \in D
    BY <1>1
  <2>. QED  BY <1>1, <2>1
<1>3. F \in [[D -> W] -> [D -> W]]
  BY <1>2
<1>4. StepBelow(F, m, D, W)
  <2>. SUFFICES ASSUME NEW g \in [D -> W], NEW h \in [D -> W], NEW i \in D,
                       \A j \in D : m[j] < m[i] => g[j] = h[j]
                PROVE  F[g][i] = F[h][i]
    BY <1>3 DEF StepBelow
  <2>1. i # 1 => i - 1 \in D /\ m[i - 1] < m[i]
    BY <1>1
  <2>2. i # 1 => g[i - 1] = h[i - 1]
    BY <2>1
  <2>. QED  BY <2>2
<1>5. Measures(m, D, Len(seqs) + 1)
  BY <1>1 DEF Measures
<1>6. W # {}
  BY EmptySeq
<1>7. \E g \in [D -> W] : F[g] = g
  <2>. HIDE DEF D, W, F, m
  <2>. QED  BY <1>4, <1>5, <1>6, BoundedRecursion
<1>8. \E g : g \in [D -> W] /\ g = Body(g)
  BY <1>7
<1>9. f = Body(f)
  BY <1>8
<1>10. f \in [D -> W]
  <2>1. PICK g \in [D -> W] : g = Body(g)
    BY <1>8
  <2>2. AgreeBelow(f, g, m, D)
    <3>. HIDE DEF f
    <3>. SUFFICES ASSUME NEW i \in D, \A j \in D : m[j] < m[i] => f[j] = g[j]
                  PROVE  f[i] = g[i]
      BY DEF AgreeBelow
    <3>1. i # 1 => i - 1 \in D /\ m[i - 1] < m[i]
      BY <1>1
    <3>2. f[i] = Body(f)[i] /\ g[i] = Body(g)[i]
      BY <1>9, <2>1
    <3>. QED  BY <3>1, <3>2
  <2>3. \A i \in D : f[i] = g[i]
    <3>. HIDE DEF f, m, D
    <3>. QED  BY <1>5, <2>2, SameBelow
  <2>. HIDE DEF f
  <2>. QED  BY <1>9, <2>1, <2>3
<1>11. FlattenSeq(seqs) = f[Len(seqs)]
  BY DEF FlattenSeq
<1>12. seqs \in [1 .. Len(seqs) -> Seq(V)]
  BY LenProperties
<1>. HIDE DEF f
<1>. QED  BY <1>1, <1>9, <1>10, <1>11, <1>12 DEF Flattens, Lists, Cat

LEMMA FlattenTyped ==
    ASSUME NEW V, NEW seqs \in Seq(Seq(V)) PROVE FlattenSeq(seqs) \in Seq(V)
<1>1. CASE Len(seqs) = 0
  <2>1. FlattenSeq(seqs) = seqs /\ seqs = <<>>
    BY <1>1, EmptySeq DEF FlattenSeq
  <2>. QED  BY <2>1, EmptySeq
<1>2. CASE Len(seqs) # 0
  <2>1. PICK f : Flattens(f, seqs, Len(seqs), V) /\ FlattenSeq(seqs) = f[Len(seqs)]
    BY <1>2, FlattenEquation
  <2>2. Len(seqs) \in 1 .. Len(seqs)
    BY <1>2
  <2>. QED  BY <2>1, <2>2 DEF Flattens, Lists
<1>. QED  BY <1>1, <1>2

LEMMA FlattenOne ==
    ASSUME NEW V, NEW s \in Seq(V) PROVE FlattenSeq(<<s>>) = s
<1>1. PICK one : one = <<s>>
  OBVIOUS
<1>2. one \in Seq(Seq(V)) /\ Len(one) = 1 /\ one[1] = s
  BY <1>1
<1>3. Len(one) # 0 /\ 1 \in 1 .. Len(one)
  BY <1>2
<1>4. PICK f : Flattens(f, one, Len(one), V) /\ FlattenSeq(one) = f[Len(one)]
  BY <1>2, <1>3, FlattenEquation
<1>5. f[1] = one[1]
  BY <1>3, <1>4 DEF Flattens
<1>. QED  BY <1>1, <1>2, <1>4, <1>5

LEMMA FlattenNothing == FlattenSeq(<<>>) = <<>>
BY EmptySeq DEF FlattenSeq

\* One part more.
LEMMA FlattenNext ==
    ASSUME NEW f, NEW s, NEW n, NEW V, Flattens(f, s, n, V)
    PROVE  /\ 1 \in 1 .. n => f[1] = s[1]
           /\ \A i \in 1 .. n : f[i] \in Lists(V) /\ s[i] \in Lists(V)
           /\ \A i \in 2 .. n : f[i] = Cat(f[i - 1], s[i])
<1>1. \A i \in 2 .. n : i # 1 /\ i \in 1 .. n
  BY DEF Flattens
<1>. QED  BY <1>1 DEF Flattens

\* The parts u are the m parts s and then the n parts t.
Joins(u, s, t, m, n, k) ==
    /\ m \in Nat \ {0} /\ n \in Nat \ {0} /\ k = m + n
    /\ \A i \in 1 .. m : u[i] = s[i]
    /\ \A i \in 1 .. n : u[m + i] = t[i]

LEMMA FlattenJoin ==
    ASSUME NEW V, NEW m, NEW n, NEW s, NEW t, NEW u, NEW f, NEW g, NEW h, NEW k,
           Joins(u, s, t, m, n, k),
           Flattens(f, s, m, V), Flattens(g, t, n, V), Flattens(h, u, k, V)
    PROVE  h[k] = Cat(f[m], g[n])
<1>. DEFINE S == {i \in Nat : i \in 1 .. m => h[i] = f[i]}
            T == {i \in Nat : i \in 1 .. n => h[m + i] = Cat(f[m], g[i])}
<1>. HIDE DEF S, T
<1>0. m \in Nat \ {0} /\ n \in Nat \ {0} /\ k = m + n
  BY DEF Joins
<1>a. /\ 1 \in 1 .. m => f[1] = s[1]
      /\ \A i \in 1 .. m : f[i] \in Lists(V) /\ s[i] \in Lists(V)
      /\ \A i \in 2 .. m : f[i] = Cat(f[i - 1], s[i])
  BY FlattenNext
<1>b. /\ 1 \in 1 .. n => g[1] = t[1]
      /\ \A i \in 1 .. n : g[i] \in Lists(V) /\ t[i] \in Lists(V)
      /\ \A i \in 2 .. n : g[i] = Cat(g[i - 1], t[i])
  BY FlattenNext
<1>c. /\ 1 \in 1 .. k => h[1] = u[1]
      /\ \A i \in 1 .. k : h[i] \in Lists(V) /\ u[i] \in Lists(V)
      /\ \A i \in 2 .. k : h[i] = Cat(h[i - 1], u[i])
  BY FlattenNext
<1>1. \A j \in Nat : j \in S
  <2>1. 0 \in S
    BY DEF S
  <2>2. ASSUME NEW j \in Nat, j \in S PROVE j + 1 \in S
    <3>1. SUFFICES ASSUME NEW i, i = j + 1, i \in 1 .. m PROVE h[i] = f[i]
      BY DEF S
    <3>2. i \in 1 .. k /\ u[i] = s[i]
      BY <1>0, <3>1 DEF Joins
    <3>3. CASE j = 0
      <4>1. i = 1
        BY <3>1, <3>3
      <4>. QED  BY <1>a, <1>c, <3>1, <3>2, <4>1
    <3>4. CASE j # 0
      <4>1. i \in 2 .. m /\ i \in 2 .. k /\ i - 1 = j /\ j \in 1 .. m
        BY <1>0, <3>1, <3>4
      <4>2. h[j] = f[j]
        BY <2>2, <4>1 DEF S
      <4>3. h[i] = Cat(h[i - 1], u[i]) /\ f[i] = Cat(f[i - 1], s[i])
        BY <1>a, <1>c, <4>1
      <4>. QED  BY <3>2, <4>1, <4>2, <4>3
    <3>. QED  BY <3>3, <3>4
  <2>. QED  BY <2>1, <2>2, SetInduction
<1>2. h[m] = f[m] /\ f[m] \in Lists(V)
  BY <1>0, <1>1, <1>a DEF S
<1>3. \A j \in Nat : j \in T
  <2>1. 0 \in T
    BY <1>0 DEF T
  <2>2. ASSUME NEW j \in Nat, j \in T PROVE j + 1 \in T
    <3>1. SUFFICES ASSUME j + 1 \in 1 .. n PROVE h[m + (j + 1)] = Cat(f[m], g[j + 1])
      BY DEF T
    <3>i. PICK i : i = j + 1
      OBVIOUS
    <3>2. PICK p : p = m + i
      OBVIOUS
    <3>3. p \in 2 .. k /\ p - 1 = m + j
      BY <1>0, <3>1, <3>i, <3>2
    <3>4. u[p] = t[i]
      BY <3>1, <3>i, <3>2 DEF Joins
    <3>5. h[p] = Cat(h[p - 1], t[i])
      BY <1>c, <3>3, <3>4
    <3>6. CASE j = 0
      <4>1. i = 1 /\ p - 1 = m
        BY <1>0, <3>1, <3>i, <3>3, <3>6
      <4>2. g[1] = t[1]
        BY <1>b, <3>1, <3>i, <4>1
      <4>. QED  BY <3>i, <3>2, <3>5, <4>1, <4>2, <1>2
    <3>7. CASE j # 0
      <4>1. i \in 2 .. n /\ i - 1 = j /\ j \in 1 .. n
        BY <1>0, <3>1, <3>i, <3>7
      <4>2. h[m + j] = Cat(f[m], g[j])
        BY <2>2, <4>1 DEF T
      <4>3. g[i] = Cat(g[j], t[i])
        BY <1>b, <4>1
      <4>4. g[j] \in Lists(V) /\ t[i] \in Lists(V)
        BY <1>b, <3>1, <3>i, <4>1
      <4>5. Cat(Cat(f[m], g[j]), t[i]) = Cat(f[m], Cat(g[j], t[i]))
        BY <1>2, <4>4, ListsAssociate
      <4>. QED  BY <3>i, <3>2, <3>3, <3>5, <4>2, <4>3, <4>5
    <3>. QED  BY <3>6, <3>7
  <2>. QED  BY <2>1, <2>2, SetInduction
<1>4. n \in T /\ n \in 1 .. n
  BY <1>0, <1>3
<1>. QED  BY <1>0, <1>4 DEF T

\* Flattening goes through concatenation.
LEMMA FlattenConcat ==
    ASSUME NEW V, NEW s \in Seq(Seq(V)), NEW t \in Seq(Seq(V))
    PROVE  FlattenSeq(s \o t) = FlattenSeq(s) \o FlattenSeq(t)
<1>1. FlattenSeq(s) \in Seq(V) /\ FlattenSeq(t) \in Seq(V)
  BY FlattenTyped
<1>2. CASE Len(s) = 0
  <2>1. s = <<>>
    BY <1>2, EmptySeq
  <2>2. s \o t = t /\ <<>> \o FlattenSeq(t) = FlattenSeq(t)
    BY <1>1, <2>1, ConcatEmptySeq
  <2>. QED  BY <2>1, <2>2, FlattenNothing
<1>3. CASE Len(t) = 0
  <2>1. t = <<>>
    BY <1>3, EmptySeq
  <2>2. s \o t = s /\ FlattenSeq(s) \o <<>> = FlattenSeq(s)
    BY <1>1, <2>1, ConcatEmptySeq
  <2>. QED  BY <2>1, <2>2, FlattenNothing
<1>4. CASE Len(s) # 0 /\ Len(t) # 0
  <2>1. PICK u : u = s \o t
    OBVIOUS
  <2>2. PICK m \in Nat : m = Len(s)
    OBVIOUS
  <2>3. PICK n \in Nat : n = Len(t)
    OBVIOUS
  <2>4. PICK k : k = m + n
    OBVIOUS
  <2>5. /\ u \in Seq(Seq(V)) /\ Len(u) = k
        /\ \A i \in 1 .. m + n : u[i] = IF i <= m THEN s[i] ELSE t[i - m]
    BY <2>1, <2>2, <2>3, <2>4, ConcatProperties
  <2>6. m # 0 /\ n # 0 /\ Len(u) # 0
    BY <1>4, <2>2, <2>3, <2>4, <2>5
  <2>7. Joins(u, s, t, m, n, k)
    <3>1. ASSUME NEW i \in 1 .. m PROVE u[i] = s[i]
      <4>1. i \in 1 .. m + n /\ i <= m
        OBVIOUS
      <4>. QED  BY <2>5, <4>1
    <3>2. ASSUME NEW i \in 1 .. n PROVE u[m + i] = t[i]
      <4>1. m + i \in 1 .. m + n /\ ~ (m + i <= m) /\ (m + i) - m = i
        OBVIOUS
      <4>. QED  BY <2>5, <4>1
    <3>. QED  BY <2>4, <2>6, <3>1, <3>2 DEF Joins
  <2>8. PICK f : Flattens(f, s, m, V) /\ FlattenSeq(s) = f[m]
    BY <1>4, <2>2, FlattenEquation
  <2>9. PICK g : Flattens(g, t, n, V) /\ FlattenSeq(t) = g[n]
    BY <1>4, <2>3, FlattenEquation
  <2>10. PICK h : Flattens(h, u, k, V) /\ FlattenSeq(u) = h[k]
    BY <2>5, <2>6, FlattenEquation
  <2>11. h[k] = Cat(f[m], g[n])
    BY <2>7, <2>8, <2>9, <2>10, FlattenJoin
  <2>. QED  BY <2>1, <2>8, <2>9, <2>10, <2>11 DEF Cat
<1>. QED  BY <1>2, <1>3, <1>4

-----------------------------------------------------------------------------
(* Pieces of a text                                                        *)

One(x) == <<x>>
Piece(s, m, n) == SubSeq(s, m, n)

LEMMA OneTyped == ASSUME NEW V, NEW x \in V PROVE One(x) \in Lists(V) /\ Len(One(x)) = 1 /\ One(x)[1] = x
BY DEF One, Lists

LEMMA ListLines ==
    ASSUME NEW V, NEW s \in Lists(V)
    PROVE  /\ Len(s) \in Nat /\ DOMAIN s = 1 .. Len(s)
           /\ \A i \in 1 .. Len(s) : s[i] \in V
BY LenProperties, ElementOfSeq DEF Lists

LEMMA ListsEqual ==
    ASSUME NEW V, NEW s \in Lists(V), NEW t \in Lists(V),
           Len(s) = Len(t), \A i \in 1 .. Len(s) : s[i] = t[i]
    PROVE  s = t
BY SeqEqual DEF Lists

\* u is s and then t.
InOrder(u, s, t) ==
    /\ Len(u) = Len(s) + Len(t)
    /\ \A i \in 1 .. Len(s) + Len(t) : u[i] = IF i <= Len(s) THEN s[i] ELSE t[i - Len(s)]

LEMMA CatProperties ==
    ASSUME NEW V, NEW s \in Lists(V), NEW t \in Lists(V)
    PROVE  Cat(s, t) \in Lists(V) /\ InOrder(Cat(s, t), s, t)
BY ConcatProperties DEF Lists, Cat, InOrder

LEMMA PieceTyped ==
    ASSUME NEW V, NEW s \in Lists(V), NEW m \in 1 .. Len(s) + 1, NEW n \in m - 1 .. Len(s)
    PROVE  /\ Piece(s, m, n) \in Lists(V) /\ Len(Piece(s, m, n)) = n - m + 1
           /\ \A i \in 1 .. n - m + 1 : Piece(s, m, n)[i] = s[m + i - 1]
<1>1. Len(s) \in Nat /\ \A i \in 1 .. Len(s) : s[i] \in V
  BY ListLines
<1>2. m \in Int /\ n \in Int /\ \A i \in m .. n : s[i] \in V
  BY <1>1
<1>3. /\ SubSeq(s, m, n) \in Seq(V)
      /\ Len(SubSeq(s, m, n)) = IF m <= n THEN n - m + 1 ELSE 0
      /\ \A i \in 1 .. n - m + 1 : SubSeq(s, m, n)[i] = s[m + i - 1]
  BY <1>2, SubSeqProperties
<1>4. m <= n \/ n - m + 1 = 0
  BY <1>1
<1>. QED  BY <1>3, <1>4 DEF Piece, Lists

LEMMA PieceSplit ==
    ASSUME NEW V, NEW s \in Lists(V), NEW m \in 1 .. Len(s) + 1,
           NEW k \in m - 1 .. Len(s), NEW n \in k .. Len(s)
    PROVE  Piece(s, m, n) = Cat(Piece(s, m, k), Piece(s, k + 1, n))
BY ConcatAdjacentSubSeq DEF Piece, Lists, Cat

LEMMA PieceEnds ==
    ASSUME NEW V, NEW s \in Lists(V)
    PROVE  /\ Piece(s, 1, Len(s)) = s /\ Piece(s, 1, 0) = <<>>
           /\ Piece(s, Len(s) + 1, Len(s)) = <<>>
<1>1. Len(s) \in Nat
  BY ListLines
<1>. QED  BY <1>1, SubSeqFull, SubSeqEmpty DEF Piece, Lists

LEMMA PieceFirst ==
    ASSUME NEW V, NEW s \in Lists(V), NEW m \in 1 .. Len(s)
    PROVE  Piece(s, m, Len(s)) = Cat(One(s[m]), Piece(s, m + 1, Len(s)))
<1>1. Len(s) \in m .. Len(s)
  BY ListLines
<1>. QED  BY <1>1, SubSeqRecursiveFirst DEF Piece, Lists, Cat, One

LEMMA PieceLast ==
    ASSUME NEW V, NEW s \in Lists(V), NEW n \in 1 .. Len(s)
    PROVE  Piece(s, 1, n) = Cat(Piece(s, 1, n - 1), One(s[n]))
<1>1. 1 \in 1 .. Len(s) /\ n \in 1 .. Len(s)
  BY ListLines
<1>. QED  BY <1>1, SubSeqRecursiveSecond DEF Piece, Lists, Cat, One

-----------------------------------------------------------------------------
(* The text that is left of the rows of a diff                             *)

Row(V) == [kind : {"equal", "removed", "added"}, line : V, expected : Int, actual : Int]
Rows(V) == Lists(Row(V))
\* What a row leaves, and the parts of the text that is left.
Left(kind, row) == IF row.kind = kind THEN <<>> ELSE One(row.line)
Parts(kind, rows) == [i \in DOMAIN rows |-> Left(kind, rows[i])]

LEMMA PartsOfText == \A kind, rows : TextWithout(kind, rows) = FlattenSeq(Parts(kind, rows))
BY DEF TextWithout, Parts, Left, One

LEMMA LeftTyped ==
    ASSUME NEW V, NEW kind, NEW row \in Row(V) PROVE Left(kind, row) \in Lists(V)
<1>1. row.line \in V
  BY DEF Row
<1>. QED  BY <1>1, OneTyped, ListsNothing DEF Left

LEMMA PartsTyped ==
    ASSUME NEW V, NEW kind, NEW rows \in Rows(V)
    PROVE  /\ Parts(kind, rows) \in Lists(Lists(V))
           /\ Len(Parts(kind, rows)) = Len(rows)
           /\ \A i \in 1 .. Len(rows) : Parts(kind, rows)[i] = Left(kind, rows[i])
<1>1. /\ Len(rows) \in Nat /\ DOMAIN rows = 1 .. Len(rows)
      /\ \A i \in 1 .. Len(rows) : rows[i] \in Row(V)
  BY ListLines DEF Rows
<1>2. \A i \in 1 .. Len(rows) : Left(kind, rows[i]) \in Lists(V)
  BY <1>1, LeftTyped
<1>. QED  BY <1>1, <1>2 DEF Parts, Lists

LEMMA TextTyped ==
    ASSUME NEW V, NEW kind, NEW rows \in Rows(V) PROVE TextWithout(kind, rows) \in Lists(V)
<1>1. Parts(kind, rows) \in Seq(Seq(V))
  BY PartsTyped DEF Lists
<1>. QED  BY <1>1, PartsOfText, FlattenTyped DEF Lists

LEMMA TextNothing == \A kind : TextWithout(kind, <<>>) = <<>>
<1>1. \A kind : Parts(kind, <<>>) = <<>>
  BY DEF Parts
<1>. QED  BY <1>1, PartsOfText, FlattenNothing

LEMMA TextOne ==
    ASSUME NEW V, NEW kind, NEW row \in Row(V)
    PROVE  TextWithout(kind, One(row)) = Left(kind, row)
<1>1. One(row) \in Rows(V) /\ Len(One(row)) = 1 /\ One(row)[1] = row
  BY OneTyped DEF Rows
<1>2. /\ Parts(kind, One(row)) \in Lists(Lists(V)) /\ Len(Parts(kind, One(row))) = 1
      /\ Parts(kind, One(row))[1] = Left(kind, row)
  <2>1. /\ Parts(kind, One(row)) \in Lists(Lists(V))
        /\ Len(Parts(kind, One(row))) = Len(One(row))
        /\ \A i \in 1 .. Len(One(row)) : Parts(kind, One(row))[i] = Left(kind, One(row)[i])
    BY <1>1, PartsTyped, Zenon
  <2>. QED  BY <1>1, <2>1
<1>3. One(Left(kind, row)) \in Lists(Lists(V))
      /\ Len(One(Left(kind, row))) = 1 /\ One(Left(kind, row))[1] = Left(kind, row)
  BY LeftTyped, OneTyped
<1>4. Parts(kind, One(row)) = One(Left(kind, row))
  <2>1. \A i \in 1 .. Len(Parts(kind, One(row))) :
           Parts(kind, One(row))[i] = One(Left(kind, row))[i]
    BY <1>2, <1>3
  <2>. QED  BY <1>2, <1>3, <2>1, ListsEqual
<1>5. Left(kind, row) \in Seq(V)
  BY LeftTyped DEF Lists
<1>6. FlattenSeq(<<Left(kind, row)>>) = Left(kind, row)
  BY <1>5, FlattenOne
<1>. QED  BY <1>4, <1>6, PartsOfText DEF One

LEMMA TextCat ==
    ASSUME NEW V, NEW kind, NEW r \in Rows(V), NEW s \in Rows(V)
    PROVE  TextWithout(kind, Cat(r, s)) = Cat(TextWithout(kind, r), TextWithout(kind, s))
<1>. DEFINE P == Parts(kind, r)
            Q == Parts(kind, s)
            B == Parts(kind, Cat(r, s))
<1>1. /\ P \in Lists(Lists(V)) /\ Len(P) = Len(r)
      /\ \A i \in 1 .. Len(r) : P[i] = Left(kind, r[i])
  BY PartsTyped
<1>2. /\ Q \in Lists(Lists(V)) /\ Len(Q) = Len(s)
      /\ \A i \in 1 .. Len(s) : Q[i] = Left(kind, s[i])
  BY PartsTyped
<1>3. /\ Cat(r, s) \in Rows(V) /\ Len(Cat(r, s)) = Len(r) + Len(s)
      /\ \A i \in 1 .. Len(r) + Len(s) :
            Cat(r, s)[i] = IF i <= Len(r) THEN r[i] ELSE s[i - Len(r)]
  BY CatProperties DEF Rows, InOrder
<1>4. /\ B \in Lists(Lists(V)) /\ Len(B) = Len(r) + Len(s)
      /\ \A i \in 1 .. Len(r) + Len(s) : B[i] = Left(kind, Cat(r, s)[i])
  <2>1. /\ B \in Lists(Lists(V)) /\ Len(B) = Len(Cat(r, s))
        /\ \A i \in 1 .. Len(Cat(r, s)) : B[i] = Left(kind, Cat(r, s)[i])
    BY <1>3, PartsTyped, Zenon
  <2>. QED  BY <1>3, <2>1
<1>. HIDE DEF P, Q, B
<1>5. /\ Cat(P, Q) \in Lists(Lists(V)) /\ Len(Cat(P, Q)) = Len(r) + Len(s)
      /\ \A i \in 1 .. Len(r) + Len(s) :
            Cat(P, Q)[i] = IF i <= Len(r) THEN P[i] ELSE Q[i - Len(r)]
  <2>1. Cat(P, Q) \in Lists(Lists(V)) /\ InOrder(Cat(P, Q), P, Q)
    BY <1>1, <1>2, CatProperties
  <2>. QED  BY <1>1, <1>2, <2>1 DEF InOrder
<1>6. Len(r) \in Nat /\ Len(s) \in Nat
  BY ListLines DEF Rows
<1>7. ASSUME NEW i \in 1 .. Len(r) + Len(s) PROVE B[i] = Cat(P, Q)[i]
  <2>1. CASE i <= Len(r)
    <3>1. i \in 1 .. Len(r)
      BY <1>6, <2>1
    <3>. QED  BY <1>1, <1>3, <1>4, <1>5, <2>1, <3>1
  <2>2. CASE ~ (i <= Len(r))
    <3>1. i - Len(r) \in 1 .. Len(s)
      BY <1>6, <2>2
    <3>. QED  BY <1>2, <1>3, <1>4, <1>5, <2>2, <3>1
  <2>. QED  BY <2>1, <2>2
<1>8. B = Cat(P, Q)
  BY <1>4, <1>5, <1>7, ListsEqual
<1>9. P \in Seq(Seq(V)) /\ Q \in Seq(Seq(V))
  BY <1>1, <1>2 DEF Lists
<1>10. FlattenSeq(P \o Q) = FlattenSeq(P) \o FlattenSeq(Q)
  BY <1>9, FlattenConcat
<1>11. FlattenSeq(Cat(P, Q)) = Cat(FlattenSeq(P), FlattenSeq(Q))
  BY <1>10 DEF Cat
<1>. QED  BY <1>8, <1>11, PartsOfText DEF P, Q, B

\* Rows that all stay leave their lines.
Plain(kind, rows, x) ==
    /\ Len(rows) = Len(x)
    /\ \A i \in 1 .. Len(x) : rows[i].kind # kind /\ rows[i].line = x[i]

LEMMA TextPlain ==
    ASSUME NEW V, NEW kind, NEW rows \in Rows(V), NEW x \in Lists(V), Plain(kind, rows, x)
    PROVE  TextWithout(kind, rows) = x
<1>. DEFINE Good(n) == TextWithout(kind, Piece(rows, 1, n)) = Piece(x, 1, n)
            S == {n \in Nat : n <= Len(x) => Good(n)}
<1>1. /\ Len(x) \in Nat /\ Len(rows) = Len(x) /\ rows \in Lists(Row(V))
      /\ \A i \in 1 .. Len(x) : rows[i] \in Row(V)
  BY ListLines DEF Plain, Rows
<1>2. \A n \in Nat : n \in S
  <2>1. 0 \in S
    <3>1. Piece(rows, 1, 0) = <<>> /\ Piece(x, 1, 0) = <<>>
      BY <1>1, PieceEnds
    <3>. QED  BY <3>1, TextNothing
  <2>2. ASSUME NEW n \in Nat, n \in S PROVE n + 1 \in S
    <3>1. SUFFICES ASSUME n + 1 <= Len(x) PROVE Good(n + 1)
      OBVIOUS
    <3>2. PICK i : i = n + 1
      OBVIOUS
    <3>3. i \in 1 .. Len(x) /\ i \in 1 .. Len(rows) /\ i - 1 = n
      BY <1>1, <3>1, <3>2
    <3>4. TextWithout(kind, Piece(rows, 1, n)) = Piece(x, 1, n)
      BY <2>2, <1>1, <3>1
    <3>5. Piece(rows, 1, i) = Cat(Piece(rows, 1, i - 1), One(rows[i]))
      BY <1>1, <3>3, PieceLast
    <3>6. Piece(x, 1, i) = Cat(Piece(x, 1, i - 1), One(x[i]))
      BY <3>3, PieceLast
    <3>7. TextWithout(kind, One(rows[i])) = One(x[i])
      <4>1. rows[i] \in Row(V) /\ Left(kind, rows[i]) = One(x[i])
        BY <1>1, <3>3 DEF Plain, Left
      <4>. QED  BY <4>1, TextOne
    <3>8. Piece(rows, 1, n) \in Rows(V)
      <4>1. 1 \in 1 .. Len(rows) + 1 /\ n \in 1 - 1 .. Len(rows)
        BY <1>1, <3>1
      <4>. QED  BY <1>1, <4>1, PieceTyped DEF Rows
    <3>9. One(rows[i]) \in Rows(V)
      BY <1>1, <3>3, OneTyped DEF Rows
    <3>10. TextWithout(kind, Cat(Piece(rows, 1, n), One(rows[i])))
             = Cat(TextWithout(kind, Piece(rows, 1, n)), TextWithout(kind, One(rows[i])))
      BY <3>8, <3>9, TextCat
    <3>. QED  BY <3>2, <3>3, <3>4, <3>5, <3>6, <3>7, <3>10
  <2>. HIDE DEF S
  <2>. QED  BY <2>1, <2>2, SetInduction
<1>3. Good(Len(x))
  BY <1>1, <1>2
<1>4. Piece(rows, 1, Len(x)) = rows /\ Piece(x, 1, Len(x)) = x
  BY <1>1, PieceEnds
<1>. QED  BY <1>3, <1>4

-----------------------------------------------------------------------------
(* The walk through the table                                              *)

\* What is left of the rows without either kind is the rest of each text.
Splits(rows, e, a) == TextWithout("added", rows) = e /\ TextWithout("removed", rows) = a

LEMMA SplitSame ==
    ASSUME NEW V, NEW rows \in Rows(V), NEW x \in V, NEW m \in Int, NEW n \in Int,
           NEW e, NEW a, Splits(rows, e, a)
    PROVE  /\ Cat(One(Same(x, m, n)), rows) \in Rows(V)
           /\ Splits(Cat(One(Same(x, m, n)), rows), Cat(One(x), e), Cat(One(x), a))
<1>1. PICK row : row = Same(x, m, n)
  OBVIOUS
<1>2. row \in Row(V) /\ row.kind = "equal" /\ row.line = x
  BY <1>1 DEF Row, Same
<1>3. One(row) \in Rows(V)
  BY <1>2, OneTyped DEF Rows
<1>4. Left("added", row) = One(x) /\ Left("removed", row) = One(x)
  BY <1>2 DEF Left
<1>5. /\ TextWithout("added", Cat(One(row), rows)) = Cat(One(x), TextWithout("added", rows))
      /\ TextWithout("removed", Cat(One(row), rows)) = Cat(One(x), TextWithout("removed", rows))
  BY <1>2, <1>3, <1>4, TextCat, TextOne
<1>6. Cat(One(row), rows) \in Rows(V)
  BY <1>3, ListsJoin DEF Rows
<1>. QED  BY <1>1, <1>5, <1>6 DEF Splits

LEMMA SplitRemoved ==
    ASSUME NEW V, NEW rows \in Rows(V), NEW x \in V, NEW m \in Int,
           NEW e, NEW a, Splits(rows, e, a)
    PROVE  /\ Cat(One(Removed(x, m)), rows) \in Rows(V)
           /\ Splits(Cat(One(Removed(x, m)), rows), Cat(One(x), e), a)
<1>1. PICK row : row = Removed(x, m)
  OBVIOUS
<1>2. row \in Row(V) /\ row.kind = "removed" /\ row.line = x
  BY <1>1 DEF Row, Removed
<1>3. One(row) \in Rows(V)
  BY <1>2, OneTyped DEF Rows
<1>4. Left("added", row) = One(x) /\ Left("removed", row) = <<>>
  BY <1>2 DEF Left
<1>5. /\ TextWithout("added", Cat(One(row), rows)) = Cat(One(x), TextWithout("added", rows))
      /\ TextWithout("removed", Cat(One(row), rows)) = Cat(<<>>, TextWithout("removed", rows))
  BY <1>2, <1>3, <1>4, TextCat, TextOne
<1>6. Cat(One(row), rows) \in Rows(V)
  BY <1>3, ListsJoin DEF Rows
<1>7. Cat(<<>>, TextWithout("removed", rows)) = TextWithout("removed", rows)
  BY TextTyped, ListsNothing
<1>. QED  BY <1>1, <1>5, <1>6, <1>7 DEF Splits

LEMMA SplitAdded ==
    ASSUME NEW V, NEW rows \in Rows(V), NEW x \in V, NEW n \in Int,
           NEW e, NEW a, Splits(rows, e, a)
    PROVE  /\ Cat(One(Added(x, n)), rows) \in Rows(V)
           /\ Splits(Cat(One(Added(x, n)), rows), e, Cat(One(x), a))
<1>1. PICK row : row = Added(x, n)
  OBVIOUS
<1>2. row \in Row(V) /\ row.kind = "added" /\ row.line = x
  BY <1>1 DEF Row, Added
<1>3. One(row) \in Rows(V)
  BY <1>2, OneTyped DEF Rows
<1>4. Left("added", row) = <<>> /\ Left("removed", row) = One(x)
  BY <1>2 DEF Left
<1>5. /\ TextWithout("added", Cat(One(row), rows)) = Cat(<<>>, TextWithout("added", rows))
      /\ TextWithout("removed", Cat(One(row), rows)) = Cat(One(x), TextWithout("removed", rows))
  BY <1>2, <1>3, <1>4, TextCat, TextOne
<1>6. Cat(One(row), rows) \in Rows(V)
  BY <1>3, ListsJoin DEF Rows
<1>7. Cat(<<>>, TextWithout("added", rows)) = TextWithout("added", rows)
  BY TextTyped, ListsNothing
<1>. QED  BY <1>1, <1>5, <1>6, <1>7 DEF Splits

\* The cells of the table, and how far a cell is from the end of the walk.
Cells(e, a) == (1 .. Len(e) + 1) \X (1 .. Len(a) + 1)
Ahead(e, a) == [c \in Cells(e, a) |-> (Len(e) + 1 - c[1]) + (Len(a) + 1 - c[2])]
WalkBody(w, e, a, start, common) ==
    [c \in Cells(e, a) |-> TableStep(e, a, start, common, w, c[1], c[2])]

LEMMA WalkOfTable ==
    ASSUME NEW e, NEW a, NEW start, NEW common
    PROVE  TableDiff(e, a, start, common)
             = (CHOOSE w : w = WalkBody(w, e, a, start, common))[<<1, 1>>]
BY DEF TableDiff, WalkBody, Cells

\* The four steps of the walk.
Behindmost(e, a, common, i, j) ==
    i <= Len(e) /\ (j > Len(a) \/ (e[i] # a[j] /\ common[<<i + 1, j>>] >= common[<<i, j + 1>>]))
Meets(e, a, i, j) == i <= Len(e) /\ j <= Len(a) /\ e[i] = a[j]
AtEnd(e, a, i, j) == i > Len(e) /\ j > Len(a)

StepCase(e, a, start, common, w, i, j) ==
    IF AtEnd(e, a, i, j) THEN <<>>
    ELSE IF Meets(e, a, i, j)
    THEN Cat(One(Same(e[i], start + i, start + j)), w[<<i + 1, j + 1>>])
    ELSE IF Behindmost(e, a, common, i, j)
    THEN Cat(One(Removed(e[i], start + i)), w[<<i + 1, j>>])
    ELSE Cat(One(Added(a[j], start + j)), w[<<i, j + 1>>])

LEMMA StepCases ==
    ASSUME NEW e, NEW a, NEW start, NEW common, NEW w, NEW i, NEW j,
           Len(e) \in Nat, Len(a) \in Nat, i \in Nat, j \in Nat
    PROVE  TableStep(e, a, start, common, w, i, j) = StepCase(e, a, start, common, w, i, j)
<1>1. AtEnd(e, a, i, j) => ~ Meets(e, a, i, j) /\ ~ Behindmost(e, a, common, i, j)
  BY DEF AtEnd, Meets, Behindmost
<1>2. Meets(e, a, i, j) => ~ Behindmost(e, a, common, i, j)
  BY DEF Meets, Behindmost
<1>. QED  BY <1>1, <1>2, Zenon DEF TableStep, StepCase, AtEnd, Meets, Behindmost, Cat, One

\* w is the walk from every cell on.
Walks(w, e, a, start, common, V) ==
    /\ Len(e) \in Nat /\ Len(a) \in Nat
    /\ w \in [Cells(e, a) -> Rows(V)]
    /\ \A c \in Cells(e, a) : w[c] = TableStep(e, a, start, common, w, c[1], c[2])

\* Where the walk goes from a cell.
Moves(e, a, i, j) ==
    /\ i \in 1 .. Len(e) + 1 /\ j \in 1 .. Len(a) + 1
    /\ Ahead(e, a)[<<i, j>>] \in Nat
    /\ i <= Len(e) => /\ <<i + 1, j>> \in Cells(e, a) /\ i \in 1 .. Len(e)
                      /\ Ahead(e, a)[<<i + 1, j>>] = Ahead(e, a)[<<i, j>>] - 1
    /\ j <= Len(a) => /\ <<i, j + 1>> \in Cells(e, a) /\ j \in 1 .. Len(a)
                      /\ Ahead(e, a)[<<i, j + 1>>] = Ahead(e, a)[<<i, j>>] - 1
    /\ i <= Len(e) /\ j <= Len(a) =>
          /\ <<i + 1, j + 1>> \in Cells(e, a)
          /\ Ahead(e, a)[<<i + 1, j + 1>>] = Ahead(e, a)[<<i, j>>] - 2

LEMMA CellMoves ==
    ASSUME NEW e, NEW a, NEW i, NEW j, Len(e) \in Nat, Len(a) \in Nat,
           <<i, j>> \in Cells(e, a)
    PROVE  Moves(e, a, i, j)
<1>1. i \in 1 .. Len(e) + 1 /\ j \in 1 .. Len(a) + 1
  BY DEF Cells
<1>2. i <= Len(e) => i + 1 \in 1 .. Len(e) + 1 /\ i \in 1 .. Len(e)
  BY <1>1
<1>3. j <= Len(a) => j + 1 \in 1 .. Len(a) + 1 /\ j \in 1 .. Len(a)
  BY <1>1
<1>4. \A x, y : <<x, y>> \in Cells(e, a) =>
         Ahead(e, a)[<<x, y>>] = (Len(e) + 1 - x) + (Len(a) + 1 - y)
  BY DEF Cells, Ahead
<1>5. /\ i <= Len(e) => <<i + 1, j>> \in Cells(e, a)
      /\ j <= Len(a) => <<i, j + 1>> \in Cells(e, a)
      /\ i <= Len(e) /\ j <= Len(a) => <<i + 1, j + 1>> \in Cells(e, a)
  BY <1>1, <1>2, <1>3 DEF Cells
<1>6. Ahead(e, a)[<<i, j>>] = (Len(e) + 1 - i) + (Len(a) + 1 - j)
  BY <1>4
<1>7. /\ i <= Len(e) => Ahead(e, a)[<<i + 1, j>>] = (Len(e) + 1 - (i + 1)) + (Len(a) + 1 - j)
      /\ j <= Len(a) => Ahead(e, a)[<<i, j + 1>>] = (Len(e) + 1 - i) + (Len(a) + 1 - (j + 1))
      /\ i <= Len(e) /\ j <= Len(a) =>
            Ahead(e, a)[<<i + 1, j + 1>>] = (Len(e) + 1 - (i + 1)) + (Len(a) + 1 - (j + 1))
  BY <1>4, <1>5
<1>8. Ahead(e, a)[<<i, j>>] \in Nat
  BY <1>1, <1>6
<1>. QED  BY <1>1, <1>2, <1>3, <1>5, <1>6, <1>7, <1>8 DEF Moves

LEMMA CellPair ==
    ASSUME NEW e, NEW a, NEW c \in Cells(e, a)
    PROVE  c = <<c[1], c[2]>> /\ <<c[1], c[2]>> \in Cells(e, a)
BY DEF Cells

LEMMA AheadMeasures ==
    ASSUME NEW e, NEW a, Len(e) \in Nat, Len(a) \in Nat
    PROVE  Measures(Ahead(e, a), Cells(e, a), Len(e) + Len(a) + 1)
<1>1. ASSUME NEW c \in Cells(e, a)
      PROVE  /\ (Len(e) + 1 - c[1]) + (Len(a) + 1 - c[2]) \in Nat
             /\ (Len(e) + 1 - c[1]) + (Len(a) + 1 - c[2]) < Len(e) + Len(a) + 1
  <2>1. PICK i \in 1 .. Len(e) + 1, j \in 1 .. Len(a) + 1 : c[1] = i /\ c[2] = j
    BY DEF Cells
  <2>2. (Len(e) + 1 - i) + (Len(a) + 1 - j) \in Nat
    OBVIOUS
  <2>3. (Len(e) + 1 - i) + (Len(a) + 1 - j) < Len(e) + Len(a) + 1
    OBVIOUS
  <2>. QED  BY <2>1, <2>2, <2>3
<1>2. Len(e) + Len(a) + 1 \in Nat
  OBVIOUS
<1>. QED  BY <1>1, <1>2 DEF Measures, Ahead

\* What a step of the walk depends on, and the rows it makes.
LEMMA StepTyped ==
    ASSUME NEW V, NEW e \in Lists(V), NEW a \in Lists(V), NEW start \in Int, NEW common,
           NEW g \in [Cells(e, a) -> Rows(V)], NEW i, NEW j, <<i, j>> \in Cells(e, a)
    PROVE  TableStep(e, a, start, common, g, i, j) \in Rows(V)
<1>1. /\ Len(e) \in Nat /\ Len(a) \in Nat
      /\ \A k \in 1 .. Len(e) : e[k] \in V
      /\ \A k \in 1 .. Len(a) : a[k] \in V
  BY ListLines
<1>2. i \in Nat /\ j \in Nat
  <2>1. i \in 1 .. Len(e) + 1 /\ j \in 1 .. Len(a) + 1
    BY <1>1, CellMoves DEF Moves
  <2>. QED  BY <1>1, <2>1
<1>s. TableStep(e, a, start, common, g, i, j) = StepCase(e, a, start, common, g, i, j)
  BY <1>1, <1>2, StepCases
<1>3. CASE AtEnd(e, a, i, j)
  BY <1>s, <1>3, ListsNothing DEF Rows, StepCase
<1>4. CASE ~ AtEnd(e, a, i, j) /\ Meets(e, a, i, j)
  <2>1. i \in 1 .. Len(e) /\ <<i + 1, j + 1>> \in Cells(e, a)
    BY <1>1, <1>4, CellMoves DEF Moves, Meets
  <2>2. Same(e[i], start + i, start + j) \in Row(V)
    BY <1>1, <1>2, <2>1 DEF Row, Same
  <2>3. Cat(One(Same(e[i], start + i, start + j)), g[<<i + 1, j + 1>>]) \in Rows(V)
    BY <2>1, <2>2, OneTyped, ListsJoin DEF Rows
  <2>. QED  BY <1>s, <1>4, <2>3 DEF StepCase
<1>5. CASE ~ AtEnd(e, a, i, j) /\ ~ Meets(e, a, i, j) /\ Behindmost(e, a, common, i, j)
  <2>1. i \in 1 .. Len(e) /\ <<i + 1, j>> \in Cells(e, a)
    BY <1>1, <1>5, CellMoves DEF Moves, Behindmost
  <2>2. Removed(e[i], start + i) \in Row(V)
    BY <1>1, <1>2, <2>1 DEF Row, Removed
  <2>3. Cat(One(Removed(e[i], start + i)), g[<<i + 1, j>>]) \in Rows(V)
    BY <2>1, <2>2, OneTyped, ListsJoin DEF Rows
  <2>. QED  BY <1>s, <1>5, <2>3 DEF StepCase
<1>6. CASE ~ AtEnd(e, a, i, j) /\ ~ Meets(e, a, i, j) /\ ~ Behindmost(e, a, common, i, j)
  <2>0. j <= Len(a)
    BY <1>1, <1>2, <1>6 DEF AtEnd, Behindmost
  <2>1. j \in 1 .. Len(a) /\ <<i, j + 1>> \in Cells(e, a)
    BY <1>1, <2>0, CellMoves DEF Moves
  <2>2. Added(a[j], start + j) \in Row(V)
    BY <1>1, <1>2, <2>1 DEF Row, Added
  <2>3. Cat(One(Added(a[j], start + j)), g[<<i, j + 1>>]) \in Rows(V)
    BY <2>1, <2>2, OneTyped, ListsJoin DEF Rows
  <2>. QED  BY <1>s, <1>6, <2>3 DEF StepCase
<1>. QED  BY <1>3, <1>4, <1>5, <1>6

LEMMA StepDepends ==
    ASSUME NEW e, NEW a, NEW start, NEW common, NEW g, NEW h, NEW i, NEW j,
           Len(e) \in Nat, Len(a) \in Nat, <<i, j>> \in Cells(e, a),
           \A c \in Cells(e, a) : Ahead(e, a)[c] < Ahead(e, a)[<<i, j>>] => g[c] = h[c]
    PROVE  TableStep(e, a, start, common, g, i, j) = TableStep(e, a, start, common, h, i, j)
<1>0. Moves(e, a, i, j)
  BY CellMoves
<1>1. i \in Nat /\ j \in Nat /\ Ahead(e, a)[<<i, j>>] \in Nat
  <2>1. /\ i \in 1 .. Len(e) + 1 /\ j \in 1 .. Len(a) + 1
        /\ Ahead(e, a)[<<i, j>>] \in Nat
    BY <1>0 DEF Moves
  <2>. QED  BY <2>1
<1>2. /\ TableStep(e, a, start, common, g, i, j) = StepCase(e, a, start, common, g, i, j)
      /\ TableStep(e, a, start, common, h, i, j) = StepCase(e, a, start, common, h, i, j)
  BY <1>1, StepCases
<1>3. i <= Len(e) => g[<<i + 1, j>>] = h[<<i + 1, j>>]
  <2>. SUFFICES ASSUME i <= Len(e) PROVE g[<<i + 1, j>>] = h[<<i + 1, j>>]
    OBVIOUS
  <2>1. <<i + 1, j>> \in Cells(e, a) /\ Ahead(e, a)[<<i + 1, j>>] = Ahead(e, a)[<<i, j>>] - 1
    BY <1>0 DEF Moves
  <2>2. Ahead(e, a)[<<i + 1, j>>] < Ahead(e, a)[<<i, j>>]
    BY <1>1, <2>1
  <2>. QED  BY <2>1, <2>2
<1>4. j <= Len(a) => g[<<i, j + 1>>] = h[<<i, j + 1>>]
  <2>. SUFFICES ASSUME j <= Len(a) PROVE g[<<i, j + 1>>] = h[<<i, j + 1>>]
    OBVIOUS
  <2>1. <<i, j + 1>> \in Cells(e, a) /\ Ahead(e, a)[<<i, j + 1>>] = Ahead(e, a)[<<i, j>>] - 1
    BY <1>0 DEF Moves
  <2>2. Ahead(e, a)[<<i, j + 1>>] < Ahead(e, a)[<<i, j>>]
    BY <1>1, <2>1
  <2>. QED  BY <2>1, <2>2
<1>5. i <= Len(e) /\ j <= Len(a) => g[<<i + 1, j + 1>>] = h[<<i + 1, j + 1>>]
  <2>. SUFFICES ASSUME i <= Len(e) /\ j <= Len(a) PROVE g[<<i + 1, j + 1>>] = h[<<i + 1, j + 1>>]
    OBVIOUS
  <2>1. /\ <<i + 1, j + 1>> \in Cells(e, a)
        /\ Ahead(e, a)[<<i + 1, j + 1>>] = Ahead(e, a)[<<i, j>>] - 2
    BY <1>0 DEF Moves
  <2>2. Ahead(e, a)[<<i + 1, j + 1>>] < Ahead(e, a)[<<i, j>>]
    BY <1>1, <2>1
  <2>. QED  BY <2>1, <2>2
<1>6. ~ AtEnd(e, a, i, j) /\ ~ Behindmost(e, a, common, i, j) => j <= Len(a)
  BY <1>1 DEF AtEnd, Behindmost
<1>7. /\ Meets(e, a, i, j) => i <= Len(e) /\ j <= Len(a)
      /\ Behindmost(e, a, common, i, j) => i <= Len(e)
  BY DEF Meets, Behindmost
<1>. QED  BY <1>2, <1>3, <1>4, <1>5, <1>6, <1>7 DEF StepCase

LEMMA WalkEquation ==
    ASSUME NEW V, NEW e \in Lists(V), NEW a \in Lists(V), NEW start \in Int, NEW common
    PROVE  \E w : /\ Walks(w, e, a, start, common, V)
                  /\ TableDiff(e, a, start, common) = w[<<1, 1>>]
<1>. DEFINE D == Cells(e, a)
            W == Rows(V)
            m == Ahead(e, a)
            Body(g) == WalkBody(g, e, a, start, common)
            F == [g \in [D -> W] |-> Body(g)]
            f == CHOOSE w : w = Body(w)
<1>1. Len(e) \in Nat /\ Len(a) \in Nat
  BY ListLines
<1>2. \A g, c : c \in D => Body(g)[c] = TableStep(e, a, start, common, g, c[1], c[2])
  BY DEF WalkBody
<1>3. ASSUME NEW g \in [D -> W] PROVE Body(g) \in [D -> W]
  <2>1. ASSUME NEW c \in D PROVE TableStep(e, a, start, common, g, c[1], c[2]) \in W
    BY CellPair, StepTyped
  <2>. QED  BY <2>1 DEF WalkBody
<1>4. F \in [[D -> W] -> [D -> W]]
  BY <1>3
<1>5. ASSUME NEW g, NEW h, NEW c \in D, \A d \in D : m[d] < m[c] => g[d] = h[d]
      PROVE  Body(g)[c] = Body(h)[c]
  <2>1. c = <<c[1], c[2]>> /\ <<c[1], c[2]>> \in Cells(e, a)
    BY CellPair
  <2>2. \A d \in Cells(e, a) : Ahead(e, a)[d] < Ahead(e, a)[<<c[1], c[2]>>] => g[d] = h[d]
    BY <1>5, <2>1
  <2>3. TableStep(e, a, start, common, g, c[1], c[2])
          = TableStep(e, a, start, common, h, c[1], c[2])
    BY <1>1, <2>1, <2>2, StepDepends
  <2>. QED  BY <1>2, <2>3
<1>6. StepBelow(F, m, D, W)
  <2>. SUFFICES ASSUME NEW g \in [D -> W], NEW h \in [D -> W], NEW c \in D,
                       \A d \in D : m[d] < m[c] => g[d] = h[d]
                PROVE  F[g][c] = F[h][c]
    BY <1>4 DEF StepBelow
  <2>1. Body(g)[c] = Body(h)[c]
    BY <1>5
  <2>. HIDE DEF Body
  <2>. QED  BY <2>1
<1>7. Measures(m, D, Len(e) + Len(a) + 1)
  BY <1>1, AheadMeasures
<1>8. W # {}
  BY ListsNothing DEF Rows
<1>9. \E g \in [D -> W] : F[g] = g
  <2>. HIDE DEF D, W, F, m
  <2>. QED  BY <1>6, <1>7, <1>8, BoundedRecursion
<1>10. \E g : g \in [D -> W] /\ g = Body(g)
  <2>. HIDE DEF Body
  <2>. QED  BY <1>9
<1>11. f = Body(f)
  BY <1>10
<1>12. f \in [D -> W]
  <2>1. PICK g \in [D -> W] : g = Body(g)
    BY <1>10
  <2>. HIDE DEF f, Body, D, m, W
  <2>2. AgreeBelow(f, g, m, D)
    <3>. SUFFICES ASSUME NEW c \in D, \A d \in D : m[d] < m[c] => f[d] = g[d]
                  PROVE  f[c] = g[c]
      BY DEF AgreeBelow
    <3>1. Body(f)[c] = Body(g)[c]
      BY <1>5
    <3>. QED  BY <1>11, <2>1, <3>1
  <2>3. \A c \in D : f[c] = g[c]
    BY <1>7, <2>2, SameBelow
  <2>4. f = [c \in D |-> f[c]] /\ g = [c \in D |-> g[c]]
    <3>1. f = [c \in D |-> TableStep(e, a, start, common, f, c[1], c[2])]
      BY <1>11 DEF Body, D, WalkBody
    <3>. QED  BY <2>1, <3>1
  <2>. QED  BY <2>1, <2>3, <2>4
<1>13. TableDiff(e, a, start, common) = f[<<1, 1>>]
  BY WalkOfTable
<1>14. \A c \in D : f[c] = TableStep(e, a, start, common, f, c[1], c[2])
  <2>. HIDE DEF f
  <2>. QED  BY <1>2, <1>11
<1>. HIDE DEF f
<1>. QED  BY <1>1, <1>12, <1>13, <1>14 DEF Walks

\* The rows from a cell on split the rest of both texts.
Shared(w, e, a, i, j) == Splits(w[<<i, j>>], Piece(e, i, Len(e)), Piece(a, j, Len(a)))

LEMMA StepShared ==
    ASSUME NEW V, NEW e \in Lists(V), NEW a \in Lists(V), NEW start \in Int, NEW common,
           NEW w, Walks(w, e, a, start, common, V), NEW i, NEW j, <<i, j>> \in Cells(e, a),
           i <= Len(e) => Shared(w, e, a, i + 1, j),
           j <= Len(a) => Shared(w, e, a, i, j + 1),
           i <= Len(e) /\ j <= Len(a) => Shared(w, e, a, i + 1, j + 1)
    PROVE  Shared(w, e, a, i, j)
<1>1. /\ Len(e) \in Nat /\ Len(a) \in Nat
      /\ \A k \in 1 .. Len(e) : e[k] \in V
      /\ \A k \in 1 .. Len(a) : a[k] \in V
  BY ListLines
<1>0. Moves(e, a, i, j)
  BY <1>1, CellMoves
<1>2. i \in Nat /\ j \in Nat /\ i \in 1 .. Len(e) + 1 /\ j \in 1 .. Len(a) + 1
  <2>1. i \in 1 .. Len(e) + 1 /\ j \in 1 .. Len(a) + 1
    BY <1>0 DEF Moves
  <2>. QED  BY <1>1, <2>1
<1>3. w[<<i, j>>] = StepCase(e, a, start, common, w, i, j)
  <2>1. w[<<i, j>>] = TableStep(e, a, start, common, w, i, j)
    BY DEF Walks
  <2>2. TableStep(e, a, start, common, w, i, j) = StepCase(e, a, start, common, w, i, j)
    BY <1>1, <1>2, StepCases
  <2>. QED  BY <2>1, <2>2
<1>4. \A c \in Cells(e, a) : w[c] \in Rows(V)
  BY DEF Walks
<1>5. /\ i <= Len(e) => Piece(e, i, Len(e)) = Cat(One(e[i]), Piece(e, i + 1, Len(e)))
      /\ j <= Len(a) => Piece(a, j, Len(a)) = Cat(One(a[j]), Piece(a, j + 1, Len(a)))
  <2>1. /\ i <= Len(e) => i \in 1 .. Len(e)
        /\ j <= Len(a) => j \in 1 .. Len(a)
    BY <1>0 DEF Moves
  <2>. QED  BY <2>1, PieceFirst
<1>6. CASE AtEnd(e, a, i, j)
  <2>1. i = Len(e) + 1 /\ j = Len(a) + 1
    BY <1>1, <1>2, <1>6 DEF AtEnd
  <2>2. Piece(e, i, Len(e)) = <<>> /\ Piece(a, j, Len(a)) = <<>>
    BY <2>1, PieceEnds
  <2>3. w[<<i, j>>] = <<>>
    BY <1>3, <1>6 DEF StepCase
  <2>. QED  BY <2>2, <2>3, TextNothing DEF Shared, Splits
<1>7. CASE ~ AtEnd(e, a, i, j) /\ Meets(e, a, i, j)
  <2>1. /\ i <= Len(e) /\ j <= Len(a) /\ e[i] = a[j] /\ i \in 1 .. Len(e)
        /\ <<i + 1, j + 1>> \in Cells(e, a)
    BY <1>0, <1>7 DEF Meets, Moves
  <2>2. w[<<i, j>>] = Cat(One(Same(e[i], start + i, start + j)), w[<<i + 1, j + 1>>])
    BY <1>3, <1>7 DEF StepCase
  <2>3. Splits(w[<<i + 1, j + 1>>], Piece(e, i + 1, Len(e)), Piece(a, j + 1, Len(a)))
    BY <2>1 DEF Shared
  <2>4. w[<<i + 1, j + 1>>] \in Rows(V) /\ e[i] \in V /\ start + i \in Int /\ start + j \in Int
    BY <1>1, <1>2, <1>4, <2>1
  <2>5. Splits(Cat(One(Same(e[i], start + i, start + j)), w[<<i + 1, j + 1>>]),
               Cat(One(e[i]), Piece(e, i + 1, Len(e))), Cat(One(e[i]), Piece(a, j + 1, Len(a))))
    BY <2>3, <2>4, SplitSame
  <2>. QED  BY <1>5, <2>1, <2>2, <2>5 DEF Shared
<1>8. CASE ~ AtEnd(e, a, i, j) /\ ~ Meets(e, a, i, j) /\ Behindmost(e, a, common, i, j)
  <2>1. i <= Len(e) /\ i \in 1 .. Len(e) /\ <<i + 1, j>> \in Cells(e, a)
    BY <1>0, <1>8 DEF Behindmost, Moves
  <2>2. w[<<i, j>>] = Cat(One(Removed(e[i], start + i)), w[<<i + 1, j>>])
    BY <1>3, <1>8 DEF StepCase
  <2>3. Splits(w[<<i + 1, j>>], Piece(e, i + 1, Len(e)), Piece(a, j, Len(a)))
    BY <2>1 DEF Shared
  <2>4. w[<<i + 1, j>>] \in Rows(V) /\ e[i] \in V /\ start + i \in Int
    BY <1>1, <1>2, <1>4, <2>1
  <2>5. Splits(Cat(One(Removed(e[i], start + i)), w[<<i + 1, j>>]),
               Cat(One(e[i]), Piece(e, i + 1, Len(e))), Piece(a, j, Len(a)))
    BY <2>3, <2>4, SplitRemoved
  <2>. QED  BY <1>5, <2>1, <2>2, <2>5 DEF Shared
<1>9. CASE ~ AtEnd(e, a, i, j) /\ ~ Meets(e, a, i, j) /\ ~ Behindmost(e, a, common, i, j)
  <2>0. j <= Len(a)
    BY <1>1, <1>2, <1>9 DEF AtEnd, Behindmost
  <2>1. j \in 1 .. Len(a) /\ <<i, j + 1>> \in Cells(e, a)
    BY <1>0, <2>0 DEF Moves
  <2>2. w[<<i, j>>] = Cat(One(Added(a[j], start + j)), w[<<i, j + 1>>])
    BY <1>3, <1>9 DEF StepCase
  <2>3. Splits(w[<<i, j + 1>>], Piece(e, i, Len(e)), Piece(a, j + 1, Len(a)))
    BY <2>0 DEF Shared
  <2>4. w[<<i, j + 1>>] \in Rows(V) /\ a[j] \in V /\ start + j \in Int
    BY <1>1, <1>2, <1>4, <2>1
  <2>5. Splits(Cat(One(Added(a[j], start + j)), w[<<i, j + 1>>]),
               Piece(e, i, Len(e)), Cat(One(a[j]), Piece(a, j + 1, Len(a))))
    BY <2>3, <2>4, SplitAdded
  <2>. QED  BY <1>5, <2>0, <2>2, <2>5 DEF Shared
<1>. QED  BY <1>6, <1>7, <1>8, <1>9

LEMMA WalkShares ==
    ASSUME NEW V, NEW e \in Lists(V), NEW a \in Lists(V), NEW start \in Int, NEW common,
           NEW w, Walks(w, e, a, start, common, V)
    PROVE  Shared(w, e, a, 1, 1)
<1>. DEFINE S == {n \in Nat : \A i, j : <<i, j>> \in Cells(e, a) /\ Ahead(e, a)[<<i, j>>] < n
                                 => Shared(w, e, a, i, j)}
<1>1. Len(e) \in Nat /\ Len(a) \in Nat
  BY ListLines
<1>2. 0 \in S
  <2>1. ASSUME NEW i, NEW j, <<i, j>> \in Cells(e, a) PROVE ~ (Ahead(e, a)[<<i, j>>] < 0)
    <3>1. Moves(e, a, i, j)
      BY <1>1, <2>1, CellMoves
    <3>2. Ahead(e, a)[<<i, j>>] \in Nat
      BY <3>1 DEF Moves
    <3>. QED  BY <3>2
  <2>. QED  BY <2>1
<1>3. ASSUME NEW n \in Nat, n \in S PROVE n + 1 \in S
  <2>1. ASSUME NEW i, NEW j, <<i, j>> \in Cells(e, a), Ahead(e, a)[<<i, j>>] < n + 1
        PROVE  Shared(w, e, a, i, j)
    <3>1. Moves(e, a, i, j)
      BY <1>1, <2>1, CellMoves
    <3>2. Ahead(e, a)[<<i, j>>] \in Nat
      BY <3>1 DEF Moves
    <3>3. /\ Ahead(e, a)[<<i, j>>] - 1 < n /\ Ahead(e, a)[<<i, j>>] - 2 < n
      BY <2>1, <3>2
    <3>4. /\ i <= Len(e) => Shared(w, e, a, i + 1, j)
          /\ j <= Len(a) => Shared(w, e, a, i, j + 1)
          /\ i <= Len(e) /\ j <= Len(a) => Shared(w, e, a, i + 1, j + 1)
      BY <1>3, <3>1, <3>3 DEF Moves
    <3>. QED  BY <2>1, <3>4, StepShared
  <2>. QED  BY <2>1
<1>4. \A n \in Nat : n \in S
  <2>. HIDE DEF S
  <2>. QED  BY <1>2, <1>3, SetInduction
<1>5. <<1, 1>> \in Cells(e, a)
  <2>1. 1 \in 1 .. Len(e) + 1 /\ 1 \in 1 .. Len(a) + 1
    BY <1>1
  <2>. QED  BY <2>1 DEF Cells
<1>6. Ahead(e, a)[<<1, 1>>] \in Nat
  <2>1. Moves(e, a, 1, 1)
    BY <1>1, <1>5, CellMoves
  <2>. QED  BY <2>1 DEF Moves
<1>7. Ahead(e, a)[<<1, 1>>] + 1 \in S
  BY <1>4, <1>6
<1>8. Ahead(e, a)[<<1, 1>>] < Ahead(e, a)[<<1, 1>>] + 1
  BY <1>6
<1>. QED  BY <1>5, <1>7, <1>8

\* Whatever the table says, the walk loses and invents no line.
LEMMA TableSplits ==
    ASSUME NEW V, NEW e \in Lists(V), NEW a \in Lists(V), NEW start \in Int, NEW common
    PROVE  /\ TableDiff(e, a, start, common) \in Rows(V)
           /\ Splits(TableDiff(e, a, start, common), e, a)
<1>1. PICK w : Walks(w, e, a, start, common, V) /\ TableDiff(e, a, start, common) = w[<<1, 1>>]
  BY WalkEquation
<1>2. Shared(w, e, a, 1, 1)
  BY <1>1, WalkShares
<1>3. <<1, 1>> \in Cells(e, a)
  <2>1. Len(e) \in Nat /\ Len(a) \in Nat
    BY ListLines
  <2>2. 1 \in 1 .. Len(e) + 1 /\ 1 \in 1 .. Len(a) + 1
    BY <2>1
  <2>. QED  BY <2>2 DEF Cells
<1>4. w[<<1, 1>>] \in Rows(V)
  BY <1>1, <1>3 DEF Walks
<1>5. Piece(e, 1, Len(e)) = e /\ Piece(a, 1, Len(a)) = a
  BY PieceEnds
<1>. QED  BY <1>1, <1>2, <1>4, <1>5 DEF Shared

-----------------------------------------------------------------------------
(* Line by line                                                            *)

LEMMA SplitCat ==
    ASSUME NEW V, NEW r \in Rows(V), NEW s \in Rows(V), NEW e, NEW a, NEW d, NEW b,
           Splits(r, e, a), Splits(s, d, b)
    PROVE  Splits(Cat(r, s), Cat(e, d), Cat(a, b))
BY TextCat DEF Splits

\* The rows of one line, and the lines they are of.
RowsAt(e, a, i) ==
    IF i <= Len(e) /\ i <= Len(a) /\ e[i] = a[i] THEN One(Same(e[i], i, i))
    ELSE Cat(IF i <= Len(e) THEN One(Removed(e[i], i)) ELSE <<>>,
             IF i <= Len(a) THEN One(Added(a[i], i)) ELSE <<>>)
LineAt(s, i) == IF i <= Len(s) THEN One(s[i]) ELSE <<>>
Upto(s, i) == Piece(s, 1, IF i <= Len(s) THEN i ELSE Len(s))

LEMMA FallbackOfLines ==
    \A e, a : FallbackDiff(e, a) = FlattenSeq([i \in 1 .. Max({Len(e), Len(a)}) |-> RowsAt(e, a, i)])
BY DEF FallbackDiff, RowsAt, Cat, One

LEMMA SplitNothing == Splits(<<>>, <<>>, <<>>)
BY TextNothing DEF Splits

LEMMA SplitRow ==
    ASSUME NEW V, NEW row \in Row(V)
    PROVE  One(row) \in Rows(V) /\ Splits(One(row), Left("added", row), Left("removed", row))
BY OneTyped, TextOne DEF Splits, Rows

LEMMA RowsAtSplit ==
    ASSUME NEW V, NEW e \in Lists(V), NEW a \in Lists(V), NEW i \in Nat \ {0}
    PROVE  RowsAt(e, a, i) \in Rows(V) /\ Splits(RowsAt(e, a, i), LineAt(e, i), LineAt(a, i))
<1>1. /\ i <= Len(e) => e[i] \in V
      /\ i <= Len(a) => a[i] \in V
  <2>1. /\ Len(e) \in Nat /\ \A k \in 1 .. Len(e) : e[k] \in V
        /\ Len(a) \in Nat /\ \A k \in 1 .. Len(a) : a[k] \in V
    BY ListLines
  <2>. QED  BY <2>1
<1>2. CASE i <= Len(e) /\ i <= Len(a) /\ e[i] = a[i]
  <2>1. PICK row : row = Same(e[i], i, i)
    OBVIOUS
  <2>2. row \in Row(V) /\ row.kind = "equal" /\ row.line = e[i]
    BY <1>1, <1>2, <2>1 DEF Row, Same
  <2>3. Left("added", row) = One(e[i]) /\ Left("removed", row) = One(e[i])
    BY <2>2 DEF Left
  <2>4. RowsAt(e, a, i) = One(row) /\ LineAt(e, i) = One(e[i]) /\ LineAt(a, i) = One(e[i])
    BY <1>2, <2>1 DEF RowsAt, LineAt
  <2>. QED  BY <2>2, <2>3, <2>4, SplitRow
<1>3. CASE ~ (i <= Len(e) /\ i <= Len(a) /\ e[i] = a[i])
  <2>. DEFINE R == IF i <= Len(e) THEN One(Removed(e[i], i)) ELSE <<>>
              A == IF i <= Len(a) THEN One(Added(a[i], i)) ELSE <<>>
  <2>1. R \in Rows(V) /\ Splits(R, LineAt(e, i), <<>>)
    <3>1. CASE i <= Len(e)
      <4>1. PICK row : row = Removed(e[i], i)
        OBVIOUS
      <4>2. row \in Row(V) /\ row.kind = "removed" /\ row.line = e[i]
        BY <1>1, <3>1, <4>1 DEF Row, Removed
      <4>3. Left("added", row) = One(e[i]) /\ Left("removed", row) = <<>>
        BY <4>2 DEF Left
      <4>4. R = One(row) /\ LineAt(e, i) = One(e[i])
        BY <3>1, <4>1 DEF LineAt
      <4>. QED  BY <4>2, <4>3, <4>4, SplitRow
    <3>2. CASE ~ (i <= Len(e))
      <4>1. R = <<>> /\ LineAt(e, i) = <<>>
        BY <3>2 DEF LineAt
      <4>. QED  BY <4>1, SplitNothing, ListsNothing DEF Rows
    <3>. QED  BY <3>1, <3>2
  <2>2. A \in Rows(V) /\ Splits(A, <<>>, LineAt(a, i))
    <3>1. CASE i <= Len(a)
      <4>1. PICK row : row = Added(a[i], i)
        OBVIOUS
      <4>2. row \in Row(V) /\ row.kind = "added" /\ row.line = a[i]
        BY <1>1, <3>1, <4>1 DEF Row, Added
      <4>3. Left("added", row) = <<>> /\ Left("removed", row) = One(a[i])
        BY <4>2 DEF Left
      <4>4. A = One(row) /\ LineAt(a, i) = One(a[i])
        BY <3>1, <4>1 DEF LineAt
      <4>. QED  BY <4>2, <4>3, <4>4, SplitRow
    <3>2. CASE ~ (i <= Len(a))
      <4>1. A = <<>> /\ LineAt(a, i) = <<>>
        BY <3>2 DEF LineAt
      <4>. QED  BY <4>1, SplitNothing, ListsNothing DEF Rows
    <3>. QED  BY <3>1, <3>2
  <2>3. RowsAt(e, a, i) = Cat(R, A)
    BY <1>3 DEF RowsAt
  <2>. HIDE DEF R, A
  <2>4. LineAt(e, i) \in Lists(V) /\ LineAt(a, i) \in Lists(V)
    BY <1>1, OneTyped, ListsNothing DEF LineAt
  <2>5. Splits(Cat(R, A), Cat(LineAt(e, i), <<>>), Cat(<<>>, LineAt(a, i)))
    BY <2>1, <2>2, SplitCat
  <2>6. Cat(LineAt(e, i), <<>>) = LineAt(e, i) /\ Cat(<<>>, LineAt(a, i)) = LineAt(a, i)
    BY <2>4, ListsNothing
  <2>7. Cat(R, A) \in Rows(V)
    BY <2>1, <2>2, ListsJoin DEF Rows
  <2>. QED  BY <2>3, <2>5, <2>6, <2>7
<1>. QED  BY <1>2, <1>3

LEMMA UptoNext ==
    ASSUME NEW V, NEW s \in Lists(V), NEW i \in Nat
    PROVE  Upto(s, i + 1) = Cat(Upto(s, i), LineAt(s, i + 1)) /\ Upto(s, 0) = <<>>
<1>1. Len(s) \in Nat
  BY ListLines
<1>2. CASE i + 1 <= Len(s)
  <2>1. PICK k : k = i + 1
    OBVIOUS
  <2>2. k \in 1 .. Len(s) /\ k - 1 = i /\ i <= Len(s) /\ k <= Len(s)
    BY <1>1, <1>2, <2>1
  <2>3. Piece(s, 1, k) = Cat(Piece(s, 1, k - 1), One(s[k]))
    BY <2>2, PieceLast
  <2>4. Upto(s, k) = Piece(s, 1, k) /\ Upto(s, i) = Piece(s, 1, i) /\ LineAt(s, k) = One(s[k])
    BY <2>2 DEF Upto, LineAt
  <2>5. Upto(s, k) = Cat(Upto(s, i), LineAt(s, k))
    BY <2>2, <2>3, <2>4
  <2>6. Upto(s, 0) = <<>>
    BY <1>1, PieceEnds DEF Upto
  <2>. QED  BY <2>1, <2>5, <2>6
<1>3. CASE ~ (i + 1 <= Len(s))
  <2>1. PICK k : k = i + 1
    OBVIOUS
  <2>2. ~ (k <= Len(s)) /\ (i <= Len(s) => i = Len(s))
    BY <1>1, <1>3, <2>1
  <2>3. Upto(s, k) = s /\ Upto(s, i) = s /\ LineAt(s, k) = <<>>
    BY <2>2, PieceEnds DEF Upto, LineAt
  <2>4. Cat(s, <<>>) = s
    BY ListsNothing
  <2>5. Upto(s, 0) = <<>>
    BY <1>1, PieceEnds DEF Upto
  <2>. QED  BY <2>1, <2>3, <2>4, <2>5
<1>. QED  BY <1>2, <1>3

LEMMA LargerOfTwo ==
    ASSUME NEW m \in Nat, NEW n \in Nat
    PROVE  Max({m, n}) = IF m >= n THEN m ELSE n
<1>. DEFINE big == IF m >= n THEN m ELSE n
<1>1. big \in {m, n} /\ \A y \in {m, n} : big >= y
  OBVIOUS
<1>2. \A x \in {m, n} : (\A y \in {m, n} : x >= y) => x = big
  OBVIOUS
<1>3. Max({m, n}) = CHOOSE x \in {m, n} : \A y \in {m, n} : x >= y
  BY DEF Max
<1>. HIDE DEF big
<1>4. Max({m, n}) \in {m, n} /\ \A y \in {m, n} : Max({m, n}) >= y
  BY <1>1, <1>3
<1>5. Max({m, n}) = big
  BY <1>2, <1>4
<1>. QED  BY <1>5 DEF big

LEMMA FallbackSplits ==
    ASSUME NEW V, NEW e \in Lists(V), NEW a \in Lists(V)
    PROVE  FallbackDiff(e, a) \in Rows(V) /\ Splits(FallbackDiff(e, a), e, a)
<1>. DEFINE lines == [i \in 1 .. Max({Len(e), Len(a)}) |-> RowsAt(e, a, i)]
<1>1. PICK n : n = Max({Len(e), Len(a)})
  OBVIOUS
<1>2. Len(e) \in Nat /\ Len(a) \in Nat
  BY ListLines
<1>3. n \in Nat /\ Len(e) <= n /\ Len(a) <= n /\ n \in {Len(e), Len(a)}
  BY <1>1, <1>2, LargerOfTwo
<1>4. FallbackDiff(e, a) = FlattenSeq(lines)
  BY FallbackOfLines
<1>5. \A i \in 1 .. n : RowsAt(e, a, i) \in Rows(V)
  <2>1. \A i \in 1 .. n : i \in Nat \ {0}
    BY <1>3
  <2>. QED  BY <2>1, RowsAtSplit
<1>6. lines \in Seq(Seq(Row(V))) /\ Len(lines) = n /\ \A i \in 1 .. n : lines[i] = RowsAt(e, a, i)
  <2>1. \A i \in 1 .. n : RowsAt(e, a, i) \in Seq(Row(V))
    BY <1>5 DEF Rows, Lists
  <2>2. lines = [i \in 1 .. n |-> RowsAt(e, a, i)]
    BY <1>1
  <2>. HIDE DEF lines
  <2>3. lines \in Seq(Seq(Row(V)))
    BY <1>3, <2>1, <2>2
  <2>4. Len(lines) = n
    BY <1>3, <2>2
  <2>. QED  BY <2>2, <2>3, <2>4
<1>. HIDE DEF lines
<1>7. CASE n = 0
  <2>1. lines = <<>>
    BY <1>6, <1>7, EmptySeq
  <2>2. Len(e) = 0 /\ Len(a) = 0
    BY <1>2, <1>3, <1>7
  <2>3. e = <<>> /\ a = <<>>
    BY <2>2, EmptySeq DEF Lists
  <2>. QED  BY <1>4, <2>1, <2>3, FlattenNothing, SplitNothing, ListsNothing DEF Rows
<1>8. CASE n # 0
  <2>1. PICK f : Flattens(f, lines, n, Row(V)) /\ FlattenSeq(lines) = f[n]
    BY <1>6, <1>8, FlattenEquation
  <2>2. /\ 1 \in 1 .. n => f[1] = lines[1]
        /\ \A i \in 1 .. n : f[i] \in Lists(Row(V)) /\ lines[i] \in Lists(Row(V))
        /\ \A i \in 2 .. n : f[i] = Cat(f[i - 1], lines[i])
    BY <2>1, FlattenNext
  <2>. DEFINE S == {i \in Nat : i \in 1 .. n => Splits(f[i], Upto(e, i), Upto(a, i))}
  <2>3. 0 \in S
    BY <1>3
  <2>4. ASSUME NEW j \in Nat, j \in S PROVE j + 1 \in S
    <3>1. SUFFICES ASSUME j + 1 \in 1 .. n
                   PROVE  Splits(f[j + 1], Upto(e, j + 1), Upto(a, j + 1))
      OBVIOUS
    <3>2. PICK i : i = j + 1
      OBVIOUS
    <3>3. Splits(lines[i], LineAt(e, i), LineAt(a, i))
      <4>1. i \in Nat \ {0} /\ lines[i] = RowsAt(e, a, i)
        BY <1>6, <3>1, <3>2
      <4>. QED  BY <4>1, RowsAtSplit
    <3>4. /\ Upto(e, i) = Cat(Upto(e, j), LineAt(e, i)) /\ Upto(e, 0) = <<>>
          /\ Upto(a, i) = Cat(Upto(a, j), LineAt(a, i)) /\ Upto(a, 0) = <<>>
      BY <3>2, UptoNext
    <3>5. CASE j = 0
      <4>1. i = 1 /\ f[i] = lines[i]
        BY <2>2, <3>1, <3>2, <3>5
      <4>2. LineAt(e, i) \in Lists(V) /\ LineAt(a, i) \in Lists(V)
        <5>1. \A k \in 1 .. Len(e) : e[k] \in V
          BY ListLines
        <5>2. \A k \in 1 .. Len(a) : a[k] \in V
          BY ListLines
        <5>. QED  BY <1>2, <4>1, <5>1, <5>2, OneTyped, ListsNothing DEF LineAt
      <4>3. Cat(<<>>, LineAt(e, i)) = LineAt(e, i) /\ Cat(<<>>, LineAt(a, i)) = LineAt(a, i)
        BY <4>2, ListsNothing
      <4>. QED  BY <3>2, <3>3, <3>4, <3>5, <4>1, <4>3
    <3>6. CASE j # 0
      <4>1. i \in 2 .. n /\ i - 1 = j /\ j \in 1 .. n
        BY <1>3, <3>1, <3>2, <3>6
      <4>2. Splits(f[j], Upto(e, j), Upto(a, j))
        BY <2>4, <4>1
      <4>3. f[i] = Cat(f[j], lines[i])
        BY <2>2, <4>1
      <4>4. f[j] \in Rows(V) /\ lines[i] \in Rows(V)
        BY <2>2, <3>1, <3>2, <4>1 DEF Rows
      <4>5. Splits(Cat(f[j], lines[i]), Cat(Upto(e, j), LineAt(e, i)), Cat(Upto(a, j), LineAt(a, i)))
        BY <3>3, <4>2, <4>4, SplitCat
      <4>. QED  BY <3>2, <3>4, <4>3, <4>5
    <3>. QED  BY <3>5, <3>6
  <2>5. \A i \in Nat : i \in S
    <3>. HIDE DEF S
    <3>. QED  BY <2>3, <2>4, SetInduction
  <2>6. n \in 1 .. n
    BY <1>3, <1>8
  <2>7. Splits(f[n], Upto(e, n), Upto(a, n))
    BY <1>3, <2>5, <2>6
  <2>8. Upto(e, n) = e /\ Upto(a, n) = a
    <3>1. (n <= Len(e) => n = Len(e)) /\ (n <= Len(a) => n = Len(a))
      BY <1>2, <1>3
    <3>. QED  BY <3>1, PieceEnds DEF Upto
  <2>. QED  BY <1>4, <2>1, <2>2, <2>6, <2>7, <2>8 DEF Rows
<1>. QED  BY <1>7, <1>8

-----------------------------------------------------------------------------
(* The diff of two outputs                                                 *)

LEMMA SmallerOfTwo ==
    ASSUME NEW m \in Nat, NEW n \in Nat
    PROVE  Min({m, n}) \in Nat /\ Min({m, n}) <= m /\ Min({m, n}) <= n
<1>. DEFINE small == IF m <= n THEN m ELSE n
<1>1. small \in {m, n} /\ \A y \in {m, n} : small <= y
  OBVIOUS
<1>2. Min({m, n}) = CHOOSE x \in {m, n} : \A y \in {m, n} : x <= y
  BY DEF Min
<1>. HIDE DEF small
<1>3. Min({m, n}) \in {m, n} /\ \A y \in {m, n} : Min({m, n}) <= y
  BY <1>1, <1>2
<1>. QED  BY <1>3

LEMMA GreatestNumber ==
    ASSUME NEW T, NEW n \in Nat, T \subseteq 0 .. n, T # {}
    PROVE  Max(T) \in T
<1>. DEFINE U == {n - i : i \in T}
<1>1. U \subseteq Nat /\ U # {}
  <2>1. \A i \in T : i \in 0 .. n
    OBVIOUS
  <2>2. \A i \in T : n - i \in Nat
    BY <2>1
  <2>. QED  BY <2>2
<1>2. PICK u \in U : \A v \in U : u <= v
  <2>. HIDE DEF U
  <2>. QED  BY <1>1, LeastNumber
<1>3. PICK x \in T : u = n - x
  BY <1>2
<1>4. \A y \in T : x >= y
  <2>. SUFFICES ASSUME NEW y \in T PROVE x >= y
    OBVIOUS
  <2>1. n - x <= n - y
    BY <1>2, <1>3
  <2>2. x \in 0 .. n /\ y \in 0 .. n
    OBVIOUS
  <2>3. x \in Nat /\ y \in Nat
    BY <2>2
  <2>. QED  BY ONLY n \in Nat, <2>1, <2>3
<1>. QED  BY <1>3, <1>4 DEF Max

\* The two texts agree on their first n lines.
AgreeUpto(e, a, n) ==
    n \in Nat /\ n <= Len(e) /\ n <= Len(a) /\ \A j \in 1 .. n : e[j] = a[j]

LEMMA SnakeAgrees ==
    ASSUME NEW e, NEW a, Len(e) \in Nat, Len(a) \in Nat
    PROVE  AgreeUpto(e, a, Snake(e, a, 0, 0))
<1>. DEFINE room == Min({Len(e) - 0, Len(a) - 0})
            agree == {i \in 0 .. room : \A j \in 1 .. i : e[0 + j] = a[0 + j]}
<1>1. Len(e) - 0 = Len(e) /\ Len(a) - 0 = Len(a)
  OBVIOUS
<1>2. room \in Nat /\ room <= Len(e) /\ room <= Len(a)
  BY <1>1, SmallerOfTwo
<1>3. Snake(e, a, 0, 0) = IF room <= 0 THEN 0 ELSE Max(agree)
  BY DEF Snake
<1>. HIDE DEF room
<1>4. 0 \in agree /\ agree \subseteq 0 .. room
  BY <1>2
<1>5. Max(agree) \in agree
  <2>. HIDE DEF agree
  <2>. QED  BY <1>2, <1>4, GreatestNumber
<1>6. PICK n \in agree : n = Snake(e, a, 0, 0)
  BY <1>3, <1>4, <1>5
<1>7. n \in Nat /\ n <= Len(e) /\ n <= Len(a)
  BY <1>2
<1>8. ASSUME NEW j \in 1 .. n PROVE e[j] = a[j]
  <2>1. 0 + j = j
    BY <1>7
  <2>. QED  BY <2>1
<1>. QED  BY <1>6, <1>7, <1>8 DEF AgreeUpto

LEMMA ReverseLines ==
    ASSUME NEW V, NEW s \in Lists(V)
    PROVE  /\ Len(Reverse(s)) = Len(s)
           /\ \A i \in 1 .. Len(s) : Reverse(s)[i] = s[(Len(s) - i) + 1]
<1>1. Len(s) \in Nat
  BY ListLines
<1>. QED  BY <1>1 DEF Reverse

\* A table is computed once.
LEMMA TableOnce ==
    \A e, a, start :
       With(CommonFrom(e, a), LAMBDA c : TableDiff(e, a, start, c))
         = TableDiff(e, a, start, CommonFrom(e, a))
<1>. SUFFICES ASSUME NEW e, NEW a, NEW start
              PROVE  With(CommonFrom(e, a), LAMBDA c : TableDiff(e, a, start, c))
                       = TableDiff(e, a, start, CommonFrom(e, a))
  OBVIOUS
<1>1. PICK t : t = CommonFrom(e, a)
  OBVIOUS
<1>2. With(CommonFrom(e, a), LAMBDA c : TableDiff(e, a, start, c))
        = CHOOSE r \in {TableDiff(e, a, start, v) : v \in {t}} : TRUE
  BY <1>1 DEF With
<1>3. {TableDiff(e, a, start, v) : v \in {t}} = {TableDiff(e, a, start, t)}
  OBVIOUS
<1>. QED  BY <1>1, <1>2, <1>3

\* The common start and the common end as the diff finds them, and the rest.
StartOf(e, a) == Snake(e, a, 0, 0)
TailOf(e, a) == Snake(Reverse(SubSeq(e, StartOf(e, a) + 1, Len(e))),
                      Reverse(SubSeq(a, StartOf(e, a) + 1, Len(a))), 0, 0)
MiddleOf(e, start, tail) == Piece(e, start + 1, Len(e) - tail)
PrefixRows(e, start) == [i \in 1 .. start |-> Same(e[i], i, i)]
SuffixRows(e, a, tail) ==
    [i \in 1 .. tail |-> Same(e[Len(e) - tail + i], Len(e) - tail + i, Len(a) - tail + i)]
MiddleRows(e, a, start) ==
    IF Len(e) * Len(a) > DiffMatrixLimit THEN FallbackDiff(e, a)
    ELSE With(CommonFrom(e, a), LAMBDA c : TableDiff(e, a, start, c))

LEMMA OutputInParts ==
    ASSUME NEW e, NEW a
    PROVE  OutputDiff(e, a) =
             Cat(Cat(PrefixRows(e, StartOf(e, a)),
                     MiddleRows(MiddleOf(e, StartOf(e, a), TailOf(e, a)),
                                MiddleOf(a, StartOf(e, a), TailOf(e, a)), StartOf(e, a))),
                 SuffixRows(e, a, TailOf(e, a)))
BY DEF OutputDiff, StartOf, TailOf, MiddleOf, PrefixRows, SuffixRows, MiddleRows, Piece, Cat, With

LEMMA MiddleSplits ==
    ASSUME NEW V, NEW e \in Lists(V), NEW a \in Lists(V), NEW start \in Int
    PROVE  MiddleRows(e, a, start) \in Rows(V) /\ Splits(MiddleRows(e, a, start), e, a)
<1>1. MiddleRows(e, a, start) = FallbackDiff(e, a)
      \/ MiddleRows(e, a, start) = TableDiff(e, a, start, CommonFrom(e, a))
  BY TableOnce DEF MiddleRows
<1>. QED  BY <1>1, FallbackSplits, TableSplits

LEMMA PrefixSplits ==
    ASSUME NEW V, NEW e \in Lists(V), NEW a \in Lists(V), NEW s, AgreeUpto(e, a, s)
    PROVE  /\ PrefixRows(e, s) \in Rows(V)
           /\ Splits(PrefixRows(e, s), Piece(e, 1, s), Piece(a, 1, s))
<1>1. /\ Len(e) \in Nat /\ Len(a) \in Nat /\ s \in Nat /\ s <= Len(e) /\ s <= Len(a)
      /\ \A i \in 1 .. Len(e) : e[i] \in V
  BY ListLines DEF AgreeUpto
<1>2. /\ 1 \in 1 .. Len(e) + 1 /\ s \in 1 - 1 .. Len(e) /\ s - 1 + 1 = s
      /\ 1 \in 1 .. Len(a) + 1 /\ s \in 1 - 1 .. Len(a)
  BY <1>1
<1>3. /\ Piece(e, 1, s) \in Lists(V) /\ Len(Piece(e, 1, s)) = s
      /\ \A i \in 1 .. s : Piece(e, 1, s)[i] = e[i]
  <2>1. /\ Piece(e, 1, s) \in Lists(V) /\ Len(Piece(e, 1, s)) = s - 1 + 1
        /\ \A i \in 1 .. s - 1 + 1 : Piece(e, 1, s)[i] = e[1 + i - 1]
    BY <1>2, PieceTyped
  <2>2. \A i \in 1 .. s : 1 + i - 1 = i
    BY <1>1
  <2>. QED  BY <1>2, <2>1, <2>2
<1>4. /\ Piece(a, 1, s) \in Lists(V) /\ Len(Piece(a, 1, s)) = s
      /\ \A i \in 1 .. s : Piece(a, 1, s)[i] = a[i]
  <2>1. /\ Piece(a, 1, s) \in Lists(V) /\ Len(Piece(a, 1, s)) = s - 1 + 1
        /\ \A i \in 1 .. s - 1 + 1 : Piece(a, 1, s)[i] = a[1 + i - 1]
    BY <1>2, PieceTyped
  <2>2. \A i \in 1 .. s : 1 + i - 1 = i
    BY <1>1
  <2>. QED  BY <1>2, <2>1, <2>2
<1>5. Piece(e, 1, s) = Piece(a, 1, s)
  <2>1. \A i \in 1 .. s : e[i] = a[i]
    BY DEF AgreeUpto
  <2>. QED  BY <1>3, <1>4, <2>1, ListsEqual
<1>6. \A i \in 1 .. s : /\ Same(e[i], i, i) \in Row(V)
                        /\ Same(e[i], i, i).kind = "equal" /\ Same(e[i], i, i).line = e[i]
  <2>. SUFFICES ASSUME NEW i \in 1 .. s
                PROVE  /\ Same(e[i], i, i) \in Row(V)
                       /\ Same(e[i], i, i).kind = "equal" /\ Same(e[i], i, i).line = e[i]
    OBVIOUS
  <2>1. e[i] \in V /\ i \in Int
    BY <1>1
  <2>. QED  BY <2>1 DEF Same, Row
<1>7. PrefixRows(e, s) \in Rows(V) /\ Len(PrefixRows(e, s)) = s
      /\ \A i \in 1 .. s : PrefixRows(e, s)[i] = Same(e[i], i, i)
  BY <1>1, <1>6 DEF PrefixRows, Rows, Lists
<1>8. /\ Plain("added", PrefixRows(e, s), Piece(e, 1, s))
      /\ Plain("removed", PrefixRows(e, s), Piece(e, 1, s))
  BY <1>3, <1>6, <1>7 DEF Plain
<1>. QED  BY <1>3, <1>5, <1>7, <1>8, TextPlain DEF Splits

\* The two texts agree on their last n lines, which are behind the first s.
AgreeFrom(e, a, s, n) ==
    /\ n \in Nat /\ n <= Len(e) - s /\ n <= Len(a) - s
    /\ \A i \in 1 .. n : e[Len(e) - n + i] = a[Len(a) - n + i]

LEMMA SuffixSplits ==
    ASSUME NEW V, NEW e \in Lists(V), NEW a \in Lists(V), NEW s \in Nat, NEW n,
           AgreeFrom(e, a, s, n)
    PROVE  /\ SuffixRows(e, a, n) \in Rows(V)
           /\ Splits(SuffixRows(e, a, n), Piece(e, Len(e) - n + 1, Len(e)),
                                          Piece(a, Len(a) - n + 1, Len(a)))
<1>. DEFINE p == Len(e) - n + 1
            q == Len(a) - n + 1
            E == Piece(e, p, Len(e))
            A == Piece(a, q, Len(a))
<1>1. /\ Len(e) \in Nat /\ Len(a) \in Nat /\ n \in Nat /\ n <= Len(e) /\ n <= Len(a)
      /\ \A i \in 1 .. Len(e) : e[i] \in V
  BY ListLines DEF AgreeFrom
<1>2. /\ p \in 1 .. Len(e) + 1 /\ Len(e) \in p - 1 .. Len(e) /\ Len(e) - p + 1 = n
      /\ q \in 1 .. Len(a) + 1 /\ Len(a) \in q - 1 .. Len(a) /\ Len(a) - q + 1 = n
      /\ \A i \in 1 .. n : p + i - 1 = Len(e) - n + i /\ q + i - 1 = Len(a) - n + i
      /\ \A i \in 1 .. n : Len(e) - n + i \in 1 .. Len(e) /\ Len(a) - n + i \in Int
  BY <1>1
<1>3. /\ E \in Lists(V) /\ Len(E) = n
      /\ \A i \in 1 .. n : E[i] = e[Len(e) - n + i]
  <2>. HIDE DEF p
  <2>0. p \in 1 .. Len(e) + 1 /\ Len(e) \in p - 1 .. Len(e)
    BY <1>2
  <2>1. /\ E \in Lists(V) /\ Len(E) = Len(e) - p + 1
        /\ \A i \in 1 .. Len(e) - p + 1 : E[i] = e[p + i - 1]
    BY <2>0, PieceTyped
  <2>. QED  BY <1>2, <2>1
<1>4. /\ A \in Lists(V) /\ Len(A) = n
      /\ \A i \in 1 .. n : A[i] = a[Len(a) - n + i]
  <2>. HIDE DEF q
  <2>0. q \in 1 .. Len(a) + 1 /\ Len(a) \in q - 1 .. Len(a)
    BY <1>2
  <2>1. /\ A \in Lists(V) /\ Len(A) = Len(a) - q + 1
        /\ \A i \in 1 .. Len(a) - q + 1 : A[i] = a[q + i - 1]
    BY <2>0, PieceTyped
  <2>. QED  BY <1>2, <2>1
<1>. HIDE DEF E, A
<1>5. E = A
  <2>1. \A i \in 1 .. n : e[Len(e) - n + i] = a[Len(a) - n + i]
    BY DEF AgreeFrom
  <2>. QED  BY <1>3, <1>4, <2>1, ListsEqual
<1>. DEFINE At(i) == Same(e[Len(e) - n + i], Len(e) - n + i, Len(a) - n + i)
<1>6. \A i \in 1 .. n : At(i) \in Row(V) /\ At(i).kind = "equal" /\ At(i).line = E[i]
  <2>. SUFFICES ASSUME NEW i \in 1 .. n
                PROVE  At(i) \in Row(V) /\ At(i).kind = "equal" /\ At(i).line = E[i]
    OBVIOUS
  <2>1. PICK k \in 1 .. Len(e) : k = Len(e) - n + i
    BY <1>2
  <2>2. PICK l \in Int : l = Len(a) - n + i
    BY <1>2
  <2>3. At(i) = Same(e[k], k, l) /\ e[k] \in V /\ E[i] = e[k]
    BY <1>1, <1>3, <2>1, <2>2
  <2>4. /\ Same(e[k], k, l) \in Row(V) /\ Same(e[k], k, l).kind = "equal"
        /\ Same(e[k], k, l).line = e[k]
    BY <1>1, <2>3 DEF Same, Row
  <2>. QED  BY <2>3, <2>4
<1>7. SuffixRows(e, a, n) = [i \in 1 .. n |-> At(i)]
  BY DEF SuffixRows
<1>. HIDE DEF At
<1>8. SuffixRows(e, a, n) \in Rows(V) /\ Len(SuffixRows(e, a, n)) = n
      /\ \A i \in 1 .. n : SuffixRows(e, a, n)[i] = At(i)
  BY <1>1, <1>6, <1>7 DEF Rows, Lists
<1>9. Plain("added", SuffixRows(e, a, n), E) /\ Plain("removed", SuffixRows(e, a, n), E)
  BY <1>3, <1>6, <1>8 DEF Plain
<1>10. Splits(SuffixRows(e, a, n), E, A)
  BY <1>3, <1>5, <1>8, <1>9, TextPlain DEF Splits
<1>. QED  BY <1>8, <1>10 DEF E, A

LEMMA TailAgrees ==
    ASSUME NEW V, NEW e \in Lists(V), NEW a \in Lists(V)
    PROVE  /\ AgreeUpto(e, a, StartOf(e, a))
           /\ AgreeFrom(e, a, StartOf(e, a), TailOf(e, a))
<1>1. Len(e) \in Nat /\ Len(a) \in Nat
  BY ListLines
<1>2. PICK s : s = StartOf(e, a)
  OBVIOUS
<1>3. AgreeUpto(e, a, s)
  BY <1>1, <1>2, SnakeAgrees DEF StartOf
<1>4. s \in Nat /\ s <= Len(e) /\ s <= Len(a)
  BY <1>3 DEF AgreeUpto
<1>. DEFINE E == Piece(e, s + 1, Len(e))
            A == Piece(a, s + 1, Len(a))
<1>5. /\ E \in Lists(V) /\ Len(E) = Len(e) - s
      /\ \A i \in 1 .. Len(e) - s : E[i] = e[s + i]
  <2>1. /\ s + 1 \in 1 .. Len(e) + 1 /\ Len(e) \in (s + 1) - 1 .. Len(e)
        /\ Len(e) - (s + 1) + 1 = Len(e) - s
        /\ \A i \in 1 .. Len(e) - s : (s + 1) + i - 1 = s + i
    BY <1>1, <1>4
  <2>2. PICK p : p = s + 1
    OBVIOUS
  <2>3. e \in Lists(V) /\ p \in 1 .. Len(e) + 1 /\ Len(e) \in p - 1 .. Len(e)
    BY <2>1, <2>2
  <2>4. /\ Piece(e, p, Len(e)) \in Lists(V) /\ Len(Piece(e, p, Len(e))) = Len(e) - p + 1
        /\ \A i \in 1 .. Len(e) - p + 1 : Piece(e, p, Len(e))[i] = e[p + i - 1]
    BY <2>3, PieceTyped, Zenon
  <2>. QED  BY <2>1, <2>2, <2>4
<1>6. /\ A \in Lists(V) /\ Len(A) = Len(a) - s
      /\ \A i \in 1 .. Len(a) - s : A[i] = a[s + i]
  <2>1. /\ s + 1 \in 1 .. Len(a) + 1 /\ Len(a) \in (s + 1) - 1 .. Len(a)
        /\ Len(a) - (s + 1) + 1 = Len(a) - s
        /\ \A i \in 1 .. Len(a) - s : (s + 1) + i - 1 = s + i
    BY <1>1, <1>4
  <2>2. PICK p : p = s + 1
    OBVIOUS
  <2>3. a \in Lists(V) /\ p \in 1 .. Len(a) + 1 /\ Len(a) \in p - 1 .. Len(a)
    BY <2>1, <2>2
  <2>4. /\ Piece(a, p, Len(a)) \in Lists(V) /\ Len(Piece(a, p, Len(a))) = Len(a) - p + 1
        /\ \A i \in 1 .. Len(a) - p + 1 : Piece(a, p, Len(a))[i] = a[p + i - 1]
    BY <2>3, PieceTyped, Zenon
  <2>. QED  BY <2>1, <2>2, <2>4
<1>7. PICK n : n = TailOf(e, a)
  OBVIOUS
<1>8. n = Snake(Reverse(E), Reverse(A), 0, 0)
  BY <1>2, <1>7 DEF TailOf, Piece
<1>. HIDE DEF E, A
<1>9. /\ Len(Reverse(E)) = Len(E) /\ \A i \in 1 .. Len(E) : Reverse(E)[i] = E[(Len(E) - i) + 1]
      /\ Len(Reverse(A)) = Len(A) /\ \A i \in 1 .. Len(A) : Reverse(A)[i] = A[(Len(A) - i) + 1]
  BY <1>5, <1>6, ReverseLines
<1>10. Len(E) \in Nat /\ Len(A) \in Nat
  BY <1>5, <1>6, ListLines
<1>11. AgreeUpto(Reverse(E), Reverse(A), n)
  BY <1>8, <1>9, <1>10, SnakeAgrees
<1>12. /\ n \in Nat /\ n <= Len(e) - s /\ n <= Len(a) - s
       /\ \A j \in 1 .. n : Reverse(E)[j] = Reverse(A)[j]
  BY <1>5, <1>6, <1>9, <1>11 DEF AgreeUpto
<1>13. ASSUME NEW i \in 1 .. n PROVE e[Len(e) - n + i] = a[Len(a) - n + i]
  <2>1. PICK j : j = n - i + 1
    OBVIOUS
  <2>2. j \in 1 .. n /\ j \in 1 .. Len(E) /\ j \in 1 .. Len(A)
    BY <1>1, <1>4, <1>5, <1>6, <1>12, <2>1
  <2>3. PICK x : x = (Len(E) - j) + 1
    OBVIOUS
  <2>4. PICK y : y = (Len(A) - j) + 1
    OBVIOUS
  <2>5. E[x] = A[y]
    BY <1>9, <1>12, <2>2, <2>3, <2>4
  <2>6. /\ x \in 1 .. Len(e) - s /\ s + x = Len(e) - n + i
        /\ y \in 1 .. Len(a) - s /\ s + y = Len(a) - n + i
    BY <1>1, <1>4, <1>5, <1>6, <1>12, <2>1, <2>2, <2>3, <2>4
  <2>7. E[x] = e[s + x] /\ A[y] = a[s + y]
    BY <1>5, <1>6, <2>6
  <2>. QED  BY <2>5, <2>6, <2>7
<1>14. AgreeFrom(e, a, s, n)
  BY <1>12, <1>13 DEF AgreeFrom
<1>. QED  BY <1>2, <1>3, <1>7, <1>14

\* The three parts of the diff are the three parts of each text.
LEMMA OutputSplits ==
    ASSUME NEW V, NEW e \in Lists(V), NEW a \in Lists(V)
    PROVE  OutputDiff(e, a) \in Rows(V) /\ Splits(OutputDiff(e, a), e, a)
<1>1. PICK s : s = StartOf(e, a)
  OBVIOUS
<1>2. PICK t : t = TailOf(e, a)
  OBVIOUS
<1>3. AgreeUpto(e, a, s) /\ AgreeFrom(e, a, s, t)
  BY <1>1, <1>2, TailAgrees
<1>4. /\ Len(e) \in Nat /\ Len(a) \in Nat /\ s \in Nat /\ t \in Nat
      /\ t <= Len(e) - s /\ t <= Len(a) - s /\ s <= Len(e) /\ s <= Len(a)
  BY <1>3, ListLines DEF AgreeUpto, AgreeFrom
<1>5. PICK x : x = Len(e) - t
  OBVIOUS
<1>6. PICK y : y = Len(a) - t
  OBVIOUS
<1>7. /\ 1 \in 1 .. Len(e) + 1 /\ s \in 1 - 1 .. Len(e) /\ x \in s .. Len(e)
      /\ 1 \in 1 .. Len(a) + 1 /\ s \in 1 - 1 .. Len(a) /\ y \in s .. Len(a)
      /\ x \in 1 - 1 .. Len(e) /\ Len(e) \in x .. Len(e)
      /\ y \in 1 - 1 .. Len(a) /\ Len(a) \in y .. Len(a)
      /\ s + 1 \in 1 .. Len(e) + 1 /\ x \in (s + 1) - 1 .. Len(e)
      /\ s + 1 \in 1 .. Len(a) + 1 /\ y \in (s + 1) - 1 .. Len(a)
  BY <1>4, <1>5, <1>6
<1>. DEFINE E == MiddleOf(e, s, t)
            A == MiddleOf(a, s, t)
            P == PrefixRows(e, s)
            M == MiddleRows(E, A, s)
            S == SuffixRows(e, a, t)
<1>8. OutputDiff(e, a) = Cat(Cat(P, M), S)
  BY <1>1, <1>2, OutputInParts
<1>9. E = Piece(e, s + 1, x) /\ A = Piece(a, s + 1, y)
  BY <1>5, <1>6 DEF MiddleOf
<1>10. E \in Lists(V) /\ A \in Lists(V)
  <2>1. PICK p : p = s + 1
    OBVIOUS
  <2>2. Piece(e, p, x) \in Lists(V) /\ Piece(a, p, y) \in Lists(V)
    BY <1>7, <2>1, PieceTyped
  <2>. QED  BY <1>9, <2>1, <2>2
<1>. HIDE DEF E, A
<1>11. P \in Rows(V) /\ Splits(P, Piece(e, 1, s), Piece(a, 1, s))
  BY <1>3, PrefixSplits
<1>12. M \in Rows(V) /\ Splits(M, E, A)
  <2>1. s \in Int
    BY <1>4
  <2>. QED  BY <1>10, <2>1, MiddleSplits
<1>13. S \in Rows(V) /\ Splits(S, Piece(e, x + 1, Len(e)), Piece(a, y + 1, Len(a)))
  BY <1>3, <1>4, <1>5, <1>6, SuffixSplits
<1>. HIDE DEF P, M, S
<1>14. Cat(P, M) \in Rows(V) /\ Cat(Cat(P, M), S) \in Rows(V)
  BY <1>11, <1>12, <1>13, ListsJoin DEF Rows
<1>15. Splits(Cat(P, M), Cat(Piece(e, 1, s), E), Cat(Piece(a, 1, s), A))
  BY <1>11, <1>12, SplitCat
<1>16. Splits(Cat(Cat(P, M), S), Cat(Cat(Piece(e, 1, s), E), Piece(e, x + 1, Len(e))),
                                 Cat(Cat(Piece(a, 1, s), A), Piece(a, y + 1, Len(a))))
  BY <1>13, <1>14, <1>15, SplitCat
<1>17. Cat(Piece(e, 1, s), E) = Piece(e, 1, x) /\ Cat(Piece(a, 1, s), A) = Piece(a, 1, y)
  <2>1. Piece(e, 1, x) = Cat(Piece(e, 1, s), Piece(e, s + 1, x))
    BY <1>7, PieceSplit
  <2>2. Piece(a, 1, y) = Cat(Piece(a, 1, s), Piece(a, s + 1, y))
    BY <1>7, PieceSplit
  <2>. QED  BY <1>9, <2>1, <2>2
<1>18. /\ Cat(Piece(e, 1, x), Piece(e, x + 1, Len(e))) = e
       /\ Cat(Piece(a, 1, y), Piece(a, y + 1, Len(a))) = a
  <2>1. Piece(e, 1, Len(e)) = Cat(Piece(e, 1, x), Piece(e, x + 1, Len(e)))
    BY <1>7, PieceSplit
  <2>2. Piece(a, 1, Len(a)) = Cat(Piece(a, 1, y), Piece(a, y + 1, Len(a)))
    BY <1>7, PieceSplit
  <2>. QED  BY <2>1, <2>2, PieceEnds
<1>. QED  BY <1>8, <1>14, <1>16, <1>17, <1>18

\* The table of expected and actual output (buildOutputDiff) loses and invents
\* no line, for any two texts and any limit: without its added rows it is the
\* expected output, without its removed rows the actual one.
THEOREM NoLineIsLost ==
    \A V : \A expected, actual \in Seq(V) :
       /\ OutputDiff(expected, actual) \in Seq(Row(V))
       /\ TextWithout("added", OutputDiff(expected, actual)) = expected
       /\ TextWithout("removed", OutputDiff(expected, actual)) = actual
<1>. SUFFICES ASSUME NEW V, NEW e \in Seq(V), NEW a \in Seq(V)
              PROVE  /\ OutputDiff(e, a) \in Seq(Row(V))
                     /\ TextWithout("added", OutputDiff(e, a)) = e
                     /\ TextWithout("removed", OutputDiff(e, a)) = a
  OBVIOUS
<1>1. e \in Lists(V) /\ a \in Lists(V)
  BY DEF Lists
<1>. QED  BY <1>1, OutputSplits DEF Splits, Rows, Lists

-----------------------------------------------------------------------------
(* The registries behind the trust cases                                   *)

\* Of fixtures that load, every one is served alone under its identity, with
\* the texts that are on disk (acceptance-fixtures.ts), whatever is registered
\* and whatever the disk holds.
THEOREM FixturesAreGenuine ==
    \A fixtures, disk : FixturesLoad(fixtures, disk) =>
       \A i \in DOMAIN fixtures :
          /\ GetFixture(fixtures, fixtures[i].fixtureId) =
               {[summary |-> SummariseFixture(fixtures[i]),
                 source |-> disk[fixtures[i].source.path],
                 expected |-> {disk[ref.path] : ref \in fixtures[i].expected}]}
          /\ fixtures[i].expected = {} => fixtures[i].oracle # "static-fixture"
<1>. SUFFICES ASSUME NEW fixtures, NEW disk, FixturesLoad(fixtures, disk), NEW i \in DOMAIN fixtures
              PROVE  /\ GetFixture(fixtures, fixtures[i].fixtureId) =
                          {[summary |-> SummariseFixture(fixtures[i]),
                            source |-> disk[fixtures[i].source.path],
                            expected |-> {disk[ref.path] : ref \in fixtures[i].expected}]}
                     /\ fixtures[i].expected = {} => fixtures[i].oracle # "static-fixture"
  OBVIOUS
<1>. DEFINE Served(f) == [summary |-> SummariseFixture(f), source |-> f.source.content,
                          expected |-> {ref.content : ref \in f.expected}]
<1>1. \A j \in DOMAIN fixtures : fixtures[j].fixtureId = fixtures[i].fixtureId => j = i
  <2>1. IsInjective([j \in DOMAIN fixtures |-> fixtures[j].fixtureId])
    BY DEF FixturesLoad
  <2>. QED  BY <2>1 DEF IsInjective
<1>2. {g \in ToSet(fixtures) : g.fixtureId = fixtures[i].fixtureId} = {fixtures[i]}
  BY <1>1 DEF ToSet
<1>3. GetFixture(fixtures, fixtures[i].fixtureId) = {Served(fixtures[i])}
  BY <1>2 DEF GetFixture
<1>4. /\ fixtures[i].source.content = disk[fixtures[i].source.path]
      /\ \A ref \in fixtures[i].expected : ref.content = disk[ref.path]
  BY DEF FixturesLoad, VerifyArtifactOnDisk
<1>5. {ref.content : ref \in fixtures[i].expected} = {disk[ref.path] : ref \in fixtures[i].expected}
  BY <1>4
<1>6. fixtures[i].expected = {} => fixtures[i].oracle # "static-fixture"
  BY DEF FixturesLoad, ParsesFixtureRules
<1>. QED  BY <1>3, <1>4, <1>5, <1>6

LEMMA OneElement ==
    ASSUME NEW S, IsFiniteSet(S), Cardinality(S) = 1 PROVE \E x : S = {x}
BY FS_Singleton

LEMMA FewElements ==
    ASSUME NEW S, \A x, y \in S : x = y PROVE Cardinality(S) <= 1
<1>1. CASE S = {}
  BY <1>1, FS_EmptySet
<1>2. CASE S # {}
  <2>1. PICK x \in S : TRUE
    BY <1>2
  <2>2. S = {x}
    BY <2>1
  <2>3. Cardinality({x}) = 1
    BY FS_Singleton
  <2>. QED  BY <2>2, <2>3
<1>. QED  BY <1>1, <1>2

\* What is answered of a program from a catalogue, with any saved preference,
\* and for a submission that names any case: as CatalogIsConsistent says it.
AnswersFit(cases, fixtures, p, saved, id, internals) ==
    LET answer == TrustCasesAnswer(cases, p, saved)
        ids == {c.trustCaseId : c \in answer.list}
        chosen == SelectedTrustCase(cases, [trustCaseId |-> id, programId |-> p,
                                            internals |-> internals])
    IN  /\ Cardinality(answer.default) = 1
        /\ answer.default \cup answer.saved \subseteq ids
        /\ chosen # {} <=> internals = {} /\ PreferenceAccepted(cases, p, id)
        /\ Cardinality(chosen) <= 1 /\ chosen \subseteq answer.list
        /\ \A c \in chosen : GetFixture(fixtures, c.fixture) # {}

LEMMA CasesFound ==
    ASSUME NEW cases, NEW program
    PROVE  /\ \A c : c \in CaseList(cases, program) <=>
                 \E i \in DOMAIN cases : cases[i].programId = program /\ c = Summarize(cases[i])
           /\ \A c, id : c \in GetCase(cases, id) <=>
                 \E i \in DOMAIN cases : cases[i].trustCaseId = id /\ c = Summarize(cases[i])
           /\ \A c : c \in DefaultForProgram(cases, program) <=>
                 \E i \in DefaultsOf(cases, program) : c = Summarize(cases[i])
BY DEF CaseList, GetCase, DefaultForProgram, ToSet

LEMMA Summaries ==
    \A t : /\ Summarize(t).trustCaseId = t.trustCaseId
           /\ Summarize(t).programId = t.programId
           /\ Summarize(t).fixture = t.fixture
BY DEF Summarize

\* Whatever catalogue loads serves answers that fit together (trust-cases.ts and
\* the trust-case routes of server.ts).
THEOREM CatalogsFit ==
    ASSUME NEW V, NEW cases \in Seq(V), NEW fixtures, NEW disk,
           CatalogLoads(cases, fixtures, disk)
    PROVE  \A p \in Programs(cases) : \A saved, id, internals :
              AnswersFit(cases, fixtures, p, saved, id, internals)
<1>. SUFFICES ASSUME NEW p \in Programs(cases), NEW saved, NEW id, NEW internals
              PROVE  AnswersFit(cases, fixtures, p, saved, id, internals)
  OBVIOUS
<1>. DEFINE answer == TrustCasesAnswer(cases, p, saved)
            ids == {c.trustCaseId : c \in answer.list}
            request == [trustCaseId |-> id, programId |-> p, internals |-> internals]
            chosen == SelectedTrustCase(cases, request)
<1>1. /\ answer.list = CaseList(cases, p)
      /\ answer.default = {c.trustCaseId : c \in DefaultForProgram(cases, p)}
      /\ answer.saved = SavedCase(cases, p, saved)
  BY DEF TrustCasesAnswer
<1>2. PICK d : DefaultsOf(cases, p) = {d}
  <2>1. IsFiniteSet(DOMAIN cases)
    BY LenProperties, FS_Interval
  <2>2. IsFiniteSet(DefaultsOf(cases, p))
    BY <2>1, FS_Subset DEF DefaultsOf
  <2>3. Cardinality(DefaultsOf(cases, p)) = 1
    BY DEF CatalogLoads, OneDefaultEach
  <2>. QED  BY <2>2, <2>3, OneElement
<1>3. d \in DOMAIN cases /\ cases[d].programId = p
  BY <1>2 DEF DefaultsOf
<1>4. answer.default = {cases[d].trustCaseId}
  BY <1>1, <1>2, CasesFound, Summaries
<1>5. Cardinality(answer.default) = 1
  BY <1>4, FS_Singleton
<1>6. \A i \in DOMAIN cases : cases[i].programId = p => cases[i].trustCaseId \in ids
  <2>. SUFFICES ASSUME NEW i \in DOMAIN cases, cases[i].programId = p
                PROVE  cases[i].trustCaseId \in ids
    OBVIOUS
  <2>1. Summarize(cases[i]) \in answer.list
    BY <1>1, CasesFound
  <2>2. Summarize(cases[i]).trustCaseId \in ids
    BY <2>1
  <2>. QED  BY <2>2, Summaries
<1>7. answer.saved \subseteq ids
  <2>. SUFFICES ASSUME NEW x \in SavedCase(cases, p, saved) PROVE x \in ids
    BY <1>1
  <2>1. PICK c : \E n \in saved : c \in GetCase(cases, n) /\ c.programId = p /\ x = c.trustCaseId
    BY DEF SavedCase
  <2>2. PICK i \in DOMAIN cases : c = Summarize(cases[i])
    BY <2>1, CasesFound
  <2>. QED  BY <1>6, <2>1, <2>2, Summaries
<1>8. answer.default \cup answer.saved \subseteq ids
  BY <1>3, <1>4, <1>6, <1>7
<1>. HIDE DEF answer, ids
<1>9. chosen = IF internals # {} THEN {} ELSE {c \in GetCase(cases, id) : c.programId = p}
  BY DEF SelectedTrustCase, ForbiddenTrustCaseTransformFields
<1>. HIDE DEF chosen
<1>10. chosen # {} <=> internals = {} /\ PreferenceAccepted(cases, p, id)
  BY <1>9 DEF PreferenceAccepted
<1>11. \A c \in chosen : \E i \in DOMAIN cases :
          cases[i].trustCaseId = id /\ cases[i].programId = p /\ c = Summarize(cases[i])
  BY <1>9, CasesFound, Summaries
<1>12. Cardinality(chosen) <= 1
  <2>1. IsInjective([i \in DOMAIN cases |-> cases[i].trustCaseId])
    BY DEF CatalogLoads
  <2>2. \A i, j \in DOMAIN cases : cases[i].trustCaseId = cases[j].trustCaseId => i = j
    BY <2>1 DEF IsInjective
  <2>3. \A x, y \in chosen : x = y
    BY <1>11, <2>2
  <2>. QED  BY <2>3, FewElements
<1>13. chosen \subseteq answer.list
  BY <1>1, <1>11, CasesFound
<1>14. ASSUME NEW c \in chosen PROVE GetFixture(fixtures, c.fixture) # {}
  <2>1. PICK i \in DOMAIN cases : c = Summarize(cases[i])
    BY <1>11
  <2>2. RefersToFixture(cases[i], FixtureList(fixtures))
    BY DEF CatalogLoads, ToSet
  <2>3. PICK k \in DOMAIN fixtures : fixtures[k].fixtureId = cases[i].fixture
    BY <2>2 DEF RefersToFixture, FixtureList, SummariseFixture
  <2>4. fixtures[k] \in {g \in ToSet(fixtures) : g.fixtureId = c.fixture}
    BY <2>1, <2>3, Summaries DEF ToSet
  <2>. QED  BY <2>4 DEF GetFixture
<1>. QED  BY <1>5, <1>8, <1>10, <1>12, <1>13, <1>14 DEF AnswersFit, answer, ids, chosen, request

\* An entry with one field changed has the fields of the entry, each as it was
\* or as the change says.
LEMMA ChangedFields ==
    ASSUME NEW base, NEW changes, NEW g \in Changed(base, changes)
    PROVE  \A f \in DOMAIN base : g[f] = base[f] \/ g[f] \in changes[f]
<1>1. PICK h \in DOMAIN base : \E v \in changes[h] : g = [base EXCEPT ![h] = v]
  BY DEF Changed
<1>2. PICK v \in changes[h] : g = [base EXCEPT ![h] = v]
  BY <1>1
<1>3. \A f \in DOMAIN base : g[f] = IF f = h THEN v ELSE base[f]
  BY <1>2
<1>. QED  BY <1>2, <1>3

LEMMA ChangedDomain ==
    ASSUME NEW base, NEW changes, NEW g \in Changed(base, changes)
    PROVE  DOMAIN g = DOMAIN base
<1>1. PICK h \in DOMAIN base : \E v \in changes[h] : g = [base EXCEPT ![h] = v]
  BY DEF Changed
<1>. QED  BY <1>1

\* The registries of the bounded inputs: the first fixture with at most two
\* fields changed, and the second as it is.
LEMMA FixtureRegistry ==
    ASSUME NEW fixtures \in FixtureRegistries
    PROVE  /\ fixtures = <<fixtures[1], GoodFixture(2)>>
           /\ fixtures[1].fixtureId \in 1 .. 2
           /\ fixtures[1].source \in {Ref("source", 1), Ref("source", 2), Ref("elsewhere", 1)}
           /\ fixtures[1].expected \in {{}, {Ref("output", 2)}, {Ref("output", 1)}}
<1>0. PICK g \in Changed(GoodFixture(1), FixtureChanges) :
         \E f \in Changed(g, FixtureChanges) : fixtures = <<f, GoodFixture(2)>>
  BY DEF FixtureRegistries
<1>1. PICK f \in Changed(g, FixtureChanges) : fixtures = <<f, GoodFixture(2)>>
  BY <1>0
<1>2. fixtures[1] = f
  BY <1>1
<1>3. DOMAIN g = DOMAIN GoodFixture(1)
  BY ChangedDomain
<1>4. \A x \in DOMAIN GoodFixture(1) :
         f[x] = GoodFixture(1)[x] \/ f[x] \in FixtureChanges[x]
  <2>1. \A x \in DOMAIN GoodFixture(1) :
           g[x] = GoodFixture(1)[x] \/ g[x] \in FixtureChanges[x]
    BY ChangedFields
  <2>2. \A x \in DOMAIN g : f[x] = g[x] \/ f[x] \in FixtureChanges[x]
    BY ChangedFields
  <2>. QED  BY <1>3, <2>1, <2>2
<1>5. {"fixtureId", "source", "expected"} \subseteq DOMAIN GoodFixture(1)
  BY DEF GoodFixture
<1>6. /\ GoodFixture(1)["fixtureId"] = 1
      /\ GoodFixture(1)["source"] = Ref("source", 1)
      /\ GoodFixture(1)["expected"] = {Ref("output", 2)}
  BY DEF GoodFixture
<1>7. /\ FixtureChanges["fixtureId"] = 1 .. 2
      /\ FixtureChanges["source"] = {Ref("source", 1), Ref("source", 2), Ref("elsewhere", 1)}
      /\ FixtureChanges["expected"] = {{}, {Ref("output", 2)}, {Ref("output", 1)}}
  BY DEF FixtureChanges
<1>8. f["fixtureId"] \in 1 .. 2
  BY <1>4, <1>5, <1>6, <1>7
<1>9. f["source"] \in {Ref("source", 1), Ref("source", 2), Ref("elsewhere", 1)}
  BY <1>4, <1>5, <1>6, <1>7
<1>10. f["expected"] \in {{}, {Ref("output", 2)}, {Ref("output", 1)}}
  BY <1>4, <1>5, <1>6, <1>7
<1>. QED  BY <1>1, <1>2, <1>8, <1>9, <1>10

LEMMA OnDiskOnly ==
    /\ DOMAIN Disk = {"source", "output"}
    /\ Disk["source"] = 1 /\ Disk["output"] = 2
BY DEF Disk

\* The two registries of the bounded inputs are served as CatalogIsConsistent
\* says, whatever in them is changed.
THEOREM RegistriesFit == CatalogIsConsistent
<1>1. ASSUME NEW fixtures \in FixtureRegistries, FixturesLoad(fixtures, Disk), NEW id \in 1 .. 2
      PROVE  \E f \in GetFixture(fixtures, id) :
                /\ f.source = Disk["source"]
                /\ f.expected \subseteq {Disk["output"]}
                /\ f.expected = {} => fixtures[id].oracle # "static-fixture"
  <2>1. fixtures = <<fixtures[1], GoodFixture(2)>>
    BY FixtureRegistry
  <2>2. DOMAIN fixtures = {1, 2} /\ fixtures[2] = GoodFixture(2)
    BY <2>1
  <2>3. /\ GoodFixture(2).fixtureId = 2
        /\ GoodFixture(2).source = Ref("source", 1)
        /\ GoodFixture(2).expected = {Ref("output", 2)}
    BY DEF GoodFixture
  <2>4. \A i \in DOMAIN fixtures : fixtures[i].fixtureId = i
    <3>1. IsInjective([i \in DOMAIN fixtures |-> fixtures[i].fixtureId])
      BY <1>1 DEF FixturesLoad
    <3>2. \A i, j \in DOMAIN fixtures : fixtures[i].fixtureId = fixtures[j].fixtureId => i = j
      BY <3>1 DEF IsInjective
    <3>3. fixtures[1].fixtureId # fixtures[2].fixtureId
      BY <2>2, <3>2
    <3>. QED  BY <2>2, <2>3, <3>3, FixtureRegistry
  <2>5. id \in DOMAIN fixtures /\ fixtures[id].fixtureId = id
    BY <2>2, <2>4
  <2>6. /\ fixtures[id].source.path \in DOMAIN Disk
        /\ \A ref \in fixtures[id].expected : ref.path \in DOMAIN Disk
    BY <1>1, <2>5 DEF FixturesLoad, VerifyArtifactOnDisk
  <2>7. /\ fixtures[id].source \in {Ref("source", 1), Ref("source", 2), Ref("elsewhere", 1)}
        /\ fixtures[id].expected \in {{}, {Ref("output", 2)}, {Ref("output", 1)}}
    BY <2>2, <2>3, <2>5, FixtureRegistry
  <2>8. fixtures[id].source.path = "source"
    BY <2>6, <2>7, OnDiskOnly DEF Ref
  <2>9. \A ref \in fixtures[id].expected : ref.path = "output"
    BY <2>7 DEF Ref
  <2>10. PICK f \in GetFixture(fixtures, id) :
            /\ f.source = Disk[fixtures[id].source.path]
            /\ f.expected = {Disk[ref.path] : ref \in fixtures[id].expected}
            /\ fixtures[id].expected = {} => fixtures[id].oracle # "static-fixture"
    <3>1. /\ GetFixture(fixtures, fixtures[id].fixtureId) =
               {[summary |-> SummariseFixture(fixtures[id]),
                 source |-> Disk[fixtures[id].source.path],
                 expected |-> {Disk[ref.path] : ref \in fixtures[id].expected}]}
          /\ fixtures[id].expected = {} => fixtures[id].oracle # "static-fixture"
      BY <1>1, <2>5, FixturesAreGenuine, Zenon
    <3>. QED  BY <2>5, <3>1
  <2>11. f.expected \subseteq {Disk["output"]}
    BY <2>9, <2>10
  <2>12. f.expected = {} => fixtures[id].expected = {}
    BY <2>10
  <2>. QED  BY <2>8, <2>10, <2>11, <2>12
<1>2. ASSUME NEW cases \in CaseRegistries,
             CatalogLoads(cases, <<GoodFixture(1), GoodFixture(2)>>, Disk)
      PROVE  \A p \in Programs(cases) : \A saved, id, internals :
                AnswersFit(cases, <<GoodFixture(1), GoodFixture(2)>>, p, saved, id, internals)
  <2>1. PICK t, u : cases = <<t, u>>
    <3>1. PICK S : S = UNION {Changed(c, CaseChanges) :
                                c \in Changed(GoodCase(1, "P", TRUE), CaseChanges)}
      OBVIOUS
    <3>2. PICK T : T = {GoodCase(2, "P", FALSE), GoodCase(2, "Q", TRUE)}
      OBVIOUS
    <3>3. CaseRegistries = {<<t, u>> : t \in S, u \in T}
      BY <3>1, <3>2 DEF CaseRegistries
    <3>. QED  BY <3>3
  <2>2. cases \in Seq({t, u})
    BY <2>1
  <2>. QED  BY <1>2, <2>2, CatalogsFit
<1>3. ASSUME NEW cases \in CaseRegistries,
             CatalogLoads(cases, <<GoodFixture(1), GoodFixture(2)>>, Disk)
      PROVE  \A p \in Programs(cases), saved \in SUBSET (1 .. 3) :
               LET answer == TrustCasesAnswer(cases, p, saved)
                   ids == {c.trustCaseId : c \in answer.list}
               IN  /\ Cardinality(answer.default) = 1
                   /\ answer.default \cup answer.saved \subseteq ids
                   /\ \A id \in 1 .. 3, internals \in {{}, {"options"}} :
                        LET chosen == SelectedTrustCase(cases,
                                        [trustCaseId |-> id, programId |-> p,
                                         internals |-> internals])
                        IN  /\ chosen # {} <=> internals = {} /\ PreferenceAccepted(cases, p, id)
                            /\ Cardinality(chosen) <= 1 /\ chosen \subseteq answer.list
                            /\ \A c \in chosen :
                                 GetFixture(<<GoodFixture(1), GoodFixture(2)>>, c.fixture) # {}
  <2>1. \A p \in Programs(cases) : \A saved, id, internals :
           AnswersFit(cases, <<GoodFixture(1), GoodFixture(2)>>, p, saved, id, internals)
    BY <1>2, <1>3
  <2>. QED  BY <2>1 DEF AnswersFit
<1>. QED  BY <1>1, <1>3, Zenon DEF CatalogIsConsistent

-----------------------------------------------------------------------------
(* What the BFF sends and the Studio reads.  The lemmas are about objects  *)
(* with any number of damaged fields; the theorems put them together to    *)
(* the tables of StudioWire.                                               *)

\* An object with damaged fields is an object: the lemmas below are about any.
LEMMA DamagedObjects ==
    ASSUME NEW fields, NEW raw \in Damaged(fields) PROVE raw \in [fields -> Classes]
BY DEF Damaged, Classes

LEMMA NoObject ==
    \A fields \in ObjectFields : \A object \in [fields -> Nested] : object # Nothing
BY NothingAssumption

LEMMA FlatObjects ==
    \A fields \in ObjectFields : \A object \in [fields -> Classes] : object # Nothing
<1>1. Classes \subseteq Nested
  BY DEF Nested, Flat
<1>. QED  BY <1>1, NoObject

\* A reference the BFF passes on is read, but for one with an odd size
\* (normalizeOutputRef, runViews.ts).
LEMMA RefIsRead ==
    \A raw \in [RefFields -> Classes] :
       OptRef(NormalizeOutputRef(raw)) <=>
          (raw.sha256 = "fine" => ~Uneven(raw.byteSize))
<1>. SUFFICES ASSUME NEW raw \in [RefFields -> Classes]
              PROVE  OptRef(NormalizeOutputRef(raw)) <=>
                        (raw.sha256 = "fine" => ~Uneven(raw.byteSize))
  OBVIOUS
<1>. DEFINE ref == [sha256 |-> "fine", byteSize |-> AsNumber(raw.byteSize),
                    text |-> CopiedText(raw.text)]
<1>1. raw # Nothing
  BY FlatObjects DEF ObjectFields
<1>2. ref \in [RefFields -> Classes]
  BY DEF RefFields, Classes, AsNumber, CopiedText, Numbers
<1>3. ref # Nothing
  BY <1>2, FlatObjects DEF ObjectFields
<1>4. NormalizeOutputRef(raw) = IF raw.sha256 # "fine" THEN Nothing ELSE ref
  BY <1>1 DEF NormalizeOutputRef
<1>5. raw.byteSize \in Classes
  BY DEF RefFields
<1>6. IsOutputRef(ref) <=> ~Uneven(raw.byteSize)
  BY <1>5 DEF Classes, Uneven, IsOutputRef, AsNumber, CopiedText, IsString, OptCount, OptString, Numbers
<1>. QED  BY <1>3, <1>4, <1>6 DEF OptRef

\* A file of the index of the generated project (normalizeGeneratedFileRef).
LEMMA FileIsRead ==
    ASSUME NEW raw \in [FileFields -> Classes]
    PROVE  LET file == NormalizeGeneratedFileRef(raw)
           IN  (file = Nothing \/ IsGeneratedFileRef(file)) <=>
                  (raw.path = "fine" => ~Uneven(raw.byteSize))
<1>. DEFINE file == [path |-> "fine", byteSize |-> AsNumber(raw.byteSize),
                     text |-> CopiedText(raw.text)]
<1>1. file \in [FileFields -> Classes]
  BY DEF FileFields, Classes, AsNumber, CopiedText, Numbers
<1>2. file # Nothing
  BY <1>1, FlatObjects DEF ObjectFields
<1>3. NormalizeGeneratedFileRef(raw) = IF raw.path # "fine" THEN Nothing ELSE file
  BY DEF NormalizeGeneratedFileRef, IsSafeGeneratedRelpath
<1>4. raw.byteSize \in Classes
  BY DEF FileFields
<1>5. IsGeneratedFileRef(file) <=> ~Uneven(raw.byteSize)
  BY <1>4 DEF Classes, Uneven, IsGeneratedFileRef, AsNumber, CopiedText, IsString,
              OptCount, OptString, Numbers
<1>. QED  BY <1>2, <1>3, <1>5

\* An artefact of a run (normalizeRunArtifact).
LEMMA ArtifactIsRead ==
    ASSUME NEW raw \in [ArtifactFields -> Classes]
    PROVE  LET artifact == NormalizeRunArtifact(raw)
           IN  (artifact = Nothing \/ IsRunArtifactMetadata(artifact)) <=>
                  (raw.sha256 = "fine" => raw = Whole(ArtifactFields))
<1>. DEFINE artifact == [sha256 |-> "fine", byteSize |-> AsNumber(raw.byteSize),
                         text |-> CopiedText(raw.text),
                         path |-> IF IsSafeGeneratedRelpath(raw.path) THEN "fine" ELSE "none"]
<1>1. artifact \in [ArtifactFields -> Classes]
  BY DEF ArtifactFields, Classes, AsNumber, CopiedText, Numbers
<1>2. artifact # Nothing
  BY <1>1, FlatObjects DEF ObjectFields
<1>3. NormalizeRunArtifact(raw) = IF raw.sha256 # "fine" THEN Nothing ELSE artifact
  BY DEF NormalizeRunArtifact
<1>4. IsRunArtifactMetadata(artifact) <=>
         raw.byteSize = "fine" /\ raw.text = "fine" /\ raw.path = "fine"
  BY DEF IsRunArtifactMetadata, AsNumber, CopiedText, IsString, IsCount, Numbers,
         IsSafeGeneratedRelpath
<1>5. raw = Whole(ArtifactFields) <=>
         /\ raw.sha256 = "fine" /\ raw.byteSize = "fine"
         /\ raw.text = "fine" /\ raw.path = "fine"
  BY DEF Whole, ArtifactFields
<1>. QED  BY <1>2, <1>3, <1>4, <1>5

\* The content of a generated file.
LEMMA FileContentIsRead ==
    ASSUME NEW raw \in [FileContentFields -> Classes]
    PROVE  IsFileContent(NormalizeFileContent(raw)) <=> raw.byteSize # "odd"
BY DEF IsFileContent, NormalizeFileContent, AsString, IsString, IsCount

\* A diagnostic is always read (normalizeOne, diagnostics.ts).
LEMMA DiagnosticIsRead ==
    ASSUME NEW raw \in [DiagnosticFields -> Classes], NEW size \in Classes
    PROVE  LET d == NormalizeDiagnostic(raw, [Whole(RefFields) EXCEPT !.byteSize = size])
           IN  d = Nothing \/ IsDiagnostic(d)
<1>. DEFINE ref == NormalizeArtifactRef([Whole(RefFields) EXCEPT !.byteSize = size])
            d == NormalizeDiagnostic(raw, [Whole(RefFields) EXCEPT !.byteSize = size])
<1>1. OptRef(ref)
  <2>1. ref = Nothing \/ ref = [sha256 |-> "fine", byteSize |-> AsWholeNumber(size),
                                text |-> "fine"]
    BY DEF NormalizeArtifactRef, Whole, RefFields, CopiedText
  <2>. QED  BY <2>1 DEF OptRef, IsOutputRef, IsString, OptCount, OptString, AsWholeNumber
<1>. HIDE DEF ref
<1>2. CASE raw.message # "fine"
  BY <1>2 DEF NormalizeDiagnostic
<1>3. CASE raw.message = "fine"
  <2>1. PICK filePath : filePath = CopiedText(raw.filePath)
    OBVIOUS
  <2>2. d = [message |-> "fine", severity |-> "fine", code |-> AsString(raw.code),
             position |-> AsWholeNumber(raw.position), filePath |-> filePath,
             sourceKind |-> DefaultSourceKind(NormalizeSourceKind(raw.sourceKind), filePath),
             originStep |-> CopiedText(raw.originStep), artifactRef |-> ref]
    BY <1>3, <2>1 DEF NormalizeDiagnostic, NormalizeSeverity, ref
  <2>3. DefaultSourceKind(NormalizeSourceKind(raw.sourceKind), filePath) \in {"fine", "none"}
    BY DEF DefaultSourceKind, NormalizeSourceKind
  <2>4. IsDiagnostic(d)
    BY <1>1, <2>1, <2>2, <2>3
       DEF IsDiagnostic, IsDiagnosticWord, IsKnown, IsString, AsString, AsWholeNumber,
           OptNullableString, OptString, CopiedText
  <2>. QED  BY <2>4
<1>. QED  BY <1>2, <1>3

\* A step of the progress view.
LEMMA StepIsRead ==
    ASSUME NEW raw \in [StepFields -> Classes]
    PROVE  LET step == NormalizeStep(raw, Nothing)
           IN  (step = Nothing \/ IsRunProgressStep(step)) <=>
                  (raw.name = "fine" => ~Uneven(raw.stepId) /\ ~Uneven(raw.latencyMs))
<1>. DEFINE step == [name |-> "fine", stepId |-> AsNumberOrZero(raw.stepId),
                     text |-> AsString(raw.text), status |-> "fine",
                     time |-> CopiedText(raw.time),
                     diagnostic |-> SanitizeProgressDiagnostic(raw.diagnostic),
                     latencyMs |-> AsNumber(raw.latencyMs), ref |-> Nothing]
<1>1. step \in [StepFields \cup {"ref"} -> Nested]
  BY DEF StepFields, Classes, AsNumber, AsNumberOrZero, AsString, CopiedText, Numbers,
         SanitizeProgressDiagnostic, Nested, Flat
<1>2. step # Nothing
  BY <1>1, NoObject DEF ObjectFields
<1>3. NormalizeStep(raw, Nothing) = IF raw.name # "fine" THEN Nothing ELSE step
  BY DEF NormalizeStep, NormalizeOutputRef
<1>4. raw.stepId \in Classes /\ raw.latencyMs \in Classes
  BY DEF StepFields
<1>5. IsRunProgressStep(step) <=> ~Uneven(raw.stepId) /\ ~Uneven(raw.latencyMs)
  BY <1>4 DEF IsRunProgressStep, Classes, Uneven, AsNumber, AsNumberOrZero, AsString,
              CopiedText, Numbers, SanitizeProgressDiagnostic, IsString, IsCount, IsKnown,
              OptString, OptCount, OptRef
<1>. QED  BY <1>2, <1>3, <1>5

\* An event of a run.
LEMMA EventIsRead ==
    ASSUME NEW raw \in [EventFields -> Classes]
    PROVE  SanitizeUiRunEvent(raw) = Nothing \/ IsRunEvent(SanitizeUiRunEvent(raw))
BY DEF SanitizeUiRunEvent, IsRunEvent, CopiedText, OptString, IsString

\* A learning signal.
LEMMA SignalIsRead ==
    ASSUME NEW raw \in [SignalFields -> Classes]
    PROVE  LET signal == NormalizeLearningSignal(raw)
           IN  (signal = Nothing \/ IsLearningSignal(signal)) <=>
                  ({raw.key, raw.label} = {"fine"} => raw.status # "odd")
<1>. DEFINE signal == [raw EXCEPT !.count = AsNumberOrZero(@), !.text = AsString(@),
                                  !.evidenceRefs = AsStringArray(@)]
<1>1. signal \in [SignalFields -> Classes]
  BY DEF SignalFields, Classes, AsNumberOrZero, AsString, AsStringArray, Numbers
<1>2. signal # Nothing
  BY <1>1, FlatObjects DEF ObjectFields
<1>3. NormalizeLearningSignal(raw) =
         IF {raw.key, raw.label} # {"fine"} \/ raw.status \notin {"fine", "odd"}
         THEN Nothing ELSE signal
  BY DEF NormalizeLearningSignal
<1>4. {raw.key, raw.label} = {"fine"} <=> raw.key = "fine" /\ raw.label = "fine"
  OBVIOUS
<1>5. /\ signal.key = raw.key /\ signal.label = raw.label /\ signal.status = raw.status
      /\ signal.count \in Numbers /\ IsString(signal.text) /\ signal.evidenceRefs = "fine"
  BY DEF SignalFields, AsNumberOrZero, AsString, AsStringArray, Numbers, IsString
<1>. HIDE DEF signal
<1>6. ASSUME raw.key = "fine", raw.label = "fine"
      PROVE  IsLearningSignal(signal) <=> raw.status = "fine"
  BY <1>5, <1>6 DEF IsLearningSignal, IsString, IsKnown, OptString
<1>. QED  BY <1>2, <1>3, <1>4, <1>6

\* A budget of the workflow contract.
LEMMA BudgetIsRead ==
    ASSUME NEW raw \in [BudgetFields -> Classes]
    PROVE  BudgetReads(raw) <=>
              (/\ {raw.limit, raw.used} \subseteq {"fine", "odd"}
               => "odd" \notin {raw.limit, raw.used} /\ ~Uneven(raw.remaining))
<1>. DEFINE budget == [limit |-> raw.limit, used |-> raw.used,
                       remaining |-> IF raw.remaining \in Numbers THEN raw.remaining
                                     ELSE IF "odd" \in {raw.limit, raw.used} THEN "odd"
                                     ELSE "fine"]
<1>1. raw.limit \in Classes /\ raw.used \in Classes /\ raw.remaining \in Classes
  BY DEF BudgetFields
<1>2. budget \in [BudgetFields -> Classes]
  BY <1>1 DEF BudgetFields, Classes
<1>3. raw # Nothing /\ budget # Nothing
  BY <1>2, FlatObjects DEF ObjectFields
<1>4. AsBudget(raw) = IF {raw.limit, raw.used} \subseteq {"fine", "odd"} THEN budget ELSE Nothing
  BY <1>1, <1>3 DEF AsBudget, AsNumber, Numbers, Classes
<1>5. ASSUME {raw.limit, raw.used} \subseteq {"fine", "odd"}
      PROVE  IsBudget(budget) <=> "odd" \notin {raw.limit, raw.used} /\ ~Uneven(raw.remaining)
  BY <1>1, <1>5 DEF IsBudget, IsCount, Uneven, Numbers, Classes
<1>. QED  BY <1>3, <1>4, <1>5 DEF BudgetReads

LEMMA NoBudget == BudgetReads(Nothing)
BY DEF BudgetReads, AsBudget

\* A repair attempt of the workflow contract.
LEMMA AttemptIsRead ==
    ASSUME NEW raw \in [AttemptFields -> Classes]
    PROVE  LET attempt == SanitizeRepairAttempt(raw)
           IN  (attempt = Nothing \/ IsRepairAttempt(attempt)) <=>
                  (raw.repairDecision = "fine" => raw.attemptNumber # "odd")
<1>. DEFINE attempt == [attemptNumber |-> raw.attemptNumber, repairDecision |-> "fine",
                        failureCategory |-> IF raw.failureCategory = "fine" THEN "fine"
                                            ELSE "null",
                        rationale |-> IF raw.rationale = "fine" THEN "fine" ELSE "none"]
<1>1. raw.attemptNumber \in Classes
  BY DEF AttemptFields
<1>2. attempt \in [AttemptFields -> Classes]
  BY <1>1 DEF AttemptFields, Classes
<1>3. attempt # Nothing
  BY <1>2, FlatObjects DEF ObjectFields
<1>4. SanitizeRepairAttempt(raw) =
         IF raw.attemptNumber \notin {"fine", "odd"} \/ raw.repairDecision # "fine"
         THEN Nothing ELSE attempt
  BY <1>1 DEF SanitizeRepairAttempt, AsNumber, Numbers, Classes
<1>5. IsRepairAttempt(attempt) <=> raw.attemptNumber = "fine"
  BY DEF IsRepairAttempt, IsCount, IsContractWord, IsKnown, NullableString, OptString, IsString
<1>. QED  BY <1>3, <1>4, <1>5

\* An assist decision, with any budget that is read.
LEMMA AssistIsRead ==
    ASSUME NEW raw \in [AssistFields -> Classes], NEW required \in BOOLEAN,
           NEW budget, BudgetReads(budget)
    PROVE  LET d == SanitizeAssistDecision(raw, required, Whole(RefFields), budget)
           IN  d = Nothing \/ IsAssistDecision(d)
<1>. DEFINE d == SanitizeAssistDecision(raw, required, Whole(RefFields), budget)
<1>1. PICK affected : affected = SanitizeAssistArtifactRef(Whole(RefFields))
  OBVIOUS
<1>2. affected = Nothing \/ IsAssistArtifactRef(affected)
  BY <1>1 DEF SanitizeAssistArtifactRef, Whole, RefFields, CopiedText, IsAssistArtifactRef,
              OptString, OptCount, IsString
<1>3. CASE d = Nothing
  BY <1>3
<1>4. CASE d # Nothing
  <2>1. PICK role : role = IF raw.role = "fine" THEN "fine" ELSE "null"
    OBVIOUS
  <2>2. /\ d = [outcome |-> "fine", reasonCode |-> "fine", decidedAt |-> "fine",
                role |-> role, required |-> required, affected |-> affected,
                budget |-> AsBudget(budget),
                rationale |-> IF raw.rationale = "fine" THEN "fine" ELSE "null"]
        /\ role = IF required THEN "fine" ELSE "null"
    BY <1>1, <1>4, <2>1 DEF SanitizeAssistDecision
  <2>3. IsAssistDecision(d)
    BY <1>2, <2>2 DEF IsAssistDecision, IsAssistWord, IsKnown, NullableString, IsString,
                      BudgetReads
  <2>. QED  BY <2>3
<1>. QED  BY <1>3, <1>4

\* The parts of a trust summary in order.
LEMMA TrustPart ==
    /\ WholeTrust.part \in [PartFields \cup {"ref"} -> Flat]
    /\ IsTrustSummaryTrustCase(WholeTrust.part)
    /\ IsTrustSummaryCobolResult(WholeTrust.part)
    /\ IsTrustSummaryJavaResult(WholeTrust.part)
    /\ IsTrustSummaryComparison(WholeTrust.part)
    /\ IsTrustSummaryRepair(WholeTrust.part)
    /\ IsTrustSummaryEvidence(WholeTrust.part)
<1>1. PICK part : part = WithField(Whole(PartFields), "ref", Nothing)
  OBVIOUS
<1>2. part = [f \in PartFields \cup {"ref"} |-> IF f = "ref" THEN Nothing ELSE "fine"]
  BY <1>1 DEF WithField, Whole, PartFields
<1>3. WholeTrust.part = part
  BY <1>1 DEF WholeTrust, WithField, Whole, TrustFields
<1>4. part \in [PartFields \cup {"ref"} -> Flat]
  BY <1>2 DEF Flat, Classes
<1>5. part.status = "fine" /\ part.text = "fine" /\ part.optionalText = "fine" /\ part.ref = Nothing
  BY <1>2 DEF PartFields
<1>. QED  BY <1>3, <1>4, <1>5
          DEF IsTrustSummaryTrustCase, IsTrustSummaryCobolResult, IsTrustSummaryJavaResult,
              IsTrustSummaryComparison, IsTrustSummaryRepair, IsTrustSummaryEvidence,
              IsTrustWord, IsKnown, IsString, OptNullableString, OptString, OptRef

\* A trust summary, which is copied as it came.
LEMMA TrustIsRead ==
    ASSUME NEW raw \in [TrustFields -> Classes]
    PROVE  LET trust == NormalizeTrustSummary(WithField(raw, "part", WholeTrust.part))
           IN  /\ trust = Nothing <=> \A f \in TrustFields : raw[f] = "none"
               /\ (trust = Nothing \/ IsTrustSummary(trust)) <=>
                     \/ \A f \in TrustFields : raw[f] = "none"
                     \/ \A f \in TrustFields \ {"optionalAt"} : raw[f] = "fine"
<1>1. PICK part : part = WholeTrust.part
  OBVIOUS
<1>2. PICK t : t = WithField(raw, "part", part)
  OBVIOUS
<1>3. t = [f \in TrustFields \cup {"part"} |-> IF f = "part" THEN part ELSE raw[f]]
  BY <1>2 DEF WithField
<1>. DEFINE trust == [t EXCEPT !.summaryDerivedAt = CopiedText(@), !.optionalAt = CopiedText(@)]
<1>4. part \in Nested /\ Classes \subseteq Nested
  BY <1>1, TrustPart DEF Nested, Flat
<1>5. t \in [TrustFields \cup {"part"} -> Nested]
  BY <1>3, <1>4
<1>6. trust \in [TrustFields \cup {"part"} -> Nested]
  <2>1. "fine" \in Nested /\ "none" \in Nested
    BY <1>4 DEF Classes
  <2>. QED  BY <1>5, <2>1 DEF CopiedText
<1>7. t # Nothing /\ trust # Nothing
  BY <1>5, <1>6, NoObject DEF ObjectFields
<1>8. \A f \in TrustFields : t[f] = raw[f]
  BY <1>3 DEF TrustFields
<1>9. NormalizeTrustSummary(t) =
         IF \A f \in TrustFields : raw[f] = "none" THEN Nothing ELSE trust
  BY <1>7, <1>8 DEF NormalizeTrustSummary
<1>10. /\ \A f \in TrustFields \ {"summaryDerivedAt", "optionalAt"} : trust[f] = raw[f]
       /\ trust.summaryDerivedAt = CopiedText(raw.summaryDerivedAt)
       /\ trust.optionalAt = CopiedText(raw.optionalAt)
       /\ trust.part = part
  BY <1>3 DEF TrustFields
<1>. HIDE DEF trust
<1>11. IsTrustSummary(trust) <=> \A f \in TrustFields \ {"optionalAt"} : raw[f] = "fine"
  <2>1. IsTrustSummary(trust) <=>
           /\ trust.state = "fine" /\ trust.repairStatus = "fine" /\ trust.coverage = "fine"
           /\ trust.disposition = "fine" /\ trust.warningCodes = "fine"
           /\ IsString(trust.summaryDerivedAt) /\ OptNullableString(trust.optionalAt)
    BY <1>1, <1>10, TrustPart DEF IsTrustSummary, IsTrustWord, IsKnown
  <2>2. OptNullableString(trust.optionalAt)
    BY <1>10 DEF OptNullableString, OptString, IsString, CopiedText
  <2>3. IsString(trust.summaryDerivedAt) <=> raw.summaryDerivedAt = "fine"
    BY <1>10 DEF IsString, CopiedText
  <2>. QED  BY <1>10, <2>1, <2>2, <2>3 DEF TrustFields
<1>. QED  BY <1>1, <1>2, <1>7, <1>9, <1>11

\* The first place with a trust summary is the second of two.
LEMMA TrustFound ==
    \A trust : ExtractTrustSummary(<<Nothing, trust>>) = NormalizeTrustSummary(trust)
<1>. SUFFICES ASSUME NEW trust
              PROVE  ExtractTrustSummary(<<Nothing, trust>>) = NormalizeTrustSummary(trust)
  OBVIOUS
<1>. DEFINE places == <<Nothing, trust>>
            found == {i \in DOMAIN places : NormalizeTrustSummary(places[i]) # Nothing}
<1>1. DOMAIN places = {1, 2} /\ places[1] = Nothing /\ places[2] = trust
  OBVIOUS
<1>2. NormalizeTrustSummary(Nothing) = Nothing
  BY DEF NormalizeTrustSummary
<1>3. found = IF NormalizeTrustSummary(trust) # Nothing THEN {2} ELSE {}
  BY <1>1, <1>2
<1>4. (CHOOSE i \in {2} : \A j \in {2} : i <= j) = 2
  OBVIOUS
<1>5. ExtractTrustSummary(places) =
         IF found = {} THEN Nothing
         ELSE NormalizeTrustSummary(places[CHOOSE i \in found : \A j \in found : i <= j])
  BY DEF ExtractTrustSummary
<1>. HIDE DEF found
<1>. QED  BY <1>1, <1>3, <1>4, <1>5

\* What the Studio reads of a snapshot is told by four of its fields.
LEMMA ViewIsRead ==
    ASSUME NEW raw \in [ContractFields -> Classes], NEW budget, NEW attempt, NEW trust
    PROVE  LET view == Snapshot(raw, budget, attempt, trust)
               told == NormalizeTrustSummary(trust)
               tried == SanitizeRepairAttempt(attempt)
           IN  /\ IsTransformResponse(view) <=>
                     ~Uneven(raw.agentAttemptCount) /\ BudgetReads(budget)
               /\ IsRunSummary(view) <=>
                     IsTransformResponse(view) /\ (told = Nothing \/ IsTrustSummary(told))
               /\ IsWorkflowView(view) <=>
                     IsRunSummary(view) /\ (tried = Nothing \/ IsRepairAttempt(tried))
<1>. DEFINE view == Snapshot(raw, budget, attempt, trust)
<1>1. PICK assist : assist = SanitizeAssistDecision(Whole(AssistFields), TRUE,
                                                    Whole(RefFields), budget)
  OBVIOUS
<1>2. PICK told : told = NormalizeTrustSummary(trust)
  OBVIOUS
<1>3. PICK tried : tried = SanitizeRepairAttempt(attempt)
  OBVIOUS
<1>4. PICK case : case = TrustCaseSnapshot(Whole(CaseFields))
  OBVIOUS
<1>5. PICK ref : ref = SafeArtifactRef(Whole(RefFields))
  OBVIOUS
<1>6. PICK carried : carried = (raw.carriedOver = "fine" /\ raw.drift = "fine")
  OBVIOUS
<1>7. PICK failure : failure = MapFailure(raw.failureCode, raw.final)
  OBVIOUS
<1>8. view = [state |-> OrNull(raw.state), activeStep |-> OrNull(raw.activeStep),
              agentAttemptCount |-> AsNumberOrZero(raw.agentAttemptCount),
              final |-> OrNull(raw.final), failureCode |-> failure, failureMessage |-> failure,
              carriedOver |-> carried, drift |-> carried,
              budget |-> AsBudget(budget), attempt |-> tried, assist |-> assist,
              trust |-> told, case |-> case, ref |-> ref]
  BY <1>1, <1>2, <1>3, <1>4, <1>5, <1>6, <1>7, TrustFound DEF Snapshot, SnapshotFromContract
<1>9. case = Nothing \/ IsTrustCase(case)
  BY <1>4 DEF TrustCaseSnapshot, Whole, CaseFields, AsString, IsTrustCase, IsString
<1>10. ref = Nothing \/ IsWorkflowArtifactRef(ref)
  BY <1>5 DEF SafeArtifactRef, Whole, RefFields, AsNumberOrZero, Numbers, AsString,
              IsWorkflowArtifactRef, IsString, IsCount
<1>11. BudgetReads(budget) => assist = Nothing \/ IsAssistDecision(assist)
  <2>1. Whole(AssistFields) \in [AssistFields -> Classes]
    BY DEF Whole, Classes
  <2>. QED  BY <1>1, <2>1, AssistIsRead
<1>12. failure \in {"fine", "null"}
  BY <1>7 DEF MapFailure, MapFailureCode
<1>13. \A c : OrNull(c) \in {"fine", "null"}
  BY DEF OrNull
<1>14. raw.agentAttemptCount \in Classes
  BY DEF ContractFields
<1>15. IsCount(AsNumberOrZero(raw.agentAttemptCount)) <=> ~Uneven(raw.agentAttemptCount)
  BY <1>14 DEF IsCount, AsNumberOrZero, Numbers, Uneven, Classes
<1>16. /\ view.state \in {"fine", "null"} /\ view.activeStep \in {"fine", "null"}
       /\ view.final \in {"fine", "null"} /\ view.failureCode \in {"fine", "null"}
       /\ view.failureMessage \in {"fine", "null"}
  BY <1>8, <1>12, <1>13
<1>17. /\ view.agentAttemptCount = AsNumberOrZero(raw.agentAttemptCount)
       /\ view.budget = AsBudget(budget) /\ view.attempt = tried /\ view.assist = assist
       /\ view.trust = told /\ view.case = case /\ view.ref = ref
  BY <1>8
<1>c. view.carriedOver = carried /\ view.drift = carried
  BY <1>8
<1>. HIDE DEF view
<1>18. HasW02ContractFields(view) <=> ~Uneven(raw.agentAttemptCount) /\ BudgetReads(budget)
  <2>1. NullableString(view.activeStep) /\ NullableString(view.failureMessage)
    BY <1>16 DEF NullableString, IsString
  <2>2. \A c \in {view.final, view.failureCode} : IsContractWord(c) \/ c = "null"
    BY <1>16 DEF IsContractWord, IsKnown
  <2>3. HasManualEditSummaryFields(view)
    BY <1>c DEF HasManualEditSummaryFields
  <2>4. IsCount(view.agentAttemptCount) <=> ~Uneven(raw.agentAttemptCount)
    BY <1>15, <1>17
  <2>5. (view.budget = Nothing \/ IsBudget(view.budget)) <=> BudgetReads(budget)
    BY <1>17 DEF BudgetReads
  <2>. QED  BY <2>1, <2>2, <2>3, <2>4, <2>5 DEF HasW02ContractFields
<1>19. IsTransformResponse(view) <=> ~Uneven(raw.agentAttemptCount) /\ BudgetReads(budget)
  BY <1>18 DEF IsTransformResponse
<1>20. IsRunSummary(view) <=>
          IsTransformResponse(view) /\ (told = Nothing \/ IsTrustSummary(told))
  BY <1>17 DEF IsTransformResponse, IsRunSummary
<1>21. IsWorkflowView(view) <=>
          IsRunSummary(view) /\ (tried = Nothing \/ IsRepairAttempt(tried))
  <2>1. NullableString(view.state)
    BY <1>16 DEF NullableString, IsString
  <2>. QED  BY <1>9, <1>10, <1>11, <1>17, <1>18, <2>1 DEF IsWorkflowView, IsRunSummary
<1>. QED  BY <1>2, <1>3, <1>19, <1>20, <1>21 DEF view

LEMMA WholeReads ==
    /\ \A fields : Whole(fields) \in [fields -> Classes]
    /\ LET tried == SanitizeRepairAttempt(Whole(AttemptFields))
       IN  tried = Nothing \/ IsRepairAttempt(tried)
    /\ LET told == NormalizeTrustSummary(WholeTrust)
       IN  told = Nothing \/ IsTrustSummary(told)
    /\ NormalizeTrustSummary(Nothing) = Nothing
<1>1. ASSUME NEW fields PROVE Whole(fields) \in [fields -> Classes]
  BY DEF Whole, Classes
<1>2. Whole(AttemptFields).repairDecision = "fine" /\ Whole(AttemptFields).attemptNumber = "fine"
  BY DEF Whole, AttemptFields
<1>3. \A f \in TrustFields : Whole(TrustFields)[f] = "fine"
  BY DEF Whole
<1>4. WholeTrust = WithField(Whole(TrustFields), "part", WholeTrust.part)
  <2>1. PICK part : part = WithField(Whole(PartFields), "ref", Nothing)
    OBVIOUS
  <2>2. WholeTrust = WithField(Whole(TrustFields), "part", part)
    BY <2>1 DEF WholeTrust
  <2>3. WholeTrust.part = part
    BY <2>2 DEF WithField, Whole, TrustFields
  <2>. QED  BY <2>2, <2>3
<1>5. LET tried == SanitizeRepairAttempt(Whole(AttemptFields))
      IN  tried = Nothing \/ IsRepairAttempt(tried)
  BY <1>1, <1>2, AttemptIsRead
<1>6. LET told == NormalizeTrustSummary(WithField(Whole(TrustFields), "part", WholeTrust.part))
      IN  told = Nothing \/ IsTrustSummary(told)
  BY <1>1, <1>3, TrustIsRead
<1>7. NormalizeTrustSummary(Nothing) = Nothing
  BY DEF NormalizeTrustSummary
<1>. QED  BY <1>1, <1>4, <1>5, <1>6, <1>7, Zenon

LEMMA DamagedTrust ==
    ASSUME NEW raw \in Damaged(TrustFields) PROVE ~ \A f \in TrustFields : raw[f] = "none"
<1>1. PICK g \in TrustFields : \E h \in TrustFields, c \in Classes, d \in Classes :
         raw = [f \in TrustFields |-> IF f = g THEN c ELSE IF f = h THEN d ELSE "fine"]
  BY DEF Damaged
<1>2. PICK h \in TrustFields : \E c \in Classes, d \in Classes :
         raw = [f \in TrustFields |-> IF f = g THEN c ELSE IF f = h THEN d ELSE "fine"]
  BY <1>1
<1>3. \A f \in TrustFields \ {g, h} : raw[f] = "fine"
  BY <1>2
<1>4. PICK f \in TrustFields : f # g /\ f # h
  BY DEF TrustFields
<1>. QED  BY <1>3, <1>4

\* References, generated files, artefacts and file contents (runViews.ts): read,
\* left out, or refused for an odd size and nothing else.
THEOREM RefsAreRead == RefsRead
BY DamagedObjects, RefIsRead, FileIsRead, ArtifactIsRead, FileContentIsRead DEF RefsRead

\* A diagnostic with any fields damaged is read or left out (diagnostics.ts).
THEOREM DiagnosticsAreRead == DiagnosticsRead
BY DamagedObjects, DiagnosticIsRead DEF DiagnosticsRead

\* The steps, events and learning signals of a run (runViews.ts).
THEOREM ProgressIsRead == ProgressReads
BY DamagedObjects, StepIsRead, EventIsRead, SignalIsRead DEF ProgressReads

\* The workflow view, the run summary and the answer to a start (runViews.ts,
\* server.ts), with any budget, attempt, assist decision and trust summary.
THEOREM WorkflowIsRead == WorkflowReads
<1>1. ASSUME NEW raw \in Damaged(BudgetFields)
      PROVE  BudgetReads(raw) <=>
                (/\ {raw.limit, raw.used} \subseteq {"fine", "odd"}
                 => "odd" \notin {raw.limit, raw.used} /\ ~Uneven(raw.remaining))
  BY DamagedObjects, BudgetIsRead
<1>2. ASSUME NEW raw \in Damaged(ContractFields)
      PROVE  LET view == Snapshot(raw, Nothing, Whole(AttemptFields), WholeTrust)
             IN  /\ IsWorkflowView(view) <=> ~Uneven(raw.agentAttemptCount)
                 /\ IsRunSummary(view) <=> IsTransformResponse(view)
  <2>1. raw \in [ContractFields -> Classes]
    BY DamagedObjects
  <2>. QED  BY <2>1, ViewIsRead, WholeReads, NoBudget
<1>3. ASSUME NEW raw \in Damaged(AssistFields), NEW required \in BOOLEAN
      PROVE  LET d == SanitizeAssistDecision(raw, required, Whole(RefFields), Nothing)
             IN  d = Nothing \/ IsAssistDecision(d)
  BY DamagedObjects, AssistIsRead, NoBudget
<1>4. ASSUME NEW raw \in Damaged(AttemptFields), NEW budget \in Damaged(BudgetFields)
      PROVE  LET view == Snapshot(Whole(ContractFields), budget, raw, Nothing)
             IN  IsWorkflowView(view) <=>
                    /\ BudgetReads(budget)
                    /\ raw.repairDecision = "fine" => raw.attemptNumber # "odd"
  <2>1. raw \in [AttemptFields -> Classes]
    BY DamagedObjects
  <2>2. Whole(ContractFields) \in [ContractFields -> Classes]
    BY WholeReads
  <2>3. ~Uneven(Whole(ContractFields).agentAttemptCount)
    BY DEF Whole, ContractFields, Uneven
  <2>. QED  BY <2>1, <2>2, <2>3, ViewIsRead, WholeReads, AttemptIsRead
<1>5. ASSUME NEW raw \in Damaged(TrustFields)
      PROVE  LET view == Snapshot(Whole(ContractFields), Nothing, Whole(AttemptFields),
                                  WithField(raw, "part", WholeTrust.part))
             IN  IsRunSummary(view) <=>
                    /\ \A f \in TrustFields \ {"summaryDerivedAt", "optionalAt"} :
                          raw[f] = "fine"
                    /\ raw.summaryDerivedAt = "fine"
  <2>1. raw \in [TrustFields -> Classes]
    BY DamagedObjects
  <2>2. Whole(ContractFields) \in [ContractFields -> Classes]
    BY WholeReads
  <2>3. ~Uneven(Whole(ContractFields).agentAttemptCount)
    BY DEF Whole, ContractFields, Uneven
  <2>4. PICK trust : trust = WithField(raw, "part", WholeTrust.part)
    OBVIOUS
  <2>5. PICK told : told = NormalizeTrustSummary(trust)
    OBVIOUS
  <2>6. IsRunSummary(Snapshot(Whole(ContractFields), Nothing, Whole(AttemptFields), trust))
           <=> told = Nothing \/ IsTrustSummary(told)
    BY <2>2, <2>3, <2>5, ViewIsRead, NoBudget
  <2>7. (told = Nothing \/ IsTrustSummary(told)) <=>
           \A f \in TrustFields \ {"optionalAt"} : raw[f] = "fine"
    BY <2>1, <2>4, <2>5, TrustIsRead, DamagedTrust
  <2>8. (\A f \in TrustFields \ {"optionalAt"} : raw[f] = "fine") <=>
           /\ \A f \in TrustFields \ {"summaryDerivedAt", "optionalAt"} : raw[f] = "fine"
           /\ raw["summaryDerivedAt"] = "fine"
    BY DEF TrustFields
  <2>. QED  BY <2>4, <2>6, <2>7, <2>8
<1>. QED  BY <1>1, <1>2, <1>3, <1>4, <1>5 DEF WorkflowReads

LEMMA FineRef ==
    /\ NormalizeOutputRef(Whole(RefFields)) = Whole(RefFields)
    /\ Whole(RefFields) # Nothing /\ IsOutputRef(Whole(RefFields))
<1>1. PICK ref : ref = Whole(RefFields)
  OBVIOUS
<1>2. ref \in [RefFields -> Classes]
  BY <1>1, WholeReads
<1>3. ref # Nothing
  BY <1>2, FlatObjects DEF ObjectFields
<1>4. ref.sha256 = "fine" /\ ref.byteSize = "fine" /\ ref.text = "fine"
  BY <1>1 DEF Whole, RefFields
<1>5. NormalizeOutputRef(ref) = [sha256 |-> "fine", byteSize |-> "fine", text |-> "fine"]
  BY <1>3, <1>4 DEF NormalizeOutputRef, AsNumber, Numbers, CopiedText
<1>6. ref = [sha256 |-> "fine", byteSize |-> "fine", text |-> "fine"]
  BY <1>1 DEF Whole, RefFields
<1>. QED  BY <1>1, <1>3, <1>4, <1>5, <1>6 DEF IsOutputRef, IsString, OptCount, OptString

\* The body of a manual repair: a runner's result without a mode is not read.
LEMMA RepairIsRead ==
    ASSUME NEW proposal \in [ProposalFields -> Classes], NEW mode \in Classes
    PROVE  LET body == SanitizeManualRepairBody(
                         [diagnosis |-> Whole(DiagnosisFields),
                          proposal |-> proposal, candidate |-> "fine",
                          ref |-> Whole(RefFields),
                          buildTest |-> [RunnerResult EXCEPT
                                           !.mode = mode, !.generated = "null"]])
           IN  /\ ParseRepairApply(body) <=> ParseRepairReject(body) /\ mode = "fine"
               /\ ParseRepairDiagnose(body) => ParseRepairAccept(body)
<1>. DEFINE sent == [diagnosis |-> Whole(DiagnosisFields),
                     proposal |-> proposal, candidate |-> "fine", ref |-> Whole(RefFields),
                     buildTest |-> [RunnerResult EXCEPT !.mode = mode, !.generated = "null"]]
            body == SanitizeManualRepairBody(sent)
            fixed == WithField(proposal, "ref", Whole(RefFields))
<1>1. fixed # Nothing
  <2>1. fixed = [f \in ProposalFields \cup {"ref"} |->
                   IF f = "ref" THEN Whole(RefFields) ELSE proposal[f]]
    BY DEF WithField
  <2>2. Whole(RefFields) \in Nested /\ Classes \subseteq Nested
    BY WholeReads DEF Nested, Flat, Whole, Classes
  <2>3. fixed \in [ProposalFields \cup {"ref"} -> Nested]
    BY <2>1, <2>2
  <2>. QED  BY <2>3, NoObject DEF ObjectFields
<1>2. proposal # Nothing
  BY FlatObjects DEF ObjectFields
<1>3. /\ body.proposal = fixed /\ body.candidate = "fine"
      /\ body.buildTest = [RunnerResult EXCEPT !.mode = mode, !.generated = "null"]
  BY <1>2, FineRef DEF SanitizeManualRepairBody, SanitizeManualRepairProposal
<1>4. /\ body.buildTest.ids = "fine" /\ body.buildTest.words = "fine"
      /\ body.buildTest.mode = mode /\ body.buildTest.generated = "null"
  BY <1>3 DEF RunnerResult
<1>. HIDE DEF body, fixed
<1>5. IsRepairBuildTest(body.buildTest) <=> mode = "fine"
  BY <1>4 DEF IsRepairBuildTest, IsString, IsKnown
<1>6. IsRepairCandidateProject(body.candidate)
  BY <1>3 DEF IsRepairCandidateProject
<1>7. ParseRepairApply(body) <=> ParseRepairReject(body) /\ mode = "fine"
  BY <1>5, <1>6 DEF ParseRepairApply, ParseRepairReject
<1>8. ParseRepairDiagnose(body) => ParseRepairAccept(body)
  BY <1>1, <1>3 DEF ParseRepairDiagnose, ParseRepairAccept
<1>. QED  BY <1>7, <1>8 DEF body

\* The record of a divergence decision, with its trust summary.
LEMMA DecisionIsRead ==
    ASSUME NEW raw \in [DecisionFields -> Classes], NEW sha \in Classes, NEW state \in Classes
    PROVE  ParseDivergenceDecision(
              [decision |-> SanitizeDivergenceDecision(
                              raw, [Whole(RefFields) EXCEPT !.sha256 = sha]),
               trust |-> NormalizeTrustSummary([WholeTrust EXCEPT !.state = state])])
           <=> sha = "fine" /\ state = "fine"
<1>. DEFINE sent == [Whole(RefFields) EXCEPT !.sha256 = sha]
<1>1. PICK ref : ref = NormalizeOutputRef(sent)
  OBVIOUS
<1>2. IF sha = "fine" THEN ref # Nothing /\ IsOutputRef(ref) ELSE ref = Nothing
  <2>1. CASE sha = "fine"
    <3>1. sent = Whole(RefFields)
      BY <2>1 DEF Whole, RefFields
    <3>. QED  BY <1>1, <2>1, <3>1, FineRef
  <2>2. CASE sha # "fine"
    <3>1. sent.sha256 = sha
      BY DEF Whole, RefFields
    <3>. QED  BY <1>1, <2>2, <3>1 DEF NormalizeOutputRef
  <2>. QED  BY <2>1, <2>2
<1>3. PICK trust : trust = NormalizeTrustSummary([WholeTrust EXCEPT !.state = state])
  OBVIOUS
<1>4. (trust # Nothing /\ IsTrustSummary(trust)) <=> state = "fine"
  <2>. DEFINE told == [Whole(TrustFields) EXCEPT !.state = state]
  <2>1. told \in [TrustFields -> Classes]
    BY DEF Whole, Classes
  <2>2. PICK part : part = WholeTrust.part
    OBVIOUS
  <2>3. [WholeTrust EXCEPT !.state = state] = WithField(told, "part", part)
    <3>1. WholeTrust = [f \in TrustFields \cup {"part"} |-> IF f = "part" THEN part ELSE "fine"]
      <4>1. PICK p : p = WithField(Whole(PartFields), "ref", Nothing)
        OBVIOUS
      <4>2. WholeTrust = [f \in TrustFields \cup {"part"} |-> IF f = "part" THEN p ELSE "fine"]
        BY <4>1 DEF WholeTrust, WithField, Whole, TrustFields
      <4>3. WholeTrust.part = p
        BY <4>2
      <4>. QED  BY <2>2, <4>2, <4>3
    <3>2. [WholeTrust EXCEPT !.state = state] =
             [f \in TrustFields \cup {"part"} |->
                IF f = "part" THEN part ELSE IF f = "state" THEN state ELSE "fine"]
      BY <3>1 DEF TrustFields
    <3>3. WithField(told, "part", part) =
             [f \in TrustFields \cup {"part"} |->
                IF f = "part" THEN part ELSE IF f = "state" THEN state ELSE "fine"]
      BY DEF WithField, Whole, TrustFields
    <3>. QED  BY <3>2, <3>3
  <2>4. ~ (\A f \in TrustFields : told[f] = "none")
    BY DEF Whole, TrustFields
  <2>5. (\A f \in TrustFields \ {"optionalAt"} : told[f] = "fine") <=> state = "fine"
    BY DEF Whole, TrustFields
  <2>. HIDE DEF told
  <2>. QED  BY <1>3, <2>1, <2>2, <2>3, <2>4, <2>5, TrustIsRead
<1>5. PICK decision : decision = SanitizeDivergenceDecision(raw, sent)
  OBVIOUS
<1>6. IsDivergenceDecision(decision) <=> sha = "fine"
  <2>1. /\ decision.decisionRef = ref /\ IsString(decision.decisionId)
        /\ IsString(decision.reviewer) /\ IsString(decision.text)
        /\ decision.refs = "fine" /\ decision.outputs = "fine"
    BY <1>1, <1>5 DEF SanitizeDivergenceDecision, DecisionReviewerLabel, DecisionStringRefs,
                      AsString, IsString
  <2>. QED  BY <1>2, <2>1 DEF IsDivergenceDecision, IsStringArray
<1>7. ParseDivergenceDecision([decision |-> decision, trust |-> trust]) <=>
         IsDivergenceDecision(decision) /\ trust # Nothing /\ IsTrustSummary(trust)
  BY DEF ParseDivergenceDecision
<1>. QED  BY <1>3, <1>4, <1>5, <1>6, <1>7

\* The answers to a verify, to a manual repair and to a divergence decision.
THEOREM AnswersAreRead == AnswersRead
<1>1. ASSUME NEW raw \in Damaged(VerifyFields) PROVE ParseVerifyResponse(VerifyAnswer(raw))
  BY DEF ParseVerifyResponse, VerifyAnswer, IsString, IsKnown, IsCount
<1>. QED  BY <1>1, DamagedObjects, RepairIsRead, DecisionIsRead DEF AnswersRead

\* A compile check is clean exactly if it has no message.
LEMMA CompileCheckIsRead ==
    ASSUME NEW raw \in [DiagnosticFields -> Classes]
    PROVE  CompileCheck(CompileCheckAnswer({raw})) = "ok" <=> raw.message # "fine"
<1>1. PICK d : d = NormalizeDiagnostic(raw, Nothing)
  OBVIOUS
<1>2. CompileCheckAnswer({raw}) = {d} \ {Nothing}
  BY <1>1 DEF CompileCheckAnswer
<1>3. CASE raw.message # "fine"
  <2>1. d = Nothing
    BY <1>1, <1>3 DEF NormalizeDiagnostic
  <2>. QED  BY <1>2, <1>3, <2>1 DEF CompileCheck
<1>4. CASE raw.message = "fine"
  <2>. DEFINE filePath == CopiedText(raw.filePath)
  <2>1. d = [message |-> "fine", severity |-> "fine", code |-> AsString(raw.code),
             position |-> AsWholeNumber(raw.position), filePath |-> filePath,
             sourceKind |-> DefaultSourceKind(NormalizeSourceKind(raw.sourceKind), filePath),
             originStep |-> CopiedText(raw.originStep), artifactRef |-> Nothing]
    BY <1>1, <1>4 DEF NormalizeDiagnostic, NormalizeSeverity, NormalizeArtifactRef
  <2>2. d \in [DiagnosticFields \cup {"artifactRef"} -> Nested]
    BY <2>1 DEF DiagnosticFields, AsString, AsWholeNumber, CopiedText, DefaultSourceKind,
                NormalizeSourceKind, Nested, Flat, Classes
  <2>3. d # Nothing
    BY <2>2, NoObject DEF ObjectFields
  <2>4. d.severity = "fine" /\ d.message = "fine"
    BY <2>1
  <2>5. ParseDiagnostic(d)
    BY <2>4 DEF ParseDiagnostic, IsKnown
  <2>. QED  BY <1>2, <1>4, <2>3, <2>5 DEF CompileCheck
<1>. QED  BY <1>3, <1>4

\* What was learnt from a run.
LEMMA ExperienceIsRead ==
    ASSUME NEW raw \in [ExperienceFields -> Classes], NEW signal \in [SignalFields -> Classes]
    PROVE  IsRunExperienceView(NormalizeExperience(raw, signal)) <=>
              ({signal.key, signal.label} = {"fine"} => signal.status # "odd")
<1>1. PICK learnt : learnt = NormalizeLearningSignal(signal)
  OBVIOUS
<1>2. NormalizeExperience(raw, signal) =
         [summary |-> "fine", observationPolicy |-> AsString(raw.policy),
          detectedPatterns |-> "fine", artifactRefs |-> "fine", signal |-> learnt]
  BY <1>1 DEF NormalizeExperience, AsStringArray
<1>3. IsRunExperienceView(NormalizeExperience(raw, signal)) <=>
         learnt = Nothing \/ IsLearningSignal(learnt)
  BY <1>2 DEF IsRunExperienceView, OptString, IsString, AsString, IsStringArray
<1>. QED  BY <1>1, <1>3, SignalIsRead

\* What stands beside the run: traceability, regions, learning, the gateway, the
\* Harness and compile checks.
THEOREM ServicesAreRead == ServicesRead
<1>1. ASSUME NEW raw \in Damaged(TraceFields)
      PROVE  LET trace == NormalizeGeneratedTraceability(raw)
             IN  trace = Nothing \/ IsGeneratedTraceability(trace)
  BY DEF NormalizeGeneratedTraceability, IsGeneratedTraceability
<1>2. ASSUME NEW raw \in Damaged(RegionFields)
      PROVE  LET region == NormalizeJavaRegion(raw)
             IN  region = Nothing \/ IsJavaRegionClassification(region)
  BY DEF NormalizeJavaRegion, IsJavaRegionClassification
<1>3. ASSUME NEW raw \in Damaged(ExperienceFields), NEW signal \in Damaged(SignalFields)
      PROVE  IsRunExperienceView(NormalizeExperience(raw, signal)) <=>
                ({signal.key, signal.label} = {"fine"} => signal.status # "odd")
  BY DamagedObjects, ExperienceIsRead
<1>4. ASSUME NEW raw \in Damaged(GatewayFields), NEW role \in Damaged(RoleFields)
      PROVE  ParseModelGatewayHealth(NormalizeGatewayHealth(raw, role))
  BY DEF ParseModelGatewayHealth, NormalizeGatewayHealth, IsKnown
<1>5. ASSUME NEW raw \in Damaged(ModelFields)
      PROVE  ParseModelGatewayModels({NormalizeGatewayModel(raw)} \ {Nothing})
  BY DEF ParseModelGatewayModels
<1>6. ASSUME NEW raw \in Damaged(ModelFields \cup {"status"})
      PROVE  ParseHarnessReady(NormalizeHarnessReady(raw))
  <2>1. raw \in [ModelFields \cup {"status"} -> Classes]
    BY DamagedObjects
  <2>. QED  BY <2>1 DEF ParseHarnessReady, NormalizeHarnessReady, IsKnown
<1>7. ASSUME NEW gateway \in Gateways
      PROVE  TransformationModelAvailable(gateway) =>
                gateway.active > 0 \/ gateway.capabilities = "ok"
  BY DEF TransformationModelAvailable, HasCallableTransformationModel
<1>8. ASSUME NEW raw \in Damaged(DiagnosticFields)
      PROVE  CompileCheck(CompileCheckAnswer({raw})) = "ok" <=> raw.message # "fine"
  BY DamagedObjects, CompileCheckIsRead
<1>. QED  BY <1>1, <1>2, <1>3, <1>4, <1>5, <1>6, <1>7, <1>8 DEF ServicesRead

\* The manual edits a repair request carries (ManualOverlayEnvelope).
THEOREM OverlaysAreRead == OverlaysRead
<1>. SUFFICES ASSUME NEW files \in 0 .. 2, NEW provenance \in {"fine", "none"}
              PROVE  LET overlay == [EditorOverlay("fine") EXCEPT
                                       !.regions = {[r EXCEPT !.provenance = provenance] : r \in @}]
                         envelope == ManualOverlayEnvelope([i \in 1 .. files |-> overlay])
                     IN  OverlayIsTaken(envelope) <=>
                            files = 0 \/ (files = 1 /\ provenance = "fine")
  BY DEF OverlaysRead
<1>1. PICK region : region = [filePath |-> "none", provenance |-> provenance]
  OBVIOUS
<1>2. PICK overlay : overlay = [javaFile |-> "fine", regions |-> {region}]
  OBVIOUS
<1>3. [EditorOverlay("fine") EXCEPT
         !.regions = {[r EXCEPT !.provenance = provenance] : r \in @}] = overlay
  BY <1>1, <1>2 DEF EditorOverlay
<1>4. PICK overlays : overlays = [i \in 1 .. files |-> overlay]
  OBVIOUS
<1>5. Len(overlays) = files /\ DOMAIN overlays = 1 .. files
      /\ \A i \in 1 .. files : overlays[i] = overlay
  BY <1>4
<1>6. PICK envelope : envelope = ManualOverlayEnvelope(overlays)
  OBVIOUS
<1>7. ASSUME files = 1 PROVE OverlayIsTaken(envelope) <=> (files = 0 \/ (files = 1 /\ provenance = "fine"))
  <2>1. envelope = [javaFile |-> "fine", regions |-> {region}]
    BY <1>2, <1>5, <1>6, <1>7 DEF ManualOverlayEnvelope
  <2>2. OverlayIsTaken(envelope) <=> provenance = "fine"
    BY <1>1, <2>1 DEF OverlayIsTaken
  <2>. QED  BY <1>7, <2>2
<1>8. ASSUME files # 1 PROVE OverlayIsTaken(envelope) <=> (files = 0 \/ (files = 1 /\ provenance = "fine"))
  <2>1. PICK regions : regions = UNION {overlays[i].regions : i \in DOMAIN overlays}
    OBVIOUS
  <2>2. envelope = [javaFile |-> "none", regions |-> regions]
    BY <1>5, <1>6, <1>8, <2>1 DEF ManualOverlayEnvelope
  <2>3. CASE files = 0
    <3>1. regions = {}
      BY <1>5, <2>1, <2>3
    <3>2. OverlayIsTaken(envelope)
      BY <2>2, <3>1 DEF OverlayIsTaken
    <3>. QED  BY <2>3, <3>2
  <2>4. CASE files # 0
    <3>1. region \in regions
      <4>1. 1 \in DOMAIN overlays /\ region \in overlays[1].regions
        BY <1>2, <1>5, <2>4
      <4>. QED  BY <2>1, <4>1
    <3>2. ~OverlayIsTaken(envelope)
      BY <1>1, <2>2, <3>1 DEF OverlayIsTaken
    <3>. QED  BY <1>8, <2>4, <3>2
  <2>. QED  BY <2>3, <2>4
<1>9. OverlayIsTaken(ManualOverlayEnvelope([i \in 1 .. files |-> overlay])) <=>
         (files = 0 \/ (files = 1 /\ provenance = "fine"))
  BY <1>4, <1>6, <1>7, <1>8
<1>. QED  BY <1>3, <1>9, Zenon

-----------------------------------------------------------------------------
(* The vocabulary of the editor's telemetry, which is written down twice.  *)

\* A payload fits a rule exactly if it has no other field, and every field that
\* is required, with values the rule knows.
LEMMA Shapes ==
    ASSUME NEW p, NEW fields, NEW optional
    PROVE  ValidatePayloadShape(p, Rule(fields, optional)) <=>
              /\ HasOnlyKnownKeys(p, DOMAIN fields)
              /\ \A f \in DOMAIN fields : IF f \in optional THEN May(p, f, fields[f])
                                          ELSE Has(p, f, fields[f])
BY DEF ValidatePayloadShape, Rule, HasOnlyKnownKeys, May, Has

\* Both sides say the same of every payload of an event, not only of those with
\* the words of one side.
AgreeOn(type) == \A p : ValidatePayloadShape(p, RuleOf(type)) <=> PayloadValid(type, p)

LEMMA NavigationAgrees == \A type \in DOMAIN NavigationRules : AgreeOn(type)
<1>1. AgreeOn("marker_navigate")
  <2>1. RuleOf("marker_navigate") =
          Rule([direction |-> {"next", "prev"}, sourceKind |-> Kinds,
                severity |-> {"error", "warning", "info", "hint"},
                irCodeOrIRNodeKind |-> Code], {"irCodeOrIRNodeKind"})
    BY DEF RuleOf, NavigationRules, StudioWords
  <2>2. \A p : PayloadValid("marker_navigate", p) <=> ValidateMarkerNavigate(p)
    BY DEF PayloadValid
  <2>. QED  BY <2>1, <2>2, Shapes DEF AgreeOn, ValidateMarkerNavigate
<1>2. AgreeOn("hover_opened")
  <2>1. RuleOf("hover_opened") = Rule([constructKind |-> HoverConstructKinds], {})
    BY DEF RuleOf, NavigationRules, StudioWords, HoverConstructKinds
  <2>2. \A p : PayloadValid("hover_opened", p) <=> ValidateHover(p)
    BY DEF PayloadValid
  <2>. QED  BY <2>1, <2>2, Shapes DEF AgreeOn, ValidateHover
<1>3. AgreeOn("hover_expanded")
  <2>1. RuleOf("hover_expanded") = Rule([constructKind |-> HoverConstructKinds], {})
    BY DEF RuleOf, NavigationRules, StudioWords, HoverConstructKinds
  <2>2. \A p : PayloadValid("hover_expanded", p) <=> ValidateHover(p)
    BY DEF PayloadValid
  <2>. QED  BY <2>1, <2>2, Shapes DEF AgreeOn, ValidateHover
<1>4. AgreeOn("lineage_navigate")
  <2>1. RuleOf("lineage_navigate") =
          Rule([direction |-> {"java_to_cobol", "cobol_to_java"}, resolved |-> Flag,
                mappingClass |-> MappingClasses,
                unresolvedReason |-> {"no_mapping", "stale_manual_edit", "manual_only"}],
               {"mappingClass", "unresolvedReason"})
    BY DEF RuleOf, NavigationRules, StudioWords, MappingClasses
  <2>2. \A p : PayloadValid("lineage_navigate", p) <=> ValidateLineageNavigate(p)
    BY DEF PayloadValid
  <2>. QED  BY <2>1, <2>2, Shapes DEF AgreeOn, ValidateLineageNavigate
<1>5. AgreeOn("stacktrace_frame_click")
  <2>1. RuleOf("stacktrace_frame_click") = Rule([resolved |-> Flag], {})
    BY DEF RuleOf, NavigationRules
  <2>2. \A p : PayloadValid("stacktrace_frame_click", p) <=>
           ValidateFlags(p, {"resolved"})
    BY DEF PayloadValid
  <2>. QED  BY <2>1, <2>2, Shapes DEF AgreeOn, ValidateFlags
<1>6. AgreeOn("diff_open")
  <2>1. RuleOf("diff_open") =
          Rule([hasPrevious |-> Flag, lineageAvailable |-> Flag], {})
    BY DEF RuleOf, NavigationRules
  <2>2. \A p : PayloadValid("diff_open", p) <=>
           ValidateFlags(p, {"hasPrevious", "lineageAvailable"})
    BY DEF PayloadValid
  <2>. QED  BY <2>1, <2>2, Shapes DEF AgreeOn, ValidateFlags
<1>7. AgreeOn("assist_invoked")
  <2>1. RuleOf("assist_invoked") =
          Rule([sourceKind |-> Kinds, regionLineCount |-> Count,
                redactionApplied |-> Count], {})
    BY DEF RuleOf, NavigationRules
  <2>2. \A p : PayloadValid("assist_invoked", p) <=> ValidateAssist("assist_invoked", p)
    BY DEF PayloadValid
  <2>. QED  BY <2>1, <2>2, Shapes DEF AgreeOn, ValidateAssist
<1>8. AgreeOn("assist_result")
  <2>1. RuleOf("assist_result") = Rule([outcome |-> AssistResultOutcomes], {})
    BY DEF RuleOf, NavigationRules, StudioWords, AssistResultOutcomes
  <2>2. \A p : PayloadValid("assist_result", p) <=> ValidateAssist("assist_result", p)
    BY DEF PayloadValid
  <2>. QED  BY <2>1, <2>2, Shapes DEF AgreeOn, ValidateAssist
<1>9. AgreeOn("save_local")
  <2>1. RuleOf("save_local") = Rule([kind |-> Kinds, encrypted |-> Flag], {})
    BY DEF RuleOf, NavigationRules
  <2>2. \A p : PayloadValid("save_local", p) <=> ValidateDrafts("save_local", p)
    BY DEF PayloadValid
  <2>. QED  BY <2>1, <2>2, Shapes DEF AgreeOn, ValidateDrafts
<1>10. AgreeOn("drafts_cleared")
  <2>1. RuleOf("drafts_cleared") = Rule([purgedCountBucket |-> CountBuckets], {})
    BY DEF RuleOf, NavigationRules, StudioWords, CountBuckets
  <2>2. \A p : PayloadValid("drafts_cleared", p) <=> ValidateDrafts("drafts_cleared", p)
    BY DEF PayloadValid
  <2>. QED  BY <2>1, <2>2, Shapes DEF AgreeOn, ValidateDrafts
<1>11. AgreeOn("conflict_resolved")
  <2>1. RuleOf("conflict_resolved") =
          Rule([kind |-> Kinds,
                pick |-> {"backend_sample", "local_draft", "last_run_input"}], {})
    BY DEF RuleOf, NavigationRules, StudioWords
  <2>2. \A p : PayloadValid("conflict_resolved", p) <=>
           ValidateDrafts("conflict_resolved", p)
    BY DEF PayloadValid
  <2>. QED  BY <2>1, <2>2, Shapes DEF AgreeOn, ValidateDrafts
<1>. QED  BY <1>1, <1>2, <1>3, <1>4, <1>5, <1>6, <1>7, <1>8, <1>9, <1>10, <1>11
          DEF NavigationRules

LEMMA RunAgrees == \A type \in DOMAIN RunRules : AgreeOn(type)
<1>1. AgreeOn("generate_invoked")
  <2>1. RuleOf("generate_invoked") =
          Rule([trigger |-> {"generate", "regenerate", "generate_and_verify"},
                hadManualEdits |-> Flag], {})
    BY DEF RuleOf, NavigationRules, RunRules, StudioWords
  <2>2. \A p : PayloadValid("generate_invoked", p) <=>
           ValidateGenerate("generate_invoked", p)
    BY DEF PayloadValid
  <2>. QED  BY <2>1, <2>2, Shapes DEF AgreeOn, ValidateGenerate
<1>2. AgreeOn("generate_result")
  <2>1. RuleOf("generate_result") =
          Rule([outcome |-> {"success", "merge_required", "failed", "cancelled"},
                latencyBucket |-> {"lt_2s", "lt_10s", "lt_60s", "ge_60s"}], {})
    BY DEF RuleOf, NavigationRules, RunRules, StudioWords
  <2>2. \A p : PayloadValid("generate_result", p) <=>
           ValidateGenerate("generate_result", p)
    BY DEF PayloadValid
  <2>. QED  BY <2>1, <2>2, Shapes DEF AgreeOn, ValidateGenerate
<1>3. AgreeOn("compile_check_invoked")
  <2>1. RuleOf("compile_check_invoked") =
          Rule([trigger |-> {"toolbar", "shortcut"}], {})
    BY DEF RuleOf, NavigationRules, RunRules, StudioWords
  <2>2. \A p : PayloadValid("compile_check_invoked", p) <=>
           ValidateCompileCheck("compile_check_invoked", p)
    BY DEF PayloadValid
  <2>. QED  BY <2>1, <2>2, Shapes DEF AgreeOn, ValidateCompileCheck
<1>4. AgreeOn("compile_check_result")
  <2>1. RuleOf("compile_check_result") =
          Rule([outcome |-> CompileOutcomes, diagnosticCountBucket |-> CountBuckets,
                latencyBucket |-> {"lt_1s", "lt_5s", "ge_5s"}], {})
    BY DEF RuleOf, NavigationRules, RunRules, StudioWords, CompileOutcomes, CountBuckets
  <2>2. \A p : PayloadValid("compile_check_result", p) <=>
           ValidateCompileCheck("compile_check_result", p)
    BY DEF PayloadValid
  <2>. QED  BY <2>1, <2>2, Shapes DEF AgreeOn, ValidateCompileCheck
<1>5. AgreeOn("verify_invoked")
  <2>1. RuleOf("verify_invoked") =
          Rule([trigger |-> {"toolbar", "shortcut"}, hadManualEdits |-> Flag], {})
    BY DEF RuleOf, NavigationRules, RunRules, StudioWords
  <2>2. \A p : PayloadValid("verify_invoked", p) <=> ValidateVerify("verify_invoked", p)
    BY DEF PayloadValid
  <2>. QED  BY <2>1, <2>2, Shapes DEF AgreeOn, ValidateVerify
<1>6. AgreeOn("verify_result")
  <2>1. RuleOf("verify_result") = Rule([outcome |-> VerifyOutcomes], {})
    BY DEF RuleOf, NavigationRules, RunRules, StudioWords, VerifyOutcomes
  <2>2. \A p : PayloadValid("verify_result", p) <=> ValidateVerify("verify_result", p)
    BY DEF PayloadValid
  <2>. QED  BY <2>1, <2>2, Shapes DEF AgreeOn, ValidateVerify
<1>7. AgreeOn("three_way_merge_opened")
  <2>1. RuleOf("three_way_merge_opened") =
          Rule([regionCountBucket |-> {"lt_5", "lt_20", "ge_20"}], {})
    BY DEF RuleOf, NavigationRules, RunRules, StudioWords
  <2>2. \A p : PayloadValid("three_way_merge_opened", p) <=>
           ValidateMerge("three_way_merge_opened", p)
    BY DEF PayloadValid
  <2>. QED  BY <2>1, <2>2, Shapes DEF AgreeOn, ValidateMerge
<1>8. AgreeOn("three_way_merge_resolved")
  <2>1. RuleOf("three_way_merge_resolved") =
          Rule([regionsPickedPerSource |-> Counts, cancelled |-> Flag], {})
    BY DEF RuleOf, NavigationRules, RunRules
  <2>2. \A p : PayloadValid("three_way_merge_resolved", p) <=>
           ValidateMerge("three_way_merge_resolved", p)
    BY DEF PayloadValid
  <2>. QED  BY <2>1, <2>2, Shapes DEF AgreeOn, ValidateMerge
<1>9. AgreeOn("manual_edit_region_classified")
  <2>1. RuleOf("manual_edit_region_classified") =
          Rule([originClass |-> {"manual_modified", "manual_edit"},
                mappingClass |-> MappingClasses], {"mappingClass"})
    BY DEF RuleOf, NavigationRules, RunRules, StudioWords, MappingClasses
  <2>2. \A p : PayloadValid("manual_edit_region_classified", p) <=>
           ValidateRegionClassified(p)
    BY DEF PayloadValid
  <2>. QED  BY <2>1, <2>2, Shapes DEF AgreeOn, ValidateRegionClassified
<1>10. AgreeOn("format_invoked")
  <2>1. RuleOf("format_invoked") =
          Rule([trigger |-> {"shortcut", "on_save"},
                fileLineCountBucket |-> {"lt_100", "lt_1000", "ge_1000"}], {})
    BY DEF RuleOf, NavigationRules, RunRules, StudioWords
  <2>2. \A p : PayloadValid("format_invoked", p) <=> ValidateFormat("format_invoked", p)
    BY DEF PayloadValid
  <2>. QED  BY <2>1, <2>2, Shapes DEF AgreeOn, ValidateFormat
<1>11. AgreeOn("format_result")
  <2>1. RuleOf("format_result") =
          Rule([outcome |-> {"success", "unavailable", "timeout", "noop"},
                latencyBucket |-> {"lt_500ms", "lt_1500ms", "ge_1500ms"}], {})
    BY DEF RuleOf, NavigationRules, RunRules, StudioWords
  <2>2. \A p : PayloadValid("format_result", p) <=> ValidateFormat("format_result", p)
    BY DEF PayloadValid
  <2>. QED  BY <2>1, <2>2, Shapes DEF AgreeOn, ValidateFormat
<1>12. AgreeOn("lint_markers_changed")
  <2>1. RuleOf("lint_markers_changed") =
          Rule([countBucket |-> {"zero", "lt_10", "lt_50", "ge_50"}], {})
    BY DEF RuleOf, NavigationRules, RunRules, StudioWords
  <2>2. \A p : PayloadValid("lint_markers_changed", p) <=> ValidateLint(p)
    BY DEF PayloadValid
  <2>. QED  BY <2>1, <2>2, Shapes DEF AgreeOn, ValidateLint
<1>. QED  BY <1>1, <1>2, <1>3, <1>4, <1>5, <1>6, <1>7, <1>8, <1>9, <1>10, <1>11, <1>12
          DEF RunRules

\* The Studio holds back an event exactly if the BFF would refuse it
\* (editorTelemetry.ts of both), whatever its payload is.
THEOREM EventsAgree ==
    /\ \A type \in EventTypes : \A p :
          ValidatePayloadShape(p, RuleOf(type)) <=> ValidateTelemetryEvent(ToEnvelope(type, p))
    /\ EventsAreAccepted
<1>1. ASSUME NEW type \in EventTypes, NEW p
      PROVE  ValidatePayloadShape(p, RuleOf(type)) <=>
                ValidateTelemetryEvent(ToEnvelope(type, p))
  <2>1. AgreeOn(type)
    BY NavigationAgrees, RunAgrees DEF EventTypes
  <2>2. ValidateTelemetryEvent(ToEnvelope(type, p)) <=> PayloadValid(type, p)
    BY DEF ValidateTelemetryEvent, ToEnvelope
  <2>. QED  BY <2>1, <2>2 DEF AgreeOn
<1>. QED  BY <1>1 DEF EventsAreAccepted
=============================================================================
