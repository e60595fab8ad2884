-------------------------- MODULE ColumnListProofs --------------------------
(***************************************************************************)
(* What the operators of ColumnPlanner do to a list of columns with        *)
(* distinct names: a statement of the plan inserts, moves, changes or      *)
(* drops one column and leaves the others in their order, and the          *)
(* statements of a plan are sent one after the other (FoldLeft).           *)
(***************************************************************************)
EXTENDS ColumnPlanner, WellFoundedInduction, SequenceTheorems, TLAPS

-----------------------------------------------------------------------------
(* Induction, over the numbers and over the sequences of a set.               *)

LEMMA Induct ==
    ASSUME NEW S \in SUBSET Nat, 0 \in S, \A k \in S : k + 1 \in S
    PROVE  Nat \subseteq S
<1> DEFINE less == OpToRel(<, Nat)
           Left == Nat \ S
<1>1. IsWellFoundedOn(less, Nat)
  BY NatLessThanWellFounded
<1>2. \A k, m \in Nat : k < m <=> <<k, m>> \in less
  BY DEF OpToRel
<1> HIDE DEF less
<1> SUFFICES ASSUME Left # {} PROVE FALSE
  OBVIOUS
<1>3. PICK m \in Left : \A k \in Left : <<k, m>> \notin less
  <2>1. Left \subseteq Nat
    OBVIOUS
  <2> HIDE DEF Left
  <2> QED  BY <1>1, <2>1, WFMin
<1>4. m \in Nat /\ m # 0
  OBVIOUS
<1>5. m - 1 \in Nat /\ m - 1 < m
  BY <1>4
<1>6. m - 1 \in S
  BY <1>2, <1>3, <1>4, <1>5
<1>7. (m - 1) + 1 \in S
  BY <1>6
<1> QED  BY <1>4, <1>7

LEMMA InductTo ==
    ASSUME NEW n \in Nat, NEW S \in SUBSET (0 .. n), 0 \in S,
           \A k \in 1 .. n : k - 1 \in S => k \in S
    PROVE  \A k \in 0 .. n : k \in S
<1> DEFINE T == {k \in Nat : k <= n => k \in S}
<1>1. 0 \in T
  OBVIOUS
<1>2. ASSUME NEW k \in T PROVE k + 1 \in T
  <2>1. k \in Nat /\ k + 1 \in Nat
    OBVIOUS
  <2>2. ASSUME k + 1 <= n PROVE k + 1 \in S
    <3>1. k + 1 \in 1 .. n /\ (k + 1) - 1 = k /\ k \in S
      BY <2>1, <2>2
    <3> QED  BY <3>1
  <2> QED  BY <2>1, <2>2
<1>3. Nat \subseteq T
  <2>1. T \in SUBSET Nat
    OBVIOUS
  <2> HIDE DEF T
  <2> QED  BY <1>1, <1>2, <2>1, Induct
<1> QED  BY <1>3

LEMMA LastOf ==
    ASSUME NEW D, NEW s \in Seq(D), s # <<>>
    PROVE  \E front \in Seq(D), e \in D : s = Append(front, e)
<1> DEFINE n == Len(s) - 1
<1>0. n \in Nat /\ Len(s) = n + 1
  OBVIOUS
<1> HIDE DEF n
<1>1. PICK front : front = SubSeq(s, 1, n)
  OBVIOUS
<1>2. front \in Seq(D) /\ Len(front) = n /\ s[n + 1] \in D
  BY <1>0, <1>1
<1>3. \A i \in 1 .. n : front[i] = s[i]
  BY <1>0, <1>1
<1>4. PICK whole : whole = Append(front, s[n + 1])
  OBVIOUS
<1>5. whole \in Seq(D) /\ Len(whole) = n + 1
  BY <1>0, <1>2, <1>4
<1>6. \A i \in 1 .. n + 1 : whole[i] = s[i]
  BY <1>0, <1>2, <1>3, <1>4
<1>7. whole = s
  BY <1>0, <1>5, <1>6
<1> QED  BY <1>2, <1>4, <1>7

LEMMA SeqInduct ==
    ASSUME NEW D, NEW S \in SUBSET Seq(D), <<>> \in S,
           \A s \in S, e \in D : Append(s, e) \in S
    PROVE  Seq(D) \subseteq S
<1> DEFINE T == {n \in Nat : \A s \in Seq(D) : Len(s) = n => s \in S}
<1>1. 0 \in T
  <2>1. \A s \in Seq(D) : Len(s) = 0 => s = <<>>
    OBVIOUS
  <2> QED  BY <2>1
<1>2. ASSUME NEW n \in T PROVE n + 1 \in T
  <2>1. SUFFICES ASSUME NEW s \in Seq(D), Len(s) = n + 1 PROVE s \in S
    OBVIOUS
  <2>2. s # <<>>
    BY <2>1
  <2>3. PICK front \in Seq(D), e \in D : s = Append(front, e)
    BY <2>2, LastOf, Zenon
  <2>4. front \in S
    BY <2>1, <2>3
  <2> QED  BY <2>3, <2>4
<1>3. Nat \subseteq T
  <2>1. T \in SUBSET Nat
    OBVIOUS
  <2> HIDE DEF T
  <2> QED  BY <1>1, <1>2, <2>1, Induct
<1> QED  BY <1>3

-----------------------------------------------------------------------------
(* Recursive functions and folds.                                             *)

Follows(f, base, step, n) == f[0] = base /\ \A k \in 1 .. n : f[k] = step[<<f[k - 1], k>>]

LEMMA RecursionExists ==
    ASSUME NEW n \in Nat, NEW T, NEW base \in T, NEW step \in [T \X (1 .. n) -> T]
    PROVE  \E f \in [0 .. n -> T] : Follows(f, base, step, n)
<1> DEFINE Good(m, f) == f[0] = base /\ \A k \in 1 .. m : f[k] = step[<<f[k - 1], k>>]
           S == {m \in 0 .. n : \E f \in [0 .. m -> T] : Good(m, f)}
<1>1. 0 \in S
  <2> DEFINE f == [k \in 0 .. 0 |-> base]
  <2>1. f \in [0 .. 0 -> T] /\ Good(0, f)
    OBVIOUS
  <2>2. \E g \in [0 .. 0 -> T] : Good(0, g)
    BY <2>1
  <2> QED  BY <2>2
<1>2. ASSUME NEW m \in 1 .. n, m - 1 \in S PROVE m \in S
  <2>1. PICK f \in [0 .. m - 1 -> T] : Good(m - 1, f)
    BY <1>2
  <2> DEFINE g == [k \in 0 .. m |-> IF k = m THEN step[<<f[m - 1], m>>] ELSE f[k]]
  <2>2. m - 1 \in 0 .. m - 1 /\ f[m - 1] \in T
    OBVIOUS
  <2>3. step[<<f[m - 1], m>>] \in T
    BY <2>2
  <2>4. g \in [0 .. m -> T]
    BY <2>3
  <2>5. g[0] = base /\ g[m] = step[<<f[m - 1], m>>]
    BY <2>1
  <2>6. ASSUME NEW k \in 1 .. m PROVE g[k] = step[<<g[k - 1], k>>]
    <3>1. k - 1 \in 0 .. m - 1 /\ g[k - 1] = f[k - 1]
      OBVIOUS
    <3>2. CASE k = m
      <4> HIDE DEF g
      <4> QED  BY <2>5, <3>1, <3>2
    <3>3. CASE k # m
      <4>1. k \in 1 .. m - 1
        BY <3>3
      <4>2. g[k] = f[k]
        BY <3>3
      <4> QED  BY <2>1, <3>1, <4>1, <4>2
    <3> QED  BY <3>2, <3>3
  <2>7. Good(m, g)
    BY <2>5, <2>6
  <2> HIDE DEF Good, g
  <2> QED  BY <2>4, <2>7
<1>3. S \in SUBSET (0 .. n)
  OBVIOUS
<1>4. n \in S
  <2> HIDE DEF S
  <2>1. \A k \in 0 .. n : k \in S
    BY <1>1, <1>2, <1>3, InductTo
  <2> QED  BY <2>1
<1> QED  BY <1>4 DEF Follows

LEMMA MaxIs ==
    ASSUME NEW n \in Nat, NEW s \in SUBSET (1 .. n), s # {}
    PROVE  Max(s) \in s /\ \A k \in s : k <= Max(s)
<1> DEFINE P == {m \in 0 .. n : s \cap (1 .. m) # {} => \E x \in s \cap (1 .. m) : \A y \in s \cap (1 .. m) : x >= y}
<1>1. 0 \in P
  OBVIOUS
<1>2. ASSUME NEW m \in 1 .. n, m - 1 \in P PROVE m \in P
  <2>1. CASE m \in s
    <3>1. m \in s \cap (1 .. m) /\ \A y \in s \cap (1 .. m) : m >= y
      BY <2>1
    <3> QED  BY <3>1
  <2>2. CASE m \notin s
    <3>1. s \cap (1 .. m) = s \cap (1 .. m - 1)
      BY <2>2
    <3>2. m \in 0 .. n
      OBVIOUS
    <3> QED  BY <1>2, <3>1, <3>2
  <2> QED  BY <2>1, <2>2
<1>3. P \in SUBSET (0 .. n)
  OBVIOUS
<1>4. n \in P
  <2> HIDE DEF P
  <2>1. \A k \in 0 .. n : k \in P
    BY <1>1, <1>2, <1>3, InductTo
  <2> QED  BY <2>1
<1>5. s \cap (1 .. n) = s
  OBVIOUS
<1>6. \E x \in s : \A y \in s : x >= y
  BY <1>4, <1>5
<1>7. Max(s) \in s /\ \A y \in s : Max(s) >= y
  BY <1>6 DEF Max
<1> DEFINE m == Max(s)
<1> HIDE DEF m
<1>8. m \in s /\ \A y \in s : m >= y
  BY <1>7 DEF m
<1>9. m \in s /\ \A y \in s : y <= m
  BY <1>8
<1> QED  BY <1>9 DEF m

(* What FoldLeft chooses exists.                                              *)
Folds(h, base, step, n) ==
    \A s \in SUBSET (1 .. n) : h[s] = IF s = {} THEN base ELSE step[<<h[s \ {Max(s)}], Max(s)>>]

LEMMA FoldExists ==
    ASSUME NEW T, NEW base \in T, NEW n \in Nat, NEW step \in [T \X (1 .. n) -> T]
    PROVE  \E h \in [SUBSET (1 .. n) -> T] : Folds(h, base, step, n)
<1> DEFINE Run == [0 .. n -> T]
           Set == SUBSET (1 .. n)
           Runs(s, f) ==
              /\ f[0] = base
              /\ \A k \in 1 .. n : f[k] = IF k \in s THEN step[<<f[k - 1], k>>] ELSE f[k - 1]
<1>1. ASSUME NEW s \in Set
      PROVE  \E f \in Run : Runs(s, f)
  <2> DEFINE skip == [p \in T \X (1 .. n) |-> IF p[2] \in s THEN step[p] ELSE p[1]]
  <2>1. skip \in [T \X (1 .. n) -> T]
    OBVIOUS
  <2>2. \A x \in T, k \in 1 .. n : skip[<<x, k>>] = IF k \in s THEN step[<<x, k>>] ELSE x
    OBVIOUS
  <2> HIDE DEF skip
  <2>3. PICK f \in [0 .. n -> T] : Follows(f, base, skip, n)
    BY <2>1, RecursionExists, Zenon
  <2>4. ASSUME NEW k \in 1 .. n
        PROVE  f[k] = IF k \in s THEN step[<<f[k - 1], k>>] ELSE f[k - 1]
    <3>1. f[k - 1] \in T
      OBVIOUS
    <3>2. skip[<<f[k - 1], k>>] = IF k \in s THEN step[<<f[k - 1], k>>] ELSE f[k - 1]
      BY <2>2, <3>1
    <3> QED  BY <2>3, <3>2 DEF Follows
  <2> QED  BY <2>3, <2>4 DEF Follows
<1> DEFINE run == [s \in Set |-> CHOOSE f \in Run : Runs(s, f)]
<1>a. ASSUME NEW s \in Set PROVE run[s] \in Run /\ Runs(s, run[s])
  <2> HIDE DEF Run, Set, Runs
  <2> QED  BY <1>1
<1>2. ASSUME NEW s \in Set
      PROVE  /\ run[s] \in Run
             /\ run[s][0] = base
             /\ \A k \in 1 .. n :
                   run[s][k] = IF k \in s THEN step[<<run[s][k - 1], k>>] ELSE run[s][k - 1]
  <2> HIDE DEF Run, Set, run
  <2> QED  BY <1>a
<1> HIDE DEF run
<1>3. ASSUME NEW s \in Set, NEW t \in Set, NEW m \in 0 .. n,
             \A k \in 1 .. m : k \in s <=> k \in t
      PROVE  run[s][m] = run[t][m]
  <2> DEFINE S == {k \in 0 .. n : k <= m => run[s][k] = run[t][k]}
  <2>1. 0 \in S
    BY <1>2
  <2>2. ASSUME NEW k \in 1 .. n, k - 1 \in S PROVE k \in S
    <3> SUFFICES ASSUME k <= m PROVE run[s][k] = run[t][k]
      OBVIOUS
    <3>1. run[s][k - 1] = run[t][k - 1]
      BY <2>2
    <3>2. k \in s <=> k \in t
      BY <1>3
    <3>3. run[s][k] = IF k \in s THEN step[<<run[s][k - 1], k>>] ELSE run[s][k - 1]
      BY <1>2
    <3>4. run[t][k] = IF k \in t THEN step[<<run[t][k - 1], k>>] ELSE run[t][k - 1]
      BY <1>2
    <3> QED  BY <3>1, <3>2, <3>3, <3>4
  <2>3. S \in SUBSET (0 .. n)
    OBVIOUS
  <2>4. m \in S
    <3> HIDE DEF S
    <3> QED  BY <2>1, <2>2, <2>3, InductTo
  <2> QED  BY <2>4
<1>4. ASSUME NEW s \in Set, NEW m \in 0 .. n, \A k \in s : k <= m
      PROVE  run[s][n] = run[s][m]
  <2> DEFINE S == {k \in 0 .. n : m <= k => run[s][k] = run[s][m]}
  <2>1. 0 \in S
    OBVIOUS
  <2>2. ASSUME NEW k \in 1 .. n, k - 1 \in S PROVE k \in S
    <3> SUFFICES ASSUME m <= k, m # k PROVE run[s][k] = run[s][m]
      OBVIOUS
    <3>1. run[s][k - 1] = run[s][m]
      BY <2>2
    <3>2. k \notin s
      BY <1>4
    <3> QED  BY <1>2, <3>1, <3>2
  <2>3. S \in SUBSET (0 .. n)
    OBVIOUS
  <2>4. n \in S
    <3> HIDE DEF S
    <3> QED  BY <2>1, <2>2, <2>3, InductTo
  <2> QED  BY <2>4
<1> DEFINE h == [s \in Set |-> run[s][n]]
<1>5. h \in [Set -> T]
  BY <1>2
<1>6. h[{}] = base
  <2>1. {} \in Set /\ 0 \in 0 .. n
    OBVIOUS
  <2>2. run[{}][n] = run[{}][0]
    BY <1>4, <2>1
  <2> QED  BY <1>2, <2>1, <2>2
<1>7. ASSUME NEW s \in Set, s # {}
      PROVE  h[s] = step[<<h[s \ {Max(s)}], Max(s)>>]
  <2> DEFINE m == Max(s)
             t == s \ {m}
  <2> HIDE DEF m
  <2>1. m \in s /\ \A k \in s : k <= m
    BY <1>7, MaxIs DEF m
  <2>2. m \in 1 .. n /\ m - 1 \in 0 .. n /\ m \in 0 .. n /\ t \in Set
    BY <2>1
  <2>3. run[s][n] = run[s][m]
    BY <1>4, <2>1, <2>2
  <2>4. run[s][m] = step[<<run[s][m - 1], m>>]
    BY <1>2, <2>1, <2>2
  <2>5. run[s][m - 1] = run[t][m - 1]
    <3>1. \A k \in 1 .. m - 1 : k \in s <=> k \in t
      BY <2>2
    <3> HIDE DEF t, Set
    <3> QED  BY <1>3, <2>2, <3>1
  <2>6. run[t][n] = run[t][m - 1]
    <3>1. \A k \in t : k <= m - 1
      BY <2>1, <2>2
    <3> HIDE DEF t, Set
    <3> QED  BY <1>4, <2>2, <3>1
  <2>7. h[s] = run[s][n] /\ h[t] = run[t][n]
    BY <2>2
  <2> HIDE DEF h
  <2>8. h[s] = step[<<h[t], m>>]
    BY <2>3, <2>4, <2>5, <2>6, <2>7
  <2> QED  BY <2>8 DEF m
<1> HIDE DEF h
<1>8. \A s \in Set : h[s] = IF s = {} THEN base ELSE step[<<h[s \ {Max(s)}], Max(s)>>]
  BY <1>6, <1>7
<1> QED  BY <1>5, <1>8 DEF Folds

LEMMA PrefixSet ==
    ASSUME NEW n \in Nat, NEW k \in 1 .. n
    PROVE  /\ 1 .. k \in SUBSET (1 .. n) /\ 1 .. k # {}
           /\ Max(1 .. k) = k /\ (1 .. k) \ {k} = 1 .. (k - 1)
<1>1. 1 .. k \in SUBSET (1 .. n) /\ 1 .. k # {} /\ k \in 1 .. k
  OBVIOUS
<1>2. Max(1 .. k) \in 1 .. k /\ \A m \in 1 .. k : m <= Max(1 .. k)
  BY <1>1, MaxIs
<1>3. Max(1 .. k) = k
  BY <1>1, <1>2
<1> QED  BY <1>1, <1>3

-----------------------------------------------------------------------------
(* Names and members of lists.                                                *)

LEMMA NilFacts ==
    /\ NameSet(<<>>) = {} /\ ToSet(<<>>) = {} /\ NamesOf(<<>>) = <<>>
    /\ Distinct(<<>>)
<1>1. DOMAIN <<>> = {}
  OBVIOUS
<1>2. NameSet(<<>>) = {} /\ ToSet(<<>>) = {}
  BY <1>1 DEF NameSet, ToSet
<1>3. NamesOf(<<>>) = <<>>
  BY <1>1 DEF NamesOf
<1>4. Distinct(<<>>)
  BY <1>1, <1>3 DEF Distinct, IsInjective
<1> QED  BY <1>2, <1>3, <1>4

LEMMA NamesSeq ==
    ASSUME NEW l \in Seq(Column)
    PROVE  /\ NamesOf(l) \in Seq(Names) /\ Len(NamesOf(l)) = Len(l)
           /\ \A i \in 1 .. Len(l) : NamesOf(l)[i] = l[i].name /\ l[i] \in Column /\ l[i].name \in Names
           /\ NameSet(l) = {l[i].name : i \in 1 .. Len(l)} /\ NameSet(l) \subseteq Names
           /\ ToSet(l) = {l[i] : i \in 1 .. Len(l)} /\ ToSet(l) \subseteq Column
<1>1. DOMAIN l = 1 .. Len(l) /\ \A i \in 1 .. Len(l) : l[i] \in Column
  OBVIOUS
<1>2. \A c \in Column : c.name \in Names
  BY DEF Column
<1>3. NamesOf(l) = [i \in 1 .. Len(l) |-> l[i].name]
  BY <1>1 DEF NamesOf
<1>4. Len(l) \in Nat
  OBVIOUS
<1>5. NamesOf(l) \in Seq(Names) /\ Len(NamesOf(l)) = Len(l)
  BY <1>1, <1>2, <1>3, <1>4
<1> QED  BY <1>1, <1>2, <1>3, <1>5 DEF NameSet, ToSet

LEMMA HasIs ==
    ASSUME NEW l \in Seq(Column), NEW name
    PROVE  Has(l, name) <=> \E i \in 1 .. Len(l) : l[i].name = name
BY NamesSeq DEF Has

LEMMA DistinctIs ==
    ASSUME NEW l \in Seq(Column)
    PROVE  Distinct(l) <=> \A i, j \in 1 .. Len(l) : l[i].name = l[j].name => i = j
<1>1. DOMAIN NamesOf(l) = 1 .. Len(l) /\ \A i \in 1 .. Len(l) : NamesOf(l)[i] = l[i].name
  BY NamesSeq DEF NamesOf
<1> QED  BY <1>1 DEF Distinct, IsInjective

LEMMA AppendFacts ==
    ASSUME NEW l \in Seq(Column), NEW c \in Column
    PROVE  /\ NameSet(Append(l, c)) = NameSet(l) \cup {c.name}
           /\ ToSet(Append(l, c)) = ToSet(l) \cup {c}
           /\ NamesOf(Append(l, c)) = Append(NamesOf(l), c.name)
<1> DEFINE m == Append(l, c)
           n == Len(l)
<1>1. m \in Seq(Column) /\ n \in Nat /\ Len(m) = n + 1
  OBVIOUS
<1>2. (\A i \in 1 .. n : m[i] = l[i]) /\ m[n + 1] = c
  OBVIOUS
<1> HIDE DEF m
<1>3. 1 .. n + 1 = (1 .. n) \cup {n + 1}
  BY <1>1
<1>4. NameSet(m) = {m[i].name : i \in 1 .. n + 1} /\ NameSet(l) = {l[i].name : i \in 1 .. n}
  BY <1>1, NamesSeq
<1>5. ToSet(m) = {m[i] : i \in 1 .. n + 1} /\ ToSet(l) = {l[i] : i \in 1 .. n}
  BY <1>1, NamesSeq
<1> DEFINE p == Append(NamesOf(l), c.name)
<1>6. NamesOf(l) \in Seq(Names) /\ Len(NamesOf(l)) = n /\ \A i \in 1 .. n : NamesOf(l)[i] = l[i].name
  BY NamesSeq
<1>7. c.name \in Names
  BY DEF Column
<1>8. p \in Seq(Names) /\ Len(p) = n + 1 /\ (\A i \in 1 .. n : p[i] = l[i].name) /\ p[n + 1] = c.name
  BY <1>6, <1>7
<1>9. NamesOf(m) \in Seq(Names) /\ Len(NamesOf(m)) = n + 1
      /\ \A i \in 1 .. n + 1 : NamesOf(m)[i] = m[i].name
  BY <1>1, NamesSeq
<1> HIDE DEF p, n
<1>10. NamesOf(m) = p
  <2>1. \A i \in 1 .. n + 1 : NamesOf(m)[i] = p[i]
    BY <1>1, <1>2, <1>3, <1>8, <1>9
  <2> QED  BY <1>1, <1>8, <1>9, <2>1, SeqEqual
<1>11. NameSet(m) = NameSet(l) \cup {c.name}
  BY <1>2, <1>3, <1>4
<1>12. ToSet(m) = ToSet(l) \cup {c}
  BY <1>2, <1>3, <1>5
<1> QED  BY <1>10, <1>11, <1>12 DEF m, p

LEMMA ConcatFacts ==
    ASSUME NEW a \in Seq(Column), NEW b \in Seq(Column)
    PROVE  /\ a \o b \in Seq(Column) /\ Len(a \o b) = Len(a) + Len(b)
           /\ NameSet(a \o b) = NameSet(a) \cup NameSet(b)
           /\ ToSet(a \o b) = ToSet(a) \cup ToSet(b)
           /\ NamesOf(a \o b) = NamesOf(a) \o NamesOf(b)
<1> DEFINE Good == {d \in Seq(Column) :
                      /\ NameSet(a \o d) = NameSet(a) \cup NameSet(d)
                      /\ ToSet(a \o d) = ToSet(a) \cup ToSet(d)
                      /\ NamesOf(a \o d) = NamesOf(a) \o NamesOf(d)}
<1>1. <<>> \in Good
  <2>1. a \o <<>> = a /\ <<>> \in Seq(Column)
    OBVIOUS
  <2>2. NamesOf(a) \o <<>> = NamesOf(a)
    BY NamesSeq
  <2> QED  BY <2>1, <2>2, NilFacts
<1>2. ASSUME NEW d \in Good, NEW c \in Column PROVE Append(d, c) \in Good
  <2>1. d \in Seq(Column) /\ Append(d, c) \in Seq(Column) /\ a \o d \in Seq(Column)
    OBVIOUS
  <2>2. a \o Append(d, c) = Append(a \o d, c)
    BY <2>1
  <2>3. NamesOf(a) \o Append(NamesOf(d), c.name) = Append(NamesOf(a) \o NamesOf(d), c.name)
    <3>1. NamesOf(a) \in Seq(Names) /\ NamesOf(d) \in Seq(Names) /\ c.name \in Names
      BY <2>1, NamesSeq DEF Column
    <3> QED  BY <3>1
  <2>4. /\ NameSet(Append(d, c)) = NameSet(d) \cup {c.name}
        /\ ToSet(Append(d, c)) = ToSet(d) \cup {c}
        /\ NamesOf(Append(d, c)) = Append(NamesOf(d), c.name)
    BY <2>1, AppendFacts
  <2>5. /\ NameSet(Append(a \o d, c)) = NameSet(a \o d) \cup {c.name}
        /\ ToSet(Append(a \o d, c)) = ToSet(a \o d) \cup {c}
        /\ NamesOf(Append(a \o d, c)) = Append(NamesOf(a \o d), c.name)
    BY <2>1, AppendFacts
  <2>6. /\ NameSet(a \o d) = NameSet(a) \cup NameSet(d)
        /\ ToSet(a \o d) = ToSet(a) \cup ToSet(d)
        /\ NamesOf(a \o d) = NamesOf(a) \o NamesOf(d)
    OBVIOUS
  <2> QED  BY <2>1, <2>2, <2>3, <2>4, <2>5, <2>6
<1>3. b \in Good
  <2>1. Good \in SUBSET Seq(Column)
    OBVIOUS
  <2> HIDE DEF Good
  <2> QED  BY <1>1, <1>2, <2>1, SeqInduct
<1> QED  BY <1>3

-----------------------------------------------------------------------------
(* A list around one of its columns: what stands before it, it, the rest.     *)

LEMMA DistinctConcat ==
    ASSUME NEW a \in Seq(Column), NEW b \in Seq(Column)
    PROVE  Distinct(a \o b) <=> Distinct(a) /\ Distinct(b) /\ NameSet(a) \cap NameSet(b) = {}
<1> DEFINE m == a \o b
           p == Len(a)
           q == Len(b)
<1>1. m \in Seq(Column) /\ p \in Nat /\ q \in Nat /\ Len(m) = p + q
  OBVIOUS
<1>2. (\A i \in 1 .. p : m[i] = a[i]) /\ (\A i \in 1 .. q : m[p + i] = b[i])
  OBVIOUS
<1>3. Distinct(m) <=> \A i, j \in 1 .. p + q : m[i].name = m[j].name => i = j
  BY <1>1, DistinctIs
<1>4. Distinct(a) <=> \A i, j \in 1 .. p : a[i].name = a[j].name => i = j
  BY DistinctIs
<1>5. Distinct(b) <=> \A i, j \in 1 .. q : b[i].name = b[j].name => i = j
  BY DistinctIs
<1>6. NameSet(a) = {a[i].name : i \in 1 .. p} /\ NameSet(b) = {b[i].name : i \in 1 .. q}
  BY NamesSeq
<1> HIDE DEF m, p, q
<1>7. ASSUME Distinct(m) PROVE Distinct(a) /\ Distinct(b) /\ NameSet(a) \cap NameSet(b) = {}
  <2>1. Distinct(a)
    <3>1. \A i \in 1 .. p : i \in 1 .. p + q
      BY <1>1
    <3> QED  BY <1>2, <1>3, <1>4, <1>7, <3>1
  <2>2. Distinct(b)
    <3>1. \A i \in 1 .. q : p + i \in 1 .. p + q
      BY <1>1
    <3>2. ASSUME NEW i \in 1 .. q, NEW j \in 1 .. q, b[i].name = b[j].name PROVE i = j
      <4>1. m[p + i].name = m[p + j].name
        BY <1>2, <3>2
      <4>2. p + i = p + j
        BY <1>3, <1>7, <3>1, <4>1
      <4> QED  BY <1>1, <4>2
    <3> QED  BY <1>5, <3>2
  <2>3. ASSUME NEW i \in 1 .. p, NEW j \in 1 .. q, a[i].name = b[j].name PROVE FALSE
    <3>1. i \in 1 .. p + q /\ p + j \in 1 .. p + q /\ i # p + j
      BY <1>1
    <3>2. m[i].name = m[p + j].name
      BY <1>2, <2>3
    <3> QED  BY <1>3, <1>7, <3>1, <3>2
  <2> QED  BY <1>6, <2>1, <2>2, <2>3
<1>8. ASSUME Distinct(a), Distinct(b), NameSet(a) \cap NameSet(b) = {} PROVE Distinct(m)
  <2>1. ASSUME NEW i \in 1 .. p + q, NEW j \in 1 .. p + q, m[i].name = m[j].name PROVE i = j
    <3>1. CASE i \in 1 .. p /\ j \in 1 .. p
      BY <1>2, <1>4, <1>8, <2>1, <3>1
    <3>2. CASE i \in p + 1 .. p + q /\ j \in p + 1 .. p + q
      <4>1. i - p \in 1 .. q /\ j - p \in 1 .. q /\ p + (i - p) = i /\ p + (j - p) = j
        BY <1>1, <3>2
      <4>2. b[i - p].name = b[j - p].name
        BY <1>2, <2>1, <4>1
      <4>3. i - p = j - p
        BY <1>5, <1>8, <4>1, <4>2
      <4> QED  BY <1>1, <3>2, <4>3
    <3>3. CASE i \in 1 .. p /\ j \in p + 1 .. p + q
      <4>1. j - p \in 1 .. q /\ p + (j - p) = j
        BY <1>1, <3>3
      <4>2. m[i] = a[i] /\ m[j] = b[j - p]
        BY <1>2, <3>3, <4>1
      <4>3. a[i].name # b[j - p].name
        BY <1>6, <1>8, <3>3, <4>1
      <4> QED  BY <2>1, <4>2, <4>3
    <3>4. CASE j \in 1 .. p /\ i \in p + 1 .. p + q
      <4>1. i - p \in 1 .. q /\ p + (i - p) = i
        BY <1>1, <3>4
      <4>2. m[j] = a[j] /\ m[i] = b[i - p]
        BY <1>2, <3>4, <4>1
      <4>3. a[j].name # b[i - p].name
        BY <1>6, <1>8, <3>4, <4>1
      <4> QED  BY <2>1, <4>2, <4>3
    <3> QED  BY <1>1, <3>1, <3>2, <3>3, <3>4
  <2> QED  BY <1>3, <2>1
<1> QED  BY <1>7, <1>8 DEF m

LEMMA DistinctAppend ==
    ASSUME NEW l \in Seq(Column), NEW c \in Column
    PROVE  Distinct(Append(l, c)) <=> Distinct(l) /\ c.name \notin NameSet(l)
<1>1. PICK s : s = <<c>>
  OBVIOUS
<1>2. Append(l, c) = l \o s /\ s \in Seq(Column) /\ Len(s) = 1 /\ s[1] = c
  BY <1>1
<1>3. Distinct(s)
  <2>1. \A i, j \in 1 .. Len(s) : s[i].name = s[j].name => i = j
    BY <1>2
  <2> QED  BY <1>2, <2>1, DistinctIs
<1>4. NameSet(s) = {c.name}
  <2>1. NameSet(s) = {s[i].name : i \in 1 .. Len(s)}
    BY <1>2, NamesSeq
  <2> QED  BY <1>2, <2>1
<1>5. Distinct(l \o s) <=> Distinct(l) /\ Distinct(s) /\ NameSet(l) \cap NameSet(s) = {}
  BY <1>2, DistinctConcat
<1> QED  BY <1>2, <1>3, <1>4, <1>5

(* Around(a, c, b): the column c between the lists a and b.                   *)
Around(a, c, b) == Append(a, c) \o b

LEMMA AroundSeq ==
    ASSUME NEW a \in Seq(Column), NEW b \in Seq(Column), NEW c \in Column
    PROVE  /\ Around(a, c, b) \in Seq(Column) /\ Around(a, c, b) # <<>>
           /\ Len(Around(a, c, b)) = Len(a) + 1 + Len(b)
           /\ \A k \in 1 .. Len(a) : Around(a, c, b)[k] = a[k]
           /\ Around(a, c, b)[Len(a) + 1] = c
           /\ \A k \in 1 .. Len(b) : Around(a, c, b)[Len(a) + 1 + k] = b[k]
<1>1. Append(a, c) \in Seq(Column) /\ Len(Append(a, c)) = Len(a) + 1
  OBVIOUS
<1>2. Around(a, c, b) \in Seq(Column) /\ Len(Around(a, c, b)) = Len(a) + 1 + Len(b)
  BY <1>1 DEF Around
<1>3. /\ \A k \in 1 .. Len(a) : Around(a, c, b)[k] = a[k]
      /\ Around(a, c, b)[Len(a) + 1] = c
      /\ \A k \in 1 .. Len(b) : Around(a, c, b)[Len(a) + 1 + k] = b[k]
  BY <1>1 DEF Around
<1>4. Around(a, c, b) # <<>>
  <2>1. Len(Around(a, c, b)) # 0
    BY <1>2
  <2> QED  BY <2>1
<1> QED  BY <1>2, <1>3, <1>4

LEMMA AroundNames ==
    ASSUME NEW a \in Seq(Column), NEW b \in Seq(Column), NEW c \in Column
    PROVE  /\ NameSet(Around(a, c, b)) = NameSet(a) \cup {c.name} \cup NameSet(b)
           /\ ToSet(Around(a, c, b)) = ToSet(a) \cup {c} \cup ToSet(b)
           /\ Distinct(Around(a, c, b)) <=>
                 /\ Distinct(a \o b)
                 /\ c.name \notin NameSet(a) /\ c.name \notin NameSet(b)
<1>1. Append(a, c) \in Seq(Column)
  OBVIOUS
<1>2. /\ NameSet(Around(a, c, b)) = NameSet(a) \cup {c.name} \cup NameSet(b)
      /\ ToSet(Around(a, c, b)) = ToSet(a) \cup {c} \cup ToSet(b)
  <2>1. NameSet(Append(a, c)) = NameSet(a) \cup {c.name} /\ ToSet(Append(a, c)) = ToSet(a) \cup {c}
    BY AppendFacts
  <2>2. /\ NameSet(Append(a, c) \o b) = NameSet(Append(a, c)) \cup NameSet(b)
        /\ ToSet(Append(a, c) \o b) = ToSet(Append(a, c)) \cup ToSet(b)
    BY <1>1, ConcatFacts
  <2> QED  BY <2>1, <2>2 DEF Around
<1>3. Distinct(Around(a, c, b)) <=> Distinct(Append(a, c)) /\ Distinct(b)
                                    /\ NameSet(Append(a, c)) \cap NameSet(b) = {}
  BY <1>1, DistinctConcat DEF Around
<1>4. NameSet(Append(a, c)) = NameSet(a) \cup {c.name}
  BY AppendFacts
<1>5. Distinct(Append(a, c)) <=> Distinct(a) /\ c.name \notin NameSet(a)
  BY DistinctAppend
<1>6. Distinct(a \o b) <=> Distinct(a) /\ Distinct(b) /\ NameSet(a) \cap NameSet(b) = {}
  BY DistinctConcat
<1> QED  BY <1>2, <1>3, <1>4, <1>5, <1>6

LEMMA SplitAt ==
    ASSUME NEW l \in Seq(Column), NEW i \in 1 .. Len(l)
    PROVE  \E a, b \in Seq(Column) : l = Around(a, l[i], b) /\ Len(a) = i - 1
<1>1. PICK a : a = SubSeq(l, 1, i - 1)
  OBVIOUS
<1>2. PICK b : b = SubSeq(l, i + 1, Len(l))
  OBVIOUS
<1>3. a \in Seq(Column) /\ Len(a) = i - 1 /\ \A k \in 1 .. i - 1 : a[k] = l[k]
  BY <1>1
<1>4. b \in Seq(Column) /\ Len(b) = Len(l) - i /\ \A k \in 1 .. Len(l) - i : b[k] = l[i + k]
  BY <1>2
<1>5. l[i] \in Column
  OBVIOUS
<1> DEFINE m == Around(a, l[i], b)
<1>6. /\ m \in Seq(Column) /\ m # <<>>
      /\ Len(m) = Len(a) + 1 + Len(b)
      /\ \A k \in 1 .. Len(a) : m[k] = a[k]
      /\ m[Len(a) + 1] = l[i]
      /\ \A k \in 1 .. Len(b) : m[Len(a) + 1 + k] = b[k]
  BY <1>3, <1>4, <1>5, AroundSeq, Zenon
<1> HIDE DEF m
<1>7. Len(m) = Len(l)
  BY <1>3, <1>4, <1>6
<1>8. ASSUME NEW k \in 1 .. Len(l) PROVE m[k] = l[k]
  <2>1. CASE k < i
    BY <1>3, <1>6, <2>1
  <2>2. CASE k = i
    BY <1>3, <1>6, <2>2
  <2>3. CASE k > i
    <3>1. k - i \in 1 .. Len(b) /\ Len(a) + 1 + (k - i) = k /\ i + (k - i) = k
      BY <1>3, <1>4, <2>3
    <3> QED  BY <1>4, <1>6, <3>1
  <2> QED  BY <2>1, <2>2, <2>3
<1>9. m = l
  BY <1>6, <1>7, <1>8, SeqEqual
<1> QED  BY <1>3, <1>4, <1>9 DEF m

LEMMA Split ==
    ASSUME NEW l \in Seq(Column), NEW name, Has(l, name)
    PROVE  \E a, b \in Seq(Column), c \in Column : l = Around(a, c, b) /\ c.name = name
<1>1. PICK i \in 1 .. Len(l) : l[i].name = name
  BY HasIs
<1>2. l[i] \in Column
  OBVIOUS
<1>3. \E a, b \in Seq(Column) : l = Around(a, l[i], b)
  BY SplitAt
<1> QED  BY <1>1, <1>2, <1>3

LEMMA AtAround ==
    ASSUME NEW a \in Seq(Column), NEW b \in Seq(Column), NEW c \in Column,
           Distinct(Around(a, c, b))
    PROVE  /\ At(Around(a, c, b), c.name) = Len(a) + 1
           /\ Lookup(Around(a, c, b), c.name) = c
<1> DEFINE m == Around(a, c, b)
<1>1. m \in Seq(Column) /\ Len(m) = Len(a) + 1 + Len(b) /\ m[Len(a) + 1] = c
  BY AroundSeq
<1> HIDE DEF m
<1>2. Len(a) + 1 \in 1 .. Len(m) /\ DOMAIN m = 1 .. Len(m)
  BY <1>1
<1>3. \A i, j \in 1 .. Len(m) : m[i].name = m[j].name => i = j
  BY <1>1, DistinctIs DEF m
<1>4. At(m, c.name) \in DOMAIN m /\ m[At(m, c.name)].name = c.name
  BY <1>1, <1>2 DEF At
<1>5. At(m, c.name) = Len(a) + 1
  BY <1>1, <1>2, <1>3, <1>4
<1> QED  BY <1>1, <1>5 DEF m, Lookup

LEMMA SwapAround ==
    ASSUME NEW a \in Seq(Column), NEW b \in Seq(Column), NEW c \in Column, NEW d \in Column
    PROVE  [Around(a, c, b) EXCEPT ![Len(a) + 1] = d] = Around(a, d, b)
<1> DEFINE m == Around(a, c, b)
           w == Around(a, d, b)
           x == [m EXCEPT ![Len(a) + 1] = d]
<1>1. /\ m \in Seq(Column) /\ m # <<>>
      /\ Len(m) = Len(a) + 1 + Len(b)
      /\ \A k \in 1 .. Len(a) : m[k] = a[k]
      /\ m[Len(a) + 1] = c
      /\ \A k \in 1 .. Len(b) : m[Len(a) + 1 + k] = b[k]
  BY AroundSeq, ZenonT(30)
<1>2. /\ w \in Seq(Column) /\ w # <<>>
      /\ Len(w) = Len(a) + 1 + Len(b)
      /\ \A k \in 1 .. Len(a) : w[k] = a[k]
      /\ w[Len(a) + 1] = d
      /\ \A k \in 1 .. Len(b) : w[Len(a) + 1 + k] = b[k]
  BY AroundSeq, ZenonT(30)
<1> HIDE DEF m, w
<1>3. Len(a) + 1 \in 1 .. Len(m)
  BY <1>1
<1>4. /\ x \in Seq(Column) /\ Len(x) = Len(m)
      /\ \A j \in 1 .. Len(m) : x[j] = IF j = Len(a) + 1 THEN d ELSE m[j]
  BY <1>1, <1>3, ExceptSeq
<1> HIDE DEF x
<1>5. ASSUME NEW k \in 1 .. Len(m) PROVE x[k] = w[k]
  <2>1. CASE k < Len(a) + 1
    <3>1. k \in 1 .. Len(a) /\ k # Len(a) + 1
      BY <2>1
    <3> QED  BY <1>1, <1>2, <1>4, <3>1
  <2>2. CASE k = Len(a) + 1
    BY <1>2, <1>4, <2>2
  <2>3. CASE k > Len(a) + 1
    <3>1. k - (Len(a) + 1) \in 1 .. Len(b) /\ Len(a) + 1 + (k - (Len(a) + 1)) = k
      BY <1>1, <2>3
    <3>2. m[k] = b[k - (Len(a) + 1)] /\ w[k] = b[k - (Len(a) + 1)]
      BY <1>1, <1>2, <3>1
    <3>3. x[k] = m[k]
      BY <1>4, <2>3
    <3> QED  BY <3>2, <3>3
  <2> QED  BY <1>1, <2>1, <2>2, <2>3
<1>6. x = w
  BY <1>1, <1>2, <1>4, <1>5, SeqEqual
<1> QED  BY <1>6 DEF x, w, m

LEMMA InsertBetween ==
    ASSUME NEW a \in Seq(Column), NEW b \in Seq(Column), NEW c \in Column
    PROVE  InsertAt(a \o b, Len(a) + 1, c) = Around(a, c, b)
<1> DEFINE l == a \o b
<1>1. l \in Seq(Column) /\ Len(l) = Len(a) + Len(b) /\ (Len(a) + 1) - 1 = Len(a)
  OBVIOUS
<1>2. SubSeq(l, 1, Len(a)) = a
  <2>1. PICK s : s = SubSeq(l, 1, Len(a))
    OBVIOUS
  <2>2. s \in Seq(Column) /\ Len(s) = Len(a)
    BY <2>1
  <2>3. \A k \in 1 .. Len(a) : s[k] = a[k]
    BY <2>1
  <2> QED  BY <2>1, <2>2, <2>3, SeqEqual
<1>3. SubSeq(l, Len(a) + 1, Len(l)) = b
  <2>1. PICK s : s = SubSeq(l, Len(a) + 1, Len(l))
    OBVIOUS
  <2>2. s \in Seq(Column) /\ Len(s) = Len(b)
    BY <1>1, <2>1
  <2>3. \A k \in 1 .. Len(b) : s[k] = b[k]
    BY <1>1, <2>1
  <2> QED  BY <2>1, <2>2, <2>3, SeqEqual
<1>4. a \o <<c>> = Append(a, c)
  OBVIOUS
<1> QED  BY <1>1, <1>2, <1>3, <1>4 DEF InsertAt, Around

LEMMA ConcatAppend ==
    ASSUME NEW a \in Seq(Column), NEW b \in Seq(Column), NEW c \in Column
    PROVE  a \o Append(b, c) = Append(a \o b, c)
OBVIOUS

-----------------------------------------------------------------------------
(* Only.                                                                      *)

Chosen(kept, c, S) == IF c.name \in S THEN Append(kept, c) ELSE kept

LEMMA OnlyRecursion ==
    ASSUME NEW l \in Seq(Column), NEW S
    PROVE  \E kept : /\ kept[0] = <<>>
                     /\ \A k \in 1 .. Len(l) : kept[k] = Chosen(kept[k - 1], l[k], S)
                     /\ Only(l, S) = kept[Len(l)]
<1> DEFINE T == Seq(Column)
           n == Len(l)
           step == [p \in T \X (1 .. n) |-> Chosen(p[1], l[p[2]], S)]
<1>1. n \in Nat /\ \A k \in 1 .. n : l[k] \in Column
  OBVIOUS
<1>2. <<>> \in T
  OBVIOUS
<1>3. \A m \in T, c \in Column : Chosen(m, c, S) \in T
  BY DEF Chosen
<1> HIDE DEF T, n
<1>4. step \in [T \X (1 .. n) -> T]
  BY <1>1, <1>3
<1>5. \A m \in T, k \in 1 .. n : step[<<m, k>>] = Chosen(m, l[k], S)
  OBVIOUS
<1> HIDE DEF step
<1>6. PICK f \in [0 .. n -> T] : Follows(f, <<>>, step, n)
  BY <1>1, <1>2, <1>4, RecursionExists, Zenon
<1>7. ASSUME NEW k \in 1 .. n PROVE f[k] = Chosen(f[k - 1], l[k], S)
  <2>1. k - 1 \in 0 .. n
    BY <1>1
  <2>2. f[k - 1] \in T
    BY <2>1
  <2> QED  BY <1>5, <1>6, <2>2 DEF Follows
<1>8. f = [k \in 0 .. n |-> IF k = 0 THEN <<>>
                            ELSE IF l[k].name \in S THEN Append(f[k - 1], l[k]) ELSE f[k - 1]]
  <2>1. f[0] = <<>>
    BY <1>6 DEF Follows
  <2>2. \A k \in 0 .. n : k # 0 => k \in 1 .. n
    BY <1>1
  <2> QED  BY <1>7, <2>1, <2>2 DEF Chosen
<1>9. PICK kept :
         /\ kept = [k \in 0 .. n |->
                      IF k = 0 THEN <<>>
                      ELSE IF l[k].name \in S THEN Append(kept[k - 1], l[k]) ELSE kept[k - 1]]
         /\ Only(l, S) = kept[n]
  BY <1>8, Zenon DEF Only, n
<1>10. kept[0] = <<>>
  <2>1. 0 \in 0 .. n
    BY <1>1
  <2> QED  BY <1>9, <2>1
<1>11. ASSUME NEW k \in 1 .. n PROVE kept[k] = Chosen(kept[k - 1], l[k], S)
  <2>1. k \in 0 .. n /\ k # 0
    BY <1>1
  <2> QED  BY <1>9, <2>1 DEF Chosen
<1> QED  BY <1>9, <1>10, <1>11 DEF n

LEMMA OnlyNil == ASSUME NEW S PROVE Only(<<>>, S) = <<>>
<1>1. <<>> \in Seq(Column) /\ Len(<<>>) = 0
  OBVIOUS
<1> QED  BY <1>1, OnlyRecursion

LEMMA OnlyAppend ==
    ASSUME NEW l \in Seq(Column), NEW c \in Column, NEW S
    PROVE  Only(Append(l, c), S) = IF c.name \in S THEN Append(Only(l, S), c) ELSE Only(l, S)
<1> DEFINE m == Append(l, c)
           n == Len(l)
<1>1. /\ m \in Seq(Column) /\ n \in Nat /\ Len(m) = n + 1
      /\ (\A k \in 1 .. n : m[k] = l[k]) /\ m[n + 1] = c
  OBVIOUS
<1> HIDE DEF m
<1>2. PICK f : /\ f[0] = <<>>
               /\ \A k \in 1 .. n : f[k] = Chosen(f[k - 1], l[k], S)
               /\ Only(l, S) = f[n]
  BY OnlyRecursion
<1>3. PICK g : /\ g[0] = <<>>
               /\ \A k \in 1 .. n + 1 : g[k] = Chosen(g[k - 1], m[k], S)
               /\ Only(m, S) = g[n + 1]
  BY <1>1, OnlyRecursion
<1> HIDE DEF n
<1> DEFINE Same == {k \in 0 .. n : f[k] = g[k]}
<1>4. 0 \in Same
  BY <1>1, <1>2, <1>3
<1>5. ASSUME NEW k \in 1 .. n, k - 1 \in Same PROVE k \in Same
  <2>1. f[k - 1] = g[k - 1] /\ k \in 0 .. n
    BY <1>1, <1>5
  <2>2. f[k] = Chosen(f[k - 1], l[k], S)
    BY <1>2
  <2>3. k \in 1 .. n + 1 /\ m[k] = l[k]
    BY <1>1
  <2>4. g[k] = Chosen(g[k - 1], l[k], S)
    BY <1>3, <2>3
  <2> QED  BY <2>1, <2>2, <2>4
<1>6. n \in Same
  <2>1. Same \in SUBSET (0 .. n) /\ n \in 0 .. n
    BY <1>1
  <2> HIDE DEF Same
  <2> QED  BY <1>1, <1>4, <1>5, <2>1, InductTo
<1>7. g[n + 1] = Chosen(g[n], c, S)
  <2>1. n + 1 \in 1 .. n + 1 /\ (n + 1) - 1 = n
    BY <1>1
  <2>2. g[n + 1] = Chosen(g[(n + 1) - 1], m[n + 1], S)
    BY <1>3, <2>1
  <2> QED  BY <1>1, <2>1, <2>2
<1> QED  BY <1>2, <1>3, <1>6, <1>7 DEF m, Chosen

LEMMA OnlyMembers ==
    ASSUME NEW l \in Seq(Column), NEW S
    PROVE  /\ Only(l, S) \in Seq(Column)
           /\ NameSet(Only(l, S)) = NameSet(l) \cap S
           /\ ToSet(Only(l, S)) = {c \in ToSet(l) : c.name \in S}
           /\ Distinct(l) => Distinct(Only(l, S))
<1> DEFINE Good == {m \in Seq(Column) :
                      /\ Only(m, S) \in Seq(Column)
                      /\ NameSet(Only(m, S)) = NameSet(m) \cap S
                      /\ ToSet(Only(m, S)) = {c \in ToSet(m) : c.name \in S}
                      /\ Distinct(m) => Distinct(Only(m, S))}
<1>1. <<>> \in Good
  <2>1. <<>> \in Seq(Column)
    OBVIOUS
  <2> QED  BY <2>1, OnlyNil, NilFacts
<1>2. ASSUME NEW m \in Good, NEW c \in Column PROVE Append(m, c) \in Good
  <2> DEFINE o == Only(m, S)
             w == Append(m, c)
  <2>1. /\ o \in Seq(Column) /\ NameSet(o) = NameSet(m) \cap S
        /\ ToSet(o) = {d \in ToSet(m) : d.name \in S}
        /\ Distinct(m) => Distinct(o)
    OBVIOUS
  <2>2. m \in Seq(Column) /\ w \in Seq(Column)
    OBVIOUS
  <2>3. /\ NameSet(w) = NameSet(m) \cup {c.name}
        /\ ToSet(w) = ToSet(m) \cup {c}
        /\ Distinct(w) <=> Distinct(m) /\ c.name \notin NameSet(m)
    BY <2>2, AppendFacts, DistinctAppend
  <2>4. /\ NameSet(Append(o, c)) = NameSet(o) \cup {c.name}
        /\ ToSet(Append(o, c)) = ToSet(o) \cup {c}
        /\ Distinct(Append(o, c)) <=> Distinct(o) /\ c.name \notin NameSet(o)
    BY <2>1, AppendFacts, DistinctAppend
  <2>5. Only(w, S) = IF c.name \in S THEN Append(o, c) ELSE o
    BY <2>2, OnlyAppend
  <2>6. Append(o, c) \in Seq(Column)
    BY <2>1
  <2> HIDE DEF o, w
  <2>7. Only(w, S) \in Seq(Column)
    BY <2>1, <2>5, <2>6
  <2>8. NameSet(Only(w, S)) = NameSet(w) \cap S
    BY <2>1, <2>3, <2>4, <2>5
  <2>9. ToSet(Only(w, S)) = {d \in ToSet(w) : d.name \in S}
    BY <2>1, <2>3, <2>4, <2>5
  <2>10. Distinct(w) => Distinct(Only(w, S))
    BY <2>1, <2>3, <2>4, <2>5
  <2> QED  BY <2>2, <2>7, <2>8, <2>9, <2>10 DEF w
<1>3. l \in Good
  <2>1. Good \in SUBSET Seq(Column)
    OBVIOUS
  <2> HIDE DEF Good
  <2> QED  BY <1>1, <1>2, <2>1, SeqInduct
<1> QED  BY <1>3

LEMMA OnlyConcat ==
    ASSUME NEW a \in Seq(Column), NEW b \in Seq(Column), NEW S
    PROVE  Only(a \o b, S) = Only(a, S) \o Only(b, S)
<1> DEFINE Good == {d \in Seq(Column) : Only(a \o d, S) = Only(a, S) \o Only(d, S)}
<1>1. <<>> \in Good
  <2>1. a \o <<>> = a /\ <<>> \in Seq(Column)
    OBVIOUS
  <2>2. Only(a, S) \o <<>> = Only(a, S)
    BY OnlyMembers
  <2> QED  BY <2>1, <2>2, OnlyNil
<1>2. ASSUME NEW d \in Good, NEW c \in Column PROVE Append(d, c) \in Good
  <2>1. d \in Seq(Column) /\ Append(d, c) \in Seq(Column) /\ a \o d \in Seq(Column)
    OBVIOUS
  <2>2. a \o Append(d, c) = Append(a \o d, c)
    BY <2>1
  <2>3. Only(a \o d, S) = Only(a, S) \o Only(d, S)
    OBVIOUS
  <2>4. Only(a, S) \in Seq(Column) /\ Only(d, S) \in Seq(Column)
    BY <2>1, OnlyMembers
  <2>5. Only(a, S) \o Append(Only(d, S), c) = Append(Only(a, S) \o Only(d, S), c)
    BY <2>4, ConcatAppend, Zenon
  <2>6. Only(Append(a \o d, c), S) = IF c.name \in S THEN Append(Only(a \o d, S), c) ELSE Only(a \o d, S)
    BY <2>1, OnlyAppend
  <2>7. Only(Append(d, c), S) = IF c.name \in S THEN Append(Only(d, S), c) ELSE Only(d, S)
    BY <2>1, OnlyAppend
  <2> QED  BY <2>1, <2>2, <2>3, <2>5, <2>6, <2>7
<1>3. b \in Good
  <2>1. Good \in SUBSET Seq(Column)
    OBVIOUS
  <2> HIDE DEF Good
  <2> QED  BY <1>1, <1>2, <2>1, SeqInduct
<1> QED  BY <1>3

LEMMA OnlyAround ==
    ASSUME NEW a \in Seq(Column), NEW b \in Seq(Column), NEW c \in Column, NEW S
    PROVE  Only(Around(a, c, b), S) = IF c.name \in S THEN Around(Only(a, S), c, Only(b, S))
                                      ELSE Only(a, S) \o Only(b, S)
<1>1. Append(a, c) \in Seq(Column)
  OBVIOUS
<1>2. Only(Append(a, c) \o b, S) = Only(Append(a, c), S) \o Only(b, S)
  BY <1>1, OnlyConcat, Zenon
<1>3. Only(Append(a, c), S) = IF c.name \in S THEN Append(Only(a, S), c) ELSE Only(a, S)
  BY OnlyAppend, Zenon
<1> QED  BY <1>2, <1>3 DEF Around

LEMMA OnlyTwice ==
    ASSUME NEW l \in Seq(Column), NEW S, NEW R
    PROVE  Only(Only(l, S), R) = Only(l, S \cap R)
<1> DEFINE Good == {m \in Seq(Column) : Only(Only(m, S), R) = Only(m, S \cap R)}
<1>1. <<>> \in Good
  <2>1. <<>> \in Seq(Column)
    OBVIOUS
  <2> QED  BY <2>1, OnlyNil
<1>2. ASSUME NEW m \in Good, NEW c \in Column PROVE Append(m, c) \in Good
  <2>1. m \in Seq(Column) /\ Append(m, c) \in Seq(Column) /\ Only(m, S) \in Seq(Column)
    BY OnlyMembers
  <2>2. Only(Only(m, S), R) = Only(m, S \cap R)
    OBVIOUS
  <2>3. Only(Append(m, c), S) = IF c.name \in S THEN Append(Only(m, S), c) ELSE Only(m, S)
    BY <2>1, OnlyAppend
  <2>4. Only(Append(m, c), S \cap R) =
           IF c.name \in S \cap R THEN Append(Only(m, S \cap R), c) ELSE Only(m, S \cap R)
    BY <2>1, OnlyAppend
  <2>5. Only(Append(Only(m, S), c), R) =
           IF c.name \in R THEN Append(Only(Only(m, S), R), c) ELSE Only(Only(m, S), R)
    BY <2>1, OnlyAppend
  <2>6. CASE c.name \in S
    <3>1. Only(Append(m, c), S) = Append(Only(m, S), c)
      BY <2>3, <2>6
    <3>2. c.name \in S \cap R <=> c.name \in R
      BY <2>6
    <3> QED  BY <2>1, <2>2, <2>4, <2>5, <3>1, <3>2
  <2>7. CASE c.name \notin S
    BY <2>1, <2>2, <2>3, <2>4, <2>7
  <2> QED  BY <2>6, <2>7
<1>3. l \in Good
  <2>1. Good \in SUBSET Seq(Column)
    OBVIOUS
  <2> HIDE DEF Good
  <2> QED  BY <1>1, <1>2, <2>1, SeqInduct
<1> QED  BY <1>3

LEMMA OnlySame ==
    ASSUME NEW l \in Seq(Column), NEW S, NEW R, NameSet(l) \cap S = NameSet(l) \cap R
    PROVE  Only(l, S) = Only(l, R)
<1> DEFINE Good == {m \in Seq(Column) : NameSet(m) \cap S = NameSet(m) \cap R => Only(m, S) = Only(m, R)}
<1>1. <<>> \in Good
  <2>1. <<>> \in Seq(Column)
    OBVIOUS
  <2> QED  BY <2>1, OnlyNil
<1>2. ASSUME NEW m \in Good, NEW c \in Column PROVE Append(m, c) \in Good
  <2>1. m \in Seq(Column) /\ Append(m, c) \in Seq(Column)
    OBVIOUS
  <2>2. SUFFICES ASSUME NameSet(Append(m, c)) \cap S = NameSet(Append(m, c)) \cap R
                 PROVE  Only(Append(m, c), S) = Only(Append(m, c), R)
    BY <2>1
  <2>3. NameSet(Append(m, c)) = NameSet(m) \cup {c.name}
    BY <2>1, AppendFacts
  <2>4. Only(m, S) = Only(m, R)
    <3>1. NameSet(m) \cap S = NameSet(m) \cap R
      BY <2>2, <2>3
    <3> QED  BY <3>1
  <2>5. c.name \in S <=> c.name \in R
    BY <2>2, <2>3
  <2>6. Only(Append(m, c), S) = IF c.name \in S THEN Append(Only(m, S), c) ELSE Only(m, S)
    BY <2>1, OnlyAppend
  <2>7. Only(Append(m, c), R) = IF c.name \in R THEN Append(Only(m, R), c) ELSE Only(m, R)
    BY <2>1, OnlyAppend
  <2> QED  BY <2>4, <2>5, <2>6, <2>7
<1>3. l \in Good
  <2>1. Good \in SUBSET Seq(Column)
    OBVIOUS
  <2> HIDE DEF Good
  <2> QED  BY <1>1, <1>2, <2>1, SeqInduct
<1> QED  BY <1>3

LEMMA OnlyAll ==
    ASSUME NEW l \in Seq(Column), NEW S, NameSet(l) \subseteq S
    PROVE  Only(l, S) = l
<1> DEFINE Good == {m \in Seq(Column) : NameSet(m) \subseteq S => Only(m, S) = m}
<1>1. <<>> \in Good
  <2>1. <<>> \in Seq(Column)
    OBVIOUS
  <2> QED  BY <2>1, OnlyNil
<1>2. ASSUME NEW m \in Good, NEW c \in Column PROVE Append(m, c) \in Good
  <2>1. m \in Seq(Column) /\ Append(m, c) \in Seq(Column)
    OBVIOUS
  <2>2. SUFFICES ASSUME NameSet(Append(m, c)) \subseteq S
                 PROVE  Only(Append(m, c), S) = Append(m, c)
    BY <2>1
  <2>3. NameSet(Append(m, c)) = NameSet(m) \cup {c.name}
    BY <2>1, AppendFacts
  <2>4. Only(m, S) = m /\ c.name \in S
    BY <2>2, <2>3
  <2> QED  BY <2>1, <2>4, OnlyAppend
<1>3. l \in Good
  <2>1. Good \in SUBSET Seq(Column)
    OBVIOUS
  <2> HIDE DEF Good
  <2> QED  BY <1>1, <1>2, <2>1, SeqInduct
<1> QED  BY <1>3

LEMMA NoNames ==
    ASSUME NEW l \in Seq(Column), NameSet(l) = {}
    PROVE  l = <<>>
<1>1. CASE l # <<>>
  <2>1. 1 \in 1 .. Len(l)
    BY <1>1
  <2>2. NameSet(l) = {l[i].name : i \in 1 .. Len(l)}
    BY NamesSeq
  <2> QED  BY <2>1, <2>2
<1> QED  BY <1>1

LEMMA OnlyNone ==
    ASSUME NEW l \in Seq(Column), NEW S, NameSet(l) \cap S = {}
    PROVE  Only(l, S) = <<>>
BY OnlyMembers, NoNames

(* Only looks at nothing but the names.                                       *)
LEMMA OnlyNames ==
    ASSUME NEW l \in Seq(Column), NEW m \in Seq(Column), NamesOf(l) = NamesOf(m), NEW S
    PROVE  NamesOf(Only(l, S)) = NamesOf(Only(m, S))
<1> DEFINE Good == {a \in Seq(Column) :
                      \A b \in Seq(Column) :
                         NamesOf(a) = NamesOf(b) => NamesOf(Only(a, S)) = NamesOf(Only(b, S))}
<1>1. <<>> \in Good
  <2>1. <<>> \in Seq(Column)
    OBVIOUS
  <2>2. ASSUME NEW b \in Seq(Column), NamesOf(<<>>) = NamesOf(b) PROVE b = <<>>
    <3>1. Len(NamesOf(b)) = Len(b) /\ Len(NamesOf(<<>>)) = Len(<<>>)
      BY <2>1, NamesSeq
    <3>2. Len(b) = 0
      BY <2>2, <3>1
    <3> QED  BY <3>2
  <2> QED  BY <2>1, <2>2
<1>2. ASSUME NEW a \in Good, NEW c \in Column PROVE Append(a, c) \in Good
  <2>1. a \in Seq(Column) /\ Append(a, c) \in Seq(Column)
    OBVIOUS
  <2>2. SUFFICES ASSUME NEW b \in Seq(Column), NamesOf(Append(a, c)) = NamesOf(b)
                 PROVE  NamesOf(Only(Append(a, c), S)) = NamesOf(Only(b, S))
    BY <2>1
  <2>3. NamesOf(Append(a, c)) = Append(NamesOf(a), c.name)
    BY <2>1, AppendFacts
  <2>4. b # <<>>
    <3>1. Len(NamesOf(b)) = Len(b) /\ Len(NamesOf(Append(a, c))) = Len(Append(a, c))
      BY <2>1, NamesSeq
    <3>2. Len(b) # 0
      BY <2>1, <2>2, <3>1
    <3> QED  BY <3>2
  <2>5. PICK d \in Seq(Column), e \in Column : b = Append(d, e)
    BY <2>4, SequenceEmptyOrAppend, Zenon
  <2>6. NamesOf(b) = Append(NamesOf(d), e.name)
    BY <2>5, AppendFacts
  <2>7. NamesOf(a) = NamesOf(d) /\ c.name = e.name
    <3>1. NamesOf(a) \in Seq(Names) /\ NamesOf(d) \in Seq(Names)
      BY <2>1, NamesSeq
    <3>2. c.name \in Names /\ e.name \in Names
      BY DEF Column
    <3>3. Append(NamesOf(a), c.name) = Append(NamesOf(d), e.name)
      BY <2>2, <2>3, <2>6
    <3> QED  BY <3>1, <3>2, <3>3, AppendInjective
  <2>8. NamesOf(Only(a, S)) = NamesOf(Only(d, S))
    BY <2>7
  <2>9. Only(a, S) \in Seq(Column) /\ Only(d, S) \in Seq(Column)
    BY <2>1, OnlyMembers
  <2>10. NamesOf(Append(Only(a, S), c)) = NamesOf(Append(Only(d, S), e))
    <3>1. NamesOf(Append(Only(a, S), c)) = Append(NamesOf(Only(a, S)), c.name)
      BY <2>9, AppendFacts
    <3>2. NamesOf(Append(Only(d, S), e)) = Append(NamesOf(Only(d, S)), e.name)
      BY <2>9, AppendFacts
    <3> QED  BY <2>7, <2>8, <3>1, <3>2
  <2>11. Only(Append(a, c), S) = IF c.name \in S THEN Append(Only(a, S), c) ELSE Only(a, S)
    BY <2>1, OnlyAppend
  <2>12. Only(b, S) = IF e.name \in S THEN Append(Only(d, S), e) ELSE Only(d, S)
    BY <2>5, OnlyAppend
  <2> QED  BY <2>7, <2>8, <2>10, <2>11, <2>12
<1>3. l \in Good
  <2>1. Good \in SUBSET Seq(Column)
    OBVIOUS
  <2> HIDE DEF Good
  <2> QED  BY <1>1, <1>2, <2>1, SeqInduct
<1> QED  BY <1>3

-----------------------------------------------------------------------------
(* Inserting and moving.                                                      *)

(* What stands before a column that is inserted after p.                      *)
Slot(l, p) == IF p = AtFront THEN 0 ELSE IF Has(l, p) THEN At(l, p) ELSE Len(l)

LEMMA AtIs ==
    ASSUME NEW l \in Seq(Column), NEW name, Has(l, name)
    PROVE  At(l, name) \in 1 .. Len(l) /\ l[At(l, name)].name = name
<1>1. \E i \in DOMAIN l : l[i].name = name
  BY HasIs
<1>2. At(l, name) \in DOMAIN l /\ l[At(l, name)].name = name
  BY <1>1 DEF At
<1> QED  BY <1>2

LEMMA AtUnique ==
    ASSUME NEW l \in Seq(Column), Distinct(l), NEW i \in 1 .. Len(l)
    PROVE  /\ Has(l, l[i].name) /\ At(l, l[i].name) = i /\ Lookup(l, l[i].name) = l[i]
<1>1. Has(l, l[i].name)
  BY HasIs
<1>2. At(l, l[i].name) \in 1 .. Len(l) /\ l[At(l, l[i].name)].name = l[i].name
  BY <1>1, AtIs
<1>3. At(l, l[i].name) = i
  BY <1>2, DistinctIs
<1> QED  BY <1>1, <1>3 DEF Lookup

LEMMA NoColumnAtFront ==
    ASSUME NEW l \in Seq(Column)
    PROVE  ~Has(l, AtFront) /\ ~Has(l, Keep)
BY ColumnAssumption, NamesSeq DEF Has

LEMMA InsertFirst ==
    ASSUME NEW l \in Seq(Column), NEW c \in Column
    PROVE  InsertAfter(l, c, AtFront) = Around(<<>>, c, l)
<1>1. Append(<<>>, c) = <<c>>
  OBVIOUS
<1>2. ~Has(l, AtFront)
  BY NoColumnAtFront
<1>3. InsertAfter(l, c, AtFront) = <<c>> \o l
  BY <1>2, Zenon DEF InsertAfter
<1> QED  BY <1>1, <1>3 DEF Around

Between(l, c, p, a, b) ==
    l = a \o b /\ Len(a) = Slot(l, p) /\ InsertAfter(l, c, p) = Around(a, c, b)

LEMMA InsertShape ==
    ASSUME NEW l \in Seq(Column), NEW c \in Column, NEW p
    PROVE  \E a, b \in Seq(Column) : Between(l, c, p, a, b)
<1>1. CASE p = AtFront
  <2>1. <<>> \in Seq(Column) /\ l = <<>> \o l /\ Len(<<>>) = 0
    OBVIOUS
  <2>3. InsertAfter(l, c, p) = Around(<<>>, c, l)
    BY <1>1, InsertFirst
  <2>4. Slot(l, p) = 0
    BY <1>1 DEF Slot
  <2> QED  BY <2>1, <2>3, <2>4 DEF Between
<1>2. CASE p # AtFront /\ Has(l, p)
  <2> DEFINE i == At(l, p)
  <2>1. i \in 1 .. Len(l) /\ l[i].name = p
    BY <1>2, AtIs
  <2>2. InsertAfter(l, c, p) = InsertAt(l, i + 1, c) /\ Slot(l, p) = i
    BY <1>2 DEF InsertAfter, Slot
  <2> HIDE DEF i
  <2>3. PICK d, b \in Seq(Column) : l = Around(d, l[i], b) /\ Len(d) = i - 1
    BY <2>1, SplitAt
  <2>4. PICK a : a = Append(d, l[i])
    OBVIOUS
  <2>5. a \in Seq(Column) /\ Len(a) = i
    BY <2>1, <2>3, <2>4
  <2>6. l = a \o b
    BY <2>3, <2>4 DEF Around
  <2>7. InsertAt(a \o b, Len(a) + 1, c) = Around(a, c, b)
    BY <2>5, InsertBetween
  <2> QED  BY <2>2, <2>5, <2>6, <2>7 DEF Between
<1>3. CASE p # AtFront /\ ~Has(l, p)
  <2>1. <<>> \in Seq(Column) /\ l = l \o <<>>
    OBVIOUS
  <2>2. Append(l, c) \in Seq(Column)
    OBVIOUS
  <2>3. Append(l, c) \o <<>> = Append(l, c)
    BY <2>2
  <2>4. InsertAfter(l, c, p) = Around(l, c, <<>>) /\ Slot(l, p) = Len(l)
    BY <1>3, <2>3 DEF InsertAfter, Around, Slot
  <2> QED  BY <2>1, <2>4 DEF Between
<1> QED  BY <1>1, <1>2, <1>3

LEMMA InsertFacts ==
    ASSUME NEW l \in Seq(Column), NEW c \in Column, NEW p
    PROVE  /\ InsertAfter(l, c, p) \in Seq(Column) /\ InsertAfter(l, c, p) # <<>>
           /\ NameSet(InsertAfter(l, c, p)) = NameSet(l) \cup {c.name}
           /\ ToSet(InsertAfter(l, c, p)) = ToSet(l) \cup {c}
           /\ Distinct(l) /\ c.name \notin NameSet(l) => Distinct(InsertAfter(l, c, p))
<1>1. PICK a, b \in Seq(Column) : Between(l, c, p, a, b)
  BY InsertShape, Zenon
<1>a. l = a \o b /\ InsertAfter(l, c, p) = Around(a, c, b)
  BY <1>1 DEF Between
<1>2. NameSet(l) = NameSet(a) \cup NameSet(b) /\ ToSet(l) = ToSet(a) \cup ToSet(b)
  BY <1>a, ConcatFacts
<1>3. Around(a, c, b) \in Seq(Column) /\ Around(a, c, b) # <<>>
  BY AroundSeq
<1>4. /\ NameSet(Around(a, c, b)) = NameSet(a) \cup {c.name} \cup NameSet(b)
      /\ ToSet(Around(a, c, b)) = ToSet(a) \cup {c} \cup ToSet(b)
      /\ Distinct(Around(a, c, b)) <=>
            /\ Distinct(a \o b)
            /\ c.name \notin NameSet(a) /\ c.name \notin NameSet(b)
  BY AroundNames
<1> QED  BY <1>a, <1>2, <1>3, <1>4

(* After a column that stands at the end of a.                                *)
LEMMA InsertBehind ==
    ASSUME NEW a \in Seq(Column), NEW d \in Column, NEW b \in Seq(Column), NEW c \in Column,
           Distinct(Around(a, d, b)), d.name # AtFront
    PROVE  InsertAfter(Around(a, d, b), c, d.name) = Around(Append(a, d), c, b)
<1> DEFINE l == Around(a, d, b)
<1>1. At(l, d.name) = Len(a) + 1
  BY AtAround
<1>2. Has(l, d.name)
  BY AroundNames DEF Has
<1>3. InsertAfter(l, c, d.name) = InsertAt(l, (Len(a) + 1) + 1, c)
  BY <1>1, <1>2 DEF InsertAfter
<1>4. Append(a, d) \in Seq(Column) /\ Len(Append(a, d)) = Len(a) + 1
  OBVIOUS
<1>5. InsertAt(Append(a, d) \o b, Len(Append(a, d)) + 1, c) = Around(Append(a, d), c, b)
  BY <1>4, InsertBetween, Zenon
<1> QED  BY <1>3, <1>4, <1>5 DEF Around

LEMMA OnlyInsert ==
    ASSUME NEW l \in Seq(Column), NEW c \in Column, NEW p, NEW S, Distinct(l)
    PROVE  /\ c.name \notin S => Only(InsertAfter(l, c, p), S) = Only(l, S)
           /\ c.name \in S /\ (p = AtFront \/ (p \in S /\ p # AtFront /\ Has(l, p)))
                 => Only(InsertAfter(l, c, p), S) = InsertAfter(Only(l, S), c, p)
<1>1. ASSUME c.name \notin S PROVE Only(InsertAfter(l, c, p), S) = Only(l, S)
  <2>1. PICK a, b \in Seq(Column) : Between(l, c, p, a, b)
    BY InsertShape, Zenon
  <2>a. l = a \o b /\ InsertAfter(l, c, p) = Around(a, c, b)
    BY <2>1 DEF Between
  <2>2. Only(Around(a, c, b), S) = Only(a, S) \o Only(b, S)
    BY <1>1, OnlyAround
  <2>3. Only(a \o b, S) = Only(a, S) \o Only(b, S)
    BY OnlyConcat
  <2> QED  BY <2>a, <2>2, <2>3
<1>2. ASSUME c.name \in S, p = AtFront
      PROVE  Only(InsertAfter(l, c, p), S) = InsertAfter(Only(l, S), c, p)
  <2>1. InsertAfter(l, c, p) = Around(<<>>, c, l) /\ <<>> \in Seq(Column)
    BY <1>2, InsertFirst
  <2>2. Only(Around(<<>>, c, l), S) = Around(Only(<<>>, S), c, Only(l, S))
    BY <1>2, <2>1, OnlyAround
  <2>3. InsertAfter(Only(l, S), c, p) = Around(<<>>, c, Only(l, S))
    BY <1>2, OnlyMembers, InsertFirst
  <2> QED  BY <2>1, <2>2, <2>3, OnlyNil
<1>3. ASSUME c.name \in S, p \in S, p # AtFront, Has(l, p)
      PROVE  Only(InsertAfter(l, c, p), S) = InsertAfter(Only(l, S), c, p)
  <2>1. PICK a, b \in Seq(Column), d \in Column : l = Around(a, d, b) /\ d.name = p
    BY <1>3, Split
  <2>2. InsertAfter(l, c, p) = Around(Append(a, d), c, b) /\ Append(a, d) \in Seq(Column)
    BY <1>3, <2>1, InsertBehind
  <2>3. Only(Around(Append(a, d), c, b), S) = Around(Only(Append(a, d), S), c, Only(b, S))
    BY <1>3, <2>2, OnlyAround
  <2>4. Only(Append(a, d), S) = Append(Only(a, S), d)
    BY <1>3, <2>1, OnlyAppend
  <2>5. Only(l, S) = Around(Only(a, S), d, Only(b, S))
    BY <1>3, <2>1, OnlyAround
  <2>6. Only(a, S) \in Seq(Column) /\ Only(b, S) \in Seq(Column) /\ Distinct(Only(l, S))
    BY OnlyMembers
  <2>7. InsertAfter(Around(Only(a, S), d, Only(b, S)), c, d.name)
        = Around(Append(Only(a, S), d), c, Only(b, S))
    BY <1>3, <2>1, <2>5, <2>6, InsertBehind
  <2> QED  BY <2>1, <2>2, <2>3, <2>4, <2>5, <2>7
<1> QED  BY <1>1, <1>2, <1>3

LEMMA WithoutFacts ==
    ASSUME NEW l \in Seq(Column), NEW name
    PROVE  /\ Without(l, name) \in Seq(Column)
           /\ NameSet(Without(l, name)) = NameSet(l) \ {name}
           /\ ToSet(Without(l, name)) = {d \in ToSet(l) : d.name # name}
           /\ Distinct(l) => Distinct(Without(l, name))
<1>1. NameSet(l) \subseteq Names /\ ToSet(l) \subseteq Column /\ \A d \in Column : d.name \in Names
  BY NamesSeq DEF Column
<1>2. /\ Only(l, Names \ {name}) \in Seq(Column)
      /\ NameSet(Only(l, Names \ {name})) = NameSet(l) \cap (Names \ {name})
      /\ ToSet(Only(l, Names \ {name})) = {d \in ToSet(l) : d.name \in Names \ {name}}
      /\ Distinct(l) => Distinct(Only(l, Names \ {name}))
  BY OnlyMembers, Zenon
<1>3. {d \in ToSet(l) : d.name \in Names \ {name}} = {d \in ToSet(l) : d.name # name}
  BY <1>1
<1> QED  BY <1>1, <1>2, <1>3 DEF Without

LEMMA MoveFacts ==
    ASSUME NEW l \in Seq(Column), NEW c \in Column, NEW p
    PROVE  /\ MoveAfter(l, c, p) \in Seq(Column) /\ MoveAfter(l, c, p) # <<>>
           /\ NameSet(MoveAfter(l, c, p)) = NameSet(l) \cup {c.name}
           /\ ToSet(MoveAfter(l, c, p)) = {d \in ToSet(l) : d.name # c.name} \cup {c}
           /\ Distinct(l) => Distinct(MoveAfter(l, c, p))
<1> DEFINE m == Without(l, c.name)
<1>1. /\ m \in Seq(Column) /\ NameSet(m) = NameSet(l) \ {c.name}
      /\ ToSet(m) = {d \in ToSet(l) : d.name # c.name}
      /\ Distinct(l) => Distinct(m)
  BY WithoutFacts
<1> HIDE DEF m
<1>2. /\ InsertAfter(m, c, p) \in Seq(Column) /\ InsertAfter(m, c, p) # <<>>
      /\ NameSet(InsertAfter(m, c, p)) = NameSet(m) \cup {c.name}
      /\ ToSet(InsertAfter(m, c, p)) = ToSet(m) \cup {c}
      /\ Distinct(m) /\ c.name \notin NameSet(m) => Distinct(InsertAfter(m, c, p))
  BY <1>1, InsertFacts
<1>3. MoveAfter(l, c, p) = InsertAfter(m, c, p)
  BY DEF MoveAfter, m
<1> QED  BY <1>1, <1>2, <1>3

LEMMA OnlyMove ==
    ASSUME NEW l \in Seq(Column), NEW c \in Column, NEW p, NEW S, Distinct(l)
    PROVE  /\ c.name \notin S => Only(MoveAfter(l, c, p), S) = Only(l, S)
           /\ c.name \in S /\ (p = AtFront \/ (p \in S /\ p # AtFront /\ p # c.name /\ Has(l, p)))
                 => Only(MoveAfter(l, c, p), S) = MoveAfter(Only(l, S), c, p)
<1> DEFINE m == Without(l, c.name)
           R == Names \ {c.name}
<1>1. m \in Seq(Column) /\ Distinct(m) /\ NameSet(m) = NameSet(l) \ {c.name}
  BY WithoutFacts
<1>2. m = Only(l, R) /\ MoveAfter(l, c, p) = InsertAfter(m, c, p)
  BY DEF MoveAfter, Without
<1>3. NameSet(l) \subseteq Names
  BY NamesSeq
<1>4. Only(m, S) = Only(l, R \cap S)
  BY <1>2, OnlyTwice
<1>5. MoveAfter(Only(l, S), c, p) = InsertAfter(Only(l, S \cap R), c, p)
  <2>1. Only(Only(l, S), R) = Only(l, S \cap R)
    BY OnlyTwice
  <2> QED  BY <2>1 DEF MoveAfter, Without
<1>6. R \cap S = S \cap R
  OBVIOUS
<1> HIDE DEF m
<1>7. ASSUME c.name \notin S PROVE Only(MoveAfter(l, c, p), S) = Only(l, S)
  <2>1. Only(InsertAfter(m, c, p), S) = Only(m, S)
    BY <1>1, <1>7, OnlyInsert
  <2>2. NameSet(l) \cap (R \cap S) = NameSet(l) \cap S
    BY <1>3, <1>7
  <2> HIDE DEF R
  <2>3. Only(l, R \cap S) = Only(l, S)
    BY <2>2, OnlySame
  <2> QED  BY <1>2, <1>4, <2>1, <2>3
<1>8. ASSUME c.name \in S, p = AtFront \/ (p \in S /\ p # AtFront /\ p # c.name /\ Has(l, p))
      PROVE  Only(MoveAfter(l, c, p), S) = MoveAfter(Only(l, S), c, p)
  <2>1. p = AtFront \/ (p \in S /\ p # AtFront /\ Has(m, p))
    BY <1>1, <1>8 DEF Has
  <2>2. Only(InsertAfter(m, c, p), S) = InsertAfter(Only(m, S), c, p)
    BY <1>1, <1>8, <2>1, OnlyInsert
  <2> QED  BY <1>2, <1>4, <1>5, <1>6, <2>2
<1> QED  BY <1>7, <1>8

-----------------------------------------------------------------------------
(* Positions follow from the names alone.                                     *)

LEMMA SameNames ==
    ASSUME NEW l \in Seq(Column), NEW m \in Seq(Column), NamesOf(l) = NamesOf(m)
    PROVE  /\ Len(l) = Len(m) /\ NameSet(l) = NameSet(m)
           /\ \A i \in 1 .. Len(l) : l[i].name = m[i].name
           /\ Distinct(l) <=> Distinct(m)
           /\ \A name : At(l, name) = At(m, name) /\ (Has(l, name) <=> Has(m, name))
<1>1. Len(l) = Len(m)
  BY NamesSeq
<1>2. \A i \in 1 .. Len(l) : l[i].name = m[i].name
  <2>1. \A i \in 1 .. Len(l) : NamesOf(l)[i] = l[i].name
    BY NamesSeq
  <2>2. \A i \in 1 .. Len(m) : NamesOf(m)[i] = m[i].name
    BY NamesSeq
  <2> QED  BY <1>1, <2>1, <2>2
<1>3. NameSet(l) = NameSet(m)
  <2>1. NameSet(l) = {l[i].name : i \in 1 .. Len(l)} /\ NameSet(m) = {m[i].name : i \in 1 .. Len(m)}
    BY NamesSeq
  <2> QED  BY <1>1, <1>2, <2>1
<1>4. Distinct(l) <=> Distinct(m)
  BY DEF Distinct
<1>5. ASSUME NEW name PROVE At(l, name) = At(m, name)
  <2>1. DOMAIN l = DOMAIN m /\ \A i \in DOMAIN l : l[i].name = m[i].name
    BY <1>1, <1>2
  <2>2. \A i : (i \in DOMAIN l /\ l[i].name = name) <=> (i \in DOMAIN m /\ m[i].name = name)
    BY <2>1
  <2> QED  BY <2>2 DEF At
<1> QED  BY <1>1, <1>2, <1>3, <1>4, <1>5 DEF Has

LEMMA SplitNames ==
    ASSUME NEW a \in Seq(Column), NEW b \in Seq(Column), NEW d \in Seq(Column), NEW e \in Seq(Column),
           NamesOf(a \o b) = NamesOf(d \o e), Len(a) = Len(d)
    PROVE  NamesOf(a) = NamesOf(d) /\ NamesOf(b) = NamesOf(e)
<1> DEFINE A == NamesOf(a)
           B == NamesOf(b)
           D == NamesOf(d)
           F == NamesOf(e)
<1>1. /\ A \in Seq(Names) /\ B \in Seq(Names) /\ D \in Seq(Names) /\ F \in Seq(Names)
      /\ Len(A) = Len(D)
  BY NamesSeq
<1>2. A \o B = D \o F
  <2>1. NamesOf(a \o b) = NamesOf(a) \o NamesOf(b)
    BY ConcatFacts, Zenon
  <2>2. NamesOf(d \o e) = NamesOf(d) \o NamesOf(e)
    BY ConcatFacts, Zenon
  <2> QED  BY <2>1, <2>2
<1> HIDE DEF A, B, D, F
<1>3. Len(A) + Len(B) = Len(D) + Len(F)
  <2>1. Len(A \o B) = Len(A) + Len(B) /\ Len(D \o F) = Len(D) + Len(F)
    BY <1>1, ConcatProperties, Zenon
  <2> QED  BY <1>2, <2>1
<1>4. Len(B) = Len(F)
  BY <1>1, <1>3
<1>5. \A i \in 1 .. Len(A) : A[i] = D[i]
  <2>1. \A i \in 1 .. Len(A) : (A \o B)[i] = A[i] /\ (D \o F)[i] = D[i]
    BY <1>1
  <2> QED  BY <1>2, <2>1
<1>6. \A i \in 1 .. Len(B) : B[i] = F[i]
  <2>1. \A i \in 1 .. Len(B) : (A \o B)[Len(A) + i] = B[i]
    BY <1>1
  <2>2. \A i \in 1 .. Len(F) : (D \o F)[Len(D) + i] = F[i]
    BY <1>1
  <2> QED  BY <1>1, <1>2, <1>4, <2>1, <2>2
<1>7. A = D
  BY <1>1, <1>5, SeqEqual
<1>8. B = F
  BY <1>1, <1>4, <1>6, SeqEqual
<1> QED  BY <1>7, <1>8 DEF A, B, D, F

LEMMA InsertNames ==
    ASSUME NEW l \in Seq(Column), NEW m \in Seq(Column), NamesOf(l) = NamesOf(m),
           NEW c \in Column, NEW d \in Column, c.name = d.name, NEW p
    PROVE  NamesOf(InsertAfter(l, c, p)) = NamesOf(InsertAfter(m, d, p))
<1>1. PICK a, b \in Seq(Column) : Between(l, c, p, a, b)
  BY InsertShape, Zenon
<1>2. PICK e, f \in Seq(Column) : Between(m, d, p, e, f)
  BY InsertShape, Zenon
<1>a. l = a \o b /\ Len(a) = Slot(l, p) /\ InsertAfter(l, c, p) = Around(a, c, b)
  BY <1>1 DEF Between
<1>b. m = e \o f /\ Len(e) = Slot(m, p) /\ InsertAfter(m, d, p) = Around(e, d, f)
  BY <1>2 DEF Between
<1>3. Slot(l, p) = Slot(m, p)
  BY SameNames DEF Slot
<1>4. NamesOf(a) = NamesOf(e) /\ NamesOf(b) = NamesOf(f)
  BY <1>a, <1>b, <1>3, SplitNames
<1>5. NamesOf(Around(a, c, b)) = Append(NamesOf(a), c.name) \o NamesOf(b)
  <2>1. Append(a, c) \in Seq(Column)
    OBVIOUS
  <2> QED  BY <2>1, AppendFacts, ConcatFacts DEF Around
<1>6. NamesOf(Around(e, d, f)) = Append(NamesOf(e), d.name) \o NamesOf(f)
  <2>1. Append(e, d) \in Seq(Column)
    OBVIOUS
  <2> QED  BY <2>1, AppendFacts, ConcatFacts DEF Around
<1> QED  BY <1>a, <1>b, <1>4, <1>5, <1>6

LEMMA MoveNames ==
    ASSUME NEW l \in Seq(Column), NEW m \in Seq(Column), NamesOf(l) = NamesOf(m),
           NEW c \in Column, NEW d \in Column, c.name = d.name, NEW p
    PROVE  NamesOf(MoveAfter(l, c, p)) = NamesOf(MoveAfter(m, d, p))
<1>1. Without(l, c.name) \in Seq(Column) /\ Without(m, d.name) \in Seq(Column)
  BY WithoutFacts
<1>2. NamesOf(Without(l, c.name)) = NamesOf(Without(m, d.name))
  BY OnlyNames DEF Without
<1> QED  BY <1>1, <1>2, InsertNames DEF MoveAfter

-----------------------------------------------------------------------------
(* What one action of an ALTER TABLE does to a list.                          *)

Lists == {l \in Seq(Column) : Distinct(l)}

LEMMA LookupFacts ==
    ASSUME NEW l \in Seq(Column), NEW name, Has(l, name)
    PROVE  /\ Lookup(l, name) \in Column /\ Lookup(l, name).name = name
           /\ Lookup(l, name) \in ToSet(l)
BY AtIs, NamesSeq DEF Lookup

Swapped(l, m, c, d) ==
    \E a, b \in Seq(Column) : l = Around(a, c, b) /\ m = Around(a, d, b)

LEMMA SwapAt ==
    ASSUME NEW l \in Lists, NEW name, Has(l, name), NEW d \in Column
    PROVE  Swapped(l, [l EXCEPT ![At(l, name)] = d], Lookup(l, name), d)
<1>1. l \in Seq(Column) /\ Distinct(l)
  BY DEF Lists
<1>2. At(l, name) \in 1 .. Len(l)
  BY <1>1, AtIs
<1>3. Lookup(l, name) = l[At(l, name)]
  BY DEF Lookup
<1>4. PICK a, b \in Seq(Column) : l = Around(a, l[At(l, name)], b) /\ Len(a) = At(l, name) - 1
  BY <1>1, <1>2, SplitAt
<1>5. Lookup(l, name) \in Column
  BY <1>1, LookupFacts
<1>6. [Around(a, Lookup(l, name), b) EXCEPT ![Len(a) + 1] = d] = Around(a, d, b)
  BY <1>5, SwapAround
<1>7. At(l, name) = Len(a) + 1
  BY <1>1, <1>2, <1>4
<1> QED  BY <1>3, <1>4, <1>6, <1>7 DEF Swapped

(* A column of another kind, or of a name that is free.                       *)
LEMMA SwapFacts ==
    ASSUME NEW l \in Lists, NEW c \in Column, NEW d \in Column, NEW m, Swapped(l, m, c, d),
           d.name = c.name \/ d.name \notin NameSet(l)
    PROVE  /\ m \in Lists /\ m # <<>>
           /\ NameSet(m) = (NameSet(l) \ {c.name}) \cup {d.name}
           /\ ToSet(m) = (ToSet(l) \ {c}) \cup {d}
           /\ c.name = d.name => NamesOf(m) = NamesOf(l)
           /\ \A S : d.name \notin S => Only(m, S) = Only(l, S \ {c.name})
<1>1. PICK a, b \in Seq(Column) : l = Around(a, c, b) /\ m = Around(a, d, b)
  BY DEF Swapped
<1>2. /\ NameSet(l) = NameSet(a) \cup {c.name} \cup NameSet(b)
      /\ ToSet(l) = ToSet(a) \cup {c} \cup ToSet(b)
      /\ Distinct(l) <=> Distinct(a \o b) /\ c.name \notin NameSet(a) /\ c.name \notin NameSet(b)
  BY <1>1, AroundNames
<1>3. /\ NameSet(m) = NameSet(a) \cup {d.name} \cup NameSet(b)
      /\ ToSet(m) = ToSet(a) \cup {d} \cup ToSet(b)
      /\ Distinct(m) <=> Distinct(a \o b) /\ d.name \notin NameSet(a) /\ d.name \notin NameSet(b)
  BY <1>1, AroundNames
<1>4. Distinct(l)
  BY DEF Lists
<1>5. m \in Seq(Column) /\ m # <<>>
  BY <1>1, AroundSeq
<1>6. m \in Lists /\ NameSet(m) = (NameSet(l) \ {c.name}) \cup {d.name}
  BY <1>2, <1>3, <1>4, <1>5 DEF Lists
<1>7. c \notin ToSet(a) /\ c \notin ToSet(b)
  <2>1. /\ NameSet(a) = {a[i].name : i \in 1 .. Len(a)} /\ NameSet(b) = {b[i].name : i \in 1 .. Len(b)}
        /\ ToSet(a) = {a[i] : i \in 1 .. Len(a)} /\ ToSet(b) = {b[i] : i \in 1 .. Len(b)}
    BY NamesSeq
  <2> QED  BY <1>2, <1>4, <2>1
<1>8. ToSet(m) = (ToSet(l) \ {c}) \cup {d}
  BY <1>2, <1>3, <1>7
<1>9. ASSUME c.name = d.name PROVE NamesOf(m) = NamesOf(l)
  <2>1. Append(a, c) \in Seq(Column) /\ Append(a, d) \in Seq(Column)
    OBVIOUS
  <2>2. NamesOf(Append(a, c)) = Append(NamesOf(a), c.name)
    BY AppendFacts, Zenon
  <2>3. NamesOf(Append(a, d)) = Append(NamesOf(a), d.name)
    BY AppendFacts, Zenon
  <2>4. NamesOf(Append(a, c) \o b) = NamesOf(Append(a, c)) \o NamesOf(b)
    BY <2>1, ConcatFacts, Zenon
  <2>5. NamesOf(Append(a, d) \o b) = NamesOf(Append(a, d)) \o NamesOf(b)
    BY <2>1, ConcatFacts, Zenon
  <2> QED  BY <1>1, <1>9, <2>2, <2>3, <2>4, <2>5 DEF Around
<1>10. ASSUME NEW S, d.name \notin S PROVE Only(m, S) = Only(l, S \ {c.name})
  <2>1. Only(m, S) = Only(a, S) \o Only(b, S)
    BY <1>1, <1>10, OnlyAround
  <2>2. Only(l, S \ {c.name}) = Only(a, S \ {c.name}) \o Only(b, S \ {c.name})
    <3> DEFINE R == S \ {c.name}
    <3>1. c.name \notin R
      OBVIOUS
    <3> HIDE DEF R
    <3>2. Only(Around(a, c, b), R) = Only(a, R) \o Only(b, R)
      BY <3>1, OnlyAround
    <3> QED  BY <1>1, <3>2 DEF R
  <2>3. NameSet(a) \cap S = NameSet(a) \cap (S \ {c.name})
    BY <1>2, <1>4
  <2>4. NameSet(b) \cap S = NameSet(b) \cap (S \ {c.name})
    BY <1>2, <1>4
  <2>5. Only(a, S) = Only(a, S \ {c.name})
    BY <2>3, OnlySame
  <2>6. Only(b, S) = Only(b, S \ {c.name})
    BY <2>4, OnlySame
  <2> QED  BY <2>1, <2>2, <2>5, <2>6
<1> QED  BY <1>5, <1>6, <1>8, <1>9, <1>10

LEMMA ActionCases ==
    ASSUME NEW a \in Action
    PROVE  \/ a.do = "add" /\ a.column \in Column /\ a.after \in Position
           \/ a.do = "modify" /\ a.column \in Column /\ a.after \in Position
           \/ a.do = "remove" /\ a.name \in Names /\ a.kind = "DEFAULT"
           \/ a.do = "rename" /\ a.name \in Names /\ a.to \in Names
           \/ a.do = "drop" /\ a.name \in Names
BY DEF Action

LEMMA ColumnFields ==
    ASSUME NEW c \in Column
    PROVE  /\ c.name \in Names /\ c.kind \in Kind
           /\ \A k \in Kind : /\ [c EXCEPT !.kind = k] \in Column
                              /\ [c EXCEPT !.kind = k].name = c.name /\ [c EXCEPT !.kind = k].kind = k
           /\ \A n \in Names : /\ [c EXCEPT !.name = n] \in Column
                               /\ [c EXCEPT !.name = n].name = n /\ [c EXCEPT !.name = n].kind = c.kind
           /\ \A d \in Column : c = d <=> c.name = d.name /\ c.kind = d.kind
BY DEF Column

LEMMA ModifiedFacts ==
    ASSUME NEW old \in Column, NEW c \in Column
    PROVE  /\ Modified(old, c) \in Column /\ Modified(old, c).name = c.name
           /\ Modified(old, c).kind = IF c.kind = "ordinary" THEN old.kind ELSE c.kind
BY ColumnFields DEF Modified

LEMMA ApplyAdd ==
    ASSUME NEW l \in Lists, NEW a \in Action, a.do = "add"
    PROVE  Apply(l, a) = IF Has(l, a.column.name) THEN l ELSE InsertAfter(l, a.column, a.after)
BY Zenon DEF Apply

LEMMA ApplyModify ==
    ASSUME NEW l \in Lists, NEW a \in Action, a.do = "modify", Has(l, a.column.name)
    PROVE  LET old == Lookup(l, a.column.name)
               new == Modified(old, a.column)
           IN  /\ old \in Column /\ old.name = a.column.name /\ old \in ToSet(l)
               /\ new \in Column /\ new.name = a.column.name
               /\ a.after = Keep => Swapped(l, Apply(l, a), old, new)
               /\ a.after # Keep => Apply(l, a) = MoveAfter(l, new, a.after)
<1> DEFINE name == a.column.name
           old == Lookup(l, name)
           new == Modified(old, a.column)
<1>1. a.column \in Column
  BY ActionCases
<1>2. old \in Column /\ old.name = name /\ old \in ToSet(l)
  BY LookupFacts DEF Lists
<1>3. new \in Column /\ new.name = name
  BY <1>1, <1>2, ModifiedFacts
<1>4. Swapped(l, [l EXCEPT ![At(l, name)] = new], old, new)
  BY <1>3, SwapAt, Zenon
<1>5. Apply(l, a) = IF a.after = Keep THEN ReplaceAt(l, At(l, new.name), new)
                    ELSE MoveAfter(l, new, a.after)
  BY Zenon DEF Apply
<1> HIDE DEF name, old, new
<1>6. ReplaceAt(l, At(l, new.name), new) = [l EXCEPT ![At(l, name)] = new]
  BY <1>3 DEF ReplaceAt
<1> QED  BY <1>2, <1>3, <1>4, <1>5, <1>6 DEF name, old, new

LEMMA ApplyRemove ==
    ASSUME NEW l \in Lists, NEW a \in Action, a.do = "remove", Accepts(l, a)
    PROVE  LET old == [name |-> a.name, kind |-> a.kind]
               new == [name |-> a.name, kind |-> "ordinary"]
           IN  /\ old \in Column /\ new \in Column /\ old \in ToSet(l)
               /\ Swapped(l, Apply(l, a), old, new)
<1> DEFINE old == [name |-> a.name, kind |-> a.kind]
           new == [name |-> a.name, kind |-> "ordinary"]
<1>1. a.name \in Names /\ a.kind = "DEFAULT"
  BY ActionCases
<1>2. old \in Column /\ new \in Column
  BY <1>1 DEF Column, Kind
<1>3. old \in ToSet(l)
  BY Zenon DEF Accepts
<1>4. l \in Seq(Column) /\ Distinct(l)
  BY DEF Lists
<1>5. PICK i \in 1 .. Len(l) : l[i] = old
  <2>1. ToSet(l) = {l[i] : i \in 1 .. Len(l)}
    BY <1>4, NamesSeq
  <2> QED  BY <1>3, <2>1
<1>6. Has(l, a.name) /\ At(l, a.name) = i /\ Lookup(l, a.name) = old
  <2>1. l[i].name = a.name
    BY <1>5
  <2> QED  BY <1>4, <1>5, <2>1, AtUnique
<1>7. Apply(l, a) = [l EXCEPT ![At(l, a.name)].kind = "ordinary"]
  BY Zenon DEF Apply
<1>8. [l EXCEPT ![i].kind = "ordinary"] = [l EXCEPT ![i] = new]
  <2>1. [l[i] EXCEPT !.kind = "ordinary"] = new
    BY <1>5
  <2> QED  BY <2>1
<1>9. Swapped(l, [l EXCEPT ![At(l, a.name)] = new], Lookup(l, a.name), new)
  BY <1>2, <1>6, SwapAt, Zenon
<1> HIDE DEF old, new
<1>10. Swapped(l, Apply(l, a), old, new)
  BY <1>6, <1>7, <1>8, <1>9
<1> QED  BY <1>2, <1>3, <1>10 DEF old, new

LEMMA ApplyRename ==
    ASSUME NEW l \in Lists, NEW a \in Action, a.do = "rename", Accepts(l, a)
    PROVE  LET old == Lookup(l, a.name)
               new == [old EXCEPT !.name = a.to]
           IN  /\ old \in Column /\ old.name = a.name /\ old \in ToSet(l)
               /\ new \in Column /\ new.name = a.to /\ new.kind = old.kind
               /\ a.to \notin NameSet(l)
               /\ Swapped(l, Apply(l, a), old, new)
<1> DEFINE old == Lookup(l, a.name)
           new == [old EXCEPT !.name = a.to]
<1>1. a.name \in Names /\ a.to \in Names
  BY ActionCases
<1>2. Has(l, a.name) /\ ~Has(l, a.to)
  BY Zenon DEF Accepts
<1>3. old \in Column /\ old.name = a.name /\ old \in ToSet(l)
  BY <1>2, LookupFacts DEF Lists
<1>4. new \in Column /\ new.name = a.to /\ new.kind = old.kind
  BY <1>1, <1>3, ColumnFields
<1>5. Swapped(l, [l EXCEPT ![At(l, a.name)] = new], old, new)
  BY <1>2, <1>4, SwapAt, Zenon
<1>6. Apply(l, a) = [l EXCEPT ![At(l, a.name)].name = a.to]
  BY Zenon DEF Apply
<1>7. [l EXCEPT ![At(l, a.name)].name = a.to] = [l EXCEPT ![At(l, a.name)] = new]
  BY DEF Lookup
<1>8. Swapped(l, Apply(l, a), old, new)
  BY <1>5, <1>6, <1>7
<1>9. a.to \notin NameSet(l)
  BY <1>2 DEF Has
<1> HIDE DEF old, new
<1> QED  BY <1>3, <1>4, <1>8, <1>9 DEF old, new

LEMMA ApplyDrop ==
    ASSUME NEW l \in Lists, NEW a \in Action, a.do = "drop"
    PROVE  Apply(l, a) = Without(l, a.name)
BY Zenon DEF Apply

(* The names stay distinct.                                                   *)
LEMMA SentInLists ==
    ASSUME NEW l \in Lists, NEW a \in Action
    PROVE  Sent(l, a) \in Lists
<1>1. l \in Seq(Column) /\ Distinct(l)
  BY DEF Lists
<1>2. <<>> \in Lists
  <2>1. <<>> \in Seq(Column)
    OBVIOUS
  <2> QED  BY <2>1, NilFacts DEF Lists
<1>3. ASSUME Accepts(l, a) PROVE Apply(l, a) \in Lists
  <2>1. CASE a.do = "add"
    <3>1. a.column \in Column
      BY <2>1, ActionCases
    <3>2. InsertAfter(l, a.column, a.after) \in Seq(Column)
          /\ (~Has(l, a.column.name) => Distinct(InsertAfter(l, a.column, a.after)))
      BY <1>1, <3>1, InsertFacts DEF Has
    <3> QED  BY <2>1, <3>2, ApplyAdd DEF Lists
  <2>2. CASE a.do = "modify"
    <3> DEFINE old == Lookup(l, a.column.name)
               new == Modified(old, a.column)
    <3>1. Has(l, a.column.name)
      BY <1>3, <2>2, Zenon DEF Accepts
    <3>2. /\ old \in Column /\ old.name = a.column.name
          /\ new \in Column /\ new.name = a.column.name
          /\ a.after = Keep => Swapped(l, Apply(l, a), old, new)
          /\ a.after # Keep => Apply(l, a) = MoveAfter(l, new, a.after)
      BY <2>2, <3>1, ApplyModify
    <3> HIDE DEF old, new
    <3>3. CASE a.after = Keep
      BY <3>2, <3>3, SwapFacts
    <3>4. CASE a.after # Keep
      BY <1>1, <3>2, <3>4, MoveFacts DEF Lists
    <3> QED  BY <3>3, <3>4
  <2>3. CASE a.do = "remove"
    BY <1>3, <2>3, ApplyRemove, SwapFacts
  <2>4. CASE a.do = "rename"
    BY <1>3, <2>4, ApplyRename, SwapFacts
  <2>5. CASE a.do = "drop"
    BY <1>1, <2>5, ApplyDrop, WithoutFacts DEF Lists
  <2> QED  BY <2>1, <2>2, <2>3, <2>4, <2>5, ActionCases
<1> QED  BY <1>2, <1>3 DEF Sent, Rejected

LEMMA AlterTableFold ==
    ASSUME NEW list \in Lists,
           NEW group \in Seq(Action)
    PROVE  \E f : /\ f[0] = list
                  /\ \A k \in 1 .. Len(group) : f[k - 1] \in Lists /\ f[k] = Sent(f[k - 1], group[k])
                  /\ AlterTable(list, group) = f[Len(group)]
                  /\ AlterTable(list, group) \in Lists
<1> DEFINE T == Lists
           n == Len(group)
           step == [p \in T \X (1 .. n) |-> Sent(p[1], group[p[2]])]
<1>1. n \in Nat /\ DOMAIN group = 1 .. n /\ \A k \in 1 .. n : group[k] \in Action
  OBVIOUS
<1>2. list \in T /\ \A l \in T, k \in 1 .. n : Sent(l, group[k]) \in T
  BY <1>1, SentInLists
<1> HIDE DEF n, T
<1>3. step \in [T \X (1 .. n) -> T]
  BY <1>2
<1>4. \A m \in T, k \in 1 .. n : step[<<m, k>>] = Sent(m, group[k])
  OBVIOUS
<1> HIDE DEF step
<1>5. PICK h \in [SUBSET (1 .. n) -> T] : Folds(h, list, step, n)
  BY <1>1, <1>2, <1>3, FoldExists, Zenon
<1>6. h = [s \in SUBSET (1 .. n) |->
              IF s = {} THEN list ELSE Sent(h[s \ {Max(s)}], group[Max(s)])]
  <2>1. ASSUME NEW s \in SUBSET (1 .. n), s # {}
        PROVE  h[s] = Sent(h[s \ {Max(s)}], group[Max(s)])
    <3>1. Max(s) \in 1 .. n /\ s \ {Max(s)} \in SUBSET (1 .. n)
      BY <1>1, <2>1, MaxIs
    <3>2. h[s \ {Max(s)}] \in T
      BY <3>1
    <3>3. h[s] = step[<<h[s \ {Max(s)}], Max(s)>>]
      BY <1>5, <2>1 DEF Folds
    <3> QED  BY <1>4, <3>1, <3>2, <3>3
  <2> QED  BY <1>5, <2>1 DEF Folds
<1>7. PICK iter : /\ iter = [s \in SUBSET (1 .. n) |->
                        IF s = {} THEN list ELSE Sent(iter[s \ {Max(s)}], group[Max(s)])]
                  /\ AlterTable(list, group) = iter[1 .. n]
  BY <1>1, <1>6, Zenon DEF AlterTable, FoldLeft, MapThenFoldSet
<1> DEFINE f == [k \in 0 .. n |-> iter[1 .. k]]
<1>8. f[0] = list
  BY <1>1, <1>7
<1>9. ASSUME NEW k \in 1 .. n PROVE f[k] = Sent(f[k - 1], group[k])
  <2>1. k - 1 \in 0 .. n /\ k \in 0 .. n
    BY <1>1
  <2>2. f[k] = iter[1 .. k] /\ f[k - 1] = iter[1 .. (k - 1)]
    BY <2>1
  <2>3. /\ 1 .. k \in SUBSET (1 .. n) /\ 1 .. k # {}
        /\ Max(1 .. k) = k /\ (1 .. k) \ {k} = 1 .. (k - 1)
    BY <1>1, PrefixSet
  <2>4. iter[1 .. k] = Sent(iter[(1 .. k) \ {Max(1 .. k)}], group[Max(1 .. k)])
    BY <1>7, <2>3
  <2> QED  BY <2>2, <2>3, <2>4
<1>10. AlterTable(list, group) = f[n]
  <2>1. n \in 0 .. n
    BY <1>1
  <2>2. f[n] = iter[1 .. n]
    BY <2>1
  <2> QED  BY <1>7, <2>2
<1> HIDE DEF f
<1>11. \A k \in 0 .. n : f[k] \in T
  <2> DEFINE Typed == {k \in 0 .. n : f[k] \in T}
  <2>1. 0 \in Typed
    BY <1>1, <1>2, <1>8
  <2>2. ASSUME NEW k \in 1 .. n, k - 1 \in Typed PROVE k \in Typed
    <3>1. f[k - 1] \in T /\ k \in 0 .. n
      BY <1>1, <2>2
    <3>2. f[k] \in T
      BY <1>2, <1>9, <3>1
    <3> QED  BY <3>1, <3>2
  <2>3. Typed \in SUBSET (0 .. n)
    OBVIOUS
  <2> HIDE DEF Typed
  <2>4. \A k \in 0 .. n : k \in Typed
    BY <1>1, <2>1, <2>2, <2>3, InductTo
  <2> QED  BY <2>4 DEF Typed
<1>12. f[n] \in T /\ \A k \in 1 .. n : f[k - 1] \in T
  <2>1. n \in 0 .. n /\ \A k \in 1 .. n : k - 1 \in 0 .. n
    BY <1>1
  <2> QED  BY <1>11, <2>1
<1> QED  BY <1>8, <1>9, <1>10, <1>12 DEF n, T

(* One fold and the fold of one element less.                                 *)
LEMMA AlterNil ==
    ASSUME NEW l \in Lists
    PROVE  AlterTable(l, <<>>) = l
<1>1. <<>> \in Seq(Action) /\ Len(<<>>) = 0
  OBVIOUS
<1>2. PICK f : /\ f[0] = l
               /\ \A k \in 1 .. Len(<<>>) : f[k - 1] \in Lists /\ f[k] = Sent(f[k - 1], <<>>[k])
               /\ AlterTable(l, <<>>) = f[Len(<<>>)]
               /\ AlterTable(l, <<>>) \in Lists
  BY <1>1, AlterTableFold, Zenon
<1> QED  BY <1>1, <1>2, Zenon

LEMMA AlterAppend ==
    ASSUME NEW l \in Lists, NEW g \in Seq(Action), NEW a \in Action
    PROVE  /\ AlterTable(l, g) \in Lists
           /\ AlterTable(l, Append(g, a)) = Sent(AlterTable(l, g), a)
<1> DEFINE h == Append(g, a)
           n == Len(g)
<1>1. /\ n \in Nat /\ h \in Seq(Action) /\ Len(h) = n + 1 /\ h[n + 1] = a
      /\ \A k \in 1 .. n : h[k] = g[k]
  OBVIOUS
<1> HIDE DEF h
<1>2. PICK f : /\ f[0] = l
               /\ \A k \in 1 .. Len(g) : f[k - 1] \in Lists /\ f[k] = Sent(f[k - 1], g[k])
               /\ AlterTable(l, g) = f[Len(g)]
               /\ AlterTable(l, g) \in Lists
  BY AlterTableFold, Zenon
<1>3. PICK e : /\ e[0] = l
               /\ \A k \in 1 .. Len(h) : e[k - 1] \in Lists /\ e[k] = Sent(e[k - 1], h[k])
               /\ AlterTable(l, h) = e[Len(h)]
               /\ AlterTable(l, h) \in Lists
  BY <1>1, AlterTableFold, Zenon
<1>4. \A k \in 0 .. n : e[k] = f[k]
  <2> DEFINE S == {k \in 0 .. n : e[k] = f[k]}
  <2>1. 0 \in S
    BY <1>1, <1>2, <1>3
  <2>2. ASSUME NEW k \in 1 .. n, k - 1 \in S PROVE k \in S
    BY <1>1, <1>2, <1>3, <2>2
  <2>3. S \in SUBSET (0 .. n)
    OBVIOUS
  <2> HIDE DEF S
  <2>4. \A k \in 0 .. n : k \in S
    BY <1>1, <2>1, <2>2, <2>3, InductTo
  <2> QED  BY <2>4 DEF S
<1>5. e[n + 1] = Sent(e[n], a) /\ e[n] = f[n]
  BY <1>1, <1>3, <1>4
<1> QED  BY <1>1, <1>2, <1>3, <1>5 DEF h

LEMMA AlterConcat ==
    ASSUME NEW l \in Lists, NEW a \in Seq(Action), NEW b \in Seq(Action)
    PROVE  AlterTable(l, a \o b) = AlterTable(AlterTable(l, a), b)
<1> DEFINE S == {d \in Seq(Action) : AlterTable(l, a \o d) = AlterTable(AlterTable(l, a), d)}
<1>0. AlterTable(l, a) \in Lists
  BY AlterTableFold
<1>1. <<>> \in S
  <2>1. a \o <<>> = a /\ <<>> \in Seq(Action)
    OBVIOUS
  <2>2. AlterTable(AlterTable(l, a), <<>>) = AlterTable(l, a)
    BY <1>0, AlterNil, Zenon
  <2> QED  BY <2>1, <2>2
<1>2. ASSUME NEW d \in S, NEW e \in Action PROVE Append(d, e) \in S
  <2>1. a \o Append(d, e) = Append(a \o d, e) /\ a \o d \in Seq(Action) /\ Append(d, e) \in Seq(Action)
    OBVIOUS
  <2>2. AlterTable(l, Append(a \o d, e)) = Sent(AlterTable(l, a \o d), e)
    BY <2>1, AlterAppend, Zenon
  <2>3. AlterTable(AlterTable(l, a), Append(d, e)) = Sent(AlterTable(AlterTable(l, a), d), e)
    BY <1>0, AlterAppend, Zenon
  <2> QED  BY <2>1, <2>2, <2>3
<1>3. S \in SUBSET Seq(Action)
  OBVIOUS
<1> HIDE DEF S
<1>4. Seq(Action) \subseteq S
  BY <1>1, <1>2, <1>3, SeqInduct
<1> QED  BY <1>4 DEF S

(* An accepted action, and one that is sent to a rejected table.              *)
LEMMA SentFacts ==
    ASSUME NEW l \in Lists, NEW a \in Action
    PROVE  /\ Sent(Rejected, a) = Rejected
           /\ l # Rejected /\ Accepts(l, a) => Sent(l, a) = Apply(l, a)
           /\ Sent(l, a) # Rejected => l # Rejected /\ Accepts(l, a) /\ Sent(l, a) = Apply(l, a)
BY Zenon DEF Sent

(* What every action of a group keeps of the tables it is accepted by, the    *)
(* group keeps.                                                               *)
LEMMA AlterKeeps ==
    ASSUME NEW g \in Seq(Action), NEW good \in SUBSET Lists, NEW l \in good,
           \A m \in good, k \in 1 .. Len(g) : Sent(m, g[k]) # Rejected => Sent(m, g[k]) \in good
    PROVE  AlterTable(l, g) # Rejected => AlterTable(l, g) \in good
<1> DEFINE n == Len(g)
<1>1. n \in Nat /\ l \in Lists /\ \A k \in 1 .. n : g[k] \in Action
  OBVIOUS
<1>2. PICK f : /\ f[0] = l
               /\ \A k \in 1 .. Len(g) : f[k - 1] \in Lists /\ f[k] = Sent(f[k - 1], g[k])
               /\ AlterTable(l, g) = f[Len(g)]
               /\ AlterTable(l, g) \in Lists
  BY AlterTableFold, Zenon
<1> DEFINE S == {k \in 0 .. n : f[k] # Rejected => f[k] \in good}
<1>3. 0 \in S
  BY <1>1, <1>2
<1>4. ASSUME NEW k \in 1 .. n, k - 1 \in S PROVE k \in S
  <2>1. f[k - 1] \in Lists /\ f[k] = Sent(f[k - 1], g[k]) /\ g[k] \in Action
    BY <1>1, <1>2
  <2>2. ASSUME f[k] # Rejected PROVE f[k] \in good
    <3>1. f[k - 1] # Rejected
      BY <2>1, <2>2, SentFacts
    <3>2. f[k - 1] \in good
      BY <1>4, <3>1
    <3> QED  BY <2>1, <2>2, <3>2
  <2>3. k \in 0 .. n
    BY <1>1
  <2> QED  BY <2>2, <2>3
<1>5. S \in SUBSET (0 .. n)
  OBVIOUS
<1> HIDE DEF S
<1>6. \A k \in 0 .. n : k \in S
  BY <1>1, <1>3, <1>4, <1>5, InductTo
<1>7. n \in S
  BY <1>1, <1>6
<1> QED  BY <1>2, <1>7 DEF S

-----------------------------------------------------------------------------
(* One list after another.                                                    *)
Cat(a, b) == a \o b

LEMMA CatFacts ==
    ASSUME NEW a \in Seq(Column), NEW b \in Seq(Column)
    PROVE  /\ Cat(a, b) \in Seq(Column) /\ Len(Cat(a, b)) = Len(a) + Len(b)
           /\ NameSet(Cat(a, b)) = NameSet(a) \cup NameSet(b)
           /\ Cat(<<>>, b) = b /\ Cat(a, <<>>) = a
<1>1. <<>> \o b = b /\ a \o <<>> = a
  BY ConcatProperties
<1> QED  BY <1>1, ConcatFacts DEF Cat

LEMMA CatThree ==
    ASSUME NEW a \in Seq(Column), NEW b \in Seq(Column), NEW d \in Seq(Column)
    PROVE  Cat(a, Cat(b, d)) = Cat(Cat(a, b), d)
<1>1. a \o (b \o d) = (a \o b) \o d
  OBVIOUS
<1> QED  BY <1>1 DEF Cat

LEMMA OnlyCat ==
    ASSUME NEW a \in Seq(Column), NEW b \in Seq(Column), NEW S
    PROVE  Only(Cat(a, b), S) = Cat(Only(a, S), Only(b, S))
BY OnlyConcat DEF Cat

LEMMA AroundCat ==
    ASSUME NEW a \in Seq(Column), NEW c \in Column, NEW b \in Seq(Column)
    PROVE  /\ Append(a, c) \in Seq(Column) /\ Around(a, c, b) \in Seq(Column)
           /\ Around(a, c, b) = Cat(Append(a, c), b)
<1>1. Append(a, c) \in Seq(Column)
  OBVIOUS
<1> QED  BY <1>1, AroundSeq DEF Around, Cat

(* Headed(c, b): the column c before the list b.                              *)
Headed(c, b) == Around(<<>>, c, b)

LEMMA HeadedFacts ==
    ASSUME NEW c \in Column, NEW b \in Seq(Column)
    PROVE  /\ Headed(c, b) \in Seq(Column) /\ Headed(c, b) # <<>>
           /\ NameSet(Headed(c, b)) = {c.name} \cup NameSet(b)
<1> DEFINE nil == <<>>
<1>1. nil \in Seq(Column) /\ NameSet(nil) = {}
  BY NilFacts
<1>2. Headed(c, b) = Around(nil, c, b)
  BY DEF Headed
<1> HIDE DEF nil
<1>3. Headed(c, b) \in Seq(Column) /\ Headed(c, b) # <<>>
  BY <1>1, <1>2, AroundSeq
<1>4. NameSet(Headed(c, b)) = {c.name} \cup NameSet(b)
  BY <1>1, <1>2, AroundNames
<1> QED  BY <1>3, <1>4

LEMMA HeadedCat ==
    ASSUME NEW a \in Seq(Column), NEW c \in Column, NEW b \in Seq(Column)
    PROVE  Cat(a, Headed(c, b)) = Around(a, c, b)
<1> DEFINE one == <<c>>
<1>1. one \in Seq(Column) /\ a \o one = Append(a, c)
  OBVIOUS
<1>2. Headed(c, b) = Cat(one, b)
  BY DEF Headed, Around, Cat
<1>3. Around(a, c, b) = Cat(Append(a, c), b)
  BY AroundCat
<1>4. Cat(a, one) = Append(a, c)
  BY <1>1 DEF Cat
<1> HIDE DEF one
<1>5. Cat(a, Cat(one, b)) = Cat(Cat(a, one), b)
  BY <1>1, CatThree
<1> QED  BY <1>2, <1>3, <1>4, <1>5

LEMMA HeadedThen ==
    ASSUME NEW c \in Column, NEW b \in Seq(Column), NEW d \in Seq(Column)
    PROVE  Cat(Headed(c, b), d) = Headed(c, Cat(b, d))
<1> DEFINE one == <<c>>
<1>1. one \in Seq(Column)
  OBVIOUS
<1>2. \A s \in Seq(Column) : Headed(c, s) = Cat(one, s)
  BY DEF Headed, Around, Cat
<1> HIDE DEF one
<1>3. Cat(b, d) \in Seq(Column) /\ Cat(one, Cat(b, d)) = Cat(Cat(one, b), d)
  BY <1>1, CatThree, CatFacts
<1> QED  BY <1>2, <1>3

LEMMA OnlyAroundCat ==
    ASSUME NEW a \in Seq(Column), NEW b \in Seq(Column), NEW c \in Column, NEW S
    PROVE  Only(Around(a, c, b), S) = IF c.name \in S THEN Around(Only(a, S), c, Only(b, S))
                                      ELSE Cat(Only(a, S), Only(b, S))
BY OnlyAround DEF Cat

LEMMA OnlyHeaded ==
    ASSUME NEW c \in Column, NEW b \in Seq(Column), NEW S
    PROVE  Only(Headed(c, b), S) = IF c.name \in S THEN Headed(c, Only(b, S)) ELSE Only(b, S)
<1> DEFINE nil == <<>>
<1>1. nil \in Seq(Column) /\ Only(nil, S) = nil
  BY OnlyNil
<1>2. \A s : Headed(c, s) = Around(nil, c, s)
  BY DEF Headed
<1>3. Only(b, S) \in Seq(Column) /\ Cat(nil, Only(b, S)) = Only(b, S)
  BY OnlyMembers, CatFacts
<1> HIDE DEF nil
<1>4. Only(Around(nil, c, b), S) = IF c.name \in S THEN Around(Only(nil, S), c, Only(b, S))
                                   ELSE Cat(Only(nil, S), Only(b, S))
  BY <1>1, OnlyAroundCat
<1> QED  BY <1>1, <1>2, <1>3, <1>4

LEMMA AppendNames ==
    ASSUME NEW a \in Seq(Column), NEW v \in Seq(Column), NamesOf(a) = NamesOf(v),
           NEW x \in Column, NEW c \in Column, x.name = c.name
    PROVE  /\ Append(a, x) \in Seq(Column) /\ Append(v, c) \in Seq(Column)
           /\ NamesOf(Append(a, x)) = NamesOf(Append(v, c))
<1>1. NamesOf(Append(a, x)) = Append(NamesOf(a), x.name) /\ NamesOf(Append(v, c)) = Append(NamesOf(v), c.name)
  BY AppendFacts
<1>2. Append(a, x) \in Seq(Column) /\ Append(v, c) \in Seq(Column)
  OBVIOUS
<1> QED  BY <1>1, <1>2

LEMMA FirstColumn ==
    ASSUME NEW l \in Seq(Column), l # <<>>
    PROVE  \E c \in Column, b \in Seq(Column) : l = Headed(c, b)
<1>1. 1 \in 1 .. Len(l) /\ l[1] \in Column
  OBVIOUS
<1>2. PICK a, b \in Seq(Column) : l = Around(a, l[1], b) /\ Len(a) = 0
  BY <1>1, SplitAt
<1>3. a = <<>>
  BY <1>2
<1> QED  BY <1>1, <1>2, <1>3 DEF Headed

LEMMA FirstOfNames ==
    ASSUME NEW m \in Seq(Column), NEW c \in Column, NEW r \in Seq(Column),
           NamesOf(m) = NamesOf(Headed(c, r))
    PROVE  \E x \in Column, b \in Seq(Column) :
              m = Headed(x, b) /\ x.name = c.name /\ NamesOf(b) = NamesOf(r)
<1> DEFINE nil == <<>>
           w == Headed(c, r)
           one == <<c>>
<1>1. nil \in Seq(Column) /\ Len(nil) = 0 /\ one \in Seq(Column) /\ Len(one) = 1
  OBVIOUS
<1>2. w = one \o r
  BY DEF Headed, Around
<1>3. w \in Seq(Column) /\ Len(w) # 0 /\ NamesOf(m) = NamesOf(w)
  <2>1. NamesOf(m) = NamesOf(w)
    OBVIOUS
  <2> HIDE DEF one, w
  <2>2. w \in Seq(Column) /\ Len(w) # 0
    BY <1>1, <1>2
  <2> QED  BY <2>1, <2>2
<1>4. m # <<>>
  <2> HIDE DEF w
  <2>1. Len(m) = Len(w)
    BY <1>3, SameNames
  <2> QED  BY <1>3, <2>1
<1>5. PICK x \in Column, b \in Seq(Column) : m = Headed(x, b)
  BY <1>4, FirstColumn
<1> DEFINE two == <<x>>
<1>6. two \in Seq(Column) /\ Len(two) = 1 /\ two[1] = x /\ one[1] = c
  OBVIOUS
<1>7. m = two \o b
  BY <1>5 DEF Headed, Around
<1> HIDE DEF w, one, two
<1>8. NamesOf(two) = NamesOf(one) /\ NamesOf(b) = NamesOf(r)
  <2>1. NamesOf(two \o b) = NamesOf(one \o r) /\ Len(two) = Len(one)
    BY <1>1, <1>2, <1>3, <1>6, <1>7
  <2> QED  BY <1>1, <1>6, <2>1, SplitNames
<1>9. x.name = c.name
  <2>1. \A i \in 1 .. Len(two) : two[i].name = one[i].name
    BY <1>1, <1>6, <1>8, SameNames
  <2> QED  BY <2>1, <1>6
<1> QED  BY <1>5, <1>8, <1>9

(* The list a ends with the column of the name p, or p is FIRST.              *)
Ends(a, p) ==
    \/ p = AtFront /\ a = <<>>
    \/ \E b \in Seq(Column), e \in Column : a = Append(b, e) /\ e.name = p

LEMMA EndsNames ==
    ASSUME NEW a \in Seq(Column), NEW v \in Seq(Column), NamesOf(a) = NamesOf(v), NEW p, Ends(v, p)
    PROVE  Ends(a, p)
<1>1. CASE p = AtFront /\ v = <<>>
  <2>1. Len(a) = Len(v)
    BY SameNames
  <2>2. a = <<>>
    BY <1>1, <2>1
  <2> QED  BY <1>1, <2>2 DEF Ends
<1>2. CASE v # <<>>
  <2>1. PICK b \in Seq(Column), e \in Column : v = Append(b, e) /\ e.name = p
    BY <1>2 DEF Ends
  <2>2. a # <<>> /\ Len(a) = Len(v)
    BY <1>2, SameNames
  <2>3. PICK d \in Seq(Column), x \in Column : a = Append(d, x)
    BY <2>2, LastOf
  <2>4. Len(v) \in 1 .. Len(a) /\ v[Len(v)] = e /\ a[Len(v)] = x
    BY <2>1, <2>2, <2>3
  <2>5. \A i \in 1 .. Len(a) : a[i].name = v[i].name
    BY SameNames
  <2>6. x.name = e.name
    BY <2>4, <2>5
  <2> QED  BY <2>1, <2>3, <2>6 DEF Ends
<1> QED  BY <1>1, <1>2 DEF Ends

LEMMA EndsFacts ==
    ASSUME NEW a \in Seq(Column), NEW r \in Seq(Column), Cat(a, r) \in Lists, NEW p, Ends(a, p)
    PROVE  /\ \A c \in Column : InsertAfter(Cat(a, r), c, p) = Around(a, c, r)
           /\ \A name : InPosition(Cat(a, r), name, p) <=> At(Cat(a, r), name) = Len(a) + 1
<1>1. CASE p = AtFront /\ a = <<>>
  <2>1. Cat(a, r) = r /\ Len(a) = 0
    BY <1>1, CatFacts
  <2>2. \A c \in Column : InsertAfter(r, c, AtFront) = Around(<<>>, c, r)
    BY InsertFirst
  <2> QED  BY <1>1, <2>1, <2>2 DEF InPosition
<1>2. CASE \E b \in Seq(Column), e \in Column : a = Append(b, e) /\ e.name = p
  <2>1. PICK b \in Seq(Column), e \in Column : a = Append(b, e) /\ e.name = p
    BY <1>2
  <2>2. Cat(a, r) = Around(b, e, r)
    BY <2>1 DEF Around, Cat
  <2>3. Distinct(Around(b, e, r)) /\ p # AtFront /\ Len(a) = Len(b) + 1
    BY <2>1, <2>2, ColumnAssumption, ColumnFields DEF Lists
  <2>4. \A c \in Column : InsertAfter(Cat(a, r), c, p) = Around(a, c, r)
    BY <2>1, <2>2, <2>3, InsertBehind
  <2>5. At(Cat(a, r), p) = Len(a)
    BY <2>1, <2>2, <2>3, AtAround
  <2>6. Has(Cat(a, r), p)
    BY <2>1, <2>2, AroundNames DEF Has
  <2> QED  BY <2>3, <2>4, <2>5, <2>6 DEF InPosition
<1> QED  BY <1>1, <1>2 DEF Ends

=============================================================================
