----------------------------- MODULE DataLemmas -----------------------------
(***************************************************************************)
(* Induction over natural numbers, stated over sets so that it needs no    *)
(* predicate as a parameter, the functions defined by recursion, and the   *)
(* texts of Strings: joining, and replacing token by token.                *)
(***************************************************************************)
EXTENDS Strings, TLAPS, WellFoundedInduction

\* Every nonempty set of natural numbers has a least element.
LEMMA LeastNat ==
  ASSUME NEW T \in SUBSET Nat, T # {}
  PROVE  \E x \in T : \A y \in T : x <= y
<1>1. IsWellFoundedOn(OpToRel(<, Nat), Nat)
  BY NatLessThanWellFounded, Zenon
<1>2. PICK x \in T : \A y \in T : ~ (<<y, x>> \in OpToRel(<, Nat))
  BY <1>1, WFMin, Zenon
<1>3. \A y \in T : ~ (y < x)
  BY <1>2, Zenon DEF OpToRel
<1> QED BY <1>3

\* Induction: a set that holds 0 and with each number the next holds them all.
LEMMA NatInd ==
  ASSUME NEW S, 0 \in S, \A n \in Nat : n \in S => n + 1 \in S
  PROVE  Nat \subseteq S
<1> DEFINE T == {n \in Nat : n \notin S}
<1> SUFFICES ASSUME T # {} PROVE FALSE
  BY Zenon
<1>1. PICK x \in T : \A y \in T : x <= y
  BY LeastNat, Zenon
<1>2. x # 0 /\ x - 1 \in Nat
  OBVIOUS
<1>3. x - 1 \in S
  BY <1>1, <1>2
<1> QED BY <1>2, <1>3

\* Values from a on, each obtained by its step from the one before.
HasSteps(X, a, n, step) ==
  \E f \in [0..n -> X] : f[0] = a /\ \A k \in 1..n : f[k] = step[k][f[k-1]]

\* A sequence of values, each obtained from the one before, exists.
LEMMA Recursion ==
  ASSUME NEW X, NEW a \in X, NEW n \in Nat, NEW step \in [1..n -> [X -> X]]
  PROVE  HasSteps(X, a, n, step)
<1> DEFINE Up(m, f) == f[0] = a /\ \A k \in 1..m : f[k] = step[k][f[k-1]]
           S == {m \in Nat : m <= n => \E f \in [0..m -> X] : Up(m, f)}
<1>1. 0 \in S
  <2>1. [c \in 0..0 |-> a] \in [0..0 -> X] /\ Up(0, [c \in 0..0 |-> a])
    OBVIOUS
  <2> QED BY <2>1, Zenon
<1>2. ASSUME NEW m \in Nat, m \in S PROVE m + 1 \in S
  <2>0. m + 1 \in Nat /\ (m + 1 <= n => m <= n)
    <3> HIDE DEF S
    <3> QED OBVIOUS
  <2> SUFFICES ASSUME m + 1 <= n
               PROVE  \E f \in [0..(m + 1) -> X] : Up(m + 1, f)
    BY <2>0, Zenon
  <2>1. PICK f \in [0..m -> X] : Up(m, f)
    BY <1>2, <2>0, Zenon
  <2> DEFINE h == [c \in 0..(m + 1) |-> IF c = m + 1 THEN step[c][f[m]] ELSE f[c]]
  <2>2. step[m + 1][f[m]] \in X
    OBVIOUS
  <2>3. h \in [0..(m + 1) -> X]
    BY <2>2
  <2>4. Up(m + 1, h)
    BY <2>1
  <2> QED BY <2>3, <2>4, Zenon
<1>3. n \in S
  <2> HIDE DEF S
  <2> QED BY <1>1, <1>2, NatInd, Zenon
<1>4. n <= n
  OBVIOUS
<1> QED BY <1>3, <1>4, Zenon DEF HasSteps

\* Sequences joined one after the other, by a recursive function: it is what it says.
LEMMA JoinedIs ==
  ASSUME NEW V, NEW s \in Seq(Seq(V))
  PROVE  LET J == CHOOSE g : g = [c \in 0..Len(s) |-> IF c = 0 THEN <<>> ELSE g[c - 1] \o s[c]]
         IN /\ J \in [0..Len(s) -> Seq(V)]
            /\ J[0] = <<>>
            /\ \A c \in 1..Len(s) : J[c] = J[c - 1] \o s[c]
<1> DEFINE len == Len(s)
           X == Seq(V)
           step == [c \in 1..len |-> [x \in X |-> x \o s[c]]]
           P(f) == f = [c \in 0..len |-> IF c = 0 THEN <<>> ELSE f[c - 1] \o s[c]]
           J == CHOOSE g : P(g)
<1>1. len \in Nat /\ <<>> \in X /\ \A c \in 1..len : s[c] \in X
  OBVIOUS
<1>2. step \in [1..len -> [X -> X]]
  BY <1>1
<1>3. PICK f \in [0..len -> X] : f[0] = <<>> /\ \A c \in 1..len : f[c] = step[c][f[c - 1]]
  <2> HIDE DEF step, len, X
  <2>1. HasSteps(X, <<>>, len, step)
    BY <1>1, <1>2, Recursion, Zenon
  <2> QED BY <2>1, Zenon DEF HasSteps
<1>4. ASSUME NEW c \in 1..len PROVE f[c] = f[c - 1] \o s[c]
  <2>0. c - 1 \in 0..len
    BY <1>1
  <2>1. f[c - 1] \in X
    BY <2>0, Zenon
  <2>2. step[c][f[c - 1]] = f[c - 1] \o s[c]
    BY <2>1, Zenon
  <2> QED BY <1>3, <2>2, Zenon
<1>5. P(f)
  <2>1. ASSUME NEW c \in 0..len PROVE f[c] = IF c = 0 THEN <<>> ELSE f[c - 1] \o s[c]
    <3>1. c = 0 \/ c \in 1..len
      BY <1>1
    <3>2. 0 \notin 1..len
      OBVIOUS
    <3> QED BY <1>3, <1>4, <3>1, <3>2, Zenon
  <2> QED BY <2>1, Zenon
<1>6. J = CHOOSE g : P(g)
  BY Zenon
<1>7. P(J)
  <2> HIDE DEF P
  <2> QED BY <1>5, <1>6, Zenon
<1> HIDE DEF J
<1>8. \A c \in 0..len : J[c] = IF c = 0 THEN <<>> ELSE J[c - 1] \o s[c]
  <2> QED BY <1>7, Zenon
<1> DEFINE E == {c \in Nat : c \in 0..len => J[c] = f[c]}
<1>9. 0 \in E
  BY <1>3, <1>8, Zenon
<1>10. ASSUME NEW c \in Nat, c \in E PROVE c + 1 \in E
  <2> SUFFICES ASSUME c + 1 \in 0..len PROVE J[c + 1] = f[c + 1]
    OBVIOUS
  <2>1. c \in 0..len /\ c + 1 \in 1..len /\ c + 1 # 0 /\ (c + 1) - 1 = c
    BY <1>1
  <2>2. J[c] = f[c]
    BY <1>10, <2>1, Zenon
  <2> QED BY <1>4, <1>8, <2>1, <2>2, Zenon
<1>11. Nat \subseteq E
  <2> HIDE DEF E
  <2> QED BY <1>9, <1>10, NatInd, Zenon
<1>12. \A c \in 0..len : J[c] = f[c]
  BY <1>1, <1>11
<1>13. J = f
  <2>1. J = [c \in 0..len |-> IF c = 0 THEN <<>> ELSE J[c - 1] \o s[c]]
    BY <1>7, Zenon
  <2>2. J = [c \in 0..len |-> J[c]]
    <3> QED BY <2>1, <1>8, Zenon
  <2>3. f = [c \in 0..len |-> f[c]]
    BY Zenon
  <2> QED BY <1>12, <2>2, <2>3, Zenon
<1> QED BY <1>3, <1>4, <1>13, Zenon DEF J

\* J joins the sequences of s: the elements of each are where those before it end.
Joins(J, s, V) ==
  /\ J[Len(s)] \in Seq(V) /\ Len(s) \in Nat /\ J[0] = <<>>
  /\ \A c \in 0..Len(s) : J[c] \in Seq(V) /\ Len(J[c]) <= Len(J[Len(s)])
  /\ \A c \in 0..(Len(s) - 1) :
       /\ s[c + 1] \in Seq(V)
       /\ Len(J[c + 1]) = Len(J[c]) + Len(s[c + 1])
       /\ \A r \in 1..Len(s[c + 1]) :
            /\ Len(J[c]) + r \in 1..Len(J[Len(s)])
            /\ J[Len(s)][Len(J[c]) + r] = s[c + 1][r]

LEMMA JoinedParts ==
  ASSUME NEW V, NEW s \in Seq(Seq(V)), NEW J \in [0..Len(s) -> Seq(V)],
         J[0] = <<>>, \A c \in 1..Len(s) : J[c] = J[c - 1] \o s[c]
  PROVE  Joins(J, s, V)
<1> DEFINE len == Len(s)
<1>0. \A q \in Seq(V) : Len(q) \in Nat
  OBVIOUS
<1>1. s \in Seq(Seq(V)) /\ len \in Nat
  OBVIOUS
<1>2. /\ J \in [0..len -> Seq(V)] /\ J[0] = <<>>
      /\ \A c \in 1..len : J[c] = J[c - 1] \o s[c]
  BY Zenon
<1> DEFINE all == J[len]
<1>3. all = J[len] /\ all \in Seq(V)
  BY <1>1, <1>2
<1>4. ASSUME NEW c \in 0..(len - 1)
      PROVE  /\ c + 1 \in 0..len /\ c \in 0..len
             /\ s[c + 1] \in Seq(V)
             /\ J[c] \in Seq(V) /\ J[c + 1] \in Seq(V)
             /\ J[c + 1] = J[c] \o s[c + 1]
  <2>1. c + 1 \in 1..len /\ (c + 1) - 1 = c /\ c + 1 \in 0..len /\ c \in 0..len
    BY <1>1
  <2>2. s[c + 1] \in Seq(V)
    BY <2>1
  <2>3. J[c] \in Seq(V) /\ J[c + 1] \in Seq(V)
    BY <2>1, Zenon
  <2>4. J[c + 1] = J[(c + 1) - 1] \o s[c + 1]
    BY <2>1, Zenon
  <2> QED BY <2>1, <2>2, <2>3, <2>4, Zenon
<1>5. ASSUME NEW c \in 0..(len - 1)
      PROVE  /\ Len(J[c + 1]) = Len(J[c]) + Len(s[c + 1])
             /\ \A k \in 1..Len(J[c]) : J[c + 1][k] = J[c][k]
             /\ \A r \in 1..Len(s[c + 1]) : J[c + 1][Len(J[c]) + r] = s[c + 1][r]
  <2> DEFINE b == J[c]
             x == s[c + 1]
             y == J[c + 1]
  <2>1. b \in Seq(V) /\ x \in Seq(V) /\ y = b \o x
    BY <1>4, Zenon
  <2> HIDE DEF b, x, y
  <2>2. /\ Len(y) = Len(b) + Len(x)
        /\ \A k \in 1..Len(b) : y[k] = b[k]
        /\ \A r \in 1..Len(x) : y[Len(b) + r] = x[r]
    BY <2>1
  <2> QED BY <2>2, Zenon DEF b, x, y
<1> DEFINE Prefix(d, c) == /\ Len(J[d]) <= Len(J[c])
                           /\ \A k \in 1..Len(J[d]) : J[c][k] = J[d][k]
           E == {c \in Nat : c \in 0..len => \A d \in 0..c : Prefix(d, c)}
<1>6. 0 \in E
  <2>1. J[0] \in Seq(V)
    BY <1>1, <1>2
  <2>2. Prefix(0, 0)
    BY <2>1
  <2> QED BY <2>2
<1>7. ASSUME NEW c \in Nat, c \in E PROVE c + 1 \in E
  <2> SUFFICES ASSUME c + 1 \in 0..len, NEW d \in 0..(c + 1) PROVE Prefix(d, c + 1)
    OBVIOUS
  <2>0. c \in 0..(len - 1)
    BY <1>1
  <2>1. /\ Len(J[c]) \in Nat /\ Len(J[c + 1]) \in Nat /\ Len(s[c + 1]) \in Nat
        /\ J[d] \in Seq(V)
    <3>1. J[c] \in Seq(V) /\ J[c + 1] \in Seq(V) /\ s[c + 1] \in Seq(V)
      BY <1>4, <2>0, Zenon
    <3>2. d \in 0..len
      BY <1>1
    <3>3. J[d] \in Seq(V)
      BY <3>2, Zenon
    <3> QED BY <3>1, <3>3, <1>0, Zenon
  <2>2. CASE d = c + 1
    BY <2>1, <2>2
  <2>3. CASE d \in 0..c
    <3>1. Prefix(d, c)
      BY <1>4, <1>7, <2>0, <2>3, Zenon
    <3>2. Prefix(c, c + 1)
      <4>1. /\ Len(J[c + 1]) = Len(J[c]) + Len(s[c + 1])
            /\ \A k \in 1..Len(J[c]) : J[c + 1][k] = J[c][k]
        BY <1>5, <2>0, Zenon
      <4>2. \A a, b, e \in Nat : e = a + b => a <= e
        OBVIOUS
      <4> QED BY <2>1, <4>1, <4>2, Zenon
    <3>3. Len(J[d]) \in Nat
      BY <2>1
    <3> QED BY <2>1, <3>1, <3>2, <3>3
  <2> QED BY <2>2, <2>3
<1>8. Nat \subseteq E
  <2> HIDE DEF E
  <2> QED BY <1>6, <1>7, NatInd, Zenon
<1>9. \A d \in 0..len : Prefix(d, len)
  <2>1. len \in 0..len
    BY <1>1
  <2> QED BY <1>1, <1>8, <2>1, Zenon
<1>10. ASSUME NEW c \in 0..(len - 1), NEW r \in 1..Len(s[c + 1])
       PROVE  Len(J[c]) + r \in 1..Len(all) /\ all[Len(J[c]) + r] = s[c + 1][r]
  <2>1. Prefix(c + 1, len)
    BY <1>4, <1>9, Zenon
  <2>2. Len(J[c]) \in Nat /\ Len(s[c + 1]) \in Nat /\ Len(all) \in Nat
    BY <1>3, <1>4
  <2>3. Len(J[c]) + r \in 1..Len(J[c + 1])
    <3>1. Len(J[c + 1]) = Len(J[c]) + Len(s[c + 1])
      BY <1>5, Zenon
    <3>2. \A a, b, e \in Nat : \A k \in 1..b : e = a + b => a + k \in 1..e
      OBVIOUS
    <3>3. Len(J[c + 1]) \in Nat
      BY <1>4, <1>0, Zenon
    <3> QED BY <2>2, <3>1, <3>2, <3>3, Zenon
  <2>4. J[c + 1][Len(J[c]) + r] = s[c + 1][r]
    BY <1>5, Zenon
  <2>5. Len(J[c + 1]) \in Nat
    BY <1>4, <1>0, Zenon
  <2>6. \A a, b \in Nat : \A k \in 1..a : a <= b => k \in 1..b
    OBVIOUS
  <2> QED BY <2>1, <2>2, <2>3, <2>4, <2>5, <2>6, Zenon
<1> QED BY <1>1, <1>2, <1>3, <1>4, <1>5, <1>9, <1>10, Zenon DEF Joins

-----------------------------------------------------------------------------
\* Sequences: the elements of a concatenation and of a part, and when two are equal.
LEMMA SeqBoth ==
  ASSUME NEW S, NEW a \in Seq(S), NEW b \in Seq(S)
  PROVE  /\ a \o b \in Seq(S)
         /\ Len(a \o b) = Len(a) + Len(b)
         /\ \A k \in 1..Len(a) + Len(b) :
              (a \o b)[k] = IF k <= Len(a) THEN a[k] ELSE b[k - Len(a)]
OBVIOUS

LEMMA SeqLen ==
  ASSUME NEW S, NEW s \in Seq(S)
  PROVE  Len(s) \in Nat /\ s \in [1..Len(s) -> S] /\ \A k \in 1..Len(s) : s[k] \in S
OBVIOUS

LEMMA SeqSame ==
  ASSUME NEW S, NEW a \in Seq(S), NEW b \in Seq(S), Len(a) = Len(b),
         \A k \in 1..Len(a) : a[k] = b[k]
  PROVE  a = b
OBVIOUS

\* r is the sequence a \o b over S, by its elements.
Glued(S, a, b, r) ==
  /\ r \in Seq(S) /\ Len(r) = Len(a) + Len(b)
  /\ \A k \in 1..Len(a) + Len(b) : r[k] = IF k <= Len(a) THEN a[k] ELSE b[k - Len(a)]

LEMMA SeqGlued ==
  ASSUME NEW S, NEW a \in Seq(S), NEW b \in Seq(S)
  PROVE  Glued(S, a, b, a \o b)
BY SeqBoth, Zenon DEF Glued

\* Concatenation is associative.
LEMMA SeqAssoc ==
  ASSUME NEW S, NEW a \in Seq(S), NEW b \in Seq(S), NEW c \in Seq(S)
  PROVE  (a \o b) \o c = a \o (b \o c) /\ (a \o b) \o c \in Seq(S)
<1> DEFINE p == a \o b
           q == b \o c
           x == p \o c
           y == a \o q
<1>0. Len(a) \in Nat /\ Len(b) \in Nat /\ Len(c) \in Nat
  OBVIOUS
<1>1. Glued(S, a, b, p) /\ Glued(S, b, c, q)
  BY SeqGlued, Zenon
<1>2. p \in Seq(S) /\ q \in Seq(S)
  BY <1>1, Zenon DEF Glued
<1> HIDE DEF p, q
<1>3. Glued(S, p, c, x)
  BY <1>2, SeqGlued, Zenon
<1>4. Glued(S, a, q, y)
  BY <1>2, SeqGlued, Zenon
<1> HIDE DEF x, y
<1>5. /\ Len(p) = Len(a) + Len(b) /\ Len(q) = Len(b) + Len(c)
      /\ Len(x) = Len(p) + Len(c) /\ Len(y) = Len(a) + Len(q)
  BY <1>1, <1>3, <1>4, Zenon DEF Glued
<1>6. ASSUME NEW k \in 1..Len(x) PROVE x[k] = y[k]
  <2>1. k \in 1..Len(p) + Len(c) /\ k \in 1..Len(a) + Len(q)
    BY <1>0, <1>5
  <2>2. CASE k <= Len(a)
    <3>1. k <= Len(p) /\ k \in 1..Len(a) + Len(b)
      BY <1>0, <1>5, <2>2
    <3> QED BY <1>1, <1>3, <1>4, <2>1, <2>2, <3>1, Zenon DEF Glued
  <2>3. CASE ~ (k <= Len(a)) /\ k <= Len(p)
    <3>1. /\ k \in 1..Len(a) + Len(b) /\ k - Len(a) \in 1..Len(b) + Len(c)
          /\ k - Len(a) <= Len(b)
      BY <1>0, <1>5, <2>3
    <3> QED BY <1>1, <1>3, <1>4, <2>1, <2>3, <3>1, Zenon DEF Glued
  <2>4. CASE ~ (k <= Len(p))
    <3>1. /\ ~ (k <= Len(a)) /\ k - Len(a) \in 1..Len(b) + Len(c)
          /\ ~ (k - Len(a) <= Len(b)) /\ (k - Len(a)) - Len(b) = k - Len(p)
      BY <1>0, <1>5, <2>4
    <3> QED BY <1>1, <1>3, <1>4, <2>1, <2>4, <3>1, Zenon DEF Glued
  <2> QED BY <2>2, <2>3, <2>4, Zenon
<1>7. Len(x) = Len(y)
  BY <1>0, <1>5
<1>8. x = y
  BY <1>3, <1>4, <1>6, <1>7, SeqSame, Zenon DEF Glued
<1> QED BY <1>3, <1>8, Zenon DEF Glued, p, q, x, y

LEMMA SeqPart ==
  ASSUME NEW S, NEW s, NEW m \in Int, NEW n \in Int, \A k \in m..n : s[k] \in S
  PROVE  /\ SubSeq(s, m, n) \in Seq(S)
         /\ Len(SubSeq(s, m, n)) = IF m <= n THEN n - m + 1 ELSE 0
         /\ \A k \in 1..n - m + 1 : SubSeq(s, m, n)[k] = s[m + k - 1]
OBVIOUS

LEMMA SamePart ==
  ASSUME NEW S, NEW s, NEW t, NEW m \in Int, NEW n \in Int,
         \A k \in m..n : s[k] \in S /\ t[k] = s[k]
  PROVE  SubSeq(t, m, n) = SubSeq(s, m, n)
<1> DEFINE a == SubSeq(s, m, n)
           b == SubSeq(t, m, n)
           len == IF m <= n THEN n - m + 1 ELSE 0
<1>1. a \in Seq(S) /\ Len(a) = len /\ \A k \in 1..n - m + 1 : a[k] = s[m + k - 1]
  BY SeqPart
<1>2. b \in Seq(S) /\ Len(b) = len /\ \A k \in 1..n - m + 1 : b[k] = t[m + k - 1]
  <2>1. \A k \in m..n : t[k] \in S
    BY Zenon
  <2> QED BY <2>1, SeqPart
<1> HIDE DEF a, b
<1>3. ASSUME NEW k \in 1..Len(a) PROVE b[k] = a[k]
  <2>1. k \in 1..n - m + 1 /\ m + k - 1 \in m..n
    BY <1>1
  <2> QED BY <1>1, <1>2, <2>1, Zenon
<1>4. Len(b) = Len(a)
  BY <1>1, <1>2
<1>5. b = a
  BY <1>1, <1>2, <1>3, <1>4, SeqSame, Zenon
<1> QED BY <1>5, Zenon DEF a, b

LEMMA SeqRest ==
  ASSUME NEW S, NEW s \in Seq(S), NEW l \in Nat, NEW n \in Nat, Len(s) = l + n
  PROVE  /\ SubSeq(s, l + 1, Len(s)) \in Seq(S)
         /\ Len(SubSeq(s, l + 1, Len(s))) = n
         /\ \A k \in 1..n : SubSeq(s, l + 1, Len(s))[k] = s[l + k]
<1>1. PICK m \in Int : m = l + 1
  OBVIOUS
<1>2. Len(s) \in Int /\ \A k \in m..Len(s) : s[k] \in S
  BY <1>1
<1> DEFINE d == SubSeq(s, m, Len(s))
<1>3. /\ d \in Seq(S) /\ Len(d) = IF m <= Len(s) THEN Len(s) - m + 1 ELSE 0
      /\ \A k \in 1..Len(s) - m + 1 : d[k] = s[m + k - 1]
  BY <1>2, SeqPart
<1> HIDE DEF d
<1>4. Len(d) = n
  BY <1>1, <1>3
<1>5. ASSUME NEW k \in 1..n PROVE d[k] = s[l + k]
  <2>1. k \in 1..Len(s) - m + 1 /\ m + k - 1 = l + k
    BY <1>1
  <2> QED BY <1>3, <2>1, Zenon
<1> QED BY <1>1, <1>3, <1>4, <1>5, Zenon DEF d

LEMMA SeqParts ==
  ASSUME NEW S, NEW s \in Seq(S), NEW k \in 1..Len(s)
  PROVE  /\ SubSeq(s, 1, k) \o SubSeq(s, k + 1, Len(s)) = SubSeq(s, 1, Len(s))
         /\ SubSeq(s, 1, Len(s)) = s
         /\ SubSeq(s, 1, k) = SubSeq(s, 1, k - 1) \o <<s[k]>>
OBVIOUS

LEMMA SeqAppend ==
  ASSUME NEW S, NEW s \in Seq(S), NEW x \in S
  PROVE  Append(s, x) = s \o <<x>>
OBVIOUS

\* The recursive function of Concat.
LEMMA ConcatBy ==
  ASSUME NEW V, NEW s \in Seq(Seq(V))
  PROVE  \E J \in [0..Len(s) -> Seq(V)] :
           /\ J[0] = <<>>
           /\ \A c \in 1..Len(s) : J[c] = J[c - 1] \o s[c]
           /\ Concat(s) = J[Len(s)]
BY JoinedIs, Zenon DEF Concat

\* Joining nothing, and one text more.
LEMMA ConcatNone == Concat(<<>>) = <<>>
<1>1. <<>> \in Seq(Seq({}))
  OBVIOUS
<1>2. PICK J \in [0..Len(<<>>) -> Seq({})] : J[0] = <<>> /\ Concat(<<>>) = J[Len(<<>>)]
  BY <1>1, ConcatBy, Zenon
<1> QED BY <1>2, Zenon

LEMMA ConcatMore ==
  ASSUME NEW V, NEW s \in Seq(Seq(V)), NEW x \in Seq(V)
  PROVE  Concat(s) \in Seq(V) /\ Concat(Append(s, x)) = Concat(s) \o x
<1> DEFINE n == Len(s)
           t == Append(s, x)
<1>0. n \in Nat /\ t \in Seq(Seq(V)) /\ Len(t) = n + 1 /\ t[n + 1] = x
  OBVIOUS
<1>0a. \A c \in 1..n : t[c] = s[c]
  OBVIOUS
<1>1. PICK J \in [0..n -> Seq(V)] :
        J[0] = <<>> /\ (\A c \in 1..n : J[c] = J[c - 1] \o s[c]) /\ Concat(s) = J[n]
  BY ConcatBy, Zenon
<1>2. PICK K \in [0..(n + 1) -> Seq(V)] :
        /\ K[0] = <<>> /\ (\A c \in 1..(n + 1) : K[c] = K[c - 1] \o t[c])
        /\ Concat(t) = K[n + 1]
  <2> HIDE DEF t, n
  <2>1. PICK K \in [0..Len(t) -> Seq(V)] :
          /\ K[0] = <<>> /\ (\A c \in 1..Len(t) : K[c] = K[c - 1] \o t[c])
          /\ Concat(t) = K[Len(t)]
    BY <1>0, ConcatBy, Zenon
  <2> QED BY <1>0, <2>1, Zenon
<1> HIDE DEF t, n
<1> DEFINE E == {c \in Nat : c \in 0..n => K[c] = J[c]}
<1>3. 0 \in E
  BY <1>1, <1>2, Zenon
<1>4. ASSUME NEW c \in Nat, c \in E PROVE c + 1 \in E
  <2> SUFFICES ASSUME c + 1 \in 0..n PROVE K[c + 1] = J[c + 1]
    OBVIOUS
  <2>1. c \in 0..n /\ c + 1 \in 1..n /\ c + 1 \in 1..(n + 1) /\ (c + 1) - 1 = c
    BY <1>0
  <2>2. K[c] = J[c]
    BY <1>4, <2>1, Zenon
  <2> QED BY <1>0a, <1>1, <1>2, <2>1, <2>2, Zenon
<1>5. Nat \subseteq E
  <2> HIDE DEF E
  <2> QED BY <1>3, <1>4, NatInd, Zenon
<1>6. K[n] = J[n] /\ n + 1 \in 1..(n + 1) /\ (n + 1) - 1 = n /\ n \in 0..n
  BY <1>0, <1>5
<1>7. K[n + 1] = J[n] \o x
  BY <1>0, <1>2, <1>6, Zenon
<1>8. Concat(s) \in Seq(V)
  BY <1>1, <1>6
<1> QED BY <1>1, <1>2, <1>7, <1>8, Zenon DEF t

\* A sequence that is not empty ends with an element.
EndsSo(t, n, X) == \E u \in Seq(X), x \in X : Len(u) = n /\ t = Append(u, x)

LEMMA EndsWith ==
  ASSUME NEW X, NEW t \in Seq(X), NEW n \in Nat, Len(t) = n + 1
  PROVE  EndsSo(t, n, X)
<1> DEFINE u == [k \in 1..n |-> t[k]]
<1>1. u \in Seq(X) /\ Len(u) = n /\ t[n + 1] \in X
  OBVIOUS
<1>2. t = Append(u, t[n + 1])
  OBVIOUS
<1> QED BY <1>1, <1>2, Zenon DEF EndsSo

\* Joining texts in two groups.
LEMMA ConcatBoth ==
  ASSUME NEW V, NEW s \in Seq(Seq(V)), NEW t \in Seq(Seq(V))
  PROVE  Concat(s \o t) = Concat(s) \o Concat(t)
<1> DEFINE T == Seq(Seq(V))
           E == {n \in Nat : \A u \in T : Len(u) = n => Concat(s \o u) = Concat(s) \o Concat(u)}
<1>0. Concat(s) \in Seq(V)
  <2>1. <<>> \in Seq(V)
    OBVIOUS
  <2> QED BY <2>1, ConcatMore, Zenon
<1>1. 0 \in E
  <2> SUFFICES ASSUME NEW u \in T, Len(u) = 0 PROVE Concat(s \o u) = Concat(s) \o Concat(u)
    BY Zenon
  <2>1. u = <<>> /\ s \o u = s
    OBVIOUS
  <2>2. Concat(s) \o <<>> = Concat(s)
    BY <1>0
  <2> QED BY <2>1, <2>2, ConcatNone, Zenon
<1>2. ASSUME NEW n \in Nat, n \in E PROVE n + 1 \in E
  <2> SUFFICES ASSUME NEW u \in T, Len(u) = n + 1
               PROVE  Concat(s \o u) = Concat(s) \o Concat(u)
    OBVIOUS
  <2>1. PICK v \in T, x \in Seq(V) : Len(v) = n /\ u = Append(v, x)
    <3>1. EndsSo(u, n, Seq(V))
      BY EndsWith, Zenon
    <3> QED BY <3>1, Zenon DEF EndsSo
  <2>2. s \o u = Append(s \o v, x) /\ s \o v \in T
    <3>1. <<x>> \in T /\ s \o v \in T
      OBVIOUS
    <3>2. u = v \o <<x>> /\ Append(s \o v, x) = (s \o v) \o <<x>>
      BY <2>1, <3>1, SeqAppend, Zenon
    <3>3. (s \o v) \o <<x>> = s \o (v \o <<x>>) /\ (s \o v) \o <<x>> \in T
      <4> HIDE DEF E
      <4> QED BY <3>1, SeqAssoc, Zenon
    <3> QED BY <3>1, <3>2, <3>3, Zenon
  <2>3. Concat(s \o v) = Concat(s) \o Concat(v)
    BY <1>2, <2>1, Zenon
  <2>4. Concat(u) = Concat(v) \o x /\ Concat(v) \in Seq(V)
    BY <2>1, ConcatMore, Zenon
  <2>5. Concat(s \o u) = Concat(s \o v) \o x
    BY <2>2, ConcatMore, Zenon
  <2>6. /\ (Concat(s) \o Concat(v)) \o x = Concat(s) \o (Concat(v) \o x)
        /\ (Concat(s) \o Concat(v)) \o x \in Seq(V)
    <3> HIDE DEF E, T
    <3> QED BY <1>0, <2>4, SeqAssoc, Zenon
  <2> QED BY <2>3, <2>4, <2>5, <2>6, Zenon
<1>3. Nat \subseteq E
  <2> HIDE DEF E
  <2> QED BY <1>1, <1>2, NatInd, Zenon
<1>4. Len(t) \in Nat
  OBVIOUS
<1> QED BY <1>3, <1>4, Zenon

LEMMA ConcatType ==
  ASSUME NEW V, NEW s \in Seq(Seq(V))
  PROVE  Concat(s) \in Seq(V)
<1>1. <<>> \in Seq(V)
  OBVIOUS
<1> QED BY <1>1, ConcatMore, Zenon

LEMMA ConcatOne ==
  ASSUME NEW V, NEW x \in Seq(V)
  PROVE  Concat(<<x>>) = x
<1>1. <<>> \in Seq(Seq(V)) /\ Append(<<>>, x) = <<x>> /\ <<>> \o x = x
  OBVIOUS
<1> QED BY <1>1, ConcatMore, ConcatNone, Zenon

\* An element of a sequence, and what is before and after it.
LEMMA SplitAt ==
  ASSUME NEW X, NEW P \in Seq(X), NEW q \in 1..Len(P)
  PROVE  P = Append(SubSeq(P, 1, q - 1), P[q]) \o SubSeq(P, q + 1, Len(P))
<1> DEFINE a == SubSeq(P, 1, q - 1)
           b == SubSeq(P, q + 1, Len(P))
<1>1. /\ SubSeq(P, 1, q) \o b = SubSeq(P, 1, Len(P))
      /\ SubSeq(P, 1, Len(P)) = P
      /\ SubSeq(P, 1, q) = a \o <<P[q]>>
  BY SeqParts, Zenon
<1>2. a \in Seq(X) /\ P[q] \in X
  OBVIOUS
<1>3. Append(a, P[q]) = a \o <<P[q]>>
  BY <1>2, SeqAppend, Zenon
<1> QED BY <1>1, <1>3, Zenon

\* The text before part q, part q, and the text after it.
TextBefore(P, q) == Concat(SubSeq(P, 1, q - 1))

TextAfter(P, q) == Concat(SubSeq(P, q + 1, Len(P)))

LEMMA ConcatAround ==
  ASSUME NEW V, NEW P \in Seq(Seq(V)), NEW q \in 1..Len(P)
  PROVE  /\ Concat(P) = TextBefore(P, q) \o P[q] \o TextAfter(P, q)
         /\ TextBefore(P, q) \in Seq(V) /\ TextAfter(P, q) \in Seq(V) /\ P[q] \in Seq(V)
<1> DEFINE a == SubSeq(P, 1, q - 1)
           b == SubSeq(P, q + 1, Len(P))
           x == P[q]
<1>1. a \in Seq(Seq(V)) /\ b \in Seq(Seq(V)) /\ x \in Seq(V)
  OBVIOUS
<1>2. P = Append(a, x) \o b
  <2> DEFINE W == Seq(V)
  <2>1. P \in Seq(W)
    BY Zenon
  <2> HIDE DEF W
  <2> QED BY <2>1, SplitAt, Zenon
<1>3. Append(a, x) \in Seq(Seq(V))
  BY <1>1
<1>4. Concat(P) = Concat(Append(a, x)) \o Concat(b)
  <2> HIDE DEF a, b, x
  <2> QED BY <1>1, <1>2, <1>3, ConcatBoth, Zenon
<1>5. Concat(Append(a, x)) = Concat(a) \o x /\ Concat(a) \in Seq(V)
  <2> HIDE DEF a, b, x
  <2> QED BY <1>1, ConcatMore, Zenon
<1>6. Concat(b) \in Seq(V)
  <2> HIDE DEF a, b, x
  <2> QED BY <1>1, ConcatType, Zenon
<1> QED BY <1>1, <1>4, <1>5, <1>6, Zenon DEF TextBefore, TextAfter

-----------------------------------------------------------------------------
(***************************************************************************)
(* A replacement token by token: F gives the text for each token.          *)
(***************************************************************************)
Mapped(t, F) == Concat([k \in 1..Len(t) |-> F[t[k]]])

LEMMA MappedParts ==
  ASSUME NEW V, NEW F \in [V -> Seq(V)], NEW t \in Seq(V)
  PROVE  /\ [k \in 1..Len(t) |-> F[t[k]]] \in Seq(Seq(V))
         /\ Mapped(t, F) \in Seq(V)
<1> DEFINE s == [k \in 1..Len(t) |-> F[t[k]]]
           W == Seq(V)
<1>1. \A k \in 1..Len(t) : F[t[k]] \in W
  OBVIOUS
<1>2. s \in Seq(W)
  <2> HIDE DEF W
  <2> QED BY <1>1
<1>3. s \in Seq(Seq(V))
  BY <1>2, Zenon
<1>4. Concat(s) \in Seq(V)
  BY <1>3, ConcatType, Zenon
<1> QED BY <1>3, <1>4, Zenon DEF Mapped

LEMMA MappedBoth ==
  ASSUME NEW V, NEW F \in [V -> Seq(V)], NEW a \in Seq(V), NEW b \in Seq(V)
  PROVE  Mapped(a \o b, F) = Mapped(a, F) \o Mapped(b, F)
<1> DEFINE s == [k \in 1..Len(a) |-> F[a[k]]]
           t == [k \in 1..Len(b) |-> F[b[k]]]
           c == a \o b
           u == [k \in 1..Len(c) |-> F[c[k]]]
<1>1. s \in Seq(Seq(V)) /\ t \in Seq(Seq(V))
  BY MappedParts, Zenon
<1>2. c \in Seq(V) /\ Len(c) = Len(a) + Len(b)
  OBVIOUS
<1>3. u = s \o t
  <2>1. Len(s) = Len(a) /\ Len(t) = Len(b)
    OBVIOUS
  <2>2. s \o t \in Seq(Seq(V)) /\ Len(s \o t) = Len(a) + Len(b)
    <3>1. s \o t \in Seq(Seq(V)) /\ Len(s \o t) = Len(s) + Len(t)
      BY <1>1, SeqBoth, Zenon
    <3> QED BY <2>1, <3>1, Zenon
  <2>3. u \in Seq(Seq(V)) /\ Len(u) = Len(c)
    <3>1. Mapped(c, F) \in Seq(V) /\ u \in Seq(Seq(V))
      BY <1>2, MappedParts, Zenon
    <3>2. Len(c) \in Nat
      BY <1>2
    <3>3. Len(u) = Len(c)
      <4> HIDE DEF c
      <4> QED BY <3>2
    <3> QED BY <3>1, <3>3, Zenon
  <2>4. ASSUME NEW k \in 1..Len(c) PROVE u[k] = (s \o t)[k]
    <3>1. CASE k <= Len(a)
      <4>1. k \in 1..Len(a) /\ c[k] = a[k]
        BY <1>2, <3>1
      <4>2. u[k] = F[a[k]] /\ s[k] = F[a[k]]
        <5> HIDE DEF c
        <5> QED BY <4>1, Zenon
      <4>3. (s \o t)[k] = s[k]
        <5> HIDE DEF s, t
        <5> QED BY <1>1, <2>1, <4>1
      <4> QED BY <4>2, <4>3, Zenon
    <3>2. CASE k > Len(a)
      <4>1. k - Len(a) \in 1..Len(b) /\ c[k] = b[k - Len(a)]
        BY <1>2, <3>2
      <4>2. u[k] = F[b[k - Len(a)]] /\ t[k - Len(a)] = F[b[k - Len(a)]]
        <5> HIDE DEF c
        <5> QED BY <4>1, Zenon
      <4>3. (s \o t)[k] = t[k - Len(a)]
        <5> HIDE DEF s, t
        <5>1. \A j \in 1..Len(s) + Len(t) :
                (s \o t)[j] = IF j <= Len(s) THEN s[j] ELSE t[j - Len(s)]
          BY <2>1, SeqBoth
        <5>2. k \in 1..Len(s) + Len(t) /\ ~ (k <= Len(s))
          BY <1>2, <2>1, <3>2
        <5> QED BY <2>1, <5>1, <5>2, Zenon
      <4> QED BY <4>2, <4>3, Zenon
    <3>3. Len(a) \in Nat
      OBVIOUS
    <3> QED BY <3>1, <3>2, <3>3
  <2>5. Len(u) = Len(s \o t)
    BY <1>2, <2>2, <2>3, Zenon
  <2>6. \A k \in 1..Len(u) : u[k] = (s \o t)[k]
    BY <2>3, <2>4, Zenon
  <2> HIDE DEF u, s, t, c
  <2> QED BY <2>2, <2>3, <2>5, <2>6, SeqSame, Zenon
<1>4. Concat(s \o t) = Concat(s) \o Concat(t)
  BY <1>1, ConcatBoth, Zenon
<1> QED BY <1>3, <1>4, Zenon DEF Mapped

LEMMA MappedOne ==
  ASSUME NEW V, NEW F \in [V -> Seq(V)], NEW c \in V
  PROVE  Mapped(<<c>>, F) = F[c]
<1>1. [k \in 1..Len(<<c>>) |-> F[<<c>>[k]]] = <<F[c]>>
  OBVIOUS
<1>2. F[c] \in Seq(V)
  BY Zenon
<1> QED BY <1>1, <1>2, ConcatOne, Zenon DEF Mapped

\* A text whose tokens are all replaced by themselves.
LEMMA MappedSame ==
  ASSUME NEW V, NEW F \in [V -> Seq(V)], NEW t \in Seq(V),
         \A k \in 1..Len(t) : F[t[k]] = <<t[k]>>
  PROVE  Mapped(t, F) = t
<1> DEFINE Same(u) == \A k \in 1..Len(u) : F[u[k]] = <<u[k]>>
           E == {n \in Nat : \A u \in Seq(V) : (Len(u) = n /\ Same(u)) => Mapped(u, F) = u}
<1>1. 0 \in E
  <2> SUFFICES ASSUME NEW u \in Seq(V), Len(u) = 0 PROVE Mapped(u, F) = u
    BY Zenon
  <2>1. u = <<>> /\ [k \in 1..Len(u) |-> F[u[k]]] = <<>>
    OBVIOUS
  <2> QED BY <2>1, ConcatNone, Zenon DEF Mapped
<1>2. ASSUME NEW n \in Nat, n \in E PROVE n + 1 \in E
  <2> SUFFICES ASSUME NEW u \in Seq(V), Len(u) = n + 1, Same(u) PROVE Mapped(u, F) = u
    <3> HIDE DEF Same
    <3> QED OBVIOUS
  <2>1. EndsSo(u, n, V)
    BY EndsWith, Zenon
  <2>2. PICK v \in Seq(V), x \in V : Len(v) = n /\ u = Append(v, x)
    BY <2>1, Zenon DEF EndsSo
  <2>3. u = v \o <<x>> /\ <<x>> \in Seq(V)
    BY <2>2, SeqAppend
  <2>4. Same(v) /\ F[x] = <<x>>
    <3>1. \A k \in 1..n : k \in 1..Len(u) /\ u[k] = v[k]
      BY <2>2
    <3>2. n + 1 \in 1..Len(u) /\ u[n + 1] = x
      BY <2>2
    <3> QED BY <2>2, <3>1, <3>2, Zenon
  <2>5. Mapped(v, F) = v
    BY <1>2, <2>2, <2>4, Zenon
  <2>6. Mapped(<<x>>, F) = <<x>>
    BY <2>4, MappedOne, Zenon
  <2>7. Mapped(v \o <<x>>, F) = Mapped(v, F) \o Mapped(<<x>>, F)
    BY <2>3, MappedBoth, Zenon
  <2> QED BY <2>3, <2>5, <2>6, <2>7, Zenon
<1>3. Nat \subseteq E
  <2> HIDE DEF E
  <2> QED BY <1>1, <1>2, NatInd, Zenon
<1>4. Len(t) \in Nat
  OBVIOUS
<1> QED BY <1>3, <1>4, Zenon

\* Replacing in the joined text is replacing in every part.
LEMMA MappedConcat ==
  ASSUME NEW V, NEW F \in [V -> Seq(V)], NEW P \in Seq(Seq(V))
  PROVE  /\ Mapped(Concat(P), F) = Concat([k \in 1..Len(P) |-> Mapped(P[k], F)])
         /\ [k \in 1..Len(P) |-> Mapped(P[k], F)] \in Seq(Seq(V))
<1> DEFINE T == Seq(Seq(V))
           M(Q) == [k \in 1..Len(Q) |-> Mapped(Q[k], F)]
           E == {n \in Nat : \A Q \in T : Len(Q) = n => Mapped(Concat(Q), F) = Concat(M(Q))}
<1>0. ASSUME NEW Q \in T PROVE M(Q) \in T
  <2> DEFINE W == Seq(V)
  <2>1. \A k \in 1..Len(Q) : Mapped(Q[k], F) \in W
    <3>1. \A k \in 1..Len(Q) : Q[k] \in Seq(V)
      OBVIOUS
    <3> QED BY <3>1, MappedParts, Zenon
  <2>2. M(Q) \in Seq(W)
    <3> HIDE DEF W
    <3>1. Len(Q) \in Nat
      OBVIOUS
    <3> QED BY <2>1, <3>1
  <2> QED BY <2>2, Zenon
<1>1. 0 \in E
  <2> SUFFICES ASSUME NEW Q \in T, Len(Q) = 0 PROVE Mapped(Concat(Q), F) = Concat(M(Q))
    BY Zenon
  <2>1. Q = <<>> /\ M(Q) = <<>> /\ [k \in 1..Len(<<>>) |-> F[<<>>[k]]] = <<>>
    OBVIOUS
  <2>2. Mapped(<<>>, F) = <<>>
    BY <2>1, ConcatNone, Zenon DEF Mapped
  <2> QED BY <2>1, <2>2, ConcatNone, Zenon
<1>2. ASSUME NEW n \in Nat, n \in E PROVE n + 1 \in E
  <2> SUFFICES ASSUME NEW Q \in T, Len(Q) = n + 1
               PROVE  Mapped(Concat(Q), F) = Concat(M(Q))
    OBVIOUS
  <2>1. EndsSo(Q, n, Seq(V))
    BY EndsWith, Zenon
  <2>2. PICK R \in T, x \in Seq(V) : Len(R) = n /\ Q = Append(R, x)
    BY <2>1, Zenon DEF EndsSo
  <2>3. Mapped(Concat(R), F) = Concat(M(R))
    BY <1>2, <2>2, Zenon
  <2>4. Concat(Q) = Concat(R) \o x /\ Concat(R) \in Seq(V)
    BY <2>2, ConcatMore, Zenon
  <2>5. Mapped(Concat(R) \o x, F) = Mapped(Concat(R), F) \o Mapped(x, F)
    BY <2>4, MappedBoth, Zenon
  <2>6. M(Q) = Append(M(R), Mapped(x, F))
    <3> DEFINE W == Seq(V)
               m(k) == Mapped(Q[k], F)
    <3>0. R \in Seq(W) /\ x \in W
      BY Zenon
    <3> HIDE DEF W
    <3>1. /\ Len(Q) = n + 1 /\ Q[n + 1] = x
          /\ \A k \in 1..n : Q[k] = R[k]
      BY <2>2, <3>0
    <3>2. M(R) = [k \in 1..n |-> m(k)]
      BY <2>2, <3>1, Zenon
    <3>3. M(Q) = [k \in 1..(n + 1) |-> m(k)] /\ Mapped(x, F) = m(n + 1)
      BY <3>1, Zenon
    <3> HIDE DEF m
    <3>4. [k \in 1..(n + 1) |-> m(k)] = Append([k \in 1..n |-> m(k)], m(n + 1))
      OBVIOUS
    <3> QED BY <3>2, <3>3, <3>4, Zenon
  <2>7. M(R) \in T /\ Mapped(x, F) \in Seq(V)
    BY <1>0, MappedParts, Zenon
  <2>8. Concat(M(Q)) = Concat(M(R)) \o Mapped(x, F)
    <3> HIDE DEF M
    <3> QED BY <2>6, <2>7, ConcatMore, Zenon
  <2> QED BY <2>3, <2>4, <2>5, <2>8, Zenon
<1>3. Nat \subseteq E
  <2> HIDE DEF E
  <2> QED BY <1>1, <1>2, NatInd, Zenon
<1>4. Len(P) \in Nat
  OBVIOUS
<1> QED BY <1>0, <1>3, <1>4, Zenon

\* Two replacements, one after the other.
Composed(F, G, H, V) == \A c \in V : Mapped(F[c], G) = H[c]

ReplacedBy(t, F, G, H) == Mapped(Mapped(t, F), G) = Mapped(t, H)

LEMMA MappedTwice ==
  ASSUME NEW V, NEW F \in [V -> Seq(V)], NEW G \in [V -> Seq(V)],
         NEW H \in [V -> Seq(V)], NEW t \in Seq(V), Composed(F, G, H, V)
  PROVE  ReplacedBy(t, F, G, H)
<1> DEFINE P == [k \in 1..Len(t) |-> F[t[k]]]
           Q == [k \in 1..Len(P) |-> Mapped(P[k], G)]
           R == [k \in 1..Len(t) |-> H[t[k]]]
<1>1. P \in Seq(Seq(V))
  BY MappedParts, Zenon
<1>2. Mapped(Concat(P), G) = Concat(Q)
  BY <1>1, MappedConcat, Zenon
<1>3. Len(P) = Len(t) /\ \A k \in 1..Len(t) : t[k] \in V
  OBVIOUS
<1>4. \A k \in 1..Len(t) : Mapped(P[k], G) = H[t[k]]
  BY <1>3, Zenon DEF Composed
<1>5. Q = R
  BY <1>3, <1>4, Zenon
<1> QED BY <1>2, <1>5, Zenon DEF Mapped, ReplacedBy

LEMMA Pair ==
  ASSUME NEW V, NEW x \in V, NEW y \in V
  PROVE  /\ <<x, y>> = <<x>> \o <<y>> /\ <<x, y>> \in Seq(V)
         /\ <<x>> \in Seq(V) /\ <<y>> \in Seq(V)
<1> DEFINE a == <<x>>
           b == <<y>>
           c == a \o b
           d == <<x, y>>
<1>1. a \in Seq(V) /\ Len(a) = 1 /\ a[1] = x
  OBVIOUS
<1>2. b \in Seq(V) /\ Len(b) = 1 /\ b[1] = y
  OBVIOUS
<1>3. d \in Seq(V) /\ Len(d) = 2 /\ d[1] = x /\ d[2] = y
  OBVIOUS
<1> HIDE DEF a, b, d
<1>4. c \in Seq(V) /\ Len(c) = 2 /\ c[1] = x /\ c[2] = y
  <2>1. /\ c \in Seq(V) /\ Len(c) = Len(a) + Len(b)
        /\ \A k \in 1..Len(a) + Len(b) : c[k] = IF k <= Len(a) THEN a[k] ELSE b[k - Len(a)]
    BY <1>1, <1>2, SeqBoth, Zenon
  <2> HIDE DEF c
  <2> QED BY <1>1, <1>2, <2>1
<1> HIDE DEF c
<1>5. \A k \in 1..2 : c[k] = d[k]
  BY <1>3, <1>4
<1>6. c = d
  BY <1>3, <1>4, <1>5, SeqSame, Zenon
<1> QED BY <1>1, <1>2, <1>3, <1>6, Zenon DEF a, b, c, d

LEMMA MappedPair ==
  ASSUME NEW V, NEW F \in [V -> Seq(V)], NEW x \in V, NEW y \in V
  PROVE  Mapped(<<x, y>>, F) = F[x] \o F[y]
<1>1. <<x, y>> = <<x>> \o <<y>> /\ <<x>> \in Seq(V) /\ <<y>> \in Seq(V)
  BY Pair, Zenon
<1>2. Mapped(<<x>> \o <<y>>, F) = Mapped(<<x>>, F) \o Mapped(<<y>>, F)
  BY <1>1, MappedBoth, Zenon
<1>3. Mapped(<<x>>, F) = F[x] /\ Mapped(<<y>>, F) = F[y]
  BY MappedOne, Zenon
<1> QED BY <1>1, <1>2, <1>3, Zenon

-----------------------------------------------------------------------------
(***************************************************************************)
(* Replacing the first token x of a text: str.replace with a count of 1.   *)
(***************************************************************************)
IsFirst(f, t, x) ==
  f \in 1..Len(t) /\ t[f] = x /\ \A h \in 1..(f - 1) : t[h] # x

FirstReplaced(t, f, new) == SubSeq(t, 1, f - 1) \o new \o SubSeq(t, f + 1, Len(t))

FirstDone(a, x, b, f, new) ==
  FirstReplaced(a \o <<x>> \o b, f, new) = a \o new \o b

LEMMA InTheMiddle ==
  ASSUME NEW V, NEW x \in V, NEW a \in Seq(V), NEW b \in Seq(V)
  PROVE  /\ Len(a) + 1 \in 1..Len(a \o <<x>> \o b)
         /\ (a \o <<x>> \o b)[Len(a) + 1] = x
<1> DEFINE y == <<x>>
           c == a \o y
           t == c \o b
<1>1. Len(a) \in Nat /\ Len(b) \in Nat
  OBVIOUS
<1>2. y \in Seq(V) /\ Len(y) = 1 /\ y[1] = x
  OBVIOUS
<1> HIDE DEF y
<1>3. /\ c \in Seq(V) /\ Len(c) = Len(a) + Len(y)
      /\ \A k \in 1..Len(a) + Len(y) : c[k] = IF k <= Len(a) THEN a[k] ELSE y[k - Len(a)]
  BY <1>2, SeqBoth, Zenon
<1> HIDE DEF c
<1>4. /\ t \in Seq(V) /\ Len(t) = Len(c) + Len(b)
      /\ \A k \in 1..Len(c) + Len(b) : t[k] = IF k <= Len(c) THEN c[k] ELSE b[k - Len(c)]
  <2>1. c \in Seq(V) /\ b \in Seq(V)
    BY <1>3, Zenon
  <2> QED BY <2>1, SeqBoth, Zenon
<1> HIDE DEF t
<1>5. Len(a) + 1 \in 1..Len(t) /\ t[Len(a) + 1] = x
  BY <1>1, <1>2, <1>3, <1>4
<1> QED BY <1>5, Zenon DEF t, c, y

LEMMA FirstIs ==
  ASSUME NEW V, NEW x \in V, NEW a \in Seq(V \ {x}), NEW b \in Seq(V), NEW f,
         IsFirst(f, a \o <<x>> \o b, x), NEW new \in Seq(V)
  PROVE  FirstDone(a, x, b, f, new)
<1> DEFINE y == <<x>>
           c == a \o y
           t == c \o b
<1>1. a \in Seq(V) /\ Len(a) \in Nat /\ Len(b) \in Nat /\ \A k \in 1..Len(a) : a[k] # x
  OBVIOUS
<1>2. y \in Seq(V) /\ Len(y) = 1 /\ y[1] = x
  OBVIOUS
<1> HIDE DEF y
<1>3. /\ c \in Seq(V) /\ Len(c) = Len(a) + Len(y)
      /\ \A k \in 1..Len(a) + Len(y) : c[k] = IF k <= Len(a) THEN a[k] ELSE y[k - Len(a)]
  BY <1>1, <1>2, SeqBoth, Zenon
<1> HIDE DEF c
<1>4. /\ t \in Seq(V) /\ Len(t) = Len(c) + Len(b)
      /\ \A k \in 1..Len(c) + Len(b) : t[k] = IF k <= Len(c) THEN c[k] ELSE b[k - Len(c)]
  <2>1. c \in Seq(V) /\ b \in Seq(V)
    BY <1>3, Zenon
  <2> QED BY <2>1, SeqBoth, Zenon
<1>5. t[Len(a) + 1] = x /\ \A k \in 1..Len(a) : t[k] = a[k]
  <2> HIDE DEF t
  <2>1. /\ Len(a) + 1 \in 1..Len(c) + Len(b) /\ Len(a) + 1 <= Len(c)
        /\ Len(a) + 1 \in 1..Len(a) + Len(y)
        /\ ~ (Len(a) + 1 <= Len(a)) /\ (Len(a) + 1) - Len(a) = 1
    BY <1>1, <1>2, <1>3
  <2>2. t[Len(a) + 1] = x
    BY <1>2, <1>3, <1>4, <2>1, Zenon
  <2>3. ASSUME NEW k \in 1..Len(a) PROVE t[k] = a[k]
    <3>1. /\ k \in 1..Len(c) + Len(b) /\ k <= Len(c)
          /\ k \in 1..Len(a) + Len(y) /\ k <= Len(a)
      BY <1>1, <1>2, <1>3
    <3> QED BY <1>3, <1>4, <3>1, Zenon
  <2> QED BY <2>2, <2>3, Zenon
<1>6. IsFirst(f, t, x)
  BY Zenon DEF c, y
<1> HIDE DEF t
<1>7. f = Len(a) + 1
  <2>1. f \in 1..Len(t) /\ Len(t) \in Nat /\ t[f] = x /\ \A h \in 1..(f - 1) : t[h] # x
    BY <1>4, <1>6 DEF IsFirst
  <2>2. ~ (f <= Len(a))
    BY <1>1, <1>5, <2>1
  <2>3. ~ (f > Len(a) + 1)
    BY <1>1, <1>5, <2>1
  <2> QED BY <1>1, <2>1, <2>2, <2>3
<1>8. SubSeq(t, 1, f - 1) = a
  <2>1. f - 1 = Len(a)
    BY <1>1, <1>7
  <2>2. \A k \in 1..Len(a) : t[k] \in V
    BY <1>1, <1>5
  <2>3. /\ SubSeq(t, 1, Len(a)) \in Seq(V)
        /\ Len(SubSeq(t, 1, Len(a))) = Len(a)
        /\ \A k \in 1..Len(a) : SubSeq(t, 1, Len(a))[k] = a[k]
    BY <1>1, <1>5, <2>2, SeqPart
  <2>4. SubSeq(t, 1, Len(a)) = a
    BY <1>1, <2>3, SeqSame, Zenon
  <2> QED BY <2>1, <2>4, Zenon
<1>9. SubSeq(t, f + 1, Len(t)) = b
  <2>1. Len(c) = f /\ f \in Nat /\ Len(t) = f + Len(b)
    BY <1>1, <1>2, <1>3, <1>4, <1>7
  <2>2. ASSUME NEW k \in 1..Len(b) PROVE t[f + k] = b[k]
    <3>1. /\ f + k \in 1..Len(c) + Len(b) /\ ~ (f + k <= Len(c))
          /\ (f + k) - Len(c) = k
      BY <1>1, <2>1
    <3> QED BY <1>4, <3>1, Zenon
  <2> DEFINE d == SubSeq(t, f + 1, Len(t))
  <2>3. d \in Seq(V) /\ Len(d) = Len(b) /\ \A k \in 1..Len(b) : d[k] = t[f + k]
    BY <1>1, <1>4, <2>1, SeqRest
  <2> HIDE DEF d
  <2>4. d = b
    BY <2>2, <2>3, SeqSame, Zenon
  <2> QED BY <2>4, Zenon DEF d
<1>10. FirstReplaced(t, f, new) = a \o new \o b
  BY <1>8, <1>9, Zenon DEF FirstReplaced
<1> QED BY <1>10, Zenon DEF t, c, y, FirstDone

\* The first token x of a joined text is the first part that is x.
NoneBefore(P, q, x, V) == \A k \in 1..(q - 1) : P[k] \in Seq(V \ {x})

PartReplaced(P, q, f, new) ==
  FirstReplaced(Concat(P), f, new) = Concat([P EXCEPT ![q] = new])

LEMMA FirstInParts ==
  ASSUME NEW V, NEW x \in V, NEW P \in Seq(Seq(V)), NEW q \in 1..Len(P), P[q] = <<x>>,
         NoneBefore(P, q, x, V),
         NEW f, IsFirst(f, Concat(P), x), NEW new \in Seq(V)
  PROVE  PartReplaced(P, q, f, new)
<1> DEFINE R == [P EXCEPT ![q] = new]
           W == Seq(V)
           Y == Seq(V \ {x})
<1>1. /\ Concat(P) = TextBefore(P, q) \o P[q] \o TextAfter(P, q)
      /\ TextAfter(P, q) \in Seq(V)
  BY ConcatAround, Zenon
<1>2. R \in Seq(W) /\ Len(R) = Len(P) /\ R[q] = new /\ Len(P) \in Nat
  <2>1. P \in Seq(W) /\ new \in W
    BY Zenon
  <2> HIDE DEF W
  <2> QED BY <2>1
<1>3. R \in Seq(Seq(V)) /\ q \in 1..Len(R)
  BY <1>2, Zenon
<1>4. Concat(R) = TextBefore(R, q) \o R[q] \o TextAfter(R, q)
  BY <1>3, ConcatAround, Zenon
<1>5. \A k \in 1..Len(P) : k # q => R[k] = P[k]
  <2>1. P \in Seq(W)
    BY Zenon
  <2> HIDE DEF W
  <2> QED BY <2>1
<1>6. SubSeq(R, 1, q - 1) = SubSeq(P, 1, q - 1)
  <2>1. ASSUME NEW k \in 1..q - 1 PROVE P[k] \in W /\ R[k] = P[k]
    <3>1. k \in 1..Len(P) /\ k # q
      BY <1>2
    <3>2. P[k] \in Seq(V)
      BY <3>1
    <3> QED BY <1>5, <3>1, <3>2, Zenon
  <2>2. 1 \in Int /\ q - 1 \in Int
    BY <1>2
  <2> HIDE DEF R, W
  <2> QED BY <2>1, <2>2, SamePart
<1>7. SubSeq(R, q + 1, Len(R)) = SubSeq(P, q + 1, Len(P))
  <2>1. ASSUME NEW k \in q + 1..Len(P) PROVE P[k] \in W /\ R[k] = P[k]
    <3>1. k \in 1..Len(P) /\ k # q
      BY <1>2
    <3>2. P[k] \in Seq(V)
      BY <3>1
    <3> QED BY <1>5, <3>1, <3>2, Zenon
  <2>2. q + 1 \in Int /\ Len(P) \in Int
    BY <1>2
  <2> HIDE DEF R, W
  <2>3. SubSeq(R, q + 1, Len(P)) = SubSeq(P, q + 1, Len(P))
    BY <2>1, <2>2, SamePart
  <2> QED BY <1>2, <2>3, Zenon
<1>8. Concat(R) = TextBefore(P, q) \o new \o TextAfter(P, q)
  BY <1>2, <1>4, <1>6, <1>7, Zenon DEF TextBefore, TextAfter
<1>9. TextBefore(P, q) \in Seq(V \ {x})
  <2>1. \A k \in 1..(q - 1) : P[k] \in Y
    BY Zenon DEF NoneBefore
  <2>2. SubSeq(P, 1, q - 1) \in Seq(Y)
    <3>1. 1 \in Int /\ q - 1 \in Int
      BY <1>2
    <3> HIDE DEF Y
    <3> QED BY <2>1, <3>1, SeqPart, Zenon
  <2>3. SubSeq(P, 1, q - 1) \in Seq(Seq(V \ {x}))
    BY <2>2, Zenon
  <2> QED BY <2>3, ConcatType, Zenon DEF TextBefore
<1>10. IsFirst(f, TextBefore(P, q) \o <<x>> \o TextAfter(P, q), x)
  BY <1>1, Zenon
<1>11. FirstDone(TextBefore(P, q), x, TextAfter(P, q), f, new)
  BY <1>1, <1>9, <1>10, FirstIs, Zenon
<1> QED BY <1>1, <1>8, <1>11, Zenon DEF FirstDone, PartReplaced

\* The tokens of a text, one by one.
LEMMA ConcatTokens ==
  ASSUME NEW V, NEW t \in Seq(V)
  PROVE  Concat([k \in 1..Len(t) |-> <<t[k]>>]) = t
<1> DEFINE F == [c \in V |-> <<c>>]
<1>1. F \in [V -> Seq(V)]
  OBVIOUS
<1>2. \A k \in 1..Len(t) : F[t[k]] = <<t[k]>>
  OBVIOUS
<1>3. Mapped(t, F) = t
  <2> HIDE DEF F
  <2> QED BY <1>1, <1>2, MappedSame, Zenon
<1>4. [k \in 1..Len(t) |-> F[t[k]]] = [k \in 1..Len(t) |-> <<t[k]>>]
  BY <1>2, Zenon
<1> QED BY <1>3, <1>4, Zenon DEF Mapped

=============================================================================
