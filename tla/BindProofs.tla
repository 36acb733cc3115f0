----------------------------- MODULE BindProofs -----------------------------
(***************************************************************************)
(* Proofs about BindParameters, for statements of any length with any      *)
(* number of parameters.                                                   *)
(*                                                                         *)
(* The operation on its way is the concatenation of one part per token of  *)
(* the given statement (TextWith): the token itself, or the literal it is  *)
(* already replaced by.  Since no literal holds a marker that is still to  *)
(* be replaced (Safe), the next marker found is always one of the          *)
(* statement's own, and the first of those: this is what BindInv says.     *)
(***************************************************************************)
EXTENDS BindParameters, DataLemmas

-----------------------------------------------------------------------------
(***************************************************************************)
(* _escape: after some of the replacements, their characters are escaped.  *)
(***************************************************************************)
EscapedBy(W) ==
  [t \in Token |-> IF \E w \in W : t = Word(w) THEN Backslashed(t[1]) ELSE <<t>>]

LEMMA WordType ==
  ASSUME NEW w \in Words
  PROVE  Word(w) \in Token /\ AfterBackslash(w) \in Words /\ Backslashed(w) \in Seq(Token)
<1>1. \A v \in Words : Word(v) \in Token
  BY Zenon DEF Word, Token
<1>2. AfterBackslash(w) \in Words /\ "backslash" \in Words
  BY BindParametersAssumption, Zenon DEF AfterBackslash, Special
<1>3. <<Word("backslash"), Word(AfterBackslash(w))>> \in Seq(Token)
  BY <1>1, <1>2, Pair, Zenon
<1> QED BY <1>1, <1>2, <1>3, Zenon DEF Backslashed

LEMMA EscapedByType ==
  ASSUME NEW W \in SUBSET Words
  PROVE  EscapedBy(W) \in [Token -> Seq(Token)]
<1>1. ASSUME NEW t \in Token
      PROVE  (IF \E w \in W : t = Word(w) THEN Backslashed(t[1]) ELSE <<t>>) \in Seq(Token)
  <2>1. t[1] \in Words
    BY Zenon DEF Token
  <2>2. Backslashed(t[1]) \in Seq(Token)
    BY <2>1, WordType, Zenon
  <2>3. <<t>> \in Seq(Token)
    <3> QED OBVIOUS
  <2> QED BY <2>2, <2>3, Zenon
<1> QED BY <1>1, Zenon DEF EscapedBy

LEMMA EscapeOneIs ==
  ASSUME NEW e \in Seq(Token), NEW w \in Words
  PROVE  EscapeOne(e, w) = Mapped(e, EscapedBy({w}))
<1>1. \A k \in 1..Len(e) : e[k] \in Token
  OBVIOUS
<1>2. ASSUME NEW k \in 1..Len(e)
      PROVE  (IF e[k] = Word(w) THEN Backslashed(w) ELSE <<e[k]>>) = EscapedBy({w})[e[k]]
  <2>1. Word(w)[1] = w
    BY Zenon DEF Word
  <2>2. EscapedBy({w})[e[k]] =
          IF \E v \in {w} : e[k] = Word(v) THEN Backslashed(e[k][1]) ELSE <<e[k]>>
    BY <1>1, Zenon DEF EscapedBy
  <2> QED BY <2>1, <2>2, Zenon
<1>3. [k \in 1..Len(e) |-> IF e[k] = Word(w) THEN Backslashed(w) ELSE <<e[k]>>] =
      [k \in 1..Len(e) |-> EscapedBy({w})[e[k]]]
  BY <1>2, Zenon
<1> QED BY <1>3, Zenon DEF EscapeOne, Replace, Mapped

\* One more replacement: nothing that the earlier ones wrote is found by it.
LEMMA EscapeMore ==
  ASSUME NEW W \in SUBSET Special, "backslash" \in W, NEW w \in Special, w \notin W,
         NEW e \in Seq(Token)
  PROVE  EscapeOne(Mapped(e, EscapedBy(W)), w) = Mapped(e, EscapedBy(W \cup {w}))
<1> DEFINE F == EscapedBy(W)
           G == EscapedBy({w})
           H == EscapedBy(W \cup {w})
<1>0. W \in SUBSET Words /\ {w} \in SUBSET Words /\ W \cup {w} \in SUBSET Words /\ w \in Words
  BY BindParametersAssumption, Zenon
<1>1. /\ F \in [Token -> Seq(Token)] /\ G \in [Token -> Seq(Token)]
      /\ H \in [Token -> Seq(Token)]
  BY <1>0, EscapedByType, Zenon
<1>2. Mapped(e, F) \in Seq(Token)
  BY <1>1, MappedParts, Zenon
<1>3. EscapeOne(Mapped(e, F), w) = Mapped(Mapped(e, F), G)
  BY <1>0, <1>2, EscapeOneIs, Zenon
<1>4. ASSUME NEW c \in Token PROVE Mapped(F[c], G) = H[c]
  <2>1. CASE \E v \in W : c = Word(v)
    <3>1. PICK v \in W : c = Word(v)
      BY <2>1, Zenon
    <3> DEFINE x == Word("backslash")
               y == Word(AfterBackslash(v))
    <3>2. v \in Words /\ c[1] = v
      BY <1>0, <3>1, Zenon DEF Word
    <3>3. F[c] = <<x, y>> /\ H[c] = <<x, y>>
      BY <2>1, <3>2, Zenon DEF EscapedBy, Backslashed
    <3>4. x \in Token /\ y \in Token
      BY <1>0, <3>2, WordType, Zenon
    <3>5. x # Word(w) /\ y # Word(w)
      <4>1. "backslash" # w
        BY Zenon
      <4>2. AfterBackslash(v) # w
        <5>1. w # "n" /\ w # "r" /\ v # w
          BY Zenon DEF Special
        <5> QED BY <5>1, Zenon DEF AfterBackslash
      <4> QED BY <4>1, <4>2, Zenon DEF Word
    <3>6. G[x] = <<x>> /\ G[y] = <<y>>
      <4> HIDE DEF x, y
      <4> QED BY <3>4, <3>5, Zenon DEF EscapedBy
    <3>7. Mapped(<<x, y>>, G) = G[x] \o G[y]
      BY <1>1, <3>4, MappedPair, ZenonT(40)
    <3>8. <<x>> \o <<y>> = <<x, y>>
      BY <3>4, Pair, Zenon
    <3> QED BY <3>3, <3>6, <3>7, <3>8, Zenon
  <2>2. CASE ~ \E v \in W : c = Word(v)
    <3>1. F[c] = <<c>>
      BY <2>2, Zenon DEF EscapedBy
    <3>2. Mapped(<<c>>, G) = G[c]
      BY <1>1, MappedOne, Zenon
    <3>3. (\E v \in {w} : c = Word(v)) <=> (\E v \in W \cup {w} : c = Word(v))
      BY <2>2, Zenon
    <3>4. G[c] = H[c]
      BY <3>3, Zenon DEF EscapedBy
    <3> QED BY <3>1, <3>2, <3>4, Zenon
  <2> QED BY <2>1, <2>2, Zenon
<1>5. Mapped(Mapped(e, F), G) = Mapped(e, H)
  <2>1. Composed(F, G, H, Token)
    BY <1>4, Zenon DEF Composed
  <2>2. ReplacedBy(e, F, G, H)
    BY <1>1, <2>1, MappedTwice, Zenon
  <2> QED BY <2>2, Zenon DEF ReplacedBy
<1> QED BY <1>3, <1>5, Zenon

\* The five replacements escape every special character once.
LEMMA EscapeIs ==
  ASSUME NEW e \in Seq(Token)
  PROVE  Escape(e) = EscapedOnce(e)
<1> DEFINE W1 == {"backslash"}
           W2 == {"backslash", "newline"}
           W3 == {"backslash", "newline", "return"}
           W4 == {"backslash", "newline", "return", "quote"}
           M(W) == Mapped(e, EscapedBy(W))
<1>0. "backslash" \in Words
  BY BindParametersAssumption, Zenon DEF Special
<1>1. EscapeOne(e, "backslash") = M(W1)
  BY <1>0, EscapeOneIs, Zenon
<1>2. EscapeOne(M(W1), "newline") = M(W2)
  <2>1. /\ W1 \in SUBSET Special /\ "backslash" \in W1 /\ "newline" \in Special
        /\ "newline" \notin W1 /\ W1 \cup {"newline"} = W2
    BY Zenon DEF Special
  <2>2. EscapeOne(M(W1), "newline") = M(W1 \cup {"newline"})
    <3> HIDE DEF W1
    <3> QED BY <2>1, EscapeMore, Zenon
  <2> QED BY <2>1, <2>2, Zenon
<1>3. EscapeOne(M(W2), "return") = M(W3)
  <2>1. /\ W2 \in SUBSET Special /\ "backslash" \in W2 /\ "return" \in Special
        /\ "return" \notin W2 /\ W2 \cup {"return"} = W3
    BY Zenon DEF Special
  <2>2. EscapeOne(M(W2), "return") = M(W2 \cup {"return"})
    <3> HIDE DEF W2
    <3> QED BY <2>1, EscapeMore, Zenon
  <2> QED BY <2>1, <2>2, Zenon
<1>4. EscapeOne(M(W3), "quote") = M(W4)
  <2>1. /\ W3 \in SUBSET Special /\ "backslash" \in W3 /\ "quote" \in Special
        /\ "quote" \notin W3 /\ W3 \cup {"quote"} = W4
    BY Zenon DEF Special
  <2>2. EscapeOne(M(W3), "quote") = M(W3 \cup {"quote"})
    <3> HIDE DEF W3
    <3> QED BY <2>1, EscapeMore, Zenon
  <2> QED BY <2>1, <2>2, Zenon
<1>5. EscapeOne(M(W4), "double_quote") = M(Special)
  <2>1. /\ W4 \in SUBSET Special /\ "backslash" \in W4 /\ "double_quote" \in Special
        /\ "double_quote" \notin W4 /\ W4 \cup {"double_quote"} = Special
    BY Zenon DEF Special
  <2>2. EscapeOne(M(W4), "double_quote") = M(W4 \cup {"double_quote"})
    <3> HIDE DEF W4
    <3> QED BY <2>1, EscapeMore
  <2> QED BY <2>1, <2>2, Zenon
<1> HIDE DEF W1, W2, W3, W4, M
<1>6. Escape(e) = M(Special)
  BY <1>1, <1>2, <1>3, <1>4, <1>5, Zenon DEF Escape
<1>7. M(Special) = EscapedOnce(e)
  <2>1. \A k \in 1..Len(e) : e[k] \in Token
    OBVIOUS
  <2>2. \A k \in 1..Len(e) : EscapedBy(Special)[e[k]] =
          IF \E w \in Special : e[k] = Word(w) THEN Backslashed(e[k][1]) ELSE <<e[k]>>
    BY <2>1, Zenon DEF EscapedBy
  <2> QED BY <2>2, Zenon DEF M, Mapped, EscapedOnce
<1> QED BY <1>6, <1>7, Zenon

-----------------------------------------------------------------------------
(***************************************************************************)
(* Counting the markers of the statement.                                  *)
(***************************************************************************)
One(t, h) == IF statement[h] = t THEN 1 ELSE 0

\* CountTo is the function its recursion describes.
LEMMA CountIs ==
  ASSUME NEW t, Len(statement) \in Nat
  PROVE  /\ \A k \in 0..Len(statement) : CountTo(t, k) \in Nat
         /\ CountTo(t, 0) = 0
         /\ \A k \in 1..Len(statement) : CountTo(t, k) = CountTo(t, k - 1) + One(t, k)
<1> DEFINE len == Len(statement)
           N == Nat
           step == [h \in 1..len |-> [x \in N |-> x + One(t, h)]]
           P(f) == f = [h \in 0..len |->
                     IF h = 0 THEN 0 ELSE f[h - 1] + (IF statement[h] = t THEN 1 ELSE 0)]
           C == CHOOSE g : P(g)
<1>1. len \in Nat /\ 0 \in N /\ \A h : One(t, h) \in Nat
  BY Zenon DEF One
<1>2. step \in [1..len -> [N -> N]]
  BY <1>1
<1>3. PICK f \in [0..len -> N] : f[0] = 0 /\ \A h \in 1..len : f[h] = step[h][f[h - 1]]
  <2> HIDE DEF step, len, N
  <2>1. HasSteps(N, 0, len, step)
    BY <1>1, <1>2, Recursion, Zenon
  <2> QED BY <2>1, Zenon DEF HasSteps
<1>4. ASSUME NEW h \in 1..len PROVE f[h] = f[h - 1] + (IF statement[h] = t THEN 1 ELSE 0)
  <2>0. h - 1 \in 0..len
    BY <1>1
  <2>1. f[h - 1] \in N
    BY <2>0, Zenon
  <2>2. step[h][f[h - 1]] = f[h - 1] + One(t, h)
    BY <2>1, Zenon
  <2> QED BY <1>3, <2>2, Zenon DEF One
<1>5. P(f)
  <2>1. ASSUME NEW h \in 0..len
        PROVE  f[h] = IF h = 0 THEN 0 ELSE f[h - 1] + (IF statement[h] = t THEN 1 ELSE 0)
    <3>1. h = 0 \/ h \in 1..len
      BY <1>1
    <3>2. 0 \notin 1..len
      OBVIOUS
    <3> QED BY <1>3, <1>4, <3>1, <3>2, Zenon
  <2> QED BY <2>1, Zenon
<1>6. C = CHOOSE g : P(g)
  BY Zenon
<1>7. P(C)
  <2> HIDE DEF P
  <2> QED BY <1>5, <1>6, Zenon
<1>0. \A k : CountTo(t, k) = C[k]
  BY Zenon DEF CountTo
<1> HIDE DEF C
<1>8. \A h \in 0..len :
        C[h] = IF h = 0 THEN 0 ELSE C[h - 1] + (IF statement[h] = t THEN 1 ELSE 0)
  BY <1>7, Zenon
<1> DEFINE E == {h \in Nat : h \in 0..len => C[h] \in Nat}
<1>9. 0 \in E
  BY <1>8
<1>10. ASSUME NEW h \in Nat, h \in E PROVE h + 1 \in E
  <2> SUFFICES ASSUME h + 1 \in 0..len PROVE C[h + 1] \in Nat
    OBVIOUS
  <2>1. h \in 0..len /\ h + 1 # 0 /\ (h + 1) - 1 = h
    BY <1>1
  <2>2. C[h + 1] = C[h] + (IF statement[h + 1] = t THEN 1 ELSE 0)
    BY <1>8, <2>1, Zenon
  <2> QED BY <1>10, <2>1, <2>2
<1>11. Nat \subseteq E
  <2> HIDE DEF E
  <2> QED BY <1>9, <1>10, NatInd, Zenon
<1>12. \A k \in 0..len : C[k] \in Nat
  BY <1>1, <1>11
<1>13. 0 \in 0..len /\ \A k \in 1..len : k \in 0..len /\ k # 0
  BY <1>1
<1>14. C[0] = 0 /\ \A k \in 1..len : C[k] = C[k - 1] + One(t, k)
  BY <1>8, <1>13, Zenon DEF One
<1> QED BY <1>0, <1>12, <1>14, Zenon

\* The counts only grow.
LEMMA CountGrows ==
  ASSUME NEW t, Len(statement) \in Nat, NEW h \in 0..Len(statement),
         NEW k \in h..Len(statement)
  PROVE  CountTo(t, h) <= CountTo(t, k)
<1> DEFINE len == Len(statement)
           C(j) == CountTo(t, j)
           E == {d \in Nat : h + d <= len => C(h) <= C(h + d)}
<1>1. /\ \A j \in 0..len : C(j) \in Nat
      /\ \A j \in 1..len : C(j) = C(j - 1) + One(t, j)
  BY CountIs, Zenon
<1>2. \A j : One(t, j) \in Nat
  BY Zenon DEF One
<1> HIDE DEF C
<1>3. 0 \in E
  <2>1. h + 0 = h /\ C(h) \in Nat
    BY <1>1
  <2> QED BY <2>1
<1>4. ASSUME NEW d \in Nat, d \in E PROVE d + 1 \in E
  <2> SUFFICES ASSUME h + (d + 1) <= len PROVE C(h) <= C(h + (d + 1))
    OBVIOUS
  <2>1. /\ h + d <= len /\ h + (d + 1) \in 1..len /\ (h + (d + 1)) - 1 = h + d
        /\ h + d \in 0..len
    OBVIOUS
  <2>2. C(h + (d + 1)) = C(h + d) + One(t, h + (d + 1))
    BY <1>1, <2>1, Zenon
  <2>3. C(h) <= C(h + d) /\ C(h) \in Nat /\ C(h + d) \in Nat
    BY <1>1, <1>4, <2>1, Zenon
  <2> QED BY <1>2, <2>2, <2>3
<1>5. Nat \subseteq E
  <2> HIDE DEF E
  <2> QED BY <1>3, <1>4, NatInd, Zenon
<1>6. k - h \in Nat /\ h + (k - h) = k /\ h + (k - h) <= len
  OBVIOUS
<1>7. C(h) <= C(h + (k - h))
  BY <1>5, <1>6, Zenon
<1> QED BY <1>6, <1>7, Zenon DEF C

\* Position q holds marker number m + 1: the markers before it are the first m, and
\* those after it come later.
IsNext(q, t, m) ==
  /\ q \in 1..Len(statement)
  /\ statement[q] = t
  /\ CountTo(t, q) = m + 1
  /\ \A k \in 1..(q - 1) : CountTo(t, k) <= m
  /\ \A k \in 1..Len(statement) : (k > q /\ statement[k] = t) => CountTo(t, k) > m + 1

LEMMA NextMarker ==
  ASSUME NEW t, Len(statement) \in Nat, NEW m \in Nat,
         NEW j \in 1..Len(statement), CountTo(t, j) > m
  PROVE  \E q \in 1..Len(statement) : IsNext(q, t, m)
<1> DEFINE len == Len(statement)
           C(k) == CountTo(t, k)
           T == {k \in 0..len : C(k) > m}
<1>1. /\ \A k \in 0..len : C(k) \in Nat
      /\ C(0) = 0
      /\ \A k \in 1..len : C(k) = C(k - 1) + One(t, k)
  BY CountIs, Zenon
<1>2. \A k \in 0..len : \A i \in k..len : C(k) <= C(i)
  BY CountGrows, Zenon
<1> HIDE DEF C
<1>3. T \in SUBSET Nat /\ T # {}
  <2>1. j \in 0..len /\ C(j) > m
    BY DEF C
  <2> QED BY <2>1
<1>4. PICK q \in T : \A k \in T : q <= k
  BY <1>3, LeastNat, Zenon
<1>5. q \in 1..len /\ q - 1 \in 0..len /\ C(q) > m
  BY <1>1, <1>4
<1>6. C(q - 1) <= m
  <2>1. q - 1 \notin T
    BY <1>4, <1>5
  <2>2. C(q - 1) \in Nat
    BY <1>1, <1>5, Zenon
  <2> QED BY <1>5, <2>1, <2>2
<1>7. C(q) = C(q - 1) + One(t, q) /\ C(q - 1) \in Nat /\ C(q) \in Nat
  BY <1>1, <1>5, Zenon
<1>8. statement[q] = t /\ C(q) = m + 1
  BY <1>5, <1>6, <1>7 DEF One
<1>9. ASSUME NEW k \in 1..(q - 1) PROVE C(k) <= m
  <2>1. k \in 0..len /\ C(k) \in Nat /\ k \notin T
    BY <1>1, <1>4, <1>5
  <2> QED BY <2>1
<1>10. ASSUME NEW k \in 1..len, k > q, statement[k] = t PROVE C(k) > m + 1
  <2>1. k - 1 \in q..len /\ q \in 0..len /\ k - 1 \in 0..len
    BY <1>5, <1>10
  <2>2. C(q) <= C(k - 1) /\ C(k) = C(k - 1) + 1 /\ C(k - 1) \in Nat
    BY <1>1, <1>2, <1>10, <2>1, Zenon DEF One
  <2> QED BY <1>8, <2>2
<1> QED BY <1>5, <1>8, <1>9, <1>10, Zenon DEF IsNext, C

-----------------------------------------------------------------------------
(***************************************************************************)
(* The literals, and the statement with some of its markers bound.         *)
(***************************************************************************)
Safe == {t \in Token : ~IsMarker(t)}

SafeValue(v) == \A k \in 1..Len(v.text) : ~IsMarker(v.text[k])

LEMMA WordSafe ==
  ASSUME NEW w \in Words, w # "?", w # "%s", w # ":"
  PROVE  Word(w) \in Safe
<1>1. Word(w) \in Token
  BY WordType, Zenon
<1> QED BY <1>1, Zenon DEF Safe, IsMarker, Positional, Word

\* The literal of a string, and of anything else.
LEMMA LiteralIs ==
  ASSUME NEW v \in Values
  PROVE  /\ v.type = "string" => /\ v.text \in Seq(Token)
                                 /\ Literal(v) = <<Word("quote")>> \o EscapedOnce(v.text) \o <<Word("quote")>>
         /\ v.type = "None" => Literal(v) = <<Word("NULL")>>
         /\ v.type = "other" => Literal(v) = v.text /\ v.text \in Seq(Token)
         /\ v.type \in {"None", "string", "other"}
<1>0. v.type \in {"None", "string", "other"} /\ (v.type = "other" => v.text \in Seq(Token))
  BY BindParametersAssumption, Zenon DEF Values
<1>1. v.type = "string" => v.text \in Seq(Token)
  BY BindParametersAssumption, Zenon DEF Values
<1>2. v.type = "string" => Escape(v.text) = EscapedOnce(v.text)
  BY <1>1, EscapeIs, Zenon
<1> QED BY <1>0, <1>1, <1>2, Zenon DEF Literal

LEMMA LiteralType ==
  ASSUME NEW v \in Values
  PROVE  /\ Literal(v) \in Seq(Token)
         /\ SafeValue(v) => Literal(v) \in Seq(Safe)
<1>0. /\ Word("NULL") \in Safe /\ Word("quote") \in Safe
      /\ Safe \in SUBSET Token
  <2>1. "NULL" \in Words /\ "quote" \in Words
    BY BindParametersAssumption, Zenon DEF Special
  <2> QED BY <2>1, WordSafe, Zenon DEF Safe
<1>1. CASE v.type = "None"
  <2>1. Literal(v) = <<Word("NULL")>>
    BY <1>1, LiteralIs, Zenon
  <2>2. \A c \in Safe : <<c>> \in Seq(Safe) /\ <<c>> \in Seq(Token)
    <3>1. \A c \in Safe : c \in Token
      BY <1>0, Zenon
    <3> QED BY <3>1
  <2> QED BY <1>0, <2>1, <2>2, Zenon
<1>2. CASE v.type = "string"
  <2> DEFINE t == v.text
             part(k) == IF \E w \in Special : t[k] = Word(w) THEN Backslashed(t[k][1]) ELSE <<t[k]>>
             parts == [k \in 1..Len(t) |-> part(k)]
             q == <<Word("quote")>>
  <2>1. t \in Seq(Token) /\ Literal(v) = q \o EscapedOnce(t) \o q
    BY <1>2, LiteralIs, Zenon
  <2>2. ASSUME NEW V \in {Token, Safe}, \A k \in 1..Len(t) : t[k] \in V
        PROVE  Literal(v) \in Seq(V)
    <3>1. ASSUME NEW k \in 1..Len(t) PROVE part(k) \in Seq(V)
      <4>1. CASE \E w \in Special : t[k] = Word(w)
        <5>1. PICK w \in Special : t[k] = Word(w)
          BY <4>1, Zenon
        <5>2. t[k][1] = w
          BY <5>1 DEF Word
        <5>3. Word("backslash") \in Safe /\ Word(AfterBackslash(w)) \in Safe
          <6>1. /\ "backslash" \in Words /\ AfterBackslash(w) \in Words
                /\ AfterBackslash(w) # "?" /\ AfterBackslash(w) # "%s" /\ AfterBackslash(w) # ":"
            BY BindParametersAssumption, Zenon DEF AfterBackslash, Special
          <6> QED BY <6>1, WordSafe, Zenon
        <5>4. Word("backslash") \in V /\ Word(AfterBackslash(w)) \in V
          BY <1>0, <2>2, <5>3, Zenon
        <5>5. Backslashed(w) \in Seq(V)
          BY <5>4, Pair, Zenon DEF Backslashed
        <5> QED BY <4>1, <5>2, <5>5, Zenon
      <4>2. CASE ~ \E w \in Special : t[k] = Word(w)
        <5>1. <<t[k]>> \in Seq(V)
          BY <2>2
        <5> QED BY <4>2, <5>1, Zenon
      <4> QED BY <4>1, <4>2, Zenon
    <3>2. parts \in Seq(Seq(V))
      <4> DEFINE W == Seq(V)
      <4>1. \A k \in 1..Len(t) : part(k) \in W
        BY <3>1, Zenon
      <4>2. Len(t) \in Nat
        BY <2>1
      <4> HIDE DEF W, part
      <4>3. parts \in Seq(W)
        BY <4>1, <4>2
      <4> QED BY <4>3, Zenon DEF W
    <3>3. Concat(parts) \in Seq(V)
      BY <3>2, ConcatType, Zenon
    <3>4. EscapedOnce(t) \in Seq(V)
      BY <3>3, Zenon DEF EscapedOnce
    <3>5. q \in Seq(V)
      BY <1>0, <2>2
    <3> HIDE DEF q, t
    <3> QED BY <2>1, <3>4, <3>5
  <2>3. \A k \in 1..Len(t) : t[k] \in Token
    <3> HIDE DEF t
    <3> QED BY <2>1
  <2>4. SafeValue(v) => \A k \in 1..Len(t) : t[k] \in Safe
    BY <2>3, Zenon DEF SafeValue, Safe
  <2> QED BY <2>2, <2>3, <2>4, Zenon
<1>3. CASE v.type = "other"
  <2> DEFINE t == v.text
  <2>1. Literal(v) = t /\ t \in Seq(Token)
    BY <1>3, LiteralIs, Zenon
  <2>2. ASSUME SafeValue(v) PROVE t \in Seq(Safe)
    <3>1. \A k \in 1..Len(t) : ~IsMarker(t[k])
      BY <2>2, Zenon DEF SafeValue
    <3> HIDE DEF t
    <3>2. Len(t) \in Nat /\ t = [k \in 1..Len(t) |-> t[k]] /\ \A k \in 1..Len(t) : t[k] \in Token
      BY <2>1
    <3>3. \A k \in 1..Len(t) : t[k] \in Safe
      BY <3>1, <3>2, Zenon DEF Safe
    <3> QED BY <3>2, <3>3
  <2> QED BY <2>1, <2>2, Zenon
<1>4. v.type \in {"None", "string", "other"}
  BY LiteralIs, Zenon
<1> QED BY <1>1, <1>2, <1>3, <1>4, Zenon

BoundText(k) == Literal(parameters[ParameterOf(k)])

\* The statement with the markers at the positions of D bound.
TextWith(D) ==
  [k \in 1..Len(statement) |-> IF k \in D THEN BoundText(k) ELSE <<statement[k]>>]

Inputs == statement \in Seq(Token) /\ parameters \in Seq(Values)

Bindable(D) ==
  D \subseteq 1..Len(statement) /\ \A k \in D : ParameterOf(k) \in 1..Len(parameters)

LEMMA TextType ==
  ASSUME Inputs, Plain, NEW D, Bindable(D)
  PROVE  /\ TextWith(D) \in Seq(Seq(Token))
         /\ Len(TextWith(D)) = Len(statement)
         /\ Len(statement) \in Nat
         /\ \A k \in 1..Len(statement) : statement[k] \in Token
         /\ \A k \in D : TextWith(D)[k] = BoundText(k) /\ BoundText(k) \in Seq(Safe)
         /\ \A k \in 1..Len(statement) : k \notin D => TextWith(D)[k] = <<statement[k]>>
<1>1. Len(statement) \in Nat /\ \A k \in 1..Len(statement) : statement[k] \in Token
  BY DEF Inputs
<1>2. ASSUME NEW p \in 1..Len(parameters)
      PROVE  Literal(parameters[p]) \in Seq(Token) /\ Literal(parameters[p]) \in Seq(Safe)
  <2>1. parameters[p] \in Values
    BY DEF Inputs
  <2>2. SafeValue(parameters[p])
    BY Zenon DEF Plain, SafeValue
  <2> QED BY <2>1, <2>2, LiteralType, Zenon
<1>3. \A k \in D : BoundText(k) \in Seq(Token) /\ BoundText(k) \in Seq(Safe)
  BY <1>2, Zenon DEF Bindable, BoundText
<1>4. \A k \in 1..Len(statement) : <<statement[k]>> \in Seq(Token)
  BY <1>1
<1> DEFINE W == Seq(Token)
           x(k) == IF k \in D THEN BoundText(k) ELSE <<statement[k]>>
<1>5. \A k \in 1..Len(statement) : x(k) \in W
  BY <1>3, <1>4, Zenon
<1>6. TextWith(D) = [k \in 1..Len(statement) |-> x(k)]
  BY Zenon DEF TextWith
<1>7. TextWith(D) \in Seq(W) /\ Len(TextWith(D)) = Len(statement)
  <2> HIDE DEF W, x
  <2> QED BY <1>1, <1>5, <1>6
<1>8. \A k \in D : k \in 1..Len(statement)
  BY Zenon DEF Bindable
<1>9. \A k \in D : TextWith(D)[k] = BoundText(k)
  BY <1>8, Zenon DEF TextWith
<1>10. \A k \in 1..Len(statement) : k \notin D => TextWith(D)[k] = <<statement[k]>>
  BY Zenon DEF TextWith
<1> QED BY <1>1, <1>3, <1>7, <1>9, <1>10, Zenon

-----------------------------------------------------------------------------
(***************************************************************************)
(* The positions bound when the call is at a place of the code, with the   *)
(* values of marker_index and index.                                       *)
(***************************************************************************)
BoundAt(at, m, n) ==
  {k \in 1..Len(statement) :
     \/ statement[k] = Word("?") /\ (at # "?" \/ CountTo(Word("?"), k) <= m)
     \/ /\ statement[k] = Word("%s")
        /\ at \in {"numbered", "done"} \/ (at = "%s" /\ CountTo(Word("%s"), k) <= m)
     \/ /\ statement[k][1] = ":"
        /\ at = "done" \/ (at = "numbered" /\ statement[k][2] > n)}

Total(w) == CountTo(Word(w), Len(statement))

NumbersNamed ==
  \A k \in 1..Len(statement) :
    statement[k][1] = ":" => statement[k][2] \in 1..Len(parameters)

\* The text is the statement with these positions bound, each to a parameter.
BoundSoFar(at, m, n, text) ==
  /\ text = Concat(TextWith(BoundAt(at, m, n)))
  /\ Bindable(BoundAt(at, m, n))
  /\ at \in {"?", "%s"} => m <= Total(at)
  /\ at # "?" => Total("?") \in {0, Len(parameters)}
  /\ at \in {"numbered", "done"} => Total("%s") \in {0, Len(parameters)}
  /\ at = "numbered" => n <= Len(parameters)

Sizes == Len(statement) \in Nat /\ Len(parameters) \in Nat

LEMMA WordsDiffer ==
  /\ Word("?") # Word("%s") /\ Word("?")[1] # ":" /\ Word("%s")[1] # ":"
  /\ Word("?") \in Positional /\ Word("%s") \in Positional
  /\ \A t : t[1] = ":" => t \notin Positional
BY DEF Word, Positional

\* A marker in the statement is counted.
LEMMA MarkerCounted ==
  ASSUME Sizes, NEW t, NEW k \in 1..Len(statement), statement[k] = t
  PROVE  CountTo(t, k) \in Nat /\ CountTo(t, k) >= 1
<1>1. /\ \A j \in 0..Len(statement) : CountTo(t, j) \in Nat
      /\ \A j \in 1..Len(statement) : CountTo(t, j) = CountTo(t, j - 1) + One(t, j)
  BY CountIs, Zenon DEF Sizes
<1>2. k \in 0..Len(statement) /\ k - 1 \in 0..Len(statement)
  BY DEF Sizes
<1> QED BY <1>1, <1>2 DEF One

\* replace_markers starts with the statement itself.
LEMMA BoundStart ==
  ASSUME Inputs, NEW n
  PROVE  BoundSoFar("?", 0, n, statement)
<1>0. Sizes
  BY DEF Inputs, Sizes
<1>1. BoundAt("?", 0, n) = {}
  <2>1. \A k \in 1..Len(statement) :
          statement[k] = Word("?") => ~ (CountTo(Word("?"), k) <= 0)
    <3> SUFFICES ASSUME NEW k \in 1..Len(statement), statement[k] = Word("?")
                 PROVE  ~ (CountTo(Word("?"), k) <= 0)
      BY Zenon
    <3>1. CountTo(Word("?"), k) \in Nat /\ CountTo(Word("?"), k) >= 1
      BY <1>0, MarkerCounted, Zenon
    <3> QED BY <3>1
  <2> QED BY <2>1, Zenon DEF BoundAt
<1>2. TextWith({}) = [k \in 1..Len(statement) |-> <<statement[k]>>]
  BY Zenon DEF TextWith
<1>3. Concat(TextWith({})) = statement
  BY <1>2, ConcatTokens, Zenon DEF Inputs
<1>4. Total("?") \in Nat
  <2>1. Len(statement) \in Nat /\ Len(statement) \in 0..Len(statement)
    BY <1>0 DEF Sizes
  <2>2. \A k \in 0..Len(statement) : CountTo(Word("?"), k) \in Nat
    BY <2>1, CountIs, Zenon
  <2> QED BY <2>1, <2>2, Zenon DEF Total
<1>5. 0 <= Total("?") /\ Bindable({})
  BY <1>4 DEF Bindable
<1> HIDE DEF Total
<1> QED BY <1>1, <1>3, <1>5, Zenon DEF BoundSoFar

\* A marker that is not bound is in the text, and the other way round.
LEMMA MarkerInText ==
  ASSUME Inputs, Plain, NEW D, Bindable(D), NEW w \in {"?", "%s"}
  PROVE  (\E j \in 1..Len(Concat(TextWith(D))) : Concat(TextWith(D))[j] = Word(w)) <=>
         (\E k \in 1..Len(statement) : k \notin D /\ statement[k] = Word(w))
<1> DEFINE P == TextWith(D)
           x == Word(w)
           V == Token \ {x}
<1>1. /\ P \in Seq(Seq(Token)) /\ Len(P) = Len(statement) /\ Len(statement) \in Nat
      /\ \A k \in 1..Len(statement) : statement[k] \in Token
      /\ \A k \in D : P[k] \in Seq(Safe)
      /\ \A k \in 1..Len(statement) : k \notin D => P[k] = <<statement[k]>>
  BY TextType, Zenon
<1> HIDE DEF P
<1>2. ASSUME NEW k \in 1..Len(statement), k \notin D, statement[k] = x
      PROVE  \E j \in 1..Len(Concat(P)) : Concat(P)[j] = x
  <2> DEFINE a == TextBefore(P, k)
             b == TextAfter(P, k)
  <2>1. k \in 1..Len(P) /\ P[k] = <<x>>
    BY <1>1, <1>2, Zenon
  <2>2. Concat(P) = a \o P[k] \o b /\ a \in Seq(Token) /\ b \in Seq(Token) /\ P[k] \in Seq(Token)
    BY <1>1, <2>1, ConcatAround, Zenon
  <2>3. x \in Token
    BY <1>1, <1>2, Zenon
  <2>4. Len(a) + 1 \in 1..Len(a \o <<x>> \o b) /\ (a \o <<x>> \o b)[Len(a) + 1] = x
    BY <2>2, <2>3, InTheMiddle, Zenon
  <2> QED BY <2>1, <2>2, <2>4, Zenon
<1>3. ASSUME \A k \in 1..Len(statement) : k \notin D => statement[k] # x
      PROVE  \A j \in 1..Len(Concat(P)) : Concat(P)[j] # x
  <2>1. ASSUME NEW k \in 1..Len(statement) PROVE P[k] \in Seq(V)
    <3>1. CASE k \in D
      <4>1. P[k] \in Seq(Safe)
        BY <1>1, <3>1, Zenon
      <4>2. \A c \in Safe : c \in V
        BY WordsDiffer, Zenon DEF Safe, IsMarker
      <4> QED BY <4>1, <4>2
    <3>2. CASE k \notin D
      <4>1. P[k] = <<statement[k]>> /\ statement[k] \in V
        BY <1>1, <1>3, <3>2, Zenon
      <4> QED BY <4>1
    <3> QED BY <3>1, <3>2, Zenon
  <2>2. P \in Seq(Seq(V))
    <3> DEFINE W == Seq(V)
    <3>1. \A k \in 1..Len(P) : P[k] \in W
      BY <1>1, <2>1, Zenon
    <3>2. P \in Seq(W)
      <4> HIDE DEF W
      <4> QED BY <1>1, <3>1
    <3> QED BY <3>2, Zenon
  <2>3. Concat(P) \in Seq(V)
    BY <2>2, ConcatType, Zenon
  <2> QED BY <2>3
<1> QED BY <1>2, <1>3, Zenon DEF P

\* An iteration of replace_markers binds the next marker of its kind.
LEMMA BoundReplace ==
  ASSUME Inputs, Plain, NEW at \in {"?", "%s"}, NEW m \in Nat, NEW n, NEW text, NEW f,
         BoundSoFar(at, m, n, text), IsFirst(f, text, Word(at)), m < Len(parameters)
  PROVE  BoundSoFar(at, m + 1, n, FirstReplaced(text, f, Literal(parameters[m + 1])))
<1> DEFINE D == BoundAt(at, m, n)
           P == TextWith(D)
           x == Word(at)
           new == Literal(parameters[m + 1])
<1>0. Sizes /\ parameters \in Seq(Values) /\ \A k \in 1..Len(statement) : statement[k] \in Token
  BY DEF Inputs, Sizes
<1>1. text = Concat(P) /\ Bindable(D)
  BY Zenon DEF BoundSoFar
<1>2. /\ P \in Seq(Seq(Token)) /\ Len(P) = Len(statement) /\ Len(statement) \in Nat
      /\ \A k \in D : P[k] = BoundText(k) /\ P[k] \in Seq(Safe)
      /\ \A k \in 1..Len(statement) : k \notin D => P[k] = <<statement[k]>>
  BY <1>1, TextType, Zenon
<1>3. ASSUME NEW k \in 1..Len(statement), statement[k] = x
      PROVE  CountTo(x, k) <= m <=> k \in D
  BY <1>3, WordsDiffer, Zenon DEF BoundAt
<1>4. PICK j \in 1..Len(statement) : j \notin D /\ statement[j] = x
  <2>1. \E i \in 1..Len(Concat(P)) : Concat(P)[i] = x
    BY <1>1, Zenon DEF IsFirst
  <2> QED BY <1>1, <2>1, MarkerInText, Zenon
<1>5. CountTo(x, j) > m
  <2>1. CountTo(x, j) \in Nat
    BY <1>0, <1>4, MarkerCounted, Zenon
  <2> QED BY <1>3, <1>4, <2>1
<1>6. PICK q \in 1..Len(statement) : IsNext(q, x, m)
  BY <1>2, <1>5, NextMarker, Zenon
<1>7. /\ statement[q] = x /\ CountTo(x, q) = m + 1 /\ q \notin D
      /\ \A k \in 1..(q - 1) : CountTo(x, k) <= m
      /\ \A k \in 1..Len(statement) : (k > q /\ statement[k] = x) => CountTo(x, k) > m + 1
  <2>1. /\ statement[q] = x /\ CountTo(x, q) = m + 1
        /\ \A k \in 1..(q - 1) : CountTo(x, k) <= m
        /\ \A k \in 1..Len(statement) : (k > q /\ statement[k] = x) => CountTo(x, k) > m + 1
    BY <1>6, Zenon DEF IsNext
  <2> QED BY <1>3, <2>1
<1>8. BoundAt(at, m + 1, n) = D \cup {q}
  <2>1. ASSUME NEW k \in 1..Len(statement)
        PROVE  k \in BoundAt(at, m + 1, n) <=> k \in D \/ k = q
    <3>1. CASE statement[k] # x
      BY <1>7, <3>1, Zenon DEF BoundAt
    <3>2. CASE statement[k] = x
      <4>1. CountTo(x, k) \in Nat
        BY <1>0, <3>2, MarkerCounted, Zenon
      <4>2. k \in BoundAt(at, m + 1, n) <=> CountTo(x, k) <= m + 1
        BY <3>2, WordsDiffer, Zenon DEF BoundAt
      <4>3. k \in D <=> CountTo(x, k) <= m
        BY <1>3, <3>2, Zenon
      <4>4. CASE k < q
        <5>1. k \in 1..(q - 1)
          BY <4>4
        <5> QED BY <1>7, <4>1, <4>2, <4>3, <5>1
      <4>5. CASE k = q
        BY <1>7, <4>2, <4>5
      <4>6. CASE k > q
        <5>1. CountTo(x, k) > m + 1
          BY <1>7, <3>2, <4>6, Zenon
        <5> QED BY <4>1, <4>2, <4>3, <4>6, <5>1
      <4> QED BY <4>4, <4>5, <4>6
    <3> QED BY <3>1, <3>2, Zenon
  <2>2. /\ BoundAt(at, m + 1, n) \in SUBSET (1..Len(statement))
        /\ D \in SUBSET (1..Len(statement))
    BY Zenon DEF BoundAt
  <2> HIDE DEF D
  <2> QED BY <2>1, <2>2, Zenon
<1>9. ParameterOf(q) = m + 1
  BY <1>7, WordsDiffer, Zenon DEF ParameterOf
<1>10. m + 1 \in 1..Len(parameters)
  BY <1>0 DEF Sizes
<1>11. Bindable(D \cup {q})
  BY <1>1, <1>9, <1>10, Zenon DEF Bindable
<1>12. new \in Seq(Token) /\ new = BoundText(q)
  <2>1. parameters[m + 1] \in Values
    BY <1>0, <1>10
  <2> QED BY <1>9, <2>1, LiteralType, Zenon DEF BoundText
<1>13. TextWith(D \cup {q}) = [P EXCEPT ![q] = new]
  <2>1. TextWith(D \cup {q}) =
          [k \in 1..Len(statement) |-> IF k = q THEN new ELSE P[k]]
    BY <1>2, <1>12, Zenon DEF TextWith
  <2>2. P = [k \in 1..Len(statement) |-> P[k]]
    BY Zenon DEF TextWith
  <2> HIDE DEF P, new
  <2> QED BY <2>1, <2>2, Zenon
<1>14. FirstReplaced(Concat(P), f, new) = Concat([P EXCEPT ![q] = new])
  <2>1. ASSUME NEW k \in 1..(q - 1) PROVE P[k] \in Seq(Token \ {x})
    <3>0. k \in 1..Len(statement)
      OBVIOUS
    <3>1. CASE k \in D
      <4>1. \A c \in Safe : c \in Token \ {x}
        BY WordsDiffer, Zenon DEF Safe, IsMarker
      <4>2. P[k] \in Seq(Safe)
        BY <1>2, <3>1, Zenon
      <4> HIDE DEF P, x
      <4> QED BY <4>1, <4>2
    <3>2. CASE k \notin D
      <4>1. statement[k] # x
        BY <1>3, <1>7, <3>0, <3>2, Zenon
      <4>2. P[k] = <<statement[k]>> /\ statement[k] \in Token \ {x}
        BY <1>0, <1>2, <3>0, <3>2, <4>1, Zenon
      <4> HIDE DEF P, x
      <4> QED BY <4>2
    <3> QED BY <3>1, <3>2, Zenon
  <2>2. /\ x \in Token /\ q \in 1..Len(P) /\ P[q] = <<x>>
        /\ IsFirst(f, Concat(P), x)
    BY <1>0, <1>1, <1>2, <1>7, Zenon
  <2>3. NoneBefore(P, q, x, Token)
    BY <2>1, Zenon DEF NoneBefore
  <2> HIDE DEF P, x, new
  <2>4. PartReplaced(P, q, f, new)
    BY <1>2, <1>12, <2>2, <2>3, FirstInParts, Zenon
  <2> QED BY <2>4, Zenon DEF PartReplaced
<1>15. m + 1 <= Total(at)
  <2>1. /\ q \in 0..Len(statement) /\ Len(statement) \in q..Len(statement)
    BY <1>0 DEF Sizes
  <2>2. CountTo(x, q) <= CountTo(x, Len(statement))
    BY <1>2, <2>1, CountGrows, Zenon
  <2> QED BY <1>7, <2>2, Zenon DEF Total
<1> HIDE DEF D, P, new
<1>16. FirstReplaced(text, f, new) = Concat(TextWith(BoundAt(at, m + 1, n)))
  BY <1>1, <1>8, <1>13, <1>14, Zenon
<1>17. Bindable(BoundAt(at, m + 1, n))
  BY <1>8, <1>11, Zenon
<1>18. at # "?" => Total("?") \in {0, Len(parameters)}
  BY Zenon DEF BoundSoFar
<1> QED BY <1>15, <1>16, <1>17, <1>18, Zenon DEF BoundSoFar, new

\* When no marker of a kind is left, all of them are bound, and marker_index counts
\* them.
LEMMA AllMarkersBound ==
  ASSUME Inputs, Plain, NEW at \in {"?", "%s"}, NEW m \in Nat, NEW n, NEW text,
         BoundSoFar(at, m, n, text), \A j \in 1..Len(text) : text[j] # Word(at)
  PROVE  /\ \A k \in 1..Len(statement) : statement[k] = Word(at) => k \in BoundAt(at, m, n)
         /\ Total(at) = m
<1> DEFINE D == BoundAt(at, m, n)
           x == Word(at)
           len == Len(statement)
<1>0. Sizes /\ len \in Nat /\ len \in 0..len
  BY DEF Inputs, Sizes
<1>1. text = Concat(TextWith(D)) /\ Bindable(D) /\ m <= Total(at)
  BY Zenon DEF BoundSoFar
<1>2. \A k \in 1..len : statement[k] = x => k \in D
  BY <1>1, MarkerInText
<1>3. \A k \in 0..len : CountTo(x, k) \in Nat
  BY <1>0, CountIs, Zenon
<1>4. CountTo(x, 0) = 0
  BY <1>0, CountIs, Zenon
<1>5. ~ (CountTo(x, len) > m)
  <2> SUFFICES ASSUME CountTo(x, len) > m PROVE FALSE
    BY Zenon
  <2>1. len \in 1..len
    BY <1>0, <1>4
  <2>2. PICK q \in 1..len : IsNext(q, x, m)
    BY <1>0, <2>1, NextMarker, Zenon
  <2>3. statement[q] = x /\ CountTo(x, q) = m + 1
    BY <2>2, Zenon DEF IsNext
  <2>4. q \in D
    BY <1>2, <2>3, Zenon
  <2>5. CountTo(x, q) <= m
    BY <2>3, <2>4, WordsDiffer, Zenon DEF BoundAt
  <2> QED BY <2>3, <2>5
<1>6. CountTo(x, len) = m
  <2>1. CountTo(x, len) \in Nat
    BY <1>0, <1>3, Zenon
  <2> QED BY <1>1, <1>5, <2>1 DEF Total
<1> QED BY <1>2, <1>6, Zenon DEF Total

\* After ? comes %s.
LEMMA BoundQmarks ==
  ASSUME Inputs, Plain, NEW m \in Nat, NEW n, NEW text, BoundSoFar("?", m, n, text),
         \A j \in 1..Len(text) : text[j] # Word("?"), m \in {0, Len(parameters)}
  PROVE  BoundSoFar("%s", 0, n, text)
<1>0. Sizes
  BY DEF Inputs, Sizes
<1>1. /\ \A k \in 1..Len(statement) : statement[k] = Word("?") => k \in BoundAt("?", m, n)
      /\ Total("?") = m
  BY AllMarkersBound, Zenon
<1>2. \A k \in 1..Len(statement) :
        statement[k] = Word("%s") => ~ (CountTo(Word("%s"), k) <= 0)
  <2> SUFFICES ASSUME NEW k \in 1..Len(statement), statement[k] = Word("%s")
               PROVE  ~ (CountTo(Word("%s"), k) <= 0)
    BY Zenon
  <2>1. CountTo(Word("%s"), k) \in Nat /\ CountTo(Word("%s"), k) >= 1
    BY <1>0, MarkerCounted, Zenon
  <2> QED BY <2>1
<1>3. BoundAt("%s", 0, n) = BoundAt("?", m, n)
  BY <1>1, <1>2, Zenon DEF BoundAt
<1>4. Total("%s") \in Nat
  <2>1. Len(statement) \in Nat /\ Len(statement) \in 0..Len(statement)
    BY <1>0 DEF Sizes
  <2>2. \A k \in 0..Len(statement) : CountTo(Word("%s"), k) \in Nat
    BY <2>1, CountIs, Zenon
  <2> QED BY <2>1, <2>2, Zenon DEF Total
<1>5. 0 <= Total("%s")
  BY <1>4
<1> QED BY <1>1, <1>3, <1>5, Zenon DEF BoundSoFar

\* After %s come the numbers, from the last.
LEMMA BoundFormats ==
  ASSUME Inputs, Plain, NumbersNamed, NEW m \in Nat, NEW n, NEW text,
         BoundSoFar("%s", m, n, text),
         \A j \in 1..Len(text) : text[j] # Word("%s"), m \in {0, Len(parameters)}
  PROVE  BoundSoFar("numbered", 0, Len(parameters), text)
<1>0. Sizes
  BY DEF Inputs, Sizes
<1>1. /\ \A k \in 1..Len(statement) : statement[k] = Word("%s") => k \in BoundAt("%s", m, n)
      /\ Total("%s") = m
  BY AllMarkersBound, Zenon
<1>2. \A k \in 1..Len(statement) :
        statement[k][1] = ":" => ~ (statement[k][2] > Len(parameters))
  BY <1>0 DEF NumbersNamed, Sizes
<1>3. BoundAt("numbered", 0, Len(parameters)) = BoundAt("%s", m, n)
  BY <1>1, <1>2, Zenon DEF BoundAt
<1>4. Len(parameters) <= Len(parameters)
  BY <1>0 DEF Sizes
<1> QED BY <1>1, <1>3, <1>4, Zenon DEF BoundSoFar

\* An iteration of the loop over the numbers binds the markers of one number.
LEMMA BoundNumber ==
  ASSUME Inputs, Plain, NumbersNamed, NEW m, NEW n \in Nat, n > 0, NEW text,
         BoundSoFar("numbered", m, n, text)
  PROVE  BoundSoFar("numbered", m, n - 1, ReplaceNumber(text, n, Literal(parameters[n])))
<1> DEFINE D == BoundAt("numbered", m, n)
           D1 == BoundAt("numbered", m, n - 1)
           P == TextWith(D)
           new == Literal(parameters[n])
           F == [t \in Token |-> AfterNumber(t, n, new)]
<1>0. Sizes /\ parameters \in Seq(Values) /\ n \in 1..Len(parameters)
  BY DEF Inputs, Sizes, BoundSoFar
<1>1. text = Concat(P) /\ Bindable(D)
  BY Zenon DEF BoundSoFar
<1>2. /\ P \in Seq(Seq(Token)) /\ Len(P) = Len(statement) /\ Len(statement) \in Nat
      /\ \A k \in 1..Len(statement) : statement[k] \in Token
      /\ \A k \in D : P[k] = BoundText(k) /\ P[k] \in Seq(Safe)
      /\ \A k \in 1..Len(statement) : k \notin D => P[k] = <<statement[k]>>
  BY <1>1, TextType, Zenon
<1>3. new \in Seq(Token)
  <2>1. parameters[n] \in Values
    BY <1>0
  <2> QED BY <2>1, LiteralType, Zenon
<1>4. \A t \in Token : t[1] \in Words /\ t[2] \in Nat
  BY Zenon DEF Token
<1>5. F \in [Token -> Seq(Token)]
  <2>1. ASSUME NEW t \in Token PROVE AfterNumber(t, n, new) \in Seq(Token)
    <3>1. <<"digits", t[2]>> \in Token
      BY <1>4, BindParametersAssumption, Zenon DEF Token
    <3>2. Append(new, <<"digits", t[2]>>) \in Seq(Token)
      <4> DEFINE d == <<"digits", t[2]>>
      <4> HIDE DEF d, new
      <4>1. d \in Token
        BY <3>1, Zenon DEF d
      <4>2. Append(new, d) \in Seq(Token)
        BY <1>3, <4>1
      <4> QED BY <4>2, Zenon DEF d
    <3>3. <<t>> \in Seq(Token)
      OBVIOUS
    <3> HIDE DEF new
    <3> QED BY <1>3, <3>2, <3>3, Zenon DEF AfterNumber
  <2> QED BY <2>1, Zenon
<1>6. \A t \in Token : F[t] = AfterNumber(t, n, new)
  BY Zenon
<1>7. ReplaceNumber(text, n, new) = Mapped(text, F)
  <2>1. text \in Seq(Token)
    BY <1>1, <1>2, ConcatType, Zenon
  <2>2. \A k \in 1..Len(text) : text[k] \in Token
    BY <2>1
  <2> HIDE DEF F, new
  <2>3. \A k \in 1..Len(text) : AfterNumber(text[k], n, new) = F[text[k]]
    BY <1>6, <2>2, Zenon
  <2> QED BY <2>3, Zenon DEF ReplaceNumber, Mapped
<1> HIDE DEF F, new, P
<1>8. Mapped(Concat(P), F) = Concat([k \in 1..Len(P) |-> Mapped(P[k], F)])
  BY <1>2, <1>5, MappedConcat, Zenon
<1>9. ASSUME NEW k \in 1..Len(statement)
      PROVE  /\ Mapped(P[k], F) = IF k \in D1 THEN BoundText(k) ELSE <<statement[k]>>
             /\ k \in D1 => ParameterOf(k) \in 1..Len(parameters)
  <2>1. CASE k \in D
    <3>1. P[k] = BoundText(k) /\ P[k] \in Seq(Safe)
      BY <1>2, <2>1, Zenon
    <3>2. P[k] \in Seq(Token)
      BY <1>2
    <3>3. \A j \in 1..Len(P[k]) : F[P[k][j]] = <<P[k][j]>>
      <4>1. \A j \in 1..Len(P[k]) : P[k][j] \in Safe
        BY <3>1
      <4>2. \A c \in Safe : c \in Token /\ c[1] # ":"
        BY Zenon DEF Safe, IsMarker
      <4>3. \A c \in Safe : F[c] = <<c>>
        BY <1>6, <4>2, Zenon DEF AfterNumber
      <4> QED BY <4>1, <4>3, Zenon
    <3>4. Mapped(P[k], F) = P[k]
      BY <1>5, <3>2, <3>3, MappedSame, Zenon
    <3>5. k \in D1
      <4>1. statement[k][1] = ":" => statement[k][2] \in Nat
        BY <1>2, <1>4, Zenon
      <4> QED BY <2>1, <4>1 DEF BoundAt
    <3>6. ParameterOf(k) \in 1..Len(parameters)
      BY <1>1, <2>1, Zenon DEF Bindable
    <3> QED BY <3>1, <3>4, <3>5, <3>6, Zenon
  <2>2. CASE k \notin D
    <3>1. P[k] = <<statement[k]>> /\ statement[k] \in Token
      BY <1>2, <2>2, Zenon
    <3>2. Mapped(P[k], F) = AfterNumber(statement[k], n, new)
      <4>1. Mapped(<<statement[k]>>, F) = F[statement[k]]
        BY <1>5, <3>1, MappedOne, Zenon
      <4> QED BY <1>6, <3>1, <4>1, Zenon
    <3>3. statement[k] # Word("?") /\ statement[k] # Word("%s")
      BY <2>2, Zenon DEF BoundAt
    <3>4. CASE statement[k][1] # ":"
      <4>1. k \notin D1
        BY <3>3, <3>4, Zenon DEF BoundAt
      <4> QED BY <3>2, <3>4, <4>1, Zenon DEF AfterNumber
    <3>5. CASE statement[k][1] = ":"
      <4> DEFINE i == statement[k][2]
      <4>1. i \in Nat /\ i <= n
        <5>1. i \in Nat
          BY <1>4, <3>1, Zenon
        <5>2. ~ (i > n)
          BY <2>2, <3>5, Zenon DEF BoundAt
        <5> QED BY <5>1, <5>2
      <4>2. k \in D1 <=> i > n - 1
        BY <3>3, <3>5, Zenon DEF BoundAt
      <4>3. ParameterOf(k) = i
        BY <3>5, WordsDiffer, Zenon DEF ParameterOf
      <4>4. CASE i = n
        <5>1. AfterNumber(statement[k], n, new) = new /\ k \in D1
          BY <3>5, <4>1, <4>2, <4>4 DEF AfterNumber
        <5>2. BoundText(k) = new
          BY <4>3, <4>4, Zenon DEF BoundText, new
        <5> QED BY <1>0, <3>2, <4>3, <4>4, <5>1, <5>2
      <4>5. CASE i < n
        <5>1. <<n, i>> \notin Begins
          <6>1. \A b \in Begins : b[1] < b[2]
            BY BindParametersAssumption, Zenon
          <6>2. <<n, i>>[1] = n /\ <<n, i>>[2] = i
            BY Zenon
          <6>3. ~ (n < i)
            BY <4>1, <4>5
          <6> QED BY <6>1, <6>2, <6>3, Zenon
        <5>2. AfterNumber(statement[k], n, new) = <<statement[k]>>
          BY <4>1, <4>5, <5>1 DEF AfterNumber
        <5>3. k \notin D1
          BY <4>1, <4>2, <4>5
        <5> QED BY <3>2, <5>2, <5>3, Zenon
      <4> QED BY <4>1, <4>4, <4>5
    <3> QED BY <3>4, <3>5, Zenon
  <2> QED BY <2>1, <2>2, Zenon
<1>10. [k \in 1..Len(P) |-> Mapped(P[k], F)] = TextWith(D1)
  <2> HIDE DEF D1
  <2> QED BY <1>2, <1>9, Zenon DEF TextWith
<1>11. Bindable(D1)
  <2>1. D1 \subseteq 1..Len(statement)
    BY Zenon DEF BoundAt
  <2> HIDE DEF D1
  <2> QED BY <1>9, <2>1, Zenon DEF Bindable
<1>12. ReplaceNumber(text, n, new) = Concat(TextWith(D1))
  <2> HIDE DEF D1
  <2> QED BY <1>1, <1>7, <1>8, <1>10, Zenon
<1>13. n - 1 <= Len(parameters)
  BY <1>0 DEF Sizes
<1>14. Total("?") \in {0, Len(parameters)} /\ Total("%s") \in {0, Len(parameters)}
  BY Zenon DEF BoundSoFar
<1> QED BY <1>11, <1>12, <1>13, <1>14, Zenon DEF BoundSoFar, new

\* When the loop is over all markers are bound, as replacing them at once binds them.
LEMMA BoundAll ==
  ASSUME Inputs, NumbersNamed, NEW m, NEW text, BoundSoFar("numbered", m, 0, text)
  PROVE  BoundSoFar("done", m, 0, text)
<1>1. \A k \in 1..Len(statement) : statement[k][1] = ":" => statement[k][2] > 0
  BY DEF NumbersNamed
<1>2. BoundAt("done", m, 0) = BoundAt("numbered", m, 0)
  BY <1>1, Zenon DEF BoundAt
<1> QED BY <1>2, Zenon DEF BoundSoFar

LEMMA BoundIsRight ==
  ASSUME NEW m, NEW n, NEW text, BoundSoFar("done", m, n, text)
  PROVE  /\ text = Simultaneous
         /\ \A t \in Positional : CountTo(t, Len(statement)) \in {0, Len(parameters)}
<1>1. \A k \in 1..Len(statement) : k \in BoundAt("done", m, n) <=> IsMarker(statement[k])
  BY Zenon DEF BoundAt, IsMarker, Positional
<1>2. TextWith(BoundAt("done", m, n)) =
        [k \in 1..Len(statement) |->
          IF IsMarker(statement[k]) THEN Literal(parameters[ParameterOf(k)])
          ELSE <<statement[k]>>]
  BY <1>1, Zenon DEF TextWith, BoundText
<1>3. text = Simultaneous
  BY <1>2, Zenon DEF BoundSoFar, Simultaneous
<1> QED BY <1>3, Zenon DEF BoundSoFar, Total, Positional

-----------------------------------------------------------------------------
(***************************************************************************)
(* The inductive invariant: the literals made so far are those of the      *)
(* parameters, the text is still the statement until a marker is bound,    *)
(* and from then on it is the statement with the markers bound that        *)
(* marker_index and index say.                                             *)
(***************************************************************************)
BindTyped ==
  /\ form \in {"list", "dict", "other"}
  /\ Inputs
  /\ string_parameters \in Seq(Seq(Token))
  /\ Len(string_parameters) <= Len(parameters)
  /\ \A p \in 1..Len(string_parameters) : string_parameters[p] = Literal(parameters[p])
  /\ bind_pc \in {"literals", "?", "%s", "numbered", "named", "done", "raised"}
  /\ marker_index \in Nat
  /\ index \in Nat
  /\ bind_pc \notin {"literals", "raised"} => Len(string_parameters) = Len(parameters)
  /\ bind_pc \in {"literals", "named"} => operation = statement
  /\ bind_pc = "literals" => marker_index = 0
  /\ bind_pc = "named" => form = "dict"
  /\ bind_pc \in {"?", "%s", "numbered"} => form = "list"

ListBound ==
  (form = "list" /\ Plain /\ NumbersNamed /\ bind_pc \in {"?", "%s", "numbered", "done"}) =>
    BoundSoFar(bind_pc, marker_index, index, operation)

BindInv == BindTyped /\ ListBound /\ DictBoundRight

LEMMA BindStart == BindInit => BindInv
<1> SUFFICES ASSUME BindInit PROVE BindInv
  BY Zenon
<1>1. ASSUME NEW S, NEW V, S \subseteq V, NEW n \in Nat, NEW t \in SeqsUpTo(S, n)
      PROVE  t \in Seq(V)
  <2>1. PICK m \in 0..n : t \in [1..m -> S]
    BY Zenon DEF SeqsUpTo
  <2> QED BY <1>1, <2>1
<1>2. statement \in Seq(Token)
  <2>1. (IF form = "dict" THEN DictTokens ELSE ListTokens) \subseteq Token
    BY BindParametersAssumption, Zenon
  <2>2. MaxStatement \in Nat
    BY BindParametersAssumption, Zenon
  <2>3. statement \in SeqsUpTo(IF form = "dict" THEN DictTokens ELSE ListTokens, MaxStatement)
    BY Zenon DEF BindInit
  <2> QED BY <1>1, <2>1, <2>2, <2>3, Zenon
<1>3. parameters \in Seq(Values)
  <2>1. MaxParameters \in Nat /\ Values \subseteq Values
    BY BindParametersAssumption, Zenon
  <2>2. parameters \in SeqsUpTo(Values, MaxParameters)
    BY Zenon DEF BindInit
  <2> QED BY <1>1, <2>1, <2>2, Zenon
<1>4. BindTyped
  <2>1. <<>> \in Seq(Seq(Token)) /\ Len(<<>>) = 0 /\ Len(parameters) \in Nat
    BY <1>3
  <2> QED BY <1>2, <1>3, <2>1 DEF BindTyped, BindInit, Inputs
<1> QED BY <1>4, Zenon DEF BindInv, ListBound, DictBoundRight, BindInit

\* What does not change with the inputs.
LEMMA SameInputs ==
  ASSUME UNCHANGED inputs
  PROVE  /\ form' = form /\ statement' = statement /\ parameters' = parameters
         /\ Inputs' = Inputs /\ Plain' = Plain /\ NumbersNamed' = NumbersNamed
         /\ \A at, m, n, text : BoundSoFar(at, m, n, text)' = BoundSoFar(at, m, n, text)
<1>1. form' = form /\ statement' = statement /\ parameters' = parameters
  BY Zenon DEF inputs
<1>2. \A t, k : CountTo(t, k)' = CountTo(t, k)
  BY <1>1, ZenonT(30) DEF CountTo
<1>3. Inputs' = Inputs /\ Plain' = Plain /\ NumbersNamed' = NumbersNamed
  BY <1>1, Zenon DEF Inputs, Plain, NumbersNamed
<1>4. \A k : ParameterOf(k)' = ParameterOf(k)
  BY <1>1, <1>2, Zenon DEF ParameterOf
<1>5. \A k : BoundText(k)' = BoundText(k)
  BY <1>1, <1>4, Zenon DEF BoundText
<1>6. \A D : TextWith(D)' = TextWith(D) /\ Bindable(D)' = Bindable(D)
  BY <1>1, <1>4, <1>5, Zenon DEF TextWith, Bindable
<1>7. \A at, m, n : BoundAt(at, m, n)' = BoundAt(at, m, n)
  BY <1>1, <1>2, SMT DEF BoundAt
<1>8. \A w : Total(w)' = Total(w)
  BY <1>1, <1>2, Zenon DEF Total
<1>9. ASSUME NEW at, NEW m, NEW n, NEW text
      PROVE  BoundSoFar(at, m, n, text)' = BoundSoFar(at, m, n, text)
  <2>1. BoundAt(at, m, n)' = BoundAt(at, m, n)
    BY <1>7, Zenon
  <2>2. /\ TextWith(BoundAt(at, m, n))' = TextWith(BoundAt(at, m, n))
        /\ Bindable(BoundAt(at, m, n))' = Bindable(BoundAt(at, m, n))
    BY <1>1, <1>4, <1>5, <2>1, Zenon DEF TextWith, Bindable
  <2>3. Total(at)' = Total(at) /\ Total("?")' = Total("?") /\ Total("%s")' = Total("%s")
    BY <1>8, Zenon
  <2> QED BY <1>1, <2>2, <2>3, Zenon DEF BoundSoFar
<1> QED BY <1>1, <1>3, <1>9, Zenon

\* str.find finds the first one.
LEMMA FindIs ==
  ASSUME NEW V, operation \in Seq(V), NEW w, Occurs(w)
  PROVE  IsFirst(Find(w), operation, Word(w))
<1> DEFINE T == {k \in 1..Len(operation) : operation[k] = Word(w)}
<1>1. T \in SUBSET Nat /\ T # {}
  BY DEF Occurs
<1>2. PICK x \in T : \A y \in T : x <= y
  BY <1>1, LeastNat, Zenon
<1>3. Len(operation) \in Nat
  OBVIOUS
<1>4. /\ x \in 1..Len(operation) /\ operation[x] = Word(w)
      /\ \A h \in 1..(x - 1) : operation[h] # Word(w)
  BY <1>2, <1>3
<1>5. \E k \in 1..Len(operation) :
        operation[k] = Word(w) /\ \A h \in 1..(k - 1) : operation[h] # Word(w)
  BY <1>4, Zenon
<1>6. /\ Find(w) \in 1..Len(operation) /\ operation[Find(w)] = Word(w)
      /\ \A h \in 1..(Find(w) - 1) : operation[h] # Word(w)
  BY <1>5, Zenon DEF Find
<1> QED BY <1>6, Zenon DEF IsFirst

\* The text of a list while it is being bound.
LEMMA BoundType ==
  ASSUME Inputs, Plain, NEW at, NEW m, NEW n, NEW text, BoundSoFar(at, m, n, text)
  PROVE  text \in Seq(Token)
<1>1. Bindable(BoundAt(at, m, n)) /\ text = Concat(TextWith(BoundAt(at, m, n)))
  BY Zenon DEF BoundSoFar
<1>2. TextWith(BoundAt(at, m, n)) \in Seq(Seq(Token))
  BY <1>1, TextType, Zenon
<1> QED BY <1>1, <1>2, ConcatType, Zenon

LEMMA BindStep == BindInv /\ [BindNext]_bindVars => BindInv'
<1> SUFFICES ASSUME BindInv, [BindNext]_bindVars PROVE BindInv'
  BY Zenon
<1>0. /\ BindTyped /\ ListBound /\ DictBoundRight
      /\ Len(parameters) \in Nat /\ Len(string_parameters) \in Nat
  BY DEF BindInv, BindTyped, Inputs
<1>1. CASE UNCHANGED bindVars
  <2>1. UNCHANGED inputs /\ UNCHANGED <<bind_pc, string_parameters, operation, marker_index, index>>
    BY <1>1, Zenon DEF bindVars
  <2>2. BindTyped'
    BY <1>0, <2>1, SameInputs, Zenon DEF BindTyped
  <2>3. ListBound'
    BY <1>0, <2>1, SameInputs, Zenon DEF ListBound
  <2>4. DictBoundRight'
    BY <1>0, <2>1, SameInputs, Zenon DEF DictBoundRight
  <2> QED BY <2>2, <2>3, <2>4, Zenon DEF BindInv
<1>2. CASE Raise /\ UNCHANGED inputs /\ bind_pc' = "raised"
  <2>1. UNCHANGED <<string_parameters, operation, marker_index, index>>
    BY <1>2, Zenon DEF Raise
  <2>2. BindTyped'
    BY <1>0, <1>2, <2>1, SameInputs, Zenon DEF BindTyped
  <2>3. ListBound' /\ DictBoundRight'
    BY <1>2, Zenon DEF ListBound, DictBoundRight
  <2> QED BY <2>2, <2>3, Zenon DEF BindInv
<1>3. CASE Other
  BY <1>2, <1>3, Zenon DEF Other, Raise
<1>4. CASE AppendLiteral
  <2> DEFINE l == Len(string_parameters) + 1
             new == Literal(parameters[l])
  <2>1. /\ bind_pc = "literals" /\ bind_pc' = "literals" /\ UNCHANGED inputs
        /\ UNCHANGED <<operation, marker_index, index>>
        /\ string_parameters' = Append(string_parameters, new)
        /\ l \in 1..Len(parameters)
    BY <1>0, <1>4 DEF AppendLiteral
  <2>2. new \in Seq(Token)
    <3>1. parameters[l] \in Values
      BY <1>0, <2>1 DEF BindTyped, Inputs
    <3> QED BY <3>1, LiteralType, Zenon
  <2> HIDE DEF new
  <2>3. /\ string_parameters' \in Seq(Seq(Token)) /\ Len(string_parameters') = l
        /\ string_parameters'[l] = new
        /\ \A p \in 1..Len(string_parameters) : string_parameters'[p] = string_parameters[p]
    <3> DEFINE W == Seq(Token)
    <3>1. string_parameters \in Seq(W) /\ new \in W
      BY <1>0, <2>2, Zenon DEF BindTyped
    <3> HIDE DEF W
    <3>2. /\ string_parameters' \in Seq(W) /\ Len(string_parameters') = l
          /\ string_parameters'[l] = new
          /\ \A p \in 1..Len(string_parameters) : string_parameters'[p] = string_parameters[p]
      BY <2>1, <3>1
    <3> QED BY <3>2, Zenon DEF W
  <2>4. \A p \in 1..Len(string_parameters') : string_parameters'[p] = Literal(parameters'[p])
    <3> SUFFICES ASSUME NEW p \in 1..l PROVE string_parameters'[p] = Literal(parameters[p])
      BY <2>1, <2>3, SameInputs, Zenon
    <3>1. CASE p = l
      BY <2>3, <3>1, Zenon DEF new
    <3>2. CASE p \in 1..Len(string_parameters)
      BY <1>0, <2>3, <3>2, Zenon DEF BindTyped
    <3> QED BY <1>0, <3>1, <3>2
  <2>5. BindTyped'
    <3>1. Len(string_parameters') <= Len(parameters')
      BY <2>1, <2>3, SameInputs
    <3> QED BY <1>0, <2>1, <2>3, <2>4, <3>1, SameInputs DEF BindTyped
  <2>6. ListBound' /\ DictBoundRight'
    BY <2>1 DEF ListBound, DictBoundRight
  <2> QED BY <2>5, <2>6, Zenon DEF BindInv
<1>5. CASE LiteralsDone
  <2>1. /\ bind_pc = "literals" /\ form # "other" /\ UNCHANGED inputs
        /\ Len(string_parameters) = Len(parameters)
        /\ bind_pc' = IF form = "list" THEN "?" ELSE "named"
        /\ UNCHANGED <<string_parameters, operation, marker_index, index>>
    BY <1>5, Zenon DEF LiteralsDone
  <2>2. BindTyped'
    BY <1>0, <2>1, SameInputs, Zenon DEF BindTyped
  <2>3. ListBound'
    <3> SUFFICES ASSUME form = "list" PROVE BoundSoFar(bind_pc, marker_index, index, operation)'
      BY <2>1, SameInputs, Zenon DEF ListBound
    <3>1. BoundSoFar("?", 0, index, statement)
      BY <1>0, BoundStart, Zenon DEF BindTyped
    <3>2. BoundSoFar("?", 0, index, statement)'
      BY <2>1, <3>1, SameInputs, Zenon
    <3> QED BY <1>0, <2>1, <3>2, SameInputs, Zenon DEF BindTyped
  <2>4. DictBoundRight'
    BY <2>1, Zenon DEF DictBoundRight
  <2> QED BY <2>2, <2>3, <2>4, Zenon DEF BindInv
<1>6. ASSUME NEW marker \in {"?", "%s"}, ReplaceMarker(marker) PROVE BindInv'
  <2>1. /\ bind_pc = marker /\ bind_pc' = bind_pc /\ UNCHANGED inputs /\ Occurs(marker)
        /\ marker_index < Len(string_parameters)
        /\ operation' = FirstReplaced(operation, Find(marker), string_parameters[marker_index + 1])
        /\ marker_index' = marker_index + 1
        /\ UNCHANGED <<string_parameters, index>>
    BY <1>6, Zenon DEF ReplaceMarker, FirstReplaced
  <2>2. /\ bind_pc \notin {"literals", "raised", "named", "numbered", "done"}
        /\ form = "list" /\ Len(string_parameters) = Len(parameters)
    BY <1>0, <1>6, <2>1, Zenon DEF BindTyped
  <2>3. BindTyped'
    BY <1>0, <2>1, <2>2, SameInputs DEF BindTyped
  <2>4. ListBound'
    <3> SUFFICES ASSUME Plain, NumbersNamed
                 PROVE  BoundSoFar(bind_pc, marker_index, index, operation)'
      BY <2>1, SameInputs, Zenon DEF ListBound
    <3>1. Inputs /\ BoundSoFar(marker, marker_index, index, operation)
      BY <1>0, <1>6, <2>1, <2>2, Zenon DEF ListBound, BindTyped
    <3>2. operation \in Seq(Token)
      BY <3>1, BoundType, Zenon
    <3>3. IsFirst(Find(marker), operation, Word(marker))
      BY <2>1, <3>2, FindIs, Zenon
    <3>4. string_parameters[marker_index + 1] = Literal(parameters[marker_index + 1])
      <4>1. marker_index \in Nat /\ marker_index + 1 \in 1..Len(string_parameters)
        BY <1>0, <2>1 DEF BindTyped
      <4> QED BY <1>0, <4>1, Zenon DEF BindTyped
    <3>5. BoundSoFar(marker, marker_index + 1, index, operation')
      <4>1. marker_index \in Nat /\ marker_index < Len(parameters)
        BY <1>0, <2>1, <2>2, Zenon DEF BindTyped
      <4>2. BoundSoFar(marker, marker_index + 1, index,
              FirstReplaced(operation, Find(marker), Literal(parameters[marker_index + 1])))
        BY <3>1, <3>3, <4>1, BoundReplace, Zenon
      <4> QED BY <2>1, <3>4, <4>2, Zenon
    <3> QED BY <2>1, <3>5, SameInputs
  <2>5. DictBoundRight'
    BY <2>1, <2>2, Zenon DEF DictBoundRight
  <2> QED BY <2>3, <2>4, <2>5, Zenon DEF BindInv
<1>7. ASSUME NEW marker \in {"?", "%s"}, MarkersRaise(marker) PROVE BindInv'
  BY <1>2, <1>7, Zenon DEF MarkersRaise, Raise
<1>8. ASSUME NEW marker \in {"?", "%s"}, MarkersDone(marker) PROVE BindInv'
  <2>1. /\ bind_pc = marker /\ UNCHANGED inputs /\ ~Occurs(marker)
        /\ marker_index \in {0, Len(string_parameters)}
        /\ bind_pc' = IF marker = "?" THEN "%s" ELSE "numbered"
        /\ marker_index' = 0
        /\ index' = IF marker = "?" THEN index ELSE Len(string_parameters)
        /\ UNCHANGED <<string_parameters, operation>>
    BY <1>8, Zenon DEF MarkersDone, WrongNumber
  <2>2. /\ bind_pc \notin {"literals", "raised", "named", "numbered", "done"}
        /\ form = "list" /\ Len(string_parameters) = Len(parameters)
    BY <1>0, <1>8, <2>1, Zenon DEF BindTyped
  <2>3. BindTyped'
    <3>1. index' \in Nat
      BY <1>0, <2>1, Zenon DEF BindTyped
    <3> QED BY <1>0, <2>1, <2>2, <3>1, SameInputs DEF BindTyped
  <2>4. ListBound'
    <3> SUFFICES ASSUME Plain, NumbersNamed
                 PROVE  BoundSoFar(bind_pc, marker_index, index, operation)'
      BY <2>1, SameInputs, Zenon DEF ListBound
    <3>1. Inputs /\ BoundSoFar(marker, marker_index, index, operation) /\ marker_index \in Nat
      BY <1>0, <1>8, <2>1, <2>2 DEF ListBound, BindTyped
    <3>2. \A j \in 1..Len(operation) : operation[j] # Word(marker)
      BY <2>1, Zenon DEF Occurs
    <3>3. marker_index \in {0, Len(parameters)}
      BY <2>1, <2>2, Zenon
    <3>4. CASE marker = "?"
      <4>1. BoundSoFar("%s", 0, index, operation)
        BY <3>1, <3>2, <3>3, <3>4, BoundQmarks
      <4> QED BY <2>1, <3>4, <4>1, SameInputs
    <3>5. CASE marker = "%s"
      <4>1. BoundSoFar("numbered", 0, Len(parameters), operation)
        BY <3>1, <3>2, <3>3, <3>5, BoundFormats
      <4> QED BY <2>1, <2>2, <3>5, <4>1, SameInputs
    <3> QED BY <1>8, <3>4, <3>5, Zenon
  <2>5. DictBoundRight'
    BY <2>1 DEF DictBoundRight
  <2> QED BY <2>3, <2>4, <2>5, Zenon DEF BindInv
<1>9. CASE ReplaceNumbered
  <2>1. /\ bind_pc = "numbered" /\ bind_pc' = bind_pc /\ UNCHANGED inputs /\ index > 0
        /\ operation' = ReplaceNumber(operation, index, string_parameters[index])
        /\ index' = index - 1
        /\ UNCHANGED <<string_parameters, marker_index>>
    BY <1>9, Zenon DEF ReplaceNumbered
  <2>2. form = "list" /\ Len(string_parameters) = Len(parameters) /\ index \in Nat
    BY <1>0, <2>1, Zenon DEF BindTyped
  <2>3. BindTyped'
    BY <1>0, <2>1, <2>2, SameInputs DEF BindTyped
  <2>4. ListBound'
    <3> SUFFICES ASSUME Plain, NumbersNamed
                 PROVE  BoundSoFar(bind_pc, marker_index, index, operation)'
      BY <2>1, SameInputs, Zenon DEF ListBound
    <3>1. Inputs /\ BoundSoFar("numbered", marker_index, index, operation)
      BY <1>0, <2>1, <2>2, Zenon DEF ListBound, BindTyped
    <3>2. string_parameters[index] = Literal(parameters[index])
      <4>1. index \in 1..Len(string_parameters)
        BY <1>0, <2>1, <2>2, <3>1 DEF BoundSoFar
      <4> QED BY <1>0, <4>1, Zenon DEF BindTyped
    <3>3. BoundSoFar("numbered", marker_index, index - 1,
            ReplaceNumber(operation, index, Literal(parameters[index])))
      BY <2>1, <2>2, <3>1, BoundNumber, Zenon
    <3> QED BY <2>1, <3>2, <3>3, SameInputs, Zenon
  <2>5. DictBoundRight'
    BY <2>1, Zenon DEF DictBoundRight
  <2> QED BY <2>3, <2>4, <2>5, Zenon DEF BindInv
<1>10. CASE NumberedDone
  <2>1. /\ bind_pc = "numbered" /\ bind_pc' = "done" /\ UNCHANGED inputs /\ index = 0
        /\ UNCHANGED <<string_parameters, operation, marker_index, index>>
    BY <1>10, Zenon DEF NumberedDone
  <2>2. form = "list"
    BY <1>0, <2>1, Zenon DEF BindTyped
  <2>3. BindTyped'
    BY <1>0, <2>1, SameInputs, Zenon DEF BindTyped
  <2>4. ListBound'
    <3> SUFFICES ASSUME Plain, NumbersNamed
                 PROVE  BoundSoFar(bind_pc, marker_index, index, operation)'
      BY <2>1, SameInputs, Zenon DEF ListBound
    <3>1. Inputs /\ BoundSoFar("numbered", marker_index, 0, operation)
      BY <1>0, <2>1, <2>2, Zenon DEF ListBound, BindTyped
    <3>2. BoundSoFar("done", marker_index, 0, operation)
      BY <3>1, BoundAll, Zenon
    <3> QED BY <2>1, <3>2, SameInputs, Zenon
  <2>5. DictBoundRight'
    BY <2>1, <2>2, SameInputs, Zenon DEF DictBoundRight
  <2> QED BY <2>3, <2>4, <2>5, Zenon DEF BindInv
<1>11. CASE BindNamed
  <2>1. CASE KeyError(ToPyformat(operation))
    BY <1>2, <1>11, <2>1 DEF BindNamed, Raise
  <2>2. CASE ~KeyError(ToPyformat(operation))
    <3>1. /\ bind_pc = "named" /\ bind_pc' = "done" /\ UNCHANGED inputs
          /\ operation' = Format(ToPyformat(operation), string_parameters)
          /\ UNCHANGED <<string_parameters, marker_index, index>>
      BY <1>11, <2>2, Zenon DEF BindNamed
    <3>2. form = "dict" /\ operation = statement /\ Len(string_parameters) = Len(parameters)
      BY <1>0, <3>1, Zenon DEF BindTyped
    <3>3. BindTyped'
      BY <1>0, <3>1, <3>2, SameInputs, Zenon DEF BindTyped
    <3>4. ListBound'
      BY <3>1, <3>2, SameInputs, Zenon DEF ListBound
    <3>5. DictBoundRight'
      <4> DEFINE text == ToPyformat(statement)
                 part(k) == IF statement[k][1] \in {":name", "%(name)s"}
                              THEN Literal(parameters[statement[k][2]])
                            ELSE IF statement[k] = Word("%%") THEN <<Word("%")>>
                            ELSE <<statement[k]>>
      <4>0. Len(statement) \in Nat
        BY <1>0 DEF BindTyped, Inputs
      <4>1. /\ Len(text) = Len(statement)
            /\ \A k \in 1..Len(statement) :
                 text[k] = IF statement[k][1] = ":name" THEN <<"%(name)s", statement[k][2]>>
                           ELSE statement[k]
        BY <4>0 DEF ToPyformat
      <4>2. ASSUME NEW k \in 1..Len(statement)
            PROVE  Formatted(text[k], string_parameters) = part(k)
        <5>0. Word("%%")[1] = "%%"
          BY Zenon DEF Word
        <5>1. CASE statement[k][1] \in {":name", "%(name)s"}
          <6>1. text[k][1] = "%(name)s" /\ text[k][2] = statement[k][2]
            <7>1. text[k] = IF statement[k][1] = ":name" THEN <<"%(name)s", statement[k][2]>>
                            ELSE statement[k]
              BY <4>1, Zenon
            <7> HIDE DEF text
            <7> QED BY <5>1, <7>1
          <6>2. text[k][2] \in DOMAIN string_parameters
            BY <2>2, <3>2, <4>1, <6>1, Zenon DEF KeyError
          <6>3. statement[k][2] \in 1..Len(string_parameters)
            BY <1>0, <6>1, <6>2 DEF BindTyped
          <6>4. string_parameters[statement[k][2]] = Literal(parameters[statement[k][2]])
            BY <1>0, <6>3, Zenon DEF BindTyped
          <6>5. Formatted(text[k], string_parameters) = string_parameters[text[k][2]]
            BY <6>1, Zenon DEF Formatted
          <6> HIDE DEF text
          <6> QED BY <5>1, <6>1, <6>4, <6>5, Zenon
        <5>2. CASE statement[k][1] \notin {":name", "%(name)s"}
          <6>1. text[k] = statement[k]
            BY <4>1, <5>2, Zenon
          <6> HIDE DEF text
          <6> QED BY <5>2, <6>1, Zenon DEF Formatted
        <5> QED BY <5>1, <5>2, Zenon
      <4> HIDE DEF text
      <4>3. [k \in 1..Len(text) |-> Formatted(text[k], string_parameters)] =
            [k \in 1..Len(statement) |-> part(k)]
        <5> HIDE DEF part
        <5> QED BY <4>1, <4>2, Zenon
      <4>4. Format(text, string_parameters) = Concat([k \in 1..Len(statement) |-> part(k)])
        <5> HIDE DEF part
        <5> QED BY <4>3, Zenon DEF Format
      <4>5. operation' = Concat([k \in 1..Len(statement) |-> part(k)])
        BY <3>1, <3>2, <4>4, Zenon DEF text
      <4> QED BY <3>1, <4>5, SameInputs, Zenon DEF DictBoundRight
    <3> QED BY <3>3, <3>4, <3>5, Zenon DEF BindInv
  <2> QED BY <2>1, <2>2, Zenon
<1> QED BY <1>1, <1>3, <1>4, <1>5, <1>6, <1>7, <1>8, <1>9, <1>10, <1>11, Zenon DEF BindNext

\* The invariant.
LEMMA BindInvariant == BindSpec => []BindInv
<1>1. BindInit => BindInv
  BY BindStart, Zenon
<1>2. BindInv /\ [BindNext]_bindVars => BindInv'
  BY BindStep, Zenon
<1> QED BY <1>1, <1>2, PTL DEF BindSpec

(***************************************************************************)
(* A list is bound as if all its markers were replaced at once, for every  *)
(* statement, every list of parameters and every way to write numbers.     *)
(***************************************************************************)
THEOREM ListIsBoundRight == BindSpec => []ListBoundRight
<1>1. BindInv => ListBoundRight
  <2> SUFFICES ASSUME BindInv, bind_pc = "done", form = "list", Plain, NumbersNamed
               PROVE  /\ operation = Simultaneous
                      /\ \A t \in Positional :
                           CountTo(t, Len(statement)) \in {0, Len(parameters)}
    BY Zenon DEF ListBoundRight, NumbersNamed
  <2>1. BoundSoFar("done", marker_index, index, operation)
    BY Zenon DEF BindInv, ListBound
  <2> QED BY <2>1, BoundIsRight, Zenon
<1> QED BY <1>1, BindInvariant, PTL

(***************************************************************************)
(* A dictionary binds every named marker at once, whatever the parameters  *)
(* contain.                                                                *)
(***************************************************************************)
THEOREM DictIsBoundRight == BindSpec => []DictBoundRight
<1>1. BindInv => DictBoundRight
  BY Zenon DEF BindInv
<1> QED BY <1>1, BindInvariant, PTL

(***************************************************************************)
(* Every string literal that _escape makes reads back as its parameter.    *)
(***************************************************************************)
THEOREM LiteralsAreRight == BindSpec => []LiteralsReadBack
<1>1. BindInv => LiteralsReadBack
  <2> SUFFICES ASSUME BindInv, NEW p \in 1..Len(string_parameters),
                      parameters[p].type = "string"
               PROVE  string_parameters[p] =
                        <<Word("quote")>> \o EscapedOnce(parameters[p].text) \o <<Word("quote")>>
    BY Zenon DEF LiteralsReadBack
  <2>1. /\ parameters \in Seq(Values) /\ Len(string_parameters) <= Len(parameters)
        /\ Len(string_parameters) \in Nat
        /\ string_parameters[p] = Literal(parameters[p])
    BY DEF BindInv, BindTyped, Inputs
  <2>2. parameters[p] \in Values
    BY <2>1
  <2> QED BY <2>1, <2>2, LiteralIs, Zenon
<1> QED BY <1>1, BindInvariant, PTL

=============================================================================
