-------------------------- MODULE PrintTableProofs --------------------------
(***************************************************************************)
(* Util::PrintResults makes a table whose columns are aligned, for any     *)
(* values of any size.                                                     *)
(*                                                                         *)
(* While a column is measured, max_size is enough for the rows above; the  *)
(* heart of it is NumSpaces: with n left of the value v and s digits taken *)
(* off, n is v divided by the s-th power of ten, so that the digits still  *)
(* to come and those counted are the digits of v.                          *)
(***************************************************************************)
EXTENDS PrintTable, DataLemmas, FiniteSetTheorems

\* The text of row r of column c needs no more than size characters.
Fits(c, r, size) ==
  column_descs[c].type # "BINARY" => TextSize(data[c][r], column_descs[c].type) <= size

Measured(c, rows, size) ==
  /\ column_descs[c].name <= size
  /\ column_descs[c].type = "BOOLEAN" => TrueSize <= size
  /\ \A r \in 1 .. NumRows : r <= rows => Fits(c, r, size)

\* NumSpaces has taken s digits off the absolute value of v, and n is what is left of it.
TakenOff(v, s) ==
  /\ TenTo[s] * n <= Abs(v) /\ Abs(v) < TenTo[s] * (n + 1)
  /\ n = 0 => s = 0

\* NumSpaces has counted the digits taken off, and the sign.
Counted(v) ==
  IF n < 0 THEN n = v
  ELSE \E s \in 0 .. MaxDepth : TakenOff(v, s) /\ s + (IF v < 0 THEN 1 ELSE 0) <= spaces

Lines == [1 .. Len(infos) -> [desc : Nat, from : Nat, width : Nat]]

PrintType ==
  /\ column_descs \in Seq(Descs)
  /\ \A c \in 1 .. Len(column_descs) : \A r \in 1 .. NumRows :
        data[c][r] \in CellsOfType(column_descs[c].type)
  /\ print_pc \in {"columns", "digits", "rows", "done", "crashed"}
  /\ col \in 1 .. Len(column_descs) + 1 /\ row \in 0 .. NumRows + 1
  /\ max_size \in Nat /\ n \in Int /\ spaces \in 0 .. MaxDepth
  /\ infos \in Seq([from : Nat, max_size : Nat])
  /\ table \in Seq(Lines)

\* The infos so far are measured, and so are the rows above in the one at hand.
Measuring ==
  /\ Len(infos) <= Len(column_descs)
  /\ \A k \in 1 .. Len(infos) :
        infos[k].from = k /\ Measured(k, NumRows, infos[k].max_size)
  /\ print_pc \in {"columns", "digits"} =>
        /\ Len(infos) = col - 1 /\ table = <<>>
        /\ row >= 1 => col <= Len(column_descs) /\ Measured(col, row - 1, max_size)
  /\ print_pc = "rows" => row >= 1
  /\ print_pc = "digits" =>
        /\ row \in 1 .. NumRows /\ column_descs[col].type = "BIGINT"
        /\ ~ data[col][row].null /\ Counted(data[col][row].value)

Aligned ==
  \A l \in 1 .. Len(table) : \A k \in 1 .. Len(infos) :
    column_descs[k].type # "BINARY" => table[l][k].width = infos[k].max_size

PrintInv == PrintType /\ Measuring /\ Aligned

\* Util::PrintResults knows the type of every column.
RecognizedOnly == \A d \in Descs : d.type # "DOUBLE"

\* The larger of two numbers.
LEMMA LargerOfTwo ==
  ASSUME NEW a \in Int, NEW b \in Int
  PROVE  Max({a, b}) = IF a >= b THEN a ELSE b
<1>1. \E x \in {a, b} : \A y \in {a, b} : x >= y
  OBVIOUS
<1>2. Max({a, b}) \in {a, b} /\ \A y \in {a, b} : Max({a, b}) >= y
  BY <1>1, Zenon DEF Max
<1> QED BY <1>2

\* Powers of ten.
LEMMA TenToIs ==
  /\ TenTo \in [0 .. MaxDepth -> Nat]
  /\ TenTo[0] = 1
  /\ \A e \in 1 .. MaxDepth : TenTo[e] = 10 * TenTo[e - 1]
<1>0. MaxDepth \in Nat
  BY PrintAssumption, Zenon
<1> DEFINE step == [k \in 1 .. MaxDepth |-> [x \in Nat |-> 10 * x]]
           P(f) == f = [e \in 0 .. MaxDepth |-> IF e = 0 THEN 1 ELSE 10 * f[e - 1]]
<1>1. step \in [1 .. MaxDepth -> [Nat -> Nat]]
  OBVIOUS
<1>2. PICK f \in [0 .. MaxDepth -> Nat] :
         f[0] = 1 /\ \A k \in 1 .. MaxDepth : f[k] = step[k][f[k - 1]]
  <2> DEFINE X == Nat
             one == 1
  <2>1. one \in X /\ step \in [1 .. MaxDepth -> [X -> X]]
    BY <1>1, Zenon
  <2> HIDE DEF step, one, X
  <2>2. \E f \in [0 .. MaxDepth -> X] :
           f[0] = one /\ \A k \in 1 .. MaxDepth : f[k] = step[k][f[k - 1]]
    <3>1. HasSteps(X, one, MaxDepth, step)
      BY <1>0, <2>1, Recursion, Zenon
    <3> QED BY <3>1, Zenon DEF HasSteps
  <2> QED BY <2>2, Zenon DEF one, X
<1>3. ASSUME NEW k \in 1 .. MaxDepth PROVE f[k] = 10 * f[k - 1]
  <2>1. f[k - 1] \in Nat /\ step[k] = [x \in Nat |-> 10 * x]
    BY <1>0, <1>2
  <2> QED BY <1>2, <2>1, Zenon
<1>4. P(f)
  <2>1. \A e \in 0 .. MaxDepth : f[e] = IF e = 0 THEN 1 ELSE 10 * f[e - 1]
    BY <1>0, <1>2, <1>3
  <2> QED BY <2>1, Zenon
<1>5. TenTo = CHOOSE g : P(g)
  BY Zenon DEF TenTo
<1>6. P(TenTo)
  <2> HIDE DEF P
  <2> QED BY <1>4, <1>5, Zenon
<1>7. \A e \in 0 .. MaxDepth : TenTo[e] = IF e = 0 THEN 1 ELSE 10 * TenTo[e - 1]
  <2> HIDE DEF TenTo
  <2> QED BY <1>6, Zenon
<1>8. DOMAIN TenTo = 0 .. MaxDepth
  BY <1>6, Zenon
<1> DEFINE S == {m \in Nat : m <= MaxDepth => TenTo[m] \in Nat}
<1>9. 0 \in S
  BY <1>0, <1>7
<1>10. ASSUME NEW m \in Nat, m \in S PROVE m + 1 \in S
  <2> SUFFICES ASSUME m + 1 <= MaxDepth PROVE TenTo[m + 1] \in Nat
    OBVIOUS
  <2>1. m <= MaxDepth /\ m + 1 \in 0 .. MaxDepth /\ m + 1 # 0 /\ (m + 1) - 1 = m
    BY <1>0
  <2>2. TenTo[m + 1] = 10 * TenTo[m]
    <3> HIDE DEF TenTo
    <3>1. TenTo[m + 1] = 10 * TenTo[(m + 1) - 1]
      BY <1>7, <2>1, Zenon
    <3> QED BY <2>1, <3>1, Zenon
  <2>3. TenTo[m] \in Nat
    BY <1>10, <2>1, Zenon
  <2> HIDE DEF TenTo
  <2> QED BY <2>2, <2>3
<1>11. Nat \subseteq S
  <2> HIDE DEF S
  <2> QED BY <1>9, <1>10, NatInd, Zenon
<1>12. TenTo \in [0 .. MaxDepth -> Nat]
  <2>1. \A e \in 0 .. MaxDepth : TenTo[e] \in Nat
    BY <1>0, <1>11
  <2>2. TenTo = [e \in 0 .. MaxDepth |-> IF e = 0 THEN 1 ELSE 10 * TenTo[e - 1]]
    BY <1>6, Zenon
  <2>3. TenTo = [e \in 0 .. MaxDepth |-> TenTo[e]]
    <3> HIDE DEF TenTo
    <3> QED BY <2>2, <1>7, Zenon
  <2> QED BY <2>1, <2>3, Zenon
<1> QED BY <1>0, <1>7, <1>12

\* They are positive, and grow.
LEMMA TenToGrows ==
  ASSUME NEW s \in 0 .. MaxDepth, NEW e \in 0 .. MaxDepth
  PROVE  /\ 1 <= TenTo[s]
         /\ e <= s => TenTo[e] <= TenTo[s]
<1>0. MaxDepth \in Nat
  BY PrintAssumption, Zenon
<1> DEFINE S == {m \in Nat : m <= MaxDepth =>
                  1 <= TenTo[m] /\ \A d \in 0 .. m : TenTo[d] <= TenTo[m]}
<1>1. 0 \in S
  BY <1>0, TenToIs
<1>2. ASSUME NEW m \in Nat, m \in S PROVE m + 1 \in S
  <2> SUFFICES ASSUME m + 1 <= MaxDepth
               PROVE  /\ 1 <= TenTo[m + 1]
                      /\ \A d \in 0 .. m + 1 : TenTo[d] <= TenTo[m + 1]
    OBVIOUS
  <2>1. TenTo[m] \in Nat /\ TenTo[m + 1] = 10 * TenTo[m]
    BY <1>0, TenToIs
  <2>2. 1 <= TenTo[m] /\ \A d \in 0 .. m : TenTo[d] <= TenTo[m] /\ TenTo[d] \in Nat
    BY <1>0, <1>2, TenToIs
  <2>3. ASSUME NEW d \in 0 .. m + 1 PROVE TenTo[d] <= TenTo[m + 1]
    <3>1. CASE d = m + 1
      BY <3>1, <2>1
    <3>2. CASE d \in 0 .. m
      BY <3>2, <2>1, <2>2
    <3> QED BY <3>1, <3>2
  <2> QED BY <2>1, <2>2, <2>3
<1>3. Nat \subseteq S
  <2> HIDE DEF S
  <2> QED BY <1>1, <1>2, NatInd, Zenon
<1>4. s \in S
  <2> HIDE DEF S
  <2> QED BY <1>0, <1>3
<1> QED BY <1>0, <1>4

\* A number from 10^s up to 10^(s+1) has s + 1 digits.
LEMMA DigitsAre ==
  ASSUME NEW v \in Int, NEW s \in 0 .. MaxDepth, s < MaxDepth,
         TenTo[s] <= Abs(v), Abs(v) < 10 * TenTo[s]
  PROVE  Digits(v) = s + 1
<1>0. MaxDepth \in Nat /\ TenTo \in [0 .. MaxDepth -> Nat] /\ Abs(v) \in Nat
  BY PrintAssumption, TenToIs DEF Abs
<1> DEFINE E == {e \in 0 .. MaxDepth : TenTo[e] <= Abs(v)}
<1>1. v # 0
  BY <1>0, TenToGrows DEF Abs
<1>2. E = 0 .. s
  <2>1. ASSUME NEW e \in 0 .. s PROVE TenTo[e] <= Abs(v)
    BY <1>0, TenToGrows
  <2>2. ASSUME NEW e \in 0 .. MaxDepth, e > s PROVE ~ (TenTo[e] <= Abs(v))
    <3>1. s + 1 \in 0 .. MaxDepth /\ s + 1 <= e /\ TenTo[s + 1] = 10 * TenTo[s]
      BY <1>0, <2>2, TenToIs
    <3>2. TenTo[s + 1] <= TenTo[e]
      BY <3>1, TenToGrows, Zenon
    <3> QED BY <1>0, <3>1, <3>2
  <2> QED BY <1>0, <2>1, <2>2
<1>3. Cardinality(0 .. s) = s + 1
  BY <1>0, FS_Interval
<1>4. Digits(v) = Cardinality(E)
  BY <1>1, Zenon DEF Digits
<1> QED BY <1>2, <1>3, <1>4, Zenon

LEMMA DigitsNat ==
  ASSUME NEW v \in Int
  PROVE  Digits(v) \in Nat
<1>0. MaxDepth \in Nat
  BY PrintAssumption, Zenon
<1> DEFINE E == {e \in 0 .. MaxDepth : TenTo[e] <= Abs(v)}
<1>1. IsFiniteSet(0 .. MaxDepth)
  BY <1>0, FS_Interval
<1>2. IsFiniteSet(E)
  <2>1. E \subseteq 0 .. MaxDepth
    BY Zenon
  <2> HIDE DEF E
  <2> QED BY <1>1, <2>1, FS_Subset, Zenon
<1>3. Cardinality(E) \in Nat
  <2> HIDE DEF E
  <2> QED BY <1>2, FS_CardinalityType, Zenon
<1> QED BY <1>3, Zenon DEF Digits

\* When less than ten is left, the text is no longer than what NumSpaces counts.
LEMMA CountIsEnough ==
  ASSUME NEW v \in Int, n \in Nat, n < 10, spaces \in 0 .. MaxDepth, spaces < MaxDepth, Counted(v)
  PROVE  Digits(v) + (IF v < 0 THEN 1 ELSE 0) <= spaces + 1
<1>0. MaxDepth \in Nat /\ TenTo \in [0 .. MaxDepth -> Nat] /\ Abs(v) \in Nat
  BY PrintAssumption, TenToIs DEF Abs
<1>1. PICK s \in 0 .. MaxDepth : TakenOff(v, s) /\ s + (IF v < 0 THEN 1 ELSE 0) <= spaces
  BY DEF Counted
<1>2. s < MaxDepth
  BY <1>0, <1>1
<1>3. CASE n = 0
  <2>1. s = 0 /\ Abs(v) < 1
    BY <1>1, <1>3, TenToIs DEF TakenOff
  <2>2. v = 0
    BY <2>1 DEF Abs
  <2>3. Digits(v) = 1
    BY <2>2, Zenon DEF Digits
  <2> QED BY <1>0, <1>1, <2>1, <2>2, <2>3
<1>4. CASE n >= 1
  <2> DEFINE p == TenTo[s]
  <2>0. p \in Nat /\ p >= 1
    BY <1>0, TenToGrows, Zenon
  <2>1. p * n <= Abs(v) /\ Abs(v) < p * (n + 1)
    BY <1>1, Zenon DEF TakenOff
  <2> HIDE DEF p
  <2>2. p <= p * n
    BY <1>4, <2>0
  <2>3. p * (n + 1) <= p * 10
    <3>1. n + 1 <= 10
      OBVIOUS
    <3> QED BY <3>1, <2>0
  <2>5. p * n \in Nat /\ p * (n + 1) \in Nat
    BY <2>0
  <2>4. p <= Abs(v) /\ Abs(v) < 10 * p
    <3> DEFINE x == p * n
               y == p * (n + 1)
               z == p * 10
    <3>1. /\ x \in Nat /\ y \in Nat /\ z \in Nat /\ z = 10 * p
          /\ x <= Abs(v) /\ Abs(v) < y /\ p <= x /\ y <= z
      BY <2>0, <2>1, <2>2, <2>3, <2>5
    <3> HIDE DEF x, y, z
    <3> QED BY <1>0, <2>0, <3>1
  <2>6. Digits(v) = s + 1
    BY <1>2, <2>4, DigitsAre, Zenon DEF p
  <2> QED BY <1>0, <1>1, <2>6
<1> QED BY <1>3, <1>4

\* One more digit is taken off.
LEMMA OneMoreOff ==
  ASSUME NEW v \in Int, n \in Nat, n >= 10, spaces \in 0 .. MaxDepth, spaces < MaxDepth, Counted(v)
  PROVE  LET q == n \div 10
         IN /\ q \in Nat
            /\ \E s \in 0 .. MaxDepth :
                 /\ TenTo[s] * q <= Abs(v) /\ Abs(v) < TenTo[s] * (q + 1)
                 /\ q = 0 => s = 0
                 /\ s + (IF v < 0 THEN 1 ELSE 0) <= spaces + 1
<1> DEFINE q == n \div 10
<1>0. MaxDepth \in Nat /\ TenTo \in [0 .. MaxDepth -> Nat] /\ Abs(v) \in Nat
  BY PrintAssumption, TenToIs DEF Abs
<1>1. PICK s \in 0 .. MaxDepth : TakenOff(v, s) /\ s + (IF v < 0 THEN 1 ELSE 0) <= spaces
  BY DEF Counted
<1>2. q \in Nat /\ q >= 1 /\ 10 * q <= n /\ n + 1 <= 10 * (q + 1)
  OBVIOUS
<1> DEFINE p == TenTo[s]
<1>3. p \in Nat /\ p >= 1
  BY <1>0, TenToGrows, Zenon
<1>4. p * n <= Abs(v) /\ Abs(v) < p * (n + 1)
  BY <1>1, Zenon DEF TakenOff
<1>5. s + 1 \in 0 .. MaxDepth /\ TenTo[s + 1] = 10 * p
  BY <1>0, <1>1, TenToIs
<1> HIDE DEF p, q
<1>6. (10 * p) * q <= p * n
  <2>1. p * (10 * q) <= p * n
    <3>1. \A a, b, c \in Nat : a <= b => c * a <= c * b
      OBVIOUS
    <3>2. 10 * q \in Nat
      BY <1>2
    <3> QED BY <1>2, <1>3, <3>1, <3>2, Zenon
  <2>2. p * (10 * q) = (10 * p) * q
    BY <1>2, <1>3
  <2> QED BY <2>1, <2>2, Zenon
<1>7. p * (n + 1) <= (10 * p) * (q + 1)
  <2>1. p * (n + 1) <= p * (10 * (q + 1))
    <3>1. \A a, b, c \in Nat : a <= b => c * a <= c * b
      OBVIOUS
    <3>2. 10 * (q + 1) \in Nat /\ n + 1 \in Nat
      BY <1>2
    <3> QED BY <1>2, <1>3, <3>1, <3>2
  <2>2. p * (10 * (q + 1)) = (10 * p) * (q + 1)
    BY <1>2, <1>3
  <2> QED BY <2>1, <2>2, Zenon
<1>8. p * n \in Nat /\ p * (n + 1) \in Nat /\ (10 * p) * q \in Nat /\ (10 * p) * (q + 1) \in Nat
  BY <1>2, <1>3
<1>9. (10 * p) * q <= Abs(v) /\ Abs(v) < (10 * p) * (q + 1)
  BY <1>0, <1>4, <1>6, <1>7, <1>8
<1>10. s + 1 + (IF v < 0 THEN 1 ELSE 0) <= spaces + 1
  BY <1>0, <1>1
<1> QED BY <1>2, <1>5, <1>9, <1>10 DEF q

\* What is known of a value that is printed as its own type.
LEMMA CellIs ==
  ASSUME PrintType, NEW c \in 1 .. Len(column_descs), NEW r \in 1 .. NumRows
  PROVE  /\ column_descs[c] \in [name : Nat, type : Types]
         /\ data[c][r].null \in BOOLEAN /\ data[c][r].value \in Int
         /\ column_descs[c].type # "BIGINT" => data[c][r].value \in Nat
         /\ TextSize(data[c][r], column_descs[c].type) \in Nat
<1> DEFINE t == column_descs[c].type
           v == data[c][r]
<1>1. column_descs[c] \in [name : Nat, type : Types] /\ v \in CellsOfType(t)
  <2>1. column_descs[c] \in Descs /\ v \in CellsOfType(t)
    BY DEF PrintType
  <2> QED BY <2>1, PrintAssumption, Zenon
<1>2. Values(t) \subseteq Int /\ (t # "BIGINT" => Values(t) \subseteq Nat)
  BY PrintAssumption DEF Values, IntMin
<1>3. v.null \in BOOLEAN /\ v.value \in Int /\ (t # "BIGINT" => v.value \in Nat)
  <2>1. CASE v = [null |-> TRUE, value |-> 0]
    BY <2>1
  <2>2. CASE \E x \in Values(t) : v = [null |-> FALSE, value |-> x]
    BY <2>2, <1>2
  <2> QED BY <1>1, <2>1, <2>2, Zenon DEF CellsOfType
<1>4. TextSize(v, t) \in Nat
  <2>1. Digits(v.value) \in Nat
    BY <1>3, DigitsNat, Zenon
  <2>2. CASE t = "BIGINT"
    BY <2>1, <2>2, <1>3 DEF TextSize, NullSize
  <2>3. CASE t # "BIGINT"
    BY <2>3, <1>3, Zenon DEF TextSize, NullSize, TrueSize, FalseSize
  <2> QED BY <2>2, <2>3, Zenon
<1> QED BY <1>1, <1>3, <1>4

LEMMA InfoIs ==
  ASSUME PrintType, NEW k \in 1 .. Len(infos)
  PROVE  infos[k].from \in Nat /\ infos[k].max_size \in Nat
<1> DEFINE Info == [from : Nat, max_size : Nat]
<1>1. infos \in Seq(Info)
  BY Zenon DEF PrintType
<1>2. infos[k] \in Info
  <2> HIDE DEF Info
  <2> QED BY <1>1
<1> QED BY <1>2, Zenon

LEMMA PrintingStarts == PrintInit => PrintInv
<1> SUFFICES ASSUME PrintInit PROVE PrintInv
  BY Zenon
<1>0. MaxDescs \in Nat /\ NumRows \in Nat /\ MaxDepth \in Nat
  BY PrintAssumption, Zenon
<1>1. PICK k \in 1 .. MaxDescs : column_descs \in [1 .. k -> Descs]
  BY Zenon DEF PrintInit
<1>2. k \in Nat /\ column_descs \in Seq(Descs) /\ Len(column_descs) = k /\ DOMAIN column_descs = 1 .. k
  BY <1>0, <1>1
<1>3. DOMAIN data = 1 .. k
  BY <1>2, Zenon DEF PrintInit
<1>4. \A c \in 1 .. k : \A r \in 1 .. NumRows : data[c][r] \in CellsOfType(column_descs[c].type)
  BY <1>3, Zenon DEF PrintInit
<1>5. PrintType
  BY <1>0, <1>2, <1>4 DEF PrintInit, PrintType
<1> QED BY <1>2, <1>5 DEF PrintInit, PrintInv, Measuring, Aligned

LEMMA StartColumnStep == PrintInv /\ StartColumn => PrintInv'
<1> SUFFICES ASSUME PrintInv, StartColumn PROVE PrintInv'
  BY Zenon
<1>0. NumRows \in Nat
  BY PrintAssumption, Zenon
<1>1. col \in 1 .. Len(column_descs) /\ row = 0 /\ row' = 1 /\ print_pc = "columns"
  BY DEF PrintInv, PrintType, StartColumn
<1>2. column_descs[col] \in [name : Nat, type : Types]
  BY <1>1, PrintAssumption DEF PrintInv, PrintType
<1>3. /\ max_size' \in Nat /\ column_descs[col].name <= max_size'
      /\ column_descs[col].type = "BOOLEAN" => TrueSize <= max_size'
  <2>1. Max({column_descs[col].name, 4}) = IF column_descs[col].name >= 4 THEN column_descs[col].name ELSE 4
    BY <1>2, LargerOfTwo
  <2> QED BY <1>2, <2>1 DEF StartColumn, TrueSize, type
<1>4. UNCHANGED <<column_descs, data, print_pc, col, n, spaces, infos, table>>
  BY Zenon DEF StartColumn
<1>5. PrintType'
  <2>1. row' \in 0 .. NumRows + 1
    BY <1>0, <1>1
  <2>2. PrintType
    BY Zenon DEF PrintInv
  <2> QED BY <1>3, <1>4, <2>1, <2>2, Zenon DEF PrintType, Lines
<1>6. Measured(col, row - 1, max_size)'
  BY <1>0, <1>1, <1>3, <1>4 DEF Measured
<1>7. Measuring'
  BY <1>0, <1>1, <1>4, <1>6 DEF PrintInv, Measuring, Measured, Fits
<1> QED BY <1>4, <1>5, <1>7, Zenon DEF PrintInv, Aligned

\* A row is measured: the rows above it are as before.
LEMMA RowMeasured ==
  ASSUME PrintInv, print_pc \in {"columns", "digits"}, row \in 1 .. NumRows, col <= Len(column_descs),
         UNCHANGED <<column_descs, data, col, infos, table>>,
         print_pc' = "columns", row' \in 1 .. NumRows + 1, row < row', n' \in Int, spaces' \in 0 .. MaxDepth,
         max_size' \in Nat, max_size <= max_size',
         \A r \in row .. row' - 1 : column_descs[col].type # "BINARY" =>
                                      TextSize(data[col][r], column_descs[col].type) <= max_size'
  PROVE  PrintInv'
<1>0. NumRows \in Nat /\ col \in 1 .. Len(column_descs) /\ max_size \in Nat
  BY PrintAssumption DEF PrintInv, PrintType
<1>1. column_descs[col] \in [name : Nat, type : Types]
  BY <1>0, CellIs, Zenon DEF PrintInv
<1>2. Measured(col, row - 1, max_size)
  BY <1>0 DEF PrintInv, Measuring
<1>3. ASSUME NEW r \in 1 .. NumRows, r <= row' - 1, column_descs[col].type # "BINARY"
      PROVE  TextSize(data[col][r], column_descs[col].type) <= max_size'
  <2>1. CASE r >= row
    <3>1. r \in row .. row' - 1
      <4>1. \A a, b, c \in Int : a >= b /\ a <= c - 1 => a \in b .. c - 1
        OBVIOUS
      <4>2. r \in Int /\ row \in Int /\ row' \in Int
        BY <1>0
      <4> QED BY <1>3, <2>1, <4>1, <4>2, Zenon
    <3> QED BY <1>3, <3>1, Zenon
  <2>2. CASE r < row
    <3>1. TextSize(data[col][r], column_descs[col].type) <= max_size
      BY <1>0, <1>2, <1>3, <2>2 DEF Measured, Fits
    <3>2. TextSize(data[col][r], column_descs[col].type) \in Nat
      BY <1>0, CellIs, Zenon DEF PrintInv
    <3> QED BY <1>0, <3>1, <3>2
  <2> QED BY <1>0, <2>1, <2>2
<1>4. Measured(col, row - 1, max_size)'
  <2>1. column_descs[col].name <= max_size'
    BY <1>0, <1>1, <1>2 DEF Measured
  <2>2. column_descs[col].type = "BOOLEAN" => TrueSize <= max_size'
    BY <1>0, <1>2 DEF Measured, TrueSize
  <2> QED BY <1>3, <2>1, <2>2, Zenon DEF Measured, Fits
<1>5. PrintType'
  <2>1. row' \in 0 .. NumRows + 1
    BY <1>0
  <2>2. PrintType
    BY Zenon DEF PrintInv
  <2> QED BY <2>1, <2>2, Zenon DEF PrintType, Lines
<1>6. Measuring'
  BY <1>0, <1>4, Zenon DEF PrintInv, Measuring, Measured, Fits
<1> QED BY <1>5, <1>6, Zenon DEF PrintInv, Aligned

LEMMA MeasureCellStep == PrintInv /\ MeasureCell => PrintInv'
<1> SUFFICES ASSUME PrintInv, MeasureCell PROVE PrintInv'
  BY Zenon
<1> DEFINE v == data[col][row]
           t == column_descs[col].type
<1>0. NumRows \in Nat /\ MaxDepth \in Nat
  BY PrintAssumption, Zenon
<1>1. /\ print_pc = "columns" /\ row \in 1 .. NumRows /\ col \in 1 .. Len(column_descs)
      /\ t \in {"BIGINT", "STRING"}
      /\ UNCHANGED <<column_descs, data, col, infos, table>>
  BY DEF PrintInv, PrintType, MeasureCell, type
<1>2. max_size \in Nat /\ n \in Int /\ spaces \in 0 .. MaxDepth
  BY Zenon DEF PrintInv, PrintType
<1>3. v.null \in BOOLEAN /\ v.value \in Int /\ (t = "STRING" => v.value \in Nat)
  BY <1>1, CellIs, Zenon DEF PrintInv
<1>4. CASE ~ v.null /\ t = "BIGINT"
  <2>1. print_pc' = "digits" /\ n' = v.value /\ spaces' = 0 /\ UNCHANGED <<row, max_size>>
    BY <1>4, Zenon DEF MeasureCell, type, cell
  <2>2. PrintType'
    BY <1>0, <1>1, <1>2, <1>3, <2>1 DEF PrintInv, PrintType, Lines
  <2>3. Counted(v.value)'
    <3>1. CASE v.value < 0
      BY <1>1, <2>1, <3>1, Zenon DEF Counted
    <3>2. CASE v.value >= 0
      <4>1. TenTo[0] * v.value <= Abs(v.value) /\ Abs(v.value) < TenTo[0] * (v.value + 1)
        BY <1>3, <3>2, TenToIs DEF Abs
      <4>2. v' = v
        BY <1>1, <2>1, Zenon
      <4>3. TakenOff(v.value, 0)'
        BY <2>1, <4>1, <4>2, Zenon DEF TakenOff, Abs
      <4>4. /\ 0 \in 0 .. MaxDepth /\ ~ (n' < 0)
            /\ 0 + (IF v.value < 0 THEN 1 ELSE 0) <= spaces'
        BY <1>0, <1>3, <2>1, <3>2
      <4> QED BY <4>2, <4>3, <4>4, Zenon DEF Counted
    <3> QED BY <1>3, <3>1, <3>2
  <2>4. Measuring'
    BY <1>0, <1>1, <1>4, <2>1, <2>3 DEF PrintInv, Measuring, Measured, Fits
  <2> QED BY <1>1, <2>2, <2>4, Zenon DEF PrintInv, Aligned
<1>5. CASE ~ (~ v.null /\ t = "BIGINT")
  <2> DEFINE size == IF v.null THEN 4 ELSE v.value
  <2>1. /\ max_size' = Max({max_size, size}) /\ row' = row + 1
        /\ UNCHANGED <<print_pc, n, spaces>>
    BY <1>5, Zenon DEF MeasureCell, type, cell, Wider, NullSize
  <2>2. size \in Nat
    BY <1>1, <1>3, <1>5
  <2>3. TextSize(v, t) = size
    BY <1>1, <1>5, Zenon DEF TextSize, NullSize
  <2>4. max_size' = IF max_size >= size THEN max_size ELSE size
    <3> HIDE DEF size
    <3> QED BY <1>2, <2>1, <2>2, LargerOfTwo
  <2>5. max_size' \in Nat /\ max_size <= max_size' /\ TextSize(v, t) <= max_size'
    <3> HIDE DEF size
    <3> QED BY <1>2, <2>2, <2>3, <2>4
  <2>6. \A r \in row .. row' - 1 : t # "BINARY" => TextSize(data[col][r], t) <= max_size'
    <3>1. \A r \in row .. row' - 1 : r = row
      BY <1>1, <2>1
    <3> QED BY <2>5, <3>1, Zenon
  <2>7. row' \in 1 .. NumRows + 1 /\ row < row'
    BY <1>0, <1>1, <2>1
  <2>8. print_pc' = "columns" /\ n' \in Int /\ spaces' \in 0 .. MaxDepth
    BY <1>1, <1>2, <2>1
  <2>9. print_pc \in {"columns", "digits"} /\ row \in 1 .. NumRows /\ col <= Len(column_descs)
    BY <1>1
  <2> QED BY <1>1, <2>5, <2>6, <2>7, <2>8, <2>9, RowMeasured, Zenon
<1> QED BY <1>4, <1>5, Zenon

LEMMA MeasureOtherStep == RecognizedOnly /\ PrintInv /\ MeasureOther => PrintInv'
<1> SUFFICES ASSUME RecognizedOnly, PrintInv, MeasureOther PROVE PrintInv'
  BY Zenon
<1> DEFINE v == data[col][row]
           t == column_descs[col].type
<1>0. NumRows \in Nat /\ MaxDepth \in Nat
  BY PrintAssumption, Zenon
<1>1. /\ print_pc = "columns" /\ row \in 1 .. NumRows /\ col \in 1 .. Len(column_descs)
      /\ t \notin {"BIGINT", "STRING"}
      /\ UNCHANGED <<column_descs, data, col, infos, table, print_pc, n, spaces>>
  BY DEF PrintInv, PrintType, MeasureOther, type
<1>2. max_size \in Nat /\ n \in Int /\ spaces \in 0 .. MaxDepth
  BY Zenon DEF PrintInv, PrintType
<1>3. t = "BOOLEAN" => 4 <= max_size
  BY <1>1 DEF PrintInv, Measuring, Measured, TrueSize
<1>7. /\ print_pc \in {"columns", "digits"} /\ row \in 1 .. NumRows /\ col <= Len(column_descs)
      /\ UNCHANGED <<column_descs, data, col, infos, table>>
      /\ print_pc' = "columns" /\ n' \in Int /\ spaces' \in 0 .. MaxDepth
  BY <1>1, <1>2
<1>4. CASE t = "BOOLEAN" /\ ~ v.null /\ v.value = 0
  <2>1. max_size' = Max({max_size, 5}) /\ row' = NumRows + 1
    BY <1>4, Zenon DEF MeasureOther, type, cell, Wider, FalseSize
  <2>2. max_size' \in Nat /\ max_size <= max_size' /\ 5 <= max_size'
    BY <1>2, <2>1, LargerOfTwo
  <2>3. \A r \in row .. row' - 1 : t # "BINARY" => TextSize(data[col][r], t) <= max_size'
    BY <1>4, <2>2 DEF TextSize, NullSize, TrueSize, FalseSize
  <2>4. row' \in 1 .. NumRows + 1 /\ row < row'
    BY <1>0, <1>1, <2>1
  <2> QED BY <1>7, <2>2, <2>3, <2>4, RowMeasured, Zenon
<1>5. CASE t = "BOOLEAN" /\ ~ (~ v.null /\ v.value = 0)
  <2>1. UNCHANGED max_size /\ row' = row + 1
    BY <1>5, Zenon DEF MeasureOther, type, cell
  <2>2. TextSize(v, t) = 4
    BY <1>5, Zenon DEF TextSize, NullSize, TrueSize
  <2>3. \A r \in row .. row' - 1 : t # "BINARY" => TextSize(data[col][r], t) <= max_size'
    <3>1. \A r \in row .. row' - 1 : r = row
      BY <1>1, <2>1
    <3> QED BY <1>3, <1>5, <2>1, <2>2, <3>1
  <2>4. row' \in 1 .. NumRows + 1 /\ row < row' /\ max_size' \in Nat /\ max_size <= max_size'
    BY <1>0, <1>1, <1>2, <2>1
  <2> QED BY <1>7, <2>3, <2>4, RowMeasured, Zenon
<1>6. CASE t # "BOOLEAN"
  <2>1. UNCHANGED max_size /\ row' = NumRows + 1
    BY <1>6, Zenon DEF MeasureOther, type, cell
  <2>2. t \in {"BINARY", "DOUBLE"}
    BY <1>1, <1>6, CellIs DEF PrintInv, Types
  <2>3. t = "BINARY"
    BY <2>2, <1>1 DEF PrintInv, PrintType, RecognizedOnly
  <2>4. \A r \in row .. row' - 1 : t # "BINARY" => TextSize(data[col][r], t) <= max_size'
    BY <2>3, Zenon
  <2>5. row' \in 1 .. NumRows + 1 /\ row < row' /\ max_size' \in Nat /\ max_size <= max_size'
    BY <1>0, <1>1, <1>2, <2>1
  <2> QED BY <1>7, <2>4, <2>5, RowMeasured, Zenon
<1> QED BY <1>4, <1>5, <1>6

LEMMA NumSpacesStep == PrintInv /\ NumSpaces => PrintInv'
<1> SUFFICES ASSUME PrintInv, NumSpaces PROVE PrintInv'
  BY Zenon
<1> DEFINE v == data[col][row].value
           sign == IF v < 0 THEN 1 ELSE 0
<1>0. NumRows \in Nat /\ MaxDepth \in Nat
  BY PrintAssumption, Zenon
<1>1. print_pc = "digits" /\ UNCHANGED <<column_descs, data, col, infos, table>>
  BY Zenon DEF NumSpaces, CallNumSpaces
<1>2. /\ max_size \in Nat /\ n \in Int /\ spaces \in 0 .. MaxDepth /\ row \in 1 .. NumRows
      /\ col \in 1 .. Len(column_descs) /\ column_descs[col].type = "BIGINT"
      /\ ~ data[col][row].null /\ Counted(v)
  BY <1>0, <1>1 DEF PrintInv, PrintType, Measuring
<1>3. v \in Int
  BY <1>2, CellIs, Zenon DEF PrintInv
<1>4. CASE spaces = MaxDepth
  <2>1. print_pc' = "crashed" /\ UNCHANGED <<n, spaces, row, max_size>>
    BY <1>4, Zenon DEF NumSpaces, CallNumSpaces
  <2>2. PrintType'
    <3>1. PrintType
      BY Zenon DEF PrintInv
    <3> QED BY <1>1, <2>1, <3>1 DEF PrintType, Lines
  <2>3. Measuring'
    BY <1>1, <2>1, Zenon DEF PrintInv, Measuring, Measured, Fits
  <2> QED BY <1>1, <2>2, <2>3, Zenon DEF PrintInv, Aligned
<1>5. CASE spaces # MaxDepth /\ n >= 0 /\ n < 10
  <2>1. /\ print_pc' = "columns" /\ max_size' = Max({max_size, spaces + 1}) /\ row' = row + 1
        /\ UNCHANGED <<n, spaces>>
    BY <1>5, Zenon DEF NumSpaces, CallNumSpaces, Wider
  <2>2. TextSize(data[col][row], column_descs[col].type) = Digits(v) + sign
    BY <1>2, Zenon DEF TextSize
  <2>3. Digits(v) + sign <= spaces + 1
    BY <1>0, <1>2, <1>3, <1>5, CountIsEnough
  <2>4. Digits(v) + sign \in Nat
    BY <1>3, DigitsNat
  <2>5. max_size' \in Nat /\ max_size <= max_size' /\ spaces + 1 <= max_size'
    <3>1. spaces + 1 \in Int
      BY <1>0, <1>2
    <3> QED BY <1>0, <1>2, <2>1, <3>1, LargerOfTwo
  <2>6. TextSize(data[col][row], column_descs[col].type) <= max_size'
    <3> HIDE DEF sign
    <3> QED BY <1>0, <1>2, <2>2, <2>3, <2>4, <2>5
  <2>7. \A r \in row .. row' - 1 : column_descs[col].type # "BINARY" =>
                                    TextSize(data[col][r], column_descs[col].type) <= max_size'
    <3>1. \A r \in row .. row' - 1 : r = row
      BY <1>2, <2>1
    <3> QED BY <2>6, <3>1, Zenon
  <2>8. row' \in 1 .. NumRows + 1 /\ row < row'
    BY <1>0, <1>2, <2>1
  <2>9. print_pc' = "columns" /\ n' \in Int /\ spaces' \in 0 .. MaxDepth
    BY <1>2, <2>1
  <2>10. print_pc \in {"columns", "digits"} /\ row \in 1 .. NumRows /\ col <= Len(column_descs)
    BY <1>1, <1>2
  <2> QED BY <1>1, <2>5, <2>7, <2>8, <2>9, <2>10, RowMeasured, Zenon
<1>6. CASE spaces # MaxDepth /\ ~ (n >= 0 /\ n < 10)
  <2>1. /\ n' \in IF n < 0 THEN Negation(n) ELSE {n \div 10}
        /\ spaces' = spaces + 1
        /\ UNCHANGED <<print_pc, row, max_size>>
    BY <1>6, Zenon DEF NumSpaces, CallNumSpaces
  <2>2. spaces' \in 0 .. MaxDepth
    BY <1>0, <1>2, <1>6, <2>1
  <2>3. n' \in Int /\ (Counted(data[col][row].value))'
    <3>1. CASE n < 0
      <4>1. n = v
        BY <1>2, <3>1, Zenon DEF Counted
      <4>2. n' \in {n, -n}
        BY <2>1, <3>1 DEF Negation
      <4>3. CASE n' = n
        BY <1>1, <1>2, <2>1, <3>1, <4>1, <4>3, ZenonT(30) DEF Counted
      <4>4. CASE n' = -n
        <5>1. TenTo[0] * (-n) <= Abs(v) /\ Abs(v) < TenTo[0] * (-n + 1)
          BY <1>2, <3>1, <4>1, TenToIs DEF Abs
        <5>2. 0 \in 0 .. MaxDepth /\ 0 + sign <= spaces'
          BY <1>0, <1>2, <2>1
        <5>3. n' \in Nat /\ UNCHANGED <<data, col, row>>
          BY <1>1, <1>2, <2>1, <3>1, <4>4
        <5>4. /\ TenTo[0] * n' <= Abs(v) /\ Abs(v) < TenTo[0] * (n' + 1)
              /\ n' = 0 => 0 = 0
          BY <4>4, <5>1
        <5>5. \E s \in 0 .. MaxDepth :
                /\ TenTo[s] * n' <= Abs(v) /\ Abs(v) < TenTo[s] * (n' + 1)
                /\ n' = 0 => s = 0
                /\ s + sign <= spaces'
          BY <5>2, <5>4, Zenon
        <5>6. ~ (n' < 0) /\ data[col][row].value' = v
          BY <5>3
        <5> QED BY <5>3, <5>5, <5>6 DEF Counted, TakenOff
      <4> QED BY <4>2, <4>3, <4>4
    <3>2. CASE n >= 10
      <4> DEFINE q == n \div 10
      <4>1. n' = q
        BY <1>2, <2>1, <3>2
      <4>2. spaces < MaxDepth /\ n \in Nat
        BY <1>0, <1>2, <1>6, <3>2
      <4>3. /\ q \in Nat
            /\ \E s \in 0 .. MaxDepth :
                 /\ TenTo[s] * q <= Abs(v) /\ Abs(v) < TenTo[s] * (q + 1)
                 /\ q = 0 => s = 0
                 /\ s + (IF v < 0 THEN 1 ELSE 0) <= spaces + 1
        BY <1>2, <1>3, <3>2, <4>2, OneMoreOff
      <4> HIDE DEF q
      <4> QED BY <1>1, <2>1, <4>1, <4>3 DEF Counted, TakenOff
    <3> QED BY <1>2, <1>6, <3>1, <3>2
  <2>4. PrintType'
    <3>1. PrintType
      BY Zenon DEF PrintInv
    <3> QED BY <1>1, <2>1, <2>2, <2>3, <3>1, Zenon DEF PrintType, Lines
  <2>5. Measuring'
    BY <1>1, <2>1, <2>3 DEF PrintInv, Measuring, Measured, Fits
  <2> QED BY <1>1, <2>4, <2>5, Zenon DEF PrintInv, Aligned
<1> QED BY <1>4, <1>5, <1>6, Zenon

LEMMA EndColumnStep == RecognizedOnly /\ PrintInv /\ EndColumn => PrintInv'
<1> SUFFICES ASSUME RecognizedOnly, PrintInv, EndColumn PROVE PrintInv'
  BY Zenon
<1> DEFINE info == [from |-> col, max_size |-> max_size]
<1>0. NumRows \in Nat
  BY PrintAssumption, Zenon
<1>1. /\ print_pc = "columns" /\ row = NumRows + 1 /\ col \in 1 .. Len(column_descs)
      /\ col' = col + 1 /\ row' = 0
      /\ UNCHANGED <<column_descs, data, print_pc, max_size, n, spaces, table>>
  BY DEF EndColumn, PrintInv, PrintType
<1>2. column_descs[col].type # "DOUBLE"
  BY <1>1 DEF RecognizedOnly, PrintInv, PrintType
<1>3. infos' = Append(infos, info)
  BY <1>2, Zenon DEF EndColumn, type
<1>4. /\ infos \in Seq([from : Nat, max_size : Nat]) /\ max_size \in Nat
      /\ Len(infos) = col - 1 /\ table = <<>>
      /\ Measured(col, NumRows, max_size)
  <2>1. Measured(col, row - 1, max_size) /\ row - 1 = NumRows
    BY <1>0, <1>1 DEF PrintInv, Measuring
  <2> QED BY <1>0, <1>1, <2>1 DEF PrintInv, PrintType, Measuring
<1>5. info \in [from : Nat, max_size : Nat]
  BY <1>1, <1>4
<1>6. /\ infos' \in Seq([from : Nat, max_size : Nat]) /\ Len(infos') = col
      /\ \A k \in 1 .. col - 1 : infos'[k] = infos[k]
      /\ infos'[col] = info
  <2> DEFINE Info == [from : Nat, max_size : Nat]
  <2>1. infos \in Seq(Info) /\ info \in Info
    BY <1>4, <1>5, Zenon
  <2> HIDE DEF info, Info
  <2>2. /\ infos' \in Seq(Info) /\ Len(infos') = Len(infos) + 1
        /\ \A k \in 1 .. Len(infos) : infos'[k] = infos[k]
        /\ infos'[Len(infos) + 1] = info
    BY <1>3, <2>1
  <2>3. col \in Int /\ Len(infos) + 1 = col
    BY <1>1, <1>4
  <2> QED BY <1>4, <2>2, <2>3, Zenon DEF Info
<1>7. PrintType'
  <2>1. PrintType
    BY Zenon DEF PrintInv
  <2>2. row' \in 0 .. NumRows + 1 /\ col' \in 1 .. Len(column_descs) + 1
    BY <1>0, <1>1
  <2>3. table' \in Seq(Lines')
    BY <1>1, <1>4
  <2> QED BY <1>1, <1>6, <2>1, <2>2, <2>3, Zenon DEF PrintType
<1>8. ASSUME NEW k \in 1 .. Len(infos')
      PROVE  infos'[k].from = k /\ Measured(k, NumRows, infos'[k].max_size)
  <2>1. CASE k = col
    BY <1>4, <1>6, <2>1
  <2>2. CASE k \in 1 .. Len(infos)
    <3>1. infos'[k] = infos[k]
      BY <1>4, <1>6, <2>2, Zenon
    <3>2. infos[k].from = k /\ Measured(k, NumRows, infos[k].max_size)
      BY <2>2, Zenon DEF PrintInv, Measuring
    <3> QED BY <3>1, <3>2, Zenon
  <2> QED BY <1>1, <1>4, <1>6, <2>1, <2>2
<1>9. Measuring'
  <2>1. \A k \in 1 .. Len(infos') :
           infos'[k].from = k /\ Measured(k, NumRows, infos[k].max_size)'
    BY <1>1, <1>8, Zenon DEF Measured, Fits
  <2>2. Len(infos') <= Len(column_descs') /\ Len(infos') = col' - 1 /\ ~ (row' >= 1)
    BY <1>1, <1>6
  <2> QED BY <1>1, <1>4, <2>1, <2>2 DEF Measuring
<1>10. Aligned'
  BY <1>1, <1>4 DEF Aligned
<1> QED BY <1>7, <1>9, <1>10 DEF PrintInv

LEMMA HeaderStep == PrintInv /\ Header => PrintInv'
<1> SUFFICES ASSUME PrintInv, Header PROVE PrintInv'
  BY Zenon
<1> DEFINE line == [k \in DOMAIN infos |->
                     [desc |-> k, from |-> infos[k].from, width |-> Padded(column_descs[k].name, k)]]
<1>0. NumRows \in Nat
  BY PrintAssumption, Zenon
<1>1. /\ print_pc = "columns" /\ print_pc' \in {"crashed", "rows"} /\ row' = 1 /\ table' = <<line>>
      /\ UNCHANGED <<column_descs, data, col, max_size, n, spaces, infos>>
  BY Zenon DEF Header
<1>2. infos \in Seq([from : Nat, max_size : Nat]) /\ Len(infos) <= Len(column_descs)
  BY Zenon DEF PrintInv, PrintType, Measuring
<1>3. ASSUME NEW k \in 1 .. Len(infos)
      PROVE  Padded(column_descs[k].name, k) = infos[k].max_size /\ infos[k].max_size \in Nat
  <2>1. infos[k].max_size \in Nat /\ column_descs[k].name \in Nat
    <3>1. k \in 1 .. Len(column_descs) /\ column_descs \in Seq(Descs)
      BY <1>2 DEF PrintInv, PrintType
    <3>2. column_descs[k] \in [name : Nat, type : Types]
      BY <3>1, PrintAssumption
    <3> QED BY <3>2, InfoIs, Zenon DEF PrintInv
  <2>2. column_descs[k].name <= infos[k].max_size
    BY Zenon DEF PrintInv, Measuring, Measured
  <2> QED BY <2>1, <2>2, LargerOfTwo DEF Padded
<1>4. line \in Lines
  <2>1. DOMAIN infos = 1 .. Len(infos) /\ \A k \in 1 .. Len(infos) : infos[k].from = k /\ k \in Nat
    BY <1>2 DEF PrintInv, Measuring
  <2> QED BY <1>3, <2>1, Zenon DEF Lines
<1>5. PrintType'
  <2>1. PrintType
    BY Zenon DEF PrintInv
  <2>2. table' \in Seq(Lines')
    <3>1. table' \in Seq(Lines)
      <4> HIDE DEF line
      <4> QED BY <1>1, <1>4
    <3> QED BY <1>1, <3>1, Zenon DEF Lines
  <2>3. row' \in 0 .. NumRows + 1
    BY <1>0, <1>1
  <2> QED BY <1>1, <2>1, <2>2, <2>3, Zenon DEF PrintType
<1>6. Measuring'
  BY <1>1 DEF PrintInv, Measuring, Measured, Fits
<1>7. \A k \in 1 .. Len(infos) : line[k].width = infos[k].max_size
  BY <1>2, <1>3
<1>8. Aligned'
  <2> HIDE DEF line
  <2> QED BY <1>1, <1>7 DEF Aligned
<1> QED BY <1>5, <1>6, <1>8 DEF PrintInv

LEMMA RowStep == RecognizedOnly /\ PrintInv /\ Row => PrintInv'
<1> SUFFICES ASSUME RecognizedOnly, PrintInv, Row PROVE PrintInv'
  BY Zenon
<1>0. NumRows \in Nat
  BY PrintAssumption, Zenon
<1>1. /\ print_pc = "rows" /\ row <= NumRows /\ row' = row + 1
      /\ UNCHANGED <<column_descs, data, print_pc, col, max_size, n, spaces, infos>>
  BY Zenon DEF Row
<1>2. PICK size \in [DOMAIN infos -> UNION {TextSizes(k) : k \in DOMAIN infos}] :
        /\ \A k \in DOMAIN infos : size[k] \in TextSizes(k)
        /\ table' = Append(table, [k \in DOMAIN infos |->
                       [desc |-> k, from |-> infos[k].from, width |-> Padded(size[k], k)]])
  BY Zenon DEF Row
<1> DEFINE line == [k \in DOMAIN infos |->
                     [desc |-> k, from |-> infos[k].from, width |-> Padded(size[k], k)]]
<1>3. /\ infos \in Seq([from : Nat, max_size : Nat]) /\ Len(infos) <= Len(column_descs)
      /\ DOMAIN infos = 1 .. Len(infos) /\ row \in 1 .. NumRows
      /\ column_descs \in Seq(Descs) /\ table \in Seq(Lines)
  BY <1>0, <1>1 DEF PrintInv, PrintType, Measuring
<1>4. ASSUME NEW k \in 1 .. Len(infos)
      PROVE  /\ infos[k].from = k /\ infos[k].max_size \in Nat
             /\ Padded(size[k], k) \in Nat
             /\ column_descs[k].type # "BINARY" => Padded(size[k], k) = infos[k].max_size
  <2> DEFINE v == data[k][row]
             t == column_descs[k].type
  <2>1. infos[k].from = k /\ Measured(k, NumRows, infos[k].max_size)
    BY Zenon DEF PrintInv, Measuring
  <2>2. k \in 1 .. Len(column_descs)
    BY <1>3
  <2>3. infos[k].max_size \in Nat
    BY InfoIs, Zenon DEF PrintInv
  <2>4. t # "DOUBLE"
    BY <1>3, <2>2 DEF RecognizedOnly
  <2>5. size[k] = TextSize(v, t)
    <3>1. size[k] \in TextSizes(k)
      BY <1>2, <1>3, Zenon
    <3> QED BY <2>1, <2>4, <3>1, Zenon DEF TextSizes, TextSize
  <2>6. TextSize(v, t) \in Nat
    BY <1>3, <2>2, CellIs DEF PrintInv
  <2>7. t # "BINARY" => TextSize(v, t) <= infos[k].max_size
    <3>1. row \in 1 .. NumRows /\ row <= NumRows
      BY <1>1, <1>3, Zenon
    <3> QED BY <2>1, <3>1, Zenon DEF Measured, Fits
  <2>8. Padded(size[k], k) = IF size[k] >= infos[k].max_size THEN size[k] ELSE infos[k].max_size
    <3>1. size[k] \in Int /\ infos[k].max_size \in Int
      BY <2>3, <2>5, <2>6
    <3> QED BY <3>1, LargerOfTwo, Zenon DEF Padded
  <2> QED BY <2>1, <2>3, <2>5, <2>6, <2>7, <2>8
<1>5. line \in Lines
  <2>1. \A k \in 1 .. Len(infos) : k \in Nat
    OBVIOUS
  <2> QED BY <1>3, <1>4, <2>1, Zenon DEF Lines
<1>6. \A k \in 1 .. Len(infos) : column_descs[k].type # "BINARY" => line[k].width = infos[k].max_size
  BY <1>3, <1>4, Zenon
<1>7. /\ table' \in Seq(Lines) /\ Len(table') = Len(table) + 1
      /\ \A l \in 1 .. Len(table) : table'[l] = table[l]
      /\ table'[Len(table) + 1] = line
  <2>1. table' = Append(table, line)
    BY <1>2, Zenon
  <2> HIDE DEF line, Lines
  <2> QED BY <1>3, <1>5, <2>1
<1>8. PrintType'
  <2>1. PrintType
    BY Zenon DEF PrintInv
  <2>2. table' \in Seq(Lines')
    BY <1>1, <1>7, Zenon DEF Lines
  <2>3. row' \in 0 .. NumRows + 1
    BY <1>0, <1>1, <1>3
  <2> QED BY <1>1, <2>1, <2>2, <2>3, Zenon DEF PrintType
<1>9. Measuring'
  <2>1. row' >= 1
    BY <1>0, <1>1, <1>3
  <2> QED BY <1>1, <2>1, Zenon DEF PrintInv, Measuring, Measured, Fits
<1>10. Aligned'
  <2> HIDE DEF line
  <2> SUFFICES ASSUME NEW l \in 1 .. Len(table'), NEW k \in 1 .. Len(infos),
                      column_descs[k].type # "BINARY"
               PROVE  table'[l][k].width = infos[k].max_size
    BY <1>1, Zenon DEF Aligned
  <2>1. CASE l = Len(table) + 1
    BY <1>6, <1>7, <2>1, Zenon
  <2>2. CASE l \in 1 .. Len(table)
    BY <1>7, <2>2, Zenon DEF PrintInv, Aligned
  <2>3. Len(table) \in Nat
    BY <1>3
  <2> QED BY <1>7, <2>1, <2>2, <2>3
<1> QED BY <1>8, <1>9, <1>10, ZenonT(30) DEF PrintInv

\* Every step of Util::PrintResults keeps the invariant.
LEMMA PrintingSteps == RecognizedOnly /\ PrintInv /\ [PrintNext]_printVars => PrintInv'
<1> SUFFICES ASSUME RecognizedOnly, PrintInv, [PrintNext]_printVars PROVE PrintInv'
  BY Zenon
<1>1. ASSUME UNCHANGED printVars PROVE PrintInv'
  BY <1>1, Zenon DEF printVars, PrintInv, PrintType, Lines, Measuring, Measured, Fits, Counted, TakenOff, Aligned
<1>2. ASSUME EndTable PROVE PrintInv'
  <2>1. /\ print_pc' = "done"
        /\ UNCHANGED <<column_descs, data, col, row, max_size, n, spaces, infos, table>>
    BY <1>2, Zenon DEF EndTable
  <2> QED BY <2>1, Zenon DEF PrintInv, PrintType, Lines, Measuring, Measured, Fits, Aligned
<1> QED
  BY <1>1, <1>2, StartColumnStep, MeasureCellStep, MeasureOtherStep, NumSpacesStep, EndColumnStep,
     HeaderStep, RowStep, Zenon DEF PrintNext

\* Where Util::PrintResults knows the type of every column, each line of the table is as
\* wide as the header in every column, whatever the names, numbers and texts, NULL and the
\* smallest integer among them: NumSpaces counts no digit less than is printed.
THEOREM TableIsAligned == RecognizedOnly => (PrintSpec => []TableAligned)
<1> SUFFICES ASSUME RecognizedOnly PROVE PrintSpec => []TableAligned
  BY Zenon
<1>1. PrintInit => PrintInv
  BY PrintingStarts, Zenon
<1>2. PrintInv /\ [PrintNext]_printVars => PrintInv'
  BY PrintingSteps, Zenon
<1>3. PrintInv => TableAligned
  <2> SUFFICES ASSUME PrintInv PROVE TableAligned
    BY Zenon
  <2>1. DOMAIN table = 1 .. Len(table) /\ DOMAIN infos = 1 .. Len(infos)
    BY DEF PrintInv, PrintType
  <2>2. \A k \in 1 .. Len(infos) : infos[k].from = k
    BY Zenon DEF PrintInv, Measuring
  <2> QED BY <2>1, <2>2 DEF PrintInv, Aligned, TableAligned
<1> QED BY <1>1, <1>2, <1>3, PTL DEF PrintSpec
=============================================================================
