------------------------ MODULE ConvertColumnProofs ------------------------
(***************************************************************************)
(* Proofs about ConvertColumn.                                             *)
(***************************************************************************)
EXTENDS ConvertColumn, DataLemmas, FiniteSetTheorems

-----------------------------------------------------------------------------
(***************************************************************************)
(* The conversion of a column: the inductive invariant.                    *)
(***************************************************************************)
\* What a cell of the column can be.
CellValues == ValuesOf(kind) \cup {Null}

\* The rows of the first c chunks.
Before(c) == Joined[c]

ColumnType ==
  /\ kind \in Kinds
  /\ column \in Seq(Seq(CellValues))
  /\ pc \in {"start", "alloc", "loop", "done", "raised"}
  /\ have_null \in BOOLEAN
  /\ pc \in {"alloc", "loop", "done"} => kind # "unsupported"

\* Where the loops are: the cells written are the rows read.
Position ==
  /\ pc \in {"alloc", "loop", "done"} => total_length = Len(Cells)
  /\ pc \in {"loop", "done"} =>
       /\ out = [dtype |-> ArrayType, cells |-> [k \in 1..total_length |-> out.cells[k]]]
       /\ chunk \in 0..Len(column) /\ j \in Nat
       /\ chunk < Len(column) => j <= Len(column[chunk + 1])
       /\ chunk = Len(column) => j = 0
       /\ i = Len(Before(chunk)) + j
  /\ pc = "done" => chunk = Len(column)

\* Where the first len elements of f are o, and how many of the cells written are.
Occurrences(f, len, o) == {k \in 1..len : f[k] = o}
CellsOf(o) == Cardinality(Occurrences(out.cells, i, o))

\* A reference for each cell, and two for each string in the intern table.
References ==
  /\ refs \in [Objects -> Int]
  /\ (pc \in {"start", "alloc"} \/ out.dtype # "object") =>
       intern_table = {} /\ refs = [o \in Objects |-> 0]
  /\ pc = "done" => intern_table = {}
  /\ pc \in {"loop", "done"} /\ out.dtype = "object" =>
       \A o \in Objects : refs[o] = CellsOf(o) + IF o \in intern_table THEN 2 ELSE 0

\* What the cells written so far hold, when no bitmap is trimmed.
CellRight(k) ==
  out.cells[k] = IF Cells[k] = Null THEN NullValue
                 ELSE IF kind = "integer" /\ have_null THEN ToFloat(Cells[k])
                 ELSE Cells[k]

Contents ==
  /\ have_null => kind \in {"integer", "boolean"} /\ HasNull
  /\ pc \in {"loop", "done"} =>
       \A k \in 1..i : CellRight(k) /\ (Optimistic => Cells[k] # Null)

-----------------------------------------------------------------------------
(***************************************************************************)
(* Lemmas about columns, bitmaps and arrays.                               *)
(***************************************************************************)
\* A column is a sequence of chunks, each a sequence of cells.
LEMMA SeqsUpToAreSeqs ==
  ASSUME NEW V, NEW b \in Nat, NEW s \in SeqsUpTo(b, V)
  PROVE  s \in Seq(V)
  BY DEF SeqsUpTo

\* The length of a sequence given by its elements.
LEMMA LenOfFunction ==
  ASSUME NEW b \in Nat, NEW f, f = [k \in 1..b |-> f[k]]
  PROVE  Len(f) = b /\ DOMAIN f = 1..b
<1>1. f \in Seq(Range(f))
  BY DEF Range
<1> QED BY <1>1

\* The rows of a chunk are where those of the chunks before it end.
LEMMA ColumnParts ==
  ASSUME ColumnType
  PROVE  /\ Cells \in Seq(CellValues) /\ Len(column) \in Nat
         /\ Before(0) = <<>> /\ Before(Len(column)) = Cells
         /\ \A c \in 0..Len(column) :
              Before(c) \in Seq(CellValues) /\ Len(Before(c)) <= Len(Cells)
         /\ \A c \in 0..(Len(column) - 1) :
              /\ column[c + 1] \in Seq(CellValues)
              /\ Len(Before(c + 1)) = Len(Before(c)) + Len(column[c + 1])
              /\ \A r \in 1..Len(column[c + 1]) :
                   /\ Len(Before(c)) + r \in 1..Len(Cells)
                   /\ Cells[Len(Before(c)) + r] = column[c + 1][r]
<1>1. column \in Seq(Seq(CellValues))
  BY Zenon DEF ColumnType
<1>2. Joined = CHOOSE g : g = [c \in 0..Len(column) |-> IF c = 0 THEN <<>> ELSE g[c - 1] \o column[c]]
  BY Zenon DEF Joined
<1>3. /\ Joined \in [0..Len(column) -> Seq(CellValues)] /\ Joined[0] = <<>>
      /\ \A c \in 1..Len(column) : Joined[c] = Joined[c - 1] \o column[c]
  BY <1>1, <1>2, JoinedIs, Zenon
<1>4. Joins(Joined, column, CellValues)
  BY <1>1, <1>3, JoinedParts, Zenon
<1> QED BY <1>4, Zenon DEF Joins, Before, Cells

\* GetColumns adds up the number of rows.
LEMMA GetColumnsCounts ==
  ASSUME ColumnType
  PROVE  GetColumns = Len(Cells)
<1> DEFINE len == Len(column)
           Sum(f) == f = [c \in 0..len |-> IF c = 0 THEN 0 ELSE f[c - 1] + Len(column[c])]
           LengthOf == CHOOSE f : Sum(f)
           h == [c \in 0..len |-> Len(Before(c))]
<1>1. len \in Nat
  BY ColumnParts, Zenon
<1>2. \A c \in 0..len : h[c] = IF c = 0 THEN 0 ELSE h[c - 1] + Len(column[c])
  <2> SUFFICES ASSUME NEW c \in 0..len
               PROVE  Len(Before(c)) = IF c = 0 THEN 0 ELSE h[c - 1] + Len(column[c])
    BY Zenon
  <2>1. CASE c = 0
    BY <2>1, ColumnParts, Zenon
  <2>2. CASE c # 0
    <3> DEFINE d == c - 1
    <3>1. d \in 0..(len - 1) /\ d + 1 = c /\ d \in 0..len
      BY <1>1, <2>2
    <3>2. Len(Before(d + 1)) = Len(Before(d)) + Len(column[d + 1])
      BY <3>1, ColumnParts, Zenon
    <3> QED BY <3>1, <3>2, <2>2, Zenon
  <2> QED BY <2>1, <2>2, Zenon
<1>3. Sum(h)
  BY <1>2, Zenon
<1>4. Sum(LengthOf)
  <2> HIDE DEF Sum, h
  <2> QED BY <1>3, Zenon
<1>5. GetColumns = LengthOf[len]
  BY Zenon DEF GetColumns
<1> HIDE DEF LengthOf, h
<1> DEFINE E == {c \in Nat : c \in 0..len => LengthOf[c] = h[c]}
<1>6. 0 \in E
  BY <1>1, <1>3, <1>4, Zenon
<1>7. ASSUME NEW c \in Nat, c \in E PROVE c + 1 \in E
  <2> SUFFICES ASSUME c + 1 \in 0..len PROVE LengthOf[c + 1] = h[c + 1]
    OBVIOUS
  <2>1. c \in 0..len /\ c + 1 # 0 /\ (c + 1) - 1 = c
    BY <1>1
  <2> QED BY <1>3, <1>4, <1>7, <2>1
<1>8. Nat \subseteq E
  <2> HIDE DEF E
  <2> QED BY <1>6, <1>7, NatInd, Zenon
<1>9. LengthOf[len] = h[len]
  BY <1>1, <1>8
<1> QED BY <1>1, <1>5, <1>9, ColumnParts DEF h

\* Reading a bit gives TRUE or FALSE, whatever the bitmap.
LEMMA GetBitBoolean ==
  ASSUME NEW bits, NEW r, NEW answer \in GetBit(bits, r)
  PROVE  answer \in BOOLEAN
  BY Zenon DEF GetBit

\* Column::IsNull is exact on a bitmap that the server has not trimmed.
LEMMA UntrimmedIsExact ==
  ASSUME ~TrimsBitmaps, NEW V, NEW cells \in Seq(V), NEW r \in 0..(Len(cells) - 1)
  PROVE  \A answer \in GetBit(Nulls(cells), r) : answer <=> cells[r + 1] = Null
<1> DEFINE len == Len(cells)
           bytes == (len + ByteBits - 1) \div ByteBits
           q == r \div ByteBits
           k == r % ByteBits
<1>1. ByteBits \in Nat \ {0} /\ len \in Nat /\ r \in Nat /\ r < len
  BY ConvertColumnAssumption
<1>2. q \in Nat /\ k \in 0..(ByteBits - 1) /\ r = ByteBits * q + k
  BY <1>1
<1>3. bytes \in Nat /\ len <= ByteBits * bytes
  <2> DEFINE a == len + ByteBits - 1
  <2>1. a \in Nat
    BY <1>1
  <2>2. a = ByteBits * (a \div ByteBits) + (a % ByteBits) /\ (a % ByteBits) < ByteBits
        /\ a \div ByteBits \in Nat /\ (a % ByteBits) \in Nat
    BY <1>1, <2>1
  <2> QED BY <1>1, <2>2
<1>4. q < bytes
  <2> HIDE DEF q, bytes, k
  <2>1. ByteBits * q < ByteBits * bytes
    BY <1>1, <1>2, <1>3
  <2> QED BY <1>1, <1>2, <1>3, <2>1
<1>5. Nulls(cells) = FullBitmap(cells)
  BY Zenon DEF Nulls
<1>6. Len(FullBitmap(cells)) = bytes
  <2> HIDE DEF bytes
  <2> DEFINE f == FullBitmap(cells)
  <2>1. f = [b \in 1..bytes |-> f[b]]
    BY Zenon DEF FullBitmap, bytes
  <2> HIDE DEF f
  <2> QED BY <1>3, <2>1, LenOfFunction, Zenon DEF f
<1>7. k \in FullBitmap(cells)[q + 1] <=> cells[r + 1] = Null
  <2>1. q + 1 \in 1..bytes
    BY <1>2, <1>3, <1>4
  <2>2. ((q + 1) - 1) * ByteBits + k + 1 = r + 1
    BY <1>1, <1>2
  <2> HIDE DEF q, k, bytes
  <2>3. FullBitmap(cells)[q + 1] =
          {x \in 0..(ByteBits - 1) :
             ((q + 1) - 1) * ByteBits + x + 1 <= Len(cells)
               /\ cells[((q + 1) - 1) * ByteBits + x + 1] = Null}
    BY <2>1, Zenon DEF FullBitmap, bytes
  <2> QED BY <1>1, <1>2, <2>2, <2>3
<1>8. \A answer \in GetBit(Nulls(cells), r) : answer <=> k \in FullBitmap(cells)[q + 1]
  <2> HIDE DEF bytes
  <2> QED BY <1>4, <1>5, <1>6 DEF GetBit
<1> QED BY <1>7, <1>8, Zenon

-----------------------------------------------------------------------------
(***************************************************************************)
(* The types, and where the loops are.                                     *)
(***************************************************************************)
\* A conversion starts with a column of its kind, and nothing written.
LEMMA ColumnInit ==
  ASSUME Init
  PROVE  ColumnType /\ Position /\ References /\ Contents
<1>1. column \in Seq(Seq(CellValues))
  <2>1. column \in Seq(Chunks(kind))
    BY SeqsUpToAreSeqs, ConvertColumnAssumption, Zenon DEF Init
  <2>2. Chunks(kind) \subseteq Seq(CellValues)
    BY SeqsUpToAreSeqs, ConvertColumnAssumption, Zenon DEF Chunks, CellValues
  <2> QED BY <2>1, <2>2
<1>2. ColumnType
  BY <1>1, Zenon DEF Init, ColumnType
<1>3. Position /\ Contents
  BY Zenon DEF Init, Position, Contents
<1>4. References
  BY DEF Init, References, NoArray
<1> QED BY <1>2, <1>3, <1>4, Zenon

\* The column and its kind stay as they are.
LEMMA ColumnStays ==
  ASSUME [Next]_vars
  PROVE  UNCHANGED <<kind, column>>
  BY Zenon DEF Next, vars, Dispatch, Alloc, AllocFails, Cell, FoundNull, StringFails, NextChunk, Return

\* Each step keeps the types.
LEMMA TypeStep ==
  ASSUME ColumnType, [Next]_vars
  PROVE  ColumnType'
<1>1. UNCHANGED <<kind, column>>
  BY ColumnStays, Zenon
<1>2. CellValues' = CellValues
  BY <1>1, Zenon DEF CellValues, ValuesOf
<1>3. pc' \in {"start", "alloc", "loop", "done", "raised"} /\ have_null' \in BOOLEAN
      /\ (pc' \in {"alloc", "loop", "done"} => kind # "unsupported")
  BY Zenon DEF ColumnType, Next, vars, Dispatch, Alloc, AllocFails, Cell, FoundNull, StringFails,
         NextChunk, Return, InChunk, loopVars
<1> QED BY <1>1, <1>2, <1>3, Zenon DEF ColumnType

\* Each step keeps the loops at the cell after the rows that were read.
LEMMA PositionStep ==
  ASSUME ColumnType, Position, [Next]_vars
  PROVE  Position'
<1>1. UNCHANGED <<kind, column>> /\ Cells' = Cells /\ \A c : Before(c)' = Before(c)
  BY ColumnStays, Zenon DEF Cells, Before, Joined
<1>2. CASE Dispatch
  BY <1>1, <1>2, GetColumnsCounts, Zenon DEF Dispatch, Position
<1>3. CASE Alloc
  <2>1. ArrayType' = ArrayType
    BY <1>1, <1>3, Zenon DEF Alloc, ArrayType
  <2>2. Before(chunk)' = <<>>
    BY <1>1, <1>3, ColumnParts, Zenon DEF Alloc
  <2>3. out' = [dtype |-> ArrayType, cells |-> [k \in 1..total_length |-> out'.cells[k]]]
    BY <1>3, Zenon DEF Alloc, NewArray
  <2>4. column # <<>> => Len(column[1]) \in Nat
    BY DEF ColumnType
  <2> QED BY <1>1, <1>3, <2>1, <2>2, <2>3, <2>4, ColumnParts DEF Alloc, Position
<1>4. CASE AllocFails
  BY <1>4, Zenon DEF AllocFails, Position
<1>5. CASE Cell
  <2>1. pc = "loop" /\ chunk < Len(column) /\ j < Len(column[chunk + 1])
    BY <1>5, Zenon DEF Cell, InChunk
  <2>2. UNCHANGED <<pc, have_null, total_length, chunk>> /\ i' = i + 1 /\ j' = j + 1
    BY <1>5, Zenon DEF Cell
  <2>3. PICK x : out' = [out EXCEPT !.cells[i + 1] = x]
    BY <1>5, Zenon DEF Cell, Store
  <2>4. ArrayType' = ArrayType /\ Before(chunk)' = Before(chunk)
    BY <1>1, <2>2, Zenon DEF ArrayType
  <2>5. out' = [dtype |-> ArrayType, cells |-> [k \in 1..total_length |-> out'.cells[k]]]
    <3> DEFINE f == [k \in 1..total_length |-> out.cells[k]]
               g == [f EXCEPT ![i + 1] = x]
    <3>1. out = [dtype |-> ArrayType, cells |-> f]
      BY <2>1, Zenon DEF Position
    <3>2. g = [k \in 1..total_length |-> g[k]]
      BY Zenon
    <3> HIDE DEF f
    <3>3. out' = [dtype |-> ArrayType, cells |-> g]
      BY <2>3, <3>1, Zenon
    <3> HIDE DEF g
    <3> QED BY <3>2, <3>3, Zenon
  <2>6. Len(column[chunk + 1]) \in Nat /\ Len(Before(chunk)) \in Nat /\ chunk \in 0..Len(column)
    BY <2>1, ColumnParts DEF Position
  <2>7. /\ i' = Len(Before(chunk)') + j' /\ j' \in Nat /\ j' <= Len(column[chunk + 1])
        /\ total_length = Len(Cells)
    <3>1. i = Len(Before(chunk)) + j /\ j \in Nat /\ total_length = Len(Cells)
      BY <2>1, Zenon DEF Position
    <3> QED BY <2>1, <2>2, <2>4, <2>6, <3>1
  <2> QED BY <1>1, <2>1, <2>2, <2>4, <2>5, <2>6, <2>7 DEF Position
<1>6. CASE FoundNull
  BY <1>1, <1>6, Zenon DEF FoundNull, InChunk, Position
<1>7. CASE StringFails
  BY <1>7, Zenon DEF StringFails, Position
<1>8. CASE NextChunk
  <2>1. pc = "loop" /\ chunk < Len(column) /\ j = Len(column[chunk + 1])
    BY <1>8, Zenon DEF NextChunk
  <2>2. UNCHANGED <<pc, have_null, total_length, out, i>> /\ chunk' = chunk + 1 /\ j' = 0
    BY <1>8, Zenon DEF NextChunk
  <2>3. chunk \in 0..(Len(column) - 1) /\ Len(column) \in Nat
    BY <2>1, ColumnParts DEF Position
  <2>4. Len(Before(chunk + 1)) = Len(Before(chunk)) + Len(column[chunk + 1])
        /\ Len(Before(chunk + 1)) \in Nat
    <3>1. chunk + 1 \in 0..Len(column)
      BY <2>3
    <3>2. Before(chunk + 1) \in Seq(CellValues)
      BY <3>1, ColumnParts, Zenon
    <3>3. Len(Before(chunk + 1)) = Len(Before(chunk)) + Len(column[chunk + 1])
      BY <2>3, ColumnParts, Zenon
    <3> QED BY <3>2, <3>3
  <2>5. ArrayType' = ArrayType /\ Before(chunk)' = Before(chunk + 1)
    BY <1>1, <2>2, Zenon DEF ArrayType
  <2>6. chunk + 1 < Len(column) => Len(column[(chunk + 1) + 1]) \in Nat
    BY <2>3, ColumnParts
  <2> QED BY <1>1, <2>1, <2>2, <2>3, <2>4, <2>5, <2>6 DEF Position
<1>9. CASE Return
  <2>1. ArrayType' = ArrayType /\ Before(chunk)' = Before(chunk)
    BY <1>1, <1>9, Zenon DEF ArrayType, Return, loopVars
  <2> QED BY <1>1, <1>9, <2>1, Zenon DEF Return, Position, loopVars
<1>10. CASE UNCHANGED vars
  <2>1. ArrayType' = ArrayType /\ Before(chunk)' = Before(chunk)
    BY <1>1, <1>10, Zenon DEF ArrayType, vars, loopVars
  <2> QED BY <1>1, <1>10, <2>1, Zenon DEF vars, Position, loopVars
<1> QED BY <1>2, <1>3, <1>4, <1>5, <1>6, <1>7, <1>8, <1>9, <1>10, ZenonT(30) DEF Next

\* The cells still to be written are the rows not yet read.
LEMMA PositionLeavesRoom ==
  ASSUME ColumnType, Position
  PROVE  RoomForTheRest
<1> SUFFICES ASSUME pc = "loop"
             PROVE  /\ Len(out.cells) = total_length
                    /\ total_length - i = Len(Cells) - Len(Before(chunk)) - j
  BY Zenon DEF RoomForTheRest, Before
<1>1. total_length = Len(Cells) /\ total_length \in Nat
  BY ColumnParts DEF Position
<1>2. out.cells = [k \in 1..total_length |-> out.cells[k]]
  BY DEF Position
<1>3. Len(Before(chunk)) \in Nat /\ Len(Cells) \in Nat
  BY ColumnParts DEF Position
<1>4. i = Len(Before(chunk)) + j /\ j \in Nat
  BY Zenon DEF Position
<1> QED BY <1>1, <1>2, <1>3, <1>4, LenOfFunction

(***************************************************************************)
(* GetColumns makes the array as long as the column, and in both passes    *)
(* out_values[i++] stays inside it: for every number of batches and rows,  *)
(* and whatever Column::IsNull answers.                                    *)
(***************************************************************************)
THEOREM RoomIsEnough == Spec => []RoomForTheRest
<1>1. Init => ColumnType /\ Position
  BY ColumnInit, Zenon
<1>2. ColumnType /\ Position /\ [Next]_vars => (ColumnType /\ Position)'
  BY TypeStep, PositionStep, Zenon
<1>3. ColumnType /\ Position => RoomForTheRest
  BY PositionLeavesRoom, Zenon
<1> QED BY <1>1, <1>2, <1>3, PTL DEF Spec

-----------------------------------------------------------------------------
(***************************************************************************)
(* The references that the array and the intern table hold.                *)
(***************************************************************************)
\* What Store writes for a row.
StoredCell(null, v) ==
  CASE null -> NullValue
    [] ~null /\ kind = "integer" /\ have_null -> ToFloat(v)
    [] OTHER -> v

\* One step of an inner loop writes one cell, inside the array.
LEMMA CellStores ==
  ASSUME ColumnType, Position, Cell
  PROVE  /\ pc = "loop" /\ chunk \in 0..(Len(column) - 1) /\ j \in 0..(Len(column[chunk + 1]) - 1)
         /\ i \in Nat /\ i + 1 \in 1..total_length /\ i' = i + 1
         /\ Cells[i + 1] = column[chunk + 1][j + 1]
         /\ out = [dtype |-> ArrayType, cells |-> out.cells]
         /\ \E null \in BOOLEAN :
              /\ null \in GetBit(Nulls(column[chunk + 1]), j)
              /\ ~StopsAt(null)
              /\ Store(null, Cells[i + 1])
         /\ \A null \in BOOLEAN : \A v : Store(null, v) =>
              \A k \in 1..i' :
                out'.cells[k] = IF k = i + 1 THEN StoredCell(null, v) ELSE out.cells[k]
<1>1. pc = "loop" /\ chunk < Len(column) /\ j < Len(column[chunk + 1]) /\ i' = i + 1
  BY Zenon DEF Cell, InChunk
<1>2. /\ chunk \in 0..Len(column) /\ j \in Nat /\ i = Len(Before(chunk)) + j
      /\ total_length = Len(Cells)
  BY <1>1, Zenon DEF Position
<1>3. out = [dtype |-> ArrayType, cells |-> [k \in 1..total_length |-> out.cells[k]]]
  BY <1>1, Zenon DEF Position
<1>4. chunk \in 0..(Len(column) - 1) /\ column[chunk + 1] \in Seq(CellValues)
  <2>1. Len(column) \in Nat
    BY ColumnParts, Zenon
  <2>2. chunk \in 0..(Len(column) - 1)
    BY <1>1, <1>2, <2>1
  <2> QED BY <2>2, ColumnParts, Zenon
<1>5. Len(column[chunk + 1]) \in Nat /\ j \in 0..(Len(column[chunk + 1]) - 1)
      /\ j + 1 \in 1..Len(column[chunk + 1])
  <2>1. Len(column[chunk + 1]) \in Nat
    BY <1>4
  <2> QED BY <1>1, <1>2, <2>1
<1>6. Before(chunk) \in Seq(CellValues) /\ Len(Before(chunk)) \in Nat
  BY <1>2, ColumnParts
<1>7. /\ Len(Before(chunk)) + (j + 1) \in 1..Len(Cells)
      /\ Cells[Len(Before(chunk)) + (j + 1)] = column[chunk + 1][j + 1]
  BY <1>4, <1>5, ColumnParts, Zenon
<1>8. i \in Nat /\ i + 1 \in 1..total_length /\ Cells[i + 1] = column[chunk + 1][j + 1]
  <2>1. i + 1 = Len(Before(chunk)) + (j + 1) /\ i \in Nat
    BY <1>2, <1>6
  <2> QED BY <1>2, <1>7, <2>1, Zenon
<1>9. \E null \in BOOLEAN :
        /\ null \in GetBit(Nulls(column[chunk + 1]), j)
        /\ ~StopsAt(null)
        /\ Store(null, Cells[i + 1])
  BY <1>8, GetBitBoolean DEF Cell
<1>10. ASSUME NEW null \in BOOLEAN, NEW v, Store(null, v), NEW k \in 1..i'
       PROVE  out'.cells[k] = IF k = i + 1 THEN StoredCell(null, v) ELSE out.cells[k]
  <2> DEFINE f == [r \in 1..total_length |-> out.cells[r]]
             x == StoredCell(null, v)
  <2>1. out' = [out EXCEPT !.cells[i + 1] = x]
    BY <1>10, Zenon DEF Store, StoredCell
  <2> HIDE DEF x
  <2>2. k \in 1..total_length
    <3>1. total_length \in Nat
      BY <1>2, ColumnParts
    <3> QED BY <1>1, <1>8, <3>1
  <2>3. out'.cells = [f EXCEPT ![i + 1] = x]
    <3>1. out = [dtype |-> ArrayType, cells |-> f]
      BY <1>3, Zenon
    <3> HIDE DEF f
    <3> QED BY <2>1, <3>1, Zenon
  <2> QED BY <2>2, <2>3, <1>8, Zenon DEF x
<1>11. out = [dtype |-> ArrayType, cells |-> out.cells]
  BY <1>3
<1> QED BY <1>1, <1>4, <1>5, <1>8, <1>9, <1>10, <1>11, Zenon

\* The next cell adds one to the number of cells of its own object.
LEMMA CountNext ==
  ASSUME NEW k \in Nat, NEW f, NEW g, NEW o, \A r \in 1..k : f[r] = g[r]
  PROVE  /\ Cardinality(Occurrences(f, k, o)) \in Nat
         /\ Cardinality(Occurrences(g, k + 1, o)) =
              Cardinality(Occurrences(f, k, o)) + IF g[k + 1] = o THEN 1 ELSE 0
<1> DEFINE A == {r \in 1..k : f[r] = o}
           B == {r \in 1..(k + 1) : g[r] = o}
<1>1. IsFiniteSet(A)
  <2>1. IsFiniteSet(1..k)
    BY FS_Interval
  <2> QED BY <2>1, FS_Subset, Zenon
<1>2. Cardinality(A) \in Nat
  BY <1>1, FS_CardinalityType, Zenon
<1>3. Cardinality(B) = Cardinality(A) + IF g[k + 1] = o THEN 1 ELSE 0
  <2>1. CASE g[k + 1] = o
    <3>1. B = A \cup {k + 1} /\ k + 1 \notin A
      BY <2>1
    <3> HIDE DEF A, B
    <3>2. Cardinality(A \cup {k + 1}) = Cardinality(A) + 1
      BY <1>1, <3>1, FS_AddElement, Zenon
    <3> QED BY <2>1, <3>1, <3>2
  <2>2. CASE g[k + 1] # o
    <3>1. B = A
      BY <2>2
    <3> HIDE DEF A, B
    <3> QED BY <1>2, <2>2, <3>1
  <2> QED BY <2>1, <2>2, Zenon
<1>4. A = Occurrences(f, k, o) /\ B = Occurrences(g, k + 1, o)
  BY Zenon DEF Occurrences
<1> HIDE DEF A, B
<1> QED BY <1>2, <1>3, <1>4, Zenon

\* Each step keeps the references counted.
LEMMA ReferencesStep ==
  ASSUME ColumnType, Position, References, [Next]_vars
  PROVE  References'
<1>1. UNCHANGED <<kind, column>> /\ Objects' = Objects
  BY ColumnStays, Zenon DEF Objects
<1>2. CASE Dispatch
  BY <1>2, Zenon DEF Dispatch, References, Objects, pyVars, CellsOf, Occurrences
<1>3. CASE Alloc
  <2>1. pc = "alloc" /\ UNCHANGED pyVars /\ i' = 0 /\ pc' = "loop"
    BY <1>3, Zenon DEF Alloc
  <2>2. intern_table = {} /\ refs = [o \in Objects |-> 0]
    BY <2>1, Zenon DEF References
  <2>3. ASSUME NEW o PROVE CellsOf(o)' = 0
    <3>1. Occurrences(out.cells, i, o)' = {}
      BY <2>1 DEF Occurrences
    <3> QED BY <3>1, FS_EmptySet, Zenon DEF CellsOf
  <2> QED BY <1>1, <2>1, <2>2, <2>3 DEF References, pyVars
<1>4. CASE AllocFails
  BY <1>1, <1>4, Zenon DEF AllocFails, References, pyVars
<1>5. CASE Cell
  <2>1. PICK null \in BOOLEAN : Store(null, Cells[i + 1])
    BY <1>5, CellStores, Zenon
  <2> DEFINE v == Cells[i + 1]
             x == StoredCell(null, v)
  <2>2. pc = "loop" /\ pc' = "loop" /\ i \in Nat /\ i' = i + 1 /\ out.dtype = ArrayType
    BY <1>5, CellStores DEF Cell
  <2>3. out'.dtype = out.dtype
    BY <2>1, <2>2, <1>5, CellStores, Zenon DEF Store
  <2>4. /\ \A k \in 1..i : out.cells[k] = out'.cells[k]
        /\ out'.cells[i + 1] = x
    <3>1. \A k \in 1..(i + 1) : out'.cells[k] = IF k = i + 1 THEN x ELSE out.cells[k]
      BY <1>5, <2>1, <2>2, CellStores, Zenon
    <3> HIDE DEF x, v
    <3> QED BY <2>2, <3>1
  <2>5. CASE out.dtype # "object"
    <3>1. UNCHANGED pyVars
      BY <2>1, <2>5, Zenon DEF Store
    <3> QED BY <1>1, <2>2, <2>3, <2>5, <3>1, Zenon DEF References, pyVars
  <2>6. CASE out.dtype = "object"
    <3>1. \A o : CellsOf(o) \in Nat
                 /\ CellsOf(o)' = CellsOf(o) + IF x = o THEN 1 ELSE 0
      <4> TAKE o
      <4> DEFINE f == out.cells
                 g == out'.cells
      <4>1. \A r \in 1..i : f[r] = g[r]
        BY <2>4, Zenon
      <4>2. g[i + 1] = x
        BY <2>4, Zenon
      <4> HIDE DEF f, g, x
      <4>3. /\ Cardinality(Occurrences(f, i, o)) \in Nat
            /\ Cardinality(Occurrences(g, i + 1, o)) =
                 Cardinality(Occurrences(f, i, o)) + IF g[i + 1] = o THEN 1 ELSE 0
        BY <2>2, <4>1, CountNext
      <4> QED BY <2>2, <4>2, <4>3 DEF CellsOf, f, g
    <3>2. kind # "integer"
      BY <2>2, <2>6, Zenon DEF ArrayType
    <3>3. x = IF null THEN None ELSE v
      BY <2>2, <2>6, <3>2, Zenon DEF StoredCell, NullValue, ArrayType, ColumnType, Kinds
    <3>4. \A o \in Objects : refs[o] = CellsOf(o) + IF o \in intern_table THEN 2 ELSE 0
      BY <2>2, <2>6, Zenon DEF References
    <3>5. refs \in [Objects -> Int]
      BY Zenon DEF References
    <3>6. CASE ~null /\ kind = "string"
      <4>1. /\ intern_table' = intern_table \cup {v}
            /\ refs' = [refs EXCEPT ![v] = @ + IF v \in intern_table THEN 1 ELSE 3]
        BY <2>1, <2>6, <3>6 DEF Store, MakePyString
      <4>2. x = v
        BY <3>3, <3>6
      <4> HIDE DEF x, v
      <4>3. refs' \in [Objects -> Int]
        <5>1. CASE v \in Objects
          BY <3>5, <4>1, <5>1
        <5>2. CASE v \notin Objects
          BY <3>5, <4>1, <5>2, Zenon
        <5> QED BY <5>1, <5>2
      <4>4. ASSUME NEW o \in Objects
            PROVE  refs'[o] = CellsOf(o)' + IF o \in intern_table' THEN 2 ELSE 0
        <5>1. /\ CellsOf(o) \in Nat /\ CellsOf(o)' = CellsOf(o) + IF v = o THEN 1 ELSE 0
              /\ refs[o] = CellsOf(o) + IF o \in intern_table THEN 2 ELSE 0
          BY <3>1, <3>4, <4>2, Zenon
        <5>2. CASE o = v
          <6>1. o \in intern_table' /\ refs'[o] = refs[o] + IF v \in intern_table THEN 1 ELSE 3
            BY <3>5, <4>1, <5>2, Zenon
          <6> QED BY <5>1, <5>2, <6>1
        <5>3. CASE o # v
          <6>1. (o \in intern_table' <=> o \in intern_table) /\ refs'[o] = refs[o]
            BY <3>5, <4>1, <5>3, Zenon
          <6>2. CellsOf(o)' = CellsOf(o)
            BY <5>1, <5>3
          <6> QED BY <5>1, <6>1, <6>2, Zenon
        <5> QED BY <5>2, <5>3, Zenon
      <4> QED BY <1>1, <2>2, <2>3, <2>6, <4>3, <4>4, Zenon DEF References
    <3>7. CASE ~(~null /\ kind = "string")
      <4>1. intern_table' = intern_table /\ refs' = [refs EXCEPT ![x] = @ + 1]
        BY <2>1, <2>6, <3>7 DEF Store, StoredCell
      <4> HIDE DEF x, v
      <4>2. refs' \in [Objects -> Int]
        <5>1. CASE x \in Objects
          BY <3>5, <4>1, <5>1
        <5>2. CASE x \notin Objects
          BY <3>5, <4>1, <5>2, Zenon
        <5> QED BY <5>1, <5>2, Zenon
      <4>3. ASSUME NEW o \in Objects
            PROVE  refs'[o] = CellsOf(o)' + IF o \in intern_table' THEN 2 ELSE 0
        BY <3>1, <3>4, <3>5, <4>1
      <4> QED BY <1>1, <2>2, <2>3, <2>6, <4>2, <4>3, Zenon DEF References
    <3> QED BY <3>6, <3>7, Zenon
  <2> QED BY <2>5, <2>6, Zenon
<1>6. CASE FoundNull
  <2>1. pc = "loop" /\ Optimistic /\ UNCHANGED pyVars /\ pc' = "alloc" /\ out' = NoArray
    BY <1>6, Zenon DEF FoundNull, InChunk, StopsAt
  <2>2. out.dtype # "object"
    BY <2>1 DEF Position, ArrayType, Optimistic
  <2> QED BY <1>1, <2>1, <2>2, Zenon DEF References, pyVars, NoArray
<1>7. CASE StringFails
  BY <1>1, <1>7, Zenon DEF StringFails, References, pyVars, InChunk
<1>8. CASE NextChunk
  BY <1>1, <1>8, Zenon DEF NextChunk, References, pyVars, CellsOf, Occurrences
<1>9. CASE Return
  <2>1. /\ pc = "loop" /\ pc' = "done" /\ intern_table' = {} /\ UNCHANGED <<out, i>>
        /\ refs' = [o \in Objects |-> refs[o] - IF o \in intern_table THEN 2 ELSE 0]
    BY <1>9, Zenon DEF Return, loopVars
  <2>2. refs' \in [Objects -> Int]
    BY <2>1 DEF References
  <2>3. \A o : CellsOf(o)' = CellsOf(o)
    BY <2>1, Zenon DEF CellsOf, Occurrences
  <2>4. ASSUME out.dtype = "object", NEW o \in Objects
        PROVE  refs'[o] = CellsOf(o)
    <3>1. refs[o] = CellsOf(o) + IF o \in intern_table THEN 2 ELSE 0
      BY <2>1, <2>4, Zenon DEF References
    <3>2. CellsOf(o) \in Int
      <4>1. refs[o] \in Int /\ i \in Nat
        BY ColumnParts, <2>1 DEF References, Position
      <4>2. IsFiniteSet(1..i)
        BY <4>1, FS_Interval
      <4>3. IsFiniteSet(Occurrences(out.cells, i, o))
        BY <4>2, FS_Subset, Zenon DEF Occurrences
      <4> QED BY <4>3, FS_CardinalityType DEF CellsOf
    <3> QED BY <2>1, <3>1, <3>2
  <2>5. CASE out.dtype # "object"
    BY <1>1, <2>1, <2>2, <2>5 DEF References
  <2>6. CASE out.dtype = "object"
    <3>1. \A o \in Objects : refs'[o] = CellsOf(o)' + IF o \in intern_table' THEN 2 ELSE 0
      <4> SUFFICES ASSUME NEW o \in Objects PROVE refs'[o] = CellsOf(o)' + 0
        BY <2>1, Zenon
      <4> QED BY <2>2, <2>3, <2>4, <2>6
    <3> QED BY <1>1, <2>1, <2>2, <2>6, <3>1, Zenon DEF References
  <2> QED BY <2>5, <2>6, Zenon
<1>10. CASE UNCHANGED vars
  BY <1>10, Zenon DEF vars, References, pyVars, loopVars, CellsOf, Occurrences, Objects
<1> QED BY <1>2, <1>3, <1>4, <1>5, <1>6, <1>7, <1>8, <1>9, <1>10, ZenonT(30) DEF Next

\* At the end the loops have read every row and filled the array.
LEMMA DoneIsFull ==
  ASSUME ColumnType, Position, pc = "done"
  PROVE  /\ i = Len(Cells) /\ i \in Nat /\ Len(out.cells) = i
         /\ out.dtype = ArrayType
<1>1. total_length = Len(Cells) /\ chunk = Len(column) /\ j = 0 /\ i = Len(Before(chunk)) + j
  BY Zenon DEF Position
<1>2. Before(chunk) = Cells /\ Len(Cells) \in Nat
  BY <1>1, ColumnParts
<1>3. out.cells = [k \in 1..total_length |-> out.cells[k]] /\ out.dtype = ArrayType
  BY DEF Position
<1> QED BY <1>1, <1>2, <1>3, LenOfFunction

(***************************************************************************)
(* ConvertString and ConvertBoolean count references exactly: the array    *)
(* that is returned owns one for each of its cells, and no object has any  *)
(* other; for every column, and whatever Column::IsNull answers.           *)
(***************************************************************************)
THEOREM ReferencesAreExact == Spec => []RefsMatchCells
<1> DEFINE Inv == ColumnType /\ Position /\ References
<1>1. Init => Inv
  BY ColumnInit, Zenon
<1>2. Inv /\ [Next]_vars => Inv'
  BY TypeStep, PositionStep, ReferencesStep
<1>3. Inv => RefsMatchCells
  <2> SUFFICES ASSUME Inv, pc = "done", NEW o \in Objects
               PROVE  refs[o] = IF out.dtype = "object"
                                  THEN Cardinality({k \in 1..Len(out.cells) : out.cells[k] = o})
                                  ELSE 0
    BY Zenon DEF RefsMatchCells
  <2>1. CASE out.dtype # "object"
    BY <2>1, Zenon DEF References
  <2>2. CASE out.dtype = "object"
    <3>1. refs[o] = CellsOf(o) + 0 /\ refs[o] \in Int
      BY <2>2, Zenon DEF References
    <3>2. CellsOf(o) = Cardinality({k \in 1..Len(out.cells) : out.cells[k] = o})
      BY DoneIsFull, Zenon DEF CellsOf, Occurrences
    <3>3. i \in Nat
      BY DoneIsFull, Zenon
    <3>4. IsFiniteSet(Occurrences(out.cells, i, o))
      <4>1. IsFiniteSet(1..i)
        BY <3>3, FS_Interval
      <4> QED BY <4>1, FS_Subset, Zenon DEF Occurrences
    <3>5. CellsOf(o) \in Nat
      BY <3>4, FS_CardinalityType, Zenon DEF CellsOf
    <3> QED BY <2>2, <3>1, <3>2, <3>5
  <2> QED BY <2>1, <2>2, Zenon
<1> QED BY <1>1, <1>2, <1>3, PTL DEF Spec

-----------------------------------------------------------------------------
(***************************************************************************)
(* Integers as floats.                                                     *)
(***************************************************************************)
\* Powers of two.
LEMMA TwoToIs ==
  /\ TwoTo \in [0..IntBits -> Nat]
  /\ TwoTo[0] = 1
  /\ \A e \in 1..IntBits : TwoTo[e] = 2 * TwoTo[e - 1]
<1>0. IntBits \in Nat
  BY ConvertColumnAssumption, Zenon
<1> DEFINE X == Nat
           one == 1
           step == [k \in 1..IntBits |-> [x \in X |-> 2 * x]]
           P(f) == f = [e \in 0..IntBits |-> IF e = 0 THEN 1 ELSE 2 * f[e - 1]]
<1>1. one \in X /\ step \in [1..IntBits -> [X -> X]]
  OBVIOUS
<1>2. PICK f \in [0..IntBits -> X] : f[0] = one /\ \A k \in 1..IntBits : f[k] = step[k][f[k - 1]]
  <2> HIDE DEF step, one, X
  <2>1. HasSteps(X, one, IntBits, step)
    BY <1>0, <1>1, Recursion, Zenon
  <2> QED BY <2>1, Zenon DEF HasSteps
<1>3. ASSUME NEW k \in 1..IntBits PROVE f[k] = 2 * f[k - 1]
  <2>1. k - 1 \in 0..IntBits
    BY <1>0
  <2>2. step[k] = [x \in X |-> 2 * x] /\ f[k - 1] \in X
    BY <2>1, Zenon
  <2> QED BY <1>2, <2>2, Zenon
<1>4. P(f)
  <2>1. ASSUME NEW e \in 0..IntBits PROVE f[e] = IF e = 0 THEN 1 ELSE 2 * f[e - 1]
    <3>1. e = 0 \/ e \in 1..IntBits
      BY <1>0
    <3>2. 0 \notin 1..IntBits
      OBVIOUS
    <3> QED BY <1>2, <1>3, <3>1, <3>2, Zenon
  <2> QED BY <2>1, Zenon
<1>5. TwoTo = CHOOSE g : P(g)
  BY Zenon DEF TwoTo
<1>6. P(TwoTo)
  <2> HIDE DEF P
  <2> QED BY <1>4, <1>5, Zenon
<1> HIDE DEF TwoTo
<1>7. \A e \in 0..IntBits : TwoTo[e] = IF e = 0 THEN 1 ELSE 2 * TwoTo[e - 1]
  BY <1>6, Zenon
<1>8. TwoTo[0] = 1 /\ \A e \in 1..IntBits : TwoTo[e] = 2 * TwoTo[e - 1]
  BY <1>0, <1>7
<1> DEFINE S == {m \in Nat : m <= IntBits => TwoTo[m] \in Nat}
<1>9. 0 \in S
  BY <1>8
<1>10. ASSUME NEW m \in Nat, m \in S PROVE m + 1 \in S
  <2> SUFFICES ASSUME m + 1 <= IntBits PROVE TwoTo[m + 1] \in Nat
    OBVIOUS
  <2>1. m <= IntBits /\ m + 1 \in 1..IntBits /\ (m + 1) - 1 = m
    BY <1>0
  <2>2. TwoTo[m + 1] = 2 * TwoTo[m] /\ TwoTo[m] \in Nat
    BY <1>8, <1>10, <2>1, Zenon
  <2> QED BY <2>2
<1>11. Nat \subseteq S
  <2> HIDE DEF S
  <2> QED BY <1>9, <1>10, NatInd, Zenon
<1>12. TwoTo \in [0..IntBits -> Nat]
  <2>1. \A e \in 0..IntBits : TwoTo[e] \in Nat
    BY <1>0, <1>11
  <2>2. TwoTo = [e \in 0..IntBits |-> TwoTo[e]]
    BY <1>6, <1>7, Zenon
  <2> QED BY <2>1, <2>2, Zenon
<1> QED BY <1>8, <1>12, Zenon

\* Of two powers of two, the larger is a multiple of the smaller.
LEMMA TwoToDivides ==
  ASSUME NEW d \in Nat, NEW e \in 0..IntBits, e + d <= IntBits
  PROVE  \E k \in Nat \ {0} : TwoTo[e + d] = k * TwoTo[e]
<1> DEFINE S == {n \in Nat : e + n <= IntBits => \E k \in Nat \ {0} : TwoTo[e + n] = k * TwoTo[e]}
<1>0. IntBits \in Nat /\ TwoTo[e] \in Nat
  BY ConvertColumnAssumption, TwoToIs, Zenon
<1>1. 0 \in S
  <2>1. e + 0 = e /\ 1 \in Nat \ {0} /\ TwoTo[e] = 1 * TwoTo[e]
    BY <1>0
  <2> QED BY <2>1, Zenon
<1>2. ASSUME NEW n \in Nat, n \in S PROVE n + 1 \in S
  <2> SUFFICES ASSUME e + (n + 1) <= IntBits
               PROVE  \E k \in Nat \ {0} : TwoTo[e + (n + 1)] = k * TwoTo[e]
    OBVIOUS
  <2>1. e + n <= IntBits /\ e + (n + 1) \in 1..IntBits /\ (e + (n + 1)) - 1 = e + n
    BY <1>0
  <2>2. PICK k \in Nat \ {0} : TwoTo[e + n] = k * TwoTo[e]
    BY <1>2, <2>1, Zenon
  <2>3. TwoTo[e + (n + 1)] = 2 * (k * TwoTo[e])
    BY <2>1, <2>2, TwoToIs, Zenon
  <2>4. 2 * k \in Nat \ {0} /\ 2 * (k * TwoTo[e]) = (2 * k) * TwoTo[e]
    BY <1>0
  <2> QED BY <2>3, <2>4, Zenon
<1>3. Nat \subseteq S
  <2> HIDE DEF S
  <2> QED BY <1>1, <1>2, NatInd, Zenon
<1> QED BY <1>3, Zenon

\* What Units are to each other.
LEMMA UnitsCompare ==
  /\ 1 \in Units /\ Units \subseteq Nat \ {0}
  /\ \A u \in Units : \A w \in Units :
       \/ \E k \in Nat \ {0} : w = k * u
       \/ \E k \in Nat \ {0} : u = 2 * (k * w)
<1>0. IntBits \in Nat /\ 0 \in 0..IntBits /\ TwoTo[0] = 1
  BY ConvertColumnAssumption, TwoToIs
<1>1. \A e \in 0..IntBits : TwoTo[e] \in Nat \ {0}
  <2> SUFFICES ASSUME NEW e \in 0..IntBits PROVE TwoTo[e] \in Nat \ {0}
    OBVIOUS
  <2>1. e \in Nat /\ 0 + e = e /\ e <= IntBits
    BY <1>0
  <2>2. PICK k \in Nat \ {0} : TwoTo[e] = k * TwoTo[0]
    BY <1>0, <2>1, TwoToDivides, Zenon
  <2> QED BY <1>0, <2>2
<1>2. ASSUME NEW e \in 0..IntBits, NEW f \in 0..IntBits, e <= f
      PROVE  \E k \in Nat \ {0} : TwoTo[f] = k * TwoTo[e]
  <2>1. f - e \in Nat /\ e + (f - e) = f /\ f <= IntBits
    BY <1>0, <1>2
  <2> QED BY <2>1, TwoToDivides, Zenon
<1>3. ASSUME NEW e \in 0..IntBits, NEW f \in 0..IntBits, f < e
      PROVE  \E k \in Nat \ {0} : TwoTo[e] = 2 * (k * TwoTo[f])
  <2>1. e - 1 \in 0..IntBits /\ f <= e - 1 /\ e \in 1..IntBits
    BY <1>0, <1>3
  <2>2. PICK k \in Nat \ {0} : TwoTo[e - 1] = k * TwoTo[f]
    BY <1>2, <2>1, Zenon
  <2> QED BY <2>1, <2>2, TwoToIs, Zenon
<1>4. ASSUME NEW u \in Units, NEW w \in Units
      PROVE  \/ \E k \in Nat \ {0} : w = k * u
             \/ \E k \in Nat \ {0} : u = 2 * (k * w)
  <2>1. PICK e \in 0..IntBits : u = TwoTo[e]
    BY Zenon DEF Units
  <2>2. PICK f \in 0..IntBits : w = TwoTo[f]
    BY Zenon DEF Units
  <2>3. e <= f \/ f < e
    BY <1>0
  <2> QED BY <1>2, <1>3, <2>1, <2>2, <2>3, Zenon
<1> QED BY <1>0, <1>1, <1>4, Zenon DEF Units

\* The number of significands is even.
LEMMA PrecisionIs == \E h \in Nat \ {0} : Precision = 2 * h
<1>1. FloatBits \in 1..IntBits /\ FloatBits - 1 \in 0..IntBits
  BY ConvertColumnAssumption
<1>2. Precision = 2 * TwoTo[FloatBits - 1]
  BY <1>1, TwoToIs, Zenon DEF Precision
<1>3. TwoTo[FloatBits - 1] \in Nat \ {0}
  BY <1>1, UnitsCompare, Zenon DEF Units
<1> QED BY <1>2, <1>3, Zenon

\* Every integer that a column can hold has a unit.
LEMMA LastBitIs ==
  ASSUME NEW m \in 0..TwoTo[IntBits]
  PROVE  /\ LastBit(m) \in Units
         /\ m < Precision * LastBit(m)
         /\ LastBit(m) = 1 \/ 2 * m >= Precision * LastBit(m)
<1> DEFINE T == {e \in 0..IntBits : m < Precision * TwoTo[e]}
           P(u) == m < Precision * u /\ (u = 1 \/ 2 * m >= Precision * u)
<1>0. IntBits \in Nat /\ IntBits \in 0..IntBits /\ TwoTo[IntBits] \in Nat \ {0}
  <2>1. IntBits \in Nat /\ IntBits \in 0..IntBits
    BY ConvertColumnAssumption
  <2> QED BY <2>1, UnitsCompare, Zenon DEF Units
<1>1. PICK h \in Nat \ {0} : Precision = 2 * h
  BY PrecisionIs, Zenon
<1>2. IntBits \in T
  <2>1. m < 2 * TwoTo[IntBits] /\ TwoTo[IntBits] <= h * TwoTo[IntBits]
    BY <1>0
  <2>2. m < (2 * h) * TwoTo[IntBits]
    BY <1>0, <2>1
  <2> QED BY <1>0, <1>1, <2>2, Zenon
<1>3. PICK e \in T : \A y \in T : e <= y
  <2>1. T \in SUBSET Nat /\ T # {}
    BY <1>0, <1>2
  <2> HIDE DEF T
  <2> QED BY <2>1, LeastNat, Zenon
<1>4. e \in 0..IntBits /\ m < Precision * TwoTo[e]
  BY <1>3, Zenon
<1>5. TwoTo[e] = 1 \/ 2 * m >= Precision * TwoTo[e]
  <2>1. CASE e = 0
    BY <2>1, TwoToIs, Zenon
  <2>2. CASE e # 0
    <3>1. e - 1 \in 0..IntBits /\ e \in 1..IntBits /\ ~ (e <= e - 1)
      BY <1>0, <1>4, <2>2
    <3>2. ~ (m < Precision * TwoTo[e - 1])
      BY <1>3, <3>1, Zenon
    <3>3. TwoTo[e] = 2 * TwoTo[e - 1] /\ TwoTo[e - 1] \in Nat
      BY <3>1, TwoToIs, Zenon
    <3>4. m >= Precision * TwoTo[e - 1]
      BY <1>1, <3>2, <3>3
    <3>5. Precision * (2 * TwoTo[e - 1]) = 2 * (Precision * TwoTo[e - 1])
      BY <1>1, <3>3
    <3>6. Precision * TwoTo[e - 1] \in Int
      BY <1>1, <3>3
    <3> QED BY <3>3, <3>4, <3>5, <3>6
  <2> QED BY <2>1, <2>2, Zenon
<1>6. \E u \in Units : P(u)
  BY <1>4, <1>5, Zenon DEF Units
<1>7. LastBit(m) = CHOOSE u \in Units : P(u)
  BY Zenon DEF LastBit
<1>8. LastBit(m) \in Units /\ P(LastBit(m))
  <2> HIDE DEF P
  <2> QED BY <1>6, <1>7, Zenon
<1> QED BY <1>8, Zenon

\* A larger factor gives a larger multiple.
LEMMA MultiplesGrow ==
  ASSUME NEW u \in Nat, NEW a \in Int, NEW b \in Int, a <= b
  PROVE  a * u \in Int /\ b * u \in Int /\ a * u <= b * u
OBVIOUS

\* x is a multiple of u that no other is nearer to m than.
NearestMultiple(x, m, u) ==
  /\ \E q \in Nat : x = q * u /\ (q = 0 \/ (q - 1) * u < m)
  /\ \A n \in Int : Distance(x, m) <= Distance(n * u, m)

\* Rounded does what its name says.
LEMMA RoundedIsNearest ==
  ASSUME NEW m \in Nat, NEW u \in Nat \ {0}
  PROVE  NearestMultiple(Rounded(m, u), m, u)
<1> DEFINE q == m \div u
           r == m % u
           low == q * u
           up == 2 * r > u \/ (2 * r = u /\ q % 2 = 1)
           x == (IF up THEN q + 1 ELSE q) * u
<1>1. q \in Nat /\ r \in 0..(u - 1) /\ m = low + r
  OBVIOUS
<1>2. Rounded(m, u) = x
  BY Zenon DEF Rounded
<1>3. low \in Int /\ (q + 1) * u = low + u
  BY <1>1
<1>4. x = IF up THEN low + u ELSE low
  BY <1>3, Zenon
<1>5. (up => 2 * r >= u) /\ (~ up => 2 * r <= u)
  BY <1>1
<1>6. \A n \in Int : n * u \in Int /\ (n * u <= low \/ n * u >= low + u)
  <2> SUFFICES ASSUME NEW n \in Int
               PROVE  n * u \in Int /\ (n * u <= low \/ n * u >= low + u)
    OBVIOUS
  <2>1. CASE n <= q
    BY <1>1, <2>1, MultiplesGrow
  <2>2. CASE q + 1 <= n
    BY <1>1, <1>3, <2>2, MultiplesGrow
  <2> QED BY <1>1, <2>1, <2>2
<1>7. \E k \in Nat : x = k * u /\ (k = 0 \/ (k - 1) * u < m)
  <2>1. CASE up
    <3>1. q + 1 \in Nat /\ (q + 1) - 1 = q /\ low < m
      <4> HIDE DEF q, r, low
      <4> QED BY <1>1, <1>3, <1>5, <2>1
    <3> QED BY <2>1, <3>1, Zenon
  <2>2. CASE ~ up
    <3>1. q = 0 \/ (q - 1) * u < m
      <4>1. (q - 1) * u = low - u
        BY <1>1
      <4> HIDE DEF q, r, low
      <4> QED BY <1>1, <1>3, <4>1
    <3> QED BY <1>1, <2>2, <3>1, Zenon
  <2> QED BY <2>1, <2>2, Zenon
<1>8. ASSUME NEW n \in Int PROVE Distance(x, m) <= Distance(n * u, m)
  <2> DEFINE y == n * u
  <2>1. y \in Int /\ (y <= low \/ y >= low + u)
    BY <1>6, Zenon
  <2> HIDE DEF q, r, low, up, x, y
  <2>2. r <= Distance(y, m) \/ u - r <= Distance(y, m)
    BY <1>1, <1>3, <2>1 DEF Distance
  <2>3. Distance(x, m) <= r /\ Distance(x, m) <= u - r
    BY <1>1, <1>3, <1>4, <1>5 DEF Distance
  <2>4. Distance(x, m) \in Int /\ Distance(y, m) \in Int
    BY <1>1, <1>3, <1>4, <2>1 DEF Distance
  <2>5. Distance(x, m) <= Distance(y, m)
    BY <1>1, <2>2, <2>3, <2>4
  <2> QED BY <2>5, Zenon DEF y
<1> QED BY <1>2, <1>7, <1>8, Zenon DEF NearestMultiple

\* What is a float.
LEMMA FloatIs ==
  ASSUME NEW s \in -Precision..Precision, NEW w \in Units
  PROVE  s * w \in FloatNumbers
<1> DEFINE Of(u) == {m * u : m \in -Precision..Precision}
<1>1. s * w \in Of(w)
  BY Zenon
<1>2. FloatNumbers = UNION {Of(u) : u \in Units}
  BY Zenon DEF FloatNumbers
<1> HIDE DEF Of
<1> QED BY <1>1, <1>2, Zenon

\* Rounding a column's integer, without its sign, gives the nearest float.
LEMMA RoundedIsNearestFloat ==
  ASSUME NEW m \in 0..TwoTo[IntBits]
  PROVE  IsNearestFloat(Rounded(m, LastBit(m)), m)
<1> DEFINE u == LastBit(m)
           x == Rounded(m, u)
<1>1. m \in Nat
  <2>1. TwoTo[IntBits] \in Nat
    <3>1. IntBits \in 0..IntBits
      BY ConvertColumnAssumption
    <3> QED BY <3>1, TwoToIs, Zenon
  <2> QED BY <2>1
<1>2. u \in Units /\ m < Precision * u /\ (u = 1 \/ 2 * m >= Precision * u)
  BY LastBitIs, Zenon
<1> HIDE DEF u, x
<1>3. u \in Nat \ {0} /\ Units \subseteq Nat \ {0}
  BY <1>2, UnitsCompare, Zenon
<1>4. PICK h \in Nat \ {0} : Precision = 2 * h
  BY PrecisionIs, Zenon
<1>5. Precision \in Nat /\ Precision * u \in Nat
  BY <1>3, <1>4
<1>6. NearestMultiple(x, m, u)
  BY <1>1, <1>3, RoundedIsNearest, Zenon DEF x
<1>7. PICK q \in Nat : x = q * u /\ (q = 0 \/ (q - 1) * u < m)
  BY <1>6, Zenon DEF NearestMultiple
<1>8. x \in Int
  BY <1>3, <1>7
<1>9. \A n \in Int : Distance(x, m) <= Distance(n * u, m)
  BY <1>6, Zenon DEF NearestMultiple
<1>10. x \in FloatNumbers
  <2>1. q <= Precision
    <3> SUFFICES ASSUME q # 0, Precision <= q - 1 PROVE FALSE
      BY <1>5
    <3>1. (q - 1) * u < m /\ (q - 1) * u \in Int
      BY <1>3, <1>7
    <3>2. Precision * u <= (q - 1) * u
      BY <1>3, <1>5, MultiplesGrow
    <3> QED BY <1>1, <1>2, <1>5, <3>1, <3>2
  <2>2. q \in -Precision..Precision
    BY <1>5, <2>1
  <2> QED BY <1>2, <1>7, <2>2, FloatIs, Zenon
<1>11. ASSUME NEW y \in FloatNumbers PROVE Distance(x, m) <= Distance(y, m)
  <2>1. PICK w \in Units, s \in -Precision..Precision : y = s * w
    BY Zenon DEF FloatNumbers
  <2>2. s \in Int /\ s <= Precision /\ w \in Nat \ {0}
    BY <1>3, <1>5
  <2>3. CASE \E k \in Nat \ {0} : w = k * u
    <3>1. PICK k \in Nat \ {0} : w = k * u
      BY <2>3, Zenon
    <3>2. s * k \in Int /\ s * (k * u) = (s * k) * u
      BY <1>3, <2>2
    <3> QED BY <1>9, <2>1, <3>1, <3>2, Zenon
  <2>4. CASE \E k \in Nat \ {0} : u = 2 * (k * w)
    <3>1. PICK k \in Nat \ {0} : u = 2 * (k * w)
      BY <2>4, Zenon
    <3>2. u # 1 /\ w <= k * w /\ k * w \in Nat
      BY <2>2, <3>1
    <3>3. h * u \in Int /\ h * u <= m
      <4>1. h * u \in Int /\ (2 * h) * u = 2 * (h * u)
        BY <1>3
      <4> QED BY <1>1, <1>2, <1>4, <3>2, <4>1
    <3>4. s * w <= Precision * w /\ s * w \in Int /\ Precision * w \in Int
      BY <1>5, <2>2, MultiplesGrow
    <3>5. Precision * w <= h * u
      <4>1. h * u = (2 * h) * (k * w)
        <5>1. h * (2 * (k * w)) = (2 * h) * (k * w)
          BY <3>2
        <5> QED BY <3>1, <5>1, Zenon
      <4>2. w * (2 * h) <= (k * w) * (2 * h)
        BY <2>2, <3>2, MultiplesGrow
      <4>3. w * (2 * h) = (2 * h) * w /\ (k * w) * (2 * h) = (2 * h) * (k * w)
        BY <2>2, <3>2
      <4> QED BY <1>4, <4>1, <4>2, <4>3, Zenon
    <3>6. y \in Int /\ y <= h * u
      BY <2>1, <3>3, <3>4, <3>5
    <3>7. Distance(h * u, m) <= Distance(y, m)
      BY <1>1, <3>3, <3>6 DEF Distance
    <3>8. Distance(x, m) <= Distance(h * u, m)
      <4>1. h \in Int
        OBVIOUS
      <4> QED BY <1>9, <4>1, Zenon
    <3>9. {Distance(h * u, m), Distance(y, m), Distance(x, m)} \subseteq Int
      BY <1>1, <1>8, <3>3, <3>6 DEF Distance
    <3> QED BY <3>7, <3>8, <3>9
  <2> QED BY <1>2, <2>1, <2>3, <2>4, UnitsCompare, Zenon
<1> QED BY <1>10, <1>11, Zenon DEF IsNearestFloat, x, u

\* So does ToFloat, with the sign.
LEMMA ToFloatIsNearest ==
  ASSUME NEW v \in Ints
  PROVE  IsNearestFloat(ToFloat(v), v)
<1>1. TwoTo[IntBits] \in Nat /\ v \in Int /\ v \in -TwoTo[IntBits]..TwoTo[IntBits]
  <2>1. IntBits \in 0..IntBits
    BY ConvertColumnAssumption
  <2>2. TwoTo[IntBits] \in Nat
    BY <2>1, TwoToIs, Zenon
  <2>3. v \in -TwoTo[IntBits]..TwoTo[IntBits]
    BY ConvertColumnAssumption, Zenon
  <2> QED BY <2>2, <2>3
<1>2. CASE v >= 0
  <2>1. v \in 0..TwoTo[IntBits]
    BY <1>1, <1>2
  <2> QED BY <1>2, <2>1, RoundedIsNearestFloat, Zenon DEF ToFloat
<1>3. CASE ~ (v >= 0)
  <2> DEFINE x == Rounded(-v, LastBit(-v))
  <2>1. -v \in 0..TwoTo[IntBits]
    BY <1>1, <1>3
  <2>2. IsNearestFloat(x, -v)
    BY <2>1, RoundedIsNearestFloat, Zenon
  <2> HIDE DEF x
  <2>3. x \in FloatNumbers /\ \A y \in FloatNumbers : Distance(x, -v) <= Distance(y, -v)
    BY <2>2, Zenon DEF IsNearestFloat
  <2>4. ASSUME NEW y \in FloatNumbers PROVE y \in Int /\ -y \in FloatNumbers
    <3>1. PICK w \in Units, s \in -Precision..Precision : y = s * w
      BY Zenon DEF FloatNumbers
    <3>2. w \in Nat /\ Precision \in Nat
      BY UnitsCompare, PrecisionIs
    <3>3. y \in Int /\ -s \in -Precision..Precision /\ -y = (-s) * w
      BY <3>1, <3>2
    <3> QED BY <3>3, FloatIs, Zenon
  <2>5. x \in Int /\ -x \in FloatNumbers
    BY <2>3, <2>4, Zenon
  <2>6. ASSUME NEW a \in Int PROVE Distance(-a, v) = Distance(a, -v)
    BY <1>1 DEF Distance
  <2>7. ASSUME NEW y \in FloatNumbers PROVE Distance(-x, v) <= Distance(y, v)
    <3>1. y \in Int /\ -y \in FloatNumbers
      BY <2>4, Zenon
    <3>2. -y \in Int /\ -(-y) = y
      BY <3>1
    <3>3. Distance(y, v) = Distance(-y, -v)
      BY <2>6, <3>2, Zenon
    <3> QED BY <2>3, <2>5, <2>6, <3>1, <3>3, Zenon
  <2>8. ToFloat(v) = -x
    BY <1>3, Zenon DEF ToFloat, x
  <2> QED BY <2>5, <2>7, <2>8, Zenon DEF IsNearestFloat
<1> QED BY <1>2, <1>3, Zenon

-----------------------------------------------------------------------------
(***************************************************************************)
(* What the array holds, for a server that does not trim its bitmaps.      *)
(***************************************************************************)
\* Each step keeps the cells that were written right.
LEMMA ContentsStep ==
  ASSUME ~TrimsBitmaps, ColumnType, Position, Contents, [Next]_vars
  PROVE  Contents'
<1>1. UNCHANGED <<kind, column>> /\ Cells' = Cells /\ HasNull' = HasNull
  BY ColumnStays, ZenonT(40) DEF Cells, Joined, HasNull
<1>2. ASSUME InChunk
      PROVE  /\ i \in Nat /\ i + 1 \in 1..Len(Cells)
             /\ \A null \in GetBit(Nulls(column[chunk + 1]), j) : null <=> Cells[i + 1] = Null
  <2>1. pc = "loop" /\ chunk < Len(column) /\ j < Len(column[chunk + 1])
    BY <1>2, Zenon DEF InChunk
  <2>2. chunk \in 0..Len(column) /\ j \in Nat /\ i = Len(Before(chunk)) + j
    BY <2>1, Zenon DEF Position
  <2>3. chunk \in 0..(Len(column) - 1)
    BY <2>1, <2>2, ColumnParts
  <2>4. column[chunk + 1] \in Seq(CellValues) /\ Before(chunk) \in Seq(CellValues)
    BY <2>2, <2>3, ColumnParts, Zenon
  <2>5. j \in 0..(Len(column[chunk + 1]) - 1) /\ j + 1 \in 1..Len(column[chunk + 1])
    BY <2>1, <2>2, <2>4
  <2>6. \A null \in GetBit(Nulls(column[chunk + 1]), j) : null <=> column[chunk + 1][j + 1] = Null
    BY <2>4, <2>5, UntrimmedIsExact, Zenon
  <2>7. /\ Len(Before(chunk)) + (j + 1) \in 1..Len(Cells)
        /\ Cells[Len(Before(chunk)) + (j + 1)] = column[chunk + 1][j + 1]
    BY <2>3, <2>5, ColumnParts, Zenon
  <2>8. i \in Nat /\ i + 1 = Len(Before(chunk)) + (j + 1)
    BY <2>2, <2>4
  <2> QED BY <2>6, <2>7, <2>8, Zenon
<1>3. CASE Dispatch
  BY <1>1, <1>3, Zenon DEF Dispatch, Contents
<1>4. CASE Alloc
  BY <1>1, <1>4 DEF Alloc, Contents
<1>5. CASE AllocFails
  BY <1>1, <1>5, Zenon DEF AllocFails, Contents
<1>6. CASE Cell
  <2>1. PICK null \in BOOLEAN :
          /\ null \in GetBit(Nulls(column[chunk + 1]), j)
          /\ ~StopsAt(null)
          /\ Store(null, Cells[i + 1])
    BY <1>6, CellStores, Zenon
  <2>2. InChunk /\ pc = "loop" /\ i' = i + 1 /\ UNCHANGED <<pc, have_null>>
    BY <1>6, Zenon DEF Cell, InChunk
  <2>3. i \in Nat /\ (null <=> Cells[i + 1] = Null)
    BY <1>2, <2>1, <2>2, Zenon
  <2>4. /\ \A k \in 1..i : out'.cells[k] = out.cells[k]
        /\ out'.cells[i + 1] = StoredCell(null, Cells[i + 1])
    <3>1. \A k \in 1..i' : out'.cells[k] = IF k = i + 1 THEN StoredCell(null, Cells[i + 1]) ELSE out.cells[k]
      BY <1>6, <2>1, CellStores, Zenon
    <3> QED BY <2>2, <2>3, <3>1
  <2>5. \A k : CellRight(k)' <=>
          out'.cells[k] = IF Cells[k] = Null THEN NullValue
                          ELSE IF kind = "integer" /\ have_null THEN ToFloat(Cells[k])
                          ELSE Cells[k]
    BY <1>1, <2>2, Zenon DEF CellRight, NullValue
  <2>6. Optimistic' <=> Optimistic
    BY <1>1, <2>2, Zenon DEF Optimistic
  <2>7. ASSUME NEW k \in 1..i
        PROVE  CellRight(k)' /\ (Optimistic' => Cells[k] # Null)
    <3>1. CellRight(k) /\ (Optimistic => Cells[k] # Null)
      BY <2>2, Zenon DEF Contents
    <3> QED BY <2>4, <2>5, <2>6, <3>1 DEF CellRight
  <2>8. ASSUME NEW k, k = i + 1
        PROVE  CellRight(k)' /\ (Optimistic' => Cells[k] # Null)
    <3>1. Optimistic => Cells[i + 1] # Null
      BY <2>1, <2>3, Zenon DEF StopsAt
    <3>2. StoredCell(null, Cells[i + 1]) =
            IF Cells[i + 1] = Null THEN NullValue
            ELSE IF kind = "integer" /\ have_null THEN ToFloat(Cells[i + 1])
            ELSE Cells[i + 1]
      BY <2>3, Zenon DEF StoredCell
    <3> QED BY <2>4, <2>5, <2>6, <2>8, <3>1, <3>2, Zenon
  <2>9. \A k \in 1..i' : CellRight(k)' /\ (Optimistic' => Cells[k] # Null)
    <3> SUFFICES ASSUME NEW k \in 1..i' PROVE CellRight(k)' /\ (Optimistic' => Cells[k] # Null)
      BY Zenon
    <3>1. k \in 1..i \/ k = i + 1
      BY <2>2, <2>3
    <3> QED BY <2>7, <2>8, <3>1, Zenon
  <2> QED BY <1>1, <2>2, <2>9, Zenon DEF Contents
<1>7. CASE FoundNull
  <2>1. PICK null \in GetBit(Nulls(column[chunk + 1]), j) : StopsAt(null)
    BY <1>7, Zenon DEF FoundNull
  <2>2. InChunk /\ pc' = "alloc"
    BY <1>7, Zenon DEF FoundNull
  <2>3. kind \in {"integer", "boolean"} /\ null
    BY <2>1, Zenon DEF StopsAt, Optimistic
  <2>4. HasNull
    BY <1>2, <2>1, <2>2, <2>3, Zenon DEF HasNull
  <2> QED BY <1>1, <2>2, <2>3, <2>4 DEF Contents
<1>8. CASE StringFails
  BY <1>1, <1>8, Zenon DEF StringFails, Contents
<1>9. CASE NextChunk
  BY <1>1, <1>9, Zenon DEF NextChunk, Contents, CellRight, NullValue, Optimistic
<1>10. CASE Return
  BY <1>1, <1>10, Zenon DEF Return, Contents, CellRight, NullValue, Optimistic, loopVars
<1>11. CASE UNCHANGED vars
  BY <1>1, <1>11, Zenon DEF vars, Contents, CellRight, NullValue, Optimistic, loopVars
<1> QED BY <1>3, <1>4, <1>5, <1>6, <1>7, <1>8, <1>9, <1>10, <1>11, ZenonT(30) DEF Next

(***************************************************************************)
(* A server that sends whole bitmaps gets its columns converted right:     *)
(* every row of every batch, in order, nulls and only nulls as NaN or      *)
(* None, and the type of the array admits nulls only when there is one,    *)
(* although ConvertInteger and ConvertBoolean start over at the first.     *)
(* The integers of a column with a null are the nearest floats, for any    *)
(* width of integers and floats.                                           *)
(***************************************************************************)
THEOREM ConversionIsRight == ~TrimsBitmaps => (Spec => []ConvertedRight)
<1> SUFFICES ASSUME ~TrimsBitmaps PROVE Spec => []ConvertedRight
  BY Zenon
<1> DEFINE Inv == ColumnType /\ Position /\ Contents
<1>1. Init => Inv
  BY ColumnInit, Zenon
<1>2. Inv /\ [Next]_vars => Inv'
  BY TypeStep, PositionStep, ContentsStep, Zenon
<1>3. Inv => ConvertedRight
  <2> SUFFICES ASSUME Inv, pc = "done" PROVE ConvertedRight
    BY Zenon DEF ConvertedRight
  <2>1. i = Len(Cells) /\ i \in Nat /\ Len(out.cells) = i /\ out.dtype = ArrayType
    BY DoneIsFull, Zenon
  <2>2. \A k \in 1..i : CellRight(k) /\ (Optimistic => Cells[k] # Null)
    BY Zenon DEF Contents
  <2>3. have_null => HasNull /\ kind \in {"integer", "boolean"}
    BY Zenon DEF Contents
  <2>4. have_null \in BOOLEAN /\ kind \in Kinds \ {"unsupported"}
    BY Zenon DEF ColumnType
  <2>5. Optimistic => ~HasNull
    BY <2>1, <2>2, Zenon DEF HasNull
  <2>6. ASSUME NEW k \in 1..Len(Cells)
        PROVE  IF Cells[k] = Null THEN out.cells[k] = NullValue
               ELSE IF kind = "integer" /\ HasNull THEN IsNearestFloat(out.cells[k], Cells[k])
               ELSE out.cells[k] = Cells[k]
    <3>1. CellRight(k)
      BY <2>1, <2>2, Zenon
    <3>2. kind = "integer" => (have_null <=> HasNull)
      BY <2>3, <2>5, Zenon DEF Optimistic
    <3>3. CASE ~(kind = "integer" /\ have_null) \/ Cells[k] = Null
      BY <3>1, <3>2, <3>3, Zenon DEF CellRight
    <3>4. CASE kind = "integer" /\ have_null /\ Cells[k] # Null
      <4>1. Cells[k] \in Ints
        <5>1. Cells[k] \in CellValues
          BY ColumnParts
        <5> QED BY <3>4, <5>1, Zenon DEF CellValues, ValuesOf
      <4>2. out.cells[k] = ToFloat(Cells[k])
        BY <3>1, <3>4, Zenon DEF CellRight
      <4>3. IsNearestFloat(ToFloat(Cells[k]), Cells[k])
        BY <4>1, ToFloatIsNearest, Zenon
      <4> QED BY <2>3, <3>4, <4>2, <4>3, Zenon
    <3> QED BY <3>3, <3>4, Zenon
  <2>7. kind = "integer" => (out.dtype = "double" <=> HasNull)
    BY <2>1, <2>3, <2>4, <2>5 DEF ArrayType, Optimistic
  <2>8. kind = "boolean" => (out.dtype = "object" <=> HasNull)
    BY <2>1, <2>3, <2>4, <2>5, Zenon DEF ArrayType, Optimistic
  <2> QED BY <2>1, <2>6, <2>7, <2>8, Zenon DEF ConvertedRight
<1> QED BY <1>1, <1>2, <1>3, PTL DEF Spec
=============================================================================
