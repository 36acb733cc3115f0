--------------------------- MODULE ConvertColumn ---------------------------
(***************************************************************************)
(* One column of a result set becomes a NumPy array (converters.h).  The   *)
(* column arrives in chunks, one per fetched batch, each with its values   *)
(* and a bitmap of its nulls.  Integers and booleans are first written to  *)
(* an array that cannot hold nulls; at the first null that array is        *)
(* dropped and the column is written again, from its beginning, to one     *)
(* that can.  Integers lose bits on the way to that array of doubles:      *)
(* NAN is a float, so that "GetBit(nulls, j) ? NAN : col_data[j]" is one.  *)
(* Strings are interned: equal cells share one Python object, whose        *)
(* references the converter counts by hand.                                *)
(*                                                                         *)
(* One step is one iteration of an inner loop.  chunk and j count from 0,  *)
(* as in the code, and i is the number of cells written.                   *)
(***************************************************************************)
EXTENDS Integers, Sequences, FiniteSets, FiniteSetsExt

CONSTANTS
  Ints, Floats, Strings,  \* the values of the cells, by kind of column
  MaxChunks, MaxLength,   \* bounds: batches, and rows in a batch
  ByteBits,               \* bits in a byte of the bitmap; 8 in the code
  FloatBits,              \* bits of the significand of a float; 24
  IntBits,                \* bits of the widest integers, without sign; 63
  TrimsBitmaps,           \* the server drops trailing zero bytes (HUE-2722)
  Null, NaN, None, Unset  \* a null cell, its two forms in an array, no value

\* Powers of two.
TwoTo[e \in 0..IntBits] == IF e = 0 THEN 1 ELSE 2 * TwoTo[e - 1]

ASSUME ConvertColumnAssumption ==
  /\ MaxChunks \in Nat /\ MaxLength \in Nat
  /\ ByteBits \in Nat \ {0}
  /\ IntBits \in Nat /\ FloatBits \in 1..IntBits
  /\ Ints \subseteq -TwoTo[IntBits]..TwoTo[IntBits]
  /\ TrimsBitmaps \in BOOLEAN

Kinds == {"integer", "boolean", "float", "string", "unsupported"}

ValuesOf(k) ==
  CASE k = "integer" -> Ints
    [] k = "boolean" -> BOOLEAN
    [] k = "float"   -> Floats
    [] k = "string"  -> Strings
    [] OTHER         -> {}

SeqsUpTo(length, V) == UNION {[1..k -> V] : k \in 0..length}

Chunks(k) == SeqsUpTo(MaxLength, ValuesOf(k) \cup {Null})

VARIABLES
  kind,          \* which function ConvertColumnPandas dispatches to
  column,        \* the column: a sequence of chunks of cells
  pc,            \* "start", "alloc", "loop", "done" or "raised"
  have_null,     \* the second pass of ConvertInteger or ConvertBoolean
  total_length,
  out,           \* the array: its type and its cells
  chunk, j, i,   \* the loop counters
  intern_table,  \* the strings in the intern table
  refs           \* references to each Python object that the code has taken

loopVars == <<chunk, j, i>>
pyVars == <<intern_table, refs>>
vars == <<kind, column, pc, have_null, total_length, out, loopVars, pyVars>>

Objects == Strings \cup BOOLEAN \cup {None}

NoArray == [dtype |-> "none", cells |-> <<>>]

Init ==
  /\ kind \in Kinds
  /\ column \in SeqsUpTo(MaxChunks, Chunks(kind))
  /\ pc = "start"
  /\ have_null = FALSE
  /\ total_length = 0
  /\ out = NoArray
  /\ chunk = 0 /\ j = 0 /\ i = 0
  /\ intern_table = {}
  /\ refs = [o \in Objects |-> 0]

-----------------------------------------------------------------------------
(***************************************************************************)
(* The server's null bitmap of a chunk: a sequence of bytes, each the set  *)
(* of its bits that are 1.                                                 *)
(***************************************************************************)
FullBitmap(cells) ==
  [b \in 1..((Len(cells) + ByteBits - 1) \div ByteBits) |->
     {k \in 0..(ByteBits - 1) :
        LET row == (b - 1) * ByteBits + k + 1
        IN  row <= Len(cells) /\ cells[row] = Null}]

Nulls(cells) ==
  LET full == FullBitmap(cells)
      used == {b \in 1..Len(full) : full[b] # {}}
  IN  IF TrimsBitmaps THEN SubSeq(full, 1, Max(used \cup {0})) ELSE full

\* Mutant of GetBit: the bits of a byte are counted from the other end.
GetBitReversed(bits, r) ==
  LET b == r \div ByteBits
  IN  IF b < Len(bits)
        THEN {(ByteBits - 1 - (r % ByteBits)) \in bits[b + 1]}
        ELSE {FALSE}

(***************************************************************************)
(* GetBit and Column::IsNull for row r, counted from 0: the answers the    *)
(* read can give.  The byte after the bitmap is the terminator of its      *)
(* c_str(), which is 0; bytes beyond that can hold anything.               *)
(***************************************************************************)
GetBit(bits, r) ==
  LET b == r \div ByteBits
  IN  {answer \in BOOLEAN :
         CASE b < Len(bits) -> answer <=> (r % ByteBits) \in bits[b + 1]
           [] b = Len(bits) -> ~answer
           [] OTHER         -> TRUE}

\* The sum of the lengths of the chunks.
GetColumns ==
  LET LengthOf[c \in 0..Len(column)] ==
        IF c = 0 THEN 0 ELSE LengthOf[c - 1] + Len(column[c])
  IN  LengthOf[Len(column)]

(***************************************************************************)
(* An integer becomes a float, and that a double: of an integer with more  *)
(* than FloatBits bits the multiple of the unit of its last bit that is    *)
(* nearest is kept, and of two that are equally near the even one.         *)
(***************************************************************************)
Precision == TwoTo[FloatBits]
Units == {TwoTo[e] : e \in 0..IntBits}

LastBit(m) ==
  CHOOSE u \in Units : m < Precision * u /\ (u = 1 \/ 2 * m >= Precision * u)

Rounded(m, u) ==
  LET q == m \div u
      r == m % u
      up == 2 * r > u \/ (2 * r = u /\ q % 2 = 1)
  IN  (IF up THEN q + 1 ELSE q) * u

ToFloat(v) == IF v >= 0 THEN Rounded(v, LastBit(v)) ELSE -Rounded(-v, LastBit(-v))

\* The first pass of these two writes to an array without room for nulls.
Optimistic == kind \in {"integer", "boolean"} /\ ~have_null

ArrayType ==
  CASE kind = "integer" -> IF have_null THEN "double" ELSE "int"
    [] kind = "boolean" -> IF have_null THEN "object" ELSE "bool"
    [] kind = "float"   -> "float"
    [] kind = "string"  -> "object"

NullValue == IF kind \in {"integer", "float"} THEN NaN ELSE None

-----------------------------------------------------------------------------
\* ConvertColumnPandas dispatches on the type and the columns are collected.
Dispatch ==
  /\ pc = "start"
  /\ pc' = IF kind = "unsupported" THEN "raised" ELSE "alloc"
  /\ total_length' = GetColumns
  /\ UNCHANGED <<kind, column, have_null, out, loopVars, pyVars>>

NewArray == [dtype |-> ArrayType, cells |-> [k \in 1..total_length |-> Unset]]

\* Mutant of Alloc: i goes on counting where the first pass stopped.
AllocKeepsI ==
  /\ pc = "alloc"
  /\ pc' = "loop"
  /\ out' = NewArray
  /\ chunk' = 0 /\ j' = 0 /\ UNCHANGED i
  /\ UNCHANGED <<kind, column, have_null, total_length, pyVars>>

\* PyArray_SimpleNew, whose cells are not initialised, and for a string column
\* PyDict_New; the loops start from the first chunk.
Alloc ==
  /\ pc = "alloc"
  /\ pc' = "loop"
  /\ out' = NewArray
  /\ chunk' = 0 /\ j' = 0 /\ i' = 0
  /\ UNCHANGED <<kind, column, have_null, total_length, pyVars>>

\* One of these allocations fails.  When it is PyDict_New, the array of
\* ConvertString is left behind.
AllocFails ==
  /\ pc = "alloc"
  /\ pc' = "raised"
  /\ out' \in {NoArray} \cup (IF kind = "string" THEN {NewArray} ELSE {})
  /\ UNCHANGED <<kind, column, have_null, total_length, loopVars, pyVars>>

\* Mutant of MakePyString: the reference for the array is not taken.
MakePyStringBorrowed(s) ==
  /\ intern_table' = intern_table \cup {s}
  /\ refs' = [refs EXCEPT ![s] = @ + IF s \in intern_table THEN 0 ELSE 3]

\* make_pystring: a new object has 1 reference and the table adds 2, as key and
\* as value; for a string in the table the new object is freed at once.
MakePyString(s) ==
  /\ intern_table' = intern_table \cup {s}
  /\ refs' = [refs EXCEPT ![s] = @ + IF s \in intern_table THEN 1 ELSE 3]

\* The cell stored for a row: raw for arrays of numbers, else a reference.
Store(null, v) ==
  LET cell == CASE null -> NullValue
                [] ~null /\ kind = "integer" /\ have_null -> ToFloat(v)
                [] OTHER -> v
  IN  /\ out' = [out EXCEPT !.cells[i + 1] = cell]
      /\ IF out.dtype # "object" THEN UNCHANGED pyVars
         ELSE IF ~null /\ kind = "string" THEN MakePyString(v)
         ELSE refs' = [refs EXCEPT ![cell] = @ + 1] /\ UNCHANGED intern_table

InChunk == pc = "loop" /\ chunk < Len(column) /\ j < Len(column[chunk + 1])

\* A null ends the first pass.
StopsAt(null) == Optimistic /\ null

\* An iteration of the inner loop that writes a cell.
Cell ==
  /\ InChunk
  /\ \E null \in GetBit(Nulls(column[chunk + 1]), j) :
       /\ ~StopsAt(null)
       /\ Store(null, column[chunk + 1][j + 1])
  /\ i' = i + 1
  /\ j' = j + 1
  /\ UNCHANGED <<kind, column, pc, have_null, total_length, chunk>>

\* The first null: both loops are left and the array is dropped.
FoundNull ==
  /\ InChunk
  /\ \E null \in GetBit(Nulls(column[chunk + 1]), j) : StopsAt(null)
  /\ have_null' = TRUE
  /\ pc' = "alloc"
  /\ out' = NoArray
  /\ UNCHANGED <<kind, column, total_length, loopVars, pyVars>>

\* make_pystring returns nullptr; neither the array nor the table is released.
StringFails ==
  /\ InChunk
  /\ kind = "string"
  /\ FALSE \in GetBit(Nulls(column[chunk + 1]), j)
  /\ pc' = "raised"
  /\ UNCHANGED <<kind, column, have_null, total_length, out, loopVars, pyVars>>

NextChunk ==
  /\ pc = "loop"
  /\ chunk < Len(column)
  /\ j = Len(column[chunk + 1])
  /\ chunk' = chunk + 1
  /\ j' = 0
  /\ UNCHANGED <<kind, column, pc, have_null, total_length, out, i, pyVars>>

\* The loops are over; ConvertString releases the intern table.
Return ==
  /\ pc = "loop"
  /\ chunk = Len(column)
  /\ pc' = "done"
  /\ intern_table' = {}
  /\ refs' = [o \in Objects |-> refs[o] - IF o \in intern_table THEN 2 ELSE 0]
  /\ UNCHANGED <<kind, column, have_null, total_length, out, loopVars>>

Next ==
  \/ Dispatch \/ Alloc \/ AllocFails
  \/ Cell \/ FoundNull \/ StringFails \/ NextChunk \/ Return

Spec == Init /\ [][Next]_vars /\ WF_vars(Next)

-----------------------------------------------------------------------------
(***************************************************************************)
(* What the array must be, said of the column as one sequence of cells.    *)
(***************************************************************************)
Joined[c \in 0..Len(column)] ==   \* the rows of the first c chunks
  IF c = 0 THEN <<>> ELSE Joined[c - 1] \o column[c]

Cells == Joined[Len(column)]

HasNull == \E k \in 1..Len(Cells) : Cells[k] = Null

\* The numbers of at most FloatBits bits, and those of them nearest to v.
FloatNumbers == UNION {{m * u : m \in -Precision..Precision} : u \in Units}

Distance(a, b) == IF a < b THEN b - a ELSE a - b

IsNearestFloat(x, v) ==
  x \in FloatNumbers /\ \A y \in FloatNumbers : Distance(x, v) <= Distance(y, v)

(***************************************************************************)
(* The array ConvertColumnPandas returns has one cell for every row of     *)
(* every batch, in order; nulls and only nulls are NaN or None.  Every     *)
(* other value is itself, except in an integer column with a null, where   *)
(* it is the nearest number that fits in a float: itself up to 2^24, and   *)
(* with more bits than that off by no more than half a unit of the last    *)
(* bit kept.  The type of the array admits nulls only when there is one.   *)
(***************************************************************************)
ConvertedRight ==
  pc = "done" =>
    /\ Len(out.cells) = Len(Cells)
    /\ \A k \in 1..Len(Cells) :
         IF Cells[k] = Null THEN out.cells[k] = NullValue
         ELSE IF kind = "integer" /\ HasNull THEN IsNearestFloat(out.cells[k], Cells[k])
         ELSE out.cells[k] = Cells[k]
    /\ kind = "integer" => (out.dtype = "double" <=> HasNull)
    /\ kind = "boolean" => (out.dtype = "object" <=> HasNull)

(***************************************************************************)
(* out_values[i++] stays inside the array: in both passes the cells still  *)
(* to be written are exactly the rows not yet read, over all chunks.       *)
(***************************************************************************)
RoomForTheRest ==
  pc = "loop" =>
    /\ Len(out.cells) = total_length
    /\ total_length - i = Len(Cells) - Len(Joined[chunk]) - j

(***************************************************************************)
(* ConvertString and ConvertBoolean return an array that owns one          *)
(* reference for each of its cells and leave no other behind: no object is *)
(* freed under the array, and none outlives it.                            *)
(***************************************************************************)
RefsMatchCells ==
  pc = "done" =>
    \A o \in Objects :
      refs[o] = IF out.dtype = "object"
                  THEN Cardinality({k \in 1..Len(out.cells) : out.cells[k] = o})
                  ELSE 0

(***************************************************************************)
(* Column::IsNull "returns true iff the value for the i-th row within this *)
(* set of data for this column is null", and GetBit does the same: the     *)
(* answer for the row a conversion has come to is always the right one.    *)
(***************************************************************************)
IsNullIsExact ==
  InChunk =>
    \A answer \in GetBit(Nulls(column[chunk + 1]), j) :
      answer <=> column[chunk + 1][j + 1] = Null
=============================================================================
