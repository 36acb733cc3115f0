----------------------------- MODULE PrintTable -----------------------------
(***************************************************************************)
(* The table that Util::PrintResults prints of one batch of rows (util.cc):*)
(* the widths of the columns, measured column by column and for integers   *)
(* digit by digit (NumSpaces), the header, and the rows.  Of a text only   *)
(* its length is kept.                                                     *)
(***************************************************************************)
EXTENDS Integers, Sequences, FiniteSets, FiniteSetsExt

CONSTANTS Descs,        \* descriptions of columns: length of the name, and type
          IntValues,    \* values of integer columns
          Lengths,      \* lengths of the values of other columns
          IntMax,       \* the largest value of NumSpaces' argument, 2^63 - 1 in the code
          MaxDepth,     \* the calls of NumSpaces that the stack has room for
          MaxDescs, NumRows   \* bounds: columns and rows

IntMin == -IntMax - 1
Types == {"BOOLEAN", "BIGINT", "STRING", "BINARY", "DOUBLE"}

NullSize == 4
TrueSize == 4
FalseSize == 5

ASSUME PrintAssumption ==
    /\ Descs \subseteq [name : Nat, type : Types]
    /\ IntValues \subseteq IntMin .. IntMax
    /\ Lengths \subseteq Nat
    /\ {IntMax, MaxDepth, MaxDescs, NumRows} \subseteq Nat

VARIABLES column_descs, \* the columns, as described
          data,         \* and their values, each [null, value]
          print_pc,     \* "columns", "digits", "header", "rows", "done", "crashed"
          col, row,     \* the column and row at hand
          max_size,     \* of the column at hand
          n, spaces,    \* NumSpaces: its argument, and one for each caller
          infos,        \* columns, of PrintInfo: the column of the data and its max_size
          table         \* the lines: for each cell, what it is and how wide

printVars == <<column_descs, data, print_pc, col, row, max_size, n, spaces, infos, table>>

Values(t) == IF t = "BIGINT" THEN IntValues ELSE IF t = "BOOLEAN" THEN {0, 1} ELSE Lengths
CellsOfType(t) == {[null |-> FALSE, value |-> v] : v \in Values(t)} \cup {[null |-> TRUE, value |-> 0]}

PrintInit ==
    /\ column_descs \in UNION {[1 .. k -> Descs] : k \in 1 .. MaxDescs}
    /\ data \in {d \in [DOMAIN column_descs -> [1 .. NumRows -> UNION {CellsOfType(t) : t \in Types}]] :
                   \A c \in DOMAIN d : \A r \in 1 .. NumRows : d[c][r] \in CellsOfType(column_descs[c].type)}
    /\ print_pc = "columns" /\ col = 1 /\ row = 0 /\ max_size = 0 /\ n = 0 /\ spaces = 0
    /\ infos = <<>> /\ table = <<>>

-----------------------------------------------------------------------------
(* The width of each column.                                               *)

type == column_descs[col].type
cell == data[col][row]
Wider(size) == max_size' = Max({max_size, size})

StartColumn ==
    /\ print_pc = "columns" /\ row = 0 /\ col <= Len(column_descs)
    /\ max_size' = IF type = "BOOLEAN" THEN Max({column_descs[col].name, TrueSize})
                   ELSE column_descs[col].name
    /\ row' = 1
    /\ UNCHANGED <<column_descs, data, print_pc, col, n, spaces, infos, table>>

\* Mutant of MeasureCell: NULL is not looked at.
MeasureCellNoNull ==
    /\ print_pc = "columns" /\ row \in 1 .. NumRows /\ col <= Len(column_descs)
    /\ type \in {"BIGINT", "STRING"}
    /\ IF cell.null
       THEN row' = row + 1 /\ UNCHANGED <<print_pc, n, spaces, max_size>>
       ELSE IF type = "BIGINT"
       THEN print_pc' = "digits" /\ n' = cell.value /\ spaces' = 0 /\ UNCHANGED <<row, max_size>>
       ELSE Wider(cell.value) /\ row' = row + 1 /\ UNCHANGED <<print_pc, n, spaces>>
    /\ UNCHANGED <<column_descs, data, col, infos, table>>

MeasureCell ==
    /\ print_pc = "columns" /\ row \in 1 .. NumRows /\ col <= Len(column_descs)
    /\ type \in {"BIGINT", "STRING"}
    /\ IF ~ cell.null /\ type = "BIGINT"
       THEN print_pc' = "digits" /\ n' = cell.value /\ spaces' = 0 /\ UNCHANGED <<row, max_size>>
       ELSE /\ Wider(IF cell.null THEN NullSize ELSE cell.value)
            /\ row' = row + 1 /\ UNCHANGED <<print_pc, n, spaces>>
    /\ UNCHANGED <<column_descs, data, col, infos, table>>

\* A boolean column ends at its first FALSE; binary and unknown ones are not looked at.
MeasureOther ==
    /\ print_pc = "columns" /\ row \in 1 .. NumRows /\ col <= Len(column_descs)
    /\ type \notin {"BIGINT", "STRING"}
    /\ IF type = "BOOLEAN" /\ ~ cell.null /\ cell.value = 0
       THEN Wider(FalseSize) /\ row' = NumRows + 1
       ELSE UNCHANGED max_size /\ row' = IF type = "BOOLEAN" THEN row + 1 ELSE NumRows + 1
    /\ UNCHANGED <<column_descs, data, print_pc, col, n, spaces, infos, table>>

\* The negation of the smallest integer is undefined: it is itself, or what it should be.
Negation(k) == IF k = IntMin THEN {k, -k} ELSE {-k}

\* One call of NumSpaces; a number below limit has one digit.
CallNumSpaces(limit) ==
    /\ print_pc = "digits"
    /\ IF spaces = MaxDepth
       THEN print_pc' = "crashed" /\ UNCHANGED <<n, spaces, row, max_size>>
       ELSE IF n >= 0 /\ n < limit
       THEN print_pc' = "columns" /\ Wider(spaces + 1) /\ row' = row + 1 /\ UNCHANGED <<n, spaces>>
       ELSE /\ n' \in IF n < 0 THEN Negation(n) ELSE {n \div 10}
            /\ spaces' = spaces + 1
            /\ UNCHANGED <<print_pc, row, max_size>>
    /\ UNCHANGED <<column_descs, data, col, infos, table>>

NumSpaces == CallNumSpaces(10)

\* A column of a type that is not recognised is not pushed.
EndColumn ==
    /\ print_pc = "columns" /\ row = NumRows + 1 /\ col <= Len(column_descs)
    /\ infos' = IF type = "DOUBLE" THEN infos
                  ELSE Append(infos, [from |-> col, max_size |-> max_size])
    /\ col' = col + 1 /\ row' = 0
    /\ UNCHANGED <<column_descs, data, print_pc, max_size, n, spaces, table>>

-----------------------------------------------------------------------------
(* The lines.                                                              *)

\* The text, and the blanks up to max_size.
Padded(size, k) == Max({size, infos[k].max_size})

Header ==
    /\ print_pc = "columns" /\ col > Len(column_descs)
    /\ table' = <<[k \in DOMAIN infos |->
                   [desc |-> k, from |-> infos[k].from, width |-> Padded(column_descs[k].name, k)]]>>
    /\ print_pc' = IF infos = <<>> THEN "crashed" ELSE "rows"
    /\ row' = 1
    /\ UNCHANGED <<column_descs, data, col, max_size, n, spaces, infos>>

TenTo[e \in 0 .. MaxDepth] == IF e = 0 THEN 1 ELSE 10 * TenTo[e - 1]

Abs(k) == IF k < 0 THEN -k ELSE k

\* The digits of a number that NumSpaces has measured.
Digits(k) == IF k = 0 THEN 1 ELSE Cardinality({e \in 0 .. MaxDepth : TenTo[e] <= Abs(k)})

\* The length of a value, printed as the type of the description.
TextSize(c, t) ==
    IF c.null THEN NullSize
    ELSE CASE t = "BOOLEAN" -> IF c.value = 0 THEN FalseSize ELSE TrueSize
           [] t = "BIGINT" -> Digits(c.value) + IF c.value < 0 THEN 1 ELSE 0
           [] OTHER -> c.value

UnrecognizedSize == 17

\* The lengths that the text of a value may have in row j: where the description is that of
\* another column, the value is cast to another class, which is undefined.
TextSizes(k) ==
    LET d == infos[k].from
        c == data[d][row]
        t == column_descs[k].type
    IN IF c.null THEN {NullSize}
       ELSE IF t = "DOUBLE" THEN {UnrecognizedSize}
       ELSE IF t = column_descs[d].type THEN {TextSize(c, t)} ELSE Lengths

Row ==
    /\ print_pc = "rows" /\ row <= NumRows
    /\ \E size \in [DOMAIN infos -> UNION {TextSizes(k) : k \in DOMAIN infos}] :
          /\ \A k \in DOMAIN infos : size[k] \in TextSizes(k)
          /\ table' = Append(table, [k \in DOMAIN infos |->
                       [desc |-> k, from |-> infos[k].from, width |-> Padded(size[k], k)]])
    /\ row' = row + 1
    /\ UNCHANGED <<column_descs, data, print_pc, col, max_size, n, spaces, infos>>

EndTable ==
    /\ print_pc = "rows" /\ row > NumRows
    /\ print_pc' = "done"
    /\ UNCHANGED <<column_descs, data, col, row, max_size, n, spaces, infos, table>>

PrintNext == \/ StartColumn \/ MeasureCell \/ MeasureOther \/ NumSpaces \/ EndColumn
        \/ Header \/ Row \/ EndTable

\* One thread, which nothing stops.
PrintSpec == PrintInit /\ [][PrintNext]_printVars /\ WF_printVars(PrintNext)

-----------------------------------------------------------------------------
(* Properties.                                                             *)

\* Every line is as wide as the header in every column, for NULL, negative numbers and
\* FALSE as well: the width that was measured is the width that is printed.
TableAligned ==
    \A l \in DOMAIN table : \A k \in DOMAIN infos :
        column_descs[infos[k].from].type # "BINARY" => table[l][k].width = infos[k].max_size

=============================================================================
