---------------------------- MODULE ResultSchema ----------------------------
(***************************************************************************)
(* The description of a result set, and the data frame that is made with   *)
(* it: Operation::GetResultSetMetadata and TTypeDescToColumnType in C++,   *)
(* and in ext.pyx the property schema, the classes Schema, ColumnDesc and  *)
(* ColumnType, whose objects point into memory that the Schema owns, and   *)
(* the loop over the columns in fetchall_pandas.                           *)
(*                                                                         *)
(* A Python object is freed as soon as nothing refers to it.               *)
(***************************************************************************)
EXTENDS Integers, Sequences, FiniteSets

CONSTANTS Columns,      \* descriptions of columns that the server may send
          MaxColumns    \* columns of a result set

(* A description: the name, the type, whether it is a single primitive one, *)
(* and whether it has the qualifiers that DECIMAL, CHAR and VARCHAR need.   *)
TypeIds == {"INT", "STRING", "TIMESTAMP", "DECIMAL", "CHAR", "VARCHAR", "DATE", "unknown"}
Description == [name : {"a", "b"}, type : TypeIds, primitive : BOOLEAN, qualified : BOOLEAN]

ASSUME SchemaAssumption == Columns \subseteq Description /\ MaxColumns \in Nat

VARIABLES server,       \* the columns as the server describes them
          columns,      \* Schema.columns: class and type_id of each column's type
          cached,       \* Operation.cached_metadata is set
          held,         \* the objects that the program holds
          freed,        \* the Schema and its columns are gone
          i,            \* the column that fetchall_pandas is at; 0 outside
          names,        \* column_names
          converted,    \* converted_columns, a dictionary
          frame,        \* the last data frame
          raised,       \* the last call raised an exception
          aborted       \* a DCHECK has failed

schemaVars == <<server, columns, cached, held, freed, i, names, converted, frame, raised, aborted>>

Op == <<"operation", 0>>
SchemaObject == <<"schema", 0>>
Desc(k) == <<"desc", k>>
Type(k) == <<"type", k>>

\* Mutant of Parent: a ColumnType does not keep its ColumnDesc.
ParentOfType(o) ==
    CASE o[1] = "desc" -> {SchemaObject}
      [] o[1] = "operation" /\ cached -> {SchemaObject}
      [] OTHER -> {}

\* The object that another one keeps alive by its attribute parent, or cached_metadata.
Parent(o) ==
    CASE o[1] = "type" -> {Desc(o[2])}
      [] o[1] = "desc" -> {SchemaObject}
      [] o[1] = "operation" /\ cached -> {SchemaObject}
      [] OTHER -> {}

Alive(holding) ==
    LET one == holding \cup UNION {Parent(o) : o \in holding}
    IN one \cup UNION {Parent(o) : o \in one}

SchemaInit ==
    /\ server \in UNION {[1 .. n -> Columns] : n \in 1 .. MaxColumns}
    /\ columns = <<>> /\ cached = FALSE /\ held = {Op} /\ freed = FALSE
    /\ i = 0 /\ names = <<>> /\ converted = <<>> /\ frame = <<>>
    /\ raised = FALSE /\ aborted = FALSE

Idle == ~ aborted /\ i = 0

-----------------------------------------------------------------------------
(* TTypeDescToColumnType.                                                  *)

Primitive(id) == [class |-> "PrimitiveType", id |-> id]
Invalid == Primitive("INVALID")

NeedsQualifiers(t) == t.primitive /\ t.type \in {"DECIMAL", "CHAR", "VARCHAR"}

\* Mutant of TTypeDescToColumnType: without qualifiers the type keeps its identifier.
TTypeDescToColumnTypeKeepsId(t) ==
    IF ~ t.primitive \/ t.type = "unknown" THEN Invalid
    ELSE IF NeedsQualifiers(t) /\ t.qualified
    THEN [class |-> IF t.type = "DECIMAL" THEN "DecimalType" ELSE "CharacterType", id |-> t.type]
    ELSE Primitive(t.type)

TTypeDescToColumnType(t) ==
    IF ~ t.primitive \/ t.type = "unknown" THEN Invalid
    ELSE IF ~ NeedsQualifiers(t) THEN Primitive(t.type)
    ELSE IF ~ t.qualified THEN Invalid
    ELSE [class |-> IF t.type = "DECIMAL" THEN "DecimalType" ELSE "CharacterType", id |-> t.type]

-----------------------------------------------------------------------------
(* The properties schema and type, and column().                           *)

\* Fetched once; an error leaves the property to be asked again.  Where DCHECK is compiled
\* in, a type without its qualifiers ends the process.
FillSchema ==
    IF cached
    THEN UNCHANGED <<columns, cached, aborted>> /\ raised' = FALSE
    ELSE \/ /\ raised' = TRUE
            /\ UNCHANGED <<columns, cached, aborted>>
         \/ /\ aborted' \in {FALSE, \E k \in DOMAIN server :
                                     NeedsQualifiers(server[k]) /\ ~ server[k].qualified}
            /\ columns' = [k \in DOMAIN server |-> TTypeDescToColumnType(server[k])]
            /\ cached' = TRUE
            /\ raised' = FALSE

GetSchema ==
    /\ Idle /\ Op \in held
    /\ FillSchema
    /\ held' = IF raised' THEN held ELSE held \cup {SchemaObject}
    /\ UNCHANGED <<server, freed, i, names, converted, frame>>

\* Schema.column, with one index too many and one too few.
GetColumn(k) ==
    /\ Idle /\ SchemaObject \in held
    /\ raised' = (k < 0 \/ k >= Len(columns))
    /\ held' = IF raised' THEN held ELSE held \cup {Desc(k)}
    /\ UNCHANGED <<server, columns, cached, freed, i, names, converted, frame, aborted>>

\* ColumnDesc.type: the class of the Python object, and of the C++ object that it reads.
PyClass(id) == IF id = "DECIMAL" THEN "DecimalType"
               ELSE IF id \in {"CHAR", "VARCHAR"} THEN "CharacterType" ELSE "PrimitiveType"

GetType(k) ==
    /\ Idle /\ Desc(k) \in held
    /\ held' = held \cup {Type(k)}
    /\ raised' = FALSE
    /\ UNCHANGED <<server, columns, cached, freed, i, names, converted, frame, aborted>>

\* The program lets an object go.
Drop(o) ==
    /\ Idle /\ o \in held
    /\ held' = held \ {o}
    /\ freed' = (freed \/ (columns # <<>> /\ SchemaObject \notin Alive(held')))
    /\ UNCHANGED <<server, columns, cached, i, names, converted, frame, raised, aborted>>

-----------------------------------------------------------------------------
(* fetchall_pandas, after the batches are fetched.                         *)

FetchAll ==
    /\ Idle /\ Op \in held
    /\ FillSchema
    /\ i' = IF raised' \/ aborted' THEN 0 ELSE 1
    /\ names' = <<>> /\ converted' = <<>>
    /\ UNCHANGED <<server, held, freed, frame>>

Converted(id) == CASE id = "TIMESTAMP" -> "datetime" [] id = "DECIMAL" -> "decimal" [] OTHER -> "array"

\* One turn of the loop.
ConvertColumn ==
    /\ i \in 1 .. Len(columns)
    /\ IF columns[i].id \in {"DATE", "INVALID"}
       THEN i' = 0 /\ raised' = TRUE /\ UNCHANGED <<names, converted>>
       ELSE /\ names' = Append(names, server[i].name)
            /\ converted' = [n \in DOMAIN converted \cup {server[i].name} |->
                               IF n = server[i].name
                               THEN [from |-> i, as |-> Converted(columns[i].id)]
                               ELSE converted[n]]
            /\ i' = i + 1
            /\ UNCHANGED raised
    /\ UNCHANGED <<server, columns, cached, held, freed, frame, aborted>>

\* pd.DataFrame(converted_columns, columns=column_names)
MakeFrame ==
    /\ i = Len(columns) + 1
    /\ frame' = [k \in DOMAIN names |-> converted[names[k]]]
    /\ i' = 0
    /\ UNCHANGED <<server, columns, cached, held, freed, names, converted, raised, aborted>>

SchemaNext ==
    \/ GetSchema \/ FetchAll \/ ConvertColumn \/ MakeFrame
    \/ \E k \in -1 .. MaxColumns : GetColumn(k)
    \/ \E k \in 0 .. MaxColumns - 1 : GetType(k)
    \/ \E o \in held : Drop(o)

SchemaSpec == SchemaInit /\ [][SchemaNext]_schemaVars

-----------------------------------------------------------------------------
(* Properties.                                                             *)

\* As long as the program holds a ColumnDesc or a ColumnType, the C++ column it points to
\* is there, whatever else was let go, the operation included (the parent attributes).
PointersAreGood ==
    freed => \A o \in held : o[1] \notin {"schema", "desc", "type"}

\* GetDecimalType and GetCharacterType cast by the identifier alone: every type with such
\* an identifier was made as an object of that class (TTypeDescToColumnType).
CastsAreGood ==
    \A k \in DOMAIN columns : columns[k].class = PyClass(columns[k].id)

\* The k-th column of a data frame holds the data of the last column with its name, in the
\* form that its type asks for; with distinct names that is its own (fetchall_pandas).
FrameHoldsLast ==
    frame # <<>> =>
        /\ Len(frame) = Len(server)
        /\ \A k \in DOMAIN frame :
             /\ frame[k].from >= k
             /\ server[frame[k].from].name = server[k].name
             /\ \A j \in frame[k].from + 1 .. Len(server) : server[j].name # server[k].name
             /\ frame[k].as = Converted(server[frame[k].from].type)

\* A data frame is never made of a result set with a type that is not supported, however
\* often the program asks.
FrameIsSupported ==
    frame # <<>> => \A k \in DOMAIN server :
        /\ server[k].primitive /\ server[k].type \notin {"DATE", "unknown"}
        /\ NeedsQualifiers(server[k]) => server[k].qualified
=============================================================================
