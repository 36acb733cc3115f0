--------------------------- MODULE BindParameters ---------------------------
(***************************************************************************)
(* The binding of parameters to a statement (dbapi.py).  A list of         *)
(* parameters is turned into SQL literals, which replace the markers of    *)
(* the statement: one after the other for ? and for %s, each time from the *)
(* start of the text, then :n for n from the last parameter down to the    *)
(* first.  A dictionary replaces all its named markers at once.            *)
(*                                                                         *)
(* A text is a sequence of tokens, cut where the code's searches can tell  *)
(* it apart: a token is a word and a number, the number of a marker such   *)
(* as :n and 0 otherwise.  The names of a dictionary are numbers too.  One *)
(* step is one literal, one replacement or one search.                     *)
(***************************************************************************)
EXTENDS Strings

CONSTANTS
  Words,          \* the words of the tokens
  Texts,          \* the contents of string parameters
  Printed,        \* what str() makes of parameters of other types
  ListTokens,     \* the tokens of a statement with a list of parameters
  DictTokens,     \* the tokens of a statement with a dictionary
  Begins,         \* <<m, n>>: the digits of m begin those of n, which has more
  MaxStatement,   \* bound: tokens in a statement
  MaxParameters   \* bound: parameters

Token == Words \X Nat

Word(w) == <<w, 0>>

\* The characters _escape knows.
Special == {"backslash", "newline", "return", "quote", "double_quote"}

ASSUME BindParametersAssumption ==
  /\ Special \cup {"n", "r", "digits", "NULL", "%", "%(name)s"} \subseteq Words
  /\ Texts \subseteq Seq(Token)
  /\ Printed \subseteq Seq(Token)
  /\ ListTokens \subseteq Token
  /\ DictTokens \subseteq Token
  /\ \A b \in Begins : b[1] < b[2]
  /\ MaxStatement \in Nat
  /\ MaxParameters \in Nat

Values == [type : {"None"}, text : {<<>>}]
            \cup [type : {"string"}, text : Texts]
            \cup [type : {"other"}, text : Printed]

SeqsUpTo(S, n) == UNION {[1..m -> S] : m \in 0..n}

VARIABLES
  form,               \* the type of the parameters argument
  statement,          \* the operation argument
  parameters,         \* the parameters; those of a dictionary by their name
  bind_pc,            \* where the call is
  string_parameters,  \* the parameters as SQL literals
  operation,          \* the statement with the markers replaced so far
  marker_index, index

inputs == <<form, statement, parameters>>
bindVars == <<inputs, bind_pc, string_parameters, operation, marker_index, index>>

BindInit ==
  /\ form \in {"list", "dict", "other"}
  /\ statement \in SeqsUpTo(IF form = "dict" THEN DictTokens ELSE ListTokens,
                            MaxStatement)
  /\ parameters \in SeqsUpTo(Values, MaxParameters)
  /\ bind_pc = "literals"
  /\ string_parameters = <<>>
  /\ operation = statement
  /\ marker_index = 0
  /\ index = 0

-----------------------------------------------------------------------------
\* str.replace of the marker :n, which also finds the beginning of a longer number
\* and leaves the rest of its digits.
AfterNumber(t, n, new) ==
  IF t[1] = ":" /\ t[2] = n THEN new
  ELSE IF t[1] = ":" /\ <<n, t[2]>> \in Begins THEN Append(new, <<"digits", t[2]>>)
  ELSE <<t>>

ReplaceNumber(text, n, new) ==
  Concat([k \in 1..Len(text) |-> AfterNumber(text[k], n, new)])

\* What stands for a character after a backslash.
AfterBackslash(w) ==
  IF w = "newline" THEN "n" ELSE IF w = "return" THEN "r" ELSE w

Backslashed(w) == <<Word("backslash"), Word(AfterBackslash(w))>>

EscapeOne(e, w) == Replace(e, Word(w), Backslashed(w))

\* Mutant of Escape: the backslashes are doubled last.
EscapeBackslashLast(s) ==
  LET e1 == EscapeOne(s, "newline")
      e2 == EscapeOne(e1, "return")
      e3 == EscapeOne(e2, "quote")
      e4 == EscapeOne(e3, "double_quote")
  IN  EscapeOne(e4, "backslash")

\* _escape: five replacements, one after the other.
Escape(s) ==
  LET e1 == EscapeOne(s, "backslash")
      e2 == EscapeOne(e1, "newline")
      e3 == EscapeOne(e2, "return")
      e4 == EscapeOne(e3, "quote")
  IN  EscapeOne(e4, "double_quote")

Literal(value) ==
  IF value.type = "None" THEN <<Word("NULL")>>
  ELSE IF value.type = "string"
    THEN <<Word("quote")>> \o Escape(value.text) \o <<Word("quote")>>
  ELSE value.text

Occurs(marker) == \E k \in 1..Len(operation) : operation[k] = Word(marker)

\* str.find
Find(marker) ==
  CHOOSE k \in 1..Len(operation) :
    /\ operation[k] = Word(marker)
    /\ \A h \in 1..(k - 1) : operation[h] # Word(marker)

-----------------------------------------------------------------------------
Raise ==
  /\ bind_pc' = "raised"
  /\ UNCHANGED <<string_parameters, operation, marker_index, index>>

\* _bind_parameters: neither a list or tuple nor a dictionary.
Other ==
  /\ bind_pc = "literals"
  /\ form = "other"
  /\ Raise
  /\ UNCHANGED inputs

\* An iteration of the loop over the parameters.
AppendLiteral ==
  /\ bind_pc = "literals"
  /\ form # "other"
  /\ Len(string_parameters) < Len(parameters)
  /\ string_parameters' =
       Append(string_parameters, Literal(parameters[Len(string_parameters) + 1]))
  /\ UNCHANGED <<inputs, bind_pc, operation, marker_index, index>>

LiteralsDone ==
  /\ bind_pc = "literals"
  /\ form # "other"
  /\ Len(string_parameters) = Len(parameters)
  /\ bind_pc' = IF form = "list" THEN "?" ELSE "named"
  /\ UNCHANGED <<inputs, string_parameters, operation, marker_index, index>>

\* replace_markers: the first marker in the text as it now is takes the next
\* parameter.
ReplaceMarker(marker) ==
  /\ bind_pc = marker
  /\ Occurs(marker)
  /\ marker_index < Len(string_parameters)
  /\ operation' = SubSeq(operation, 1, Find(marker) - 1)
                    \o string_parameters[marker_index + 1]
                    \o SubSeq(operation, Find(marker) + 1, Len(operation))
  /\ marker_index' = marker_index + 1
  /\ UNCHANGED <<inputs, bind_pc, string_parameters, index>>

\* More markers than parameters, or some but not all parameters used.
WrongNumber(marker) ==
  \/ Occurs(marker) /\ marker_index = Len(string_parameters)
  \/ ~Occurs(marker) /\ marker_index \notin {0, Len(string_parameters)}

MarkersRaise(marker) ==
  /\ bind_pc = marker
  /\ WrongNumber(marker)
  /\ Raise
  /\ UNCHANGED inputs

\* replace_markers returns: after ? it is called for %s, then come the numbers.
MarkersDone(marker) ==
  /\ bind_pc = marker
  /\ ~Occurs(marker)
  /\ ~WrongNumber(marker)
  /\ bind_pc' = IF marker = "?" THEN "%s" ELSE "numbered"
  /\ marker_index' = 0
  /\ index' = IF marker = "?" THEN index ELSE Len(string_parameters)
  /\ UNCHANGED <<inputs, string_parameters, operation>>

\* Mutant of ReplaceNumbered: from the first number to the last.
ReplaceNumberedForwards ==
  /\ bind_pc = "numbered"
  /\ index > 0
  /\ LET n == Len(string_parameters) - index + 1
     IN  operation' = ReplaceNumber(operation, n, string_parameters[n])
  /\ index' = index - 1
  /\ UNCHANGED <<inputs, bind_pc, string_parameters, marker_index>>

\* An iteration of the loop over the numbers, from the last to the first.
ReplaceNumbered ==
  /\ bind_pc = "numbered"
  /\ index > 0
  /\ operation' = ReplaceNumber(operation, index, string_parameters[index])
  /\ index' = index - 1
  /\ UNCHANGED <<inputs, bind_pc, string_parameters, marker_index>>

NumberedDone ==
  /\ bind_pc = "numbered"
  /\ index = 0
  /\ bind_pc' = "done"
  /\ UNCHANGED <<inputs, string_parameters, operation, marker_index, index>>

\* re.sub: every :name becomes %(name)s.
ToPyformat(text) ==
  [k \in 1..Len(text) |->
    IF text[k][1] = ":name" THEN <<"%(name)s", text[k][2]>> ELSE text[k]]

\* The % operator with a dictionary.
Formatted(t, literals) ==
  IF t[1] = "%(name)s" THEN literals[t[2]]
  ELSE IF t = Word("%%") THEN <<Word("%")>>
  ELSE <<t>>

Format(text, literals) ==
  Concat([k \in 1..Len(text) |-> Formatted(text[k], literals)])

\* A name that is not in the dictionary.
KeyError(text) ==
  \E k \in 1..Len(text) :
    text[k][1] = "%(name)s" /\ text[k][2] \notin DOMAIN string_parameters

\* Mutant of BindNamed: the names are looked for after the % operator as well.
BindNamedAgain ==
  /\ bind_pc = "named"
  /\ IF KeyError(ToPyformat(operation))
       THEN Raise
       ELSE /\ operation' = ToPyformat(Format(ToPyformat(operation), string_parameters))
            /\ bind_pc' = "done"
            /\ UNCHANGED <<string_parameters, marker_index, index>>
  /\ UNCHANGED inputs

\* _bind_parameters_dict: the names become %(name)s, and the % operator fills these
\* in.
BindNamed ==
  /\ bind_pc = "named"
  /\ IF KeyError(ToPyformat(operation))
       THEN Raise
       ELSE /\ operation' = Format(ToPyformat(operation), string_parameters)
            /\ bind_pc' = "done"
            /\ UNCHANGED <<string_parameters, marker_index, index>>
  /\ UNCHANGED inputs

BindNext ==
  \/ Other \/ AppendLiteral \/ LiteralsDone
  \/ \E marker \in {"?", "%s"} :
       ReplaceMarker(marker) \/ MarkersRaise(marker) \/ MarkersDone(marker)
  \/ ReplaceNumbered \/ NumberedDone \/ BindNamed

BindSpec == BindInit /\ [][BindNext]_bindVars

-----------------------------------------------------------------------------
(***************************************************************************)
(* What binding means: all markers of the statement are replaced at once.  *)
(***************************************************************************)
Positional == {Word("?"), Word("%s")}

IsMarker(t) == t \in Positional \/ t[1] = ":"

\* No parameter holds what could be taken for a marker: neither a string nor what
\* str() makes of another value (a time of day, with its colons, does).
Plain ==
  \A p \in 1..Len(parameters) :
    \A k \in 1..Len(parameters[p].text) : ~IsMarker(parameters[p].text[k])

\* The tokens equal to t among the first k of the statement.
CountTo(t, k) ==
  LET C[h \in 0..Len(statement)] ==
        IF h = 0 THEN 0 ELSE C[h - 1] + (IF statement[h] = t THEN 1 ELSE 0)
  IN  C[k]

\* The parameter of the marker at position k.
ParameterOf(k) ==
  IF statement[k] \in Positional THEN CountTo(statement[k], k) ELSE statement[k][2]

Simultaneous ==
  Concat([k \in 1..Len(statement) |->
    IF IsMarker(statement[k]) THEN Literal(parameters[ParameterOf(k)])
    ELSE <<statement[k]>>])

(***************************************************************************)
(* _replace_numeric_markers gives what replacing all markers at once would *)
(* give, for parameters whose text is free of markers and numbers that     *)
(* name a parameter: one replacement after the other loses nothing, :1 does not   *)
(* replace part of :12, and a statement that uses ? or %s uses it once for *)
(* each parameter ("Raises ProgrammingError on wrong number of parameters  *)
(* or bindings").                                                          *)
(***************************************************************************)
ListBoundRight ==
  (/\ bind_pc = "done" /\ form = "list" /\ Plain
   /\ \A k \in 1..Len(statement) :
        statement[k][1] = ":" => statement[k][2] \in 1..Len(parameters)) =>
    /\ operation = Simultaneous
    /\ \A t \in Positional : CountTo(t, Len(statement)) \in {0, Len(parameters)}

(***************************************************************************)
(* A dictionary binds every named marker of the statement at once: what    *)
(* the parameters contain is never searched, whatever it looks like.       *)
(***************************************************************************)
DictBoundRight ==
  (bind_pc = "done" /\ form = "dict") =>
    operation = Concat([k \in 1..Len(statement) |->
      IF statement[k][1] \in {":name", "%(name)s"}
        THEN Literal(parameters[statement[k][2]])
      ELSE IF statement[k] = Word("%%") THEN <<Word("%")>>
      ELSE <<statement[k]>>])

(***************************************************************************)
(* _escape, five replacements in a row, escapes every character once: a    *)
(* string literal is its text with each special character behind one       *)
(* backslash, between quotes, so that it reads back as the parameter.      *)
(***************************************************************************)
EscapedOnce(text) ==
  Concat([k \in 1..Len(text) |->
    IF \E w \in Special : text[k] = Word(w) THEN Backslashed(text[k][1])
    ELSE <<text[k]>>])

LiteralsReadBack ==
  \A p \in 1..Len(string_parameters) :
    parameters[p].type = "string" =>
      string_parameters[p] =
        <<Word("quote")>> \o EscapedOnce(parameters[p].text) \o <<Word("quote")>>

=============================================================================
