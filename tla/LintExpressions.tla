-------------------------- MODULE LintExpressions --------------------------
(***************************************************************************)
(* How cpplint.py finds the end of a parenthesised expression and, from an *)
(* end, its start: CloseExpression and ReverseCloseExpression, with the    *)
(* per-line scans FindEndOfExpressionInLine and FindStartOfExpressionInLine *)
(* one character per step.  "<" and ">" are brackets of a template         *)
(* argument list or operators, and the scans only guess which.  The word   *)
(* "operator" is one symbol; "<=", "<<" and ">=" are two.  Braces are      *)
(* treated like square brackets and are left out.                          *)
(*                                                                         *)
(* A behaviour closes an expression that starts anywhere in the text and,  *)
(* when that succeeds, looks for the start again from the end it found.    *)
(***************************************************************************)
EXTENDS Integers, Sequences, FiniteSets, FiniteSetsExt, SequencesExt

CONSTANT Texts       \* the texts: sequences of lines, each a sequence of symbols

VARIABLES elided,    \* the lines, without strings and comments
          start,     \* where the search starts: <<line, position>>
          phase,     \* "close", "reverse", "done"
          at,        \* where the scan is: <<line, position>>
          stack,
          end, back  \* results: <<line, position>>, or None

vars == <<elided, start, phase, at, stack, end, back>>

None == <<0, 0>>
Open == {"(", "["}
Close == {")", "]"}
Pair(o) == IF o = "(" THEN ")" ELSE "]"

Top(st) == IF st = <<>> THEN "" ELSE Last(st)

\* st without the a's at its top.
PopAll(st, a) == SubSeq(st, 1, Max({0} \cup {k \in DOMAIN st : st[k] # a}))

PopTop(st, a) == IF Top(st) = a THEN Front(st) ELSE st

CharAt(l, i) == IF i \in DOMAIN l THEN l[i] ELSE ""

\* re.search(r'\boperator\s*$', line[0:i]): the word, with blanks at most between
\* it and i.
OperatorBefore(l, i) ==
  \E k \in 1..(i - 1) :
    /\ l[k] = "operator" /\ CharAt(l, k - 1) # "operator"
    /\ \A b \in (k + 1)..(i - 1) : l[b] = " "

\* CloseExpression refuses positions that open nothing, and << and <=.
Starts(l, i) == l[i] \in Open \/ (l[i] = "<" /\ CharAt(l, i + 1) \notin {"<", "="})

Init ==
  /\ elided \in Texts
  /\ start \in UNION {{<<n, i>> : i \in {k \in DOMAIN elided[n] : Starts(elided[n], k)}} :
                      n \in DOMAIN elided}
  /\ phase = "close" /\ at = start /\ stack = <<>>
  /\ end = None /\ back = None

-----------------------------------------------------------------------------
Line == elided[at[1]]

(***************************************************************************)
(* One turn of the loop of FindEndOfExpressionInLine: the stack after it.  *)
(* The line[0:i - 1] of the source drops a character too many: the word    *)
(* "operator" is seen only with one more character, whichever it is,       *)
(* between it and the >, and not when that is its own last letter.         *)
(***************************************************************************)
\* A second < takes the first one back: they are an operator.
OpenAngle(l, i, st) ==
  IF CharAt(l, i - 1) = "<" THEN PopTop(st, "<")
  ELSE IF OperatorBefore(l, i) THEN st ELSE Append(st, "<")

CloseAngle(l, i, st) ==
  IF CharAt(l, i - 1) = "-" \/ (CharAt(l, i - 1) # "operator" /\ OperatorBefore(l, i - 1))
    THEN st ELSE PopTop(st, "<")

\* Mutant of Forward: a closing bracket does not discard the < above its opening
\* one.
ForwardKeepsAngles(l, i, st) ==
  CASE l[i] \in Open -> Append(st, l[i])
    [] l[i] = "<" -> OpenAngle(l, i, st)
    [] l[i] \in Close ->
         IF st # <<>> /\ Top(st) \in Open /\ Pair(Top(st)) = l[i] THEN Front(st) ELSE <<>>
    [] l[i] = ">" -> CloseAngle(l, i, st)
    [] l[i] = ";" -> PopAll(st, "<")
    [] OTHER -> st

Forward(l, i, st) ==
  CASE l[i] \in Open -> Append(st, l[i])
    [] l[i] = "<" -> OpenAngle(l, i, st)
    [] l[i] \in Close ->
         LET s == PopAll(st, "<")
         IN  IF s # <<>> /\ Pair(Top(s)) = l[i] THEN Front(s) ELSE <<>>
    [] l[i] = ">" -> CloseAngle(l, i, st)
    [] l[i] = ";" -> PopAll(st, "<")
    [] OTHER -> st

\* The stack became empty because its last element was closed, not dropped.
Closes(l, i, st) ==
  /\ st # <<>> /\ Forward(l, i, st) = <<>>
  /\ \/ l[i] \in Close /\ PopAll(st, "<") # <<>> /\ Pair(Top(PopAll(st, "<"))) = l[i]
     \/ l[i] = ">"

\* An operator < where the search starts leaves the stack empty, and the scan goes on.
GivesUp(l, i, st) ==
  /\ Forward(l, i, st) = <<>> /\ ~ Closes(l, i, st)
  /\ st # <<>> \/ l[i] \in Close \cup {";"}

\* Start of the reverse search, or the end of the behaviour.
Finish(found) ==
  /\ end' = found /\ stack' = <<>>
  /\ phase' = IF found = None THEN "done" ELSE "reverse"
  /\ at' = IF found = None THEN at ELSE found
  /\ UNCHANGED <<elided, start, back>>

CloseStep ==
  /\ phase = "close" /\ at[2] <= Len(Line)
  /\ IF Closes(Line, at[2], stack) THEN Finish(at)
     ELSE IF GivesUp(Line, at[2], stack) THEN Finish(None)
     ELSE /\ stack' = Forward(Line, at[2], stack)
          /\ at' = <<at[1], at[2] + 1>>
          /\ UNCHANGED <<elided, start, phase, end, back>>

CloseNextLine ==
  /\ phase = "close" /\ at[2] > Len(Line)
  /\ IF stack = <<>> \/ at[1] = Len(elided) THEN Finish(None)
     ELSE /\ at' = <<at[1] + 1, 1>>
          /\ UNCHANGED <<elided, start, phase, stack, end, back>>

(***************************************************************************)
(* One turn of FindStartOfExpressionInLine.  A << is skipped as a whole.   *)
(***************************************************************************)
\* Match(r'\s>=\s', line[i - 1:])
AtLeast(l, i) == CharAt(l, i - 1) = " " /\ CharAt(l, i + 1) = "=" /\ CharAt(l, i + 2) = " "

IgnoredEnd(l, i) ==
  l[i] = ">" /\ i > 1 /\ (CharAt(l, i - 1) = "-" \/ AtLeast(l, i) \/ OperatorBefore(l, i))

\* Mutant of Backward: an opening bracket does not discard the > above it.
BackwardKeepsAngles(l, i, st) ==
  CASE l[i] \in Close -> Append(st, l[i])
    [] l[i] = ">" -> IF IgnoredEnd(l, i) THEN st ELSE Append(st, ">")
    [] l[i] = "<" -> IF CharAt(l, i - 1) = "<" THEN st ELSE PopTop(st, ">")
    [] l[i] \in Open -> IF Top(st) = Pair(l[i]) THEN Front(st) ELSE <<>>
    [] l[i] = ";" -> PopAll(st, ">")
    [] OTHER -> st

Backward(l, i, st) ==
  CASE l[i] \in Close -> Append(st, l[i])
    [] l[i] = ">" -> IF IgnoredEnd(l, i) THEN st ELSE Append(st, ">")
    [] l[i] = "<" -> IF CharAt(l, i - 1) = "<" THEN st ELSE PopTop(st, ">")
    [] l[i] \in Open ->
         LET s == PopAll(st, ">")
         IN  IF s # <<>> /\ Top(s) = Pair(l[i]) THEN Front(s) ELSE <<>>
    [] l[i] = ";" -> PopAll(st, ">")
    [] OTHER -> st

Opens(l, i, st) ==
  /\ st # <<>> /\ Backward(l, i, st) = <<>>
  /\ \/ l[i] \in Open /\ PopAll(st, ">") # <<>> /\ Top(PopAll(st, ">")) = Pair(l[i])
     \/ l[i] = "<"

GivesUpBackward(l, i, st) ==
  /\ Backward(l, i, st) = <<>> /\ ~ Opens(l, i, st)
  /\ st # <<>> \/ l[i] \in Open \cup {";"}

StepBack(l, i) ==
  IF IgnoredEnd(l, i) \/ (l[i] = "<" /\ CharAt(l, i - 1) = "<") THEN 2 ELSE 1

EndReverse(found) ==
  /\ back' = found /\ phase' = "done" /\ stack' = <<>>
  /\ UNCHANGED <<elided, start, at, end>>

ReverseStep ==
  /\ phase = "reverse" /\ at[2] > 0
  /\ IF Opens(Line, at[2], stack) THEN EndReverse(at)
     ELSE IF GivesUpBackward(Line, at[2], stack) THEN EndReverse(None)
     ELSE /\ stack' = Backward(Line, at[2], stack)
          /\ at' = <<at[1], at[2] - StepBack(Line, at[2])>>
          /\ UNCHANGED <<elided, start, phase, end, back>>

ReverseNextLine ==
  /\ phase = "reverse" /\ at[2] <= 0
  /\ IF stack = <<>> \/ at[1] = 1 THEN EndReverse(None)
     ELSE /\ at' = <<at[1] - 1, Len(elided[at[1] - 1])>>
          /\ UNCHANGED <<elided, start, phase, stack, end, back>>

Stopped == phase = "done" /\ UNCHANGED vars

Next == CloseStep \/ CloseNextLine \/ ReverseStep \/ ReverseNextLine \/ Stopped

\* A function call: it runs until it returns.
Spec == Init /\ [][Next]_vars /\ WF_vars(Next)

-----------------------------------------------------------------------------
\* The text as one sequence, and where a position of it is.
Text == FlattenSeq(elided)
Offset(p) == p[2] + Len(FlattenSeq(SubSeq(elided, 1, p[1] - 1)))

\* Text i..j has only complete pairs of Open and Close, whatever else it has.
Balanced(t) ==
  LET B[i \in 1..(Len(t) + 1), j \in 0..Len(t)] ==
        \/ i > j
        \/ t[i] \notin Open \cup Close /\ B[i + 1, j]
        \/ /\ t[i] \in Open
           /\ \E k \in (i + 1)..j : t[k] = Pair(t[i]) /\ B[i + 1, k - 1] /\ B[k + 1, j]
  IN  B

Encloses(p, q) ==
  /\ p < q /\ Text[q] = Pair(Text[p]) /\ Balanced(Text)[p + 1, q - 1]

Closed == phase # "close"

(***************************************************************************)
(* Which bracket closes a ( or [ does not depend on how the scan takes the *)
(* < and > between them: CloseExpression finds exactly the bracket that    *)
(* matches when < and > are ignored, on this line or a later one, and      *)
(* nothing when there is none.                                             *)
(***************************************************************************)
BracketsMatch ==
  Closed /\ elided[start[1]][start[2]] \in Open =>
    IF end # None
      THEN Encloses(Offset(start), Offset(end))
      ELSE \A q \in DOMAIN Text : ~ Encloses(Offset(start), q)

(***************************************************************************)
(* ReverseCloseExpression undoes CloseExpression on a ( or [.              *)
(***************************************************************************)
ReverseIsInverse ==
  phase = "done" /\ end # None /\ elided[start[1]][start[2]] \in Open => back = start

=============================================================================
