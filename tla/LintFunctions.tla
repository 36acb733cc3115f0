--------------------------- MODULE LintFunctions ---------------------------
(***************************************************************************)
(* The length of functions in build-support/cpplint.py: _FunctionState and *)
(* CheckForFunctionLengths, line by line over comment-free lines.  A line  *)
(* is one of the kinds that the regular expressions tell apart.            *)
(***************************************************************************)
EXTENDS Integers, Sequences, FiniteSets, FiniteSetsExt

CONSTANTS MaxCode,        \* bound: lines of a file
          MaxVerbose,     \* bound: levels of --verbose that are tried
          NormalTrigger,  \* _NORMAL_TRIGGER
          TestTrigger     \* _TEST_TRIGGER

(* Unindented: "f() {", "TEST() {", "f(" with the rest of the head to come, *)
(* "f();", a call of a macro and "}".  Then "{" at the end of other text,   *)
(* text with a ";", text with neither, and nothing.                        *)
Heads == {"open", "test", "head", "declaration"}
Kinds == Heads \cup {"macro", "close", "brace", "statement", "text", "blank"}

\* The usage text of the linter gives the levels 0 to 5.
ASSUME FunctionsAssumption ==
    /\ MaxCode \in Nat /\ MaxVerbose \in 0 .. 5
    /\ NormalTrigger \in Nat \ {0} /\ TestTrigger \in Nat \ {0}

VARIABLES clean_lines,         \* clean_lines.lines, without the markers
          verbose,             \* _VerboseLevel()
          linenum,             \* the line being processed
          in_a_function, lines_in_function, current_function,   \* _FunctionState
          length_errors        \* what was reported

functionVars == <<clean_lines, verbose, linenum, in_a_function, lines_in_function,
                  current_function, length_errors>>

FunctionsInit ==
    /\ clean_lines \in UNION {[1 .. n -> Kinds] : n \in 1 .. MaxCode}
    /\ verbose \in 0 .. MaxVerbose
    /\ linenum = 1
    /\ in_a_function = FALSE /\ lines_in_function = 0 /\ current_function = "none"
    /\ length_errors = {}

-----------------------------------------------------------------------------
(* _FunctionState.                                                         *)

Begin(function) ==
    /\ in_a_function' = TRUE
    /\ lines_in_function' = 0
    /\ current_function' = function

Count ==
    /\ lines_in_function' = IF in_a_function THEN lines_in_function + 1 ELSE lines_in_function
    /\ UNCHANGED <<in_a_function, current_function>>

\* 2**n, for the levels and for the logarithms of numbers of lines.
TwoTo[n \in 0 .. MaxCode + MaxVerbose] == IF n = 0 THEN 1 ELSE 2 * TwoTo[n - 1]

\* int(math.log(n, 2))
Log2(n) == Max({k \in 0 .. n : TwoTo[k] <= n})

BaseTrigger == IF current_function = "test" THEN TestTrigger ELSE NormalTrigger
ErrorLevel == Min({5, Log2(lines_in_function \div BaseTrigger)})

\* Mutant of Check: the level is one less.
CheckLow ==
    length_errors' = IF lines_in_function > BaseTrigger * TwoTo[verbose]
              THEN length_errors \cup {[line |-> linenum, level |-> ErrorLevel - 1, count |-> lines_in_function]}
              ELSE length_errors

Check ==
    length_errors' = IF lines_in_function > BaseTrigger * TwoTo[verbose]
              THEN length_errors \cup {[line |-> linenum, level |-> ErrorLevel, count |-> lines_in_function]}
              ELSE length_errors

End == in_a_function' = FALSE /\ UNCHANGED <<lines_in_function, current_function>>

-----------------------------------------------------------------------------
(* CheckForFunctionLengths.                                                *)

\* The lines from i on where the search for the body of a function stops.
Decisive(i) ==
    {j \in i .. Len(clean_lines) : clean_lines[j] \notin {"head", "macro", "text", "blank"}}

\* The line after which the body begins, or 0.
BodyStart(i) ==
    IF Decisive(i) # {} /\ clean_lines[Min(Decisive(i))] \in {"open", "test", "brace"}
    THEN Min(Decisive(i)) ELSE 0

StartFunction ==
    /\ clean_lines[linenum] \in Heads
    /\ IF BodyStart(linenum) # 0
       THEN Begin(IF clean_lines[linenum] = "test" THEN "test" ELSE "function")
       ELSE UNCHANGED <<in_a_function, lines_in_function, current_function>>
    /\ length_errors' = IF Decisive(linenum) # {} THEN length_errors
                 ELSE length_errors \cup {[line |-> linenum, level |-> 5, count |-> 0]}

EndFunction == clean_lines[linenum] = "close" /\ Check /\ End

CountLine ==
    /\ clean_lines[linenum] \notin Heads \cup {"close", "blank"}
    /\ Count /\ UNCHANGED length_errors

SkipLine ==
    /\ clean_lines[linenum] = "blank"
    /\ UNCHANGED <<in_a_function, lines_in_function, current_function, length_errors>>

CheckForFunctionLengths ==
    /\ linenum <= Len(clean_lines)
    /\ StartFunction \/ EndFunction \/ CountLine \/ SkipLine
    /\ linenum' = linenum + 1
    /\ UNCHANGED <<clean_lines, verbose>>

FunctionsSpec == FunctionsInit /\ [][CheckForFunctionLengths]_functionVars

-----------------------------------------------------------------------------
(* Properties.                                                             *)

\* A function, read off the file: its head is at i, its body begins after line b
\* and ends at line e, and nothing in it is unindented but macros.
IsFunction(i, b, e) ==
    /\ clean_lines[i] \in Heads /\ b = BodyStart(i) /\ b # 0
    /\ b < e /\ clean_lines[e] = "close"
    /\ \A k \in i + 1 .. b : clean_lines[k] \notin Heads
    /\ \A k \in b + 1 .. e - 1 : clean_lines[k] \notin Heads \cup {"close"}

BodyLines(b, e) == {k \in b + 1 .. e - 1 : clean_lines[k] # "blank"}
TriggerOf(i) == (IF clean_lines[i] = "test" THEN TestTrigger ELSE NormalTrigger) * TwoTo[verbose]

\* Every function of more lines than the trigger of the verbosity is reported at its
\* last line, whatever came before it in the file, and at a level that the
\* verbosity lets through (Check, with the filter in error()).
LongFunctionShown ==
    linenum = Len(clean_lines) + 1 =>
        \A i, b, e \in 1 .. Len(clean_lines) :
            IsFunction(i, b, e) /\ Cardinality(BodyLines(b, e)) > TriggerOf(i) =>
                \E r \in length_errors : r.line = e /\ r.level >= verbose

=============================================================================
