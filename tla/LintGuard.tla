----------------------------- MODULE LintGuard -----------------------------
(***************************************************************************)
(* CheckForHeaderGuard of build-support/cpplint.py: one scan over the      *)
(* lines for the guard, and the judgement of what was found.  Names are    *)
(* told apart by what they are to GetHeaderGuardCPPVariable's result: the  *)
(* same ("right"), the same with one more underscore ("right_"), "other".  *)
(***************************************************************************)
EXTENDS Integers, Sequences, FiniteSets, FiniteSetsExt

CONSTANTS MaxHeader,     \* lines of a header
          GuardLines     \* the lines it may have

(* A line: its directive, the name after it or in the comment after it, how *)
(* it is commented ("//", "/*" or "none"), and its NOLINT, which is in a // *)
(* comment: "none", "any" or "guard" for NOLINT(build/header_guard).        *)
GuardNames == {"right", "right_", "other", "none"}
LineShape == [directive : {"#ifndef", "#define", "#endif", "none"}, name : GuardNames,
              comment : {"//", "/*", "none"}, nolint : {"none", "any", "guard"}]

ASSUME GuardAssumption == GuardLines \subseteq LineShape /\ MaxHeader \in Nat

None == 0

VARIABLES raw_lines,                 \* lines_without_raw_strings, without the markers
          guard_line,                \* the line of the scan
          ifndef, define, endif,     \* line numbers; None when not found yet
          guard_errors,              \* reports, as pairs of line and level
          guard_done

guardVars == <<raw_lines, guard_line, ifndef, define, endif, guard_errors, guard_done>>

GuardInit ==
    /\ raw_lines \in UNION {[1 .. n -> GuardLines] : n \in 1 .. MaxHeader}
    /\ guard_line = 1
    /\ ifndef = None /\ define = None /\ endif = None
    /\ guard_errors = {}
    /\ guard_done = FALSE

\* NOLINT(build/header_guard) anywhere ends the check.
Silenced ==
    /\ ~ guard_done /\ guard_line = 1
    /\ \E k \in DOMAIN raw_lines : raw_lines[k].nolint = "guard"
    /\ guard_done' = TRUE
    /\ UNCHANGED <<raw_lines, guard_line, ifndef, define, endif, guard_errors>>

\* The first line with the directive and a name.
Found(found, directive) ==
    IF found = None /\ raw_lines[guard_line].directive = directive /\ raw_lines[guard_line].name # "none"
    THEN guard_line ELSE found

ScanLine ==
    /\ ~ guard_done /\ guard_line <= Len(raw_lines)
    /\ \A k \in DOMAIN raw_lines : raw_lines[k].nolint # "guard"
    /\ ifndef' = Found(ifndef, "#ifndef")
    /\ define' = Found(define, "#define")
    /\ endif' = IF raw_lines[guard_line].directive = "#endif" THEN guard_line ELSE endif
    /\ guard_line' = guard_line + 1
    /\ UNCHANGED <<raw_lines, guard_errors, guard_done>>

\* error(), with the NOLINT of the line parsed beforehand.
GuardError(line, level) ==
    IF line # None /\ raw_lines[line].nolint # "none" THEN {} ELSE {<<line, level>>}

\* Mutant of NameErrors: a guard that is not the right one will do.
NameErrorsLenient == {}

NameErrors ==
    LET found == raw_lines[ifndef].name
    IN IF found = "right" THEN {} ELSE GuardError(ifndef, IF found = "right_" THEN 0 ELSE 5)

IsSingle(line) == line.comment = "//" \/ line.nolint # "none"

\* A file without // comments may have the name in the other kind of comment.
AcceptedComments ==
    {"//"} \cup IF \E k \in DOMAIN raw_lines : IsSingle(raw_lines[k]) THEN {} ELSE {"/*"}

EndifErrors ==
    IF endif # None /\ raw_lines[endif].comment \in AcceptedComments
         /\ raw_lines[endif].name \in {"right", "right_"}
    THEN IF raw_lines[endif].name = "right_" THEN GuardError(endif, 0) ELSE {}
    ELSE GuardError(endif, 5)

Judge ==
    /\ ~ guard_done /\ guard_line > Len(raw_lines)
    /\ guard_done' = TRUE
    /\ guard_errors' = IF ifndef = None \/ define = None
                      \/ raw_lines[ifndef].name # raw_lines[define].name
                 THEN {<<None, 5>>}
                 ELSE NameErrors \cup EndifErrors
    /\ UNCHANGED <<raw_lines, guard_line, ifndef, define, endif>>

GuardNext == Silenced \/ ScanLine \/ Judge
GuardSpec == GuardInit /\ [][GuardNext]_guardVars

-----------------------------------------------------------------------------
(* Properties.                                                             *)

\* What was found lies behind the scan and is what it was taken for.
GuardTypeOK ==
    /\ guard_line \in 1 .. Len(raw_lines) + 1
    /\ {ifndef, define, endif} \subseteq 0 .. guard_line - 1
    /\ guard_errors \subseteq (0 .. Len(raw_lines)) \X {0, 5}
    /\ guard_done \in BOOLEAN

Plain(line) == line.nolint = "none"
HeaderLine(directive, name, comment) ==
    [directive |-> directive, name |-> name, comment |-> comment, nolint |-> "none"]

\* A header in the form that the style guide asks for passes, whatever further
\* directives and comments there are between the guard and its end.
GuardedIsSilent ==
    /\ guard_done /\ Len(raw_lines) >= 3
    /\ raw_lines[1].directive = "#ifndef" /\ raw_lines[1].name = "right"
    /\ raw_lines[2].directive = "#define" /\ raw_lines[2].name = "right"
    /\ raw_lines[Len(raw_lines)].directive = "#endif"
    /\ raw_lines[Len(raw_lines)].name = "right" /\ raw_lines[Len(raw_lines)].comment = "//"
    => guard_errors = {}

\* A header that passes without a NOLINT has the right name in some #ifndef, in some
\* #define and in the comment of its last #endif, up to an underscore.
SilentMeansNamed ==
    /\ guard_done /\ \A e \in guard_errors : e[2] = 0
    /\ \A k \in DOMAIN raw_lines : Plain(raw_lines[k])
    => /\ \A d \in {"#ifndef", "#define"} :
            \E k \in DOMAIN raw_lines : raw_lines[k].directive = d
                                        /\ raw_lines[k].name \in {"right", "right_"}
       /\ LET ends == {k \in DOMAIN raw_lines : raw_lines[k].directive = "#endif"}
          IN ends # {} /\ raw_lines[Max(ends)].name \in {"right", "right_"}

=============================================================================
