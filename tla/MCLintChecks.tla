---------------------------- MODULE MCLintChecks ---------------------------
(***************************************************************************)
(* Checks of the linter on a whole file: LintGuard, LintIncludes,          *)
(* LintNames and LintFunctions on small files.  They share nothing that    *)
(* changes, so each behaviour is one of them (part says which) while the   *)
(* variables of the others rest.                                           *)
(***************************************************************************)
EXTENDS LintGuard, LintIncludes, LintFunctions

VARIABLES part,
          filename, include, root_flag, markers, call, stage, root_dir, name, verdict

names == <<filename, include, root_flag, markers, call, stage, root_dir, name, verdict>>

-----------------------------------------------------------------------------
(* LintGuard: headers of up to four lines, out of the lines that the scan  *)
(* and the judgement tell apart.                                           *)

MCGuardLines ==
    {HeaderLine(d, n, "none") : d \in {"#ifndef", "#define"}, n \in {"right", "right_", "other"}}
    \cup {HeaderLine("#endif", n, c) : n \in {"right", "right_", "other"}, c \in {"//", "/*"}}
    \cup {HeaderLine("#endif", "none", "none"), HeaderLine("none", "none", "none"), HeaderLine("none", "none", "//"),
          [HeaderLine("#ifndef", "other", "//") EXCEPT !.nolint = "any"],
          [HeaderLine("#endif", "none", "//") EXCEPT !.nolint = "any"],
          [HeaderLine("none", "none", "//") EXCEPT !.nolint = "guard"]}

-----------------------------------------------------------------------------
(* LintIncludes: five lines, with headers of every kind.                   *)

MCHeaders == {"stdio.h", "map", "vector", "my.h", "other.h", "Third.h", "x.cc"}

MCHeaderType ==
    [h \in MCHeaders |->
       CASE h = "stdio.h" -> "C" [] h \in {"map", "vector"} -> "CPP"
         [] h = "my.h" -> "LIKELY" [] OTHER -> "OTHER"]

MCCanon ==
    [h \in MCHeaders |->
       CASE h = "map" -> 1 [] h = "my.h" -> 2 [] h = "other.h" -> 3
         [] h = "stdio.h" -> 4 [] h = "vector" -> 5 [] OTHER -> 6]

-----------------------------------------------------------------------------
(* LintNames: a project with one or two directories, checked out below /h, *)
(* in all the ways its directories may be marked.                          *)

InA == <<"/", "h", "/", "r", "/", "a", "/">>
OrdinaryFiles == {InA \o <<"x", ".h">>, InA \o <<"x", ".cc">>,
                  InA \o <<"x", "_", "test", ".cc">>, <<"/", "h", "/", "r", "/", "x", ".cc">>}
OrdinaryIncludes == {<<"a", "/", "x", ".h">>, <<"a", "/", "x", "-", "inl", ".h">>, <<"x", ".h">>,
                     <<"a", "/", "x", "_", "y", ".h">>, <<"a", "/", "y", ".h">>,
                     <<"public", "/", "x", ".h">>}

F == INSTANCE LintNames WITH
        Files <- OrdinaryFiles, Includes <- OrdinaryIncludes, Roots <- {<<>>, <<"a">>},
        Markers <- {".git", ".svn"}

-----------------------------------------------------------------------------
GuardRests ==
    /\ raw_lines = <<>> /\ guard_line = 1 /\ ifndef = None /\ define = None /\ endif = None
    /\ guard_errors = {} /\ guard_done = FALSE

IncludesRest ==
    /\ lines = <<>> /\ include_list = <<>> /\ section = 0 /\ last_header = 0
    /\ include_reports = {} /\ ext = "rests" /\ own = <<>> /\ include_done = FALSE

NamesRest ==
    /\ filename = <<>> /\ include = <<>> /\ root_flag = <<>> /\ markers = <<>>
    /\ call = "rests" /\ stage = "rests" /\ root_dir = <<>> /\ name = <<>> /\ verdict = <<>>

FunctionsRest ==
    /\ clean_lines = <<>> /\ verbose = 0 /\ linenum = 0 /\ in_a_function = FALSE
    /\ lines_in_function = 0 /\ current_function = "rests" /\ length_errors = {}

ChecksInit ==
    \/ part = "guard" /\ GuardInit /\ IncludesRest /\ NamesRest /\ FunctionsRest
    \/ part = "includes" /\ IncludesInit /\ GuardRests /\ NamesRest /\ FunctionsRest
    \/ part = "names" /\ F!Init /\ GuardRests /\ IncludesRest /\ FunctionsRest
    \/ part = "functions" /\ FunctionsInit /\ GuardRests /\ IncludesRest /\ NamesRest

ChecksNext ==
    \/ part = "guard" /\ GuardNext /\ UNCHANGED <<part, includeVars, names, functionVars>>
    \/ part = "includes" /\ IncludesNext /\ UNCHANGED <<part, guardVars, names, functionVars>>
    \/ part = "names" /\ F!Next /\ UNCHANGED <<part, guardVars, includeVars, functionVars>>
    \/ part = "functions" /\ CheckForFunctionLengths
       /\ UNCHANGED <<part, guardVars, includeVars, names>>

ChecksSpec ==
    ChecksInit /\ [][ChecksNext]_<<part, guardVars, includeVars, names, functionVars>>

-----------------------------------------------------------------------------
\* LintNames: wherever a project is checked out, the header guard asked of a
\* file comes from its path in the project alone.
GuardIsProjectPath == part = "names" => F!GuardIsProjectPath

\* LintNames: the include order check and the include-what-you-use check agree
\* on which header is a file's own, and where it is.
OwnHeaderIsOpened == part = "names" => F!OwnHeaderIsOpened
=============================================================================
