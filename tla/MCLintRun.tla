----------------------------- MODULE MCLintRun -----------------------------
(***************************************************************************)
(* Instances of LintRun.                                                   *)
(***************************************************************************)
EXTENDS LintRun

Include == <<"build", "include">>
Alpha == <<"build", "include", "alpha">>

InTop == [dirs |-> <<"top">>, ext |-> TRUE]
InSub == [dirs |-> <<"sub", "top">>, ext |-> TRUE]

RunFiles == {InTop, InSub}

Nolint(next, what, cat) == [next |-> next, what |-> what, cat |-> cat]

Filters(fs) == Option("filter", fs, 0, {})
Length(n) == Option("linelength", <<>>, n, {})
Excl(b) == Option("exclude_files", <<>>, 0, {b})
NoParent == Option("set noparent", <<>>, 0, {})
IOErr == Option("IOError", <<>>, 0, {})

\* Filters of the command line and of the directories, early ends of the walk,
\* files that are skipped and options that stop the run.
RunCategories == {Include, Alpha, NolintCategory, CommentCategory, GuardCategory, BracesCategory}
RunPrefixes == {<<>>, <<"build">>, Include, Alpha}
RunFilterLists == {<<>>, <<Filter("-", <<"build">>), Filter("+", Include)>>}
RunConfigs ==
  {<<>>, <<Filters(<<Filter("+", Include), Filter("-", Alpha)>>), NoParent>>,
   <<Filters(<<Filter("+", <<>>)>>), Filters(<<Filter("-", Alpha)>>)>>,
   <<Length(100), Excl("file")>>, <<Excl("sub"), Filters(<<Filter("", Include)>>)>>,
   <<IOErr>>, <<Length(NotANumber)>>}
RunNolints == {Nolint(FALSE, "all", <<>>), Nolint(TRUE, "known", BracesCategory),
               Nolint(FALSE, "unknown", <<>>)}

=============================================================================
