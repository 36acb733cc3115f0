-------------------------- MODULE MCBindParameters --------------------------
(***************************************************************************)
(* BindParameters with texts that hold ordinary tokens, every character    *)
(* _escape knows, and every kind of marker.  What is printed is a number   *)
(* or a time such as 10:11, whose second half is a marker too.  The digits *)
(* of 1 begin those of 2 and 3, as those of 1 begin those of 10 and 11.    *)
(***************************************************************************)
EXTENDS BindParameters

MCWords ==
  Special \cup {"n", "r", "digits", "NULL", "number", "x", "?", "%s", ":", ":name",
               "%(name)s", "%%", "%"}

MCTexts ==
  {<<Word("x")>>, <<Word("backslash"), Word("quote")>>,
   <<Word("newline"), Word("return"), Word("double_quote")>>,
   <<Word("?")>>, <<Word("%s"), <<":", 1>>>>,
   <<<<":name", 1>>, <<"%(name)s", 2>>, Word("%%")>>}

MCPrinted == {<<Word("number")>>, <<Word("number"), <<":", 3>>>>}

MCListTokens == {Word("?"), Word("%s"), Word("x")} \cup {<<":", n>> : n \in 1..3}

MCDictTokens ==
  {Word("%%"), Word("x"), <<":name", 1>>, <<":name", 2>>, <<"%(name)s", 1>>}

MCBegins == {<<1, 2>>, <<1, 3>>}
=============================================================================
