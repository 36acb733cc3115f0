---------------------------- MODULE LintNesting ----------------------------
(***************************************************************************)
(* NestingState of build-support/cpplint.py: the stack of blocks that the  *)
(* linter keeps while it reads a file line by line, its checkpoints at     *)
(* preprocessor conditionals, and the checks made when a block begins or   *)
(* ends.                                                                   *)
(*                                                                         *)
(* A line is a record [indent, toks, comment]: its leading spaces, its     *)
(* tokens, and what its trailing comment says: "none", "plain",            *)
(* "namespace" or the name a namespace comment gives.  The token "<>" is   *)
(* a template argument list with its end, which CloseExpression skips as a *)
(* whole; "<" is one that nothing closes.  The text is fixed at the start, *)
(* since _ClassInfo and InTemplateArgumentList look ahead.                 *)
(***************************************************************************)
EXTENDS Integers, Sequences, FiniteSets, FiniteSetsExt, SequencesExt

CONSTANTS Texts,            \* the files that are read, as sequences of lines
          Names,            \* names of classes and namespaces
          NamespaceLines,   \* 10 in the code: length that needs an end comment
          SmallClass        \* 24 in the code: no spacing is asked up to it

VARIABLES text,         \* the lines of the file
          n,            \* lines read so far
          stack,        \* NestingState.stack, innermost block last
          pp_stack,     \* NestingState.pp_stack
          skipped,      \* lines not linted because they are inline assembly
          reports,      \* errors: pairs <<line, category>>
          done          \* CheckCompletedBlocks has run

vars == <<text, n, stack, pp_stack, skipped, reports, done>>

Top(s) == s[Len(s)]
Pop(s) == Front(s)
SetTop(s, b) == Front(s) \o <<b>>

Count(toks, t) == Cardinality({i \in DOMAIN toks : toks[i] = t})
StartsWith(toks, t) == toks # <<>> /\ toks[1] = t
Drop(toks, k) == SubSeq(toks, k + 1, Len(toks))

-----------------------------------------------------------------------------
(* The blocks.                                                             *)

BlockInfo == [kind |-> "block", name |-> "", seen |-> TRUE, open |-> 0,
              asm |-> "no", at |-> 0, access |-> "", indent |-> 0, last |-> 0]

ExternCInfo == [BlockInfo EXCEPT !.kind = "extern"]

NamespaceInfo(name, l) ==
    [BlockInfo EXCEPT !.kind = "namespace", !.name = name, !.seen = FALSE, !.at = l]

\* The first line at which the braces counted from the head's line balance.
LastLine(l) ==
    LET Depth(i) == FoldLeftDomain(LAMBDA d, k : IF k < l THEN d
                        ELSE d + Count(text[k].toks, "{") - Count(text[k].toks, "}"),
                        0, SubSeq(text, 1, i))
        balanced == {i \in l .. Len(text) : Depth(i) = 0}
    IN IF balanced = {} THEN 0 ELSE Min(balanced)

ClassInfo(name, key, l) ==
    [BlockInfo EXCEPT !.kind = "class", !.name = name, !.seen = FALSE, !.at = l,
                      !.access = IF key = "struct" THEN "public:" ELSE "private:",
                      !.indent = text[l].indent, !.last = LastLine(l)]

SeenOpenBrace(s) == s = <<>> \/ Top(s).seen
CheckNamespaceIndentation(b) == b.kind \in {"class", "namespace"}
InAsmBlock(s) == s # <<>> /\ Top(s).asm # "no"

-----------------------------------------------------------------------------
(* What is checked where a block ends.                                     *)

\* The comment after a brace that stands alone at the beginning of the line.
EndComment(line) ==
    IF line.indent = 0 /\ StartsWith(line.toks, "}")
          /\ \A i \in 2 .. Len(line.toks) : line.toks[i] = ";"
    THEN line.comment ELSE "none"

\* Mutant: the length that asks for a comment is off by one.
NamespaceCheckEndLate(b, l) ==
    LET said == EndComment(text[l])
        wanted == IF b.name = "" THEN "namespace" ELSE b.name
    IN IF \/ l - b.at <= NamespaceLines /\ said \notin Names \cup {"namespace"}
          \/ said = wanted
       THEN {} ELSE {<<l, "readability/namespace">>}

NamespaceCheckEnd(b, l) ==
    LET said == EndComment(text[l])
        wanted == IF b.name = "" THEN "namespace" ELSE b.name
    IN IF \/ l - b.at < NamespaceLines /\ said \notin Names \cup {"namespace"}
          \/ said = wanted
       THEN {} ELSE {<<l, "readability/namespace">>}

\* A DISALLOW macro is the last thing in its class; the closing brace is
\* aligned with the class.
ClassCheckEnd(b, l) ==
    LET Macro(i) == \E k \in 1 .. Len(text[i].toks) - 1 :
                        text[i].toks[k] = "DISALLOW" /\ text[i].toks[k + 1] = b.name
        macros == {i \in b.at + 1 .. l - 1 : Macro(i)}
        late == macros # {} /\ \E i \in Max(macros) + 1 .. l - 1 : text[i].toks # <<>>
    IN (IF late THEN {<<Max(macros), "last in class">>} ELSE {})
         \cup (IF StartsWith(text[l].toks, "}") /\ text[l].indent # b.indent
               THEN {<<l, "whitespace/indent">>} ELSE {})

CheckEnd(b, l) ==
    CASE b.kind = "namespace" -> NamespaceCheckEnd(b, l)
      [] b.kind = "class"     -> ClassCheckEnd(b, l)
      [] OTHER                -> {}

-----------------------------------------------------------------------------
(* Update: one line.                                                       *)

PreprocessorInfo(s) == [before_if |-> s, before_else |-> <<>>, seen_else |-> FALSE]

\* UpdatePreprocessor on the pair [stack, pp].
UpdatePreprocessor(s, pp, toks) ==
    CASE StartsWith(toks, "#if") -> [stack |-> s, pp |-> Append(pp, PreprocessorInfo(s))]
      [] StartsWith(toks, "#else") /\ pp # <<>> ->
            [stack |-> Top(pp).before_if,
             pp |-> IF Top(pp).seen_else THEN pp
                    ELSE SetTop(pp, [Top(pp) EXCEPT !.seen_else = TRUE, !.before_else = s])]
      [] StartsWith(toks, "#endif") /\ pp # <<>> ->
            [stack |-> IF Top(pp).seen_else THEN Top(pp).before_else ELSE s, pp |-> Pop(pp)]
      [] OTHER -> [stack |-> s, pp |-> pp]

MatchAsm(toks) == StartsWith(toks, "asm") /\ Len(toks) > 1 /\ toks[2] \in {"(", "{"}

\* Parentheses are charged to the innermost block at the start of the line.
CountParentheses(s, toks) ==
    IF s = <<>> THEN s
    ELSE LET change == Count(toks, "(") - Count(toks, ")")
             open == Top(s).open + change
             asm == Top(s).asm
         IN SetTop(s, [Top(s) EXCEPT !.open = open, !.asm =
                CASE asm \in {"no", "end"} ->
                        IF change # 0 /\ open = 1 /\ MatchAsm(toks) THEN "inside" ELSE "no"
                  [] asm = "inside" -> IF open = 0 THEN "end" ELSE "inside"
                  [] OTHER -> asm])

\* Namespace heads at the beginning of the line; rest is what is left of it.
RECURSIVE ConsumeNamespaces(_, _, _)
ConsumeNamespaces(s, toks, l) ==
    IF ~ StartsWith(toks, "namespace") THEN [stack |-> s, rest |-> toks]
    ELSE LET named == Len(toks) > 1 /\ toks[2] \in Names
             after == Drop(toks, IF named THEN 2 ELSE 1)
             braces == {i \in DOMAIN after : after[i] = "{"}
             b == NamespaceInfo(IF named THEN toks[2] ELSE "", l)
         IN IF braces = {} THEN ConsumeNamespaces(Append(s, b), after, l)
            ELSE ConsumeNamespaces(Append(s, [b EXCEPT !.seen = TRUE]),
                                   Drop(after, Min(braces)), l)

\* The first token past position end of the line that tells a declaration from
\* a template argument, here or on a later line; closed lists are passed over.
InTemplateArgumentList(end, l) ==
    LET rest == Drop(text[l].toks, end)
                  \o FlattenSeq([i \in 1 .. Len(text) - l |-> text[l + i].toks])
        telling == {i \in DOMAIN rest :
                      rest[i] \in {"{", "}", ";", "<", ">", "=", "[", "]", "."}}
    IN telling # {} /\ rest[Min(telling)] \in {">", "=", "[", "]", "."}

\* A class or struct head in what the namespaces left of the line.  Its length
\* is taken as a position in the whole line.
ConsumeClass(s, toks, l) ==
    LET k == IF StartsWith(toks, "template") /\ Len(toks) > 1 /\ toks[2] = "<>"
             THEN 3 ELSE 1
    IN IF /\ Len(toks) > k /\ toks[k] \in {"class", "struct"} /\ toks[k + 1] \in Names
          /\ s = <<>> \/ Top(s).open = 0
          /\ ~ InTemplateArgumentList(k + 1, l)
       THEN [stack |-> Append(s, ClassInfo(toks[k + 1], toks[k], l)),
             rest |-> Drop(toks, k + 1)]
       ELSE [stack |-> s, rest |-> toks]

AccessWords == {"public:", "private:"}

\* The last access keyword of the line, where the innermost block is a class.
UpdateAccess(s, toks) ==
    LET at == {i \in DOMAIN toks : toks[i] \in AccessWords}
    IN IF s = <<>> \/ Top(s).kind # "class" \/ at = {} THEN s
       ELSE SetTop(s, [Top(s) EXCEPT !.access = toks[Max(at)]])

\* An access keyword with nothing before it is one space deeper than its class.
AccessReports(s, toks, l) ==
    IF /\ s # <<>> /\ Top(s).kind = "class"
       /\ toks = text[l].toks /\ {i \in DOMAIN toks : toks[i] \in AccessWords} = {1}
       /\ text[l].indent # Top(s).indent + 1
    THEN {<<l, "whitespace/indent">>} ELSE {}

Terminators == {"{", "}", ";", ")"}

\* Mutant: an opening brace is always a block of its own.
OpenBlockAlways(s, toks, i, l) == Append(s, BlockInfo)

\* An opening brace completes a head or opens a new block.
OpenBlock(s, toks, i, l) ==
    LET ends == {k \in 1 .. i - 1 : toks[k] \in Terminators}
        rest == Drop(toks, IF ends = {} THEN 0 ELSE Max(ends))
    IN IF ~ SeenOpenBrace(s) THEN SetTop(s, [Top(s) EXCEPT !.seen = TRUE])
       ELSE IF toks = text[l].toks /\ i = 2 /\ toks[1] = "extern" /\ text[l].indent = 0
            THEN Append(s, ExternCInfo)
            ELSE Append(s, [BlockInfo EXCEPT !.asm = IF MatchAsm(rest) THEN "block" ELSE @])

\* A semicolon or parenthesis ends a head that was only a declaration.
EndDeclaration(s) == IF SeenOpenBrace(s) THEN s ELSE Pop(s)

CloseBlock(st, l) ==
    IF st.stack = <<>> THEN st
    ELSE [stack |-> Pop(st.stack), reports |-> st.reports \cup CheckEnd(Top(st.stack), l)]

\* Braces, semicolons and closed parentheses in what is left of the line.
ConsumeBraces(s, toks, l) ==
    FoldLeftDomain(LAMBDA st, i :
        CASE toks[i] = "{" -> [st EXCEPT !.stack = OpenBlock(@, toks, i, l)]
          [] toks[i] \in {";", ")"} -> [st EXCEPT !.stack = EndDeclaration(@)]
          [] toks[i] = "}" -> CloseBlock(st, l)
          [] OTHER -> st,
        [stack |-> s, reports |-> {}], toks)

Update(s, pp, l) ==
    LET toks == text[l].toks
        restored == UpdatePreprocessor(s, pp, toks)
        spaces == ConsumeNamespaces(CountParentheses(restored.stack, toks), toks, l)
        class == ConsumeClass(spaces.stack, spaces.rest, l)
        braces == ConsumeBraces(UpdateAccess(class.stack, class.rest), class.rest, l)
    IN [stack |-> braces.stack, pp |-> restored.pp,
        reports |-> braces.reports \cup AccessReports(class.stack, class.rest, l)]

-----------------------------------------------------------------------------
(* CheckForNamespaceIndentation, on the stack after the line.              *)

IsDirective(toks) == toks # <<>> /\ toks[1] \in {"#if", "#else", "#endif", "#define"}

\* The line pushed a class or namespace onto the namespace that was innermost
\* before it.  A conditional either leaves the stack alone or replaces it by
\* copies, which are not the same objects.
IsNamespaceIndentItem(before, s, l) ==
    /\ Len(s) > 1 /\ CheckNamespaceIndentation(Top(s))
    /\ before # <<>> /\ Top(before).kind = "namespace"
    /\ Len(s) = Len(before) + 1 /\ s[Len(before)].kind = "namespace"
    /\ ~ IsDirective(text[l].toks)

IsForwardClassDeclaration(toks) ==
    LET k == Len(toks)
    IN k >= 3 /\ toks[k - 2] = "class" /\ toks[k - 1] \in Names /\ toks[k] = ";"

IsMacroDefinition(l) ==
    \/ StartsWith(text[l].toks, "#define") /\ text[l].indent = 0
    \/ l > 1 /\ text[l - 1].toks # <<>> /\ Top(text[l - 1].toks) = "backslash"

IsBlockInNameSpace(s, forward) ==
    IF forward THEN s # <<>> /\ Top(s).kind = "namespace"
    ELSE Len(s) > 1 /\ CheckNamespaceIndentation(Top(s)) /\ s[Len(s) - 1].kind = "namespace"

IndentationReports(before, s, l) ==
    LET forward == IsForwardClassDeclaration(text[l].toks)
    IN IF /\ IsNamespaceIndentItem(before, s, l) \/ forward
          /\ ~ IsMacroDefinition(l)
          /\ IsBlockInNameSpace(s, forward)
          /\ text[l].indent > 0
       THEN {<<l, "runtime/indentation_namespace">>} ELSE {}

-----------------------------------------------------------------------------
(* Checks that CheckStyle makes with the stack.                            *)

\* A DISALLOW macro directly in a class is in its private section.
CheckAccess(s, l) ==
    IF /\ StartsWith(text[l].toks, "DISALLOW")
       /\ s # <<>> /\ Top(s).kind = "class" /\ Top(s).access # "private:"
    THEN {<<l, "private section">>} ELSE {}

InnermostClass(s) ==
    LET classes == {i \in DOMAIN s : s[i].kind = "class"}
    IN {s[i] : i \in {j \in classes : j = Max(classes)}}

\* The line on which the head of a class ends, as far as lines before l tell.
EndClassHead(c, l) ==
    LET heads == {i \in c.at .. l - 1 : text[i].toks # <<>> /\ Top(text[i].toks) = "{"}
    IN IF heads = {} THEN c.at ELSE Min(heads)

\* An access keyword in a large class has a blank line before it.
CheckSectionSpacing(c, l) ==
    IF /\ c.last - c.at > SmallClass /\ l > c.at
       /\ text[l].toks # <<>> /\ text[l].toks[1] \in AccessWords
       /\ text[l - 1].toks # <<>>
       /\ \A i \in DOMAIN text[l - 1].toks : text[l - 1].toks[i] \notin {"class", "struct"}
       /\ Top(text[l - 1].toks) # "backslash"
       /\ EndClassHead(c, l) < l - 1
    THEN {<<l, "blank line before section">>} ELSE {}

CheckStyle(s, l) ==
    IF InAsmBlock(s) THEN {}
    ELSE CheckAccess(s, l) \cup UNION {CheckSectionSpacing(c, l) : c \in InnermostClass(s)}

CheckCompletedBlocks(s) ==
    {<<s[i].at, "build/class">> : i \in {j \in DOMAIN s : s[j].kind = "class"}}
      \cup {<<s[i].at, "build/namespaces">> : i \in {j \in DOMAIN s : s[j].kind = "namespace"}}

-----------------------------------------------------------------------------

Init ==
    /\ text \in Texts
    /\ n = 0 /\ stack = <<>> /\ pp_stack = <<>>
    /\ skipped = {} /\ reports = {} /\ done = FALSE

ProcessLine ==
    /\ n < Len(text)
    /\ n' = n + 1
    /\ LET new == Update(stack, pp_stack, n + 1)
       IN /\ stack' = new.stack
          /\ pp_stack' = new.pp
          /\ reports' = reports \cup new.reports \cup CheckStyle(new.stack, n + 1)
                         \cup IndentationReports(stack, new.stack, n + 1)
          /\ skipped' = IF InAsmBlock(new.stack) THEN skipped \cup {n + 1} ELSE skipped
    /\ UNCHANGED <<text, done>>

EndFile ==
    /\ n = Len(text) /\ ~ done
    /\ done' = TRUE
    /\ reports' = reports \cup CheckCompletedBlocks(stack)
    /\ UNCHANGED <<text, n, stack, pp_stack, skipped>>

Next == ProcessLine \/ EndFile

Spec == Init /\ [][Next]_vars

-----------------------------------------------------------------------------
(* The text read as C++: which lines a compiler keeps when every #if holds,*)
(* and which braces are open after them.                                   *)

\* Whether each open conditional is past its #else, and the lines kept.
Conditionals ==
    FoldLeftDomain(LAMBDA c, l :
        LET past == CASE StartsWith(text[l].toks, "#if") -> Append(c.past, FALSE)
                      [] StartsWith(text[l].toks, "#else") /\ c.past # <<>> -> SetTop(c.past, TRUE)
                      [] StartsWith(text[l].toks, "#endif") /\ c.past # <<>> -> Pop(c.past)
                      [] OTHER -> c.past
        IN [past |-> past,
            kept |-> IF \E i \in DOMAIN past : past[i] THEN c.kept ELSE Append(c.kept, l)],
        [past |-> <<>>, kept |-> <<>>], SubSeq(text, 1, n))

InElseBranch == \E i \in DOMAIN Conditionals.past : Conditionals.past[i]

\* The tokens kept so far, with their lines and their places in them.
Kept ==
    LET OnLine(l) == [i \in DOMAIN text[l].toks |->
                         [tok |-> text[l].toks[i], line |-> l, place |-> i]]
        lines == Conditionals.kept
    IN FlattenSeq([k \in DOMAIN lines |-> OnLine(lines[k])])

Between(kept, t, p, q) == Cardinality({i \in p .. q : kept[i].tok = t})

\* The braces that are open at the end, outermost first.
OpenBraces(kept) ==
    LET open(p) == kept[p].tok = "{" /\ \A q \in p .. Len(kept) :
                       Between(kept, "{", p, q) > Between(kept, "}", p, q)
    IN SelectSeq([p \in DOMAIN kept |-> p], open)

HeadWords == {"namespace", "class", "struct"}

\* The position of the head that a brace opens the body of; 0 for none.
HeadOf(kept, p) ==
    LET ends == {q \in 1 .. p - 1 : kept[q].tok \in Terminators \cup {">"}}
        start == IF ends = {} THEN 1 ELSE Max(ends) + 1
        heads == {q \in start .. p - 1 : kept[q].tok \in HeadWords}
    IN IF heads = {} THEN 0 ELSE Min(heads)

KindOf(kept, p) ==
    IF HeadOf(kept, p) = 0 THEN "block"
    ELSE IF kept[HeadOf(kept, p)].tok = "namespace" THEN "namespace" ELSE "class"

\* A head starts its line, or follows namespaces that do, and is finished by
\* its brace or semicolon.
HeadsPlain(kept) ==
    \A p \in DOMAIN kept : kept[p].tok \in HeadWords =>
        /\ kept[p].place = 1 \/ /\ p > 2 /\ kept[p - 1].tok = "{"
                                /\ \E q \in {p - 2, p - 3} \cap DOMAIN kept :
                                     kept[q].tok = "namespace" /\ kept[q].place = 1
                                                               /\ kept[q].line = kept[p].line
        /\ LET next == {q \in p + 1 .. Len(kept) : kept[q].tok \in Terminators \cup HeadWords}
           IN next # {} => kept[Min(next)].tok \in {"{", ";"}

\* No line with a brace or a head leaves a parenthesis open or stands in one,
\* and no parenthesis is closed that was not opened.
ParenthesesPlain(kept) ==
    \A p \in DOMAIN kept :
        /\ Between(kept, "(", 1, p) >= Between(kept, ")", 1, p)
        /\ kept[p].tok \in {"{", "}"} \cup HeadWords =>
              \A q \in DOMAIN kept :
                 (q = Len(kept) \/ kept[q + 1].line # kept[q].line) /\
                 (kept[q].line = kept[p].line \/ (q < p /\ kept[q + 1].line = kept[p].line)) =>
                     Between(kept, "(", 1, q) = Between(kept, ")", 1, q)

HasDirectives == \E l \in DOMAIN text : IsDirective(text[l].toks)

-----------------------------------------------------------------------------
(* Properties.                                                             *)

\* Outside #else branches, the blocks of the stack whose brace was seen are the
\* braces that are open in the lines kept so far, in order and each of the kind
\* its head gives it: no sequence of heads, forward declarations, stray closing
\* braces and conditionals makes Update lose or invent a level.
StackIsOpenBraces ==
    LET kept == Kept
    IN ~ InElseBranch /\ HeadsPlain(kept) /\ ParenthesesPlain(kept) =>
          LET open == OpenBraces(kept)
              blocks == SelectSeq(stack, LAMBDA b : b.seen)
              Kind(b) == IF b.kind = "extern" THEN "block" ELSE b.kind
          IN [i \in DOMAIN blocks |-> Kind(blocks[i])]
               = [i \in DOMAIN open |-> KindOf(kept, open[i])]

\* The closing braces on line l, each with the brace it closes.
Closed(kept, l) ==
    {<<q, p>> \in (DOMAIN kept) \X (DOMAIN kept) :
        /\ q < p /\ kept[q].tok = "{" /\ kept[p].tok = "}" /\ kept[p].line = l
        /\ Between(kept, "{", q, p) = Between(kept, "}", q, p)
        /\ \A r \in q .. p - 1 : Between(kept, "{", q, r) > Between(kept, "}", q, r)}

\* The end of a namespace is reported exactly where a brace closes a namespace
\* that is long or already commented, and the comment does not name it: the
\* namespace NamespaceInfo.CheckEnd looks at is the one the brace closes, with
\* the line and the name of its own head.
NamespaceEndRight ==
    LET kept == Kept
        Wrong(q, l) ==
            LET h == HeadOf(kept, q)
                name == IF kept[h + 1].tok \in Names THEN kept[h + 1].tok ELSE "namespace"
                said == EndComment(text[l])
            IN /\ h # 0 /\ kept[h].tok = "namespace"
               /\ l - kept[h].line >= NamespaceLines \/ said \in Names \cup {"namespace"}
               /\ said # name
    IN ~ HasDirectives /\ HeadsPlain(kept) /\ ParenthesesPlain(kept) =>
          \A l \in 1 .. n : (<<l, "readability/namespace">> \in reports)
                              = (\E c \in Closed(kept, l) : Wrong(c[1], l))

=============================================================================
