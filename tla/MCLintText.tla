---------------------------- MODULE MCLintText -----------------------------
(***************************************************************************)
(* How the linter reads a file: LintCleanse, LintNesting and               *)
(* LintExpressions on small files.  The three share nothing that changes,  *)
(* so each behaviour is one of them (part says which) while the variables  *)
(* of the others rest.                                                     *)
(***************************************************************************)
EXTENDS Integers, Sequences, FiniteSets, FiniteSetsExt, SequencesExt

VARIABLES part,
          text, lines, stage, lineix, delimiter, nocomment, elided, reports,
          code, n, blocks, pp_stack, skipped, errors, done,
          expression, start, phase, at, stack, end, back

cleanse == <<text, lines, stage, lineix, delimiter, nocomment, elided, reports>>
nesting == <<code, n, blocks, pp_stack, skipped, errors, done>>
expressions == <<expression, start, phase, at, stack, end, back>>

-----------------------------------------------------------------------------
(* LintCleanse: literals with their escapes on one line, comments over     *)
(* three lines, raw strings over two.                                      *)

Upto(k, symbols) == UNION {[1 .. j -> symbols] : j \in 0 .. k}
Joined(k, pieces) == {FlattenSeq(p) : p \in Upto(k, pieces)}
FilesOf(k, ls) == UNION {[1 .. j -> ls] : j \in 1 .. k}

QuoteSign == "\""
LiteralLines ==
    Upto(4, {QuoteSign, "'", "\\", "x", "1"}) \cup Upto(4, {QuoteSign, "'", "/", "*", "x"})
      \cup {<<"#include", QuoteSign, "x", QuoteSign>>}
CommentLines == Joined(2, {<<"/", "*">>, <<"*", "/">>, <<"/", "/">>, <<"x">>, <<QuoteSign>>})
RawLines == Joined(3, {<<"R", QuoteSign, "(">>, <<"R", QuoteSign, "d", "(">>, <<")", QuoteSign>>,
                       <<")", "d", QuoteSign>>, <<"x">>})

C == INSTANCE LintCleanse WITH
        Files <- FilesOf(1, LiteralLines) \cup FilesOf(3, CommentLines) \cup FilesOf(2, RawLines),
        CopyrightLines <- 2

-----------------------------------------------------------------------------
(* LintNesting: four lines of namespaces and classes, five of conditionals *)
(* around heads, and four of each other kind of line.                      *)

L(toks) == [indent |-> 0, toks |-> toks, comment |-> "none"]
Indented(toks) == [indent |-> 2, toks |-> toks, comment |-> "none"]
Commented(toks, comment) == [indent |-> 0, toks |-> toks, comment |-> comment]

\* Namespaces and classes, forward declarations and heads without a brace.
BlockLines ==
    {L(<<"namespace", "A", "{">>), L(<<"namespace", "B", "{", "namespace", "{">>),
     L(<<"class", "A">>), L(<<"{">>), Indented(<<"struct", "B", "{">>),
     Indented(<<"class", "B", ";">>), L(<<"}", ";">>), Commented(<<"}">>, "A"),
     Commented(<<"}">>, "namespace"), Indented(<<"}", "}">>)}

\* Conditionals around heads, braces, parentheses and access keywords.
ConditionalLines ==
    {L(<<"#if">>), L(<<"#else">>), L(<<"#endif">>), L(<<"class", "A", "{">>),
     L(<<"}">>), L(<<"(", "public:">>)}

\* Inline assembly, as a statement and as a block.
AsmLines ==
    {L(<<"x", "(", ")", "{">>), L(<<"asm", "(">>), L(<<"(", "x", ")">>), L(<<")", ";">>),
     L(<<"asm", "{">>), L(<<"}">>), L(<<"asm", "(", ")", ";">>)}

\* Sections of classes.
SectionLines ==
    {L(<<"class", "A", "{">>), L(<<"struct", "B", "{", "private:">>), L(<<"public:">>),
     [L(<<"private:">>) EXCEPT !.indent = 1], L(<<"DISALLOW", "A">>), L(<<"}", ";">>),
     L(<<"template", "<>", "class", "A", "{">>), L(<<"x", "(", ")", "{">>)}

\* Heads that turn out not to be class bodies.
OtherHeads ==
    {L(<<"extern", "{">>), L(<<"class", "A", ">">>), L(<<"class", "A">>), L(<<"x", "{">>),
     L(<<"#define", "backslash">>), Indented(<<"class", "B", "{">>), L(<<"namespace", "A", "{">>),
     L(<<"}">>)}

\* Heads with template arguments.
TemplateHeads ==
    {L(<<"class", "A", ".", ">">>), L(<<"class", "B", "<>", "{">>),
     L(<<"class", "B", "<>", "[", "]", ">">>)}

N == INSTANCE LintNesting WITH
        text <- code, stack <- blocks, reports <- errors,
        Texts <- FilesOf(4, BlockLines) \cup FilesOf(5, ConditionalLines) \cup FilesOf(4, AsmLines)
                   \cup FilesOf(4, SectionLines) \cup FilesOf(4, OtherHeads)
                   \cup FilesOf(3, OtherHeads \cup TemplateHeads),
        Names <- {"A", "B"}, NamespaceLines <- 3, SmallClass <- 2

-----------------------------------------------------------------------------
(* LintExpressions: two lines of three characters, and single lines of     *)
(* comparisons, of arrows and of the word operator between blanks.         *)

TwoLines == [1 .. 2 -> Upto(3, {"(", ")", "[", "<", ">", ";"})]
OneLine == [1 .. 1 -> Upto(6, {"(", "<", ">", "=", " "})
                        \cup Upto(5, {"(", ")", "<", ">", "=", " "})
                        \cup Upto(5, {"(", ")", "<", ">", "-", " ", "operator"})]

E == INSTANCE LintExpressions WITH elided <- expression, Texts <- TwoLines \cup OneLine

-----------------------------------------------------------------------------
CleanseRests ==
    /\ text = <<>> /\ lines = <<>> /\ stage = "rests" /\ lineix = 0 /\ delimiter = <<>>
    /\ nocomment = <<>> /\ elided = <<>> /\ reports = {}

NestingRests ==
    /\ code = <<>> /\ n = 0 /\ blocks = <<>> /\ pp_stack = <<>> /\ skipped = {}
    /\ errors = {} /\ done = FALSE

ExpressionsRest ==
    /\ expression = <<>> /\ start = <<>> /\ phase = "rests" /\ at = <<>> /\ stack = <<>>
    /\ end = <<>> /\ back = <<>>

Init ==
    \/ part = "cleanse" /\ C!Init /\ NestingRests /\ ExpressionsRest
    \/ part = "nesting" /\ N!Init /\ CleanseRests /\ ExpressionsRest
    \/ part = "expressions" /\ E!Init /\ CleanseRests /\ NestingRests

Next ==
    \/ part = "cleanse" /\ C!Next /\ UNCHANGED <<part, nesting, expressions>>
    \/ part = "nesting" /\ N!Next /\ UNCHANGED <<part, cleanse, expressions>>
    \/ part = "expressions" /\ E!Next /\ UNCHANGED <<part, cleanse, nesting>>

Spec == Init /\ [][Next]_<<part, cleanse, nesting, expressions>>

-----------------------------------------------------------------------------
\* LintCleanse: where the linter does not complain, CleansedLines.elided is the
\* code that a compiler sees, with literals left as empty quotes.
ElidedRight == part = "cleanse" => C!ElidedRight

\* LintNesting: the blocks that NestingState has on its stack are the braces
\* that are open in the lines kept so far, each of the kind its head gives it.
StackIsOpenBraces == part = "nesting" => N!StackIsOpenBraces

\* LintNesting: the end of a namespace is reported exactly where a brace closes
\* a long or commented namespace and the comment does not name it.
NamespaceEndRight == part = "nesting" => N!NamespaceEndRight

\* LintExpressions: CloseExpression finds the bracket that matches when < and >
\* are ignored, and nothing when there is none.
BracketsMatch == part = "expressions" => E!BracketsMatch

\* LintExpressions: ReverseCloseExpression leads from there back to the start.
ReverseIsInverse == part = "expressions" => E!ReverseIsInverse
=============================================================================
