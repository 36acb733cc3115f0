---------------------------- MODULE LintCleanse ----------------------------
(***************************************************************************)
(* How build-support/cpplint.py takes comments and strings out of a file   *)
(* before it lints it: ProcessFileData with CheckForCopyright,             *)
(* RemoveMultiLineComments, CleansedLines and the checks on whole files.   *)
(*                                                                         *)
(* A line is a sequence of characters; "x" stands for any letter that is   *)
(* no escape, "d" for one that is also a hexadecimal digit, "1" for a      *)
(* digit, "bad" for a NUL or replacement character, "(c)" for the word     *)
(* Copyright.  Blanks are left out.                                        *)
(***************************************************************************)
EXTENDS Integers, Sequences, FiniteSets, FiniteSetsExt, SequencesExt

CONSTANTS Files,            \* the files that are read, as sequences of lines
          CopyrightLines    \* 10 in the code: where the copyright is looked for

VARIABLES text,         \* the file as read
          lines,        \* ProcessFileData's lines: the file between two markers
          stage,        \* the step ProcessFileData is at
          lineix,       \* next line of the step's loop
          delimiter,    \* end of the raw string being read, <<>> outside one
          nocomment,    \* CleansedLines.lines
          elided,       \* CleansedLines.elided
          reports       \* errors: pairs <<line number, category>>

vars == <<text, lines, stage, lineix, delimiter, nocomment, elided, reports>>

\* lines[k + 1] is the code's lines[k]: the first marker has index 0.
Number(k) == k - 1
Marker == <<"/", "/">>

Quote == "\""
EmptyString == <<Quote, Quote>>

At(line, i, s) == i + Len(s) - 1 <= Len(line) /\ SubSeq(line, i, i + Len(s) - 1) = s
Places(line, s) == {i \in DOMAIN line : At(line, i, s)}
Find(line, s) == IF Places(line, s) = {} THEN 0 ELSE Min(Places(line, s))
From(line, i) == SubSeq(line, i, Len(line))
Before(line, i) == SubSeq(line, 1, i - 1)
Occurs(line, c) == Cardinality({i \in DOMAIN line : line[i] = c})
WordChars == {"x", "d", "R", "1"}

RECURSIVE Replace(_, _, _)
Replace(line, old, new) ==
    LET p == Find(line, old)
    IN IF p = 0 THEN line
       ELSE Before(line, p) \o new \o Replace(From(line, p + Len(old)), old, new)

\* Occurrences of s that do not overlap.
Count(line, s) == (Len(line) - Len(Replace(line, s, <<>>))) \div Len(s)

CommentStart == <<"/", "*">>
CommentEnd == <<"*", "/">>
LineComment == <<"/", "/">>
ClearedLine == <<"/", "*", "*", "/">>

-----------------------------------------------------------------------------
(* RemoveMultiLineComments.                                                *)

\* A line begins a comment that goes beyond it; a line ends one.
StartsComment(line) ==
    At(line, 1, CommentStart) /\ \A i \in Places(line, CommentEnd) : i < 3
EndsComment(line) == Len(line) >= 2 /\ At(line, Len(line) - 1, CommentEnd)

FindNextMultiLineCommentStart(from) ==
    LET found == {k \in from .. Len(lines) : StartsComment(lines[k])}
    IN IF found = {} THEN Len(lines) + 1 ELSE Min(found)

FindNextMultiLineCommentEnd(from) ==
    LET found == {k \in from .. Len(lines) : EndsComment(lines[k])}
    IN IF found = {} THEN Len(lines) + 1 ELSE Min(found)

RemoveMultiLineCommentsFromRange(begin, end) ==
    [k \in DOMAIN lines |-> IF k \in begin .. end THEN ClearedLine ELSE lines[k]]

-----------------------------------------------------------------------------
(* CleansedLines.                                                          *)

\* The last start of a raw string on a line: where it starts and where its
\* body does.
RawStarts(line) ==
    {<<p, b>> \in (DOMAIN line) \X (DOMAIN line) :
        /\ p + 1 < b /\ line[p] = "R" /\ line[p + 1] = Quote /\ line[b] = "("
        /\ p = 1 \/ line[p - 1] \notin WordChars
        /\ \A i \in p + 2 .. b - 1 : line[i] \notin {"(", ")", "\\", "nl"}}

\* Replace the raw strings of a line, last one first.
RECURSIVE ReplaceRawStrings(_)
ReplaceRawStrings(line) ==
    IF RawStarts(line) = {} THEN [line |-> line, delimiter |-> <<>>]
    ELSE LET p == Max({s[1] : s \in RawStarts(line)})
             b == Max({s[2] : s \in {r \in RawStarts(line) : r[1] = p}})
             delim == <<")">> \o SubSeq(line, p + 2, b - 1) \o <<Quote>>
             rest == From(line, b + 1)
             end == Find(rest, delim)
         IN IF end = 0
            THEN [line |-> Before(line, p) \o EmptyString, delimiter |-> delim]
            ELSE ReplaceRawStrings(Before(line, p) \o EmptyString
                                                   \o From(rest, end + Len(delim)))

\* Mutant: any raw string end will do.
CleanseRawStringsAnyEnd(line, delim) ==
    IF delim = <<>> THEN ReplaceRawStrings(line)
    ELSE LET end == Find(line, <<")">>)
         IN IF end = 0 THEN [line |-> EmptyString, delimiter |-> delim]
            ELSE ReplaceRawStrings(EmptyString \o From(line, end + Len(delim)))

\* One line of CleanseRawStrings: first the raw string it may start in.
CleanseRawStrings(line, delim) ==
    IF delim = <<>> THEN ReplaceRawStrings(line)
    ELSE LET end == Find(line, delim)
         IN IF end = 0 THEN [line |-> EmptyString, delimiter |-> delim]
            ELSE ReplaceRawStrings(EmptyString \o From(line, end + Len(delim)))

EscapedBackslash == <<"\\", "\\">>

\* Whether the character after line would be in a string.
IsCppString(line) ==
    LET l == Replace(line, EscapedBackslash, <<"x", "x">>)
    IN (Count(l, <<Quote>>) - Count(l, <<"\\", Quote>>) - Count(l, <<"'", Quote, "'">>)) % 2 = 1

RECURSIVE RemoveComments(_)
RemoveComments(line) ==
    LET begin == Find(line, CommentStart)
        end == IF begin = 0 THEN 0 ELSE Find(From(line, begin + 2), CommentEnd)
    IN IF end = 0 THEN line
       ELSE Before(line, begin) \o RemoveComments(From(line, begin + 2 + end + 1))

CleanseComments(line) ==
    LET pos == Find(line, LineComment)
    IN IF pos # 0 /\ ~ IsCppString(Before(line, pos))
       THEN RemoveComments(Before(line, pos)) ELSE RemoveComments(line)

RECURSIVE RemoveEscapes(_)
RemoveEscapes(line) ==
    LET escapes == {i \in 1 .. Len(line) - 1 :
                       line[i] = "\\" /\ line[i + 1] \in {Quote, "\\", "'", "1"}}
        p == Min(escapes)
        ends == {i \in p + 2 .. Len(line) + 1 : \A k \in p + 1 .. i - 1 : line[k] = "1"}
    IN IF escapes = {} THEN line
       ELSE Before(line, p) \o RemoveEscapes(From(line, Max(ends \cup {p + 2})))

\* A number at the end of what comes before a single quote.
EndsInNumber(head) ==
    \E i \in DOMAIN head :
        /\ head[i] = "1" /\ (i = 1 \/ head[i - 1] \notin WordChars)
        /\ \A k \in i .. Len(head) : head[k] \in {"1", "d"}

\* The length of the digits, with separators, at the beginning of a line.
LiteralLength(line) ==
    Max({k \in 0 .. Len(line) :
            \A i \in 1 .. k : \/ line[i] \in WordChars
                              \/ line[i] = "'" /\ i < k /\ line[i + 1] \in WordChars})

RECURSIVE CollapseQuotes(_)
CollapseQuotes(line) ==
    LET quotes == {i \in DOMAIN line : line[i] \in {Quote, "'"}}
        p == Min(quotes)
        head == Before(line, p)
        second == Find(From(line, p + 1), <<line[p]>>)
        digits == LiteralLength(From(line, p))
    IN CASE quotes = {} -> line
         [] quotes # {} /\ line[p] = "'" /\ EndsInNumber(head) ->
               head \o SelectSeq(SubSeq(line, p, p + digits - 1), LAMBDA c : c # "'")
                    \o CollapseQuotes(From(line, p + digits))
         [] OTHER -> IF second = 0 THEN line
                     ELSE head \o <<line[p], line[p]>> \o CollapseQuotes(From(line, p + second + 1))

IsInclude(line) ==
    At(line, 1, <<"#include", Quote>>) /\ Occurs(line, Quote) > 1

CollapseStrings(line) ==
    IF IsInclude(line) THEN line ELSE CollapseQuotes(RemoveEscapes(line))

-----------------------------------------------------------------------------
(* Checks on lines and files.                                              *)

CheckForCopyright ==
    IF \E k \in 2 .. Min({Len(lines), CopyrightLines + 1}) : Occurs(lines[k], "(c)") > 0
    THEN {} ELSE {<<0, "legal/copyright">>}

CheckForMultilineCommentsAndStrings(line, k) ==
    LET l == Replace(line, EscapedBackslash, <<>>)
    IN (IF Count(l, CommentStart) > Count(l, CommentEnd)
        THEN {<<Number(k), "complex comment">>} ELSE {})
         \cup (IF (Count(l, <<Quote>>) - Count(l, <<"\\", Quote>>)) % 2 = 1
               THEN {<<Number(k), "multiline string">>} ELSE {})

CheckForBadCharacters ==
    {<<Number(k), "bad character">> : k \in {j \in DOMAIN lines : Occurs(lines[j], "bad") > 0}}

CheckForNewlineAtEOF ==
    IF Len(lines) < 3 \/ lines[Len(lines) - 1] # <<>>
    THEN {<<Len(lines) - 2, "ending newline">>} ELSE {}

-----------------------------------------------------------------------------
(* ProcessFileData.                                                        *)

Init ==
    /\ text \in Files
    /\ lines = <<Marker>> \o text \o <<Marker>>
    /\ stage = "copyright" /\ lineix = 1 /\ delimiter = <<>>
    /\ nocomment = <<>> /\ elided = <<>> /\ reports = {}

Copyright ==
    /\ stage = "copyright"
    /\ stage' = "comments"
    /\ reports' = reports \cup CheckForCopyright
    /\ UNCHANGED <<text, lines, lineix, delimiter, nocomment, elided>>

\* One comment is removed; the last one may have no end.
RemoveMultiLineComments ==
    /\ stage = "comments"
    /\ LET begin == FindNextMultiLineCommentStart(lineix)
           end == FindNextMultiLineCommentEnd(begin)
       IN \/ /\ begin > Len(lines)
             /\ stage' = "cleanse" /\ lineix' = 1
             /\ UNCHANGED <<lines, reports>>
          \/ /\ begin <= Len(lines) /\ end > Len(lines)
             /\ reports' = reports \cup {<<Number(begin) + 1, "unfinished comment">>}
             /\ stage' = "cleanse" /\ lineix' = 1
             /\ UNCHANGED lines
          \/ /\ begin <= Len(lines) /\ end <= Len(lines)
             /\ lines' = RemoveMultiLineCommentsFromRange(begin, end)
             /\ lineix' = end + 1
             /\ UNCHANGED <<stage, reports>>
    /\ UNCHANGED <<text, delimiter, nocomment, elided>>

CleanseLine ==
    /\ stage = "cleanse" /\ lineix <= Len(lines)
    /\ LET raw == CleanseRawStrings(lines[lineix], delimiter)
       IN /\ delimiter' = raw.delimiter
          /\ nocomment' = Append(nocomment, CleanseComments(raw.line))
          /\ elided' = Append(elided, CleanseComments(CollapseStrings(raw.line)))
    /\ lineix' = lineix + 1
    /\ UNCHANGED <<text, lines, stage, reports>>

\* The loop over ProcessLine, as far as it looks at what was taken out.
ProcessLines ==
    /\ stage = "cleanse" /\ lineix > Len(lines)
    /\ stage' = "check"
    /\ reports' = reports \cup
          UNION {CheckForMultilineCommentsAndStrings(elided[k], k) : k \in DOMAIN lines}
    /\ UNCHANGED <<text, lines, lineix, delimiter, nocomment, elided>>

CheckFile ==
    /\ stage = "check"
    /\ stage' = "done"
    /\ reports' = reports \cup CheckForBadCharacters \cup CheckForNewlineAtEOF
    /\ UNCHANGED <<text, lines, lineix, delimiter, nocomment, elided>>

Next == Copyright \/ RemoveMultiLineComments \/ CleanseLine \/ ProcessLines \/ CheckFile

Spec == Init /\ [][Next]_vars

-----------------------------------------------------------------------------
(* The file read as C++, character by character: what is code, with every  *)
(* string and character literal left as its two quotes.                    *)

Chars == FlattenSeq([k \in DOMAIN text |-> Append(text[k], "nl")])

Emit(st, s) == [st EXCEPT !.code = Front(@) \o <<Last(@) \o s>>]
Enter(st, mode, i) == [st EXCEPT !.mode = mode, !.skip = i]
Note(st, what) == [st EXCEPT !.odd = @ \cup {what}]

\* The lexer's state: its mode, the place up to which characters are consumed,
\* the code of each line so far, the lines that comments reach over, the end of
\* the raw string it is in, and what makes the file hard to read.
LexNewline(st) ==
    [Note(st, CASE st.mode = "string" -> "open string"
                 [] st.mode = "char" -> "open character"
                 [] st.mode = "raw" /\ st.raws > 1 -> "open raw string after another"
                 [] OTHER -> "") EXCEPT
        !.raws = 0,
        !.mode = IF @ \in {"block", "raw"} THEN @ ELSE "code",
        !.code = Append(@, IF st.mode = "raw" THEN EmptyString ELSE <<>>),
        !.multi = IF st.mode = "block" THEN @ \cup {Len(st.code), Len(st.code) + 1} ELSE @]

LexCode(st, i) ==
    LET raws == {r \in RawStarts(Chars) : r[1] = i}
        c == Chars[i]
    IN CASE At(Chars, i, LineComment) -> Enter(st, "line", i + 2)
         [] At(Chars, i, CommentStart) -> Enter(st, "block", i + 2)
         [] raws # {} ->
               LET b == (CHOOSE r \in raws : TRUE)[2]
               IN Emit([Enter(st, "raw", b + 1) EXCEPT !.raws = @ + 1,
                           !.delim = <<")">> \o SubSeq(Chars, i + 2, b - 1) \o <<Quote>>],
                       EmptyString)
         [] c = Quote /\ raws = {} -> Emit(Enter(st, "string", i + 1), EmptyString)
         [] c = "'" -> IF EndsInNumber(Last(st.code)) /\ Chars[i + 1] \in WordChars THEN st
                       ELSE Emit(Enter(st, "char", i + 1), <<"'", "'">>)
         [] c = "\\" \/ At(Chars, i, CommentEnd) -> Note(Emit(st, <<c>>), "strange code")
         [] OTHER -> Emit(st, <<c>>)

LexComment(st, i) ==
    IF st.mode = "block" /\ At(Chars, i, CommentEnd)
    THEN Note(Enter(st, "code", i + 2),
              IF Len(st.code) \in st.multi /\ Chars[i + 2] # "nl" THEN "tail" ELSE "")
    ELSE IF Chars[i] \in {Quote, "'", "R", "/", "*"} THEN Note(st, "strange comment") ELSE st

LexLiteral(st, i) ==
    LET quote == IF st.mode = "string" THEN Quote ELSE "'"
    IN IF st.mode = "raw"
       THEN IF At(Chars, i, st.delim) THEN Enter(st, "code", i + Len(st.delim))
            ELSE IF \E r \in RawStarts(Chars) : r[1] = i THEN Note(st, "raw start in raw string")
            ELSE st
       ELSE CASE Chars[i] = "\\" -> Enter(st, st.mode, i + 2)
              [] Chars[i] = quote -> Enter(st, "code", i + 1)
              [] OTHER -> st

Lexed ==
    FoldLeftDomain(LAMBDA st, i :
        CASE i < st.skip -> st
          [] i >= st.skip /\ Chars[i] = "nl" -> LexNewline(st)
          [] i >= st.skip /\ Chars[i] # "nl" /\ st.mode = "code" -> LexCode(st, i)
          [] i >= st.skip /\ Chars[i] # "nl" /\ st.mode \in {"line", "block"} -> LexComment(st, i)
          [] OTHER -> LexLiteral(st, i),
        [mode |-> "code", skip |-> 0, code |-> << <<>> >>, multi |-> {}, delim |-> <<>>,
         raws |-> 0, odd |-> {""}],
        Chars)

-----------------------------------------------------------------------------
(* Properties.                                                             *)

Complaints == {"complex comment", "multiline string", "unfinished comment"}
Silent == \A r \in reports : r[2] \notin Complaints

\* Where the linter does not complain, the elided lines are the code a compiler
\* sees, with literals left as empty quotes: no quote inside a comment-free
\* line, escape, digit separator, comment marker in a string or raw string over
\* several lines makes CleansedLines drop code or keep what is not code.
\* Excepted are the files that the lexer above finds odd.
ElidedRight ==
    LET lexed == Lexed
    IN stage = "done" /\ Silent /\ lexed.odd = {""} /\ lexed.mode = "code" =>
          \A k \in DOMAIN text : ~ IsInclude(text[k]) => elided[k + 1] = lexed.code[k]

=============================================================================
