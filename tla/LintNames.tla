----------------------------- MODULE LintNames -----------------------------
(***************************************************************************)
(* What build-support/cpplint.py makes of file names: the name of a file   *)
(* in its repository (FileInfo.RepositoryName, a walk up the directories), *)
(* the header guard and the kind of include that follow from it, which     *)
(* header a .cc file goes with, and whether it includes that header.       *)
(*                                                                         *)
(* A name is a sequence of words and separators, as <<"/", "a", "/", "b",  *)
(* "_", "test", ".cc">>; an absolute one begins with "/".                  *)
(***************************************************************************)
EXTENDS Integers, Sequences, FiniteSets, FiniteSetsExt, SequencesExt

CONSTANTS Files,        \* absolute names of the files that are linted
          Includes,     \* names of the files they include, in quotes
          Roots,        \* values of --root; <<>> for none
          Markers       \* which of .git, .hg and .svn a directory may hold

VARIABLES filename,     \* the file that is linted
          include,      \* the one file it includes
          root_flag,    \* _root
          markers,      \* what each directory above the file holds
          call,         \* who calls RepositoryName: "guard" or "include"
          stage,        \* "enter", "svn", "up", "named" and at last "judged"
          root_dir,     \* the candidate for the top of the checkout
          name,         \* RepositoryName's result
          verdict       \* what the caller makes of it

vars == <<filename, include, root_flag, markers, call, stage, root_dir, name, verdict>>

Slashes(p) == {i \in DOMAIN p : p[i] = "/"}
From(p, i) == SubSeq(p, i, Len(p))
EndsWith(p, s) == Len(p) >= Len(s) /\ From(p, Len(p) - Len(s) + 1) = s
DropLast(p, k) == SubSeq(p, 1, Len(p) - k)

\* os.path.dirname and basename; the root is its own directory.
Dirname(p) == IF Slashes(p) = {} THEN <<>>
              ELSE IF Max(Slashes(p)) = 1 THEN <<"/">> ELSE SubSeq(p, 1, Max(Slashes(p)) - 1)
Basename(p) == IF Slashes(p) = {} THEN p ELSE From(p, Max(Slashes(p)) + 1)

\* The directories above a file.
Directories(f) == {<<"/">>} \cup {SubSeq(f, 1, i - 1) : i \in Slashes(f) \ {1}}

-----------------------------------------------------------------------------
(* GetHeaderGuardCPPVariable, once the repository name is known.           *)

Separators == {"/", "-", "_", "."}

\* The C++ directories are renamed before the repository name is looked up.
Renamed(f) == [i \in DOMAIN f |-> IF f[i] = "c++" THEN "cpp" ELSE f[i]]

\* --root is removed from the front; what no identifier holds becomes an
\* underscore.  Words are left in lower case.
GetHeaderGuardCPPVariable(p) ==
    LET top == Append(root_flag, "/")
        below == IF root_flag # <<>> /\ IsStrictPrefix(top, p) THEN From(p, Len(top) + 1) ELSE p
    IN Append([i \in DOMAIN below |-> IF below[i] \in Separators THEN "_"
                                      ELSE IF below[i] = ".h" THEN "_h" ELSE below[i]], "_")

-----------------------------------------------------------------------------
(* _ClassifyInclude.                                                       *)

TestWords == {"test", "regtest", "unittest"}
HeaderWords == {"inl", "impl", "internal"}

DropCommonSuffixes(p) ==
    LET k == Len(p)
    IN IF /\ k > 2 /\ p[k - 2] \in {"-", "_"}
          /\ \/ p[k - 1] \in TestWords /\ p[k] = ".cc"
             \/ p[k - 1] \in HeaderWords /\ p[k] = ".h"
       THEN DropLast(p, 3)
       ELSE IF p[k] \in {".cc", ".h"} THEN DropLast(p, 1) ELSE p

\* os.path.normpath(dir + '/../public')
PublicSibling(dir) ==
    IF Slashes(dir) = {} THEN (IF dir = <<>> THEN <<"/", "public">> ELSE <<"public">>)
    ELSE IF Dirname(dir) = <<"/">> THEN <<"/", "public">> ELSE Dirname(dir) \o <<"/", "public">>

\* The words before the first separator.
FirstComponent(base) ==
    LET cut == {i \in DOMAIN base : base[i] \in Separators}
    IN IF cut = {} THEN base ELSE SubSeq(base, 1, Min(cut) - 1)

\* Of includes in quotes; those in angle brackets are told apart by a list.
ClassifyInclude(p, inc) ==
    LET target == DropCommonSuffixes(p)
        included == DropCommonSuffixes(inc)
        first == FirstComponent(Basename(target))
    IN IF /\ Basename(target) = Basename(included)
          /\ Dirname(included) \in {Dirname(target), PublicSibling(Dirname(target))}
       THEN "likely my header"
       ELSE IF first # <<>> /\ first = FirstComponent(Basename(included))
       THEN "possible my header"
       ELSE "other header"

-----------------------------------------------------------------------------
(* FilesBelongToSameModule and CheckHeaderFileIncluded.                    *)

\* Every /public/ or /internal/ becomes /.
RECURSIVE Squeeze(_, _)
Squeeze(p, dir) ==
    LET at == {i \in 1 .. Len(p) - 2 : SubSeq(p, i, i + 2) = <<"/", dir, "/">>}
    IN IF at = {} THEN p
       ELSE SubSeq(p, 1, Min(at)) \o Squeeze(From(p, Min(at) + 3), dir)

ModuleName(p) == Squeeze(Squeeze(p, "public"), "internal")

\* Mutant of FilesBelongToSameModule: the suffix of an -inl header is left on.
FilesBelongToSameModuleInline(cc, h) ==
    LET cc_base == DropLast(cc, 1)
        c == IF \E w \in {"unittest", "test"} : EndsWith(cc_base, <<"_", w>>)
             THEN DropLast(cc_base, 2) ELSE cc_base
        m == DropLast(h, 1)
    IN [same |-> EndsWith(c, m), common_path |-> DropLast(c, IF EndsWith(c, m) THEN Len(m) ELSE 0)]

FilesBelongToSameModule(cc, h) ==
    LET cc_base == DropLast(cc, 1)
        cc_stem == IF \E w \in {"unittest", "test"} : EndsWith(cc_base, <<"_", w>>)
                   THEN DropLast(cc_base, 2) ELSE cc_base
        h_base == DropLast(h, 1)
        h_stem == IF EndsWith(h_base, <<"-", "inl">>) THEN DropLast(h_base, 2) ELSE h_base
        c == ModuleName(cc_stem)
        m == ModuleName(h_stem)
    IN IF EndsWith(cc, <<".cc">>) /\ EndsWith(h, <<".h">>) /\ EndsWith(c, m)
       THEN [same |-> TRUE, common_path |-> DropLast(c, Len(m))]
       ELSE [same |-> FALSE, common_path |-> <<>>]

Within(q, p) == \E i \in 0 .. Len(p) - Len(q) : SubSeq(p, i + 1, i + Len(q)) = q

\* TRUE for a complaint.  The header of the file is there, beside it.
CheckHeaderFileIncluded(p, inc) ==
    /\ EndsWith(p, <<".cc">>)
    /\ ~ \E w \in {"test", "unittest"} : EndsWith(p, <<"_", w, ".cc">>)
    /\ LET headername == Append(DropLast(p, 1), ".h")
       IN ~ Within(headername, inc) /\ ~ Within(inc, headername)

-----------------------------------------------------------------------------
(* FileInfo.RepositoryName, one directory at a time.                       *)

fullname == IF call = "guard" THEN Renamed(filename) ELSE filename
Has(dir, marker) == marker \in markers[dir]

\* fullname[len(prefix) + 1:]; below "/" this cuts a character off a word.
Below(f, dir) == IF dir = <<"/">> THEN <<"cut">> \o From(f, 3) ELSE From(f, Len(dir) + 2)

Init ==
    /\ filename \in Files
    /\ include \in Includes
    /\ root_flag \in Roots
    /\ markers \in [Directories(filename) -> SUBSET Markers]
    /\ call \in {"guard", "include"}
    /\ stage = "enter"
    /\ root_dir = <<>>
    /\ name = <<>>
    /\ verdict = [kind |-> "none"]

Asked == UNCHANGED <<filename, include, root_flag, markers, call, verdict>>
Return(result) == name' = result /\ stage' = "named"

\* A file that was renamed does not exist under its new name.
EnterRepositoryName ==
    /\ stage = "enter"
    /\ IF fullname # filename
       THEN Return(fullname) /\ UNCHANGED root_dir
       ELSE /\ root_dir' = Dirname(fullname)
            /\ stage' = IF Has(root_dir', ".svn") THEN "svn" ELSE "up"
            /\ UNCHANGED name
    /\ Asked

\* Mutant of SvnStep: the directory of the file is taken for the top.
SvnStepStays ==
    /\ stage = "svn"
    /\ Return(Below(fullname, root_dir)) /\ UNCHANGED root_dir
    /\ Asked

SvnStep ==
    /\ stage = "svn"
    /\ IF Has(Dirname(root_dir), ".svn")
       THEN root_dir' = Dirname(root_dir) /\ UNCHANGED <<stage, name>>
       ELSE Return(Below(fullname, root_dir)) /\ UNCHANGED root_dir
    /\ Asked

UpStep ==
    /\ stage = "up"
    /\ IF root_dir # Dirname(root_dir) /\ markers[root_dir] = {}
       THEN root_dir' = Dirname(root_dir) /\ UNCHANGED <<stage, name>>
       ELSE /\ Return(IF markers[root_dir] # {} THEN Below(fullname, root_dir) ELSE fullname)
            /\ UNCHANGED root_dir
    /\ Asked

Judge ==
    /\ stage = "named"
    /\ stage' = "judged"
    /\ verdict' = IF call = "guard"
                  THEN [kind |-> "guard", variable |-> GetHeaderGuardCPPVariable(name)]
                  ELSE [kind |-> ClassifyInclude(name, include),
                        module |-> FilesBelongToSameModule(filename, include),
                        complaint |-> CheckHeaderFileIncluded(name, include)]
    /\ UNCHANGED <<filename, include, root_flag, markers, call, root_dir, name>>

Next == EnterRepositoryName \/ SvnStep \/ UpStep \/ Judge

Spec == Init /\ [][Next]_vars /\ WF_vars(Next)
-----------------------------------------------------------------------------
(* Properties.                                                             *)

\* The file is in one checkout, with its top at r: the only marker is there, or
\* every directory of the checkout holds a .svn, as Subversion did up to 1.6.
CheckedOutAt(r) ==
    LET held == {d \in DOMAIN markers : markers[d] # {}}
    IN /\ r \in held
       /\ \/ held = {r}
          \/ /\ held = {d \in DOMAIN markers : Len(d) >= Len(r)}
             /\ \A d \in held : Has(d, ".svn")

HasWord(f, w) == \E i \in DOMAIN f : f[i] = w

\* Wherever a project is checked out, and whichever tool did it, the header guard
\* asked of a file comes from its path in the project alone (RepositoryName,
\* GetHeaderGuardCPPVariable).  Checkouts at "/" and C++ directories are apart.
GuardIsProjectPath ==
    stage = "judged" /\ call = "guard" /\ ~ HasWord(filename, "c++") =>
        \A r \in DOMAIN markers \ {<<"/">>} :
            CheckedOutAt(r) =>
                verdict.variable = GetHeaderGuardCPPVariable(From(filename, Len(r) + 2))

\* The include order check and the include-what-you-use check agree on a file's
\* own header: one in its directory that _ClassifyInclude takes for its own, of a
\* suffix both of them know, is of the same module for FilesBelongToSameModule,
\* and the prefix that this returns leads to the directory of the file.
OwnHeaderIsOpened ==
    stage = "judged" /\ call = "include" /\ EndsWith(filename, <<".cc">>) =>
        \A r \in DOMAIN markers \ {<<"/">>} :
            /\ CheckedOutAt(r)
            /\ verdict.kind = "likely my header"
            /\ Dirname(include) = Dirname(name)
            /\ ~ \E w \in {"impl", "internal", "public", "regtest"} :
                   HasWord(filename, w) \/ HasWord(include, w)
            => /\ verdict.module.same
               /\ Dirname(verdict.module.common_path \o include) = Dirname(filename)

=============================================================================
