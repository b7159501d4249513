---------------------------- MODULE CommentBlocks ----------------------------
(***************************************************************************)
(* check-comment-length.py: no comment block of a scanned file has more    *)
(* content lines than its limit, a higher one if it opens "CRITICAL:".     *)
(*                                                                         *)
(* A line is [shape, text, opens, closes, fence].  Its shape is "blank",   *)
(* "code", "comment", "shebang", "directive" (# syntax=) or "tag" (a line  *)
(* that is one jinja tag); its text, without markers, is "", "words" or    *)
(* "CRITICAL:"; opens and closes are the block delimiters it has, a closer *)
(* only after the opener on the same line; its fence is [char, len, lang], *)
(* char "" on a line that is none.                                         *)
(***************************************************************************)
EXTENDS Sequences, Integers, FiniteSets

(* _record: a block that is over its limit. *)
Allowed(first, limits) == IF first = "CRITICAL:" THEN limits.critical ELSE limits.plain
TooLong(body, limits) ==
    LET content == {k \in DOMAIN body : body[k] # ""}
        first == CHOOSE k \in content : \A m \in content : k <= m
    IN  content # {} /\ Cardinality(content) > Allowed(body[first], limits)

(***************************************************************************)
(* Whole-line comments.                                                    *)
(***************************************************************************)
Scanning(directives) == [run |-> <<>>, preamble |-> directives, beforeBody |-> TRUE, over |-> FALSE]

ScanLine(state, line, limits) ==
    LET comment == line.shape \in {"comment", "directive"} \/ (line.shape = "shebang" /\ ~state.beforeBody)
    IN  IF state.preamble /\ line.shape = "directive" THEN state
        ELSE [run |-> IF comment THEN Append(state.run, line.text) ELSE <<>>,
              preamble |-> FALSE,
              beforeBody |-> state.beforeBody /\ line.shape \in {"blank", "tag"},
              over |-> state.over \/ (~comment /\ TooLong(state.run, limits))]

LineCommentFindings(lines, directives, limits) ==
    LET after[k \in 0..Len(lines)] ==
            IF k = 0 THEN Scanning(directives) ELSE ScanLine(after[k - 1], lines[k], limits)
        last == after[Len(lines)]
    IN  last.over \/ TooLong(last.run, limits)

(***************************************************************************)
(* Delimited comments.                                                     *)
(***************************************************************************)
(* The lines at which the block opened on line s may end: another opener   *)
(* before the closer means that the first one was text.                    *)
Closers(lines, s, delimiter) ==
    {e \in s..Len(lines) : /\ delimiter \in lines[e].closes /\ \A k \in s + 1..e : delimiter \notin lines[k].opens
                           /\ \A k \in s..e - 1 : delimiter \notin lines[k].closes}
Texts(lines, s, e) == [k \in 1..e - s + 1 |-> lines[s + k - 1].text]

BlockCommentFindings(lines, delimiter, limits) ==
    LET From[s \in 1..Len(lines) + 1] ==
            IF s > Len(lines) THEN FALSE
            ELSE IF delimiter \notin lines[s].opens \/ Closers(lines, s, delimiter) = {} THEN From[s + 1]
            ELSE \E e \in Closers(lines, s, delimiter) : TooLong(Texts(lines, s, e), limits) \/ From[e + 1]
    IN  From[1]

(***************************************************************************)
(* Docstrings, of a file that parses as Python, at once or, as a template, *)
(* with its jinja tags taken out ("neutralized").                          *)
(***************************************************************************)
ParsesAsPython(file) == file.parses = "yes" \/ (file.template /\ file.parses = "neutralized")
DocstringFindings(file, limits) == ParsesAsPython(file) /\ \E body \in file.docstrings : TooLong(body, limits)

(***************************************************************************)
(* Fenced code in Markdown.                                                *)
(***************************************************************************)

(* The opener's character, at least as often; what follows is not read. *)
ClosesFence(line, opener) == line.fence.char = opener.fence.char /\ line.fence.len >= opener.fence.len

(* The line after which the block of the fence on line n is over. *)
FenceEnd(lines, n) ==
    LET ends == {k \in n + 1..Len(lines) : ClosesFence(lines[k], lines[n])}
    IN  IF ends = {} THEN Len(lines) + 1 ELSE CHOOSE k \in ends : \A j \in ends : k <= j

FencedFindings(lines, languages, limits) ==
    LET From[n \in 1..Len(lines) + 2] ==
            IF n > Len(lines) THEN FALSE
            ELSE IF lines[n].fence.char = "" THEN From[n + 1]
            ELSE LET end == FenceEnd(lines, n)
                     body == SubSeq(lines, n + 1, end - 1)
                 IN  \/ From[end + 1]
                     \/ \E l \in languages :
                            /\ l.name = lines[n].fence.lang
                            /\ \/ l.markers /\ LineCommentFindings(body, FALSE, limits)
                               \/ \E d \in l.delimiters : BlockCommentFindings(body, d, limits)
    IN  From[1]

(***************************************************************************)
(* A file is [language, template, readable, excluded, included, lines,     *)
(* docstrings, parses]; a language [name, markers, delimiters, directives].*)
(***************************************************************************)
Delimiters(file) == file.language.delimiters \cup IF file.template THEN {"{#"} ELSE {}
Fenced(file, in) == in.fenced /\ file.language.name = "markdown"
Read(file, in) == file.language.markers \/ Delimiters(file) # {} \/ Fenced(file, in)

CheckFile(file, in) ==
    \/ Fenced(file, in) /\ FencedFindings(file.lines, in.languages, in.limits)
    \/ file.language.markers /\ LineCommentFindings(file.lines, file.language.directives, in.limits)
    \/ \E d \in Delimiters(file) : BlockCommentFindings(file.lines, d, in.limits)
    \/ file.language.name = "python" /\ DocstringFindings(file, in.limits)

(* Jinja comments alone do not make a file one to be scanned. *)
Collect(in) ==
    {f \in in.files : /\ f.language.markers \/ f.language.delimiters # {} \/ Fenced(f, in)
                      /\ ~f.excluded /\ (in.include => f.included)}

(* in is [usable, limits, fenced, strictJinja, include, languages, files]. *)
Unreadable(in) == \E f \in Collect(in) : Read(f, in) /\ ~f.readable
Unparsable(in) ==
    \E f \in Collect(in) : f.language.name = "python" /\ ~ParsesAsPython(f) /\ (f.template => in.strictJinja)
Verdict(in) ==
    IF ~in.usable \/ in.limits.plain < 1 \/ in.limits.critical < in.limits.plain
       \/ Collect(in) = {} \/ Unreadable(in) \/ Unparsable(in) THEN 2
    ELSE IF \E f \in Collect(in) : CheckFile(f, in) THEN 1 ELSE 0
=============================================================================
