------------------------------- MODULE Liner -------------------------------
(***************************************************************************)
(* The liner of index/service/line.go and the loop of saveResponseEntries  *)
(* (index/service/indexer.go) that asks it for the context lines of every  *)
(* tag the extractor reports in one file.  IndexFile drives it: it sets    *)
(* content to what the liner's bufio.Scanner yields for the buffer and     *)
(* entries to what the extractor returned, then takes SaveEntry steps.     *)
(*                                                                         *)
(* The scanner's output is the sequence of lines it yields and whether it  *)
(* stops at EOF or with an error (a line over the token limit).  Scan      *)
(* succeeds exactly while lineNumber is below the number of lines, since   *)
(* every successful Scan increments it, so each loop of the liner is       *)
(* stated by the line it stops at.                                         *)
(***************************************************************************)
EXTENDS Naturals, Sequences, TLC

VARIABLES
    content,   \* the lines the scanner yields for the buffer
    scanErr,   \* the scanner stops with an error instead of EOF
    entries,   \* line numbers of the tags, in the extractor's order
    liner,     \* [lineNumber, lines (a map), done]
    k,         \* entries handled so far by saveResponseEntries
    saved,     \* the IndexEntry context fields built so far
    result     \* "running", or the return of saveResponseEntries

vars == <<content, scanErr, entries, liner, k, saved, result>>

MinOf(a, b) == IF a < b THEN a ELSE b

\* newLiner(content)
NewLiner == [lineNumber |-> 0, lines |-> <<>>, done |-> FALSE]

\* Scan() after lineNumber lines succeeds while there is a next line.
CanScan(l) == l.lineNumber < Len(content)

\* Scan and keep, one by one, every line above lineNumber up to line `to`.
Keep(l, to) ==
    [l EXCEPT !.lines = [i \in l.lineNumber + 1..to |-> content[i]] @@ @,
              !.lineNumber = IF to > @ THEN to ELSE @]

\* Mutant: the first loop runs to n-1, so line n-1 is not kept either.
SkipToOffByOne(n, l) ==
    [l EXCEPT !.lineNumber = IF @ < n - 1 THEN MinOf(n - 1, Len(content)) ELSE @]

\* The first loop: Scan, without keeping them, the lines up to n-2.  It
\* stops at the last line when the content ends first.
SkipTo(n, l) ==
    [l EXCEPT !.lineNumber = IF @ < n - 2 THEN MinOf(n - 2, Len(content)) ELSE @]

\* ... and then returns an error.
SkipFails(n, l) == l.lineNumber < n - 2 /\ Len(content) < n - 2

\* The second loop, for ln from n-2 to n: every line above lineNumber is
\* scanned and kept (a kept line is never above lineNumber, so the map test
\* skips no other).  It returns an error when the content ends before n.
Fill(n, l) == Keep(l, MinOf(n, Len(content)))

\* Line n+1 "may not exist": a failed Scan sets done unless the scanner
\* stopped with an error.
ReadAhead(l) ==
    IF CanScan(l) THEN Keep(l, l.lineNumber + 1) ELSE [l EXCEPT !.done = ~scanErr]

\* Mutant: line n+1 is counted before Scan reports whether it exists.
AdvanceCountingFailedScan(n, l) ==
    LET f == Fill(n, SkipTo(n, l)) IN
    CASE l.done              -> l
      [] SkipFails(n, l)     -> SkipTo(n, l)
      [] Len(content) < n    -> f
      [] CanScan(f)          -> Keep(f, f.lineNumber + 1)
      [] OTHER               -> [f EXCEPT !.done = ~scanErr, !.lineNumber = @ + 1]

\* advanceToLineNumber(n); its error is dropped by getLine, so only the
\* liner it leaves matters.
AdvanceToLineNumber(n, l) ==
    LET f == Fill(n, SkipTo(n, l)) IN
    CASE l.done              -> l
      [] SkipFails(n, l)     -> SkipTo(n, l)
      [] Len(content) < n    -> f
      [] OTHER               -> ReadAhead(f)

\* getLine(n): the line (the map's zero value "" if it was never kept)
\* and the error.
GetLine(n, l) ==
    IF n <= 0 THEN [liner |-> l, line |-> "", err |-> "invalid"]
    ELSE LET a == AdvanceToLineNumber(n, l) IN
         IF n > a.lineNumber THEN [liner |-> a, line |-> "", err |-> "notExist"]
         ELSE [liner |-> a, line |-> IF n \in DOMAIN a.lines THEN a.lines[n] ELSE "",
               err |-> "none"]

(***************************************************************************)
(* saveResponseEntries on one file's content, one loop iteration per step. *)
(***************************************************************************)

\* lineBefore: line L-2 (when it was asked for and is not empty), a newline,
\* and line L-1.
LineBefore(b, lb) == IF b # "" THEN b \o "\n" \o lb ELSE lb

\* One entry, four getLine calls on the one liner: line L, line L+1, line
\* L-2 only when line L+1 does not exist, and line L-1.  An error of
\* getLine(L) is returned at once.
SaveEntry ==
    /\ result = "running"
    /\ k < Len(entries)
    /\ LET L == entries[k + 1] IN
       \E r1 \in {GetLine(L, liner)} :
          IF r1.err # "none"
             THEN /\ result' = "error"
                  /\ UNCHANGED <<liner, k, saved>>
             ELSE \E r2 \in {GetLine(L + 1, r1.liner)} :
                  \E r3 \in {IF r2.err = "notExist" THEN GetLine(L - 2, r2.liner)
                                                  ELSE [liner |-> r2.liner, line |-> ""]} :
                  \E r4 \in {GetLine(L - 1, r3.liner)} :
                     /\ liner' = r4.liner
                     /\ k' = k + 1
                     /\ saved' = Append(saved, [line |-> r1.line, after |-> r2.line,
                                                 before |-> LineBefore(r3.line, r4.line)])
                     /\ UNCHANGED result
    /\ UNCHANGED <<content, scanErr, entries>>

-----------------------------------------------------------------------------

\* The lines the scanner yields, by number, with "" past the end.
LineAt(n) == IF n \in 1..Len(content) THEN content[n] ELSE ""

\* A tag whose line is not below an earlier tag's line.
InOrder(j) == \A i \in 1..j - 1 : entries[i] <= entries[j]

\* For tags reported in line order, the liner's window of kept lines is
\* enough: every saved entry has its own line and the next one, and, when
\* the next one exists, the line before, although the liner forgets lines
\* it skips and reads one line ahead on every call.
ContextExactInOrder ==
    \A j \in 1..Len(saved) :
        LET L == entries[j] IN
        InOrder(j) =>
            /\ saved[j].line = LineAt(L)
            /\ saved[j].after = LineAt(L + 1)
            /\ L + 1 <= Len(content) => saved[j].before = LineAt(L - 1)

\* Spec 4.2: for a tag on the last line, lineBefore is line L-2, a newline
\* and line L-1.  The liner's first loop does not keep the lines it skips,
\* so line L-2 is lost when the tag is the first to reach that far.
LineBeforeAsSpecified ==
    \A j \in 1..Len(saved) :
        LET L == entries[j] IN
        L = Len(content) /\ L >= 3 =>
            saved[j].before = LineAt(L - 2) \o "\n" \o LineAt(L - 1)

====
