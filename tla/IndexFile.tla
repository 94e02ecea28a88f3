----------------------------- MODULE IndexFile -----------------------------
(***************************************************************************)
(* One indexer goroutine running indexRepository (index/service/           *)
(* indexer.go) on the tar archive of one commit: for every header the tar  *)
(* filters, the two reads into the indexer's reusable buffer, the          *)
(* extractor call of commander.indexFile (commander.go), the context       *)
(* lines of saveResponseEntries through the Liner, and the batch insert of *)
(* AddFileIndexEntries (index/store/mongodb/store.go).  A failed task may  *)
(* be run again by a later task for the same commit, on the same buffer,  *)
(* extractor and store.                                                    *)
(*                                                                         *)
(* Bytes are abstracted to cells: NL, the NUL byte, TagCell (text the      *)
(* extractor reports a tag for) and other text.  Sizes are in cells.  The  *)
(* extractor (an external ctags process) is the environment: it tags every *)
(* line that holds a TagCell, in line order, and may die.                  *)
(***************************************************************************)
EXTENDS Liner, Naturals, Sequences, SequencesExt

CONSTANTS
    Archives,      \* archives the commit may have: sequences of tar headers
    BufSize,       \* indexer.maxSize, the length of indexer.buffer
    FirstRead,     \* the 1024 bytes of the first tarReader.Read
    TokenMax,      \* bufio.MaxScanTokenSize of the liner's scanner
    StaleBuffers,  \* buffers a goroutine may find, left by earlier tasks
    MaxAttempts,   \* bound on the tasks run for the commit
    StreamFails,   \* the archive stream may break
    StoreFails,    \* store calls may fail
    CtagsCrashes   \* the extractor process may die

NL == "\n"
NUL == "0"
TagCell == "t"

ASSUME /\ FirstRead \in 1..BufSize /\ TokenMax \in Nat /\ MaxAttempts \in Nat \ {0}
       /\ {StreamFails, StoreFails, CtagsCrashes} \subseteq BOOLEAN

VARIABLES
    archive,   \* the headers of the archive, [reg, size, data]
    buffer,    \* indexer.buffer, BufSize cells
    fi,        \* the header tarReader.Next returns next
    n,         \* cells the first read returned for the current file
    got,       \* cells both reads returned for the current file
    alive,     \* the goroutine's extractor process is running
    stored,    \* stored[i]: tag lines in file_indexes for header i, in order
    attempt,   \* tasks run for the commit so far
    pc,        \* "next", "rest", "save" or "done"
    ret        \* the return of indexRepository once pc = "done"

pipeVars == <<archive, buffer, fi, n, got, alive, stored, attempt, pc, ret>>
allVars == <<vars, pipeVars>>

-----------------------------------------------------------------------------
(* The conversions between the buffer and lines.                           *)

\* A line's text: its cells in order.
Text(cells) == FoldLeft(LAMBDA acc, c : acc \o c, "", cells)

\* The pieces of b between newlines; the last one is the unterminated rest.
RECURSIVE Segments(_)
Segments(b) ==
    LET i == SelectInSeq(b, LAMBDA c : c = NL) IN
    IF i = 0 THEN <<b>>
    ELSE <<SubSeq(b, 1, i - 1)>> \o Segments(SubSeq(b, i + 1, Len(b)))

\* bufio.ScanLines: every terminated line, and the rest when not empty.
LinesOf(b) == LET s == Segments(b) IN IF Last(s) = <<>> THEN Front(s) ELSE s

\* The liner's scanner over b: the lines before the first one that does not
\* fit in its buffer, and whether it stopped on such a line.
ScanOf(b) ==
    LET ls == LinesOf(b)
        e  == SelectInSeq(ls, LAMBDA l : Len(l) >= TokenMax)
    IN  [lines |-> [j \in 1..(IF e = 0 THEN Len(ls) ELSE e - 1) |-> Text(ls[j])],
         err   |-> e # 0]

\* generate-tags: the extractor numbers the lines of the content it is sent.
CtagsTags(c) ==
    LET ls == LinesOf(c) IN SetToSortSeq({j \in 1..Len(ls) : TagCell \in ToSet(ls[j])}, <)

\* buf with cells written from position `from` on.
WriteAt(buf, from, cells) ==
    [i \in 1..BufSize |-> IF i >= from /\ i < from + Len(cells)
                             THEN cells[i - from + 1] ELSE buf[i]]

-----------------------------------------------------------------------------

\* The liner of a call that is not running.
LinerIdle ==
    /\ content' = <<>> /\ scanErr' = FALSE /\ entries' = <<>>
    /\ liner' = NewLiner /\ k' = 0 /\ saved' = <<>> /\ result' = "running"

Init ==
    /\ archive \in Archives
    /\ buffer \in StaleBuffers
    /\ fi = 1 /\ n = 0 /\ got = 0
    /\ alive = TRUE
    /\ stored = [i \in 1..Len(archive) |-> <<>>]
    /\ attempt = 1
    /\ pc = "next"
    /\ ret = "none"
    /\ content = <<>> /\ scanErr = FALSE /\ entries = <<>>
    /\ liner = NewLiner /\ k = 0 /\ saved = <<>> /\ result = "running"

\* indexRepository returns r.
Return(r) ==
    /\ pc' = "done" /\ ret' = r
    /\ LinerIdle
    /\ UNCHANGED <<archive, buffer, fi, n, got, alive, attempt>>

\* RepositoryFileIndexed: some file_indexes document names the file.
FileIndexed(i) == stored[i] # <<>>

\* What indexRepository makes of it: an error is logged, and its "false"
\* read as "not indexed".
FileIndexedAnswers(i) ==
    IF StoreFails THEN {FileIndexed(i), FALSE} ELSE {FileIndexed(i)}

\* What one tarReader.Read returns: at most `want` cells, and fewer when
\* the stream's current message ends first (never none while some remain).
ReadCounts(want) == IF want = 0 THEN {0} ELSE 1..want

\* One pass of the loop up to the RepositoryFileIndexed check:
\* tarReader.Next (EOF ends the loop, an error returns it), the type and
\* size filters, the first read into buffer[:1024] (an error returns it),
\* the NUL test on what it read, and the check for an indexed file.
ReadHeader ==
    /\ pc = "next"
    /\ \/ /\ fi > Len(archive)
          /\ Return("nil") /\ UNCHANGED stored
       \/ /\ fi <= Len(archive) /\ StreamFails
          /\ Return("err") /\ UNCHANGED stored
       \/ /\ fi <= Len(archive)
          /\ ~archive[fi].reg \/ archive[fi].size > BufSize
          /\ fi' = fi + 1
          /\ UNCHANGED <<archive, buffer, n, got, alive, stored, attempt, pc, ret, vars>>
       \/ /\ fi <= Len(archive)
          /\ archive[fi].reg /\ archive[fi].size <= BufSize
          /\ LET h == archive[fi] IN
             \E r \in ReadCounts(MinOf(FirstRead, h.size)), indexed \in FileIndexedAnswers(fi) :
                LET chunk == SubSeq(h.data, 1, r) IN
                /\ buffer' = WriteAt(buffer, 1, chunk)
                /\ IF NUL \in ToSet(chunk) \/ indexed
                      THEN /\ fi' = fi + 1 /\ UNCHANGED <<n, pc>>
                      ELSE /\ n' = r /\ pc' = "rest" /\ UNCHANGED fi
                /\ UNCHANGED <<archive, got, alive, stored, attempt, ret, vars>>

\* What indexFile returns: every entry the extractor reports up to the
\* "completed" line; when the process dies part-way, the entries read
\* before the pipe's EOF; and none once it is dead (the write fails).
Extracted(tags) ==
    IF ~alive THEN {[tags |-> <<>>, alive |-> FALSE]}
    ELSE {[tags |-> tags, alive |-> TRUE]} \cup
         IF CtagsCrashes THEN {[tags |-> SubSeq(tags, 1, p), alive |-> FALSE] : p \in 0..Len(tags)}
                         ELSE {}

\* The cell buffer[n:] starts at.
RestStart == n + 1

\* The second read into buffer[n:] (an error returns), indexFile on
\* buffer[:hdr.Size] with its error only logged, and the start of
\* saveResponseEntries on the whole buffer.
ReadRest ==
    /\ pc = "rest"
    /\ LET h == archive[fi] IN
       \/ /\ StreamFails
          /\ Return("err") /\ UNCHANGED stored
       \/ \E m \in ReadCounts(h.size - n) :
             \E b \in {WriteAt(buffer, RestStart, SubSeq(h.data, n + 1, n + m))} :
             \E x \in Extracted(CtagsTags(SubSeq(b, 1, h.size))) :
             \E scan \in {ScanOf(b)} :
                /\ buffer' = b
                /\ got' = n + m
                /\ alive' = x.alive
                /\ entries' = x.tags
                /\ content' = scan.lines /\ scanErr' = scan.err
                /\ liner' = NewLiner /\ k' = 0 /\ saved' = <<>> /\ result' = "running"
                /\ pc' = "save"
                /\ UNCHANGED <<archive, fi, n, stored, attempt, ret>>

\* One iteration of saveResponseEntries' loop.
SaveStep ==
    /\ pc = "save"
    /\ SaveEntry
    /\ UNCHANGED pipeVars

\* How many documents of a batch of l an ordered InsertMany writes.
InsertCounts(l) == IF StoreFails THEN 0..l ELSE {l}

\* The end of saveResponseEntries and its check in indexRepository: a
\* getLine error, or a failed AddFileIndexEntries, breaks the loop and
\* indexRepository returns nil; an empty batch is not stored.
SaveFile ==
    /\ pc = "save"
    /\ \/ /\ result = "error"
          /\ Return("nil") /\ UNCHANGED stored
       \/ /\ result = "running" /\ k = Len(entries)
          /\ \E p \in InsertCounts(Len(entries)) :
                /\ stored' = [stored EXCEPT ![fi] = @ \o SubSeq(entries, 1, p)]
                /\ IF p = Len(entries)
                      THEN /\ fi' = fi + 1 /\ pc' = "next" /\ LinerIdle
                           /\ UNCHANGED <<archive, buffer, n, got, alive, attempt, ret>>
                      ELSE /\ Return("nil")

\* A later task for the commit, after this one failed: the goroutine that
\* takes it runs indexRepository from the first header again.
RunAgain ==
    /\ pc = "done" /\ ret = "err"
    /\ attempt < MaxAttempts
    /\ attempt' = attempt + 1
    /\ fi' = 1 /\ pc' = "next" /\ ret' = "none"
    /\ UNCHANGED <<archive, buffer, n, got, alive, stored, vars>>

Next == ReadHeader \/ ReadRest \/ SaveStep \/ SaveFile \/ RunAgain

Spec == Init /\ [][Next]_allVars

-----------------------------------------------------------------------------

TypeOK ==
    /\ archive \in Archives
    /\ buffer \in [1..BufSize -> {NL, NUL, TagCell, "a"}]
    /\ fi \in 1..Len(archive) + 1
    /\ n \in 0..FirstRead /\ got \in 0..BufSize
    /\ alive \in BOOLEAN
    /\ stored \in [1..Len(archive) -> Seq(Nat)]
    /\ attempt \in 1..MaxAttempts
    /\ pc \in {"next", "rest", "save", "done"}
    /\ ret \in {"none", "nil", "err"}
    /\ liner.lineNumber \in 0..Len(content)
    /\ DOMAIN liner.lines \subseteq 1..liner.lineNumber
    /\ k \in 0..Len(entries) /\ Len(saved) = k
    /\ result \in {"running", "error"}

\* Line m of a file's data as the spec's L(m), "" when there is none.
FileLine(h, m) == LET ls == LinesOf(h.data) IN IF m \in 1..Len(ls) THEN Text(ls[m]) ELSE ""

\* Spec 4.2: a tag's line and lineAfter are L(line) and L(line+1) of the
\* file (lineAfter absent past its end), and lineBefore is L(line-1) when
\* lineAfter exists.  saveResponseEntries reads the whole reusable buffer,
\* so a short second read leaves stale cells inside the file's span, and
\* the cells after the file are earlier files' bytes or zeros.
ContextFromFile ==
    pc = "save" =>
        LET h == archive[fi] IN
        \A j \in 1..Len(saved) :
            LET L == entries[j] IN
            InOrder(j) =>
                /\ saved[j].line = FileLine(h, L)
                /\ saved[j].after = FileLine(h, L + 1)
                /\ FileLine(h, L + 1) # "" => saved[j].before = FileLine(h, L - 1)

\* Headers the task is meant to index: regular files within maxSize with no
\* NUL in their first 1024 bytes.
Indexable(h) ==
    h.reg /\ h.size <= BufSize /\ NUL \notin ToSet(SubSeq(h.data, 1, MinOf(FirstRead, h.size)))

\* Spec 4.2: "On any step failure, mark the task failed; on success, mark
\* indexed."  When indexRepository returns nil (the task is then marked
\* succeeded and never run again), every indexable file has all its tags in
\* file_indexes.
IndexCompleteOnSuccess ==
    pc = "done" /\ ret = "nil" =>
        \A i \in 1..Len(archive) :
            Indexable(archive[i]) => stored[i] = CtagsTags(archive[i].data)

====
