------------------------------ MODULE GitOutput ------------------------------
(***************************************************************************)
(* The io.Writers of gits/service/command.go that git's stdout is copied   *)
(* into, and the answers getRepositoryFiles, getNamedCommits and          *)
(* getRepositoryBlob build from them.  os/exec copies the pipe into the   *)
(* writer in pieces whose boundaries git and the kernel choose, so an     *)
(* output is handed to Write as any split into at most MaxWrites          *)
(* non-empty pieces (Chunkings).                                          *)
(*                                                                         *)
(* Bytes are abstracted to cells: the separators and terminators the      *)
(* writers look at (space, tab, '\r', '\n', NUL) are cells of their own,  *)
(* and a word (a mode, a type, a hash, a path, a ref prefix) is one cell. *)
(* A piece boundary inside a word acts like one next to it, since the     *)
(* writers only look for separators.  CheckLen stands for the 1024 bytes  *)
(* of the NUL scan and MaxSize for plainFileMaxSize (256 KiB).            *)
(***************************************************************************)
EXTENDS Naturals, Sequences
LOCAL INSTANCE SequencesExt

CONSTANTS
    CheckLen,    \* bytes of the first write scanned for a NUL
    MaxSize,     \* plainFileMaxSize
    MaxWrites    \* bound on the Write calls one output is split into

ASSUME CheckLen \in Nat \ {0} /\ MaxSize \in Nat /\ MaxWrites \in Nat \ {0}

NL  == "\n"
CR  == "\r"
SP  == " "
TAB == "\t"
NUL == "NUL"
Banner == "tree <commit>:<file>"
HeadsPrefix == "refs/heads/"
TagsPrefix == "refs/tags/"

\* The splits of output s into at most m non-empty pieces, in order.  An
\* empty output makes no Write call.
RECURSIVE Chunkings(_, _)
Chunkings(s, m) ==
    IF s = <<>> THEN {<<>>}
    ELSE UNION {{<<SubSeq(s, 1, i)>> \o rest : rest \in Chunkings(SubSeq(s, i + 1, Len(s)), m - 1)}
                : i \in IF m = 1 THEN {Len(s)} ELSE 1..Len(s)}

(***************************************************************************)
(* lineWriter.  After every Write the compaction leaves r = 0, so the      *)
(* state is the bytes not yet ended by a terminator and the lines.        *)
(***************************************************************************)
NewLineWriter == [buf |-> <<>>, lines |-> <<>>]

\* bytes.IndexByte for '\r'; for '\n' only when the unread bytes hold no '\r'.
LineEnd(b) ==
    LET cr == SelectInSeq(b, LAMBDA x : x = CR)
    IN  IF cr # 0 THEN cr ELSE SelectInSeq(b, LAMBDA x : x = NL)

\* The line without its terminator, and without the byte before it too
\* when that byte is a '\r'.
StripEnd(line) ==
    SubSeq(line, 1, Len(line) - (IF Len(line) > 1 /\ line[Len(line) - 1] = CR THEN 2 ELSE 1))

\* The loop: cut lines off the unread bytes while one is terminated.
RECURSIVE Drain(_, _)
Drain(b, lines) ==
    LET i == LineEnd(b) IN
    IF i = 0 THEN [buf |-> b, lines |-> lines]
    ELSE Drain(SubSeq(b, i + 1, Len(b)), Append(lines, StripEnd(SubSeq(b, 1, i))))

\* Variant: the compaction keeps buf[w:] instead of buf[r:w], dropping the
\* bytes of an unterminated line.
LineWriterWriteDroppingTail(lw, p) ==
    [Drain(lw.buf \o p, lw.lines) EXCEPT !.buf = <<>>]

LineWriterWrite(lw, p) == Drain(lw.buf \o p, lw.lines)

\* The lines a lineWriter holds once every piece is written.
LinesOf(chunks) == FoldLeft(LineWriterWrite, NewLineWriter, chunks).lines

\* The fields of a line between single separators of seps, empty ones kept.
FieldsAt(line, seps) ==
    FoldLeft(LAMBDA acc, c : IF c \in seps THEN Append(acc, <<>>)
                             ELSE [acc EXCEPT ![Len(acc)] = @ \o <<c>>],
             <<<<>>>>, line)

(***************************************************************************)
(* getRepositoryFiles: `git ls-tree -r -t` into a fileEntryWriter.         *)
(***************************************************************************)
\* spaceRegex.Split(line, -1).
SplitFields(line) == FieldsAt(line, {SP, TAB})

\* The 2nd field says whether the entry is a tree; the 4th is the file
\* (strings.Trim with an empty cutset returns it unchanged).
EntryOf(parts) == [file |-> parts[4], dir |-> parts[2] = <<"tree">>]

NewFileEntryWriter == [lw |-> NewLineWriter, entries |-> <<>>]

\* Variant: the lines already turned into entries are not cleared.
FileEntryWriterWriteKeepingLines(few, p) ==
    LET lw    == LineWriterWrite(few.lw, p)
        parts == SelectSeq([i \in 1..Len(lw.lines) |-> SplitFields(lw.lines[i])],
                           LAMBDA ps : Len(ps) >= 4)
    IN  [lw |-> lw, entries |-> few.entries \o [i \in 1..Len(parts) |-> EntryOf(parts[i])]]

\* Write on the embedded lineWriter, an entry for every line of at least
\* four fields, then lines reset.
FileEntryWriterWrite(few, p) ==
    LET lw    == LineWriterWrite(few.lw, p)
        parts == SelectSeq([i \in 1..Len(lw.lines) |-> SplitFields(lw.lines[i])],
                           LAMBDA ps : Len(ps) >= 4)
    IN  [lw |-> [lw EXCEPT !.lines = <<>>],
         entries |-> few.entries \o [i \in 1..Len(parts) |-> EntryOf(parts[i])]]

\* The entries of a git run that succeeded.
RepositoryFiles(chunks) == FoldLeft(FileEntryWriterWrite, NewFileEntryWriter, chunks).entries

(***************************************************************************)
(* getNamedCommits: `git show-ref --heads --tags` into a lineWriter.       *)
(***************************************************************************)
\* strings.Fields: the non-empty runs between white space.
WordsOf(line) == SelectSeq(FieldsAt(line, {SP, TAB, CR, NL}), LAMBDA w : w # <<>>)

\* Two fields, the second under refs/heads/ or refs/tags/.
IsRef(parts) ==
    Len(parts) = 2 /\ parts[2] # <<>> /\ parts[2][1] \in {HeadsPrefix, TagsPrefix}

\* Variant: the ref prefix is not trimmed off the name.
NamedCommitOfUntrimmed(parts) ==
    [hash |-> parts[1], name |-> parts[2], branch |-> parts[2][1] = HeadsPrefix]

NamedCommitOf(parts) ==
    [hash |-> parts[1], name |-> Tail(parts[2]), branch |-> parts[2][1] = HeadsPrefix]

ShowRefCommits(chunks) ==
    LET refs == SelectSeq([i \in 1..Len(LinesOf(chunks)) |-> WordsOf(LinesOf(chunks)[i])], IsRef)
    IN  [i \in 1..Len(refs) |-> NamedCommitOf(refs[i])]

(***************************************************************************)
(* getRepositoryBlob: `git show <commit>:<file>` into a contentWriter.     *)
(***************************************************************************)
NewContentWriter == [buffer |-> <<>>, binary |-> FALSE, checked |-> FALSE]

\* Variant: an output of exactly plainFileMaxSize bytes counts as too big.
ContentWriterWriteAtLimit(cw, p) ==
    CASE ~cw.checked /\ NUL \in ToSet(SubSeq(p, 1, IF Len(p) < CheckLen THEN Len(p) ELSE CheckLen))
            -> [cw EXCEPT !.binary = TRUE]
      [] Len(cw.buffer) + Len(p) >= MaxSize -> [cw EXCEPT !.binary = TRUE, !.checked = TRUE]
      [] OTHER -> [cw EXCEPT !.buffer = @ \o p, !.checked = TRUE]

\* Until a write has passed the check, a NUL in the first CheckLen bytes of
\* a write marks the output binary (without setting checked); an output
\* growing past MaxSize does too.  Both cancel git, whose remaining output
\* may still be written: binary is never unset, so the model writes it all.
ContentWriterWrite(cw, p) ==
    CASE ~cw.checked /\ NUL \in ToSet(SubSeq(p, 1, IF Len(p) < CheckLen THEN Len(p) ELSE CheckLen))
            -> [cw EXCEPT !.binary = TRUE]
      [] Len(cw.buffer) + Len(p) > MaxSize -> [cw EXCEPT !.binary = TRUE, !.checked = TRUE]
      [] OTHER -> [cw EXCEPT !.buffer = @ \o p, !.checked = TRUE]

\* The answer from a git show that exits with status ok or not (a file
\* missing at the commit writes nothing to stdout).  A binary output is
\* answered not plain and empty whether or not git was killed first; a
\* failed run is errorFileNotFound; so is a plain output that starts with
\* git's directory banner.
GitShow(ok, chunks) ==
    LET cw == FoldLeft(ContentWriterWrite, NewContentWriter, chunks) IN
    CASE cw.binary -> [err |-> FALSE, plain |-> FALSE, content |-> <<>>]
      [] ~ok \/ (cw.buffer # <<>> /\ cw.buffer[1] = Banner)
                   -> [err |-> TRUE, plain |-> FALSE, content |-> <<>>]
      [] OTHER     -> [err |-> FALSE, plain |-> TRUE, content |-> cw.buffer]

(***************************************************************************)
(* progressWriter: `git clone --progress`, stdout and stderr both, into    *)
(* one writer (os/exec calls its Write from one goroutine).  The updater   *)
(* it calls is recorded as the sequence of progress strings pushed.       *)
(***************************************************************************)
\* The line count between pushes (literal 20 in Write).
ProgressEvery == 20

NewProgressWriter == [count |-> 0, pushed |-> <<>>]

\* Write's loop: a line ends at the first '\r' or '\n'; the '\r\n' test
\* looks at p[j] again, which is the '\r', so a '\n' after a '\r' ends an
\* empty line of its own.  A piece's unterminated tail is a line too.
\* Returns the count and the last line.
RECURSIVE ProgressCut(_, _, _)
ProgressCut(p, n, last) ==
    LET j == SelectInSeq(p, LAMBDA x : x \in {CR, NL}) IN
    CASE p = <<>> -> [count |-> n, last |-> last]
      [] j = 0    -> [count |-> n + 1, last |-> p]
      [] OTHER    -> ProgressCut(SubSeq(p, j + 1, Len(p)), n + 1, SubSeq(p, 1, j - 1))

\* After the loop, a count of 20 or more pushes the piece's last line and
\* starts the count again.
ProgressWriterWrite(pw, p) ==
    LET c == ProgressCut(p, pw.count, <<>>) IN
    IF c.count >= ProgressEvery THEN [count |-> 0, pushed |-> Append(pw.pushed, c.last)]
    ELSE [pw EXCEPT !.count = c.count]

\* The progress strings a clone pushes for one split of its output.
ProgressPushes(chunks) == FoldLeft(ProgressWriterWrite, NewProgressWriter, chunks).pushed

-----------------------------------------------------------------------------
(***************************************************************************)
(* Reference definitions, from the formats git documents and spec 3/4.1.  *)
(***************************************************************************)
\* The '\n'-terminated lines of an output.
RECURSIVE OutputLines(_)
OutputLines(s) ==
    LET i == SelectInSeq(s, LAMBDA x : x = NL) IN
    IF i = 0 THEN <<>>
    ELSE <<SubSeq(s, 1, i - 1)>> \o OutputLines(SubSeq(s, i + 1, Len(s)))

\* ls-tree: "<mode> SP <type> SP <object> TAB <file>", the file being all
\* that follows the tab.
ListedEntries(out) ==
    LET ls == OutputLines(out) IN
    [i \in 1..Len(ls) |->
        [file |-> SubSeq(ls[i], SelectInSeq(ls[i], LAMBDA x : x = TAB) + 1, Len(ls[i])),
         dir  |-> ls[i][3] = "tree"]]

\* show-ref: "<object> SP <ref>"; heads are branches, tags are not.
ListedRefs(out) ==
    LET ls == SelectSeq(OutputLines(out), LAMBDA l : l[3] \in {HeadsPrefix, TagsPrefix}) IN
    [i \in 1..Len(ls) |->
        [hash |-> <<ls[i][1]>>, name |-> SubSeq(ls[i], 4, Len(ls[i])),
         branch |-> ls[i][3] = HeadsPrefix]]

\* Spec 3: a blob is binary, not plain and empty, when a zero byte is in
\* its first 1024 bytes or it is over 256 KiB; otherwise plain with its
\* content.
ShownBlob(out) ==
    IF NUL \in ToSet(SubSeq(out, 1, IF Len(out) < CheckLen THEN Len(out) ELSE CheckLen))
       \/ Len(out) > MaxSize
       THEN [plain |-> FALSE, content |-> <<>>]
       ELSE [plain |-> TRUE, content |-> out]

\* Spec 4.1.a: the output as lines delimited by '\r', '\n' or '\r\n'.
RECURSIVE ProgressLinesOf(_)
ProgressLinesOf(s) ==
    LET j == SelectInSeq(s, LAMBDA x : x \in {CR, NL})
        k == IF j # 0 /\ s[j] = CR /\ j < Len(s) /\ s[j + 1] = NL THEN j + 1 ELSE j
    IN  IF j = 0 THEN <<>>
        ELSE <<SubSeq(s, 1, j - 1)>> \o ProgressLinesOf(SubSeq(s, k + 1, Len(s)))

\* Spec 4.1.a: every 20 lines the most recent line is pushed.
SpecProgress(out) ==
    LET ls == ProgressLinesOf(out) IN
    [i \in 1..Len(ls) \div ProgressEvery |-> ls[i * ProgressEvery]]
=============================================================================
