---------------------------- MODULE MCIndexFile ----------------------------
EXTENDS IndexFile

\* Tar headers, 6-cell buffer.  A directory, a file over maxSize, a file with
\* a NUL in its second cell, a one-line tag without a trailing newline, a
\* tag under a line too long for the scanner, a tag between two lines, and
\* two tags that leave two buffer cells to earlier content, tags on lines 1
\* and 3, and a tag on the third and last line.
MCDir      == [reg |-> FALSE, size |-> 0, data |-> <<>>]
MCBig      == [reg |-> TRUE, size |-> 7, data |-> <<>>]
MCBinary   == [reg |-> TRUE, size |-> 3, data |-> <<"a", "0", "\n">>]
MCLastLine == [reg |-> TRUE, size |-> 1, data |-> <<"t">>]
MCLongLine == [reg |-> TRUE, size |-> 5, data |-> <<"a", "a", "a", "\n", "t">>]
MCMiddle   == [reg |-> TRUE, size |-> 6, data |-> <<"a", "\n", "t", "\n", "a", "\n">>]
MCTwoTags  == [reg |-> TRUE, size |-> 4, data |-> <<"t", "\n", "t", "\n">>]
MCOneThree == [reg |-> TRUE, size |-> 6, data |-> <<"t", "\n", "a", "\n", "t", "\n">>]
MCThird    == [reg |-> TRUE, size |-> 5, data |-> <<"a", "\n", "a", "\n", "t">>]

MCArchives ==
    { <<MCDir, MCBig, MCBinary, MCMiddle>>,
      <<MCTwoTags, MCLastLine, MCMiddle>>,
      <<MCLongLine, MCTwoTags>>,
      <<MCOneThree, MCThird>> }

\* The zeros of make([]byte, size), and what a task on another commit left.
MCStaleBuffers ==
    { <<"0", "0", "0", "0", "0", "0">>,
      <<"a", "\n", "t", "t", "\n", "a">> }

\* The archive on which the first file ends the task early.
MCEarlyEnd == { <<MCLastLine, MCMiddle>> }
MCZeros == { <<"0", "0", "0", "0", "0", "0">> }
====
