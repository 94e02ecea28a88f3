---------------------------- MODULE MCRepoSyncer ----------------------------
(* Model-checking instances of RepoSyncer.                                 *)
EXTENDS RepoSyncer, TLC

CONSTANTS k1, k2, c1, c2

\* Two commits and two concurrent handlers for the safety runs; one commit
\* for the liveness runs, where the second key only multiplies the graph.
MCKeys == {k1, k2}
MCOneKey == {k1}
\* k2 is the url@"" key of NamedCommits in the safety run.
MCRepoKeys == {k2}
MCNoKeys == {}
MCCallers == {c1, c2}

\* git's output, a word per cell.  The tree has a directory and a file in
\* it; the refs a branch and a tag; the file is MaxSize cells long, so a
\* split at any point is checked against the size limit.
MCTreeOut == [k \in MCKeys |->
    <<"040000", SP, "tree", SP, "h1", TAB, "src", NL,
      "100644", SP, "blob", SP, "h2", TAB, "src/a.go", NL>>]
MCRefsOut == [k \in MCKeys |->
    <<"h3", SP, HeadsPrefix, "main", NL, "h4", SP, TagsPrefix, "v1", NL>>]
MCBlobOut == [k \in MCKeys |-> [ok |-> TRUE, out |-> <<"package", SP, "a", NL>>]]

\* Outputs the writers get wrong: a file name with a space, and a zero byte
\* among the first CheckLen bytes that a split can put in a second write.
MCTreeOutSpace == [k \in MCKeys |->
    <<"100644", SP, "blob", SP, "h2", TAB, "a", SP, "b.go", NL>>]
MCBlobOutLateNul == [k \in MCKeys |-> [ok |-> TRUE, out |-> <<"a", NUL, NL>>]]

\* Twenty progress lines of git clone --progress, each a count and a
\* percentage ended by '\r'.
MCProgressOut == [i \in 1..60 |-> CASE i % 3 = 1 -> ToString((i + 2) \div 3)
                                    [] i % 3 = 2 -> "%"
                                    [] OTHER     -> CR]

\* Spec 4.1.a: whatever split the pipe makes of git's output,
\* progressWriter pushes what the spec's line tokenizer pushes: the
\* twentieth line, whole.
ProgressAsSpecified ==
    \A ch \in Chunkings(MCProgressOut, MaxWrites) : ProgressPushes(ch) = SpecProgress(MCProgressOut)
=============================================================================
