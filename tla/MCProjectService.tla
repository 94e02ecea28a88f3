------------------------- MODULE MCProjectService -------------------------
EXTENDS ProjectService, TLC

CONSTANTS o1, o2, r1, s1, h1, h2, n1, p1, p2, c1, c2

MCUsers == {o1}
MCHashes == {h1}
\* r1 is a normalised url and s1 another spelling of it (say without the
\* https:// scheme) that NormalizeRepoUrl turns into r1.
MCRawUrls == {r1, s1}
MCRepoUrlOf == [x \in RawUrls |-> r1]
MCPids == {p1, p2}
MCCallers == {c1, c2}
\* Two files under one directory: their roll-ups share the key (".", "a").
MCFiles == {<<"a", "f">>, <<"a", "g">>}
\* Handlers and ObjectIds are interchangeable; the run checks invariants only.
Symmetry == Permutations(MCCallers) \cup Permutations(MCPids)
====
