----------------------------- MODULE MCGitClone -----------------------------
(* Model-checking instances of GitClone.                                   *)
EXTENDS GitClone, TLC

CONSTANTS c1, c2, j1, j2

\* Two repositories so that one clone can hold the only permit while the
\* other is refused, and the host escape, which the gateway accepts and
\* gits rejects.  (Other spellings of a repository, and other hosts, are
\* mapped to one of these urls or rejected by the gateway: they add no
\* state.)
MCRequests ==
    { <<GithubHost, Slash, "o", Slash, "r">>,
      <<GithubHost, Slash, DotDot, Slash, "evil.com", Slash, "o", Slash, "r">>,
      <<GithubHost, Slash, "o", Slash, "s">> }
\* The queries name a repository: the repository service queries the urls
\* it stored, the indexer those of projects created for them.  One url
\* meets both a missing and an existing mirror.
MCQueryRequests ==
    { <<GithubHost, Slash, "o", Slash, "r">> }
\* A repository and a percent-encoded ".." segment, which urlToLocal
\* unescapes into a directory next to DataDir.
MCEscapeRequests ==
    { <<GithubHost, Slash, "o", Slash, "r">>,
      <<GithubHost, Slash, EscDotDot, Slash, "o">> }
\* The host escape handed to Archive, which does not reject it: Archive
\* then runs git in DataDir.
MCArchiveEscapeRequests ==
    { <<GithubHost, Slash, DotDot, Slash, "evil.com", Slash, "o", Slash, "r">> }
\* Two handlers so that requests race; two goroutine identities so that a
\* new clone can start while the previous one is still cleaning up.
MCCallers == {c1, c2}
MCJobs == {j1, j2}
\* GetNamedCommits (refs) and GetRepositoryFiles (tree) take otherSem and
\* answer like a blob query that is not plain; one query per semaphore.
MCQueries == {"blob", "archive"}
=============================================================================
