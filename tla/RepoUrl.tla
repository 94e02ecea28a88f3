------------------------------- MODULE RepoUrl -------------------------------
(***************************************************************************)
(* Repository urls: common/url.NormalizeRepoUrl, applied by the gateway,   *)
(* by the repository service and again by every gits handler, and         *)
(* gitCommander.urlToLocal, which turns a normalised url into the mirror  *)
(* directory under DataDir.                                               *)
(*                                                                         *)
(* A url is a sequence of tokens: the scheme prefixes, "/" and path        *)
(* segments, each segment one token (a host, a name, ".", ".." or the     *)
(* percent-encoded "%2e%2e").  The Go library functions the code calls    *)
(* are modelled by what they do on such sequences: path.Clean (and        *)
(* path.Join, which cleans), url.Parse's split into host and unescaped    *)
(* path.  A directory is its path relative to DataDir after cleaning: <<>> *)
(* is DataDir itself, a leading ".." leaves it.                           *)
(***************************************************************************)
EXTENDS Naturals, Sequences
LOCAL INSTANCE SequencesExt

Slash == "/"
Http == "http://"
Https == "https://"
Dot == "."
DotDot == ".."
EscDotDot == "%2e%2e"
GithubHost == "github.com"

\* strings.Split(p, "/"): the segments between slashes, empty ones as "".
Segments(s) ==
    FoldLeft(LAMBDA acc, t : IF t = Slash THEN Append(acc, "")
                             ELSE [acc EXCEPT ![Len(acc)] = t],
             <<"">>, s)

\* The lexical processing of path.Clean on a relative path: empty and "."
\* segments go, ".." removes the segment before it unless that is a "..".
CleanSegments(segs) ==
    FoldLeft(LAMBDA out, e :
                CASE e \in {"", Dot} -> out
                  [] e = DotDot /\ out # <<>> /\ Last(out) # DotDot -> Front(out)
                  [] OTHER -> Append(out, e),
             <<>>, segs)

\* The segments joined with "/"; path.Clean returns "." for nothing left.
JoinSegments(segs) ==
    IF segs = <<>> THEN <<Dot>>
    ELSE FoldLeft(LAMBDA acc, e : acc \o <<Slash, e>>, <<Head(segs)>>, Tail(segs))

\* The string a token sequence spells.
Text(seq) == FoldLeft(LAMBDA acc, t : acc \o t, "", seq)

\* The string of a directory relative to DataDir ("" for DataDir itself).
DirText(d) == IF d = <<>> THEN "" ELSE Text(JoinSegments(d))

\* NormalizeRepoUrl: one trailing "/" trimmed, an http:// or https:// prefix
\* trimmed, then the "github.com/" prefix required, and only then
\* path.Clean.
NormalizeRepoUrl(repo) ==
    LET r1 == IF repo # <<>> /\ Last(repo) = Slash THEN Front(repo) ELSE repo
        r2 == IF r1 # <<>> /\ Head(r1) \in {Http, Https} THEN Tail(r1) ELSE r1
    IN  IF Len(r2) >= 2 /\ r2[1] = GithubHost /\ r2[2] = Slash
           THEN [ok |-> TRUE, url |-> <<Https>> \o JoinSegments(CleanSegments(Segments(r2)))]
           ELSE [ok |-> FALSE, url |-> <<>>]

\* url.Parse unescapes the path: "%2e%2e" is ".." in u.Path.
Unescape(e) == IF e = EscDotDot THEN DotDot ELSE e

\* The host of a url url.Parse accepts: the segment after the scheme.
Host(url) == IF url = <<>> THEN "" ELSE Segments(Tail(url))[1]

\* urlToLocal: u.Path without its leading "/" must hold at most one "/";
\* the directory is path.Join(DataDir, p).  The host is not used.  The
\* token alphabet has no input url.Parse rejects.
UrlToLocal(url) ==
    LET p == IF url = <<>> THEN <<>>
             ELSE LET segs == Segments(Tail(url))
                  IN  [i \in 1..Len(segs) - 1 |-> Unescape(segs[i + 1])]
    IN  IF Len(p) > 2 THEN [ok |-> FALSE, dir |-> <<>>]
        ELSE [ok |-> TRUE, dir |-> CleanSegments(p)]
=============================================================================
