------------------------------ MODULE MCMirror ------------------------------
(***************************************************************************)
(* A handful of URLs for the runs that share a cache file, and all paths   *)
(* of a few words for the functions.                                       *)
(***************************************************************************)
EXTENDS Mirror, TLC

Words == { <<"/">>, <<".">>, DotDot, <<"a">>, <<"%61">>, <<"%2E", "%2E">>, <<"%2F">>, <<"%5C">> }

ShortPaths == { <<"/">> \o FlattenSeq(ws) : ws \in UNION {[1 .. n -> Words] : n \in 0 .. 5} }
SomeSeeds  == { <<>>, <<"/">>, <<"/", "a">>, <<"/", "a", "/">>, <<"/", "a", "/", "a">> }

SomeHosts == { "h", "other", "", ".", ".." }

\* FTP servers with two names, two levels deep below one of them; a locked directory
\* may hold others.
Places == { <<>>, <<"a">>, <<"b">>, <<"a", "a">>, <<"a", "b">> }
SomeTrees ==
  {t \in UNION {[D -> Kinds] : D \in SUBSET Places} : IsTree(t)}

Url(scheme, port, path, query) ==
  [scheme |-> scheme, host |-> "h", port |-> port, path |-> path, query |-> query]

SeedUrl == Url("http", "", <<"/", "a">>, "")

SomeUrls ==
  { SeedUrl,
    Url("http", "", <<"/", "a", "/", "b", "/", "b">>, ""),
    Url("http", "", <<"/", "%61", "/", "/", "b", "/", "b">>, ""),  \* another spelling of it
    Url("http", "", <<"/", "a", "b", "/", "b">>, ""),              \* a sibling of the seed
    Url("http", "80", <<"/", "a", "/">>, "q"),                     \* the seed, sorted
    Url("http", "", <<"/", "b">>, "") }

Keys == [u \in SomeUrls |-> canonicalURL(u)]
LongKeys == { Url("http", "", <<"/", "b">>, "") }

=============================================================================
