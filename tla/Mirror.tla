------------------------------- MODULE Mirror -------------------------------
(***************************************************************************)
(* The visited cache with the URLs that are really in it: runs that meet   *)
(* links, skip the visited ones by their canonicalURL() and name an output *)
(* file for the others (UrlPaths), over the cache file that outlives them  *)
(* (VisitedCache).                                                         *)
(*                                                                         *)
(* What keys, subtree and files should be is stated here independently of  *)
(* the code: by the segments of a path that no later dot-segment cancels.  *)
(* The listings that links come from (Listings) are checked along.         *)
(***************************************************************************)
EXTENDS VisitedCache, UrlPaths, Listings

CONSTANTS
  Seed,            \* r.url
  FollowExternal,  \* r.FollowExternal
  Paths,           \* the paths over which the functions of UrlPaths are checked
  SeedPaths,       \* the seed paths they are checked with
  Hosts,           \* the hosts a link may lead to
  Trees,           \* the FTP servers over which those of Listings are
  MaxVisits        \* bound: keys in the cache

ASSUME MirrorAssumption ==
  /\ Urls \subseteq URL
  /\ Seed \in Urls
  /\ FollowExternal \in BOOLEAN
  /\ MaxVisits \in Nat
  /\ \A u \in Urls : Canon[u] = canonicalURL(u)
  /\ Seed.host \notin {"", ".", ".."}   \* the seed is on a server that can be asked
  /\ Paths \subseteq EscapedPaths /\ SeedPaths \subseteq EscapedPaths /\ Hosts \subseteq HostNames
  /\ \A tree \in Trees : IsTree(tree)

VARIABLE handed    \* the URLs queued for download, in all runs

mirrorVars == <<vars, handed>>

MirrorInit == Init /\ handed = {}

\* getLinks() keeps a link of the subtree, or any with FollowExternal.
Kept(u, seed, external) == u = seed \/ external \/ IsSubPath(u, seed)

\* processCrawlEntry() skips what is marked, downloadResource() names the file.
Meet(u) ==
  /\ Kept(u, Seed, FollowExternal)
  /\ Cardinality(cache \union {Canon[u]}) <= MaxVisits
  /\ MarkVisited(u)
  /\ handed' = IF Canon[u] \in cache THEN handed ELSE handed \union {u}

MirrorNext ==
  \/ \E u \in Urls : Meet(u)
  \/ (Start \/ Load \/ LoadFailed \/ Save \/ Crash \/ Terminated) /\ UNCHANGED handed

MirrorSpec == MirrorInit /\ [][MirrorNext]_mirrorVars

-----------------------------------------------------------------------------
(* What a path names.                                                      *)

\* A letter is the same escaped or not; an escaped slash is no separator.
Plainly(p) == [i \in DOMAIN p |-> IF Decoded(p[i]) \in {"/", "\\"} THEN p[i] ELSE Decoded(p[i])]

NamesIn(segs, i, j) == {k \in i .. j : segs[k] \notin {<<>>, Dot, DotDot}}
UpsIn(segs, i, j)   == {k \in i .. j : segs[k] = DotDot}

\* A name stays unless more ".." than names follow it somewhere.
Stays(segs, i) ==
  /\ i \in NamesIn(segs, 1, Len(segs))
  /\ \A j \in i + 1 .. Len(segs) :
       Cardinality(UpsIn(segs, i + 1, j)) <= Cardinality(NamesIn(segs, i + 1, j))

Resource(p) ==
  LET segs == Segments(Plainly(p))
      upTo[n \in 0 .. Len(segs)] ==
        IF n = 0 THEN <<>>
        ELSE IF Stays(segs, n) THEN Append(upTo[n - 1], segs[n]) ELSE upTo[n - 1]
  IN  upTo[Len(segs)]

Below(p, base) == IsPrefix(Resource(base), Resource(p))

EncodedSlash(p) == "%2F" \in ToSet(p)
EndsEncoded(p)  == Resource(p) # <<>> /\ Last(Last(Resource(p))) = "%2F"

\* Same server as the seed, no query, no escape that decodes to a separator, no dots,
\* and no directory that is named like the host.
Plain(u) ==
  /\ u.scheme = Seed.scheme /\ u.host = Seed.host /\ u.port = Seed.port /\ u.query = ""
  /\ ToSet(Unescape(u.path)) \intersect {".", "\\"} = {} /\ ~EncodedSlash(u.path)
  /\ HostName(u) \notin ToSet(Resource(u.path))

At(p) == [Seed EXCEPT !.path = p]

\* The functions of UrlPaths have no state: they are checked before the first run.
AtFirst == runs = 0

-----------------------------------------------------------------------------
(* Correctness.                                                            *)

\* canonicalURL() gives two paths one key exactly when they name one resource,
\* whatever is escaped and however many slashes and dot-segments there are; not so,
\* in the code, for a name that ends in an escaped slash.
KeysExact ==
  AtFirst => \A p \in Paths : ~EndsEncoded(p) => CanonicalPath(p) = Join(Resource(p))

\* IsSubPath() accepts what is at or below the seed and nothing else: no sibling that
\* shares a prefix and no path that dot-segments, escaped or not, lead out of it; not
\* so for an escaped slash, which the code decodes before it compares.  Nor does the
\* entry of an SFTPGo listing lead to another host, with a scheme or without.
SubtreeOnly ==
  AtFirst =>
    /\ \A p \in Paths, s \in SeedPaths :
         ~EncodedSlash(p) /\ ~EncodedSlash(s) => (IsSubPath(At(p), At(s)) <=> Below(p, s))
    /\ \A e \in SftpgoEntries({Seed.host, "other"}) :
         SftpgoHosts(e, Seed.host, FALSE) \subseteq {Seed.host}

\* What an FTP directory holds is found whatever a server calls the entry of a file:
\* a file is never listed as a directory, nor a directory with one file of its own
\* name downloaded as that file, as long as the directory above can be listed.
ListingsExact ==
  AtFirst => \A tree \in Trees, convention \in Conventions : \A p \in DOMAIN tree, slash \in BOOLEAN :
    /\ tree[p] = "dir" /\ (p = <<>> \/ tree[Front(p)] = "dir") =>
         getLinksByFTP(tree, FtpUrl(p, slash), convention) =
           {FtpUrl(q, tree[q] \in {"dir", "locked"}) : q \in {q \in Children(tree, p) : tree[q] # "link"}}
    /\ tree[p] = "file" /\ ~slash =>
         ftpListEntries(tree, FtpUrl(p, slash), convention).answer = "notHTML"

InsideSegments(f) ==
  \A i \in DOMAIN f : f[i] \notin {<<>>, Dot, DotDot} /\ ToSet(f[i]) \intersect {"/", "\\"} = {}

\* No dots, slashes or backslashes in a path, in any escaping, and no path of an entry
\* of an SFTPGo listing, name a file outside of the output directory.  Nor does a host,
\* which is used as it is: only ".." leads out, and a URL of that host is not met unless
\* FollowExternal is set.  (With it the code does leave the directory.)
OutputInside ==
  AtFirst => \A p \in Paths, s \in SeedPaths :
    /\ \A host \in Hosts :
         LET u == [At(p) EXCEPT !.host = host]
         IN  \/ InsideSegments(OutputFile(u, At(s)))
             \/ HostSegments(u) = <<DotDot>> /\ ~Kept(u, At(s), FALSE)
    /\ InsideSegments(SftpgoFile(Unescape(p), Unescape(s)))

\* Plain URLs of one server that are downloaded to a file of the same name, in one run
\* or in runs that share the cache, are spellings of one resource.
OneFileEach ==
  \A u, v \in handed :
    /\ Plain(u) /\ Plain(v)
    /\ OutputFile(u, Seed) = OutputFile(v, Seed) /\ OutputFile(u, Seed) # <<>>
    => Resource(u.path) = Resource(v.path)

=============================================================================
