------------------------------ MODULE UrlPaths ------------------------------
(***************************************************************************)
(* What pkg/urlutils.go and pkg/lib.go make of a URL: the key it has in    *)
(* the visited cache (canonicalURL), whether it belongs to the seed's      *)
(* subtree (IsSubPath), and the file it is downloaded to                   *)
(* (safeRelativeOutputPath and its callers).                               *)
(*                                                                         *)
(* A path is a sequence of characters and of percent-escapes; an escape is *)
(* one element, and what it stands for is Meaning.  net/url and package    *)
(* path are external: they are modelled by what this code relies on.       *)
(***************************************************************************)
EXTENDS Integers, SequencesExt

\* The escapes a path can contain, and the characters they stand for.
Escapes == {"%61", "%2E", "%2F", "%5C"}
Meaning == [e \in Escapes |->
              CASE e = "%61" -> "a" [] e = "%2E" -> "." [] e = "%2F" -> "/" [] e = "%5C" -> "\\"]

\* What URL.EscapedPath() can be.
EscapedPaths == {p \in Seq(STRING) : "\\" \notin ToSet(p)}

\* Letters and dots may be escaped or not, all the same (isUnreservedByte).
Unreserved == {"%61", "%2E"}

\* url.Parse lets no separator into a host or port, but "." and ".." are hosts to it.
HostNames == STRING \ {"/", "\\"}

SchemeOf  == {"http", "https", "ftp"}
URL == [scheme : SchemeOf, host : HostNames, port : HostNames, path : EscapedPaths, query : STRING]

DefaultPort == [s \in SchemeOf |-> CASE s = "http" -> "80" [] s = "https" -> "443" [] s = "ftp" -> "21"]

-----------------------------------------------------------------------------
(* net/url and path.                                                       *)

Decoded(t) == IF t \in Escapes THEN Meaning[t] ELSE t

\* url.PathUnescape, which also makes URL.Path from what was parsed.
Unescape(p) == [i \in DOMAIN p |-> Decoded(p[i])]

\* The default escaping of URL.Path: a slash stays one, a backslash does not.
Escape(p) == [i \in DOMAIN p |-> IF p[i] = "\\" THEN "%5C" ELSE p[i]]

\* URL.EscapedPath() believes RawPath only when it is an escaping of Path.
EscapedPath(path, rawPath) ==
  IF rawPath # <<>> /\ Unescape(rawPath) = path THEN rawPath ELSE Escape(path)

\* A path up to its next token, taken apart at the slashes.
AddToken(segs, t) ==
  IF t = "/" THEN Append(segs, <<>>) ELSE [segs EXCEPT ![Len(segs)] = Append(@, t)]

Segments(p) ==
  LET upTo[n \in 0 .. Len(p)] == IF n = 0 THEN << <<>> >> ELSE AddToken(upTo[n - 1], p[n])
  IN  upTo[Len(p)]

Dot    == <<".">>
DotDot == <<".", ".">>

Join(segs) ==
  LET upTo[n \in 0 .. Len(segs)] == IF n = 0 THEN <<>> ELSE upTo[n - 1] \o <<"/">> \o segs[n]
  IN  IF segs = <<>> THEN <<"/">> ELSE upTo[Len(segs)]

\* path.Clean of a rooted path, as its segments.
KeepSegment(kept, s) ==
  CASE s \in {<<>>, Dot}          -> kept
    [] s = DotDot /\ kept = <<>>  -> kept
    [] s = DotDot /\ kept # <<>>  -> Front(kept)
    [] OTHER                      -> Append(kept, s)

CleanSegments(p) ==
  LET segs == Segments(p)
      upTo[n \in 0 .. Len(segs)] == IF n = 0 THEN <<>> ELSE KeepSegment(upTo[n - 1], segs[n])
  IN  upTo[Len(segs)]

EndsInSlash(p) == p # <<>> /\ Last(p) = "/"

TrimSlash(p) == IF EndsInSlash(p) THEN Front(p) ELSE p

-----------------------------------------------------------------------------
(* canonicalURL.                                                           *)

\* Mutant: every escape is decoded, that of a slash too.
DecodeAll(p) == Unescape(p)

normalizeEscapedPath(p) == [i \in DOMAIN p |-> IF p[i] \in Unreserved THEN Decoded(p[i]) ELSE p[i]]

\* The path of the canonical form.
CanonicalPath(p) ==
  LET cleaned == Join(CleanSegments(normalizeEscapedPath(IF p = <<>> THEN <<"/">> ELSE p)))
      path    == Unescape(cleaned)
      raw     == IF path = cleaned THEN <<>> ELSE cleaned
  IN  IF path # <<"/">> /\ EndsInSlash(path)
        THEN EscapedPath(Front(path), TrimSlash(raw))
        ELSE EscapedPath(path, raw)

\* The query of a directory sorts its listing and is dropped.
CanonicalQuery(u) ==
  LET path == Unescape(u.path)
  IN  IF (path # <<"/">> /\ EndsInSlash(path)) \/ CanonicalPath(u.path) = <<"/">> THEN "" ELSE u.query

CanonicalPort(u) == IF u.port = DefaultPort[u.scheme] THEN "" ELSE u.port

\* Scheme and host in lower case, without credentials, default port and fragment: what
\* those are is not modelled.
canonicalURL(u) ==
  [scheme |-> u.scheme, host |-> u.host, port |-> CanonicalPort(u),
   path |-> CanonicalPath(u.path), query |-> CanonicalQuery(u)]

-----------------------------------------------------------------------------
(* IsSubPath.                                                              *)

SameOrigin(subject, base) ==
  /\ subject.host = base.host /\ subject.port = base.port
  /\ \/ subject.scheme = base.scheme
     \/ base.scheme = "http" /\ subject.scheme = "https"

\* Mutant: /ab is taken for a part of /a.
IsSubPathByPrefix(u, of) ==
  LET subject == canonicalURL(u)
      base    == canonicalURL(of)
  IN  /\ SameOrigin(subject, base)
      /\ IsPrefix(Unescape(base.path), Unescape(subject.path))

IsSubPath(u, of) ==
  LET subject == canonicalURL(u)
      base    == canonicalURL(of)
      path    == Unescape(subject.path)
      noSlash == LET b == Unescape(base.path) IN IF b = <<"/">> THEN b ELSE TrimSlash(b)
  IN  /\ SameOrigin(subject, base)
      /\ \/ path = noSlash
         \/ IsPrefix(IF noSlash = <<"/">> THEN noSlash ELSE Append(noSlash, "/"), path)

-----------------------------------------------------------------------------
(* The output file.                                                        *)

\* Mutant: the path is taken apart but not cleaned.
safeRelativeUncleaned(p) ==
  SelectSeq(Segments([i \in DOMAIN p |-> IF p[i] = "\\" THEN "/" ELSE p[i]]), LAMBDA s : s # <<>>)

\* The segments of the cleaned path, backslashes taken for slashes.
safeRelativeOutputPath(p) ==
  CleanSegments([i \in DOMAIN p |-> IF p[i] = "\\" THEN "/" ELSE p[i]])

\* Mutant: the prefix may end within a segment.
RelativeToAny(p1, p2) == IsPrefix(p2, p1)

\* Is the seed's path p2 a prefix of p1 that ends where a segment does?
RelativeTo(p1, p2) ==
  /\ IsPrefix(p2, p1)
  /\ p2 = <<>> \/ EndsInSlash(p2) \/ Len(p1) = Len(p2) \/ p1[Len(p2) + 1] = "/"

After(p1, n) == SubSeq(p1, n + 1, Len(p1))

TrimLeadingSlash(p) == IF p # <<>> /\ p[1] = "/" THEN Tail(p) ELSE p

\* URL.Host, with its port, as the name of a directory; it is not cleaned.
HostName(u) == IF u.port = "" THEN <<u.host>> ELSE <<u.host, ":", u.port>>

\* What path.Dir and filepath.Join make of it below the output directory.
HostSegments(u) ==
  IF u.port = "" /\ u.host = ".." THEN <<DotDot>>
  ELSE IF u.port = "" /\ u.host \in {"", "."} THEN <<>>
  ELSE <<HostName(u)>>

\* The file below the output directory, as segments; none for a URL that has no name
\* of its own: aria2c is given the output directory and no name.
OutputFile(u, seed) ==
  LET p1   == Unescape(u.path)
      p2   == Unescape(seed.path)
      path == safeRelativeOutputPath(p1)
  IN  IF RelativeTo(p1, p2)
        THEN safeRelativeOutputPath(TrimLeadingSlash(After(p1, Len(p2))))
        ELSE IF path = <<>> THEN <<>> ELSE HostSegments(u) \o path

\* The `path` parameter of an SFTPGo entry, relative to that of the seed.
sftpgoRelToSeedRoot(rel, seedParam) ==
  LET root == TrimSlash(seedParam)
  IN  IF root = <<>> THEN TrimLeadingSlash(rel)
      ELSE IF rel = root THEN <<>>
      ELSE IF IsPrefix(Append(root, "/"), rel) THEN After(rel, Len(root) + 1)
      ELSE rel

SftpgoFile(rel, seedParam) == safeRelativeOutputPath(sftpgoRelToSeedRoot(rel, seedParam))

=============================================================================
