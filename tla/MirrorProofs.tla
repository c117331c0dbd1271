---------------------------- MODULE MirrorProofs ----------------------------
(***************************************************************************)
(* Proofs about the visited-URL cache and about what is made of a URL, for *)
(* any set of URLs, paths of any length, any FTP server, any number of     *)
(* runs and any pattern of crashes and failing system calls.               *)
(*                                                                         *)
(* The cache: between os.Create and the rename the keys still to be        *)
(* written, those in the buffer and those in the temporary file are        *)
(* together the cache (Progress), so what is renamed is the whole cache.   *)
(* And the cache holds every line of the file from the end of Load on      *)
(* (Loaded), because the lines, being canonical, are loaded unchanged      *)
(* (Canonical); so the file that replaces it holds them as well.           *)
(*                                                                         *)
(* The paths: path.Clean pushes names and pops one for every "..".  At     *)
(* every segment its stack holds the names that stay so far (StackOf), so  *)
(* what it leaves is Resource(), which looks at each name alone.  Joined   *)
(* names can be taken apart again (JoinedApart), so no two resources have  *)
(* one key, a key is its own key, and one key is a prefix of another, up   *)
(* to a slash, just when one resource is below the other.  What follows a  *)
(* slash is cleaned apart from what is before (CleanBetween), so the file  *)
(* below the seed and the seed's names make up the resource again.         *)
(*                                                                         *)
(* The functions of the model are defined by recursion on the length of a  *)
(* path; what a lemma calls the steps of one is that it can be computed so *)
(* (RecursionExists), and induction over them is SetInduction.             *)
(***************************************************************************)
EXTENDS Mirror, Recursion, FiniteSetTheorems

\* Where Save is, and how much of the cache it has written.
Progress ==
  /\ pc = "create" => todo = cache /\ buf = {}
  /\ pc = "write" => todo \union buf \union tmp = cache
  /\ pc \in {"close", "rename"} => tmp = cache

Crawled == {"crawl", "create", "write", "close", "rename"}

\* The cache holds what the file holds.
Loaded == pc \in Crawled => file \subseteq cache

\* canonicalURL() leaves the keys of the cache, and so the lines of the file, alone.
Canonical == \A u \in cache \union file : Canon[u] = u

IInv == TypeOK /\ Progress

SInv == IInv /\ Loaded /\ Canonical

-----------------------------------------------------------------------------
\* The type invariant and Progress are inductive.
THEOREM SaveInductive == Spec => []IInv
<1>1. Init => IInv
  BY CacheAssumption DEF Init, IInv, TypeOK, Progress
<1>2. IInv /\ [Next]_vars => IInv'
  <2> SUFFICES ASSUME IInv, [Next]_vars PROVE IInv'
    OBVIOUS
  <2> USE CacheAssumption DEF IInv, TypeOK, Progress
  <2>1. CASE Start
    BY <2>1 DEF Start
  <2>2. CASE Load
    BY <2>2 DEF Load
  <2>3. CASE LoadFailed
    BY <2>3 DEF LoadFailed
  <2>4. CASE \E u \in Urls : MarkVisited(u)
    BY <2>4 DEF MarkVisited
  <2>5. CASE Save
    <3>1. CASE Snapshot
      BY <3>1 DEF Snapshot
    <3>2. CASE Create
      BY <3>2 DEF Create
    <3>3. CASE CreateFailed
      BY <3>3 DEF CreateFailed, SaveFailed
    <3>4. CASE Write
      <4>1. PICK k \in todo :
               /\ todo' = todo \ {k}
               /\ \/ buf' = buf \union {k} /\ UNCHANGED tmp
                  \/ buf' = {} /\ tmp' = tmp \union buf \union {k}
        BY <3>4 DEF Write
      <4>2. pc = "write" /\ UNCHANGED <<pc, cache, file, runs>>
        BY <3>4 DEF Write
      <4>3. (todo \union buf \union tmp)' = todo \union buf \union tmp
        BY <4>1
      <4>4. todo' \subseteq Urls /\ buf' \subseteq Urls /\ tmp' \subseteq Urls
        BY <4>1
      <4> QED
        BY <4>2, <4>3, <4>4
    <3>5. CASE Flush
      BY <3>5 DEF Flush
    <3>6. CASE WriteFailed
      BY <3>6 DEF WriteFailed, SaveFailed
    <3>7. CASE Close
      BY <3>7 DEF Close
    <3>8. CASE Rename
      BY <3>8 DEF Rename
    <3>9. CASE RenameFailed
      BY <3>9 DEF RenameFailed, SaveFailed
    <3> QED
      BY <2>5, <3>1, <3>2, <3>3, <3>4, <3>5, <3>6, <3>7, <3>8, <3>9 DEF Save
  <2>6. CASE Crash
    BY <2>6 DEF Crash
  <2>7. CASE UNCHANGED vars
    BY <2>7 DEF vars
  <2> QED
    BY <2>1, <2>2, <2>3, <2>4, <2>5, <2>6, <2>7 DEF Next, Terminated
<1> QED
  BY <1>1, <1>2, PTL DEF Spec

\* Every variable of the cache keeps its type, and Save never writes a key the run
\* has not visited.
THEOREM CacheTypeCorrect == Spec => []TypeOK
  BY SaveInductive, PTL DEF IInv

\* The file is only ever replaced as a whole, by the complete set of visited URLs.
THEOREM FileSavedWhole == Spec => SavedWhole
<1>1. IInv /\ [Next]_vars => [file' # file => file' = cache]_vars
  BY DEF IInv, Progress, Next, Start, Load, LoadFailed, MarkVisited, Save, Snapshot, Create,
         CreateFailed, Write, Flush, WriteFailed, Close, Rename, RenameFailed, Crash,
         Terminated, SaveFailed, vars
<1> QED
  BY <1>1, SaveInductive, PTL DEF Spec, SavedWhole

-----------------------------------------------------------------------------
\* With an idempotent canonicalURL(), what is in the file stays known.
LEMMA KeptInductive == ASSUME Idempotent PROVE Spec => []SInv
<1>1. Init => Loaded /\ Canonical
  BY DEF Init, Loaded, Crawled, Canonical
<1>2. SInv /\ IInv' /\ [Next]_vars => SInv'
  <2> SUFFICES ASSUME SInv, IInv', [Next]_vars PROVE Loaded' /\ Canonical'
    BY DEF SInv
  <2> USE CacheAssumption DEF SInv, Loaded, Crawled, Canonical
  <2>1. CASE Start
    BY <2>1 DEF Start
  <2>2. CASE Load
    <3>1. \A u \in file : Canon[u] = u
      OBVIOUS
    <3>2. cache' = file /\ file' = file
      BY <2>2, <3>1 DEF Load
    <3> QED
      BY <3>1, <3>2
  <2>3. CASE LoadFailed
    <3>1. PICK read \in SUBSET (file \ Long) : cache' = {Canon[u] : u \in read}
      BY <2>3 DEF LoadFailed
    <3>2. cache' = read /\ file' = file /\ pc' = "refused"
      BY <2>3, <3>1 DEF LoadFailed
    <3> QED
      BY <3>2
  <2>4. CASE \E u \in Urls : MarkVisited(u)
    BY <2>4, Idempotent DEF MarkVisited, Idempotent
  <2>5. CASE Save
    BY <2>5 DEF Save, Snapshot, Create, CreateFailed, Write, Flush, WriteFailed, Close,
                Rename, RenameFailed, SaveFailed, IInv, Progress
  <2>6. CASE Crash
    BY <2>6 DEF Crash
  <2>7. CASE UNCHANGED vars
    BY <2>7 DEF vars
  <2> QED
    BY <2>1, <2>2, <2>3, <2>4, <2>5, <2>6, <2>7 DEF Next, Terminated
<1> QED
  BY <1>1, <1>2, SaveInductive, PTL DEF Spec, SInv

\* A run knows every URL an earlier run has saved.
THEOREM SavedIsRecognised == ASSUME Idempotent PROVE Spec => []Recognised
<1>1. SInv => Recognised
  BY DEF SInv, Loaded, Crawled, Recognised
<1> QED
  BY <1>1, KeptInductive, PTL

\* No crash, failure or later run ever loses a URL from the file.
THEOREM FileGrowsOnly == ASSUME Idempotent PROVE Spec => GrowsOnly
<1>1. SInv /\ [Next]_vars => [file \subseteq file']_vars
  BY DEF SInv, IInv, Progress, Loaded, Crawled, Next, Start, Load, LoadFailed, MarkVisited,
         Save, Snapshot, Create, CreateFailed, Write, Flush, WriteFailed, Close, Rename,
         RenameFailed, Crash, Terminated, SaveFailed, vars
<1> QED
  BY <1>1, KeptInductive, PTL DEF Spec, GrowsOnly

-----------------------------------------------------------------------------
(* Sequences.                                                              *)

\* Sequences of the same elements are the same.
LEMMA SeqsEqual ==
  ASSUME NEW S, NEW s \in Seq(S), NEW t \in Seq(S), Len(s) = Len(t),
         \A k \in 1 .. Len(t) : s[k] = t[k]
  PROVE  s = t
  OBVIOUS

\* The elements of a longer sequence.
LEMMA AppendParts ==
  ASSUME NEW S, NEW s \in Seq(S), NEW e \in S
  PROVE  /\ Append(s, e) \in Seq(S) /\ Len(Append(s, e)) = Len(s) + 1
         /\ Append(s, e)[Len(s) + 1] = e /\ \A i \in 1 .. Len(s) : Append(s, e)[i] = s[i]
  OBVIOUS

\* The elements of a prefix are those of the sequence.
LEMMA PrefixParts ==
  ASSUME NEW S, NEW s \in Seq(S), NEW m \in Nat, m <= Len(s)
  PROVE  Len(SubSeq(s, 1, m)) = m /\ \A k \in 1 .. m : SubSeq(s, 1, m)[k] = s[k]
  OBVIOUS

\* So are those of all but the last element.
LEMMA FrontParts ==
  ASSUME NEW S, NEW s \in Seq(S), s # <<>>
  PROVE  Len(Front(s)) = Len(s) - 1 /\ \A k \in 1 .. Len(s) - 1 : Front(s)[k] = s[k]
<1>1. Len(s) - 1 \in Nat /\ Len(s) - 1 <= Len(s)
  OBVIOUS
<1> QED BY <1>1, PrefixParts DEF Front

\* A sequence is its first element and the rest, and its last one after the others.
LEMMA FirstAndRest ==
  ASSUME NEW S, NEW p \in Seq(S), p # <<>>
  PROVE  /\ Tail(p) \in Seq(S) /\ Front(p) \in Seq(S)
         /\ p = <<p[1]>> \o Tail(p) /\ p = Append(Front(p), Last(p))
  BY DEF Front, Last

\* The last element of a concatenation.
LEMMA ConcatLast ==
  ASSUME NEW S, NEW s \in Seq(S), NEW t \in Seq(S), t # <<>>
  PROVE  /\ s \o t \in Seq(S) /\ Len(s \o t) = Len(s) + Len(t)
         /\ s \o t # <<>> /\ Last(s \o t) = Last(t)
  BY DEF Last

\* One element more, on either side.
LEMMA ConcatOne ==
  ASSUME NEW S, NEW a \in Seq(S), NEW e \in S, NEW b \in Seq(S)
  PROVE  a \o (<<e>> \o b) = Append(a, e) \o b
  OBVIOUS

\* The elements of a concatenation.
LEMMA ConcatAll ==
  ASSUME NEW S, NEW a \in Seq(S), NEW b \in Seq(S)
  PROVE  /\ a \o b \in Seq(S) /\ Len(a \o b) = Len(a) + Len(b)
         /\ \A i \in 1 .. Len(a) : (a \o b)[i] = a[i]
         /\ \A i \in 1 .. Len(b) : (a \o b)[Len(a) + i] = b[i]
  OBVIOUS

\* What is appended to a concatenation is appended to its second part.
LEMMA ConcatAppend ==
  ASSUME NEW S, NEW a \in Seq(S), NEW b \in Seq(S), NEW e \in S
  PROVE  Append(a \o b, e) = a \o Append(b, e)
  OBVIOUS

\* Append and concatenation under names that the provers do not expand.
Added(s, e)  == Append(s, e)

Behind(a, b) == a \o b

\* ConcatAppend in these terms.
LEMMA AddedBehind ==
  ASSUME NEW S, NEW a \in Seq(S), NEW b \in Seq(S), NEW e \in S
  PROVE  Added(Behind(a, b), e) = Behind(a, Added(b, e))
  BY DEF Added, Behind

\* Nothing is added by an empty sequence.
LEMMA NoneBehind ==
  ASSUME NEW S, NEW a \in Seq(S)
  PROVE  a \o <<>> = a /\ <<>> \o a = a
  OBVIOUS

\* A prefix of a sequence grows by one element.
LEMMA GrownBy ==
  ASSUME NEW T, NEW a \in Seq(T), NEW s \in Seq(T), NEW n \in 1 .. Len(s)
  PROVE  Append(a \o SubSeq(s, 1, n - 1), s[n]) = a \o SubSeq(s, 1, n)
  OBVIOUS

\* The prefixes of a sequence, each one element longer than the one before.
LEMMA EndParts ==
  ASSUME NEW S, NEW w \in Seq(S)
  PROVE  /\ SubSeq(w, 1, Len(w)) = w
         /\ SubSeq(w, 1, 0) = <<>>
         /\ \A n \in 0 .. Len(w) : SubSeq(w, 1, n) \in Seq(S)
         /\ \A n \in 1 .. Len(w) : SubSeq(w, 1, n) = Append(SubSeq(w, 1, n - 1), w[n]) /\ w[n] \in S
  OBVIOUS

\* What IsPrefix() says, token by token.
LEMMA PrefixIs ==
  ASSUME NEW S, NEW s \in Seq(S), NEW t \in Seq(S)
  PROVE  IsPrefix(s, t) <=> Len(s) <= Len(t) /\ \A i \in 1 .. Len(s) : s[i] = t[i]
<1>1. ASSUME IsPrefix(s, t) PROVE Len(s) <= Len(t) /\ \A i \in 1 .. Len(s) : s[i] = t[i]
  <2>1. Len(s) <= Len(t) /\ SubSeq(s, 1, Len(s)) = SubSeq(t, 1, Len(s)) /\ Len(s) \in Nat
    BY <1>1 DEF IsPrefix
  <2>2. /\ \A i \in 1 .. Len(s) : SubSeq(s, 1, Len(s))[i] = s[i]
        /\ \A i \in 1 .. Len(s) : SubSeq(t, 1, Len(s))[i] = t[i]
    BY <2>1, PrefixParts
  <2> QED BY <2>1, <2>2
<1>2. ASSUME Len(s) <= Len(t), \A i \in 1 .. Len(s) : s[i] = t[i] PROVE IsPrefix(s, t)
  <2> DEFINE a == SubSeq(s, 1, Len(s))
             b == SubSeq(t, 1, Len(s))
  <2>1. a \in Seq(S) /\ b \in Seq(S) /\ Len(s) \in Nat
    BY <1>2
  <2>2. /\ Len(a) = Len(s) /\ Len(b) = Len(s)
        /\ \A i \in 1 .. Len(s) : a[i] = s[i]
        /\ \A i \in 1 .. Len(s) : b[i] = t[i]
    BY <1>2, <2>1, PrefixParts
  <2> HIDE DEF a, b
  <2>3. \A i \in 1 .. Len(b) : a[i] = b[i]
    BY <1>2, <2>2
  <2>4. a = b
    BY <2>1, <2>2, <2>3, SeqsEqual
  <2> QED BY <1>2, <2>4 DEF IsPrefix, a, b
<1> QED BY <1>1, <1>2

\* What is added behind keeps a prefix.
LEMMA PrefixKept ==
  ASSUME NEW S, NEW s \in Seq(S), NEW t \in Seq(S), NEW w \in Seq(S), IsPrefix(s, t)
  PROVE  IsPrefix(s, t \o w)
<1>1. Len(s) <= Len(t) /\ (\A i \in 1 .. Len(s) : s[i] = t[i]) /\ Len(s) \in Nat /\ Len(t) \in Nat /\ Len(w) \in Nat
  BY PrefixIs
<1>2. /\ t \o w \in Seq(S) /\ Len(t \o w) = Len(t) + Len(w)
      /\ \A i \in 1 .. Len(t) : (t \o w)[i] = t[i]
  BY ConcatAll
<1> DEFINE u == t \o w
<1> HIDE DEF u
<1>3. Len(s) <= Len(u) /\ \A i \in 1 .. Len(s) : s[i] = u[i]
  BY <1>1, <1>2 DEF u
<1> QED BY <1>2, <1>3, PrefixIs DEF u

\* A sequence is its prefix and the rest.
LEMMA PrefixRest ==
  ASSUME NEW S, NEW s \in Seq(S), NEW t \in Seq(S), IsPrefix(s, t)
  PROVE  LET w == SubSeq(t, Len(s) + 1, Len(t))
         IN  w \in Seq(S) /\ Len(w) = Len(t) - Len(s) /\ t = s \o w
<1>1. Len(s) <= Len(t) /\ Len(s) \in Nat /\ Len(t) \in Nat /\ \A i \in 1 .. Len(s) : s[i] = t[i]
  BY PrefixIs
<1> DEFINE w == SubSeq(t, Len(s) + 1, Len(t))
           u == s \o w
<1>2. w \in Seq(S) /\ Len(w) = Len(t) - Len(s) /\ \A i \in 1 .. Len(w) : w[i] = t[Len(s) + i]
  BY <1>1
<1> HIDE DEF w
<1>3. /\ u \in Seq(S) /\ Len(u) = Len(t)
      /\ \A i \in 1 .. Len(s) : u[i] = s[i]
      /\ \A i \in 1 .. Len(w) : u[Len(s) + i] = w[i]
  BY <1>1, <1>2
<1>4. \A i \in 1 .. Len(t) : u[i] = t[i]
  <2> SUFFICES ASSUME NEW i \in 1 .. Len(t) PROVE u[i] = t[i]
    OBVIOUS
  <2> HIDE DEF u
  <2>1. CASE i <= Len(s)
    BY <1>1, <1>3, <2>1
  <2>2. CASE i > Len(s)
    <3>1. i - Len(s) \in 1 .. Len(w) /\ Len(s) + (i - Len(s)) = i
      BY <1>1, <1>2, <2>2
    <3>2. u[Len(s) + (i - Len(s))] = w[i - Len(s)] /\ w[i - Len(s)] = t[Len(s) + (i - Len(s))]
      BY <1>2, <1>3, <3>1
    <3> QED BY <3>1, <3>2
  <2> QED BY <1>1, <2>1, <2>2
<1> HIDE DEF u
<1>5. t = u
  BY <1>3, <1>4, SeqsEqual
<1> QED BY <1>2, <1>5 DEF u, w

\* An element between two sequences is in the concatenation.
LEMMA HostAmong ==
  ASSUME NEW S, NEW a \in Seq(S), NEW e \in S, NEW b \in Seq(S)
  PROVE  e \in ToSet(a \o (<<e>> \o b))
<1> DEFINE c == a \o (<<e>> \o b)
<1>1. Len(a) + 1 \in DOMAIN c /\ c[Len(a) + 1] = e
  OBVIOUS
<1> HIDE DEF c
<1> QED BY <1>1 DEF ToSet, c

\* Sequences that are the same behind one element are the same.
LEMMA SameTail ==
  ASSUME NEW S, NEW a \in Seq(S), NEW b \in Seq(S), NEW e, <<e>> \o a = <<e>> \o b
  PROVE  a = b
<1> DEFINE x == <<e>> \o a
           y == <<e>> \o b
<1>1. Len(x) = Len(a) + 1 /\ \A i \in 1 .. Len(a) : x[i + 1] = a[i]
  OBVIOUS
<1>2. Len(y) = Len(b) + 1 /\ \A i \in 1 .. Len(b) : y[i + 1] = b[i]
  OBVIOUS
<1>3. x = y /\ Len(a) \in Nat /\ Len(b) \in Nat
  OBVIOUS
<1> HIDE DEF x, y
<1>4. Len(a) = Len(b) /\ \A i \in 1 .. Len(b) : a[i] = b[i]
  BY <1>1, <1>2, <1>3
<1> QED BY <1>4, SeqsEqual

-----------------------------------------------------------------------------
(* The links of an FTP server.                                             *)

\* A path below another is its directory and its name.
LEMMA PathParts ==
  ASSUME NEW q \in Seq(STRING), q # <<>>
  PROVE  /\ Front(q) \in Seq(STRING) /\ Last(q) \in STRING
         /\ q = Front(q) \o <<Last(q)>>
  BY DEF Front, Last

\* What getLinksByFTP() makes links of.
Shown(tree, p) == {q \in Children(tree, p) : tree[q] # "link"}

\* The entry of q in the listing of its directory.
EntryOf(tree, q) == Entry([rooted |-> FALSE, segs |-> <<Last(q)>>], tree[q])

\* The listing of a directory, whatever the URL ends in.
LEMMA DirListed ==
  ASSUME NEW tree \in Trees, NEW convention \in Conventions, NEW p \in DOMAIN tree,
         NEW slash \in BOOLEAN, tree[p] = "dir"
  PROVE  /\ Listed(tree, FtpUrl(p, slash), convention).ok
         /\ Listed(tree, FtpUrl(p, slash), convention).entries =
              {EntryOf(tree, q) : q \in Shown(tree, p)}
<1> DEFINE u == FtpUrl(p, slash)
           L == List(tree, p, slash, convention)
<1>1. L = [ok |-> TRUE, entries |-> {EntryOf(tree, q) : q \in Children(tree, p)}]
  BY DEF List, EntryOf
<1>2. ftpList(tree, u, convention) = L
  BY <1>1 DEF ftpList, FtpUrl
<1>3. /\ Listed(tree, u, convention).ok
      /\ Listed(tree, u, convention).entries =
           {e \in {EntryOf(tree, q) : q \in Children(tree, p)} : ~e.isLink}
  <2> DEFINE raw == ftpList(tree, u, convention)
             X == {EntryOf(tree, q) : q \in Children(tree, p)}
             kept == {e \in raw.entries : ~e.isLink}
  <2>1. raw = [ok |-> TRUE, entries |-> X]
    BY <1>1, <1>2
  <2>2. kept = {e \in X : ~e.isLink}
    BY <2>1
  <2>3. Listed(tree, u, convention) = [raw EXCEPT !.entries = kept]
    BY DEF Listed
  <2>4. Listed(tree, u, convention).ok /\ Listed(tree, u, convention).entries = kept
    <3> HIDE DEF X, raw, kept
    <3> QED BY <2>1, <2>3
  <2> QED BY <2>2, <2>4
<1>4. \A q : EntryOf(tree, q).isLink <=> tree[q] = "link"
  BY DEF EntryOf, Entry
<1>5. {e \in {EntryOf(tree, q) : q \in Children(tree, p)} : ~e.isLink} =
        {EntryOf(tree, q) : q \in Shown(tree, p)}
  <2> HIDE DEF u, L
  <2> QED BY <1>4 DEF Shown
<1> QED BY <1>3, <1>5

\* A directory under a directory that can be listed is recognised.
LEMMA DirRecognised ==
  ASSUME NEW tree \in Trees, NEW convention \in Conventions, NEW p \in DOMAIN tree,
         NEW slash \in BOOLEAN, p # <<>>, tree[p] = "dir", tree[Front(p)] = "dir"
  PROVE  ftpIsDirectory(tree, FtpUrl(p, slash), convention)
<1>1. Front(p) \in DOMAIN tree
  BY MirrorAssumption DEF IsTree
<1>2. /\ Listed(tree, FtpUrl(Front(p), TRUE), convention).ok
      /\ Listed(tree, FtpUrl(Front(p), TRUE), convention).entries =
           {EntryOf(tree, q) : q \in Shown(tree, Front(p))}
  BY <1>1, DirListed
<1>3. p \in Shown(tree, Front(p))
  BY DEF Shown, Children
<1>4. EntryOf(tree, p).isDir /\ EntryOf(tree, p).name = [rooted |-> FALSE, segs |-> <<Last(p)>>]
  BY DEF EntryOf, Entry
<1>5. matchesFTPPathName(EntryOf(tree, p).name, FtpUrl(p, slash))
  BY <1>4 DEF matchesFTPPathName, FtpUrl
<1>6. FtpUrl(p, slash).path = p
  BY DEF FtpUrl
<1> QED BY <1>2, <1>3, <1>4, <1>5, <1>6 DEF ftpIsDirectory

\* A file never is.
LEMMA FileRecognised ==
  ASSUME NEW tree \in Trees, NEW convention \in Conventions, NEW p \in DOMAIN tree,
         NEW slash \in BOOLEAN, tree[p] = "file"
  PROVE  ~ftpIsDirectory(tree, FtpUrl(p, slash), convention)
<1>1. /\ p # <<>> /\ p \in Seq(STRING) /\ Front(p) \in DOMAIN tree
      /\ DOMAIN tree \subseteq Seq(STRING)
  BY MirrorAssumption DEF IsTree
<1>2. FtpUrl(p, slash).path = p
  BY DEF FtpUrl
<1> SUFFICES ASSUME ftpIsDirectory(tree, FtpUrl(p, slash), convention) PROVE FALSE
  OBVIOUS
<1>3. PICK e : /\ Listed(tree, FtpUrl(Front(p), TRUE), convention).ok
               /\ e \in Listed(tree, FtpUrl(Front(p), TRUE), convention).entries
               /\ matchesFTPPathName(e.name, FtpUrl(p, slash)) /\ e.isDir
  BY <1>2 DEF ftpIsDirectory
<1>4. tree[Front(p)] = "dir"
  BY <1>1, <1>3 DEF Listed, ftpList, List, FtpUrl, Failed
<1>5. PICK q \in Shown(tree, Front(p)) : e = EntryOf(tree, q)
  <2>1. Listed(tree, FtpUrl(Front(p), TRUE), convention).entries =
          {EntryOf(tree, q) : q \in Shown(tree, Front(p))}
    BY <1>1, <1>4, DirListed
  <2> QED BY <1>3, <2>1
<1>6. q \in Seq(STRING) /\ q # <<>> /\ Front(q) = Front(p)
  BY <1>1, <1>5 DEF Shown, Children
<1>7. <<Last(q)>> = <<Last(p)>> \/ <<Last(q)>> = p
  BY <1>2, <1>3, <1>5 DEF matchesFTPPathName, EntryOf, Entry
<1>8. q = p
  <2>1. CASE <<Last(q)>> = <<Last(p)>>
    BY <2>1, <1>1, <1>6, PathParts
  <2>2. CASE <<Last(q)>> = p
    <3>1. Last(p) = Last(q)
      BY <2>2 DEF Last
    <3> QED BY <3>1, <1>1, <1>6, PathParts
  <2> QED BY <1>7, <2>1, <2>2
<1> QED BY <1>3, <1>5, <1>8 DEF EntryOf, Entry

\* A directory that can be listed gives its entries but for the symbolic links.
LEMMA DirLinks ==
  ASSUME NEW tree \in Trees, NEW convention \in Conventions, NEW p \in DOMAIN tree,
         NEW slash \in BOOLEAN, tree[p] = "dir", p = <<>> \/ tree[Front(p)] = "dir"
  PROVE  getLinksByFTP(tree, FtpUrl(p, slash), convention) =
           {FtpUrl(q, tree[q] \in {"dir", "locked"}) : q \in {q \in Children(tree, p) : tree[q] # "link"}}
<1> DEFINE u == FtpUrl(p, slash)
           E == {EntryOf(tree, q) : q \in Shown(tree, p)}
<1>1. Listed(tree, u, convention).ok /\ Listed(tree, u, convention).entries = E
  BY DirListed
<1>2. Ambiguous(Listed(tree, u, convention), u) => ftpIsDirectory(tree, u, convention)
  BY DirRecognised DEF Ambiguous, FtpUrl
<1>3. ftpListEntries(tree, u, convention).entries = E
  <2> HIDE DEF u, E
  <2> QED BY <1>1, <1>2 DEF ftpListEntries
<1>4. getLinksByFTP(tree, u, convention) = {FtpUrl(p \o e.name.segs, e.isDir) : e \in E}
  <2> HIDE DEF E
  <2> QED BY <1>3 DEF getLinksByFTP, FtpUrl
<1>5. ASSUME NEW q \in Shown(tree, p)
      PROVE FtpUrl(p \o EntryOf(tree, q).name.segs, EntryOf(tree, q).isDir) =
              FtpUrl(q, tree[q] \in {"dir", "locked"})
  <2>1. q \in Seq(STRING) /\ q # <<>> /\ Front(q) = p
    BY MirrorAssumption DEF Shown, Children, IsTree
  <2>2. p \o <<Last(q)>> = q
    BY <2>1, PathParts
  <2> QED BY <2>2 DEF EntryOf, Entry
<1>6. {FtpUrl(p \o e.name.segs, e.isDir) : e \in E} =
        {FtpUrl(q, tree[q] \in {"dir", "locked"}) : q \in Shown(tree, p)}
  <2> HIDE DEF u
  <2> QED BY <1>5
<1> QED BY <1>4, <1>6 DEF Shown

\* A file is no page to be crawled.
LEMMA FileAnswered ==
  ASSUME NEW tree \in Trees, NEW convention \in Conventions, NEW p \in DOMAIN tree,
         tree[p] = "file"
  PROVE  ftpListEntries(tree, FtpUrl(p, FALSE), convention).answer = "notHTML"
<1> DEFINE u == FtpUrl(p, FALSE)
           e == Entry(FileName(p, convention), "file")
<1>1. p # <<>>
  BY MirrorAssumption DEF IsTree
<1>2. ~ftpIsDirectory(tree, u, convention)
  BY FileRecognised
<1>3. ~e.isLink /\ ~e.isDir /\ e.name = FileName(p, convention)
  BY DEF Entry
<1>4. CASE convention = "refuse"
  BY <1>4 DEF ftpListEntries, Listed, ftpList, List, FtpUrl, Failed
<1>5. CASE convention # "refuse"
  <2>1. List(tree, p, FALSE, convention) = [ok |-> TRUE, entries |-> {e}]
    BY <1>5 DEF List
  <2>2. Listed(tree, u, convention).ok /\ Listed(tree, u, convention).entries = {e}
    <3>1. ftpList(tree, u, convention) = [ok |-> TRUE, entries |-> {e}]
      <4>1. List(tree, u.path, u.slash, convention) = [ok |-> TRUE, entries |-> {e}]
        BY <2>1 DEF FtpUrl
      <4> HIDE DEF e, u
      <4> QED BY <4>1 DEF ftpList
    <3> DEFINE raw == ftpList(tree, u, convention)
               kept == {x \in raw.entries : ~x.isLink}
    <3>2. Listed(tree, u, convention) = [raw EXCEPT !.entries = kept]
      BY DEF Listed
    <3>3. kept = {e}
      <4> HIDE DEF e, u
      <4> QED BY <1>3, <3>1
    <3>4. raw = [ok |-> TRUE, entries |-> {e}]
      BY <3>1
    <3> HIDE DEF e, u, raw, kept
    <3> QED BY <3>2, <3>3, <3>4
  <2>3. matchesFTPPathName(e.name, u)
    <3>1. e.name.rooted = (convention = "full")
      BY <1>3 DEF FileName
    <3>2. e.name.segs = IF convention = "base" THEN <<Last(p)>> ELSE p
      BY <1>3 DEF FileName
    <3>3. u.path = p
      BY DEF FtpUrl
    <3> HIDE DEF e, u
    <3> QED BY <3>1, <3>2, <3>3 DEF matchesFTPPathName
  <2>4. Ambiguous(Listed(tree, u, convention), u)
    <3>1. u.path # <<>> /\ ~u.slash
      BY <1>1 DEF FtpUrl
    <3> HIDE DEF e, u
    <3> QED BY <3>1, <1>3, <2>2, <2>3 DEF Ambiguous
  <2>5. ftpListEntries(tree, u, convention).answer = "notHTML"
    <3> HIDE DEF e, u
    <3> QED BY <1>2, <2>2, <2>4 DEF ftpListEntries
  <2> QED BY <2>5
<1> QED BY <1>4, <1>5

\* ftpListEntries() and ftpIsDirectory() tell a file from a directory on every server, by
\* every convention for the name of the single entry, a directory with one entry of its own
\* name included; and getLinksByFTP() lists just what is there.
THEOREM FtpListingsExact == MirrorSpec => []ListingsExact
<1>1. ListingsExact
  BY DirLinks, FileAnswered DEF ListingsExact
<1> QED BY <1>1, PTL

-----------------------------------------------------------------------------
(* Segments, and the file below the output directory.                      *)

\* Nonempty sequences of segments.
SomeSegs(T) == Seq(Seq(T)) \ { <<>> }

\* A slash starts a segment, every other token makes the last one longer.
LEMMA AddTokenType ==
  ASSUME NEW T, NEW segs \in SomeSegs(T), NEW t \in T \union {"/"}
  PROVE  /\ AddToken(segs, t) \in SomeSegs(T)
         /\ t = "/" => AddToken(segs, t) = Append(segs, <<>>)
         /\ t # "/" => /\ Len(AddToken(segs, t)) = Len(segs)
                       /\ AddToken(segs, t)[Len(segs)] = Append(segs[Len(segs)], t)
                       /\ \A i \in 1 .. Len(segs) - 1 : AddToken(segs, t)[i] = segs[i]
<1> DEFINE n == Len(segs)
           grown == Append(segs[n], t)
<1>1. n \in Nat \ {0} /\ segs \in [1..n -> Seq(T)] /\ segs[n] \in Seq(T)
  <2>1. segs \in Seq(Seq(T)) /\ segs # <<>>
    BY DEF SomeSegs
  <2>2. n \in Nat /\ segs \in [1..n -> Seq(T)]
    BY <2>1
  <2>3. n # 0
    BY <2>1
  <2>4. segs[n] \in Seq(T)
    BY <2>2, <2>3
  <2> QED BY <2>2, <2>3, <2>4
<1>2. CASE t = "/"
  <2>1. AddToken(segs, t) = Append(segs, <<>>)
    BY <1>2 DEF AddToken
  <2>2. Append(segs, <<>>) \in Seq(Seq(T)) /\ Append(segs, <<>>) # <<>>
    BY DEF SomeSegs
  <2> QED BY <1>2, <2>1, <2>2 DEF SomeSegs
<1>3. CASE t # "/"
  <2>1. AddToken(segs, t) = [segs EXCEPT ![n] = grown]
    BY <1>3 DEF AddToken
  <2>5. grown \in Seq(T)
    <3> HIDE DEF n
    <3> QED BY <1>1, <1>3
  <2> DEFINE new == [segs EXCEPT ![n] = grown]
  <2>2. new \in [1..n -> Seq(T)] /\ new[n] = grown /\ \A i \in 1 .. n - 1 : new[i] = segs[i]
    <3> HIDE DEF n, grown
    <3> QED BY <1>1, <2>5
  <2>3. new \in Seq(Seq(T)) /\ Len(new) = n
    <3> HIDE DEF n, new
    <3> QED BY <1>1, <2>2
  <2>4. new \in SomeSegs(T)
    <3> HIDE DEF n, new
    <3> QED BY <1>1, <2>3 DEF SomeSegs
  <2> QED BY <1>3, <2>1, <2>2, <2>3, <2>4
<1> QED BY <1>2, <1>3

\* The segments are those after the last token, and every token is added to those before.
LEMMA SegmentsSteps ==
  ASSUME NEW T, NEW p \in Seq(T \union {"/"})
  PROVE  \E g : /\ Segments(p) = g[Len(p)] /\ g[0] = << <<>> >>
                /\ \A n \in 0 .. Len(p) : g[n] \in SomeSegs(T)
                /\ \A n \in 1 .. Len(p) : g[n] = AddToken(g[n - 1], p[n])
<1> DEFINE N == Len(p)
           b == << <<>> >>
           V == SomeSegs(T)
           St == [x \in V \X (1..N) |-> AddToken(x[1], p[x[2]])]
           upTo == CHOOSE h : h = [n \in 0..N |-> IF n = 0 THEN b ELSE AddToken(h[n - 1], p[n])]
<1>1. N \in Nat /\ b \in V
  BY DEF SomeSegs
<1>2. St \in Steps(N, V)
  <2>1. \A x \in V \X (1..N) : x[1] \in V /\ p[x[2]] \in T \union {"/"}
    BY <1>1
  <2> HIDE DEF N, V
  <2> QED BY <2>1, AddTokenType DEF V, Steps
<1>3. PICK g \in Maps(N, V) : g[0] = b /\ \A n \in 1..N : g[n] = St[<<g[n - 1], n>>]
  <2> HIDE DEF N, b, V, St
  <2> QED BY <1>1, <1>2, RecursionExists
<1>4. \A n \in 0..N : g[n] \in V
  BY <1>3 DEF Maps
<1>5. \A n \in 1..N : g[n] = AddToken(g[n - 1], p[n])
  <2> SUFFICES ASSUME NEW n \in 1..N PROVE g[n] = AddToken(g[n - 1], p[n])
    OBVIOUS
  <2>1. g[n] = St[<<g[n - 1], n>>]
    BY <1>3
  <2>2. g[n - 1] \in V
    <3> HIDE DEF N, V
    <3> QED BY <1>1, <1>4
  <2> HIDE DEF N, V
  <2> QED BY <2>1, <2>2
<1>6. g = [n \in 0..N |-> IF n = 0 THEN b ELSE AddToken(g[n - 1], p[n])]
  <2> HIDE DEF N, b, V, St
  <2>1. ASSUME NEW n \in 0..N PROVE g[n] = IF n = 0 THEN b ELSE AddToken(g[n - 1], p[n])
    <3>1. n = 0 \/ n \in 1..N
      BY <1>1
    <3> QED BY <1>3, <1>5, <3>1
  <2> QED BY <1>3, <2>1 DEF Maps
<1>7. upTo = [n \in 0..N |-> IF n = 0 THEN b ELSE AddToken(upTo[n - 1], p[n])]
  <2> HIDE DEF N, b, V, St
  <2> QED BY <1>6
<1>8. upTo[0] = b /\ \A n \in 1..N : upTo[n] = AddToken(upTo[n - 1], p[n])
  <2> HIDE DEF upTo, N, b
  <2> QED BY <1>1, <1>7
<1>9. \A n \in 0..N : upTo[n] = g[n]
  <2> HIDE DEF upTo, N, b
  <2>1. \A n \in 1..N : upTo[n - 1] = g[n - 1] => upTo[n] = g[n]
    BY <1>5, <1>8
  <2>2. upTo[0] = g[0]
    BY <1>3, <1>8
  <2> QED BY <1>1, <2>1, <2>2, SameSteps
<1>10. Segments(p) = upTo[N]
  BY DEF Segments
<1>11. Segments(p) = g[N]
  <2> HIDE DEF upTo, N
  <2> QED BY <1>1, <1>9, <1>10
<1> QED
  <2> HIDE DEF upTo
  <2> QED BY <1>3, <1>4, <1>5, <1>11

\* What path.Clean keeps.
IsName(s) == s \notin {<<>>, Dot, DotDot}

\* The segments that are names, of these tokens.
Names(T)  == {s \in Seq(T) : IsName(s)}

\* A name goes on the stack, ".." takes one off, an empty segment and "." do nothing.
LEMMA KeepSegmentType ==
  ASSUME NEW T, NEW kept \in Seq(Names(T)), NEW s \in Seq(T)
  PROVE  /\ KeepSegment(kept, s) \in Seq(Names(T))
         /\ IsName(s) => KeepSegment(kept, s) = Append(kept, s)
         /\ ~IsName(s) => \/ KeepSegment(kept, s) = kept
                          \/ s = DotDot /\ kept # <<>> /\ KeepSegment(kept, s) = Front(kept)
<1>1. Dot # DotDot /\ <<>> # DotDot
  BY DEF Dot, DotDot
<1>2. CASE s \in {<<>>, Dot}
  BY <1>1, <1>2 DEF KeepSegment, IsName
<1>3. CASE s = DotDot /\ kept = <<>>
  BY <1>1, <1>3 DEF KeepSegment, IsName
<1>4. CASE s = DotDot /\ kept # <<>>
  <2>1. KeepSegment(kept, s) = Front(kept)
    BY <1>1, <1>4 DEF KeepSegment
  <2>2. Front(kept) \in Seq(Names(T))
    BY <1>4 DEF Front
  <2> QED BY <1>4, <2>1, <2>2 DEF IsName
<1>5. CASE IsName(s)
  <2>1. KeepSegment(kept, s) = Append(kept, s)
    BY <1>5 DEF KeepSegment, IsName
  <2>2. s \in Names(T)
    BY <1>5 DEF Names
  <2> QED BY <1>5, <2>1, <2>2
<1> QED BY <1>2, <1>3, <1>4, <1>5 DEF IsName

\* The segments that are kept are those after the last segment.
LEMMA CleanSegmentsSteps ==
  ASSUME NEW T, NEW p, NEW segs, segs = Segments(p), segs \in Seq(Seq(T))
  PROVE  \E g : /\ CleanSegments(p) = g[Len(segs)] /\ g[0] = <<>>
                /\ \A n \in 0 .. Len(segs) : g[n] \in Seq(Names(T))
                /\ \A n \in 1 .. Len(segs) : g[n] = KeepSegment(g[n - 1], segs[n])
<1> DEFINE N == Len(segs)
           b == <<>>
           V == Seq(Names(T))
           St == [x \in V \X (1..N) |-> KeepSegment(x[1], segs[x[2]])]
           upTo == CHOOSE h : h = [n \in 0..N |-> IF n = 0 THEN b ELSE KeepSegment(h[n - 1], segs[n])]
<1>1. N \in Nat /\ b \in V
  OBVIOUS
<1>2. St \in Steps(N, V)
  <2>1. \A x \in V \X (1..N) : x[1] \in V /\ segs[x[2]] \in Seq(T)
    BY <1>1
  <2> HIDE DEF N, V
  <2> QED BY <2>1, KeepSegmentType DEF V, Steps
<1>3. PICK g \in Maps(N, V) : g[0] = b /\ \A n \in 1..N : g[n] = St[<<g[n - 1], n>>]
  <2> HIDE DEF N, b, V, St
  <2> QED BY <1>1, <1>2, RecursionExists
<1>4. \A n \in 0..N : g[n] \in V
  BY <1>3 DEF Maps
<1>5. \A n \in 1..N : g[n] = KeepSegment(g[n - 1], segs[n])
  <2> SUFFICES ASSUME NEW n \in 1..N PROVE g[n] = KeepSegment(g[n - 1], segs[n])
    OBVIOUS
  <2>1. g[n] = St[<<g[n - 1], n>>]
    BY <1>3
  <2>2. g[n - 1] \in V
    <3> HIDE DEF N, V
    <3> QED BY <1>1, <1>4
  <2> HIDE DEF N, V
  <2> QED BY <2>1, <2>2
<1>6. g = [n \in 0..N |-> IF n = 0 THEN b ELSE KeepSegment(g[n - 1], segs[n])]
  <2> HIDE DEF N, b, V, St
  <2>1. ASSUME NEW n \in 0..N PROVE g[n] = IF n = 0 THEN b ELSE KeepSegment(g[n - 1], segs[n])
    <3>1. n = 0 \/ n \in 1..N
      BY <1>1
    <3> QED BY <1>3, <1>5, <3>1
  <2> QED BY <1>3, <2>1 DEF Maps
<1>7. upTo = [n \in 0..N |-> IF n = 0 THEN b ELSE KeepSegment(upTo[n - 1], segs[n])]
  <2> HIDE DEF N, b, V, St
  <2> QED BY <1>6
<1>8. upTo[0] = b /\ \A n \in 1..N : upTo[n] = KeepSegment(upTo[n - 1], segs[n])
  <2> HIDE DEF upTo, N, b
  <2> QED BY <1>1, <1>7
<1>9. \A n \in 0..N : upTo[n] = g[n]
  <2> HIDE DEF upTo, N, b
  <2>1. \A n \in 1..N : upTo[n - 1] = g[n - 1] => upTo[n] = g[n]
    BY <1>5, <1>8
  <2>2. upTo[0] = g[0]
    BY <1>3, <1>8
  <2> QED BY <1>1, <2>1, <2>2, SameSteps
<1>10. CleanSegments(p) = upTo[N]
  BY DEF CleanSegments
<1>11. CleanSegments(p) = g[N]
  <2> HIDE DEF upTo, N
  <2> QED BY <1>1, <1>9, <1>10
<1> QED
  <2> HIDE DEF upTo
  <2> QED BY <1>3, <1>4, <1>5, <1>11

\* The segments of a path hold its tokens but for the slashes.
LEMMA SegmentsType ==
  ASSUME NEW T, NEW p \in Seq(T \union {"/"})
  PROVE  Segments(p) \in SomeSegs(T)
<1>1. PICK g : Segments(p) = g[Len(p)] /\ \A n \in 0 .. Len(p) : g[n] \in SomeSegs(T)
  BY SegmentsSteps
<1>2. Len(p) \in 0 .. Len(p)
  OBVIOUS
<1> QED BY <1>1, <1>2

\* Those that path.Clean keeps are names.
LEMMA CleanSegmentsType ==
  ASSUME NEW T, NEW p \in Seq(T \union {"/"})
  PROVE  CleanSegments(p) \in Seq(Names(T))
<1> DEFINE segs == Segments(p)
<1>1. segs \in Seq(Seq(T))
  BY SegmentsType DEF SomeSegs
<1>2. \E g : CleanSegments(p) = g[Len(segs)] /\ \A n \in 0 .. Len(segs) : g[n] \in Seq(Names(T))
  <2>1. segs = Segments(p)
    OBVIOUS
  <2> HIDE DEF segs
  <2> QED BY <1>1, <2>1, CleanSegmentsSteps
<1>3. Len(segs) \in 0 .. Len(segs)
  <2> HIDE DEF segs
  <2> QED BY <1>1
<1> HIDE DEF segs
<1> QED BY <1>2, <1>3

\* Every token; the provers know no literal to be a string.
Tokens == STRING \union {"a", ".", "/", "\\", ":"}

\* The tokens that cannot separate segments on any system.
Safe   == Tokens \ {"/", "\\"}

\* A path is made of tokens.
LEMMA TokensOfPath ==
  ASSUME NEW p \in EscapedPaths
  PROVE  p \in Seq(Tokens)
  BY DEF EscapedPaths, Tokens

\* safeRelativeOutputPath() gives names without slash and backslash.
LEMMA SafeType ==
  ASSUME NEW p \in Seq(Tokens)
  PROVE  safeRelativeOutputPath(p) \in Seq(Names(Safe))
<1> DEFINE q == [i \in DOMAIN p |-> IF p[i] = "\\" THEN "/" ELSE p[i]]
<1>1. q \in Seq(Safe \union {"/"})
  <2>1. \A i \in 1 .. Len(p) : p[i] \in Tokens
    OBVIOUS
  <2>2. q = [i \in 1 .. Len(p) |-> IF p[i] = "\\" THEN "/" ELSE p[i]]
    OBVIOUS
  <2>3. \A i \in 1 .. Len(p) : q[i] \in Safe \union {"/"}
    BY <2>1, <2>2 DEF Safe
  <2>4. q \in [1 .. Len(p) -> Safe \union {"/"}]
    BY <2>2, <2>3
  <2> HIDE DEF q
  <2> QED BY <2>4
<1>2. safeRelativeOutputPath(p) = CleanSegments(q)
  BY DEF safeRelativeOutputPath
<1> HIDE DEF q
<1> QED BY <1>1, <1>2, CleanSegmentsType

\* Such names stay below the directory they are put in.
LEMMA SafeInside ==
  ASSUME NEW f \in Seq(Names(Safe))
  PROVE  InsideSegments(f)
<1>1. ASSUME NEW i \in DOMAIN f
      PROVE  f[i] \notin {<<>>, Dot, DotDot} /\ ToSet(f[i]) \intersect {"/", "\\"} = {}
  <2>1. f[i] \in Names(Safe)
    OBVIOUS
  <2>2. f[i] \in Seq(Safe) /\ IsName(f[i])
    BY <2>1 DEF Names
  <2>3. ToSet(f[i]) \subseteq Safe
    BY <2>2 DEF ToSet
  <2> QED BY <2>2, <2>3 DEF IsName, Safe
<1> QED BY <1>1 DEF InsideSegments

\* Unescaping gives tokens again.
LEMMA UnescapeType ==
  ASSUME NEW p \in Seq(Tokens)
  PROVE  Unescape(p) \in Seq(Tokens) /\ Len(Unescape(p)) = Len(p)
<1>1. \A t \in Tokens : Decoded(t) \in Tokens
  <2>1. \A e \in Escapes : Meaning[e] \in {"a", ".", "/", "\\"}
    BY DEF Escapes, Meaning
  <2> QED BY <2>1 DEF Decoded, Tokens
<1>2. Unescape(p) = [i \in 1 .. Len(p) |-> Decoded(p[i])]
  BY DEF Unescape
<1>3. \A i \in 1 .. Len(p) : Decoded(p[i]) \in Tokens
  <2>1. \A i \in 1 .. Len(p) : p[i] \in Tokens
    OBVIOUS
  <2> QED BY <1>1, <2>1
<1>4. Unescape(p) \in [1 .. Len(p) -> Tokens]
  BY <1>2, <1>3
<1> QED BY <1>4

\* A part of a path is made of what the path is made of.
LEMMA PartsType ==
  ASSUME NEW T, NEW p \in Seq(T), NEW n \in Nat
  PROVE  After(p, n) \in Seq(T) /\ TrimLeadingSlash(p) \in Seq(T)
  BY DEF After, TrimLeadingSlash

\* So is a path without its last slash.
LEMMA TrimSlashType ==
  ASSUME NEW T, NEW p \in Seq(T)
  PROVE  TrimSlash(p) \in Seq(T)
  BY DEF TrimSlash, EndsInSlash, Front, Last

\* Short sequences and what they are made of.
LEMMA ShortType ==
  ASSUME NEW T, NEW a \in T, NEW b \in T, NEW c \in T
  PROVE  <<a>> \in Seq(T) /\ <<a, b, c>> \in Seq(T)
  OBVIOUS

\* A host and its port are made of tokens that separate nothing.
LEMMA HostTokens ==
  ASSUME NEW u \in URL
  PROVE  u.host \in Safe /\ u.port \in Safe /\ ":" \in Safe
<1>1. u.host \in HostNames /\ u.port \in HostNames
  BY DEF URL
<1>2. HostNames \subseteq Safe
  BY DEF HostNames, Safe, Tokens
<1>3. ":" \in Safe
  BY DEF Safe, Tokens
<1> QED BY <1>1, <1>2, <1>3

\* A host and its port are the name of one directory, or none, unless the host is "..".
LEMMA HostIsName ==
  ASSUME NEW u \in URL, HostSegments(u) # <<DotDot>>
  PROVE  HostSegments(u) \in Seq(Names(Safe))
<1>1. HostName(u) \in Seq(Safe)
  BY HostTokens, ShortType DEF HostName
<1>2. CASE u.port = "" /\ u.host \in {"", "."}
  <2>1. HostSegments(u) = <<>>
    BY <1>2 DEF HostSegments
  <2> QED BY <2>1
<1>3. CASE ~(u.port = "" /\ u.host \in {"", "."})
  <2>1. HostSegments(u) = <<HostName(u)>> /\ ~(u.port = "" /\ u.host = "..")
    BY <1>3 DEF HostSegments
  <2>2. HostName(u) # <<>>
    BY DEF HostName
  <2>3. HostName(u) # Dot
    <3>1. CASE u.port = ""
      BY <1>3, <3>1 DEF HostName, Dot
    <3>2. CASE u.port # ""
      BY <3>2 DEF HostName, Dot
    <3> QED BY <3>1, <3>2
  <2>4. HostName(u) # DotDot
    BY DEF HostName, DotDot
  <2>5. HostName(u) \in Names(Safe)
    BY <1>1, <2>2, <2>3, <2>4 DEF Names, IsName
  <2> QED BY <2>1, <2>5, ShortType
<1> QED BY <1>2, <1>3

\* A URL of such a host is not met in the seed's subtree.
LEMMA HostNotKept ==
  ASSUME NEW u \in URL, NEW s \in EscapedPaths, HostSegments(u) = <<DotDot>>
  PROVE  ~Kept(u, At(s), FALSE)
<1>1. u.host = ".."
  <2> SUFFICES ASSUME u.host # ".." PROVE FALSE
    OBVIOUS
  <2>1. CASE u.port = "" /\ u.host \in {"", "."}
    <3>1. HostSegments(u) = <<>>
      BY <2>1 DEF HostSegments
    <3> QED BY <3>1
  <2>2. CASE ~(u.port = "" /\ u.host \in {"", "."})
    <3>1. HostSegments(u) = <<HostName(u)>>
      BY <2>2 DEF HostSegments
    <3>2. Len(HostName(u)) \in {1, 3}
      BY DEF HostName
    <3>3. HostName(u) = DotDot
      BY <3>1
    <3> QED BY <3>2, <3>3 DEF DotDot
  <2> QED BY <2>1, <2>2
<1>2. At(s).host = Seed.host /\ Seed.host # ".."
  BY MirrorAssumption DEF At, URL
<1>3. u # At(s)
  BY <1>1, <1>2
<1>4. ~IsSubPath(u, At(s))
  BY <1>1, <1>2 DEF IsSubPath, SameOrigin, canonicalURL
<1> QED BY <1>3, <1>4 DEF Kept

\* downloadResource() stays inside, whatever the path, below any other host's directory.
LEMMA OutputFileInside ==
  ASSUME NEW u \in URL, NEW s \in EscapedPaths, HostSegments(u) # <<DotDot>>
  PROVE  InsideSegments(OutputFile(u, At(s)))
<1> DEFINE out == OutputFile(u, At(s))
           p1 == Unescape(u.path)
           p2 == Unescape(s)
           rest == TrimLeadingSlash(After(p1, Len(p2)))
           f == safeRelativeOutputPath(p1)
<1>1. At(s).path = s /\ u.path \in EscapedPaths
  BY MirrorAssumption DEF At, URL
<1>2. p1 \in Seq(Tokens) /\ p2 \in Seq(Tokens)
  BY <1>1, UnescapeType, TokensOfPath
<1>3. rest \in Seq(Tokens) /\ f \in Seq(Names(Safe))
  <2> HIDE DEF p1, p2
  <2>1. After(p1, Len(p2)) \in Seq(Tokens)
    <3>1. Len(p2) \in Nat
      BY <1>2
    <3> QED BY <1>2, <3>1, PartsType
  <2>2. f \in Seq(Names(Safe))
    BY <1>2, SafeType
  <2> QED BY <2>1, <2>2, PartsType
<1>4. out = IF RelativeTo(p1, p2) THEN safeRelativeOutputPath(rest)
            ELSE IF f = <<>> THEN <<>> ELSE HostSegments(u) \o f
  BY <1>1 DEF OutputFile
<1>5. safeRelativeOutputPath(rest) \in Seq(Names(Safe)) /\ HostSegments(u) \in Seq(Names(Safe))
  <2> HIDE DEF rest
  <2> QED BY <1>3, SafeType, HostIsName
<1>6. <<>> \in Seq(Names(Safe)) /\ HostSegments(u) \o f \in Seq(Names(Safe))
  <2> HIDE DEF f
  <2> QED BY <1>3, <1>5
<1>7. out \in Seq(Names(Safe))
  <2> HIDE DEF f, rest, p1, p2, out
  <2> QED BY <1>4, <1>5, <1>6
<1> HIDE DEF out
<1> QED BY <1>7, SafeInside DEF out

\* So does the file of an SFTPGo entry.
LEMMA SftpgoFileInside ==
  ASSUME NEW p \in EscapedPaths, NEW s \in EscapedPaths
  PROVE  InsideSegments(SftpgoFile(Unescape(p), Unescape(s)))
<1> DEFINE p1 == Unescape(p)
           p2 == Unescape(s)
<1>1. p1 \in Seq(Tokens) /\ p2 \in Seq(Tokens)
  BY UnescapeType, TokensOfPath
<1> HIDE DEF p1, p2
<1>2. sftpgoRelToSeedRoot(p1, p2) \in Seq(Tokens)
  <2> DEFINE root == TrimSlash(p2)
  <2>1. p1 \in Seq(Tokens) /\ TrimLeadingSlash(p1) \in Seq(Tokens) /\ <<>> \in Seq(Tokens)
    BY <1>1, PartsType
  <2>2. root \in Seq(Tokens)
    BY <1>1, TrimSlashType
  <2>3. After(p1, Len(root) + 1) \in Seq(Tokens)
    <3> HIDE DEF root
    <3>1. Len(root) + 1 \in Nat
      BY <2>2
    <3> QED BY <1>1, <3>1, PartsType
  <2>4. sftpgoRelToSeedRoot(p1, p2) \in {p1, TrimLeadingSlash(p1), <<>>, After(p1, Len(root) + 1)}
    BY DEF sftpgoRelToSeedRoot
  <2> HIDE DEF root
  <2> QED BY <2>1, <2>3, <2>4
<1>3. InsideSegments(SftpgoFile(p1, p2))
  BY <1>2, SafeType, SafeInside DEF SftpgoFile
<1> QED BY <1>3 DEF p1, p2

\* Whatever dots, slashes and backslashes the path of a URL or of an SFTPGo entry has, in
\* any escaping, and whatever its host, the file is below the output directory; the only
\* exception is a URL of the host "..", which is not met without FollowExternal.
THEOREM NothingOutside == MirrorSpec => []OutputInside
<1>1. ASSUME NEW p \in Paths, NEW s \in SeedPaths, NEW host \in Hosts
      PROVE  LET u == [At(p) EXCEPT !.host = host]
             IN  \/ InsideSegments(OutputFile(u, At(s)))
                 \/ HostSegments(u) = <<DotDot>> /\ ~Kept(u, At(s), FALSE)
  <2> DEFINE u == [At(p) EXCEPT !.host = host]
  <2>1. u \in URL /\ s \in EscapedPaths
    BY MirrorAssumption DEF At, URL
  <2> HIDE DEF u
  <2>2. InsideSegments(OutputFile(u, At(s))) \/ (HostSegments(u) = <<DotDot>> /\ ~Kept(u, At(s), FALSE))
    BY <2>1, OutputFileInside, HostNotKept
  <2> QED BY <2>2 DEF u
<1>2. OutputInside
  BY <1>1, MirrorAssumption, SftpgoFileInside DEF OutputInside
<1> QED BY <1>2, PTL

-----------------------------------------------------------------------------
(* What path.Clean keeps: the names that stay.                             *)

\* How many more names than ".." there are from i to n.
Depth(segs, i, n) == Cardinality(NamesIn(segs, i, n)) - Cardinality(UpsIn(segs, i, n))

\* What a segment adds to the depth.
Rise(s) == IF IsName(s) THEN 1 ELSE IF s = DotDot THEN -1 ELSE 0

\* The depth changes by one segment at a time.
LEMMA DepthSteps ==
  ASSUME NEW segs, NEW i \in Nat, NEW n \in Nat
  PROVE  /\ Depth(segs, i, n) \in Int
         /\ Depth(segs, i, n) >= 0 <=> Cardinality(UpsIn(segs, i, n)) <= Cardinality(NamesIn(segs, i, n))
         /\ i > n => Depth(segs, i, n) = 0
         /\ i <= n + 1 => Depth(segs, i, n + 1) = Depth(segs, i, n) + Rise(segs[n + 1])
<1> DEFINE A == NamesIn(segs, i, n)
           B == UpsIn(segs, i, n)
           A1 == NamesIn(segs, i, n + 1)
           B1 == UpsIn(segs, i, n + 1)
<1>1. IsFiniteSet(A) /\ IsFiniteSet(B)
  <2>1. IsFiniteSet(i .. n)
    BY FS_Interval
  <2>2. A \subseteq i .. n /\ B \subseteq i .. n
    BY DEF NamesIn, UpsIn
  <2> HIDE DEF A, B
  <2> QED BY <2>1, <2>2, FS_Subset
<1>2. Cardinality(A) \in Nat /\ Cardinality(B) \in Nat
  <2> HIDE DEF A, B
  <2> QED BY <1>1, FS_CardinalityType
<1>3. i > n => Depth(segs, i, n) = 0
  <2> SUFFICES ASSUME i > n PROVE Depth(segs, i, n) = 0
    OBVIOUS
  <2>1. A = {} /\ B = {}
    BY DEF NamesIn, UpsIn
  <2>2. Cardinality({}) = 0
    BY FS_EmptySet
  <2> QED BY <2>1, <2>2 DEF Depth
<1>4. ASSUME i <= n + 1
      PROVE  Depth(segs, i, n + 1) = Depth(segs, i, n) + Rise(segs[n + 1])
  <2>1. A1 = IF IsName(segs[n + 1]) THEN A \union {n + 1} ELSE A
    <3>1. \A k : k \in i .. n + 1 <=> k \in i .. n \/ k = n + 1
      BY <1>4
    <3> QED BY <3>1 DEF NamesIn, IsName
  <2>2. B1 = IF segs[n + 1] = DotDot THEN B \union {n + 1} ELSE B
    <3>1. \A k : k \in i .. n + 1 <=> k \in i .. n \/ k = n + 1
      BY <1>4
    <3> QED BY <3>1 DEF UpsIn
  <2>3. n + 1 \notin A /\ n + 1 \notin B
    BY DEF NamesIn, UpsIn
  <2>4. Cardinality(A \union {n + 1}) = Cardinality(A) + 1
    <3> HIDE DEF A
    <3> QED BY <1>1, <2>3, FS_AddElement
  <2>5. Cardinality(B \union {n + 1}) = Cardinality(B) + 1
    <3> HIDE DEF B
    <3> QED BY <1>1, <2>3, FS_AddElement
  <2>6. segs[n + 1] = DotDot => ~IsName(segs[n + 1])
    BY DEF IsName
  <2>7. Depth(segs, i, n + 1) = Cardinality(A1) - Cardinality(B1) /\ Depth(segs, i, n) = Cardinality(A) - Cardinality(B)
    BY DEF Depth
  <2> HIDE DEF A, B, A1, B1
  <2> QED BY <1>2, <2>1, <2>2, <2>4, <2>5, <2>6, <2>7 DEF Rise
<1>5. Depth(segs, i, n) = Cardinality(A) - Cardinality(B)
  BY DEF Depth
<1>6. Cardinality(UpsIn(segs, i, n)) = Cardinality(B) /\ Cardinality(NamesIn(segs, i, n)) = Cardinality(A)
  OBVIOUS
<1> HIDE DEF A, B, A1, B1
<1> QED BY <1>2, <1>3, <1>4, <1>5, <1>6

\* Stays(), as far as the segment n.
StaysTo(segs, n, i) ==
  i \in 1 .. n /\ IsName(segs[i]) /\ \A j \in i + 1 .. n : Depth(segs, i + 1, j) >= 0

\* A name that stays to n + 1 has stayed to n.
LEMMA StaysSteps ==
  ASSUME NEW segs, NEW n \in Nat
  PROVE  /\ \A i \in 1 .. n : StaysTo(segs, n + 1, i) <=> StaysTo(segs, n, i) /\ Depth(segs, i + 1, n + 1) >= 0
         /\ StaysTo(segs, n + 1, n + 1) <=> IsName(segs[n + 1])
<1>1. ASSUME NEW i \in 1 .. n
      PROVE  StaysTo(segs, n + 1, i) <=> StaysTo(segs, n, i) /\ Depth(segs, i + 1, n + 1) >= 0
  <2>1. \A j : j \in i + 1 .. n + 1 <=> j \in i + 1 .. n \/ j = n + 1
    OBVIOUS
  <2> QED BY <2>1 DEF StaysTo
<1>2. StaysTo(segs, n + 1, n + 1) <=> IsName(segs[n + 1])
  BY DEF StaysTo
<1> QED BY <1>1, <1>2

\* Stays() is staying to the end.
LEMMA StaysToEnd ==
  ASSUME NEW T, NEW segs \in Seq(Seq(T)), NEW i
  PROVE  Stays(segs, i) <=> StaysTo(segs, Len(segs), i)
<1>1. Len(segs) \in Nat
  OBVIOUS
<1>2. \A j \in i + 1 .. Len(segs) : i \in 1 .. Len(segs) =>
        (Depth(segs, i + 1, j) >= 0 <=> Cardinality(UpsIn(segs, i + 1, j)) <= Cardinality(NamesIn(segs, i + 1, j)))
  BY <1>1, DepthSteps
<1>3. i \in NamesIn(segs, 1, Len(segs)) <=> i \in 1 .. Len(segs) /\ IsName(segs[i])
  BY DEF NamesIn, IsName
<1> QED BY <1>2, <1>3 DEF Stays, StaysTo

\* The segments kept up to n are those at the places idx, which are the places that stay.
StackOf(segs, kept, n, idx, L) ==
  /\ idx \in [1 .. L -> 1 .. n]
  /\ \A k \in 1 .. L :
       /\ kept[k] = segs[idx[k]]
       /\ Depth(segs, idx[k] + 1, n) = L - k
       /\ \A l \in 1 .. L : k < l => idx[k] < idx[l]
  /\ \A i \in 1 .. n : StaysTo(segs, n, i) <=> \E k \in 1 .. L : idx[k] = i

\* The same, of the whole stack.
StackAt(segs, kept, n, idx) == StackOf(segs, kept, n, idx, Len(kept))

\* A name stays on top of the stack.
LEMMA StackName ==
  ASSUME NEW T, NEW segs \in Seq(Seq(T)), NEW n \in Nat, n + 1 \in 1 .. Len(segs),
         NEW kept \in Seq(Names(T)), NEW idx, StackAt(segs, kept, n, idx),
         IsName(segs[n + 1])
  PROVE  \E new : StackAt(segs, KeepSegment(kept, segs[n + 1]), n + 1, new)
<1> DEFINE L == Len(kept)
           s == segs[n + 1]
           kept2 == Append(kept, s)
           new == [k \in 1 .. L + 1 |-> IF k = L + 1 THEN n + 1 ELSE idx[k]]
<1>1. L \in Nat /\ s \in Seq(T)
  OBVIOUS
<1>2. KeepSegment(kept, s) = kept2
  BY <1>1, KeepSegmentType
<1>3. /\ Len(kept2) = L + 1 /\ kept2[L + 1] = s
      /\ \A k \in 1 .. L : kept2[k] = kept[k]
  OBVIOUS
<1>4. /\ idx \in [1 .. L -> 1 .. n]
      /\ \A k \in 1 .. L : kept[k] = segs[idx[k]] /\ Depth(segs, idx[k] + 1, n) = L - k
      /\ \A k, l \in 1 .. L : k < l => idx[k] < idx[l]
      /\ \A i \in 1 .. n : StaysTo(segs, n, i) <=> \E k \in 1 .. L : idx[k] = i
  BY DEF StackAt, StackOf
<1>5. Depth(segs, n + 2, n + 1) = 0 /\ Rise(s) = 1
  BY DepthSteps DEF Rise
<1>6. \A i \in 1 .. n : Depth(segs, i + 1, n + 1) = Depth(segs, i + 1, n) + 1
  BY <1>5, DepthSteps
<1> HIDE DEF s, kept2, L
<1>7. new \in [1 .. L + 1 -> 1 .. n + 1] /\ new[L + 1] = n + 1 /\ \A k \in 1 .. L : new[k] = idx[k]
  BY <1>1, <1>4
<1> HIDE DEF new
<1>8. ASSUME NEW k \in 1 .. L + 1
      PROVE  /\ kept2[k] = segs[new[k]]
             /\ Depth(segs, new[k] + 1, n + 1) = L + 1 - k
             /\ \A l \in 1 .. L + 1 : k < l => new[k] < new[l]
  <2>1. CASE k = L + 1
    BY <1>1, <1>3, <1>5, <1>7, <2>1 DEF s
  <2>2. CASE k \in 1 .. L
    <3>1. idx[k] \in 1 .. n
      BY <1>4, <2>2
    <3>2. Depth(segs, idx[k] + 1, n + 1) = L - k + 1
      BY <1>4, <1>6, <2>2, <3>1
    <3>3. ASSUME NEW l \in 1 .. L + 1, k < l PROVE new[k] < new[l]
      <4>1. l = L + 1 \/ l \in 1 .. L
        BY <1>1
      <4> QED BY <1>4, <1>7, <2>2, <3>1, <3>3, <4>1
    <3>4. new[k] = idx[k] /\ kept2[k] = kept[k] /\ kept[k] = segs[idx[k]]
      BY <1>3, <1>4, <1>7, <2>2
    <3>5. L - k + 1 = L + 1 - k
      BY <1>1
    <3> QED BY <3>2, <3>3, <3>4, <3>5
  <2> QED BY <1>1, <2>1, <2>2
<1>9. ASSUME NEW i \in 1 .. n + 1
      PROVE  StaysTo(segs, n + 1, i) <=> \E k \in 1 .. L + 1 : new[k] = i
  <2>1. CASE i = n + 1
    BY <1>1, <1>7, <2>1, StaysSteps
  <2>2. CASE i \in 1 .. n
    <3>1. StaysTo(segs, n + 1, i) <=> StaysTo(segs, n, i) /\ Depth(segs, i + 1, n + 1) >= 0
      BY <2>2, StaysSteps
    <3>2. ASSUME StaysTo(segs, n, i) PROVE Depth(segs, i + 1, n + 1) >= 0
      <4>1. PICK k \in 1 .. L : idx[k] = i
        BY <1>4, <2>2, <3>2
      <4>2. Depth(segs, i + 1, n) = L - k
        BY <1>4, <4>1
      <4> QED BY <1>1, <1>6, <2>2, <4>2
    <3>3. (\E k \in 1 .. L + 1 : new[k] = i) <=> \E k \in 1 .. L : idx[k] = i
      <4>1. \A k \in 1 .. L + 1 : k = L + 1 \/ k \in 1 .. L
        BY <1>1
      <4>2. \A k \in 1 .. L : k \in 1 .. L + 1
        BY <1>1
      <4>3. n + 1 # i
        BY <2>2
      <4> QED BY <1>7, <4>1, <4>2, <4>3
    <3> QED BY <1>4, <2>2, <3>1, <3>2, <3>3
  <2> QED BY <2>1, <2>2
<1>10. StackAt(segs, kept2, n + 1, new)
  <2>1. StackOf(segs, kept2, n + 1, new, L + 1)
    <3>1. \A k \in 1 .. L + 1 : Depth(segs, new[k] + 1, n + 1) = (L + 1) - k
      BY <1>1, <1>8
    <3> QED BY <1>7, <1>8, <1>9, <3>1 DEF StackOf
  <2> QED BY <1>3, <2>1 DEF StackAt
<1> QED BY <1>2, <1>10 DEF s

\* ".." takes the name off that is last to stay.
LEMMA StackUp ==
  ASSUME NEW T, NEW segs \in Seq(Seq(T)), NEW n \in Nat, n + 1 \in 1 .. Len(segs),
         NEW kept \in Seq(Names(T)), kept # <<>>, NEW idx, StackAt(segs, kept, n, idx),
         segs[n + 1] = DotDot
  PROVE  \E new : StackAt(segs, Front(kept), n + 1, new)
<1> DEFINE L == Len(kept)
           kept2 == Front(kept)
           new == [k \in 1 .. L - 1 |-> idx[k]]
<1>1. L \in Nat \ {0}
  OBVIOUS
<1>2. Len(kept2) = L - 1 /\ \A k \in 1 .. L - 1 : kept2[k] = kept[k]
  BY FrontParts
<1>3. /\ idx \in [1 .. L -> 1 .. n]
      /\ \A k \in 1 .. L : kept[k] = segs[idx[k]] /\ Depth(segs, idx[k] + 1, n) = L - k
      /\ \A k, l \in 1 .. L : k < l => idx[k] < idx[l]
      /\ \A i \in 1 .. n : StaysTo(segs, n, i) <=> \E k \in 1 .. L : idx[k] = i
  BY DEF StackAt, StackOf
<1>4. Rise(segs[n + 1]) = -1 /\ ~IsName(segs[n + 1])
  BY DEF Rise, IsName
<1>5. \A i \in 1 .. n : Depth(segs, i + 1, n + 1) = Depth(segs, i + 1, n) - 1
  <2> SUFFICES ASSUME NEW i \in 1 .. n
               PROVE  Depth(segs, i + 1, n + 1) = Depth(segs, i + 1, n) - 1
    OBVIOUS
  <2>1. i + 1 \in Nat /\ i + 1 <= n + 1
    OBVIOUS
  <2>2. /\ Depth(segs, i + 1, n) \in Int
        /\ Depth(segs, i + 1, n + 1) = Depth(segs, i + 1, n) + Rise(segs[n + 1])
    BY <2>1, DepthSteps
  <2> QED BY <1>4, <2>2
<1> HIDE DEF kept2, L
<1>6. new \in [1 .. L - 1 -> 1 .. n + 1] /\ \A k \in 1 .. L - 1 : new[k] = idx[k] /\ k \in 1 .. L
  <2>1. \A k \in 1 .. L - 1 : k \in 1 .. L
    BY <1>1
  <2>2. 1 .. n \subseteq 1 .. n + 1 /\ idx \in [1 .. L -> 1 .. n]
    BY <1>3
  <2>3. \A k \in 1 .. L - 1 : idx[k] \in 1 .. n + 1
    BY <2>1, <2>2
  <2> QED BY <2>1, <2>3
<1> HIDE DEF new
<1>7. ASSUME NEW k \in 1 .. L - 1
      PROVE  /\ kept2[k] = segs[new[k]]
             /\ Depth(segs, new[k] + 1, n + 1) = L - 1 - k
             /\ \A l \in 1 .. L - 1 : k < l => new[k] < new[l]
  <2>1. k \in 1 .. L /\ new[k] = idx[k] /\ idx[k] \in 1 .. n
    BY <1>3, <1>6
  <2>2. Depth(segs, idx[k] + 1, n + 1) = L - 1 - k
    BY <1>1, <1>3, <1>5, <2>1
  <2> QED BY <1>2, <1>3, <1>6, <2>1, <2>2
<1>8. ASSUME NEW i \in 1 .. n + 1
      PROVE  StaysTo(segs, n + 1, i) <=> \E k \in 1 .. L - 1 : new[k] = i
  <2>1. CASE i = n + 1
    <3>1. \A k \in 1 .. L - 1 : new[k] \in 1 .. n
      BY <1>3, <1>6
    <3>2. ~StaysTo(segs, n + 1, n + 1)
      BY <1>4, StaysSteps
    <3>3. n + 1 \notin 1 .. n
      OBVIOUS
    <3> QED BY <2>1, <3>1, <3>2, <3>3
  <2>2. CASE i \in 1 .. n
    <3>1. StaysTo(segs, n + 1, i) <=> StaysTo(segs, n, i) /\ Depth(segs, i + 1, n + 1) >= 0
      BY <2>2, StaysSteps
    <3>2. ASSUME NEW k \in 1 .. L, idx[k] = i
          PROVE  Depth(segs, i + 1, n + 1) >= 0 <=> k \in 1 .. L - 1
      <4>1. Depth(segs, i + 1, n + 1) = L - k - 1
        BY <1>3, <1>5, <2>2, <3>2
      <4> QED BY <1>1, <4>1
    <3> QED BY <1>3, <1>6, <2>2, <3>1, <3>2
  <2> QED BY <2>1, <2>2
<1>9. StackAt(segs, kept2, n + 1, new)
  <2>1. StackOf(segs, kept2, n + 1, new, L - 1)
    BY <1>6, <1>7, <1>8 DEF StackOf
  <2> QED BY <1>2, <2>1 DEF StackAt
<1> QED BY <1>9 DEF kept2

\* Nothing else changes what stays.
LEMMA StackSame ==
  ASSUME NEW T, NEW segs \in Seq(Seq(T)), NEW n \in Nat, n + 1 \in 1 .. Len(segs),
         NEW kept \in Seq(Names(T)), NEW idx, StackAt(segs, kept, n, idx),
         ~IsName(segs[n + 1]), segs[n + 1] # DotDot \/ kept = <<>>
  PROVE  StackAt(segs, kept, n + 1, idx)
<1> DEFINE L == Len(kept)
<1>1. L \in Nat
  OBVIOUS
<1>3. /\ idx \in [1 .. L -> 1 .. n]
      /\ \A k \in 1 .. L : kept[k] = segs[idx[k]] /\ Depth(segs, idx[k] + 1, n) = L - k
      /\ \A k, l \in 1 .. L : k < l => idx[k] < idx[l]
      /\ \A i \in 1 .. n : StaysTo(segs, n, i) <=> \E k \in 1 .. L : idx[k] = i
  BY DEF StackAt, StackOf
<1>4. segs[n + 1] # DotDot \/ L = 0
  OBVIOUS
<1> HIDE DEF L
<1>5. ASSUME NEW k \in 1 .. L
      PROVE  Depth(segs, idx[k] + 1, n + 1) = L - k
  <2>1. segs[n + 1] # DotDot
    BY <1>1, <1>4
  <2>2. Rise(segs[n + 1]) = 0
    BY <2>1 DEF Rise
  <2>3. idx[k] \in 1 .. n
    BY <1>3
  <2>4. Depth(segs, idx[k] + 1, n + 1) = Depth(segs, idx[k] + 1, n) + 0
    <3>1. idx[k] + 1 \in Nat /\ idx[k] + 1 <= n + 1
      BY <2>3
    <3> QED BY <2>2, <3>1, DepthSteps
  <2> QED BY <1>1, <1>3, <2>4
<1>6. idx \in [1 .. L -> 1 .. n + 1]
  <2>1. 1 .. n \subseteq 1 .. n + 1 /\ idx \in [1 .. L -> 1 .. n]
    BY <1>3
  <2> QED BY <2>1
<1>7. ASSUME NEW i \in 1 .. n + 1
      PROVE  StaysTo(segs, n + 1, i) <=> \E k \in 1 .. L : idx[k] = i
  <2>1. CASE i = n + 1
    <3>1. ~StaysTo(segs, n + 1, n + 1)
      BY StaysSteps
    <3>2. \A k \in 1 .. L : idx[k] # n + 1
      <4>1. idx \in [1 .. L -> 1 .. n] /\ n + 1 \notin 1 .. n
        BY <1>3
      <4> QED BY <4>1
    <3> QED BY <2>1, <3>1, <3>2
  <2>2. CASE i \in 1 .. n
    <3>1. StaysTo(segs, n + 1, i) <=> StaysTo(segs, n, i) /\ Depth(segs, i + 1, n + 1) >= 0
      BY <2>2, StaysSteps
    <3>2. ASSUME NEW k \in 1 .. L, idx[k] = i
          PROVE  Depth(segs, i + 1, n + 1) >= 0
      BY <1>1, <1>5, <3>2
    <3> QED BY <1>3, <2>2, <3>1, <3>2
  <2> QED BY <2>1, <2>2
<1> QED BY <1>3, <1>5, <1>6, <1>7 DEF StackAt, StackOf, L

\* The special segments are three.
LEMMA DotsDiffer == Dot # DotDot /\ <<>> # DotDot /\ <<>> # Dot
  BY DEF Dot, DotDot

\* At every segment the stack of path.Clean holds the names that stay so far.
LEMMA StackExists ==
  ASSUME NEW T, NEW segs \in Seq(Seq(T)), NEW g, g[0] = <<>>,
         \A n \in 0 .. Len(segs) : g[n] \in Seq(Names(T)),
         \A n \in 1 .. Len(segs) : g[n] = KeepSegment(g[n - 1], segs[n])
  PROVE  \A n \in 0 .. Len(segs) : \E idx : StackAt(segs, g[n], n, idx)
<1> DEFINE N == Len(segs)
           A == {n \in 0 .. N : \E idx : StackAt(segs, g[n], n, idx)}
<1>1. N \in Nat
  OBVIOUS
<1>2. 0 \in A
  <2>1. StackOf(segs, <<>>, 0, <<>>, 0)
    <3>1. <<>> \in [1 .. 0 -> 1 .. 0]
      OBVIOUS
    <3> QED BY <3>1 DEF StackOf
  <2>2. StackAt(segs, <<>>, 0, <<>>)
    BY <2>1 DEF StackAt
  <2> QED BY <1>1, <2>2
<1>3. ASSUME NEW n \in 1 .. N, n - 1 \in A
      PROVE  n \in A
  <2>1. n - 1 \in Nat /\ (n - 1) + 1 = n
    BY <1>1
  <2>2. PICK idx : StackAt(segs, g[n - 1], n - 1, idx)
    BY <1>3
  <2>3. g[n - 1] \in Seq(Names(T)) /\ g[n] = KeepSegment(g[n - 1], segs[n]) /\ segs[n] \in Seq(T)
    BY <1>1
  <2> DEFINE m == n - 1
             kept == g[n - 1]
  <2>4. /\ m \in Nat /\ m + 1 = n /\ m + 1 \in 1 .. Len(segs)
        /\ kept \in Seq(Names(T)) /\ g[n] = KeepSegment(kept, segs[m + 1])
        /\ segs[m + 1] \in Seq(T) /\ StackAt(segs, kept, m, idx)
    BY <2>1, <2>2, <2>3
  <2> HIDE DEF m, kept, N
  <2>5. \E new : StackAt(segs, KeepSegment(kept, segs[m + 1]), m + 1, new)
    <3>1. CASE IsName(segs[m + 1])
      BY <2>4, <3>1, StackName
    <3>2. CASE segs[m + 1] = DotDot /\ kept # <<>>
      <4>1. KeepSegment(kept, segs[m + 1]) = Front(kept)
        BY <3>2, DotsDiffer DEF KeepSegment
      <4> QED BY <2>4, <3>2, <4>1, StackUp
    <3>3. CASE ~IsName(segs[m + 1]) /\ (segs[m + 1] # DotDot \/ kept = <<>>)
      <4>1. KeepSegment(kept, segs[m + 1]) = kept
        BY <3>3, DotsDiffer DEF KeepSegment, IsName
      <4> QED BY <2>4, <3>3, <4>1, StackSame
    <3> QED BY <3>1, <3>2, <3>3 DEF IsName
  <2>6. \E new : StackAt(segs, g[n], n, new)
    BY <2>4, <2>5
  <2> QED BY <2>6 DEF N
<1>4. 0 .. N \subseteq A
  <2> HIDE DEF A, N
  <2> QED BY <1>1, <1>2, <1>3, SetInduction
<1> QED BY <1>4

\* The steps of Resource().
KeepStaying(segs, n, r) == IF Stays(segs, n) THEN Append(r, segs[n]) ELSE r

\* Resource() goes from left to right and keeps what stays.
LEMMA ResourceSteps ==
  ASSUME NEW T, NEW p, NEW segs, segs = Segments(Plainly(p)), segs \in Seq(Seq(T))
  PROVE  \E r : /\ Resource(p) = r[Len(segs)] /\ r[0] = <<>>
                /\ \A n \in 0 .. Len(segs) : r[n] \in Seq(Seq(T))
                /\ \A n \in 1 .. Len(segs) : r[n] = KeepStaying(segs, n, r[n - 1])
<1> DEFINE N == Len(segs)
           b == <<>>
           V == Seq(Seq(T))
           Up(r, n) == IF Stays(segs, n) THEN Append(r, segs[n]) ELSE r
           St == [x \in V \X (1..N) |-> Up(x[1], x[2])]
           upTo == CHOOSE h : h = [n \in 0..N |-> IF n = 0 THEN b ELSE Up(h[n - 1], n)]
<1>1. N \in Nat /\ b \in V
  OBVIOUS
<1>2. St \in Steps(N, V)
  <2>1. ASSUME NEW x \in V \X (1..N) PROVE Up(x[1], x[2]) \in V
    <3>1. x[1] \in V /\ segs[x[2]] \in Seq(T)
      BY <1>1
    <3> QED BY <3>1
  <2> HIDE DEF N, V, Up
  <2> QED BY <2>1 DEF Steps
<1>3. PICK g \in Maps(N, V) : g[0] = b /\ \A n \in 1..N : g[n] = St[<<g[n - 1], n>>]
  <2> HIDE DEF N, b, V, St
  <2> QED BY <1>1, <1>2, RecursionExists
<1>4. \A n \in 0..N : g[n] \in V
  BY <1>3 DEF Maps
<1>5. \A n \in 1..N : g[n] = Up(g[n - 1], n)
  <2> SUFFICES ASSUME NEW n \in 1..N PROVE g[n] = Up(g[n - 1], n)
    OBVIOUS
  <2>1. g[n] = St[<<g[n - 1], n>>]
    BY <1>3
  <2>2. g[n - 1] \in V
    <3> HIDE DEF N, V
    <3> QED BY <1>1, <1>4
  <2> HIDE DEF N, V, Up
  <2> QED BY <2>1, <2>2
<1>6. g = [n \in 0..N |-> IF n = 0 THEN b ELSE Up(g[n - 1], n)]
  <2> HIDE DEF N, b, V, St, Up
  <2>1. ASSUME NEW n \in 0..N PROVE g[n] = IF n = 0 THEN b ELSE Up(g[n - 1], n)
    <3>1. n = 0 \/ n \in 1..N
      BY <1>1
    <3> QED BY <1>3, <1>5, <3>1
  <2> QED BY <1>3, <2>1 DEF Maps
<1>7. upTo = [n \in 0..N |-> IF n = 0 THEN b ELSE Up(upTo[n - 1], n)]
  <2> HIDE DEF N, b, V, St, Up
  <2> QED BY <1>6
<1>8. upTo[0] = b /\ \A n \in 1..N : upTo[n] = Up(upTo[n - 1], n)
  <2> HIDE DEF upTo, N, b, Up
  <2> QED BY <1>1, <1>7
<1>9. \A n \in 0..N : upTo[n] = g[n]
  <2> HIDE DEF upTo, N, b, Up
  <2>1. \A n \in 1..N : upTo[n - 1] = g[n - 1] => upTo[n] = g[n]
    BY <1>5, <1>8
  <2>2. upTo[0] = g[0]
    BY <1>3, <1>8
  <2> QED BY <1>1, <2>1, <2>2, SameSteps
<1>10. Resource(p) = upTo[N]
  BY DEF Resource
<1>11. Resource(p) = g[N]
  <2> HIDE DEF upTo, N
  <2> QED BY <1>1, <1>9, <1>10
<1> QED
  <2> HIDE DEF upTo
  <2>1. \A n \in 1 .. N : g[n] = KeepStaying(segs, n, g[n - 1])
    BY <1>5 DEF KeepStaying
  <2> QED BY <1>3, <1>4, <1>11, <2>1

\* What stays, read from left to right, is the stack.
LEMMA CleanIsResource ==
  ASSUME NEW T, NEW p, Plainly(p) \in Seq(T \union {"/"})
  PROVE  CleanSegments(Plainly(p)) = Resource(p)
<1> DEFINE segs == Segments(Plainly(p))
           N == Len(segs)
<1>1. segs \in Seq(Seq(T)) /\ N \in Nat
  <2>1. segs \in Seq(Seq(T))
    BY SegmentsType DEF SomeSegs
  <2> HIDE DEF segs
  <2> QED BY <2>1
<1>2. segs = Segments(Plainly(p))
  OBVIOUS
<1> HIDE DEF segs
<1>3. PICK g : /\ CleanSegments(Plainly(p)) = g[N] /\ g[0] = <<>>
               /\ \A n \in 0 .. N : g[n] \in Seq(Names(T))
               /\ \A n \in 1 .. N : g[n] = KeepSegment(g[n - 1], segs[n])
  <2>1. \E g : /\ CleanSegments(Plainly(p)) = g[Len(segs)] /\ g[0] = <<>>
               /\ \A n \in 0 .. Len(segs) : g[n] \in Seq(Names(T))
               /\ \A n \in 1 .. Len(segs) : g[n] = KeepSegment(g[n - 1], segs[n])
    BY <1>1, <1>2, CleanSegmentsSteps
  <2> QED BY <2>1
<1>4. PICK r : /\ Resource(p) = r[N] /\ r[0] = <<>>
               /\ \A n \in 0 .. N : r[n] \in Seq(Seq(T))
               /\ \A n \in 1 .. N : r[n] = KeepStaying(segs, n, r[n - 1])
  <2>1. \E r : /\ Resource(p) = r[Len(segs)] /\ r[0] = <<>>
               /\ \A n \in 0 .. Len(segs) : r[n] \in Seq(Seq(T))
               /\ \A n \in 1 .. Len(segs) : r[n] = KeepStaying(segs, n, r[n - 1])
    BY <1>1, <1>2, ResourceSteps
  <2> QED BY <2>1
<1>5. PICK idx : StackAt(segs, g[N], N, idx)
  <2>1. \A n \in 0 .. Len(segs) : \E idx : StackAt(segs, g[n], n, idx)
    BY <1>1, <1>3, StackExists
  <2> QED BY <1>1, <2>1
<1> DEFINE L == Len(g[N])
<1>6. /\ idx \in [1 .. L -> 1 .. N]
      /\ \A k \in 1 .. L : g[N][k] = segs[idx[k]]
      /\ \A k, l \in 1 .. L : k < l => idx[k] < idx[l]
      /\ \A i \in 1 .. N : StaysTo(segs, N, i) <=> \E k \in 1 .. L : idx[k] = i
  BY <1>5 DEF StackAt, StackOf
<1>7. L \in Nat /\ g[N] \in Seq(Seq(T))
  <2>1. g[N] \in Seq(Names(T))
    BY <1>1, <1>3
  <2>2. Names(T) \subseteq Seq(T)
    BY DEF Names
  <2> QED BY <2>1, <2>2
<1>8. \A i \in 1 .. N : Stays(segs, i) <=> \E k \in 1 .. L : idx[k] = i
  BY <1>1, <1>6, StaysToEnd
<1> DEFINE Upto(c, n) == /\ \A k \in 1 .. L : k <= c <=> idx[k] <= n
                         /\ Len(r[n]) = c
                         /\ \A k \in 1 .. c : r[n][k] = segs[idx[k]]
           A == {n \in 0 .. N : \E c \in 0 .. L : Upto(c, n)}
<1> HIDE DEF L, N
<1>9. 0 \in A
  <2>1. Upto(0, 0)
    BY <1>4, <1>6, <1>7
  <2> QED BY <1>1, <1>7, <2>1
<1>10. ASSUME NEW n \in 1 .. N, n - 1 \in A
       PROVE  n \in A
  <2>1. PICK c \in 0 .. L : Upto(c, n - 1)
    BY <1>10
  <2>2. n - 1 \in 0 .. N /\ r[n - 1] \in Seq(Seq(T)) /\ segs[n] \in Seq(T)
    BY <1>1, <1>4 DEF N
  <2>3. CASE Stays(segs, n)
    <3>1. PICK k \in 1 .. L : idx[k] = n
      BY <1>8, <2>3
    <3>2. k = c + 1
      <4>1. k > c
        BY <1>1, <1>7, <2>1, <3>1
      <4>2. CASE k > c + 1
        <5>1. c + 1 \in 1 .. L /\ ~(c + 1 <= c)
          BY <1>7, <4>2
        <5>2. ~(idx[c + 1] <= n - 1) /\ idx[c + 1] < n /\ idx[c + 1] \in 1 .. N
          BY <1>6, <2>1, <3>1, <4>2, <5>1
        <5> QED BY <1>1, <5>2
      <4> QED BY <1>7, <4>1, <4>2
    <3>3. r[n] = Append(r[n - 1], segs[n])
      BY <1>4, <2>3 DEF KeepStaying
    <3>4. /\ Len(r[n]) = c + 1 /\ r[n][c + 1] = segs[n]
          /\ \A j \in 1 .. c : r[n][j] = r[n - 1][j]
      <4>1. \A q \in Seq(Seq(T)), x \in Seq(T) :
              /\ Len(Append(q, x)) = Len(q) + 1 /\ Append(q, x)[Len(q) + 1] = x
              /\ \A j \in 1 .. Len(q) : Append(q, x)[j] = q[j]
        OBVIOUS
      <4>2. Len(r[n - 1]) = c
        BY <2>1
      <4> QED BY <2>2, <3>3, <4>1, <4>2
    <3>5. ASSUME NEW j \in 1 .. L
          PROVE  j <= c + 1 <=> idx[j] <= n
      <4>1. idx[j] \in 1 .. N /\ (j <= c <=> idx[j] <= n - 1)
        BY <1>6, <2>1
      <4>2. j > k => idx[j] > n
        BY <1>6, <3>1, <4>1
      <4>3. CASE j <= c
        BY <1>1, <4>1, <4>3
      <4>4. CASE j = k
        BY <1>1, <3>1, <3>2, <4>4
      <4>5. CASE j > k
        BY <1>1, <1>7, <3>2, <4>1, <4>2, <4>5
      <4> QED BY <1>7, <3>2, <4>3, <4>4, <4>5
    <3>6. \A j \in 1 .. c + 1 : r[n][j] = segs[idx[j]]
      <4>1. \A j \in 1 .. c + 1 : j = c + 1 \/ j \in 1 .. c
        OBVIOUS
      <4> QED BY <2>1, <3>1, <3>2, <3>4, <4>1
    <3>7. Upto(c + 1, n) /\ c + 1 \in 0 .. L
      BY <3>1, <3>2, <3>4, <3>5, <3>6
    <3> QED BY <1>1, <3>7
  <2>4. CASE ~Stays(segs, n)
    <3>1. r[n] = r[n - 1]
      BY <1>4, <2>4 DEF KeepStaying
    <3>2. ASSUME NEW j \in 1 .. L
          PROVE  j <= c <=> idx[j] <= n
      <4>1. idx[j] \in 1 .. N /\ idx[j] # n /\ (j <= c <=> idx[j] <= n - 1)
        BY <1>6, <1>8, <2>1, <2>4
      <4> QED BY <1>1, <4>1
    <3>3. Upto(c, n)
      BY <2>1, <3>1, <3>2
    <3> HIDE DEF Upto
    <3> QED BY <1>1, <3>3
  <2> QED BY <2>3, <2>4
<1>11. N \in A
  <2>1. 0 .. N \subseteq A
    <3> HIDE DEF A
    <3> QED BY <1>1, <1>9, <1>10, SetInduction
  <2> HIDE DEF A
  <2> QED BY <1>1, <2>1
<1>12. PICK c \in 0 .. L : Upto(c, N)
  BY <1>11
<1>13. c = L
  BY <1>1, <1>6, <1>7, <1>12
<1>14. /\ Len(r[N]) = Len(g[N]) /\ r[N] \in Seq(Seq(T))
       /\ \A k \in 1 .. Len(g[N]) : r[N][k] = g[N][k]
  BY <1>1, <1>4, <1>6, <1>12, <1>13 DEF L
<1>15. r[N] = g[N]
  BY <1>7, <1>14, SeqsEqual
<1> QED BY <1>3, <1>4, <1>15

-----------------------------------------------------------------------------
(* The key of a resource.                                                  *)

\* Join() puts a slash before every segment.
LEMMA JoinSteps ==
  ASSUME NEW T, NEW segs \in Seq(Seq(T))
  PROVE  \E g : /\ segs # <<>> => Join(segs) = g[Len(segs)]
                /\ g[0] = <<>>
                /\ \A n \in 0 .. Len(segs) : g[n] \in Seq(T \union {"/"})
                /\ \A n \in 1 .. Len(segs) : g[n] = g[n - 1] \o <<"/">> \o segs[n]
<1> DEFINE N == Len(segs)
           b == <<>>
           V == Seq(T \union {"/"})
           Up(r, n) == r \o <<"/">> \o segs[n]
           St == [x \in V \X (1..N) |-> Up(x[1], x[2])]
           upTo == CHOOSE h : h = [n \in 0..N |-> IF n = 0 THEN b ELSE Up(h[n - 1], n)]
<1>1. N \in Nat /\ b \in V
  OBVIOUS
<1>2. St \in Steps(N, V)
  <2>1. ASSUME NEW x \in V \X (1..N) PROVE Up(x[1], x[2]) \in V
    <3>1. x[1] \in V /\ segs[x[2]] \in Seq(T)
      BY <1>1
    <3>2. segs[x[2]] \in V /\ <<"/">> \in V
      BY <3>1
    <3> QED BY <3>1, <3>2
  <2> HIDE DEF N, V, Up
  <2> QED BY <2>1 DEF Steps
<1>3. PICK g \in Maps(N, V) : g[0] = b /\ \A n \in 1..N : g[n] = St[<<g[n - 1], n>>]
  <2> HIDE DEF N, b, V, St
  <2> QED BY <1>1, <1>2, RecursionExists
<1>4. \A n \in 0..N : g[n] \in V
  BY <1>3 DEF Maps
<1>5. \A n \in 1..N : g[n] = Up(g[n - 1], n)
  <2> SUFFICES ASSUME NEW n \in 1..N PROVE g[n] = Up(g[n - 1], n)
    OBVIOUS
  <2>1. g[n] = St[<<g[n - 1], n>>]
    BY <1>3
  <2>2. g[n - 1] \in V
    <3> HIDE DEF N, V
    <3> QED BY <1>1, <1>4
  <2> HIDE DEF N, V, Up
  <2> QED BY <2>1, <2>2
<1>6. g = [n \in 0..N |-> IF n = 0 THEN b ELSE Up(g[n - 1], n)]
  <2> HIDE DEF N, b, V, St, Up
  <2>1. ASSUME NEW n \in 0..N PROVE g[n] = IF n = 0 THEN b ELSE Up(g[n - 1], n)
    <3>1. n = 0 \/ n \in 1..N
      BY <1>1
    <3> QED BY <1>3, <1>5, <3>1
  <2> QED BY <1>3, <2>1 DEF Maps
<1>7. upTo = [n \in 0..N |-> IF n = 0 THEN b ELSE Up(upTo[n - 1], n)]
  <2> HIDE DEF N, b, V, St, Up
  <2> QED BY <1>6
<1>8. upTo[0] = b /\ \A n \in 1..N : upTo[n] = Up(upTo[n - 1], n)
  <2> HIDE DEF upTo, N, b, Up
  <2> QED BY <1>1, <1>7
<1>9. \A n \in 0..N : upTo[n] = g[n]
  <2> HIDE DEF upTo, N, b, Up
  <2>1. \A n \in 1..N : upTo[n - 1] = g[n - 1] => upTo[n] = g[n]
    BY <1>5, <1>8
  <2>2. upTo[0] = g[0]
    BY <1>3, <1>8
  <2> QED BY <1>1, <2>1, <2>2, SameSteps
<1>10. Join(segs) = IF segs = <<>> THEN <<"/">> ELSE upTo[N]
  BY DEF Join
<1>11. Join(segs) = IF segs = <<>> THEN <<"/">> ELSE g[N]
  <2> HIDE DEF upTo, N
  <2> QED BY <1>1, <1>9, <1>10
<1> QED
  <2> HIDE DEF upTo
  <2> QED BY <1>3, <1>4, <1>5, <1>11

\* Joined names are a path that ends in the last token of the last name.
LEMMA JoinType ==
  ASSUME NEW T, NEW R \in Seq(Names(T))
  PROVE  /\ Join(R) \in Seq(T \union {"/"}) /\ Join(R) # <<>>
         /\ R = <<>> => Join(R) = <<"/">>
         /\ R # <<>> => /\ Len(Join(R)) > 1 /\ Last(R) \in Seq(T) /\ Last(R) # <<>>
                        /\ Last(Join(R)) = Last(Last(R)) /\ Last(Last(R)) \in T
<1> DEFINE Tok == T \union {"/"}
           N == Len(R)
<1>1. R \in Seq(Seq(T)) /\ N \in Nat
  BY DEF Names
<1>2. PICK g : /\ R # <<>> => Join(R) = g[Len(R)]
               /\ g[0] = <<>>
               /\ \A n \in 0 .. Len(R) : g[n] \in Seq(T \union {"/"})
               /\ \A n \in 1 .. Len(R) : g[n] = g[n - 1] \o <<"/">> \o R[n]
  BY <1>1, JoinSteps
<1>3. CASE R = <<>>
  <2>1. Join(R) = <<"/">>
    BY <1>3 DEF Join
  <2>2. <<"/">> \in Seq(Tok) /\ <<"/">> # <<>>
    OBVIOUS
  <2> QED BY <1>3, <2>1, <2>2
<1>4. CASE R # <<>>
  <2>1. N \in 1 .. N /\ N - 1 \in 0 .. N /\ R[N] \in Names(T)
    BY <1>4
  <2>2. R[N] \in Seq(T) /\ R[N] # <<>>
    BY <2>1 DEF Names, IsName
  <2> DEFINE a == g[N - 1] \o <<"/">>
             s == R[N]
  <2>3. g[N - 1] \in Seq(Tok) /\ Join(R) = a \o s
    BY <1>2, <1>4, <2>1
  <2>4. s \in Seq(Tok) /\ s # <<>> /\ <<"/">> \in Seq(Tok)
    BY <2>2
  <2>5. a \in Seq(Tok) /\ Len(a) >= 1
    <3> DEFINE c == g[N - 1]
    <3>1. c \in Seq(Tok)
      BY <2>3
    <3> HIDE DEF c, Tok
    <3>2. c \o <<"/">> \in Seq(Tok) /\ Len(c \o <<"/">>) = Len(c) + 1 /\ Len(c) \in Nat
      BY <2>4, <3>1
    <3> QED BY <3>2 DEF c
  <2>6. Last(R) = s
    BY DEF Last
  <2>7. Last(s) \in T
    <3> HIDE DEF s
    <3>1. s \in Seq(T) /\ s # <<>>
      BY <2>2 DEF s
    <3> QED BY <3>1 DEF Last
  <2>8. /\ a \o s \in Seq(Tok) /\ Len(a \o s) = Len(a) + Len(s)
        /\ a \o s # <<>> /\ Last(a \o s) = Last(s)
    <3> HIDE DEF a, s, Tok
    <3> QED BY <2>4, <2>5, ConcatLast
  <2>9. Len(s) \in Nat \ {0}
    <3> HIDE DEF s
    <3> QED BY <2>4
  <2>10. Len(a \o s) > 1
    <3> HIDE DEF a, s
    <3> QED BY <2>5, <2>8, <2>9
  <2>11. s \in Seq(T) /\ s # <<>>
    BY <2>2
  <2> HIDE DEF a, s
  <2> QED BY <1>4, <2>3, <2>6, <2>7, <2>8, <2>10, <2>11
<1> QED BY <1>3, <1>4

\* The paths without a backslash.
Clear == Seq(Safe \union {"/"})

\* What URL.EscapedPath() gives has none.
LEMMA EscapedIsClear ==
  ASSUME NEW p \in EscapedPaths
  PROVE  p \in Clear
<1>1. p \in Seq(STRING) /\ "\\" \notin ToSet(p)
  BY DEF EscapedPaths
<1>2. \A i \in 1 .. Len(p) : p[i] \in STRING /\ p[i] # "\\"
  BY <1>1 DEF ToSet
<1>3. \A i \in 1 .. Len(p) : p[i] \in Safe \union {"/"}
  BY <1>2 DEF Safe, Tokens
<1> QED BY <1>1, <1>3 DEF Clear

\* An unreserved character is all that both decode.
LEMMA NormalizedIsPlainly ==
  ASSUME NEW p \in Clear
  PROVE  /\ normalizeEscapedPath(p) = Plainly(p)
         /\ Plainly(p) \in Seq(Safe \union {"/"})
<1>1. p \in Seq(Safe \union {"/"}) /\ \A i \in 1 .. Len(p) : p[i] \in Safe \union {"/"}
  BY DEF Clear
<1>2. DOMAIN p = 1 .. Len(p) /\ Len(p) \in Nat
  BY <1>1
<1> DEFINE Plain1(t) == IF Decoded(t) \in {"/", "\\"} THEN t ELSE Decoded(t)
<1>3. ASSUME NEW t
      PROVE  (IF t \in Unreserved THEN Decoded(t) ELSE t) = Plain1(t)
  BY DEF Unreserved, Decoded, Escapes, Meaning
<1>4. ASSUME NEW t \in Safe \union {"/"}
      PROVE  Plain1(t) \in Safe \union {"/"}
  <2>1. CASE t \in Escapes
    BY <2>1 DEF Decoded, Escapes, Meaning, Safe, Tokens
  <2>2. CASE t \notin Escapes
    BY <2>2 DEF Decoded, Safe, Tokens
  <2> QED BY <2>1, <2>2
<1>5. normalizeEscapedPath(p) = [i \in 1 .. Len(p) |-> Plain1(p[i])]
  <2> HIDE DEF Plain1
  <2> QED BY <1>2, <1>3 DEF normalizeEscapedPath
<1>6. Plainly(p) = [i \in 1 .. Len(p) |-> Plain1(p[i])]
  BY <1>2 DEF Plainly
<1>7. Plainly(p) \in [1 .. Len(p) -> Safe \union {"/"}]
  <2> HIDE DEF Plain1
  <2> QED BY <1>1, <1>4, <1>6
<1> HIDE DEF Plain1
<1> QED BY <1>2, <1>5, <1>6, <1>7

\* So path.Clean, of the normalised path, keeps what the path names.
LEMMA ResourceType ==
  ASSUME NEW p \in Clear
  PROVE  /\ Resource(p) \in Seq(Names(Safe))
         /\ CleanSegments(normalizeEscapedPath(p)) = Resource(p)
  BY NormalizedIsPlainly, CleanIsResource, CleanSegmentsType

\* A path without segments, and the root, name nothing.
LEMMA NoSegments == CleanSegments(<<>>) = <<>> /\ CleanSegments(<<"/">>) = <<>>
<1> DEFINE one == << <<>> >>
           two == << <<>>, <<>> >>
<1>1. Segments(<<>>) = one
  <2>1. <<>> \in Seq(Safe \union {"/"}) /\ Len(<<>>) = 0
    OBVIOUS
  <2> QED BY <2>1, SegmentsSteps
<1>2. Segments(<<"/">>) = two
  <2> DEFINE p == <<"/">>
  <2>1. p \in Seq(Safe \union {"/"}) /\ Len(p) = 1 /\ p[1] = "/"
    OBVIOUS
  <2> HIDE DEF p
  <2>2. \E g : /\ Segments(p) = g[Len(p)] /\ g[0] = << <<>> >>
               /\ \A n \in 0 .. Len(p) : g[n] \in SomeSegs(Safe)
               /\ \A n \in 1 .. Len(p) : g[n] = AddToken(g[n - 1], p[n])
    BY <2>1, SegmentsSteps
  <2>3. Segments(p) = AddToken(one, "/")
    BY <2>1, <2>2
  <2>4. AddToken(one, "/") = two
    <3>1. AddToken(one, "/") = Append(one, <<>>)
      BY DEF AddToken
    <3>2. Append(one, <<>>) = two
      <4>1. /\ one \in Seq(Seq(Safe)) /\ Len(one) = 1 /\ one[1] = <<>>
            /\ two \in Seq(Seq(Safe)) /\ Len(two) = 2 /\ two[1] = <<>> /\ two[2] = <<>>
            /\ <<>> \in Seq(Safe)
        OBVIOUS
      <4> HIDE DEF one, two
      <4> DEFINE S == Seq(Safe)
                 e == <<>>
      <4>2. one \in Seq(S) /\ e \in S
        BY <4>1
      <4> HIDE DEF S, e
      <4>3. /\ Append(one, e) \in Seq(S) /\ Len(Append(one, e)) = 2
            /\ Append(one, e)[1] = one[1] /\ Append(one, e)[2] = e
        <5>1. /\ Append(one, e) \in Seq(S) /\ Len(Append(one, e)) = Len(one) + 1
              /\ Append(one, e)[Len(one) + 1] = e
              /\ \A i \in 1 .. Len(one) : Append(one, e)[i] = one[i]
          BY <4>2, AppendParts
        <5>2. Len(one) = 1 /\ 1 \in 1 .. Len(one)
          BY <4>1
        <5> QED BY <5>1, <5>2
      <4>4. \A k \in 1 .. Len(two) : k = 1 \/ k = 2
        BY <4>1
      <4>5. \A k \in 1 .. Len(two) : Append(one, e)[k] = two[k]
        BY <4>1, <4>3, <4>4 DEF e
      <4>6. Append(one, e) = two
        BY <4>1, <4>3, <4>5, SeqsEqual DEF S
      <4> QED BY <4>6 DEF e
    <3> QED BY <3>1, <3>2
  <2> QED BY <2>3, <2>4 DEF p
<1>3. KeepSegment(<<>>, <<>>) = <<>>
  BY DEF KeepSegment
<1>4. ASSUME NEW p, NEW segs, segs = Segments(p), segs \in Seq(Seq(Safe)),
             Len(segs) \in {1, 2}, \A i \in 1 .. Len(segs) : segs[i] = <<>>
      PROVE  CleanSegments(p) = <<>>
  <2>1. PICK g : /\ CleanSegments(p) = g[Len(segs)] /\ g[0] = <<>>
                 /\ \A n \in 0 .. Len(segs) : g[n] \in Seq(Names(Safe))
                 /\ \A n \in 1 .. Len(segs) : g[n] = KeepSegment(g[n - 1], segs[n])
    BY <1>4, CleanSegmentsSteps
  <2>2. g[1] = <<>>
    <3>1. 1 \in 1 .. Len(segs)
      <4>1. Len(segs) = 1 \/ Len(segs) = 2
        BY <1>4
      <4> QED BY <4>1
    <3>2. g[1] = KeepSegment(g[0], segs[1])
      BY <2>1, <3>1
    <3> QED BY <1>3, <1>4, <2>1, <3>1, <3>2
  <2>3. CASE Len(segs) = 1
    BY <2>1, <2>2, <2>3
  <2>4. CASE Len(segs) = 2
    <3>1. g[2] = KeepSegment(g[1], segs[2]) /\ segs[2] = <<>>
      BY <1>4, <2>1, <2>4
    <3> QED BY <1>3, <2>1, <2>2, <2>4, <3>1
  <2> QED BY <1>4, <2>3, <2>4
<1>5. one \in Seq(Seq(Safe)) /\ Len(one) = 1 /\ \A i \in 1 .. Len(one) : one[i] = <<>>
  OBVIOUS
<1>6. two \in Seq(Seq(Safe)) /\ Len(two) = 2 /\ \A i \in 1 .. Len(two) : two[i] = <<>>
  OBVIOUS
<1> HIDE DEF one, two
<1> QED BY <1>1, <1>2, <1>4, <1>5, <1>6

\* EscapedPath() gives back a path without a backslash, escapes and all.
LEMMA EscapedAgain ==
  ASSUME NEW x \in Clear, x # <<>>
  PROVE  LET path == Unescape(x) IN EscapedPath(path, IF path = x THEN <<>> ELSE x) = x
<1>1. x \in Seq(Safe \union {"/"})
  BY DEF Clear
<1>2. \A i \in 1 .. Len(x) : x[i] # "\\"
  <2>1. \A i \in 1 .. Len(x) : x[i] \in Safe \union {"/"}
    BY <1>1
  <2> QED BY <2>1 DEF Safe
<1>3. Escape(x) = x
  <2>1. Escape(x) = [i \in 1 .. Len(x) |-> x[i]]
    BY <1>1, <1>2 DEF Escape
  <2> QED BY <1>1, <2>1
<1> QED BY <1>3 DEF EscapedPath

\* What a path ends in once it is unescaped.
LEMMA UnescapedEnd ==
  ASSUME NEW x \in Clear, x # <<>>
  PROVE  /\ Len(Unescape(x)) = Len(x)
         /\ EndsInSlash(Unescape(x)) <=> Decoded(Last(x)) = "/"
<1>1. x \in Seq(Safe \union {"/"}) /\ Len(x) \in Nat \ {0}
  BY DEF Clear
<1>2. Unescape(x) = [i \in 1 .. Len(x) |-> Decoded(x[i])]
  BY <1>1 DEF Unescape
<1>3. Len(Unescape(x)) = Len(x) /\ Unescape(x)[Len(x)] = Decoded(x[Len(x)]) /\ Unescape(x) # <<>>
  BY <1>1, <1>2
<1> QED BY <1>3 DEF EndsInSlash, Last

\* The canonical path is the cleaned one, the detour through URL.Path and URL.RawPath
\* notwithstanding.
LEMMA CanonicalPathExact ==
  ASSUME NEW p \in Clear, ~EndsEncoded(p)
  PROVE  CanonicalPath(p) = Join(Resource(p))
<1> DEFINE R == Resource(p)
           cleaned == Join(R)
           path == Unescape(cleaned)
           raw == IF path = cleaned THEN <<>> ELSE cleaned
<1>1. R \in Seq(Names(Safe))
  BY ResourceType
<1>2. Join(CleanSegments(normalizeEscapedPath(IF p = <<>> THEN <<"/">> ELSE p))) = cleaned
  <2>1. CASE p # <<>>
    BY <2>1, ResourceType
  <2>2. CASE p = <<>>
    <3>1. <<"/">> \in Clear /\ <<>> \in Clear
      BY DEF Clear
    <3>2. Plainly(<<>>) = <<>> /\ Plainly(<<"/">>) = <<"/">>
      BY DEF Plainly, Decoded, Escapes
    <3>3. CleanSegments(normalizeEscapedPath(<<"/">>)) = <<>> /\ Resource(<<>>) = <<>>
      BY <3>1, <3>2, NoSegments, NormalizedIsPlainly, ResourceType
    <3> QED BY <2>2, <3>3
  <2> QED BY <2>1, <2>2
<1>3. CanonicalPath(p) = IF path # <<"/">> /\ EndsInSlash(path)
                           THEN EscapedPath(Front(path), TrimSlash(raw)) ELSE EscapedPath(path, raw)
  BY <1>2 DEF CanonicalPath
<1>4. cleaned \in Clear /\ cleaned # <<>>
  <2> HIDE DEF R
  <2> QED BY <1>1, JoinType DEF Clear
<1>5. EscapedPath(path, raw) = cleaned
  <2> HIDE DEF cleaned
  <2> QED BY <1>4, EscapedAgain
<1>6. path = <<"/">> \/ ~EndsInSlash(path)
  <2>1. CASE R = <<>>
    <3>1. cleaned = <<"/">>
      BY <2>1 DEF Join
    <3>2. Unescape(<<"/">>) = <<"/">>
      BY DEF Unescape, Decoded, Escapes
    <3> QED BY <3>1, <3>2
  <2>2. CASE R # <<>>
    <3>1. Last(cleaned) = Last(Last(R)) /\ Last(Last(R)) \in Safe
      <4> HIDE DEF R
      <4> QED BY <1>1, <2>2, JoinType
    <3>2. Last(cleaned) # "%2F"
      BY <2>2, <3>1 DEF EndsEncoded
    <3>3. Decoded(Last(cleaned)) # "/"
      <4> HIDE DEF R, cleaned
      <4> QED BY <3>1, <3>2 DEF Decoded, Escapes, Meaning, Safe
    <3> HIDE DEF cleaned
    <3> QED BY <1>4, <3>3, UnescapedEnd
  <2> QED BY <2>1, <2>2
<1> HIDE DEF path, raw
<1> QED BY <1>3, <1>5, <1>6

\* canonicalURL() gives two paths of any length one key exactly when they name one resource,
\* whatever they escape and however many slashes and dot-segments they have, as long as no
\* name ends in an escaped slash.
THEOREM OneKeyPerResource == MirrorSpec => []KeysExact
<1>1. KeysExact
  BY MirrorAssumption, EscapedIsClear, CanonicalPathExact DEF KeysExact
<1> QED BY <1>1, PTL

-----------------------------------------------------------------------------
(* Joined and taken apart again.                                           *)

\* The segments of a longer path.
LEMMA SegmentsAppend ==
  ASSUME NEW T, NEW x \in Seq(T \union {"/"}), NEW t \in T \union {"/"}
  PROVE  Segments(Append(x, t)) = AddToken(Segments(x), t)
<1> DEFINE y == Append(x, t)
           N == Len(x)
<1>1. /\ y \in Seq(T \union {"/"}) /\ N \in Nat /\ Len(y) = N + 1 /\ y[N + 1] = t
      /\ \A i \in 1 .. N : y[i] = x[i]
  OBVIOUS
<1> HIDE DEF y, N
<1>2. PICK g : /\ Segments(y) = g[Len(y)] /\ g[0] = << <<>> >>
               /\ \A n \in 0 .. Len(y) : g[n] \in SomeSegs(T)
               /\ \A n \in 1 .. Len(y) : g[n] = AddToken(g[n - 1], y[n])
  BY <1>1, SegmentsSteps
<1>3. PICK h : /\ Segments(x) = h[Len(x)] /\ h[0] = << <<>> >>
               /\ \A n \in 0 .. Len(x) : h[n] \in SomeSegs(T)
               /\ \A n \in 1 .. Len(x) : h[n] = AddToken(h[n - 1], x[n])
  BY SegmentsSteps
<1>4. \A n \in 0 .. N : g[n] = h[n]
  <2>1. \A n \in 1 .. N : g[n - 1] = h[n - 1] => g[n] = h[n]
    <3> SUFFICES ASSUME NEW n \in 1 .. N, g[n - 1] = h[n - 1] PROVE g[n] = h[n]
      OBVIOUS
    <3>1. n \in 1 .. Len(y)
      BY <1>1
    <3> QED BY <1>1, <1>2, <1>3, <3>1 DEF N
  <2>2. g[0] = h[0]
    BY <1>2, <1>3
  <2>3. N \in Nat
    BY <1>1
  <2> QED BY <2>1, <2>2, <2>3, SameSteps
<1>5. Segments(y) = AddToken(g[N], t)
  <2>1. N + 1 \in 1 .. Len(y) /\ (N + 1) - 1 = N
    BY <1>1
  <2>2. g[N + 1] = AddToken(g[(N + 1) - 1], y[N + 1])
    BY <1>2, <2>1
  <2> QED BY <1>1, <1>2, <2>1, <2>2
<1>6. g[N] = Segments(x)
  BY <1>1, <1>3, <1>4 DEF N
<1> QED BY <1>5, <1>6 DEF y

\* The segments before a slash are not changed by what follows.
LEMMA SegmentsPrefix ==
  ASSUME NEW T, NEW x \in Seq(T \union {"/"}), NEW w \in Seq(T \union {"/"})
  PROVE  /\ Len(Segments(x)) <= Len(Segments(x \o w))
         /\ \A i \in 1 .. Len(Segments(x)) - 1 : Segments(x \o w)[i] = Segments(x)[i]
<1> DEFINE N == Len(w)
           S == Segments(x)
           Y(n) == x \o SubSeq(w, 1, n)
           A == {n \in 0 .. N : /\ Len(S) <= Len(Segments(Y(n)))
                                /\ \A i \in 1 .. Len(S) - 1 : Segments(Y(n))[i] = S[i]}
<1>1. N \in Nat /\ S \in SomeSegs(T)
  BY SegmentsType
<1>2. ASSUME NEW n \in 0 .. N PROVE Y(n) \in Seq(T \union {"/"})
  OBVIOUS
<1>3. Y(0) = x
  OBVIOUS
<1>4. Y(N) = x \o w
  OBVIOUS
<1>5. ASSUME NEW n \in 1 .. N PROVE Y(n) = Append(Y(n - 1), w[n]) /\ w[n] \in T \union {"/"}
  OBVIOUS
<1> HIDE DEF Y, N, S
<1>6. Len(S) \in Nat
  BY <1>1 DEF SomeSegs
<1>7. 0 \in A
  BY <1>1, <1>3, <1>6 DEF S
<1>8. ASSUME NEW n \in 1 .. N, n - 1 \in A PROVE n \in A
  <2> DEFINE P == Segments(Y(n - 1))
             Q == Segments(Y(n))
  <2>1. n - 1 \in 0 .. N
    BY <1>1
  <2>2. Q = AddToken(P, w[n]) /\ w[n] \in T \union {"/"} /\ P \in SomeSegs(T)
    BY <1>2, <1>5, <2>1, SegmentsAppend, SegmentsType
  <2>3. Len(S) <= Len(P) /\ \A i \in 1 .. Len(S) - 1 : P[i] = S[i]
    BY <1>8
  <2> HIDE DEF P, Q
  <2>4. P \in Seq(Seq(T)) /\ Len(P) \in Nat
    BY <2>2 DEF SomeSegs
  <2>5. Len(P) <= Len(Q) /\ \A i \in 1 .. Len(P) - 1 : Q[i] = P[i]
    <3>1. CASE w[n] = "/"
      <4>1. Q = Append(P, <<>>)
        BY <2>2, <3>1, AddTokenType
      <4>2. <<>> \in Seq(T)
        OBVIOUS
      <4> QED BY <2>4, <4>1, <4>2, AppendParts
    <3>2. CASE w[n] # "/"
      BY <2>2, <2>4, <3>2, AddTokenType
    <3> QED BY <3>1, <3>2
  <2>6. Q \in Seq(Seq(T)) /\ Len(Q) \in Nat
    BY <2>2, AddTokenType DEF SomeSegs
  <2>7. Len(S) <= Len(Q) /\ \A i \in 1 .. Len(S) - 1 : Q[i] = S[i]
    <3>1. \A i \in 1 .. Len(S) - 1 : i \in 1 .. Len(P) - 1
      BY <1>6, <2>3, <2>4
    <3> QED BY <1>6, <2>3, <2>4, <2>5, <2>6, <3>1
  <2> QED BY <1>1, <2>7 DEF Q
<1>9. N \in A
  <2>1. 0 .. N \subseteq A
    <3> HIDE DEF A
    <3> QED BY <1>1, <1>7, <1>8, SetInduction
  <2> HIDE DEF A
  <2> QED BY <1>1, <2>1
<1> QED BY <1>4, <1>9 DEF S

\* A word without a slash makes the last segment longer.
LEMMA SegmentsExtend ==
  ASSUME NEW T, NEW x \in Seq(T \union {"/"}), NEW s \in Seq(T), "/" \notin T
  PROVE  /\ Len(Segments(x \o s)) = Len(Segments(x))
         /\ \A i \in 1 .. Len(Segments(x)) - 1 : Segments(x \o s)[i] = Segments(x)[i]
         /\ Segments(x \o s)[Len(Segments(x))] = Segments(x)[Len(Segments(x))] \o s
<1> DEFINE N == Len(s)
           S == Segments(x)
           Y(n) == x \o SubSeq(s, 1, n)
           A == {n \in 0 .. N : /\ Len(Segments(Y(n))) = Len(S)
                                /\ Segments(Y(n))[Len(S)] = S[Len(S)] \o SubSeq(s, 1, n)}
<1>1. N \in Nat /\ S \in SomeSegs(T)
  BY SegmentsType
<1>2. ASSUME NEW n \in 0 .. N PROVE Y(n) \in Seq(T \union {"/"})
  OBVIOUS
<1>3. Y(0) = x
  OBVIOUS
<1>4. Y(N) = x \o s /\ SubSeq(s, 1, N) = s
  OBVIOUS
<1>5. ASSUME NEW n \in 1 .. N PROVE Y(n) = Append(Y(n - 1), s[n]) /\ s[n] \in T
  OBVIOUS
<1>6. Len(S) \in Nat \ {0} /\ S[Len(S)] \in Seq(T)
  <2>1. S \in Seq(Seq(T)) /\ S # <<>>
    BY <1>1 DEF SomeSegs
  <2> HIDE DEF S
  <2> QED BY <2>1
<1>7. \A a \in Seq(T) : a \o SubSeq(s, 1, 0) = a
  OBVIOUS
<1>8. ASSUME NEW n \in 1 .. N, NEW a \in Seq(T)
      PROVE  Append(a \o SubSeq(s, 1, n - 1), s[n]) = a \o SubSeq(s, 1, n)
  BY GrownBy
<1> HIDE DEF Y, N, S
<1>9. 0 \in A
  BY <1>1, <1>3, <1>6, <1>7 DEF S
<1>10. ASSUME NEW n \in 1 .. N, n - 1 \in A PROVE n \in A
  <2> DEFINE P == Segments(Y(n - 1))
             Q == Segments(Y(n))
  <2>1. n - 1 \in 0 .. N
    BY <1>1
  <2>2. Q = AddToken(P, s[n]) /\ s[n] \in T \union {"/"} /\ s[n] # "/" /\ P \in SomeSegs(T)
    BY <1>2, <1>5, <2>1, SegmentsAppend, SegmentsType
  <2>3. Len(P) = Len(S) /\ P[Len(S)] = S[Len(S)] \o SubSeq(s, 1, n - 1)
    BY <1>10
  <2>4. Len(Q) = Len(P) /\ Q[Len(P)] = Append(P[Len(P)], s[n])
    <3> HIDE DEF P, Q
    <3> QED BY <2>2, AddTokenType
  <2>5. Len(Q) = Len(S) /\ Q[Len(S)] = S[Len(S)] \o SubSeq(s, 1, n)
    <3> HIDE DEF P, Q
    <3> QED BY <1>6, <1>8, <2>3, <2>4
  <2> QED BY <1>1, <2>5
<1>11. N \in A
  <2>1. 0 .. N \subseteq A
    <3> HIDE DEF A
    <3> QED BY <1>1, <1>9, <1>10, SetInduction
  <2> HIDE DEF A
  <2> QED BY <1>1, <2>1
<1>12. s \in Seq(T \union {"/"})
  OBVIOUS
<1>13. \A i \in 1 .. Len(S) - 1 : Segments(x \o s)[i] = S[i]
  BY <1>12, SegmentsPrefix DEF S
<1> QED BY <1>4, <1>11, <1>13 DEF S

\* Joined segments, taken apart again, are the same segments.
LEMMA JoinedApart ==
  ASSUME NEW T, "/" \notin T, NEW R \in Seq(Seq(T)), R # <<>>
  PROVE  /\ Join(R) \in Seq(T \union {"/"})
         /\ Len(Segments(Join(R))) = Len(R) + 1 /\ Segments(Join(R))[1] = <<>>
         /\ \A k \in 1 .. Len(R) : Segments(Join(R))[k + 1] = R[k]
<1> DEFINE N == Len(R)
           Tok == T \union {"/"}
<1>1. N \in Nat \ {0} /\ \A n \in 1 .. N : R[n] \in Seq(T)
  OBVIOUS
<1>2. PICK g : /\ R # <<>> => Join(R) = g[N]
               /\ g[0] = <<>>
               /\ \A n \in 0 .. N : g[n] \in Seq(Tok)
               /\ \A n \in 1 .. N : g[n] = g[n - 1] \o <<"/">> \o R[n]
  BY JoinSteps
<1> DEFINE S(n) == Segments(g[n])
           A == {n \in 0 .. N : /\ S(n) \in Seq(Seq(T)) /\ Len(S(n)) = n + 1 /\ S(n)[1] = <<>>
                                /\ \A k \in 1 .. n : S(n)[k + 1] = R[k]}
<1>3. 0 \in A
  <2>1. S(0) = << <<>> >>
    <3>1. <<>> \in Seq(T \union {"/"}) /\ Len(<<>>) = 0
      OBVIOUS
    <3> QED BY <1>2, <3>1, SegmentsSteps
  <2> DEFINE e == << <<>> >>
  <2>2. e \in Seq(Seq(T)) /\ Len(e) = 0 + 1 /\ e[1] = <<>>
    OBVIOUS
  <2>3. 0 \in 0 .. N /\ \A k \in 1 .. 0 : e[k + 1] = R[k]
    BY <1>1
  <2> HIDE DEF e
  <2>4. S(0) = e
    BY <2>1 DEF e
  <2> HIDE DEF S, N
  <2> QED BY <2>2, <2>3, <2>4
<1>4. ASSUME NEW n \in 1 .. N, n - 1 \in A PROVE n \in A
  <2> DEFINE P == S(n - 1)
             Q == Append(P, <<>>)
             x == g[n - 1]
             y == Append(x, "/")
             s == R[n]
  <2>1. x \in Seq(Tok) /\ s \in Seq(T) /\ g[n] = x \o <<"/">> \o s
    <3>1. n - 1 \in 0 .. N
      BY <1>1
    <3> HIDE DEF N, Tok
    <3> QED BY <1>1, <1>2, <3>1
  <2>2. P \in Seq(Seq(T)) /\ Len(P) = n /\ P[1] = <<>> /\ \A k \in 1 .. n - 1 : P[k + 1] = R[k]
    <3> HIDE DEF S
    <3>1. /\ S(n - 1) \in Seq(Seq(T)) /\ Len(S(n - 1)) = (n - 1) + 1 /\ S(n - 1)[1] = <<>>
          /\ \A k \in 1 .. n - 1 : S(n - 1)[k + 1] = R[k]
      BY <1>4
    <3>2. (n - 1) + 1 = n
      BY <1>1
    <3> QED BY <3>1, <3>2
  <2>3. Segments(y) = Q
    <3>1. Segments(y) = AddToken(Segments(x), "/") /\ Segments(x) \in SomeSegs(T)
      BY <2>1, SegmentsAppend, SegmentsType
    <3> QED BY <3>1, AddTokenType
  <2>4. y \in Seq(Tok) /\ x \o <<"/">> = y
    <3> HIDE DEF x
    <3> QED BY <2>1
  <2>5. g[n] = y \o s
    BY <2>1, <2>4
  <2>6. Len(S(n)) = Len(Q) /\ (\A i \in 1 .. Len(Q) - 1 : S(n)[i] = Q[i]) /\ S(n)[Len(Q)] = Q[Len(Q)] \o s
    <3> HIDE DEF y, s, Q
    <3>1. y \in Seq(T \union {"/"}) /\ s \in Seq(T)
      BY <2>1, <2>4
    <3>2. /\ Len(Segments(y \o s)) = Len(Segments(y))
          /\ \A i \in 1 .. Len(Segments(y)) - 1 : Segments(y \o s)[i] = Segments(y)[i]
          /\ Segments(y \o s)[Len(Segments(y))] = Segments(y)[Len(Segments(y))] \o s
      BY <3>1, SegmentsExtend
    <3> QED BY <2>3, <2>5, <3>2
  <2>7. /\ Len(Q) = n + 1 /\ Q[n + 1] = <<>> /\ \A i \in 1 .. n : Q[i] = P[i]
    <3>1. <<>> \in Seq(T)
      OBVIOUS
    <3> HIDE DEF P
    <3>2. /\ Len(Q) = Len(P) + 1 /\ Q[Len(P) + 1] = <<>>
          /\ \A i \in 1 .. Len(P) : Q[i] = P[i]
      BY <2>2, <3>1, AppendParts
    <3> QED BY <2>2, <3>2
  <2>8. <<>> \o s = s
    <3> HIDE DEF s
    <3> QED BY <2>1
  <2>9. S(n) \in Seq(Seq(T))
    <3>1. g[n] \in Seq(Tok)
      BY <1>2
    <3>2. Segments(g[n]) \in SomeSegs(T)
      BY <3>1, SegmentsType
    <3> QED BY <3>2 DEF SomeSegs
  <2> HIDE DEF S, P, Q
  <2>10. Len(S(n)) = n + 1 /\ S(n)[n + 1] = R[n]
    BY <2>6, <2>7, <2>8
  <2>11. \A i \in 1 .. n : S(n)[i] = P[i]
    BY <2>6, <2>7, <1>1
  <2>12. S(n)[1] = <<>>
    BY <1>1, <2>2, <2>11
  <2>13. \A k \in 1 .. n : S(n)[k + 1] = R[k]
    <3> SUFFICES ASSUME NEW k \in 1 .. n PROVE S(n)[k + 1] = R[k]
      OBVIOUS
    <3>1. CASE k = n
      BY <2>10, <3>1
    <3>2. CASE k # n
      <4>1. k \in 1 .. n - 1 /\ k + 1 \in 1 .. n
        BY <1>1, <3>2
      <4> QED BY <2>2, <2>11, <4>1
    <3> QED BY <3>1, <3>2
  <2> QED BY <1>1, <2>9, <2>10, <2>12, <2>13
<1>5. N \in A
  <2>1. 0 .. N \subseteq A
    <3> HIDE DEF A
    <3> QED BY <1>1, <1>3, <1>4, SetInduction
  <2> HIDE DEF A
  <2> QED BY <1>1, <2>1
<1> HIDE DEF N
<1>6. Join(R) = g[N] /\ g[N] \in Seq(Tok)
  BY <1>1, <1>2
<1> QED BY <1>5, <1>6 DEF N

-----------------------------------------------------------------------------
(* A key of its own.                                                       *)

\* Joined names are cleaned already.
LEMMA JoinedIsClean ==
  ASSUME NEW T, "/" \notin T, NEW R \in Seq(Names(T)), R # <<>>
  PROVE  CleanSegments(Join(R)) = R
<1> DEFINE N == Len(R)
           x == Join(R)
           segs == Segments(x)
<1>1. R \in Seq(Seq(T)) /\ N \in Nat \ {0} /\ \A k \in 1 .. N : IsName(R[k]) /\ R[k] \in Names(T)
  <2>1. Names(T) \subseteq Seq(T)
    BY DEF Names
  <2>2. \A k \in 1 .. N : R[k] \in Names(T)
    OBVIOUS
  <2>3. R \in Seq(Seq(T))
    BY <2>1
  <2> QED BY <2>2, <2>3 DEF Names
<1>2. /\ x \in Seq(T \union {"/"}) /\ Len(segs) = N + 1 /\ segs[1] = <<>>
      /\ \A k \in 1 .. N : segs[k + 1] = R[k]
  BY <1>1, JoinedApart
<1>3. segs \in Seq(Seq(T))
  <2> HIDE DEF x
  <2> QED BY <1>2, SegmentsType DEF SomeSegs
<1>4. PICK g : /\ CleanSegments(x) = g[Len(segs)] /\ g[0] = <<>>
               /\ \A n \in 0 .. Len(segs) : g[n] \in Seq(Names(T))
               /\ \A n \in 1 .. Len(segs) : g[n] = KeepSegment(g[n - 1], segs[n])
  <2> HIDE DEF x
  <2> QED BY <1>3, CleanSegmentsSteps
<1> HIDE DEF x, segs
<1> DEFINE A == {n \in 0 .. N : Len(g[n + 1]) = n /\ \A k \in 1 .. n : g[n + 1][k] = R[k]}
<1>5. 0 \in A
  <2>1. 1 \in 1 .. Len(segs) /\ 1 - 1 = 0 /\ 0 + 1 = 1
    BY <1>1, <1>2
  <2>2. g[1] = KeepSegment(g[0], segs[1])
    BY <1>4, <2>1
  <2>3. g[1] = <<>>
    BY <1>2, <1>4, <2>2 DEF KeepSegment
  <2>4. Len(<<>>) = 0
    OBVIOUS
  <2> QED BY <1>1, <2>1, <2>3, <2>4
<1>6. ASSUME NEW n \in 1 .. N, n - 1 \in A PROVE n \in A
  <2>1. n + 1 \in 1 .. Len(segs) /\ (n + 1) - 1 = n /\ n \in 0 .. Len(segs) /\ (n - 1) + 1 = n
    BY <1>1, <1>2
  <2>2. g[n + 1] = KeepSegment(g[n], segs[n + 1]) /\ segs[n + 1] = R[n] /\ g[n] \in Seq(Names(T))
    <3>1. g[n + 1] = KeepSegment(g[(n + 1) - 1], segs[n + 1])
      BY <1>4, <2>1
    <3> QED BY <1>2, <1>4, <2>1, <3>1
  <2>3. Len(g[n]) = n - 1 /\ \A k \in 1 .. n - 1 : g[n][k] = R[k]
    <3>1. Len(g[(n - 1) + 1]) = n - 1 /\ \A k \in 1 .. n - 1 : g[(n - 1) + 1][k] = R[k]
      BY <1>6
    <3> QED BY <2>1, <3>1
  <2>4. g[n + 1] = Append(g[n], R[n])
    <3>1. R[n] \in Seq(T)
      BY <1>1 DEF Names
    <3> QED BY <1>1, <2>2, <3>1, KeepSegmentType
  <2>5. /\ Len(g[n + 1]) = Len(g[n]) + 1
        /\ g[n + 1][Len(g[n]) + 1] = R[n] /\ \A i \in 1 .. Len(g[n]) : g[n + 1][i] = g[n][i]
    <3> DEFINE a == g[n]
    <3>1. a \in Seq(Names(T)) /\ R[n] \in Names(T)
      BY <1>1, <2>2
    <3> HIDE DEF a, N
    <3>2. /\ Len(Append(a, R[n])) = Len(a) + 1
          /\ Append(a, R[n])[Len(a) + 1] = R[n] /\ \A i \in 1 .. Len(a) : Append(a, R[n])[i] = a[i]
      BY <3>1, AppendParts
    <3> QED BY <2>4, <3>2 DEF a
  <2>6. Len(g[n + 1]) = n /\ g[n + 1][n] = R[n] /\ \A i \in 1 .. n - 1 : g[n + 1][i] = R[i]
    <3>1. (n - 1) + 1 = n
      BY <1>1
    <3> QED BY <2>3, <2>5, <3>1
  <2> QED BY <1>1, <2>6
<1>7. N \in A
  <2>1. 0 .. N \subseteq A
    <3> HIDE DEF A
    <3> QED BY <1>1, <1>5, <1>6, SetInduction
  <2> HIDE DEF A
  <2> QED BY <1>1, <2>1
<1>8. g[N + 1] \in Seq(Names(T)) /\ CleanSegments(x) = g[N + 1]
  <2>1. N + 1 \in 0 .. Len(segs)
    BY <1>1, <1>2
  <2> QED BY <1>2, <1>4, <2>1
<1>9. g[N + 1] = R
  BY <1>7, <1>8, SeqsEqual
<1> QED BY <1>8, <1>9 DEF x

\* The tokens of a path that is escaped as canonicalURL() escapes it.
Normal == Safe \ Unreserved

\* Decoding gives a normal token, and leaves one alone.
LEMMA NormalTokens ==
  ASSUME NEW t \in Safe \union {"/"}
  PROVE  /\ Decoded(t) \notin {"/", "\\"} => Decoded(t) \in Normal
         /\ t \in Normal \union {"/"} /\ Decoded(t) \notin {"/", "\\"} => Decoded(t) = t
         /\ Decoded(t) \in {"/", "\\"} => t \in Normal \union {"/"}
<1>1. CASE t \in Escapes
  <2>1. "a" \in Normal /\ "." \in Normal
    BY DEF Normal, Safe, Tokens, Unreserved
  <2>2. t \in {"%61", "%2E", "%2F", "%5C"}
    BY <1>1 DEF Escapes
  <2>3. Decoded("%61") = "a" /\ Decoded("%2E") = "." /\ Decoded("%2F") = "/" /\ Decoded("%5C") = "\\"
    BY DEF Decoded, Escapes, Meaning
  <2> QED BY <2>1, <2>2, <2>3 DEF Normal, Unreserved
<1>2. CASE t \notin Escapes
  <2>1. Decoded(t) = t
    BY <1>2 DEF Decoded
  <2>2. t \notin Unreserved
    BY <1>2 DEF Escapes, Unreserved
  <2> QED BY <2>1, <2>2 DEF Normal
<1> QED BY <1>1, <1>2

\* Plainly() makes a path normal, and leaves it alone when it is.
LEMMA PlainlyNormal ==
  ASSUME NEW p \in Clear
  PROVE  /\ Plainly(p) \in Seq(Normal \union {"/"})
         /\ p \in Seq(Normal \union {"/"}) => Plainly(p) = p
<1> DEFINE N == Len(p)
<1>1. N \in Nat /\ DOMAIN p = 1 .. N /\ \A i \in 1 .. N : p[i] \in Safe \union {"/"}
  BY DEF Clear
<1>2. Plainly(p) = [i \in 1 .. N |-> IF Decoded(p[i]) \in {"/", "\\"} THEN p[i] ELSE Decoded(p[i])]
  BY <1>1 DEF Plainly
<1>3. \A i \in 1 .. N : (IF Decoded(p[i]) \in {"/", "\\"} THEN p[i] ELSE Decoded(p[i])) \in Normal \union {"/"}
  BY <1>1, NormalTokens
<1>4. Plainly(p) \in Seq(Normal \union {"/"})
  <2> HIDE DEF N
  <2> QED BY <1>1, <1>2, <1>3
<1>5. ASSUME p \in Seq(Normal \union {"/"}) PROVE Plainly(p) = p
  <2>1. \A i \in 1 .. N : p[i] \in Normal \union {"/"}
    BY <1>5
  <2>2. \A i \in 1 .. N : (IF Decoded(p[i]) \in {"/", "\\"} THEN p[i] ELSE Decoded(p[i])) = p[i]
    BY <1>1, <2>1, NormalTokens
  <2>3. p = [i \in 1 .. N |-> p[i]]
    BY <1>1 DEF Clear
  <2> HIDE DEF N
  <2> QED BY <1>2, <2>2, <2>3
<1> QED BY <1>4, <1>5

\* What a path names has normal names, and joined they name the same.
LEMMA ResourceNormal ==
  ASSUME NEW p \in Clear
  PROVE  Resource(p) \in Seq(Names(Normal))
<1>1. Plainly(p) \in Seq(Normal \union {"/"})
  BY PlainlyNormal
<1>2. CleanSegments(Plainly(p)) = Resource(p)
  BY <1>1, CleanIsResource
<1> QED BY <1>1, <1>2, CleanSegmentsType

\* What names are joined to names them.
LEMMA ResourceOfJoin ==
  ASSUME NEW R \in Seq(Names(Normal))
  PROVE  Join(R) \in Clear /\ Resource(Join(R)) = R
<1>1. Join(R) \in Seq(Normal \union {"/"})
  BY JoinType
<1>2. Join(R) \in Clear
  BY <1>1 DEF Clear, Normal
<1>3. Plainly(Join(R)) = Join(R)
  BY <1>1, <1>2, PlainlyNormal
<1>4. CleanSegments(Join(R)) = Resource(Join(R))
  BY <1>1, <1>3, CleanIsResource
<1>5. CASE R = <<>>
  <2>1. Join(R) = <<"/">>
    BY <1>5, JoinType
  <2> QED BY <1>2, <1>4, <1>5, <2>1, NoSegments
<1>6. CASE R # <<>>
  <2>1. "/" \notin Normal
    BY DEF Normal, Safe
  <2>2. CleanSegments(Join(R)) = R
    BY <1>6, <2>1, JoinedIsClean
  <2> QED BY <1>2, <1>4, <2>2
<1> QED BY <1>2, <1>4, <1>5, <1>6

\* The canonical path of a canonical path is the same.
LEMMA PathTwice ==
  ASSUME NEW p \in Clear, ~EndsEncoded(p)
  PROVE  LET c == CanonicalPath(p) IN c \in Clear /\ CanonicalPath(c) = c /\ (c = <<"/">> \/ ~EndsInSlash(Unescape(c)))
<1> DEFINE R == Resource(p)
           c == Join(R)
<1>1. R \in Seq(Names(Normal)) /\ CanonicalPath(p) = c
  BY ResourceNormal, CanonicalPathExact
<1>2. c \in Clear /\ Resource(c) = R
  <2> HIDE DEF R
  <2> QED BY <1>1, ResourceOfJoin
<1>3. ~EndsEncoded(c)
  <2> HIDE DEF c
  <2> QED BY <1>2 DEF EndsEncoded
<1>4. CanonicalPath(c) = c
  <2>1. CanonicalPath(c) = Join(Resource(c))
    <3> HIDE DEF c
    <3> QED BY <1>2, <1>3, CanonicalPathExact
  <2> QED BY <1>2, <2>1
<1>5. c = <<"/">> \/ ~EndsInSlash(Unescape(c))
  <2>1. CASE R = <<>>
    BY <2>1, <1>1, JoinType
  <2>2. CASE R # <<>>
    <3>1. Last(c) = Last(Last(R)) /\ Last(Last(R)) \in Normal /\ c # <<>>
      <4> HIDE DEF R
      <4> QED BY <1>1, <2>2, JoinType
    <3>2. Last(c) # "%2F"
      BY <2>2, <3>1 DEF EndsEncoded
    <3>3. Decoded(Last(c)) # "/"
      <4> HIDE DEF R, c
      <4> QED BY <3>1, <3>2 DEF Decoded, Escapes, Meaning, Normal, Safe
    <3> HIDE DEF c
    <3> QED BY <1>2, <3>1, <3>3, UnescapedEnd
  <2> QED BY <2>1, <2>2
<1> QED BY <1>1, <1>2, <1>4, <1>5

\* canonicalURL() leaves its results alone.
LEMMA KeyTwice ==
  ASSUME NEW u \in URL, ~EndsEncoded(u.path)
  PROVE  canonicalURL(canonicalURL(u)) = canonicalURL(u)
<1> DEFINE p == u.path
           c == CanonicalPath(p)
           v == canonicalURL(u)
<1>1. p \in Clear
  BY EscapedIsClear DEF URL
<1>2. CanonicalPath(c) = c /\ (c = <<"/">> \/ ~EndsInSlash(Unescape(c)))
  <2> HIDE DEF p
  <2> QED BY <1>1, PathTwice DEF p
<1>3. /\ v.scheme = u.scheme /\ v.host = u.host /\ v.port = CanonicalPort(u)
      /\ v.path = c /\ v.query = CanonicalQuery(u)
  BY DEF canonicalURL
<1>4. CanonicalPort(v) = v.port
  <2> HIDE DEF v
  <2> QED BY <1>3 DEF CanonicalPort
<1>5. CanonicalQuery(v) = v.query
  <2>1. CASE c = <<"/">>
    <3>1. CanonicalQuery(u) = ""
      BY <2>1 DEF CanonicalQuery
    <3>2. CanonicalPath(v.path) = <<"/">>
      BY <1>2, <1>3, <2>1
    <3> HIDE DEF v
    <3> QED BY <1>3, <3>1, <3>2 DEF CanonicalQuery
  <2>2. CASE c # <<"/">>
    <3>1. ~EndsInSlash(Unescape(v.path)) /\ CanonicalPath(v.path) # <<"/">>
      BY <1>2, <1>3, <2>2
    <3> HIDE DEF v
    <3> QED BY <3>1 DEF CanonicalQuery
  <2> QED BY <2>1, <2>2
<1>6. CanonicalPath(v.path) = v.path
  BY <1>2, <1>3
<1> HIDE DEF v
<1>7. canonicalURL(v) = [scheme |-> v.scheme, host |-> v.host, port |-> v.port, path |-> v.path, query |-> v.query]
  BY <1>4, <1>5, <1>6 DEF canonicalURL
<1>8. v = [scheme |-> u.scheme, host |-> u.host, port |-> CanonicalPort(u), path |-> c, query |-> CanonicalQuery(u)]
  BY DEF v, canonicalURL
<1> QED BY <1>3, <1>7, <1>8 DEF v

-----------------------------------------------------------------------------
(* Below the seed.                                                         *)

\* Segments that are joined after others come after a slash.
LEMMA JoinGrows ==
  ASSUME NEW T, NEW segs \in Seq(Seq(T)), NEW g,
         \A n \in 0 .. Len(segs) : g[n] \in Seq(T \union {"/"}),
         \A n \in 1 .. Len(segs) : g[n] = g[n - 1] \o <<"/">> \o segs[n],
         NEW m \in 0 .. Len(segs)
  PROVE  \A n \in m + 1 .. Len(segs) : IsPrefix(Append(g[m], "/"), g[n])
<1> DEFINE N == Len(segs)
           Tok == T \union {"/"}
           J == Append(g[m], "/")
           A == {n \in 0 .. N : n > m => IsPrefix(J, g[n])}
<1>1. N \in Nat /\ m \in 0 .. N /\ \A n \in 1 .. N : segs[n] \in Seq(Tok)
  <2>1. Seq(T) \subseteq Seq(Tok)
    OBVIOUS
  <2>2. \A n \in 1 .. N : segs[n] \in Seq(T)
    OBVIOUS
  <2> QED BY <2>1, <2>2
<1>2. J \in Seq(Tok) /\ g[m] \o <<"/">> = J
  <2> DEFINE a == g[m]
  <2>1. a \in Seq(Tok)
    OBVIOUS
  <2> HIDE DEF a
  <2> QED BY <2>1 DEF a
<1>3. \A n \in 0 .. N : g[n] \in Seq(Tok)
  OBVIOUS
<1>4. \A n \in 1 .. N : g[n] = g[n - 1] \o <<"/">> \o segs[n]
  OBVIOUS
<1> HIDE DEF N, J, Tok
<1>5. 0 \in A
  BY <1>1
<1>6. ASSUME NEW n \in 1 .. N, n - 1 \in A PROVE n \in A
  <2> DEFINE a == g[n - 1]
             s == segs[n]
  <2>1. n - 1 \in 0 .. N /\ n \in 0 .. N
    BY <1>1
  <2>2. a \in Seq(Tok) /\ s \in Seq(Tok) /\ g[n] = a \o <<"/">> \o s
    BY <1>1, <1>3, <1>4, <2>1
  <2>3. <<"/">> \in Seq(Tok)
    BY DEF Tok
  <2> HIDE DEF a, s
  <2>4. a \o <<"/">> \in Seq(Tok)
    BY <2>2, <2>3
  <2>5. CASE n > m + 1
    <3>1. IsPrefix(J, a)
      <4>1. n - 1 > m
        BY <1>1, <2>5
      <4> QED BY <1>6, <4>1 DEF a
    <3>2. IsPrefix(J, a \o <<"/">>)
      BY <1>2, <2>2, <2>3, <3>1, PrefixKept
    <3>3. IsPrefix(J, (a \o <<"/">>) \o s)
      BY <1>2, <2>2, <2>4, <3>2, PrefixKept
    <3>4. (a \o <<"/">>) \o s = a \o <<"/">> \o s
      OBVIOUS
    <3> QED BY <2>1, <2>2, <3>3, <3>4
  <2>6. CASE n = m + 1
    <3>1. a = g[m] /\ a \o <<"/">> = J
      <4>1. n - 1 = m
        BY <1>1, <2>6
      <4> QED BY <1>2, <4>1 DEF a
    <3>2. IsPrefix(J, J)
      BY <1>2, PrefixIs
    <3>3. IsPrefix(J, J \o s)
      BY <1>2, <2>2, <3>2, PrefixKept
    <3> QED BY <2>1, <2>2, <3>1, <3>3
  <2>7. CASE n <= m
    BY <1>1, <2>1, <2>7
  <2> QED BY <1>1, <2>5, <2>6, <2>7
<1>7. 0 .. N \subseteq A
  <2> HIDE DEF A
  <2> QED BY <1>1, <1>5, <1>6, SetInduction
<1>8. \A n \in m + 1 .. N : n \in A /\ n > m
  BY <1>1, <1>7
<1> QED BY <1>8 DEF N, J

\* A joined path starts with a slash.
LEMMA JoinStarts ==
  ASSUME NEW T, NEW R \in Seq(Names(T))
  PROVE  IsPrefix(<<"/">>, Join(R))
<1>1. CASE R = <<>>
  <2>1. Join(R) = <<"/">> /\ <<"/">> \in Seq({"/"})
    BY <1>1 DEF Join
  <2> DEFINE s == <<"/">>
  <2>2. s \in Seq({"/"})
    BY <2>1
  <2> HIDE DEF s
  <2>3. IsPrefix(s, s)
    BY <2>2, PrefixIs
  <2> QED BY <2>1, <2>3 DEF s
<1>2. CASE R # <<>>
  <2>1. R \in Seq(Seq(T)) /\ 0 \in 0 .. Len(R) /\ Len(R) \in 0 + 1 .. Len(R)
    <3>1. Names(T) \subseteq Seq(T)
      BY DEF Names
    <3> QED BY <1>2, <3>1
  <2>2. PICK g : /\ R # <<>> => Join(R) = g[Len(R)]
                 /\ g[0] = <<>>
                 /\ \A n \in 0 .. Len(R) : g[n] \in Seq(T \union {"/"})
                 /\ \A n \in 1 .. Len(R) : g[n] = g[n - 1] \o <<"/">> \o R[n]
    BY <2>1, JoinSteps
  <2>3. IsPrefix(Append(g[0], "/"), g[Len(R)])
    BY <2>1, <2>2, JoinGrows
  <2>4. Append(<<>>, "/") = <<"/">>
    OBVIOUS
  <2> QED BY <1>2, <2>2, <2>3, <2>4
<1> QED BY <1>1, <1>2

\* Names are segments.
LEMMA NamesAreSegments ==
  ASSUME NEW T, NEW R \in Seq(Names(T))
  PROVE  R \in Seq(Seq(T))
<1>1. Names(T) \subseteq Seq(T)
  BY DEF Names
<1> QED BY <1>1

\* Only the same names are joined to the same path.
LEMMA JoinedOnce ==
  ASSUME NEW T, "/" \notin T, NEW A \in Seq(Names(T)), NEW B \in Seq(Names(T)),
         Join(A) = Join(B)
  PROVE  A = B
<1> DEFINE a == Join(A)
           b == Join(B)
<1>1. /\ A = <<>> => a = <<"/">> /\ Len(a) = 1
      /\ A # <<>> => Len(a) > 1
      /\ B = <<>> => b = <<"/">> /\ Len(b) = 1
      /\ B # <<>> => Len(b) > 1
      /\ a = b
  <2>1. Len(<<"/">>) = 1
    OBVIOUS
  <2> QED BY <2>1, JoinType
<1> HIDE DEF a, b
<1>3. CASE A = <<>> \/ B = <<>>
  <2>1. ~(Len(a) = 1 /\ Len(a) > 1)
    <3>1. a \in Seq(T \union {"/"})
      BY JoinType DEF a
    <3>2. Len(a) \in Nat
      BY <3>1
    <3>3. \A n \in Nat : ~(n = 1 /\ n > 1)
      OBVIOUS
    <3> QED BY <3>2, <3>3
  <2>2. A = <<>> /\ B = <<>>
    BY ZenonT(20), <1>1, <1>3, <2>1
  <2> QED BY <2>2
<1>2. CASE A # <<>> /\ B # <<>>
  <2>1. CleanSegments(Join(A)) = A /\ CleanSegments(Join(B)) = B
    BY <1>2, JoinedIsClean
  <2> QED BY <2>1
<1> QED BY <1>2, <1>3

\* A path that goes on with a slash after a joined one has more segments.
LEMMA JoinedBelow ==
  ASSUME NEW T, "/" \notin T, NEW A \in Seq(Names(T)), A # <<>>, NEW B \in Seq(Names(T)),
         IsPrefix(Append(Join(A), "/"), Join(B))
  PROVE  IsPrefix(A, B)
<1> DEFINE Tok == T \union {"/"}
           a == Join(A)
           b == Join(B)
           J == Append(a, "/")
           P == Segments(a)
<1>1. A \in Seq(Seq(T)) /\ B \in Seq(Seq(T)) /\ Len(A) \in Nat /\ Len(B) \in Nat
  BY NamesAreSegments
<1>2. /\ a \in Seq(Tok) /\ b \in Seq(Tok) /\ Len(a) > 1 /\ Len(a) \in Nat
      /\ B = <<>> => b = <<"/">>
  <2>1. a \in Seq(Tok) /\ b \in Seq(Tok) /\ Len(a) > 1 /\ (B = <<>> => b = <<"/">>)
    BY JoinType
  <2> HIDE DEF a
  <2> QED BY <2>1
<1>3. /\ Len(P) = Len(A) + 1 /\ P[1] = <<>> /\ \A k \in 1 .. Len(A) : P[k + 1] = A[k]
  BY <1>1, JoinedApart
<1>4. P \in SomeSegs(T) /\ P \in Seq(Seq(T))
  <2> HIDE DEF a
  <2> QED BY <1>2, SegmentsType DEF SomeSegs
<1>5. IsPrefix(J, b)
  OBVIOUS
<1> HIDE DEF a, b
<1>6. J \in Seq(Tok) /\ Len(J) = Len(a) + 1
  BY <1>2
<1>7. Segments(J) = Append(P, <<>>)
  <2>1. Segments(J) = AddToken(P, "/")
    BY <1>2, SegmentsAppend
  <2> QED BY <1>4, <2>1, AddTokenType
<1>8. /\ Len(Segments(J)) = Len(P) + 1 /\ \A i \in 1 .. Len(P) : Segments(J)[i] = P[i]
  <2>1. <<>> \in Seq(T)
    OBVIOUS
  <2> HIDE DEF P
  <2> QED BY <1>4, <1>7, <2>1, AppendParts
<1>9. PICK w \in Seq(Tok) : b = J \o w
  <2> HIDE DEF J
  <2> QED BY <1>2, <1>5, <1>6, PrefixRest
<1>10. B # <<>>
  <2>1. Len(b) >= Len(J) /\ Len(<<"/">>) = 1
    <3> HIDE DEF J
    <3> QED BY <1>2, <1>5, <1>6, PrefixIs
  <2> QED BY <1>2, <1>6, <2>1
<1>11. /\ Len(Segments(b)) = Len(B) + 1 /\ \A k \in 1 .. Len(B) : Segments(b)[k + 1] = B[k]
  BY <1>1, <1>10, JoinedApart DEF b
<1>12. /\ Len(Segments(J)) <= Len(Segments(b))
       /\ \A i \in 1 .. Len(Segments(J)) - 1 : Segments(b)[i] = Segments(J)[i]
  <2> HIDE DEF J
  <2> QED BY <1>6, <1>9, SegmentsPrefix
<1> HIDE DEF J, P
<1>13. Len(A) <= Len(B)
  BY <1>1, <1>3, <1>8, <1>11, <1>12
<1>14. \A k \in 1 .. Len(A) : A[k] = B[k]
  <2> SUFFICES ASSUME NEW k \in 1 .. Len(A) PROVE A[k] = B[k]
    OBVIOUS
  <2>1. k + 1 \in 1 .. Len(P) /\ k + 1 \in 1 .. Len(Segments(J)) - 1 /\ k \in 1 .. Len(B)
    BY <1>1, <1>3, <1>8, <1>13
  <2> QED BY <1>3, <1>8, <1>11, <1>12, <2>1
<1> QED BY <1>1, <1>13, <1>14, PrefixIs

\* More names are joined to a path that goes on with a slash.
LEMMA BelowJoined ==
  ASSUME NEW T, "/" \notin T, NEW A \in Seq(Names(T)), A # <<>>, NEW B \in Seq(Names(T)),
         IsPrefix(A, B)
  PROVE  Join(B) = Join(A) \/ IsPrefix(Append(Join(A), "/"), Join(B))
<1>1. A \in Seq(Seq(T)) /\ B \in Seq(Seq(T))
  BY NamesAreSegments
<1>2. Len(A) \in Nat \ {0} /\ Len(B) \in Nat /\ Len(A) <= Len(B) /\ \A i \in 1 .. Len(A) : A[i] = B[i]
  BY <1>1, PrefixIs
<1>3. B # <<>>
  BY <1>2
<1>4. PICK g : /\ B # <<>> => Join(B) = g[Len(B)]
               /\ g[0] = <<>>
               /\ \A n \in 0 .. Len(B) : g[n] \in Seq(T \union {"/"})
               /\ \A n \in 1 .. Len(B) : g[n] = g[n - 1] \o <<"/">> \o B[n]
  BY <1>1, JoinSteps
<1>5. PICK h : /\ A # <<>> => Join(A) = h[Len(A)]
               /\ h[0] = <<>>
               /\ \A n \in 0 .. Len(A) : h[n] \in Seq(T \union {"/"})
               /\ \A n \in 1 .. Len(A) : h[n] = h[n - 1] \o <<"/">> \o A[n]
  BY <1>1, JoinSteps
<1>6. \A n \in 0 .. Len(A) : g[n] = h[n]
  <2>1. \A n \in 1 .. Len(A) : g[n - 1] = h[n - 1] => g[n] = h[n]
    <3> SUFFICES ASSUME NEW n \in 1 .. Len(A), g[n - 1] = h[n - 1] PROVE g[n] = h[n]
      OBVIOUS
    <3>1. n \in 1 .. Len(B) /\ A[n] = B[n]
      BY <1>2
    <3>2. g[n] = g[n - 1] \o <<"/">> \o B[n] /\ h[n] = h[n - 1] \o <<"/">> \o A[n]
      BY <1>4, <1>5, <3>1
    <3> QED BY <3>1, <3>2
  <2>2. g[0] = h[0] /\ Len(A) \in Nat
    BY <1>2, <1>4, <1>5
  <2> QED BY <2>1, <2>2, SameSteps
<1>7. g[Len(A)] = Join(A) /\ Join(B) = g[Len(B)]
  <2>1. Len(A) \in 0 .. Len(A)
    BY <1>2
  <2> QED BY <1>3, <1>4, <1>5, <1>6, <2>1
<1>8. CASE Len(A) = Len(B)
  BY <1>7, <1>8
<1>9. CASE Len(A) # Len(B)
  <2>1. Len(A) \in 0 .. Len(B) /\ Len(B) \in Len(A) + 1 .. Len(B)
    BY <1>2, <1>9
  <2>2. IsPrefix(Append(g[Len(A)], "/"), g[Len(B)])
    BY <1>1, <1>4, <2>1, JoinGrows
  <2> QED BY <1>7, <2>2
<1> QED BY <1>8, <1>9

\* The tokens of a normal path without an escaped slash; no two are decoded to one.
Unslashed == Normal \ {"%2F"}

\* Such tokens are told apart after they are decoded.
LEMMA DecodedOnce ==
  ASSUME NEW t \in Unslashed \union {"/"}, NEW r \in Unslashed \union {"/"}, Decoded(t) = Decoded(r)
  PROVE  t = r
<1>1. Decoded("%61") = "a" /\ Decoded("%2E") = "." /\ Decoded("%2F") = "/" /\ Decoded("%5C") = "\\"
  BY DEF Decoded, Escapes, Meaning
<1>2. ASSUME NEW e \in Unslashed \union {"/"}
      PROVE  \/ e = "%5C" /\ Decoded(e) = "\\"
             \/ e # "%5C" /\ Decoded(e) = e /\ e # "\\"
  <2>1. CASE e \in Escapes
    BY <1>1, <1>2, <2>1 DEF Escapes, Unslashed, Normal, Unreserved
  <2>2. CASE e \notin Escapes
    <3>1. Decoded(e) = e /\ e # "%5C"
      BY <2>2 DEF Decoded, Escapes
    <3> QED BY <3>1, <1>2 DEF Unslashed, Normal, Safe
  <2> QED BY <2>1, <2>2
<1> QED BY <1>2

\* Unescaping decodes every token.
LEMMA UnescapeEach ==
  ASSUME NEW S, NEW x \in Seq(S)
  PROVE  /\ Len(Unescape(x)) = Len(x) /\ \A i \in 1 .. Len(x) : Unescape(x)[i] = Decoded(x[i])
         /\ Unescape(x) \in Seq({Decoded(t) : t \in S})
<1>1. Unescape(x) = [i \in 1 .. Len(x) |-> Decoded(x[i])]
  BY DEF Unescape
<1>2. \A i \in 1 .. Len(x) : Decoded(x[i]) \in {Decoded(t) : t \in S}
  OBVIOUS
<1> QED BY <1>1, <1>2

\* Paths of such tokens are compared unescaped as they are escaped.
LEMMA UnescapedPrefix ==
  ASSUME NEW x \in Seq(Unslashed \union {"/"}), NEW y \in Seq(Unslashed \union {"/"})
  PROVE  /\ Unescape(x) = Unescape(y) <=> x = y
         /\ IsPrefix(Unescape(x), Unescape(y)) <=> IsPrefix(x, y)
         /\ Append(Unescape(x), "/") = Unescape(Append(x, "/"))
<1> DEFINE F == Unslashed \union {"/"}
           D == {Decoded(t) : t \in F}
           X == Unescape(x)
           Y == Unescape(y)
<1>1. /\ X \in Seq(D) /\ Len(X) = Len(x) /\ \A i \in 1 .. Len(x) : X[i] = Decoded(x[i])
      /\ Y \in Seq(D) /\ Len(Y) = Len(y) /\ \A i \in 1 .. Len(y) : Y[i] = Decoded(y[i])
  BY UnescapeEach
<1>2. x \in Seq(F) /\ y \in Seq(F) /\ Len(x) \in Nat /\ Len(y) \in Nat
  OBVIOUS
<1>3. \A t \in F, r \in F : Decoded(t) = Decoded(r) => t = r
  BY DecodedOnce
<1>4. Append(X, "/") = Unescape(Append(x, "/"))
  <2> DEFINE z == Append(x, "/")
             Z == Unescape(z)
  <2>1. z \in Seq(F) /\ Len(z) = Len(x) + 1 /\ z[Len(x) + 1] = "/" /\ \A i \in 1 .. Len(x) : z[i] = x[i]
    OBVIOUS
  <2> HIDE DEF z, F
  <2>2. Z \in Seq(D) /\ Len(Z) = Len(z) /\ \A i \in 1 .. Len(z) : Z[i] = Decoded(z[i])
    BY <2>1, UnescapeEach
  <2>3. Decoded("/") = "/" /\ "/" \in D
    <3>1. Decoded("/") = "/"
      BY DEF Decoded, Escapes
    <3> QED BY <3>1 DEF F
  <2> HIDE DEF X, Z, D
  <2>4. /\ Append(X, "/") \in Seq(D) /\ Len(Append(X, "/")) = Len(X) + 1
        /\ Append(X, "/")[Len(X) + 1] = "/" /\ \A i \in 1 .. Len(X) : Append(X, "/")[i] = X[i]
    BY <1>1, <2>3, AppendParts
  <2> DEFINE W == Append(X, "/")
  <2> HIDE DEF W
  <2>5. Len(W) = Len(Z) /\ \A i \in 1 .. Len(Z) : W[i] = Z[i]
    <3> SUFFICES ASSUME NEW i \in 1 .. Len(Z) PROVE Len(W) = Len(Z) /\ W[i] = Z[i]
      BY <1>1, <1>2, <2>1, <2>2, <2>4 DEF W
    <3>1. Len(W) = Len(Z)
      BY <1>1, <2>1, <2>2, <2>4 DEF W
    <3>2. CASE i = Len(x) + 1
      BY <1>1, <1>2, <2>1, <2>2, <2>3, <2>4, <3>2 DEF W
    <3>3. CASE i # Len(x) + 1
      <4>1. i \in 1 .. Len(x) /\ i \in 1 .. Len(z)
        BY <1>2, <2>1, <2>2, <3>3
      <4> QED BY <1>1, <2>1, <2>2, <2>4, <3>1, <4>1 DEF W
    <3> QED BY <3>1, <3>2, <3>3
  <2>6. W = Z
    BY <2>2, <2>4, <2>5, SeqsEqual DEF W
  <2> QED BY <2>6 DEF W, Z, z
<1> HIDE DEF X, Y, F, D
<1>5. IsPrefix(X, Y) => IsPrefix(x, y)
  <2> SUFFICES ASSUME IsPrefix(X, Y) PROVE IsPrefix(x, y)
    OBVIOUS
  <2>1. Len(X) <= Len(Y) /\ \A i \in 1 .. Len(X) : X[i] = Y[i]
    BY <1>1, PrefixIs
  <2>2. \A i \in 1 .. Len(x) : x[i] = y[i]
    <3> SUFFICES ASSUME NEW i \in 1 .. Len(x) PROVE x[i] = y[i]
      OBVIOUS
    <3>1. i \in 1 .. Len(y)
      BY <1>1, <1>2, <2>1
    <3>2. Decoded(x[i]) = Decoded(y[i])
      BY <1>1, <2>1, <3>1
    <3>3. x[i] \in F /\ y[i] \in F
      BY <1>2, <3>1
    <3> QED BY <1>3, <3>2, <3>3
  <2> QED BY <1>1, <1>2, <2>1, <2>2, PrefixIs
<1>6. IsPrefix(x, y) => IsPrefix(X, Y)
  <2> SUFFICES ASSUME IsPrefix(x, y) PROVE IsPrefix(X, Y)
    OBVIOUS
  <2>1. Len(x) <= Len(y) /\ \A i \in 1 .. Len(x) : x[i] = y[i]
    BY <1>2, PrefixIs
  <2>2. \A i \in 1 .. Len(X) : X[i] = Y[i]
    <3> SUFFICES ASSUME NEW i \in 1 .. Len(x) PROVE X[i] = Y[i]
      BY <1>1
    <3>1. i \in 1 .. Len(y)
      BY <1>2, <2>1
    <3> QED BY <1>1, <2>1, <3>1
  <2> QED BY <1>1, <2>1, <2>2, PrefixIs
<1>7. X = Y => x = y
  <2> SUFFICES ASSUME X = Y PROVE x = y
    OBVIOUS
  <2>1. Len(x) = Len(y)
    BY <1>1
  <2>2. \A i \in 1 .. Len(y) : x[i] = y[i]
    <3> SUFFICES ASSUME NEW i \in 1 .. Len(y) PROVE x[i] = y[i]
      OBVIOUS
    <3>1. Decoded(x[i]) = Decoded(y[i])
      BY <1>1, <2>1
    <3>2. x[i] \in F /\ y[i] \in F
      BY <1>2, <2>1
    <3> QED BY <1>3, <3>1, <3>2
  <2> QED BY <1>2, <2>1, <2>2, SeqsEqual
<1> QED BY <1>4, <1>5, <1>6, <1>7 DEF X, Y

\* A path without an escaped slash names nothing that has one.
LEMMA ResourceUnslashed ==
  ASSUME NEW p \in Clear, ~EncodedSlash(p)
  PROVE  /\ Resource(p) \in Seq(Names(Unslashed)) /\ ~EndsEncoded(p)
         /\ CanonicalPath(p) = Join(Resource(p))
<1> DEFINE N == Len(p)
           q == Plainly(p)
           R == Resource(p)
<1>1. N \in Nat /\ DOMAIN p = 1 .. N /\ \A i \in 1 .. N : p[i] \in Safe \union {"/"} /\ p[i] # "%2F"
  <2>1. \A i \in 1 .. N : p[i] # "%2F"
    BY DEF EncodedSlash, ToSet, Clear
  <2> QED BY <2>1 DEF Clear
<1>2. q \in Seq(Normal \union {"/"}) /\ q = [i \in 1 .. N |-> IF Decoded(p[i]) \in {"/", "\\"} THEN p[i] ELSE Decoded(p[i])]
  <2>1. q \in Seq(Normal \union {"/"})
    BY PlainlyNormal
  <2>2. q = [i \in DOMAIN p |-> IF Decoded(p[i]) \in {"/", "\\"} THEN p[i] ELSE Decoded(p[i])]
    BY DEF Plainly
  <2> HIDE DEF q, N
  <2> QED BY <1>1, <2>1, <2>2
<1>3. ASSUME NEW t \in Safe \union {"/"}, t # "%2F"
      PROVE  (IF Decoded(t) \in {"/", "\\"} THEN t ELSE Decoded(t)) \in Unslashed \union {"/"}
  <2>1. Decoded(t) # "%2F"
    BY <1>3 DEF Decoded, Escapes, Meaning
  <2> QED BY <1>3, <2>1, NormalTokens DEF Unslashed
<1>4. q \in Seq(Unslashed \union {"/"})
  <2> HIDE DEF N
  <2> QED BY <1>1, <1>2, <1>3
<1>5. R \in Seq(Names(Unslashed))
  <2>1. CleanSegments(q) = R
    BY <1>4, CleanIsResource
  <2> HIDE DEF q, R
  <2> QED BY <1>4, <2>1, CleanSegmentsType
<1>6. ~EndsEncoded(p)
  <2> SUFFICES ASSUME R # <<>> PROVE Last(Last(R)) # "%2F"
    BY DEF EndsEncoded
  <2> HIDE DEF R
  <2>1. Last(Last(R)) \in Unslashed
    BY <1>5, JoinType
  <2> QED BY <2>1 DEF Unslashed
<1> QED BY <1>5, <1>6, CanonicalPathExact

\* Only the path without names is the root.
LEMMA RootPath ==
  ASSUME NEW R \in Seq(Names(Unslashed))
  PROVE  Unescape(Join(R)) = <<"/">> <=> R = <<>>
<1>1. Unescape(<<"/">>) = <<"/">> /\ <<"/">> \in Seq(Unslashed \union {"/"}) /\ Len(<<"/">>) = 1
  BY DEF Unescape, Decoded, Escapes
<1> DEFINE x == Join(R)
<1>2. /\ x \in Seq(Unslashed \union {"/"})
      /\ R = <<>> => x = <<"/">>
      /\ R # <<>> => Len(x) > 1
  BY JoinType
<1> DEFINE e == <<"/">>
<1>5. x \in Seq(Unslashed \union {"/"}) /\ e \in Seq(Unslashed \union {"/"}) /\ Unescape(e) = e
  BY <1>1, <1>2
<1>4. R # <<>> => x # e
  <2>1. \A n \in Nat : ~(n = 1 /\ n > 1)
    OBVIOUS
  <2>2. Len(x) \in Nat /\ (R # <<>> => Len(x) > 1) /\ Len(e) = 1
    BY <1>1, <1>2
  <2> HIDE DEF x, e
  <2> QED BY <2>1, <2>2
<1> HIDE DEF x, e
<1>3. Unescape(x) = Unescape(e) <=> x = e
  BY <1>5, UnescapedPrefix
<1> QED BY <1>5, <1>2, <1>3, <1>4 DEF x, e

\* Clear paths are compared by what they name.
LEMMA SubtreeExact ==
  ASSUME NEW p \in EscapedPaths, NEW s \in EscapedPaths, ~EncodedSlash(p), ~EncodedSlash(s)
  PROVE  IsSubPath(At(p), At(s)) <=> Below(p, s)
<1> DEFINE A == Resource(s)
           B == Resource(p)
           a == Join(A)
           b == Join(B)
           path == Unescape(b)
           base == Unescape(a)
           noSlash == IF base = <<"/">> THEN base ELSE TrimSlash(base)
<1>1. Seed \in URL
  BY MirrorAssumption
<1>2. /\ A \in Seq(Names(Unslashed)) /\ B \in Seq(Names(Unslashed))
      /\ CanonicalPath(s) = a /\ CanonicalPath(p) = b
  BY EscapedIsClear, ResourceUnslashed
<1>3. At(p).path = p /\ At(s).path = s /\ At(p).scheme = At(s).scheme /\ At(p).host = At(s).host /\ At(p).port = At(s).port
  BY <1>1 DEF At, URL
<1>4. SameOrigin(canonicalURL(At(p)), canonicalURL(At(s)))
  BY <1>3 DEF SameOrigin, canonicalURL, CanonicalPort
<1>5. canonicalURL(At(p)).path = b /\ canonicalURL(At(s)).path = a
  BY <1>2, <1>3 DEF canonicalURL
<1>6. IsSubPath(At(p), At(s)) <=>
        \/ path = noSlash
        \/ IsPrefix(IF noSlash = <<"/">> THEN noSlash ELSE Append(noSlash, "/"), path)
  BY <1>4, <1>5 DEF IsSubPath
<1>7. Below(p, s) <=> IsPrefix(A, B)
  BY DEF Below
<1> HIDE DEF A, B
<1>8. /\ a \in Seq(Unslashed \union {"/"}) /\ b \in Seq(Unslashed \union {"/"})
      /\ "/" \notin Unslashed
  BY <1>2, JoinType DEF Unslashed, Normal, Safe
<1>9. CASE A = <<>>
  <2>1. a = <<"/">> /\ noSlash = <<"/">>
    BY <1>2, <1>9, JoinType, RootPath
  <2>2. IsPrefix(a, b)
    BY <1>2, <2>1, JoinStarts
  <2>3. IsPrefix(base, path)
    <3> HIDE DEF a, b
    <3> QED BY <1>8, <2>2, UnescapedPrefix
  <2>4. base = <<"/">>
    BY <1>2, <1>9, RootPath
  <2>5. IsPrefix(A, B)
    <3>1. Len(A) = 0 /\ A \in Seq(Names(Unslashed)) /\ B \in Seq(Names(Unslashed)) /\ Len(B) \in Nat
      BY <1>2, <1>9
    <3>2. Len(A) <= Len(B) /\ \A i \in 1 .. Len(A) : A[i] = B[i]
      BY <3>1
    <3> QED BY <3>1, <3>2, PrefixIs
  <2> QED BY <1>6, <1>7, <2>1, <2>3, <2>4, <2>5
<1>10. CASE A # <<>>
  <2>1. base # <<"/">>
    BY <1>2, <1>10, RootPath
  <2>2. ~EndsInSlash(base)
    <3>1. a # <<>> /\ Last(a) = Last(Last(A)) /\ Last(Last(A)) \in Unslashed
      BY <1>2, <1>10, JoinType
    <3>2. a \in Clear
      BY <1>8 DEF Clear, Unslashed, Normal
    <3>3. Decoded(Last(a)) # "/"
      <4> HIDE DEF a
      <4> QED BY <3>1 DEF Unslashed, Normal, Safe, Decoded, Escapes, Meaning
    <3> HIDE DEF a
    <3> QED BY <3>1, <3>2, <3>3, UnescapedEnd
  <2>3. noSlash = base
    BY <2>1, <2>2 DEF TrimSlash
  <2>4. path = base <=> b = a
    <3> HIDE DEF a, b
    <3> QED BY <1>8, UnescapedPrefix
  <2>5. IsPrefix(Append(base, "/"), path) <=> IsPrefix(Append(a, "/"), b)
    <3> HIDE DEF a, b
    <3>1. Append(a, "/") \in Seq(Unslashed \union {"/"})
      BY <1>8
    <3>2. Append(base, "/") = Unescape(Append(a, "/"))
      BY <1>8, UnescapedPrefix
    <3> DEFINE J == Append(a, "/")
    <3> HIDE DEF J
    <3>3. IsPrefix(Unescape(J), Unescape(b)) <=> IsPrefix(J, b)
      BY <1>8, <3>1, UnescapedPrefix DEF J
    <3>4. Append(base, "/") = Unescape(J)
      BY <3>2 DEF J
    <3> QED BY <3>3, <3>4 DEF J
  <2>6. (b = a \/ IsPrefix(Append(a, "/"), b)) <=> IsPrefix(A, B)
    <3>1. ASSUME b = a PROVE IsPrefix(A, B)
      <4>1. B = A
        BY <1>2, <1>8, <3>1, JoinedOnce
      <4> QED BY <1>2, <4>1, PrefixIs
    <3>2. ASSUME IsPrefix(Append(a, "/"), b) PROVE IsPrefix(A, B)
      BY <1>2, <1>8, <1>10, <3>2, JoinedBelow
    <3>3. ASSUME IsPrefix(A, B) PROVE b = a \/ IsPrefix(Append(a, "/"), b)
      BY <1>2, <1>8, <1>10, <3>3, BelowJoined
    <3> QED BY <3>1, <3>2, <3>3
  <2> HIDE DEF base, path
  <2> QED BY <1>6, <1>7, <2>1, <2>3, <2>4, <2>5, <2>6
<1> QED BY <1>9, <1>10

\* An SFTPGo entry for another host is skipped.
LEMMA SftpgoStays ==
  ASSUME NEW e \in SftpgoEntries({Seed.host, "other"})
  PROVE  SftpgoHosts(e, Seed.host, FALSE) \subseteq {Seed.host}
  BY DEF SftpgoEntries, SftpgoHosts

\* IsSubPath() accepts what is at or below the seed and nothing else, for paths of any length
\* and any escaping but an escaped slash; and an SFTPGo entry leads to no other host.
THEOREM SubtreeIsExact == MirrorSpec => []SubtreeOnly
<1>1. SubtreeOnly
  BY MirrorAssumption, SubtreeExact, SftpgoStays DEF SubtreeOnly
<1> QED BY <1>1, PTL

-----------------------------------------------------------------------------
(* The file of a URL.                                                      *)

\* A token is added to the last segment, whatever comes before.
LEMMA AddTokenBehind ==
  ASSUME NEW T, NEW a \in Seq(Seq(T)), NEW b \in SomeSegs(T), NEW t \in T \union {"/"}
  PROVE  AddToken(a \o b, t) = a \o AddToken(b, t)
<1> DEFINE c == a \o b
           d == AddToken(b, t)
           x == AddToken(c, t)
           y == a \o d
<1>1. b \in Seq(Seq(T)) /\ Len(b) \in Nat \ {0} /\ Len(a) \in Nat
  BY DEF SomeSegs
<1>2. /\ c \in Seq(Seq(T)) /\ Len(c) = Len(a) + Len(b)
      /\ \A i \in 1 .. Len(a) : c[i] = a[i]
      /\ \A i \in 1 .. Len(b) : c[Len(a) + i] = b[i]
  BY <1>1, ConcatAll
<1>3. c \in SomeSegs(T)
  <2> HIDE DEF c
  <2>1. Len(c) # 0
    BY <1>1, <1>2
  <2> QED BY <1>2, <2>1 DEF SomeSegs
<1>4. CASE t = "/"
  <2>1. x = Append(c, <<>>) /\ d = Append(b, <<>>)
    <3> HIDE DEF c
    <3> QED BY <1>3, <1>4, AddTokenType
  <2>2. <<>> \in Seq(T)
    OBVIOUS
  <2>3. \A e \in Seq(T) : Append(a \o b, e) = a \o Append(b, e)
    <3> DEFINE V == Seq(T)
    <3>1. a \in Seq(V) /\ b \in Seq(V)
      BY <1>1
    <3> HIDE DEF V
    <3>2. \A e \in V : Added(Behind(a, b), e) = Behind(a, Added(b, e))
      BY <3>1, AddedBehind
    <3> QED BY <3>2 DEF V, Added, Behind
  <2> QED BY <2>1, <2>2, <2>3
<1>5. CASE t # "/"
  <2>1. /\ d \in Seq(Seq(T)) /\ Len(d) = Len(b) /\ d[Len(b)] = Append(b[Len(b)], t)
        /\ \A i \in 1 .. Len(b) - 1 : d[i] = b[i]
    <3>1. /\ d \in SomeSegs(T) /\ Len(d) = Len(b) /\ d[Len(b)] = Append(b[Len(b)], t)
          /\ \A i \in 1 .. Len(b) - 1 : d[i] = b[i]
      BY <1>5, AddTokenType
    <3> QED BY <3>1 DEF SomeSegs
  <2>2. /\ x \in Seq(Seq(T)) /\ Len(x) = Len(c) /\ x[Len(c)] = Append(c[Len(c)], t)
        /\ \A i \in 1 .. Len(c) - 1 : x[i] = c[i]
    <3> HIDE DEF c
    <3>1. /\ AddToken(c, t) \in SomeSegs(T) /\ Len(AddToken(c, t)) = Len(c)
          /\ AddToken(c, t)[Len(c)] = Append(c[Len(c)], t)
          /\ \A i \in 1 .. Len(c) - 1 : AddToken(c, t)[i] = c[i]
      BY <1>3, <1>5, AddTokenType
    <3> QED BY <3>1 DEF SomeSegs
  <2>3. /\ y \in Seq(Seq(T)) /\ Len(y) = Len(a) + Len(d)
        /\ \A i \in 1 .. Len(a) : y[i] = a[i]
        /\ \A i \in 1 .. Len(d) : y[Len(a) + i] = d[i]
    <3> HIDE DEF d
    <3>1. d \in Seq(Seq(T))
      BY <2>1
    <3> QED BY <3>1, ConcatAll
  <2>4. ASSUME NEW i \in 1 .. Len(y) PROVE x[i] = y[i]
    <3>3. Len(y) = Len(a) + Len(b) /\ Len(c) = Len(a) + Len(b)
      <4> HIDE DEF c, d, x, y
      <4> QED BY <1>2, <2>1, <2>3
    <3> HIDE DEF c, d, x, y
    <3>1. CASE i <= Len(a)
      <4>1. i \in 1 .. Len(a) /\ i \in 1 .. Len(c) - 1
        BY <1>1, <3>1, <3>3
      <4> QED BY <1>2, <2>2, <2>3, <4>1
    <3>2. CASE i > Len(a)
      <4>1. PICK j \in 1 .. Len(b) : i = Len(a) + j
        <5>1. i - Len(a) \in 1 .. Len(b) /\ i = Len(a) + (i - Len(a))
          BY <1>1, <3>2, <3>3
        <5> QED BY <5>1
      <4>2. y[i] = d[j] /\ c[i] = b[j]
        BY <1>2, <2>1, <2>3, <4>1
      <4>3. CASE j = Len(b)
        <5>1. i = Len(c)
          BY <3>3, <4>1, <4>3
        <5> QED BY <2>1, <2>2, <4>2, <4>3, <5>1
      <4>4. CASE j # Len(b)
        <5>1. i \in 1 .. Len(c) - 1 /\ j \in 1 .. Len(b) - 1
          BY <1>1, <3>3, <4>1, <4>4
        <5> QED BY <2>1, <2>2, <4>2, <5>1
      <4> QED BY <4>3, <4>4
    <3> QED BY <1>1, <3>1, <3>2
  <2>5. Len(x) = Len(y)
    <3> HIDE DEF c, d, x, y
    <3> QED BY <1>2, <2>1, <2>2, <2>3
  <2> HIDE DEF x, y
  <2>6. x = y
    BY <2>2, <2>3, <2>4, <2>5, SeqsEqual
  <2> QED BY <2>6 DEF x, y
<1> QED BY <1>4, <1>5

\* A path is taken apart at every slash.
LEMMA SegmentsBetween ==
  ASSUME NEW T, NEW x \in Seq(T \union {"/"}), NEW w \in Seq(T \union {"/"})
  PROVE  Segments(Append(x, "/") \o w) = Segments(x) \o Segments(w)
<1> DEFINE Tok == T \union {"/"}
           N == Len(w)
           J == Append(x, "/")
           S == Segments(x)
           W(n) == SubSeq(w, 1, n)
           A == {n \in 0 .. N : Segments(J \o W(n)) = S \o Segments(W(n))}
<1>1. N \in Nat /\ S \in SomeSegs(T) /\ S \in Seq(Seq(T))
  BY SegmentsType DEF SomeSegs
<1>2. J \in Seq(Tok)
  OBVIOUS
<1>3. W(N) = w /\ W(0) = <<>>
  BY EndParts
<1>4. \A n \in 0 .. N : W(n) \in Seq(Tok)
  BY EndParts
<1>5. \A n \in 1 .. N : W(n) = Append(W(n - 1), w[n]) /\ w[n] \in Tok
  BY EndParts
<1>6. Segments(J) = Append(S, <<>>) /\ J \o <<>> = J
  <2>1. Segments(J) = AddToken(S, "/")
    BY SegmentsAppend
  <2> HIDE DEF J, S
  <2> QED BY <1>1, <1>2, <2>1, AddTokenType
<1>7. Segments(<<>>) = << <<>> >>
  <2>1. <<>> \in Seq(T \union {"/"}) /\ Len(<<>>) = 0
    OBVIOUS
  <2> QED BY <2>1, SegmentsSteps
<1> HIDE DEF N, J, S, W
<1>8. 0 \in A
  <2>1. S \o << <<>> >> = Append(S, <<>>)
    BY <1>1
  <2>2. Segments(J \o W(0)) = S \o Segments(W(0))
    BY <1>3, <1>6, <1>7, <2>1
  <2> QED BY <1>1, <2>2
<1>9. ASSUME NEW n \in 1 .. N, n - 1 \in A PROVE n \in A
  <2>1. n - 1 \in 0 .. N /\ n \in 0 .. N
    BY <1>1
  <2> DEFINE v == W(n - 1)
             t == w[n]
  <2>2. v \in Seq(Tok) /\ t \in Tok /\ W(n) = Append(v, t)
    BY <1>4, <1>5, <2>1
  <2>3. Segments(J \o v) = S \o Segments(v)
    BY <1>9
  <2> HIDE DEF v, t
  <2>4. J \o W(n) = Append(J \o v, t) /\ J \o v \in Seq(Tok)
    <3>1. J \o v \in Seq(Tok)
      BY <1>2, <2>2
    <3> QED BY <1>2, <2>2, <3>1, ConcatAppend
  <2>5. Segments(J \o W(n)) = AddToken(Segments(J \o v), t)
    BY <2>2, <2>4, SegmentsAppend
  <2>6. Segments(W(n)) = AddToken(Segments(v), t) /\ Segments(v) \in SomeSegs(T)
    BY <2>2, SegmentsAppend, SegmentsType
  <2>7. AddToken(S \o Segments(v), t) = S \o AddToken(Segments(v), t)
    BY <1>1, <2>2, <2>6, AddTokenBehind
  <2> QED BY <2>1, <2>3, <2>5, <2>6, <2>7
<1>10. N \in A
  <2>1. 0 .. N \subseteq A
    <3> HIDE DEF A
    <3> QED BY <1>1, <1>8, <1>9, SetInduction
  <2> HIDE DEF A
  <2> QED BY <1>1, <2>1
<1> QED BY <1>3, <1>10 DEF J, S

\* A segment of letters is kept, whatever was kept before.
LEMMA KeepBehind ==
  ASSUME NEW T, "." \notin T, NEW a \in Seq(Seq(T)), NEW b \in Seq(Seq(T)), NEW s \in Seq(T)
  PROVE  KeepSegment(a \o b, s) = a \o KeepSegment(b, s)
<1>1. s # Dot /\ s # DotDot
  <2>1. /\ Dot[1] = "." /\ 1 \in 1 .. Len(Dot)
        /\ DotDot[1] = "." /\ 1 \in 1 .. Len(DotDot)
    BY DEF Dot, DotDot
  <2>2. \A i \in 1 .. Len(s) : s[i] \in T
    OBVIOUS
  <2>3. ASSUME NEW d, d[1] = ".", 1 \in 1 .. Len(d) PROVE s # d
    BY <2>2, <2>3
  <2> QED BY <2>1, <2>3
<1>2. CASE s = <<>>
  <2>1. KeepSegment(a \o b, s) = a \o b
    BY <1>1, <1>2 DEF KeepSegment
  <2>2. KeepSegment(b, s) = b
    BY <1>1, <1>2 DEF KeepSegment
  <2> QED BY <2>1, <2>2
<1>3. CASE s # <<>>
  <2>1. KeepSegment(a \o b, s) = Append(a \o b, s) /\ KeepSegment(b, s) = Append(b, s)
    BY <1>1, <1>3 DEF KeepSegment
  <2>2. Append(a \o b, s) = a \o Append(b, s)
    <3> DEFINE V == Seq(T)
    <3>1. a \in Seq(V) /\ b \in Seq(V) /\ s \in V
      OBVIOUS
    <3> HIDE DEF V
    <3>2. Added(Behind(a, b), s) = Behind(a, Added(b, s))
      BY <3>1, AddedBehind
    <3> QED BY <3>2 DEF Added, Behind
  <2> QED BY <2>1, <2>2
<1> QED BY <1>2, <1>3

\* Paths of letters are cleaned on both sides of a slash.
LEMMA CleanBetween ==
  ASSUME NEW T, "." \notin T, NEW x \in Seq(T \union {"/"}), NEW w \in Seq(T \union {"/"})
  PROVE  CleanSegments(Append(x, "/") \o w) = CleanSegments(x) \o CleanSegments(w)
<1> DEFINE y == Append(x, "/") \o w
           S == Segments(x)
           P == Segments(w)
           Q == Segments(y)
           L == Len(S)
           M == Len(P)
<1>1. /\ S \in Seq(Seq(T)) /\ P \in Seq(Seq(T)) /\ L \in Nat /\ M \in Nat
  <2>1. S \in Seq(Seq(T)) /\ P \in Seq(Seq(T))
    BY SegmentsType DEF SomeSegs
  <2> HIDE DEF S, P
  <2> QED BY <2>1
<1>2. Q = S \o P
  BY SegmentsBetween
<1> HIDE DEF S, P, Q
<1>3. /\ Q \in Seq(Seq(T)) /\ Len(Q) = L + M
      /\ \A i \in 1 .. L : Q[i] = S[i]
      /\ \A i \in 1 .. M : Q[L + i] = P[i]
  <2> DEFINE V == Seq(T)
  <2>1. S \in Seq(V) /\ P \in Seq(V)
    BY <1>1
  <2> HIDE DEF V
  <2>2. /\ S \o P \in Seq(V) /\ Len(S \o P) = Len(S) + Len(P)
        /\ \A i \in 1 .. Len(S) : (S \o P)[i] = S[i]
        /\ \A i \in 1 .. Len(P) : (S \o P)[Len(S) + i] = P[i]
    BY <2>1, ConcatAll
  <2> QED BY <1>2, <2>2 DEF V
<1> HIDE DEF y
<1>4. PICK g : /\ CleanSegments(y) = g[Len(Q)] /\ g[0] = <<>>
               /\ \A n \in 0 .. Len(Q) : g[n] \in Seq(Names(T))
               /\ \A n \in 1 .. Len(Q) : g[n] = KeepSegment(g[n - 1], Q[n])
  <2>1. Q = Segments(y)
    BY DEF Q
  <2>2. Q \in Seq(Seq(T))
    BY <1>3
  <2> QED BY <2>1, <2>2, CleanSegmentsSteps
<1>5. PICK h : /\ CleanSegments(x) = h[L] /\ h[0] = <<>>
               /\ \A n \in 0 .. L : h[n] \in Seq(Names(T))
               /\ \A n \in 1 .. L : h[n] = KeepSegment(h[n - 1], S[n])
  <2>1. S = Segments(x)
    BY DEF S
  <2>2. S \in Seq(Seq(T))
    BY <1>1
  <2> QED BY <2>1, <2>2, CleanSegmentsSteps
<1>6. PICK k : /\ CleanSegments(w) = k[M] /\ k[0] = <<>>
               /\ \A n \in 0 .. M : k[n] \in Seq(Names(T))
               /\ \A n \in 1 .. M : k[n] = KeepSegment(k[n - 1], P[n])
  <2>1. P = Segments(w)
    BY DEF P
  <2> QED BY <1>1, <2>1, CleanSegmentsSteps
<1> HIDE DEF Q, L, M
<1>7. \A n \in 0 .. L : g[n] = h[n]
  <2>1. \A n \in 1 .. L : g[n - 1] = h[n - 1] => g[n] = h[n]
    <3> SUFFICES ASSUME NEW n \in 1 .. L, g[n - 1] = h[n - 1] PROVE g[n] = h[n]
      OBVIOUS
    <3>1. n \in 1 .. Len(Q)
      BY <1>1, <1>3
    <3> QED BY <1>3, <1>4, <1>5, <3>1
  <2>2. g[0] = h[0] /\ L \in Nat
    BY <1>1, <1>4, <1>5
  <2> QED BY <2>1, <2>2, SameSteps
<1> DEFINE a == h[L]
           A == {m \in 0 .. M : g[L + m] = a \o k[m]}
<1>8. a \in Seq(Seq(T)) /\ \A m \in 0 .. M : k[m] \in Seq(Seq(T))
  <2>1. L \in 0 .. L
    BY <1>1
  <2>2. a \in Seq(Names(T))
    BY <1>5, <2>1
  <2> HIDE DEF a
  <2> QED BY <1>6, <2>2, NamesAreSegments
<1>9. a = g[L]
  <2>1. L \in 0 .. L
    BY <1>1
  <2> QED BY <1>7, <2>1
<1> HIDE DEF a
<1>10. 0 \in A
  <2>1. a \o <<>> = a
    BY <1>8, NoneBehind
  <2>2. L + 0 = L /\ 0 \in 0 .. M
    BY <1>1
  <2> QED BY <1>6, <1>9, <2>1, <2>2
<1>11. ASSUME NEW m \in 1 .. M, m - 1 \in A PROVE m \in A
  <2>1. m - 1 \in 0 .. M /\ m \in 0 .. M /\ L + m \in 1 .. Len(Q) /\ (L + m) - 1 = L + (m - 1)
    BY <1>1, <1>3
  <2>2. g[L + m] = KeepSegment(g[L + (m - 1)], P[m])
    <3>1. g[L + m] = KeepSegment(g[(L + m) - 1], Q[L + m]) /\ Q[L + m] = P[m]
      BY <1>3, <1>4, <2>1
    <3> QED BY <2>1, <3>1
  <2>3. g[L + (m - 1)] = a \o k[m - 1]
    BY <1>11
  <2>4. k[m] = KeepSegment(k[m - 1], P[m])
    BY <1>6
  <2> DEFINE b == k[m - 1]
             s == P[m]
  <2>5. b \in Seq(Seq(T)) /\ s \in Seq(T)
    <3>1. m \in 1 .. Len(P)
      BY DEF M
    <3> QED BY <1>1, <1>8, <2>1, <3>1
  <2> HIDE DEF b, s
  <2>6. KeepSegment(a \o b, s) = a \o KeepSegment(b, s)
    BY <1>8, <2>5, KeepBehind
  <2> QED BY <2>1, <2>2, <2>3, <2>4, <2>6 DEF b, s
<1>12. M \in A
  <2>1. 0 .. M \subseteq A
    <3> HIDE DEF A
    <3> QED BY <1>1, <1>10, <1>11, SetInduction
  <2> HIDE DEF A
  <2> QED BY <1>1, <2>1
<1> QED BY <1>3, <1>4, <1>5, <1>6, <1>12 DEF a, y

\* What is below a path is cleaned apart from it.
LEMMA CleanBelow ==
  ASSUME NEW T, "." \notin T, NEW x \in Seq(T \union {"/"}), NEW w \in Seq(T \union {"/"}),
         x = <<>> \/ EndsInSlash(x) \/ w = <<>> \/ w[1] = "/"
  PROVE  CleanSegments(x \o w) = CleanSegments(x) \o CleanSegments(TrimLeadingSlash(w))
<1> DEFINE Tok == T \union {"/"}
           C(p) == CleanSegments(p)
<1>1. <<>> \in Seq(Tok) /\ "/" \in Tok
  OBVIOUS
<1>2. \A p \in Seq(Tok) : C(p) \in Seq(Names(T))
  BY CleanSegmentsType
<1>3. C(<<>>) = <<>>
  BY NoSegments
<1>4. \A p, q \in Seq(Tok) : C(Append(p, "/") \o q) = C(p) \o C(q)
  BY CleanBetween
<1> HIDE DEF C, Tok
<1>5. CASE w = <<>>
  <2>1. x \o w = x /\ TrimLeadingSlash(w) = <<>>
    BY <1>5 DEF TrimLeadingSlash
  <2>2. C(x) \in Seq(Names(T))
    BY <1>2 DEF Tok
  <2>3. C(x) \o <<>> = C(x)
    BY <2>2, NoneBehind
  <2> QED BY <1>3, <2>1, <2>3 DEF C
<1>6. CASE w # <<>> /\ w[1] = "/"
  <2>1. w = <<"/">> \o Tail(w) /\ Tail(w) \in Seq(Tok) /\ TrimLeadingSlash(w) = Tail(w)
    BY <1>6, FirstAndRest DEF TrimLeadingSlash, Tok
  <2> DEFINE v == Tail(w)
  <2> HIDE DEF v
  <2>2. v \in Seq(Tok) /\ w = <<"/">> \o v /\ TrimLeadingSlash(w) = v
    BY <2>1 DEF v
  <2>3. x \o (<<"/">> \o v) = Append(x, "/") \o v
    BY <1>1, <2>2, ConcatOne DEF Tok
  <2>4. C(Append(x, "/") \o v) = C(x) \o C(v)
    BY <1>4, <2>2 DEF Tok
  <2> QED BY <2>2, <2>3, <2>4 DEF C
<1>7. CASE w # <<>> /\ w[1] # "/"
  <2>1. TrimLeadingSlash(w) = w
    BY <1>7 DEF TrimLeadingSlash
  <2>2. CASE x = <<>>
    <3>1. x \o w = w
      BY <2>2
    <3>2. C(w) \in Seq(Names(T))
      BY <1>2 DEF Tok
    <3>3. <<>> \o C(w) = C(w)
      BY <3>2, NoneBehind
    <3> QED BY <1>3, <2>1, <2>2, <3>1, <3>3 DEF C
  <2>3. CASE x # <<>> /\ EndsInSlash(x)
    <3> DEFINE v == Front(x)
    <3>1. v \in Seq(Tok) /\ x = Append(v, "/")
      BY <2>3, FirstAndRest DEF EndsInSlash, Tok
    <3> HIDE DEF v
    <3>2. C(x \o w) = C(v) \o C(w)
      BY <1>4, <3>1 DEF Tok
    <3>3. C(x) = C(v)
      <4>1. C(Append(v, "/") \o <<>>) = C(v) \o C(<<>>)
        BY <1>1, <1>4, <3>1
      <4>2. Append(v, "/") \o <<>> = Append(v, "/")
        BY <3>1 DEF Tok
      <4>3. C(v) \o <<>> = C(v)
        BY <1>2, <3>1, NoneBehind
      <4> QED BY <1>3, <3>1, <4>1, <4>2, <4>3
    <3> QED BY <2>1, <3>2, <3>3 DEF C
  <2> QED BY <1>7, <2>2, <2>3
<1> QED BY <1>5, <1>6, <1>7

\* The tokens of a plain path, unescaped.
Letters == Safe \ {"."}

\* A plain path, unescaped, is made of letters and names what it says.
LEMMA PlainPath ==
  ASSUME NEW u \in Urls, Plain(u)
  PROVE  /\ Unescape(u.path) \in Seq(Letters \union {"/"})
         /\ Resource(u.path) = CleanSegments(Unescape(u.path))
         /\ Resource(u.path) \in Seq(Names(Letters))
<1> DEFINE p == u.path
           N == Len(p)
           x == Unescape(p)
<1>1. p \in EscapedPaths /\ p \in Clear
  BY MirrorAssumption, EscapedIsClear DEF URL
<1>2. N \in Nat /\ DOMAIN p = 1 .. N /\ \A i \in 1 .. N : p[i] \in Safe \union {"/"}
  BY <1>1 DEF Clear
<1>3. x \in Seq(Tokens) /\ Len(x) = N
  BY <1>1, TokensOfPath, UnescapeType
<1>4. x = [i \in 1 .. N |-> Decoded(p[i])]
  BY <1>2 DEF Unescape
<1>5. \A i \in 1 .. N : x[i] \in Letters \union {"/"}
  <2> SUFFICES ASSUME NEW i \in 1 .. N PROVE x[i] \in Letters \union {"/"}
    OBVIOUS
  <2>1. x[i] \in ToSet(x) /\ x[i] \in Tokens
    <3> HIDE DEF x, N
    <3> QED BY <1>3 DEF ToSet
  <2>2. x[i] # "." /\ x[i] # "\\"
    BY <2>1 DEF Plain
  <2> HIDE DEF x
  <2> QED BY <2>1, <2>2 DEF Letters, Safe
<1>6. x \in Seq(Letters \union {"/"})
  <2> HIDE DEF x, N
  <2> QED BY <1>3, <1>5
<1>7. \A i \in 1 .. N : p[i] # "%2F"
  <2>1. "%2F" \notin ToSet(p)
    BY DEF Plain, EncodedSlash
  <2> HIDE DEF p
  <2> QED BY <1>2, <2>1 DEF ToSet
<1>8. Plainly(p) = x
  <2>1. \A i \in 1 .. N : Decoded(p[i]) # "\\"
    BY <1>4, <1>5 DEF Letters, Safe
  <2>2. \A i \in 1 .. N : Decoded(p[i]) = "/" => p[i] = "/"
    <3> SUFFICES ASSUME NEW t \in Safe \union {"/"}, t # "%2F", Decoded(t) = "/" PROVE t = "/"
      BY <1>2, <1>7
    <3> QED BY DEF Decoded, Escapes, Meaning
  <2>3. Plainly(p) = [i \in 1 .. N |-> IF Decoded(p[i]) \in {"/", "\\"} THEN p[i] ELSE Decoded(p[i])]
    BY <1>2 DEF Plainly
  <2>4. \A i \in 1 .. N : (IF Decoded(p[i]) \in {"/", "\\"} THEN p[i] ELSE Decoded(p[i])) = Decoded(p[i])
    BY <2>1, <2>2
  <2> HIDE DEF N, p, x
  <2> QED BY <1>4, <2>3, <2>4
<1>9. CleanSegments(x) = Resource(p)
  <2> HIDE DEF x, p
  <2> QED BY <1>6, <1>8, CleanIsResource
<1>10. CleanSegments(x) \in Seq(Names(Letters))
  <2> HIDE DEF x
  <2> QED BY <1>6, CleanSegmentsType
<1> QED BY <1>6, <1>9, <1>10

\* Without backslashes and dots the relative path is only cleaned.
LEMMA SafeIsClean ==
  ASSUME NEW x \in Seq(Letters \union {"/"})
  PROVE  safeRelativeOutputPath(x) = CleanSegments(x)
<1> DEFINE N == Len(x)
<1>1. N \in Nat /\ DOMAIN x = 1 .. N /\ x = [i \in 1 .. N |-> x[i]]
  OBVIOUS
<1>2. \A i \in 1 .. N : (IF x[i] = "\\" THEN "/" ELSE x[i]) = x[i]
  BY DEF Letters, Safe
<1>3. [i \in DOMAIN x |-> IF x[i] = "\\" THEN "/" ELSE x[i]] = x
  <2> HIDE DEF N
  <2> QED BY <1>1, <1>2
<1> QED BY <1>3 DEF safeRelativeOutputPath

\* Below the seed the file is what follows the seed's names; elsewhere it is all of them.
LEMMA FileOfPlain ==
  ASSUME NEW u \in Urls, Plain(u)
  PROVE  LET rel  == RelativeTo(Unescape(u.path), Unescape(Seed.path))
             base == CleanSegments(Unescape(Seed.path))
         IN  /\ OutputFile(u, Seed) \in Seq(Seq(STRING \union Letters))
             /\ ~rel /\ OutputFile(u, Seed) # <<>> =>
                  OutputFile(u, Seed) = <<HostName(u)>> \o Resource(u.path)
             /\ rel => /\ base \in Seq(Names(Letters)) /\ OutputFile(u, Seed) \in Seq(Names(Letters))
                       /\ Resource(u.path) = base \o OutputFile(u, Seed)
<1> DEFINE p1 == Unescape(u.path)
           p2 == Unescape(Seed.path)
           Tok == Letters \union {"/"}
           out == OutputFile(u, Seed)
           R == Resource(u.path)
           host == HostName(u)
           V == Seq(STRING \union Letters)
<1>1. p1 \in Seq(Tok) /\ R = CleanSegments(p1) /\ R \in Seq(Names(Letters))
  BY PlainPath
<1>2. host \in V /\ HostSegments(u) = <<host>>
  <2>1. u.host \in STRING /\ u.port \in STRING /\ u.host \notin {"", ".", ".."}
    BY MirrorAssumption DEF URL, HostNames, Plain
  <2>2. HostSegments(u) = <<host>>
    BY <2>1 DEF HostSegments
  <2>3. <<u.host>> \in V /\ <<u.host, ":", u.port>> \in V
    <3>1. {u.host, u.port, ":"} \subseteq STRING \union Letters
      BY <2>1 DEF Letters, Safe, Tokens
    <3> QED BY <3>1, ShortType
  <2> QED BY <2>2, <2>3 DEF HostName
<1>3. p2 \in Seq(Tokens)
  BY MirrorAssumption, TokensOfPath, UnescapeType DEF URL
<1>4. out = IF RelativeTo(p1, p2) THEN safeRelativeOutputPath(TrimLeadingSlash(After(p1, Len(p2))))
            ELSE IF safeRelativeOutputPath(p1) = <<>> THEN <<>>
            ELSE <<host>> \o safeRelativeOutputPath(p1)
  BY <1>2 DEF OutputFile
<1>5. Names(Letters) \subseteq V
  BY DEF Names
<1> HIDE DEF p1, p2, out, R, host, V
<1>6. CASE ~RelativeTo(p1, p2)
  <2>1. out = <<>> \/ out = <<host>> \o R
    BY <1>1, <1>4, <1>6, SafeIsClean
  <2>2. out \in Seq(V)
    <3>1. R \in Seq(V) /\ <<host>> \in Seq(V) /\ <<>> \in Seq(V)
      BY <1>1, <1>2, <1>5
    <3>2. <<host>> \o R \in Seq(V)
      BY <3>1
    <3> QED BY <2>1, <3>1, <3>2
  <2> QED BY <1>6, <2>1, <2>2 DEF p1, p2, out, R, host, V
<1>7. CASE RelativeTo(p1, p2)
  <2> DEFINE n == Len(p2)
             w == After(p1, n)
  <2>1. IsPrefix(p2, p1) /\ (p2 = <<>> \/ EndsInSlash(p2) \/ Len(p1) = n \/ p1[n + 1] = "/")
    BY <1>7 DEF RelativeTo
  <2>2. n \in Nat /\ Len(p1) \in Nat /\ n <= Len(p1) /\ p2 = SubSeq(p1, 1, n)
    <3>1. SubSeq(p2, 1, n) = p2
      BY <1>3
    <3> QED BY <1>1, <1>3, <2>1, <3>1 DEF IsPrefix
  <2>3. p2 \in Seq(Tok)
    BY <1>1, <2>2
  <2> HIDE DEF n
  <2>4. w \in Seq(Tok) /\ Len(w) = Len(p1) - n /\ (Len(w) > 0 => w[1] = p1[n + 1])
    BY <1>1, <2>2 DEF After
  <2>5. p1 = p2 \o w
    BY <1>1, <2>1, <2>3, PrefixRest DEF After, n
  <2> HIDE DEF w, Tok
  <2>6. p2 = <<>> \/ EndsInSlash(p2) \/ w = <<>> \/ w[1] = "/"
    <3>1. w # <<>> => Len(w) > 0
      BY <2>4
    <3> QED BY <2>1, <2>2, <2>4, <3>1
  <2>7. "." \notin Letters
    BY DEF Letters
  <2>8. CleanSegments(p1) = CleanSegments(p2) \o CleanSegments(TrimLeadingSlash(w))
    BY <2>3, <2>4, <2>5, <2>6, <2>7, CleanBelow DEF Tok
  <2>9. TrimLeadingSlash(w) \in Seq(Tok)
    BY <2>4 DEF TrimLeadingSlash
  <2>10. out = CleanSegments(TrimLeadingSlash(w))
    BY <1>4, <1>7, <2>9, SafeIsClean DEF w, n, Tok
  <2>11. CleanSegments(p2) \in Seq(Names(Letters)) /\ out \in Seq(Names(Letters))
    BY <2>3, <2>9, <2>10, CleanSegmentsType DEF Tok
  <2>12. out \in Seq(V)
    BY <1>5, <2>11
  <2> QED BY <1>1, <1>7, <2>8, <2>10, <2>11, <2>12 DEF p1, p2, out, R, host, V
<1> QED BY <1>6, <1>7 DEF p1, p2

\* A file below the seed is none below the host's directory, unless the path has the host's name.
LEMMA HostOrSeed ==
  ASSUME NEW u \in Urls, NEW v \in Urls, Plain(u), Plain(v),
         OutputFile(u, Seed) = OutputFile(v, Seed), OutputFile(u, Seed) # <<>>,
         RelativeTo(Unescape(u.path), Unescape(Seed.path))
  PROVE  RelativeTo(Unescape(v.path), Unescape(Seed.path))
<1> SUFFICES ASSUME ~RelativeTo(Unescape(v.path), Unescape(Seed.path)) PROVE FALSE
  OBVIOUS
<1> DEFINE base == CleanSegments(Unescape(Seed.path))
           out == OutputFile(u, Seed)
           e == HostName(v)
           V == Seq(STRING \union Letters)
<1>1. /\ base \in Seq(Names(Letters)) /\ Resource(u.path) = base \o out
  BY FileOfPlain
<1>2. out = <<e>> \o Resource(v.path)
  BY FileOfPlain
<1>3. /\ Resource(v.path) \in Seq(Names(Letters))
      /\ v.host \in STRING /\ v.port \in STRING /\ u.host = v.host /\ u.port = v.port
  BY PlainPath, MirrorAssumption DEF URL, HostNames, Plain
<1>4. Names(Letters) \subseteq V
  BY DEF Names
<1>5. base \in Seq(V) /\ Resource(v.path) \in Seq(V) /\ e \in V
  <2> HIDE DEF base
  <2>1. e \in V
    <3>1. {v.host, v.port, ":"} \subseteq STRING \union Letters
      BY <1>3 DEF Letters, Safe, Tokens
    <3> QED BY <3>1, ShortType DEF HostName
  <2> HIDE DEF V
  <2> QED BY <1>1, <1>3, <1>4, <2>1
<1> HIDE DEF base, V, out
<1>6. e \in ToSet(base \o (<<e>> \o Resource(v.path)))
  <2> HIDE DEF e
  <2> QED BY <1>5, HostAmong
<1>7. e \notin ToSet(Resource(u.path))
  BY <1>3 DEF Plain, HostName
<1> QED BY <1>1, <1>2, <1>6, <1>7

\* Plain URLs with one file name one resource.
LEMMA SameFile ==
  ASSUME NEW u \in Urls, NEW v \in Urls, Plain(u), Plain(v),
         OutputFile(u, Seed) = OutputFile(v, Seed), OutputFile(u, Seed) # <<>>
  PROVE  Resource(u.path) = Resource(v.path)
<1> DEFINE Rel(x) == RelativeTo(Unescape(x.path), Unescape(Seed.path))
<1>1. CASE Rel(u)
  <2>1. Rel(v)
    BY <1>1, HostOrSeed
  <2> QED BY <1>1, <2>1, FileOfPlain
<1>2. CASE ~Rel(u)
  <2>1. ~Rel(v)
    BY <1>2, HostOrSeed
  <2>2. <<HostName(u)>> \o Resource(u.path) = <<HostName(u)>> \o Resource(v.path)
    <3>1. HostName(u) = HostName(v)
      BY DEF Plain, HostName
    <3> QED BY <1>2, <2>1, <3>1, FileOfPlain
  <2> DEFINE e == HostName(u)
             S == Names(Letters)
  <2>3. Resource(u.path) \in Seq(S) /\ Resource(v.path) \in Seq(S)
    BY PlainPath
  <2> HIDE DEF e, S
  <2>4. <<e>> \o Resource(u.path) = <<e>> \o Resource(v.path)
    BY <2>2 DEF e
  <2> QED BY <2>3, <2>4, SameTail
<1> QED BY <1>1, <1>2

\* Two plain URLs that are downloaded to one file name one resource, in one run and in all
\* runs that share the cache: no download takes the place of another one's file.
THEOREM FileNamesOneResource == MirrorSpec => []OneFileEach
<1> DEFINE I == handed \subseteq Urls
<1>1. MirrorInit => I
  BY DEF MirrorInit
<1>2. I /\ [MirrorNext]_mirrorVars => I'
  BY DEF MirrorNext, Meet, mirrorVars
<1>3. I => OneFileEach
  BY SameFile DEF OneFileEach
<1> QED BY <1>1, <1>2, <1>3, PTL DEF MirrorSpec

-----------------------------------------------------------------------------
(* The cache with the URLs that are in it.                                 *)

\* The runs of the mirror use the cache as VisitedCache says.
THEOREM CacheAsSpecified == MirrorSpec => Spec
<1>1. MirrorInit => Init
  BY DEF MirrorInit
<1>2. [MirrorNext]_mirrorVars => [Next]_vars
  BY DEF MirrorNext, Meet, mirrorVars, Next
<1> QED
  BY <1>1, <1>2, PTL DEF MirrorSpec, Spec

\* canonicalURL() is idempotent on the URLs whose names do not end in an escaped slash.
LEMMA CanonTwice ==
  ASSUME \A u \in Urls : ~EndsEncoded(u.path)
  PROVE  Idempotent
<1>1. \A u \in Urls : Canon[u] \in Urls /\ Canon[u] = canonicalURL(u)
  BY CacheAssumption, MirrorAssumption
<1>2. \A u \in Urls : canonicalURL(canonicalURL(u)) = canonicalURL(u)
  BY KeyTwice, MirrorAssumption
<1> QED
  BY <1>1, <1>2 DEF Idempotent

\* Whatever crashes or fails, the file of the mirror is only replaced as a whole.
THEOREM MirrorSavedWhole == MirrorSpec => SavedWhole
  BY CacheAsSpecified, FileSavedWhole, PTL

\* Two paths have one key just when they name one resource.
THEOREM SameKeySameResource ==
  ASSUME NEW p \in EscapedPaths, NEW q \in EscapedPaths, ~EndsEncoded(p), ~EndsEncoded(q)
  PROVE  CanonicalPath(p) = CanonicalPath(q) <=> Resource(p) = Resource(q)
<1>1. CanonicalPath(p) = Join(Resource(p)) /\ CanonicalPath(q) = Join(Resource(q))
  BY EscapedIsClear, CanonicalPathExact
<1>2. Resource(p) \in Seq(Names(Normal)) /\ Resource(q) \in Seq(Names(Normal)) /\ "/" \notin Normal
  BY EscapedIsClear, ResourceNormal DEF Normal, Safe
<1>3. Join(Resource(p)) = Join(Resource(q)) => Resource(p) = Resource(q)
  BY <1>2, JoinedOnce
<1> QED
  BY <1>1, <1>3

\* A run of the mirror knows every URL an earlier one has saved, in any spelling.
THEOREM MirrorRecognises ==
  ASSUME \A u \in Urls : ~EndsEncoded(u.path)
  PROVE  MirrorSpec => []Recognised
  BY CanonTwice, CacheAsSpecified, SavedIsRecognised, PTL

\* The file of the mirror never loses a URL.
THEOREM MirrorGrowsOnly ==
  ASSUME \A u \in Urls : ~EndsEncoded(u.path)
  PROVE  MirrorSpec => GrowsOnly
  BY CanonTwice, CacheAsSpecified, FileGrowsOnly, PTL

=============================================================================
