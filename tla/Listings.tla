------------------------------ MODULE Listings ------------------------------
(***************************************************************************)
(* What the listers of pkg/crawler_ftp.go and pkg/sftpgo.go make of the    *)
(* answer of a server: the links of a directory, or "this is a file".      *)
(*                                                                         *)
(* An FTP server is a tree: a function from paths (sequences of names) to  *)
(* dir, locked (a directory nobody may list), file or link.  Servers       *)
(* answer a LIST of a file with one line, but do not agree on the name in  *)
(* it.  Connections and retries are FtpPool's.                             *)
(***************************************************************************)
EXTENDS Sequences, SequencesExt

Kinds == {"dir", "locked", "file", "link"}

IsTree(tree) ==
  /\ DOMAIN tree \subseteq Seq(STRING) /\ <<>> \in DOMAIN tree
  /\ \A q \in DOMAIN tree : tree[q] \in Kinds
  /\ tree[<<>>] \in {"dir", "locked"}
  /\ \A q \in DOMAIN tree \ { <<>> } :
       Front(q) \in DOMAIN tree /\ tree[Front(q)] \in {"dir", "locked"}

\* The name in the answer to the LIST of a file; some servers refuse it.
Conventions == {"base", "relative", "full", "refuse"}

FileName(p, convention) ==
  [rooted |-> convention = "full", segs |-> IF convention = "base" THEN <<Last(p)>> ELSE p]

Entry(name, kind) == [name |-> name, isDir |-> kind \in {"dir", "locked"}, isLink |-> kind = "link"]

Children(tree, p) == {q \in DOMAIN tree : q # <<>> /\ Front(q) = p}

Failed == [ok |-> FALSE, entries |-> {}]

\* The server: LIST of a path with or without a slash at its end.
List(tree, p, slash, convention) ==
  IF p \notin DOMAIN tree THEN Failed
  ELSE CASE tree[p] = "dir" ->
              [ok |-> TRUE,
               entries |-> {Entry([rooted |-> FALSE, segs |-> <<Last(q)>>], tree[q]) : q \in Children(tree, p)}]
         [] tree[p] = "file" /\ ~slash /\ convention # "refuse" ->
              [ok |-> TRUE, entries |-> {Entry(FileName(p, convention), "file")}]
         [] OTHER -> Failed

-----------------------------------------------------------------------------
(* crawler_ftp.go.  A URL is a path and whether it ends in a slash.        *)

FtpUrl(p, slash) == [path |-> p, slash |-> slash]

\* A failed LIST is tried once more with a slash.
ftpList(tree, u, convention) ==
  LET plain == List(tree, u.path, u.slash, convention)
  IN  IF plain.ok \/ u.slash THEN plain ELSE List(tree, u.path, TRUE, convention)

\* The listing without symbolic links.
Listed(tree, u, convention) ==
  LET raw == ftpList(tree, u, convention)
  IN  [raw EXCEPT !.entries = {e \in @ : ~e.isLink}]

matchesFTPPathName(name, u) ==
  \/ ~name.rooted /\ name.segs = <<Last(u.path)>>
  \/ name.segs = u.path

\* Mutant: a listing that could be that of a file is taken for one.
NeverDirectory(tree, u, convention) == FALSE

\* The parent's listing decides; when it cannot be had, the path is a file.
ftpIsDirectory(tree, u, convention) ==
  LET parent == Listed(tree, FtpUrl(Front(u.path), TRUE), convention)
  IN  parent.ok /\ \E e \in parent.entries : matchesFTPPathName(e.name, u) /\ e.isDir

\* One file under the name that was asked for: the listing of a file, or of a directory
\* with one file of the same name.
Ambiguous(listing, u) ==
  /\ ~u.slash /\ u.path # <<>>
  /\ \E e \in listing.entries :
       listing.entries = {e} /\ ~e.isDir /\ matchesFTPPathName(e.name, u)

\* What the crawler is told about a URL: notHTML for a file, an error, or links.
ftpListEntries(tree, u, convention) ==
  LET listing == Listed(tree, u, convention)
  IN  CASE ~listing.ok -> [answer |-> IF u.slash THEN "error" ELSE "notHTML", entries |-> {}]
        [] Ambiguous(listing, u) /\ ~ftpIsDirectory(tree, u, convention) ->
             [answer |-> "notHTML", entries |-> {}]
        [] OTHER -> [answer |-> "links", entries |-> listing.entries]

\* path.Join of the directory and the name; directories get a slash.
getLinksByFTP(tree, u, convention) ==
  {FtpUrl(u.path \o e.name.segs, e.isDir) : e \in ftpListEntries(tree, u, convention).entries}

-----------------------------------------------------------------------------
(* getSFTPGoLinks.  The URL of an entry may have a scheme and may name a    *)
(* host ("//host/path").                                                   *)

SftpgoEntries(hosts) ==
  [scheme : BOOLEAN, authority : {TRUE}, host : hosts]
    \union [scheme : BOOLEAN, authority : {FALSE}, host : {""}]

\* The host that an entry is fetched from; none when it is skipped.
SftpgoHosts(e, base, followExternal) ==
  IF ~(e.scheme \/ e.authority) THEN {base}
  ELSE IF e.host = base \/ followExternal THEN {e.host} ELSE {}

=============================================================================
