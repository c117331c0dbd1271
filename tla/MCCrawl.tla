------------------------------ MODULE MCCrawl ------------------------------
(***************************************************************************)
(* Small sites for the crawler: a web site with every kind of link that is *)
(* cut off, an FTP tree with files that are listed twice, and a page that  *)
(* can be reached on two paths.                                            *)
(***************************************************************************)
EXTENDS Crawl, TLC

Symmetry == Permutations(Workers)

Info(key, kind, fileLike, answer, files, dirs) ==
  [key |-> key, kind |-> kind, fileLike |-> fileLike, pathOK |-> TRUE,
   robotsOK |-> TRUE, accepted |-> TRUE, answer |-> answer,
   files |-> files, dirs |-> dirs]

Page(key, links) == Info(key, "web", FALSE, "links", <<>>, links)
Folder(key, answer, files, dirs) == Info(key, "sftpgo", FALSE, answer, files, dirs)
Blob(key)        == Info(key, "web", TRUE, "notHTML", <<>>, <<>>)

\* A web site with a link back, two spellings of a file, and everything that cuts a
\* link off: a page outside the accepted paths "p", a file that robots.txt forbids "r",
\* a rejected file "f", and a page two hops away, "c", whose own entry "d" is beyond a
\* depth limit of two.  "b" is an SFTPGo folder: it lists the forbidden file too, and a
\* folder "e" that cannot be opened.  "a" and "b" have more entries than the channels hold.
WebUrls == {"root", "a", "b", "p", "r", "f", "x", "x2", "c", "d", "e"}
WebSite ==
  [u \in WebUrls |->
     CASE u = "root" -> Page("root", <<"p", "a", "b">>)
       [] u = "a"    -> Page("a", <<"root", "r", "x", "f">>)
       [] u = "b"    -> Folder("b", "links", <<"r", "x2">>, <<"c", "e">>)
       [] u = "c"    -> Folder("c", "links", <<"d">>, <<>>)
       [] u = "e"    -> Folder("e", "error", <<>>, <<>>)
       [] u = "p"    -> [Page("p", <<"d">>) EXCEPT !.pathOK = FALSE]
       [] u = "r"    -> [Blob("r") EXCEPT !.robotsOK = FALSE]
       [] u = "f"    -> [Blob("f") EXCEPT !.accepted = FALSE]
       [] u = "x2"   -> Blob("x")
       [] OTHER      -> Blob(u)]

\* An FTP tree, its seed given without the trailing slash; two directories, of
\* which one lists the other's file again.
FtpUrls == {"root", "d", "e", "f", "g", "g2"}
FtpDir(key, files, dirs) == Info(key, "ftp", FALSE, "links", files, dirs)
FtpFile(key)             == Info(key, "ftp", TRUE, "notHTML", <<>>, <<>>)
FtpSite ==
  [u \in FtpUrls |->
     CASE u = "root" -> [FtpDir("root", <<"f">>, <<"d", "e">>) EXCEPT !.fileLike = TRUE]
       [] u = "d"    -> FtpDir("d", <<"g">>, <<"e">>)
       [] u = "e"    -> FtpDir("e", <<"g2">>, <<"f">>)
       [] u = "f"    -> FtpFile("f")
       [] u = "g"    -> FtpFile("g")
       [] u = "g2"   -> FtpFile("g")]

\* Two ways to "b": three links, or one.  Marking it by the long way first
\* leaves "x" beyond the depth limit.
DepthUrls == {"root", "a", "b", "x"}
DepthSite ==
  [u \in DepthUrls |->
     CASE u = "root" -> Page("root", <<"a", "b">>)
       [] u = "a"    -> Page("a", <<"b">>)
       [] u = "b"    -> Page("b", <<"x">>)
       [] u = "x"    -> Blob("x")]

NoLimit == -1

\* The sites meet the hypothesis under which Complete is proved; only with a depth limit
\* on the third one does it fail, and Complete with it.
ASSUME SitesUnambiguous == Unambiguous <=> ~(Site = DepthSite /\ MaxDepth >= 0)

=============================================================================
