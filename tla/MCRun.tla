------------------------------- MODULE MCRun --------------------------------
(***************************************************************************)
(* A run over an FTP tree of three files, more than the channels hold: the *)
(* root lists "x" and two directories; "d" lists "y", "e" lists "z" and,   *)
(* under another spelling, "y" again.                                      *)
(***************************************************************************)
EXTENDS Run, TLC

Info(key, answer, files, dirs) ==
  [key |-> key, kind |-> "ftp", fileLike |-> answer = "notHTML", pathOK |-> TRUE,
   robotsOK |-> TRUE, accepted |-> TRUE, answer |-> answer, files |-> files, dirs |-> dirs]

Tree == {"root", "d", "e", "x", "y", "y2", "z"}
TreeSite ==
  [u \in Tree |->
     CASE u = "root" -> Info("root", "links", <<"x">>, <<"d", "e">>)
       [] u = "d"    -> Info("d", "links", <<"y">>, <<>>)
       [] u = "e"    -> Info("e", "links", <<"y2", "z">>, <<>>)
       [] u = "y2"   -> Info("y", "notHTML", <<>>, <<>>)
       [] OTHER      -> Info(u, "notHTML", <<>>, <<>>)]

NoLimit == -1

\* The tree meets the hypothesis under which SuccessMeansComplete is proved.
ASSUME TreeUnambiguous == Unambiguous

=============================================================================
