-------------------------- MODULE MCDownloadStage ---------------------------
(***************************************************************************)
(* Instances of the download stage: three entries that can be written and  *)
(* one that cannot, so that sessions of two are followed by a shorter one. *)
(***************************************************************************)
EXTENDS DownloadStage, TLC

CONSTANTS a, b, c, bad

Four == {a, b, c, bad}
Three == {a, b, c}

=============================================================================
