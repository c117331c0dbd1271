------------------------------ MODULE MCRobots ------------------------------
(***************************************************************************)
(* Hosts of every kind: rules over both schemes, over https only, and a    *)
(* host name no URL can be built from.                                     *)
(***************************************************************************)
EXTENDS Robots, TLC

CONSTANTS both, secure, odd

Serves(http, https) == [s \in Schemes |-> IF s = "http" THEN http ELSE https]

HostAnswer ==
  [h \in Hosts |-> CASE h = both   -> Serves("rules", "rules")
                     [] h = secure -> Serves("refused", "rules")
                     [] h = odd    -> Serves("badHost", "badHost")]

=============================================================================
