---------------------------- MODULE MCHttpFetch -----------------------------
(* Servers for the HTTP client: the ones that answer plainly, and one for  *)
(* each way of not supporting what the client asks.                        *)
EXTENDS HttpFetch

Resource(there, html, typed, head, ranged) ==
  [there |-> there, html |-> html, list |-> FALSE, typed |-> typed, head |-> head,
   ranged |-> ranged]

SomeResources ==
  { Resource(TRUE,  FALSE, FALSE, TRUE,  FALSE),   \* a file without Content-Type or ranges
    Resource(TRUE,  TRUE,  FALSE, FALSE, TRUE),    \* a page whose server has no HEAD
    [Resource(TRUE, FALSE, TRUE,  TRUE,  TRUE)     \* the listing of an SFTPGo server
       EXCEPT !.list = TRUE],
    Resource(TRUE,  FALSE, TRUE,  TRUE,  TRUE),    \* a file
    Resource(FALSE, FALSE, FALSE, FALSE, FALSE) }  \* nothing, not even to a range

=============================================================================
