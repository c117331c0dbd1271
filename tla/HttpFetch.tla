----------------------------- MODULE HttpFetch ------------------------------
(***************************************************************************)
(* What a worker does with the HTTP client for one entry of the crawl: it  *)
(* asks for robots.txt, over the other scheme when the first fails         *)
(* (fetchRobotsData), then for the page (getLinksByUrlWithContext) or, on  *)
(* an SFTPGo server, for the listing (getSFTPGoLinks).  When MIME filters  *)
(* are set, it finds out the content type of a page that is no HTML and    *)
(* of each file of a listing (sniffHTTPContentTypeWithContext): by HEAD,   *)
(* by a GET of the first KiB, and by a plain GET when ranges are refused.  *)
(* Only processCrawlEntry's first look at the context stops it: each of    *)
(* these requests is made after the end of the context as well, and fails. *)
(*                                                                         *)
(* A worker that waits for another's robots.txt (Robots) makes the rest of *)
(* its requests afterwards, and fewer than one that asks itself.           *)
(***************************************************************************)
EXTENDS HttpClient

CONSTANT Resources    \* what the server has under the URLs, see ResourceInfo

ResourceInfo ==
  [there  : BOOLEAN,   \* a plain GET is answered with 2xx
   html   : BOOLEAN,   \* it is HTML
   list   : BOOLEAN,   \* it is a listing of an SFTPGo server, in JSON
   typed  : BOOLEAN,   \* answers carry a Content-Type header
   head   : BOOLEAN,   \* HEAD is answered like GET
   ranged : BOOLEAN]   \* a Range header is not answered with 416 or 400

\* A file is no listing: that is the answer of another URL, dirsURL.
Files == {r \in Resources : ~r.list}

ASSUME ResourceAssumption == Files # {} /\ Resources \subseteq ResourceInfo

VARIABLES
  res,      \* the resource each worker asks for
  stage,    \* the request it makes
  files,    \* files of a listing it has still to look at, but for the present one
  verdict   \* what it found out about its last URL

fetchVars == <<res, stage, files, verdict>>
vars == <<clientVars, fetchVars>>

Lookups  == {"robots", "other"}   \* robots.txt by the scheme of the URL, and by the other
Stages   == Lookups \cup {"page", "head", "range", "plain"}
\* notHTML and links come from the page; html, file and text are content types,
\* text being that of an empty prefix.
Verdicts == {"none", "links", "notHTML", "html", "file", "text", "unknown", "error"}

Init ==
  /\ ClientInit
  /\ res \in [Workers -> Resources]
  /\ stage = [w \in Workers |-> "page"]
  /\ files = [w \in Workers |-> 0]
  /\ verdict = [w \in Workers |-> "none"]

-----------------------------------------------------------------------------
Start(w, s) == Request(w) /\ stage' = [stage EXCEPT ![w] = s] /\ UNCHANGED <<files, verdict>>

\* The function that made the request returns, with n files of a listing left.
ReturnWith(w, v, n) ==
  /\ At(w, IF n = 0 THEN "idle" ELSE "listed") /\ Arm(w, 0)
  /\ attempt' = [attempt EXCEPT ![w] = 0]
  /\ stage' = [stage EXCEPT ![w] = "page"]
  /\ files' = [files EXCEPT ![w] = n]
  /\ verdict' = [verdict EXCEPT ![w] = v]

Return(w, v) == ReturnWith(w, v, files[w])

\* The body is read; the client's timeout keeps running.
Read(w) ==
  /\ At(w, "read")
  /\ bodies' = [bodies EXCEPT ![w] = @ + 1]
  /\ UNCHANGED <<attempt, timer, stage, files, verdict>>

TypeOf(r) == IF r.html THEN "html" ELSE "file"

\* A worker takes its next entry; without a lookup, the rules are known.
Fetch(w) ==
  /\ cpc[w] = "idle" /\ ~ctxDone
  /\ res' \in {[res EXCEPT ![w] = r] : r \in Resources}
  /\ \E s \in {"robots", "page"} : Request(w) /\ stage' = [stage EXCEPT ![w] = s]
  /\ verdict' = [verdict EXCEPT ![w] = "none"]
  /\ UNCHANGED <<rateMu, bodies, files, clockVars>>

\* The next file of the listing, whatever the context.
NextFile(w) ==
  /\ cpc[w] = "listed"
  /\ res' \in {[res EXCEPT ![w] = r] : r \in Files}
  /\ Request(w) /\ stage' = [stage EXCEPT ![w] = "head"]
  /\ files' = [files EXCEPT ![w] = @ - 1]
  /\ verdict' = [verdict EXCEPT ![w] = "none"]
  /\ UNCHANGED <<rateMu, bodies, clockVars>>

\* The rules are there, if only the ones that allow everything: the page is fetched,
\* unless they forbid it or its name says that it is a file.
LookedUp(w) == Start(w, "page") \/ Return(w, "none")

\* Only an answer of 200 has a body that is read.
RobotsAnswered(w) ==
  /\ Answered(w) /\ stage[w] \in Lookups
  /\ Read(w) \/ (LookedUp(w) /\ UNCHANGED bodies)
  /\ UNCHANGED <<rateMu, clockVars, res>>

\* errNotHTML: with MIME filters the type is wanted as well, whatever the context.
NotHTML(w) ==
  \/ Return(w, "notHTML")
  \/ Start(w, "head")

PageAnswered(w) ==
  /\ Answered(w) /\ stage[w] = "page"
  /\ \/ ~res[w].there /\ Return(w, "error") /\ UNCHANGED bodies
     \/ /\ res[w].there /\ res[w].typed /\ ~res[w].html /\ ~res[w].list
        /\ NotHTML(w) /\ UNCHANGED bodies
     \/ res[w].there /\ (res[w].typed => res[w].html \/ res[w].list) /\ Read(w)
  /\ UNCHANGED <<rateMu, clockVars, res>>

\* Mutant: any answer to HEAD is the end of it.
HeadAnsweredFinal(w) ==
  /\ Answered(w) /\ stage[w] = "head"
  /\ IF res[w].there /\ res[w].head /\ res[w].typed
       THEN Return(w, TypeOf(res[w])) ELSE Return(w, "unknown")
  /\ UNCHANGED <<rateMu, bodies, clockVars, res>>

HeadAnswered(w) ==
  /\ Answered(w) /\ stage[w] = "head"
  /\ IF res[w].there /\ res[w].head /\ res[w].typed
       THEN Return(w, TypeOf(res[w]))
       ELSE Start(w, "range")
  /\ UNCHANGED <<rateMu, bodies, clockVars, res>>

\* Mutant: the body of the answer that refuses the range is forgotten.
RangeAnsweredOpen(w) ==
  /\ Answered(w) /\ stage[w] = "range"
  /\ \/ ~res[w].ranged /\ Start(w, "plain")
        /\ bodies' = [bodies EXCEPT ![w] = @ + 1]
     \/ res[w].ranged /\ res[w].there /\ Read(w)
     \/ res[w].ranged /\ ~res[w].there /\ Return(w, "unknown") /\ UNCHANGED bodies
  /\ UNCHANGED <<rateMu, clockVars, res>>

\* 416 or 400 closes the body and asks again without the Range header.
RangeAnswered(w) ==
  /\ Answered(w) /\ stage[w] = "range"
  /\ \/ ~res[w].ranged /\ Start(w, "plain") /\ UNCHANGED bodies
     \/ res[w].ranged /\ res[w].there /\ Read(w)
     \/ res[w].ranged /\ ~res[w].there /\ Return(w, "unknown") /\ UNCHANGED bodies
  /\ UNCHANGED <<rateMu, clockVars, res>>

PlainAnswered(w) ==
  /\ Answered(w) /\ stage[w] = "plain"
  /\ \/ res[w].there /\ Read(w)
     \/ ~res[w].there /\ Return(w, "unknown") /\ UNCHANGED bodies
  /\ UNCHANGED <<rateMu, clockVars, res>>

CloseBody(w) == bodies' = [bodies EXCEPT ![w] = @ - 1]

\* Whatever robots.txt says is a set of rules.  Without MIME filters the files of a
\* listing need no request, and they are none here.
ReadDone(w) ==
  /\ cpc[w] = "read"
  /\ CloseBody(w)
  /\ \/ stage[w] \in Lookups /\ LookedUp(w)
     \/ stage[w] = "page" /\ res[w].list /\ \E n \in 0 .. MaxFiles : ReturnWith(w, "links", n)
     \/ stage[w] = "page" /\ res[w].html /\ ~res[w].list /\ Return(w, "links")
     \/ stage[w] = "page" /\ ~res[w].html /\ ~res[w].list /\ NotHTML(w)
     \/ stage[w] \in {"range", "plain"} /\ Return(w, TypeOf(res[w]))
  /\ UNCHANGED <<rateMu, clockVars, res>>

\* The connection breaks, or the timeout or the context ends it.  The sniffer ignores
\* the error of io.ReadAll and detects the type of what it got: of nothing, here.
\* Without robots.txt everything is allowed.
ReadFailed(w) ==
  /\ cpc[w] = "read"
  /\ CloseBody(w)
  /\ IF stage[w] \in Lookups THEN LookedUp(w)
       ELSE Return(w, IF stage[w] = "page" THEN "error" ELSE "text")
  /\ UNCHANGED <<rateMu, clockVars, res>>

\* A failed HEAD is followed by the GET, and a failed request for robots.txt by the one
\* over the other scheme and by the page, even when the context made them fail.
RequestFailed(w) ==
  /\ GivenUp(w)
  /\ ClosedOnFailure(w)
  /\ CASE stage[w] = "robots" -> Start(w, "other")
       [] stage[w] = "other"  -> LookedUp(w)
       [] stage[w] = "head"   -> Start(w, "range")
       [] OTHER               -> Return(w, "error")
  /\ UNCHANGED <<rateMu, clockVars, res>>

Ending(w) ==
  \/ RobotsAnswered(w) \/ PageAnswered(w)
  \/ HeadAnswered(w) \/ RangeAnswered(w) \/ PlainAnswered(w)
  \/ ReadDone(w) \/ ReadFailed(w) \/ RequestFailed(w)

Step(w) == (Attempting(w) /\ UNCHANGED fetchVars) \/ Ending(w) \/ NextFile(w)

Passing == (Tick \/ Cancel) /\ UNCHANGED fetchVars

Next == Passing \/ \E w \in Workers : Fetch(w) \/ Step(w)

Spec == Init /\ [][Next]_vars

\* Go's mutex hands itself over to a goroutine that has waited long enough, timers
\* fire, and a request that is out has a timeout.
FairSpec ==
  /\ Spec
  /\ WF_vars(Tick /\ UNCHANGED fetchVars)
  /\ \A w \in Workers :
       /\ WF_vars(Step(w))
       /\ SF_vars(Lock(w) /\ UNCHANGED fetchVars)

-----------------------------------------------------------------------------
(* Correctness.                                                            *)

\* The variables keep their types, and no caller goes beyond its last attempt.
TypeOK ==
  /\ cpc \in [Workers -> Where] /\ DOMAIN timer = Workers
  /\ attempt \in [Workers -> 0 .. RetryCount - 1]
  /\ rateMu \in Workers \cup {NoWorker}
  /\ age \in 0 .. MinInterval /\ sinceSent \in 0 .. MinInterval
  /\ bodies \in [Workers -> Int]
  /\ ctxDone \in BOOLEAN
  /\ res \in [Workers -> Resources]
  /\ stage \in [Workers -> Stages]
  /\ files \in [Workers -> 0 .. MaxFiles]
  /\ verdict \in [Workers -> Verdicts]

\* However the workers interleave, two requests are never sent closer together than
\* the rate limit allows (waitForRateLimit: the check, the sleep and the new
\* lastRequest are one critical section).
RateRespected ==
  [][\A w \in Workers : cpc[w] # "net" /\ cpc'[w] = "net" => sinceSent >= MinInterval]_vars

\* A cancelled run waits for its workers no longer than their late requests take in the
\* rate limiter: backoff, request and body end with the context, only waitForRateLimit
\* does not look at it, and neither do the steps from one request to the next.  The
\* bound is that of the longest listing: nothing in the code caps it.
CancelBounded == sinceDone <= CancelBound

\* Every response body is closed on every path through retries, sniffing and failed
\* reads: a worker between requests holds none, and never more than the one it reads.
BodiesClosed ==
  \A w \in Workers :
    bodies[w] = IF cpc[w] \in {"drain", "read"} THEN 1 ELSE 0

\* Whatever the server supports of HEAD, ranges and Content-Type, and whatever was
\* retried, what a worker finds out about a URL is true of it; only a body that broke
\* off (text) and a failure (error) say nothing.
VerdictSound ==
  \A w \in Workers :
    CASE verdict[w] = "links"               -> res[w].there /\ (res[w].html \/ res[w].list)
      [] verdict[w] = "html"                -> res[w].there /\ res[w].html
      [] verdict[w] \in {"notHTML", "file"} -> res[w].there /\ ~res[w].html
      [] verdict[w] = "unknown"             -> ~res[w].there
      [] OTHER                              -> TRUE

\* A worker is done with its entry in the end: no sleeper keeps the mutex, no retry
\* goes on for ever.
FetchEnds == \A w \in Workers : cpc[w] # "idle" ~> cpc[w] = "idle"

=============================================================================
