------------------------------- MODULE Crawl -------------------------------
(***************************************************************************)
(* The crawler of pkg/lib.go: crawl() with its inbox, dispatcher goroutine *)
(* and worker goroutines, and processCrawlEntry() with every call it makes *)
(* that changes shared state (enqueue, markVisited, the send on            *)
(* downloadEntriesCh).                                                     *)
(*                                                                         *)
(* What the network would say about a URL is the constant Site: the code's *)
(* filters, robots answer, classification and listing of that URL.  The    *)
(* goroutines, the channels, the atomic counter and the cancellable        *)
(* context are modelled step by step.                                      *)
(***************************************************************************)
EXTENDS EntryChannel

CONSTANTS
  Workers,        \* the worker goroutines: r.Threads of them
  Seed,           \* r.url
  Site,           \* what the code finds out about each URL, see UrlInfo
  MaxDepth,       \* r.MaxDepth, negative for unlimited
  InboxCap,       \* capacity of the inbox channel (queueSize)
  RespectRobots,  \* r.RespectRobots
  MimeFilters,    \* are AcceptMime or RejectMime set?
  FetchMayFail,   \* may any single network call fail?
  Preloaded       \* the keys loadVisitedCache() found in the cache file

UrlInfo ==
  [key      : Urls,                       \* canonicalURL, as a representative URL
   kind     : {"ftp", "web", "sftpgo"},   \* which lister processCrawlEntry picks
   fileLike : BOOLEAN,                    \* no trailing slash (ftp), isLikelyHTTPFilePath (web)
   pathOK   : BOOLEAN,                    \* url.Parse succeeds and PathAllowed
   robotsOK : BOOLEAN,                    \* the host's robots.txt allows the URL
   accepted : BOOLEAN,                    \* the other filters of downloadResource
   answer   : {"links", "notHTML", "error"},
   files    : Seq(Urls),                  \* file entries of an ftp or sftpgo listing
   dirs     : Seq(Urls)]                  \* directory entries, or all links of a page

ASSUME CrawlAssumption ==
  /\ IsFiniteSet(Workers) /\ Workers # {}
  /\ Seed \in Urls
  /\ Site \in [Urls -> UrlInfo]
  /\ MaxDepth \in Int
  /\ InboxCap \in Nat \ {0}
  /\ RespectRobots \in BOOLEAN
  /\ MimeFilters \in BOOLEAN
  /\ FetchMayFail \in BOOLEAN
  /\ Preloaded \subseteq Urls

VARIABLES
  inbox, queue, work,   \* the two channels, and the dispatcher's slice between them
  workClosed,           \* close(work) was called
  pending,              \* the atomic counter of entries not yet finished
  done,                 \* doneCh is closed
  cancelled,            \* crawlCtx is done
  mpc,                  \* where the goroutine running crawl() is
  dpc,                  \* where the dispatcher is
  wpc,                  \* where each worker is
  wentry,               \* the crawlEntry each worker is processing
  wtodo,                \* what is left of the listing it walks
  visited               \* keys in r.urlCache

poolVars   == <<inbox, queue, work, workClosed, pending, done>>
workerVars == <<wpc, wentry, wtodo>>
crawlVars == <<poolVars, cancelled, mpc, dpc, workerVars, visited, channel>>

Entry == [url : Urls, depth : Nat]
Job   == [op : {"own", "get", "link"}, url : Urls]

SeedEntry == [url |-> Seed, depth |-> 0]
WorkCap   == Cardinality(Workers)

-----------------------------------------------------------------------------
(* What processCrawlEntry decides about a URL.                             *)

Key(u)        == Site[u].key
PathAllowed(u) == Site[u].pathOK
IsHTTP(u)     == Site[u].kind # "ftp"

\* A discovered URL that is queued for download without being listed.
DirectFile(e) ==
  /\ e.depth > 0
  /\ Site[e.url].fileLike
  /\ IsHTTP(e.url) => ~MimeFilters

DepthCut(e) == MaxDepth >= 0 /\ e.depth + 1 > MaxDepth

JobsOf(op, us) == [i \in 1..Len(us) |-> [op |-> op, url |-> us[i]]]

\* Files of an FTP or SFTPGo listing are taken before its directories.
Jobs(u) == JobsOf("get", Site[u].files) \o JobsOf("link", Site[u].dirs)

-----------------------------------------------------------------------------
CrawlInit ==
  /\ inbox = <<>> /\ queue = <<>> /\ work = <<>> /\ workClosed = FALSE
  /\ pending = 0 /\ done = FALSE /\ cancelled = FALSE
  /\ mpc = "seed" /\ dpc = "unborn"
  /\ wpc = [w \in Workers |-> "unborn"]
  /\ wentry = [w \in Workers |-> SeedEntry]
  /\ wtodo = [w \in Workers |-> <<>>]
  /\ visited = Preloaded
  /\ ChannelInit

\* Mutant: the last entry but one closes doneCh.
ReleaseEarly ==
  /\ pending' = pending - 1
  /\ done' = (done \/ pending' <= 1)

\* pending.Add(-1), and close(doneCh) when that was the last entry.
Release ==
  /\ pending' = pending - 1
  /\ done' = (done \/ pending' = 0)

-----------------------------------------------------------------------------
(* The goroutine that runs crawl().                                        *)

\* enqueue(seed) looks at ctx.Done() first: crawl() returns at once.
SeedRefused ==
  /\ mpc = "seed" /\ cancelled
  /\ workClosed' = TRUE /\ mpc' = "left"
  /\ UNCHANGED <<inbox, queue, work, pending, done, cancelled, dpc, workerVars, visited, channel>>

SeedOffer ==
  /\ mpc = "seed" /\ ~cancelled
  /\ pending' = pending + 1 /\ mpc' = "offer"
  /\ UNCHANGED <<inbox, queue, work, workClosed, done, cancelled, dpc, workerVars, visited, channel>>

\* The seed is in the inbox: start the dispatcher and the workers.
SeedAccepted ==
  /\ mpc = "offer" /\ Len(inbox) < InboxCap
  /\ inbox' = Append(inbox, SeedEntry)
  /\ mpc' = "wait" /\ dpc' = "run"
  /\ wpc' = [w \in Workers |-> "idle"]
  /\ UNCHANGED <<queue, work, workClosed, pending, done, cancelled, wentry, wtodo, visited, channel>>

SeedAborted ==
  /\ mpc = "offer" /\ cancelled
  /\ Release
  /\ workClosed' = TRUE /\ mpc' = "left"
  /\ UNCHANGED <<inbox, queue, work, cancelled, dpc, workerVars, visited, channel>>

\* Mutant: the channel is closed as soon as the dispatcher has closed `work`.
CloseEntriesUnwaited ==
  /\ mpc = "wait" /\ workClosed
  /\ chClosed' = TRUE /\ mpc' = "done"
  /\ UNCHANGED <<poolVars, cancelled, dpc, workerVars, visited, entriesCh, handed>>

\* workers.Wait() returns; the download channel is closed.
CloseEntries ==
  /\ mpc = "wait" /\ \A w \in Workers : wpc[w] = "exit"
  /\ chClosed' = TRUE /\ mpc' = "done"
  /\ UNCHANGED <<poolVars, cancelled, dpc, workerVars, visited, entriesCh, handed>>

MainStep == SeedRefused \/ SeedOffer \/ SeedAccepted \/ SeedAborted \/ CloseEntries

-----------------------------------------------------------------------------
(* The dispatcher: an unbounded queue between inbox and work.              *)

\* Mutant: the dispatcher holds one entry instead of a queue.
DispatchInBounded ==
  /\ dpc = "run" /\ inbox # <<>> /\ queue = <<>>
  /\ queue' = Append(queue, Head(inbox)) /\ inbox' = Tail(inbox)
  /\ UNCHANGED <<work, workClosed, pending, done, cancelled, mpc, dpc, workerVars, visited, channel>>

DispatchIn ==
  /\ dpc = "run" /\ inbox # <<>>
  /\ queue' = Append(queue, Head(inbox)) /\ inbox' = Tail(inbox)
  /\ UNCHANGED <<work, workClosed, pending, done, cancelled, mpc, dpc, workerVars, visited, channel>>

DispatchOut ==
  /\ dpc = "run" /\ queue # <<>> /\ Len(work) < WorkCap
  /\ work' = Append(work, Head(queue)) /\ queue' = Tail(queue)
  /\ UNCHANGED <<inbox, workClosed, pending, done, cancelled, mpc, dpc, workerVars, visited, channel>>

DispatchStop ==
  /\ dpc = "run" /\ (cancelled \/ done)
  /\ dpc' = "stopped" /\ workClosed' = TRUE
  /\ UNCHANGED <<inbox, queue, work, pending, done, cancelled, mpc, workerVars, visited, channel>>

DispatcherStep == DispatchIn \/ DispatchOut \/ DispatchStop

-----------------------------------------------------------------------------
(* A worker.  Labels of wpc: idle (range work), check, robots, mark, fetch *)
(* (inside processCrawlEntry), walk (handling its listing), offer (second  *)
(* select of enqueue), send (select of enqueueDownloadEntry), exit.        *)

Goto(w, l) == wpc' = [wpc EXCEPT ![w] = l]
NextJob(w) == wtodo' = [wtodo EXCEPT ![w] = Tail(@)]
Url(w)     == wentry[w].url
JobUrl(w)  == Head(wtodo[w]).url
HasJob(w, op) == wpc[w] = "walk" /\ wtodo[w] # <<>> /\ Head(wtodo[w]).op = op

Take(w) ==
  /\ wpc[w] = "idle" /\ work # <<>>
  /\ work' = Tail(work)
  /\ wentry' = [wentry EXCEPT ![w] = Head(work)]
  /\ Goto(w, "check")
  /\ UNCHANGED <<inbox, queue, workClosed, pending, done, cancelled, mpc, dpc, wtodo, visited, channel>>

\* A closed channel still yields what it holds before the loop ends.
Exit(w) ==
  /\ wpc[w] = "idle" /\ work = <<>> /\ workClosed
  /\ Goto(w, "exit")
  /\ UNCHANGED <<poolVars, cancelled, mpc, dpc, wentry, wtodo, visited, channel>>

\* ctx.Done(), url.Parse, PathAllowed.
Check(w) ==
  /\ wpc[w] = "check"
  /\ \/ (cancelled \/ ~PathAllowed(Url(w))) /\ Goto(w, "walk")
     \/ /\ ~cancelled /\ PathAllowed(Url(w))
        /\ Goto(w, IF RespectRobots /\ IsHTTP(Url(w)) THEN "robots" ELSE "mark")
  /\ UNCHANGED <<poolVars, cancelled, mpc, dpc, wentry, wtodo, visited, channel>>

\* urlAllowedByRobots fails open when robots.txt cannot be fetched.
AskRobots(w) ==
  /\ wpc[w] = "robots"
  /\ \/ ~Site[Url(w)].robotsOK /\ Goto(w, "walk")
     \/ (Site[Url(w)].robotsOK \/ FetchMayFail \/ cancelled) /\ Goto(w, "mark")
  /\ UNCHANGED <<poolVars, cancelled, mpc, dpc, wentry, wtodo, visited, channel>>

\* markVisited(entry.url), then the choice between download and listing.
Mark(w) ==
  /\ wpc[w] = "mark"
  /\ visited' = visited \union {Key(Url(w))}
  /\ \/ Key(Url(w)) \in visited /\ Goto(w, "walk") /\ UNCHANGED wtodo
     \/ Key(Url(w)) \notin visited /\ ~DirectFile(wentry[w]) /\ Goto(w, "fetch") /\ UNCHANGED wtodo
     \/ /\ Key(Url(w)) \notin visited /\ DirectFile(wentry[w]) /\ Goto(w, "walk")
        /\ wtodo' = [wtodo EXCEPT ![w] = JobsOf("own", <<Url(w)>>)]
  /\ UNCHANGED <<poolVars, cancelled, mpc, dpc, wentry, channel>>

\* getSFTPGoLinks or getLinksByUrlWithContext returns.
FetchFailed(w) ==
  /\ wpc[w] = "fetch"
  /\ Site[Url(w)].answer = "error" \/ FetchMayFail \/ cancelled
  /\ Goto(w, "walk")
  /\ UNCHANGED <<poolVars, cancelled, mpc, dpc, wentry, wtodo, visited, channel>>

\* ftpListError takes a failed LIST of a path without trailing slash for a file.
FetchNotHTML(w) ==
  /\ wpc[w] = "fetch"
  /\ \/ Site[Url(w)].answer = "notHTML"
     \/ ~IsHTTP(Url(w)) /\ Site[Url(w)].fileLike /\ (FetchMayFail \/ cancelled)
  /\ wtodo' = [wtodo EXCEPT ![w] = JobsOf("own", <<Url(w)>>)]
  /\ Goto(w, "walk")
  /\ UNCHANGED <<poolVars, cancelled, mpc, dpc, wentry, visited, channel>>

\* Mutant: the links of the deepest level are enqueued too.
FetchListingDeeper(w) ==
  /\ wpc[w] = "fetch" /\ Site[Url(w)].answer = "links"
  /\ wtodo' = [wtodo EXCEPT ![w] =
       IF MaxDepth >= 0 /\ wentry[w].depth > MaxDepth THEN <<>> ELSE Jobs(Url(w))]
  /\ Goto(w, "walk")
  /\ UNCHANGED <<poolVars, cancelled, mpc, dpc, wentry, visited, channel>>

FetchListing(w) ==
  /\ wpc[w] = "fetch" /\ Site[Url(w)].answer = "links"
  /\ wtodo' = [wtodo EXCEPT ![w] = IF DepthCut(wentry[w]) THEN <<>> ELSE Jobs(Url(w))]
  /\ Goto(w, "walk")
  /\ UNCHANGED <<poolVars, cancelled, mpc, dpc, wentry, visited, channel>>

\* downloadResourceWithContext up to the send: its filters, and the MIME sniff
\* that drops the URL when its requests fail.
Download(w) ==
  \/ ~Site[JobUrl(w)].accepted /\ Goto(w, "walk") /\ NextJob(w)
  \/ Site[JobUrl(w)].accepted /\ Goto(w, "send") /\ UNCHANGED wtodo
  \/ /\ MimeFilters /\ IsHTTP(JobUrl(w)) /\ (FetchMayFail \/ cancelled)
     /\ Goto(w, "walk") /\ NextJob(w)

DownloadOwn(w) ==
  /\ HasJob(w, "own")
  /\ Download(w)
  /\ UNCHANGED <<poolVars, cancelled, mpc, dpc, wentry, visited, channel>>

\* A file of a listing: PathAllowed, markVisited, downloadResourceWithContext.
Fresh(w) == PathAllowed(JobUrl(w)) /\ Key(JobUrl(w)) \notin visited

\* Mutant: files of a listing are not marked as visited.
GetFileUnmarked(w) ==
  /\ HasJob(w, "get")
  /\ \/ ~Fresh(w) /\ NextJob(w) /\ UNCHANGED wpc
     \/ Fresh(w) /\ Download(w)
  /\ UNCHANGED <<poolVars, cancelled, mpc, dpc, wentry, visited, channel>>

GetFile(w) ==
  /\ HasJob(w, "get")
  /\ \/ ~Fresh(w) /\ NextJob(w) /\ UNCHANGED <<wpc, visited>>
     \/ Fresh(w) /\ visited' = visited \union {Key(JobUrl(w))} /\ Download(w)
  /\ UNCHANGED <<poolVars, cancelled, mpc, dpc, wentry, channel>>

\* The select of enqueueDownloadEntry: with both cases ready, either is taken.
Send(w) ==
  /\ wpc[w] = "send" /\ SendEntry(JobUrl(w))
  /\ Goto(w, "walk") /\ NextJob(w)
  /\ UNCHANGED <<poolVars, cancelled, mpc, dpc, wentry, visited>>

\* Mutant: the send does not watch ctx.Done().
SendStuck(w) == FALSE

SendDropped(w) ==
  /\ wpc[w] = "send" /\ cancelled
  /\ Goto(w, "walk") /\ NextJob(w)
  /\ UNCHANGED <<poolVars, cancelled, mpc, dpc, wentry, visited, channel>>

\* Mutant: the first filtered link ends the loop over the listing.
SkipRest(w) ==
  /\ HasJob(w, "link") /\ (cancelled \/ ~PathAllowed(JobUrl(w)))
  /\ wtodo' = [wtodo EXCEPT ![w] = <<>>]
  /\ UNCHANGED <<poolVars, cancelled, mpc, dpc, wpc, wentry, visited, channel>>

\* enqueue(link): refused when ctx is already done, else counted and offered.
SkipLink(w) ==
  /\ HasJob(w, "link") /\ (cancelled \/ ~PathAllowed(JobUrl(w)))
  /\ NextJob(w)
  /\ UNCHANGED <<poolVars, cancelled, mpc, dpc, wpc, wentry, visited, channel>>

Offer(w) ==
  /\ HasJob(w, "link") /\ ~cancelled /\ PathAllowed(JobUrl(w))
  /\ pending' = pending + 1
  /\ Goto(w, "offer")
  /\ UNCHANGED <<inbox, queue, work, workClosed, done, cancelled, mpc, dpc, wentry, wtodo, visited, channel>>

OfferAccepted(w) ==
  /\ wpc[w] = "offer" /\ Len(inbox) < InboxCap
  /\ inbox' = Append(inbox, [url |-> JobUrl(w), depth |-> wentry[w].depth + 1])
  /\ Goto(w, "walk") /\ NextJob(w)
  /\ UNCHANGED <<queue, work, workClosed, pending, done, cancelled, mpc, dpc, wentry, visited, channel>>

\* Mutant: an enqueue that is cancelled half way keeps its count.
OfferAbortedCounted(w) ==
  /\ wpc[w] = "offer" /\ cancelled
  /\ Goto(w, "walk") /\ NextJob(w)
  /\ UNCHANGED <<poolVars, cancelled, mpc, dpc, wentry, visited, channel>>

OfferAborted(w) ==
  /\ wpc[w] = "offer" /\ cancelled
  /\ Release
  /\ Goto(w, "walk") /\ NextJob(w)
  /\ UNCHANGED <<inbox, queue, work, workClosed, cancelled, mpc, dpc, wentry, visited, channel>>

\* processCrawlEntry returned.
Finish(w) ==
  /\ wpc[w] = "walk" /\ wtodo[w] = <<>>
  /\ Release
  /\ Goto(w, "idle")
  /\ wentry' = [wentry EXCEPT ![w] = SeedEntry]
  /\ UNCHANGED <<inbox, queue, work, workClosed, cancelled, mpc, dpc, wtodo, visited, channel>>

ProcessStep(w) ==
  \/ Check(w) \/ AskRobots(w) \/ Mark(w)
  \/ FetchFailed(w) \/ FetchNotHTML(w) \/ FetchListing(w)
  \/ DownloadOwn(w) \/ GetFile(w) \/ Send(w) \/ SendDropped(w)
  \/ SkipLink(w) \/ Offer(w) \/ OfferAccepted(w) \/ OfferAborted(w)

WorkerStep(w) == Take(w) \/ Exit(w) \/ ProcessStep(w) \/ Finish(w)

CrawlStep == MainStep \/ DispatcherStep \/ \E w \in Workers : WorkerStep(w)

-----------------------------------------------------------------------------
(* The environment of crawl(): the consumer of downloadEntriesCh (its own  *)
(* module is Aria2Batch) and whoever cancels the context.                  *)

Consume ==
  /\ ReceiveEntry
  /\ UNCHANGED <<poolVars, cancelled, mpc, dpc, workerVars, visited>>

Interrupt ==
  /\ ~cancelled
  /\ cancelled' = TRUE
  /\ UNCHANGED <<poolVars, mpc, dpc, workerVars, visited, channel>>

Returned == mpc \in {"left", "done"}

CrawlEnded ==
  /\ Returned /\ entriesCh = <<>>
  /\ UNCHANGED crawlVars

CrawlNext == CrawlStep \/ Consume \/ Interrupt \/ CrawlEnded

\* Goroutines whose next step can be taken eventually take it.
CrawlFairness ==
  /\ WF_crawlVars(MainStep) /\ WF_crawlVars(DispatcherStep)
  /\ \A w \in Workers : WF_crawlVars(WorkerStep(w))

CrawlSpec == CrawlInit /\ [][CrawlNext]_crawlVars
CrawlFairSpec == CrawlSpec /\ CrawlFairness  \* nothing is promised of the consumer

-----------------------------------------------------------------------------
(* Type invariant.                                                         *)

WorkerPcs == {"unborn", "idle", "check", "robots", "mark", "fetch", "walk",
              "offer", "send", "exit"}

PoolTypes ==
  /\ inbox \in Seq(Entry) /\ Len(inbox) <= InboxCap
  /\ queue \in Seq(Entry)
  /\ work \in Seq(Entry) /\ Len(work) <= WorkCap
  /\ workClosed \in BOOLEAN /\ done \in BOOLEAN

ControlTypes ==
  /\ cancelled \in BOOLEAN
  /\ mpc \in {"seed", "offer", "wait", "left", "done"}
  /\ dpc \in {"unborn", "run", "stopped"}
  /\ wpc \in [Workers -> WorkerPcs]
  /\ wentry \in [Workers -> Entry]
  /\ wtodo \in [Workers -> Seq(Job)]

OutTypes ==
  /\ visited \subseteq Urls
  /\ entriesCh \in Seq(Urls) /\ Len(entriesCh) <= ChanCap
  /\ chClosed \in BOOLEAN
  /\ handed \in Seq(Urls)

\* Every variable keeps its type, the bounded channels keep to their capacity
\* and the counter never goes below zero.
TypeOK == PoolTypes /\ ControlTypes /\ OutTypes /\ pending \in Nat

-----------------------------------------------------------------------------
(* Termination detection by the counter `pending`.                         *)

Busy     == {w \in Workers : wpc[w] \notin {"unborn", "idle", "exit"}}
Offering == {w \in Workers : wpc[w] = "offer"}

\* The crawl entries that really are somewhere between enqueue and the end of
\* processCrawlEntry.
Outstanding ==
  Len(inbox) + Len(queue) + Len(work) + Cardinality(Busy) + Cardinality(Offering)
    + (IF mpc = "offer" THEN 1 ELSE 0)

\* The atomic counter equals the number of outstanding entries in every
\* interleaving of enqueue, its rollback on cancellation and the decrement after
\* processCrawlEntry; nobody who reads 0 can be wrong.
PendingExact == pending = Outstanding

\* doneCh closes only when no entry is left anywhere and no goroutine can still
\* create one: closing it earlier would make the dispatcher drop queued entries.
DoneMeansDrained ==
  done => /\ inbox = <<>> /\ queue = <<>> /\ work = <<>>
          /\ \A w \in Workers : wpc[w] \in {"unborn", "idle", "exit"}
          /\ mpc # "offer"

\* No send on a closed downloadEntriesCh (a panic): once it is closed the
\* dispatcher has returned and every worker has left its loop.
ClosedAfterLastSend ==
  chClosed => dpc = "stopped" /\ \A w \in Workers : wpc[w] = "exit"

-----------------------------------------------------------------------------
(* What is handed to the download stage.                                   *)

Sending == {w \in Workers : wpc[w] = "send"}

\* Two workers that meet the same resource, under any of its spellings, never
\* both hand it over: markVisited decides for exactly one of them.
NoDoubleDownload ==
  LET out == handed \o entriesCh
  IN  /\ \A i, j \in 1..Len(out) : Key(out[i]) = Key(out[j]) => i = j
      /\ \A w \in Sending : Key(JobUrl(w)) \notin {Key(u) : u \in SeqSet(out)}
      /\ \A v, w \in Sending : Key(JobUrl(v)) = Key(JobUrl(w)) => v = w

\* Reference definition of the crawl: which URLs are enqueued within n hops.
MayVisit(u) ==
  PathAllowed(u) /\ (RespectRobots /\ IsHTTP(u) => Site[u].robotsOK)

Expands(u, n) ==
  /\ MayVisit(u) /\ Site[u].answer = "links"
  /\ ~DirectFile([url |-> u, depth |-> n])
  /\ ~DepthCut([url |-> u, depth |-> n])

Hops ==
  LET h[n \in 0..Cardinality(Urls)] ==
        IF n = 0 THEN {Seed}
        ELSE UNION {SeqSet(Site[u].dirs) : u \in {v \in h[n-1] : Expands(v, n-1)}}
  IN h

WantsOwn(u, n) ==
  /\ MayVisit(u) /\ Site[u].accepted
  /\ DirectFile([url |-> u, depth |-> n]) \/ Site[u].answer = "notHTML"

WantsFile(u) == MayVisit(u) /\ Site[u].accepted

\* The URLs that are downloaded themselves, those whose listing is walked, and the
\* files of these listings.
Owned  == UNION {{u \in Hops[n] : WantsOwn(u, n)} : n \in DOMAIN Hops}
Walked == UNION {{u \in Hops[n] : Expands(u, n)} : n \in DOMAIN Hops}
Listed == UNION {SeqSet(Site[u].files) : u \in Walked}

\* Files of a listing that robots.txt forbids.  All are files of SFTPGo listings: an FTP
\* listing holds FTP URLs, which have no robots.txt.
Forbidden == {f \in Listed : PathAllowed(f) /\ Site[f].accepted /\ ~MayVisit(f)}

\* What a crawl without faults or cancellation hands over, as keys.
Expected == {Key(u) : u \in Owned} \union {Key(f) : f \in {g \in Listed : WantsFile(g)}}

\* Nothing that can be met twice, under two spellings, at two depths or as a page and
\* as a file, is worth more in one place than in another that can come first.  (No place
\* comes before the seed.)  Whichever the workers happen to mark first then does not matter.
SamePages ==
  \A n, m \in DOMAIN Hops : \A u \in Hops[n], v \in Hops[m] :
    Key(u) = Key(v) /\ MayVisit(v) /\ (n = 0 => m = 0) =>
      /\ WantsOwn(u, n) => WantsOwn(v, m)
      /\ Expands(u, n) => /\ Expands(v, m)
                          /\ SeqSet(Site[u].dirs) \subseteq SeqSet(Site[v].dirs)
                          /\ SeqSet(Site[u].files) \subseteq SeqSet(Site[v].files)

SameFiles ==
  \A f \in Listed :
    /\ \A m \in DOMAIN Hops : \A v \in Hops[m] : Key(v) = Key(f) =>
         /\ WantsFile(f) /\ MayVisit(v) => WantsOwn(v, m)
         /\ PathAllowed(f) /\ m # 0 => ~Expands(v, m) /\ (WantsOwn(v, m) => Site[f].accepted)
    /\ \A g \in Listed : Key(g) = Key(f) /\ WantsFile(f) /\ PathAllowed(g) => Site[g].accepted

Unambiguous == SamePages /\ SameFiles

\* A crawl that ends on its own, without failed requests, has handed over every
\* resource the reference crawl finds: no URL is lost between the inbox, the
\* dispatcher's queue, the work channel and the workers when doneCh closes.
Complete ==
  mpc = "done" /\ ~cancelled /\ ~FetchMayFail /\ Preloaded = {} =>
    Expected \subseteq {Key(u) : u \in Delivered}

\* Nothing is handed over that the reference crawl does not want: the depth limit and
\* the path filters hold on every path to a URL, and robots.txt for everything that is
\* queued and for the files of an FTP listing.  It does not hold for the files of an
\* SFTPGo listing: the loop over them asks PathAllowed and never robots.txt, although the
\* README says that robots.txt is respected.  Those files, and they alone, are excepted.
NothingExtra ==
  ~cancelled /\ ~FetchMayFail =>
    \A u \in Delivered : Key(u) \in Expected \/ u \in Forbidden

\* The documentation of --visited-cache: a run that starts from the cache of an
\* interrupted run hands over what that run had not visited.
ResumeComplete ==
  mpc = "done" /\ ~cancelled /\ ~FetchMayFail =>
    Expected \ Preloaded \subseteq {Key(u) : u \in Delivered}

-----------------------------------------------------------------------------
(* Progress.                                                               *)

\* Abstractly: a pool of outstanding entries that announces, exactly once and
\* exactly when it is so, that none is left.
Pool == INSTANCE WorkPool WITH outstanding <- Outstanding, drained <- done

\* crawl(), with its channels, queue and atomic counter, implements the pool: the
\* counter never makes it announce the end early, late or twice.
ImplementsPool == Pool!Spec

\* Once the context is cancelled crawl() returns, even when the consumer of
\* downloadEntriesCh has stopped receiving for good.
CancelReturns == cancelled ~> Returned

\* When the consumer keeps receiving, crawl() returns without being cancelled: a
\* full inbox, a full work channel and a full download channel never leave the
\* goroutines waiting for each other.
Completes == WF_crawlVars(Consume) => <>Returned

=============================================================================
