# A verification of raria2

raria2 walks an HTTP index, an FTP tree or an SFTPGo share with several workers and
streams every file it finds to `aria2c`. This directory holds TLA+ models of its
concurrent core and of the functions that decide what a URL means, the TLC runs that
check them on small instances, and theorems about them that TLAPS checks for every value
of the constants. Source names are used wherever TLA+ allows; line numbers are those of
the repository next to it.

## 1. The system

| Component (source) | State | Operations | Hard behaviour |
|---|---|---|---|
| Run orchestration (`pkg/lib.go:253-310`) | two contexts, `downloadErrCh`, the visited cache | `RunWithContext`: checks, executor goroutine, `crawl`, join, save, error | the crawler and the executor fail, are cancelled and end independently; each may block the other on `downloadEntriesCh` |
| Crawler (`pkg/lib.go:312-728`) | `inbox`, the dispatcher's slice, `work`, the atomic `pending`, `doneCh`, `urlCache`, `downloadEntriesCh` | `enqueue`, dispatcher, workers, `processCrawlEntry`, `downloadResourceWithContext`, `enqueueDownloadEntry` | termination detection by a counter, rollback of an enqueue that is cancelled half way, closing channels, two workers at one resource, all channels full |
| Download stage (`pkg/aria2.go:58-301`) | open sink, entry counts; `io.Pipe`, the copying goroutine of os/exec, the process, `waitCh` | `ExecuteBatchDownload`, `Write` and `Close` of three sinks, the goroutine that kills | sessions and their limit, invalid entries, a process that fails, dies or is killed while somebody writes to it |
| Streaming probe (`pkg/aria2.go:326-405`) | the probed process, its output on the way through two goroutines, `lines`, timer | `probeAria2StdinStreaming` | what is printed when, a process that says more than is read or dies |
| FTP connection pools (`pkg/ftp_conn_cache.go`) | `ftpConnPools`; for each, tokens, idle list, active count | get, dial, put, discard, closeAll | tokens on every error path, stale connections, cancellation while waiting |
| FTP listing (`pkg/crawler_ftp.go`) | none of its own | `ftpListRaw` with a retry, `ftpListEntries`, `ftpIsDirectory` | the retry takes a second connection; a file and a directory can have the same listing |
| robots.txt (`pkg/robots_http.go`) | `robotsCache`, `robotsInflight`, `robotsCall` | `getRobotsData`, `fetchRobotsData` | two locks, one leader and its followers, errors that are not cached, the second scheme |
| Visited-URL cache (`pkg/cache.go`) | the map; `<path>` and `<path>.tmp` | `MarkVisited`, `Load`, `Save` | crashes and failing system calls in the middle of a save, later runs |
| HTTP client (`pkg/client_http.go`) | `lastRequest` under `rateMu`, open bodies, cookie | retry loop with backoff, `waitForRateLimit` | cancellation during backoff and in the rate limiter's queue, bodies on every path |
| HTTP listing, MIME sniffing (`pkg/crawler_http.go`, `pkg/mime_http.go`) | none | classify a page, collect its links, HEAD and two GETs to learn a type | sequences of requests each of which may be retried, fail or lie |
| URLs (`pkg/urlutils.go`) | none | `canonicalURL`, `IsSubPath` | escapes, dot-segments; idempotence, on which the cache depends |
| Output paths (`pkg/lib.go:149-249`, `606-710`) | created directories | safe relative path, `MkdirAll` | escapes and dot-segments, two URLs with one file |
| SFTPGo client (`pkg/sftpgo.go`) | client with cookie | detect, log in, list | a login that fails ends the run; entries that name other hosts |
| Filters (`pkg/filters.go`) | compiled patterns | `PathAllowed` and the filters of files | pure functions |
| Command line, signals (`main.go`) | signal goroutine | parse, run, exit status; the first signal cancels, the second exits | exit without saving; what the status means |
| Static aria2 build, integration tests | | | no part of the program |

The parts meet in few places. `RunWithContext` starts the executor, which ranges over
`downloadEntriesCh`, and calls `crawl`, whose workers send on it and which closes it. A
failing executor cancels `crawlCtx`; a signal cancels its parent, and with it both sides.
Workers share the visited cache (one lock), the robots cache (two locks), the FTP
pools (a lock for the table, a semaphore and a lock for each pool) and the HTTP client
(the lock of the rate limiter). Everything else is called synchronously by a worker.

What makes each part correct:

* crawler: the counter is exact; `doneCh` closes when nothing is left and not earlier; no
  send on the closed channel; one resource is handed over once; exactly the reachable,
  allowed files are handed over (section 4: but for robots.txt and the files of SFTPGo
  listings); it always ends, and soon after cancellation;
* download stage: each entry in one session, in order; full sessions, one `aria2c` at a
  time; success only after delivery; it always ends; only an `aria2c` that streams passes
  the probe;
* run: success means complete, the exit status tells what happened, nothing is left
  running;
* pools: tokens and connections balance; one owner each; the limit per server holds;
* robots.txt: one request at a time, nobody waits for ever, rules are not missed;
* HTTP: the rate limit holds among all workers, bodies are closed, cancellation is soon
  felt, and what is found out about a URL is true;
* URLs: one key per resource, nothing outside of the seed's subtree is followed, nothing
  is written outside of the output directory (section 4: but for a followed host `..`), no
  two resources to one file;
* cache: replaced as a whole or not at all, never shrinking, recognised by the next run.

## 2. Modules

| Module | Models | State and actions |
|---|---|---|
| `EntryChannel` | `downloadEntriesCh` | `entriesCh`, `chClosed`, `handed`; SendEntry, ReceiveEntry |
| `WorkPool` | what `crawl` promises about its work | `outstanding`, `drained`; Open, Spawn, Retire |
| `Crawl` | `crawl`, `processCrawlEntry` and what they call | below; implements `WorkPool` |
| `Aria2Batch` | `ExecuteBatchDownload`, sinks, pipe, process | below |
| `StreamingProbe` | `probeAria2StdinStreaming`, its process and goroutines | one action per blocking step; no `Next` of its own |
| `DownloadStage` | `Aria2Batch` and `StreamingProbe` together | the executor waits in `limit` for the probe |
| `Run` | `run` and `RunWithContext`: extends `Crawl` and `Aria2Batch`, which share `EntryChannel` | the checks of Prelude, CrawlPart, BatchPart, CancelCrawl, Join, Save, EndProcess, ForceQuit |
| `FtpPool` | the pools and `ftpListRaw` | one action for what is done under one lock |
| `Listings` | what the FTP and SFTPGo listers make of an answer | operators only |
| `Robots` | `getRobotsData`, `fetchRobotsData` | one action for what is done under one lock or by one request |
| `HttpClient` | the rate limiter, the retry loop, bodies, and time | actions of one request; no `Next` of its own |
| `HttpFetch` | the requests of one entry over `HttpClient`: `fetchRobotsData`, `getLinksByUrlWithContext` or `getSFTPGoLinks`, `sniffHTTPContentTypeWithContext` | Fetch, NextFile, one action per answer, end of body or failure |
| `UrlPaths` | `canonicalURL`, `IsSubPath`, `safeRelativeOutputPath` and its callers | operators only |
| `VisitedCache` | `Load`, `MarkVisited`, `Save` over several runs | one action per system call |
| `Mirror` | `VisitedCache` with real URLs: `UrlPaths` and `Listings` | Meet, and the actions of `VisitedCache` |
| `MC*` | instances for TLC: small sites, entries, hosts, spellings, servers | |
| `*Proofs` | theorems (section 5): one module for a component, `CompositionProofs` for `DownloadStage` and `Run`, `MirrorProofs` for `VisitedCache`, `UrlPaths`, `Listings` and `Mirror` | |
| `Recursion` | lemmas about functions defined by recursion, for the proofs | |

**Crawl.** `inbox`, `work` and `entriesCh` are the channels, `queue` is the dispatcher's
slice, `mpc`, `dpc` and `wpc` say where the calling goroutine, the dispatcher and each
worker are. A select is a choice among actions: the dispatcher's is DispatchIn /
DispatchOut / DispatchStop, the one in `enqueue` OfferAccepted / OfferAborted, the one in
`enqueueDownloadEntry` Send / SendDropped. In `enqueue` the test of `ctx.Done()` and the
increment of `pending` are one step; nothing another goroutine does can tell them apart.
What the network and the filters say about a URL is the constant `Site`: its canonical
key, the lister that handles it, whether filters and robots.txt allow it, and its listing.
With `FetchMayFail` any single request fails at will. Faults that have their own modules
(connections, HTTP requests, robots.txt, the cache file) enter only by their outcome.

**Aria2Batch.** `xpc` is the executor's position, `sink` and `opened` number the
sessions, `put` is what `Write` accepted in each. `sess` is the chain behind the aria2
sink: a write to the `io.Pipe` returns when the copying goroutine has read it, that
goroutine writes into the operating system's pipe of `PipeCap` entries, and `cmd.Wait`
returns when process and goroutine have both ended. An entry goes through the pipe in one
piece. `kind` is the sink the run is configured with, any of `Sinks`. In `ResolveLimit` the
probe may find either; `DownloadStage` puts the probe itself in its place.

**StreamingProbe.** A line that `aria2c` prints is held by the copying goroutine (`out`),
then by the scanning goroutine (`scan`), then by the channel `lines`. A patched binary may
print a marker once it was given the URL, an unpatched one only after its input has been
closed; both may print anything else and exit at any time. The two timers are one event
that may come at any moment. The branch `!ok` at `aria2.go:380` has no action: `outW` is
only closed when `Start` fails, so the scanner never sees the end of its input.

**Run.** The two modules keep their own actions and share the variables of
`EntryChannel`. A step of the crawler leaves the download stage alone but for the
channel, and the other way round. The executor lives from the start of `crawl` to the
end of the process (`ExecutorStarted`); a step after `RunWithContext` has returned can
only be one of an `aria2c` that is still about. `ctxDone` is the caller's context,
`cancelled` is `crawlCtx`, which is derived when the crawl begins and is done at birth when
a signal came before (`Pass`). The checks before the crawl are steps, between which a signal
may come: a cancelled detection of SFTPGo is only logged, a cancelled login ends the
run. `ForceQuit` is the second signal. `BatchAsSpecified` checks that the environment
assumed in `Aria2Batch` (Produce, CloseCh) is what the crawler really does.

**FtpPool.** Names of connections are reused after Quit. `stale` holds connections the
server has dropped, which a listing finds out.

**Listings.** A server is a function from paths to directories, locked directories, files
and links, with a convention for the name it prints in the LIST of a file. Servers that
print more than the base name in the listing of a *directory* are left out; `path.Join`
(`crawler_ftp.go:39`) would nest such names.

**Robots.** A `robotsCall` has a number, because followers may still hold one that has
left the inflight map. Requests may fail from `GoDown` on. Storing the verdict in the
cache and in the call is one step: followers only read the call after `wg.Done()`.

**HttpClient, HttpFetch.** Time passes in ticks, and only when no goroutine could take a
step at once, so that `RateRespected` and `CancelBounded` are about the waiting the code
asks for. `age` is the time since `lastRequest`; `sinceSent`, a history variable, is the
time since anybody sent anything, which is what the limit is about. A request that is out
ends with its answer, an error, the client's timeout or the context. `Resources` are the
kinds of URLs a server may have: there or not, HTML or an SFTPGo listing or neither, with or
without Content-Type, supporting HEAD and ranges or not. A worker repeats Fetch for ever:
an entry of the crawl that needs robots.txt first, by one scheme and then by the other, or
finds its rules known; then the page or listing; then, with MIME filters, HEAD, a ranged
and a plain GET for the page, or HEAD and GET for each file of the listing (NextFile), of
which there are at most `MaxFiles`. Only Fetch looks at the context, as `processCrawlEntry`
does; every later request of the entry is made after the end of the context as well, waits
its turn in the rate limiter, and fails. A worker that waits for another's robots.txt makes
fewer requests than one that asks itself, so it is left to `Robots`. Redirect hops, which
`http.Client` makes inside one `Do`, and the POST of the SFTPGo login (`sftpgo.go:112-164`)
go past the rate limiter and are not in the model.

**UrlPaths, Mirror.** A path is a sequence of characters and escapes (`%61`, `%2E`, `%2F`,
`%5C`: a letter, a dot, the two separators). `path.Clean`, `PathUnescape` and `EscapedPath`
are modelled by what the code relies on. `Mirror` states independently of them what a path
names (`Resource`): the segments that no later dot-segment cancels, with an escaped slash
as a character. Its state is that of `VisitedCache` and the URLs handed over. A path is
taken apart, cleaned and joined by recursive functions over its length, `path.Clean` with
a stack and `Resource` by looking at each name alone. A host is any name without a
separator, `.` and `..` included; `HostSegments` is what joining it to the output directory,
uncleaned, makes of it. `OutputFile` is empty for a URL that gets no name of its own.

**VisitedCache.** A file is the set of its lines; a missing file has none. `Crash` may
happen between any two steps, a loss of power is not modelled (`Save` does not call
fsync), nor are two processes that share `<path>.tmp`.

## 3. Runs

| Run | Instance | Shows |
|---|---|---|
| `CrawlPool` | 3 workers (symmetric), FTP tree whose files are listed twice, requests may fail, cancellation at any moment | `PendingExact`, `ClosedAfterLastSend`, `NoDoubleDownload`; refinement of `WorkPool` (`ImplementsPool`) |
| `CrawlSite` | 2 workers, a web site with a link back, a link outside the accepted paths, a file robots.txt forbids, a rejected file, two spellings, a page at the depth limit, an SFTPGo folder that lists the forbidden file too; MIME filters on | `Complete`, `NothingExtra`; `Completes`; `CancelReturns`, the last without a consumer |
| `CrawlDepthRace` | 2 workers, a page on two paths, depth limit | violation of `Complete` |
| `CrawlResume` | the seed is in the loaded cache | violation of `ResumeComplete` |
| `Batch` | 3 valid entries and an invalid one, sessions of 2, all sinks, the probe with 3 lines and a channel of 1, every fault | `EntriesOnce`, `SessionsInTurn`, `PipeFaithful`, `ProbeSound`, `NilMeansDelivered`, `ReturnsIfRead` |
| `BatchHang` | one streaming session, aria2c may die | violation of `ExecutorReturns` |
| `Run` | 2 workers, FTP tree of three files, SFTPGo login, aria2 or file sink, every fault, two signals | `SuccessMeansComplete`, `ExitTells`, `NothingLeftRunning`, `BatchAsSpecified`, `RunReturns` |
| `RunInterrupted` | cancellation at any moment | violation of `SavedWasHandedOver` |
| `FtpPool` | 3 workers, 2 servers, 2 connections each, every fault | `TokensExact`, `ExclusiveUse`, `ConnectionLimit`, `NoneLeaked`, `ListingEnds` |
| `Robots` | 2 workers with 2 questions each, 3 hosts, the network may go down | `OneAtATime`, `AnswersSettled`, `RulesNotMissed`, `Answered` |
| `Http` | 2 workers, all kinds of resources in `MCHttpFetch`, robots.txt by two schemes, listings of up to 2 files, 2 attempts, an interval of 1 tick, cancellation at any moment | `RateRespected`, `CancelBounded`, `BodiesClosed`, `VerdictSound`, `FetchEnds` |
| `Cache` | 2 runs over six URLs, among them two spellings, a sorted listing and a line too long to load, every fault; for the functions, all paths of up to 5 words out of 8, 5 seeds, 5 hosts with `.` and `..` among them, and all FTP servers with up to 5 places | `SavedWhole`, `GrowsOnly`, `OneFileEach`; `KeysExact`, `SubtreeOnly`, `OutputInside`, `ListingsExact` |

**Bounds.** All channels have capacity one (the executor's two in `Batch`), so full and
empty channels both occur with a handful of URLs; the code uses larger capacities, which
only makes blocking rarer. In `CrawlSite` two pages have three links each, which is more
than inbox, dispatcher with a single slot, work channel and workers could hold: a
dispatcher without its unbounded queue would deadlock there. Two workers suffice for every
race between two entries; `CrawlPool` adds a third. Sessions of two with three valid
entries give a full session and a shorter one. Three lines of the probe are one more than
channel and scanner hold. In `FtpPool` three workers compete for two tokens, so a worker
can take the token that another has just given back between its attempts. Two attempts
are one retry; the proofs cover any number. In `Http` a listing of two files makes a worker
owe four requests when the context ends, one more than the lookups and the page of any
other entry; TLC reaches states in which the wait is all of `CancelBound`, so the bound is
tight. In the code the length of a listing has no limit but the server's, and so has the wait;
`CancelBound` is a function of `MaxFiles`, and the theorem holds for each value.
Two runs in `Cache` are one that dies or saves and one that loads what is left. Five words
are a name, two dot-segments in any escaping and what they cancel or fail to cancel.
`MaxAsks`, `MaxLists`, `MaxVisits`, `MaxPrinted` and `MaxRuns` bound how often an environment
acts; nothing in the code depends on them.

**Fairness.** Go runs every goroutine that can run, and network calls return: the HTTP
client has timeouts and FTP dials have one. (A LIST on an open FTP connection has no
deadline of its own; that it returns is an assumption.) Hence weak fairness for each
goroutine. `Lock` of `HttpClient` has strong fairness: a `sync.Mutex` hands itself over to
a goroutine that has waited for a millisecond, so no worker is passed over for ever. An
`aria2c` at the end of its input exits (`AriaExit`); that it dies earlier, or prints
anything, is never owed. The consumer of `downloadEntriesCh` gets no fairness in `Crawl`;
`Completes` names it as its premise, and in `Run` the real executor takes its place. No
fairness is assumed of users, servers or the disk. Deadlock is checked except in `Batch`
and `Run` and the runs that look for their hangs, where the stops of section 4 are possible.

## 4. What was found

Four runs look for a violation and TLC finds it; in each the code disagrees with a line of
its own documentation.

1. `BatchHang`: when `aria2c` ends early, the copying goroutine of os/exec ends after one
   failed write, but the reading end of the `io.Pipe` is never closed. The next `Write`
   blocks for ever, and `Close` is not reached. `ReturnsIfRead` shows that this
   (`WritesToNobody`) and the flooded probe below are the only ways the stage can hang. In a
   whole run the first signal is enough for it: it kills `aria2c`, and the executor may have
   entries left that it received before. `RunReturns` has the same premise.
2. `RunInterrupted`: URLs are marked before they are handed over; the send is dropped on
   cancellation; the cache is saved all the same. The next run skips the file.
3. `CrawlResume`: the seed is in the saved cache too, so a resumed run does nothing at all.
4. `CrawlDepthRace`: a URL is remembered without its depth. Two workers can mark a page by
   its longer path first; the depth limit then cuts links that are within the limit.

Others were met while modelling and have no run of their own; where a property had to be
stated with a premise because of one, the premise says so:

* a `crawlCtx` that is done before the seed is in the inbox makes `crawl` return at
  `lib.go:348-351` without closing `downloadEntriesCh`; the executor waits on it and
  `RunWithContext` on the executor. Any signal up to then does that, unless it makes a check
  before the crawl fail: `crawlCtx` is derived from a context that is done (`lib.go:286`).
  `RunReturns` excepts these runs (`mpc # "left"`) and
  those of `WritesToNobody`, and no others; signals that come later are in it;
* an `aria2c` that prints more lines than `lines` holds after the probe has decided makes
  `cmd.Wait` at `aria2.go:403` wait for ever (premise `ProbeQuiet`);
* after a run of nothing but invalid entries `ExecuteBatchDownload` returns with the sink
  open (`aria2.go:130-133`; action `Ended`, premise of `NothingLeftRunning`);
* `IsSubPath` compares decoded paths, so `/a%2Fb` counts as below `/a`, and `/a/b` as
  below a seed `/a%2Fb` (premises of `SubtreeOnly`), and a name that ends in `%2F` loses
  it in its key, once more with each application: `canonicalURL` is not idempotent there
  (premise of `KeysExact`);
* URLs that differ in host or query, or in an escaped separator, are saved to the same
  file when the path is relative to the seed's (`lib.go:627`; definition `Plain`); and with
  `--follow-external` a URL outside of the seed's path goes to the directory of its host,
  which may be a directory of that name below the seed's: for the seed `http://h/a`,
  `/a/h/b` and `/b` are both saved to `h/b`. That one came out of the
  attempt to prove `OneFileEach`, and is the last condition of `Plain`;
* the sniffer takes a body that breaks off for an empty one (`mime_http.go:48`;
  verdict `text`);
* files of an SFTPGo listing are not checked against robots.txt (`lib.go:462-476`, action
  `GetFile`), where README.md:61 of the repository says "Respect robots.txt when crawling".
  The reference crawl of `NothingExtra` does ask about them, the property excepts the ones
  that are forbidden (`Forbidden`), and `CrawlSite` has one;
* the host of a URL becomes a directory without being cleaned (`lib.go:647-649`, `663-664`).
  With `--follow-external` a link to the host `..` is downloaded next to the output directory
  instead of below it. `OutputInside` excepts this host, for URLs that are not kept without
  `--follow-external`; every other host and every path stays inside;
* a cancelled run still waits for three requests of each worker in the rate limiter (robots.txt
  twice and the page), and with MIME filters for two of each file of an SFTPGo listing, which
  processCrawlEntry goes through without a look at the context (`CancelBound`);
* the FTP retry may get a second stale idle connection although `crawler_ftp.go:138` says
  "fresh" (`PickIdle`);
* a worker that has looked into the robots cache too early fetches again, although not at
  the same time, where `robots_http.go:45` says "only one fetch per host" (`Lead`);
* a key longer than 64 KiB is saved and makes each later `Load` fail (`LoadFailed`);
* `--aria2-session-size` is ignored with `--write-batch` (`aria2.go:70-72`) although
  README.md:166-167 recommends the combination.

## 5. Proofs

All from the assumptions on the constants that the modules name; a theorem with a
hypothesis of its own names it. Every safety property that a run checks is stated by a
theorem, for every value of the constants.

**Crawl: the counter** (`CrawlProofs`), for any finite set of workers, any site, capacities
and depth: `TypeCorrect`, `CounterExact` (`PendingExact`), `DoneIsDrained`, `NoSendOnClosed`
(`ClosedAfterLastSend`), all from `CrawlInductive == CrawlSpec => []IInv`; and
`CrawlImplementsPool`: every step maps to a step of `WorkPool` or to a stutter, with
`outstanding` as the number of entries in channels, queue, workers and offers. `PoolFinal`
is what that gives: once `doneCh` is closed it is not closed again and nothing is enqueued.

`IInv` is `TypeOK /\ PendingExact /\ DoneMeansDrained /\ Structure`. `PendingExact` is not
inductive alone: a worker that is outside its loop must not release, and nobody may
enqueue before the seed; `Structure` ties the positions of the three kinds of goroutines
together (workers are born with the dispatcher, `work` is closed when it stops, nobody is
busy after the seed was refused). `DoneMeansDrained` needs `PendingExact`: the step that
closes `doneCh` sees the counter at zero, and a sum of naturals that is zero has only zero
parts (`ZeroMeansDrained`). Counting busy and offering workers when one of them moves is
`GotoCounts`, from the library's facts about cardinality.

**Crawl: not twice.** `HandedOverOnce`, which states `NoDoubleDownload`. The invariant is
about claims: the worker that finds a key unvisited marks it in the same step
(`LoadOrStore`), and from then on it alone may hand it over, until it has sent it or given
it up (`Claimed`, disjoint for different workers and from what was sent). A claim is not
copied, because a worker has one job of its own or the jobs of a listing, which claim
nothing before their own mark (`OneOwnJob`).

**Crawl: nothing else.** `OnlyReached`, which states `NothingExtra`. By `ReachInv` every
entry in a channel, queue or worker is met by the reference crawl at its depth, and
every job in a worker's list is one of a page that the reference crawl walks. The
reference crawl asks robots.txt on every path, for the files of a listing too; those of
SFTPGo listings that it forbids are excepted by name (`Forbidden`), since the code does
not ask there. An entry is no deeper than there are visited keys (`Reached`), and so
within the `Cardinality(Urls)` hops after which the reference crawl stops.

**Crawl: nothing less.** `NothingMissed`, which states `Complete`, under the hypothesis
`Unambiguous`: what can be met twice (under two spellings of one key, at two depths, as a
page and as a file of a listing) is worth as much in one place as in the other. The
hypothesis is about the site and the options, not about the run, and it is needed: whoever
marks a key first decides what becomes of it, and `CrawlDepthRace` is a site where the
hypothesis fails, and `Complete` with it. `MCCrawl` and `MCRun` assert that the sites of the
passing runs meet it. The invariant `Found` says that what has been found is never lost
from sight. The links and files of a walked listing are with a worker or in a channel
until their keys are visited (`Awaited`, `FileAwaited`); a visited key stands for a page
that is being fetched or has been handled (`AsPage`), or for a file of a listing that was
sent or is about to be (`AsFile`). When `doneCh` closes nothing is in any channel or worker,
so every awaited key is visited, and induction along the hops of the reference crawl
gives `Complete`.

**Aria2Batch** (`BatchProofs`), for any entries, sinks, session size and capacities:
`EntriesPlacedOnce` (`EntriesOnce`) and `SuccessIsDelivery` (`NilMeansDelivered`), from
`BatchInductive`, which joins three invariants. `BatchInv`: a session is opened for an entry
of its own, and no entry is sent twice, so there are never more sessions than entries
(`Fresh`, `Bounded`); the counter of the open session is the number of its entries and below
the limit while it is open for more (`Filling`), so one that is closed to make room is full,
which is `SessionsInTurn`. `PipeInv`: an `aria2c` that ended well had seen the end of its
input with nothing left in front of it (`Lossless`), which is `PipeFaithful`. `EndInv`: the
executor holds an entry only on its way to a sink, or when it fails; it returns nil only at
the end of the channel; each session but the open one has ended well and was waited for
(`Ends`); what was accepted for the batch file is in it or in its buffer (`FileInv`). The two
functions that join sessions and pick the valid entries are recursive; `FlatAppend` and
`WritableAppend` say what they do in one step.

**Compositions** (`CompositionProofs`). `StageAsSpecified`: each step of `DownloadStage` is a
step of `Aria2Batch` or a stutter, hence `SessionsFollow`, `NothingLostInPipe` and
`StageDelivers`. `ProbeHonest` (`ProbeSound`) needs that the probe's input is open as long as
lines are read, and that while it is, no marker of an unpatched `aria2c` is anywhere
between the process and the probe (`Honest`). That it prints none before, whatever else it
prints, is the assumption of `PrintLine` about binaries without the patch (`aria2.go:311-313`).

In `Run`, `RunCrawls` and `StageInRun` (`BatchAsSpecified`) say the same of crawler and download
stage. For the crawler it holds because the executor only receives. For the stage the
lemmas are about the crawler: a worker sends only a URL it has claimed, so none is sent
twice (`HandedOverOnce`), and the channel is closed after the last worker has left
(`NoSendOnClosed`). With that, all invariants of the parts are invariants of the run
(`RunInductive`), together with `RunInv` (what was returned, saved and reported at each
point) and `Cause` (a cancelled crawl was cancelled by the user or by a failed executor).
From it follow `ExitIsTrue` (`ExitTells`), `AllHasEnded` (`NothingLeftRunning`) and, under
`Unambiguous`, the end-to-end `ZeroMeansAll` (`SuccessMeansComplete`): status 0 without a signal
means that nothing was cancelled, so the crawl was complete; that `crawl` had closed the
channel and the executor had emptied it; and that what it placed in sessions was read.

**FtpPool** (`FtpPoolProofs`), for any workers, servers, connections and pool size:
`TokensAccounted`, `LimitHolds`, `OneOwner`, `AllClosed`. The counting invariant adds to
`TokensExact` and `ConnectionLimit` that a worker with a token has looked its pool up
(`Looked`), that a pool nobody has made is empty (`Unmade`), and that exactly the listing
workers have a connection (`Holding`). The limit on connections follows from the tokens by
this argument: a worker that is about to dial holds a token, is not yet counted as active
and has found no idle connection. Ownership is a second invariant over the first: no
connection is idle twice (`OwnedOnce`), and each open one is idle or held (`NoOrphan`),
which is also why closing the idle ones at the end closes all.

**Robots** (`RobotsProofs`), for any workers and hosts: `SingleFlight`,
`FollowersSettled`, `RulesFound`. `Leading` and `Led` make the inflight map and the leaders
the same thing, so that a worker that finds no call finds no leader (`Single`); `Settled`
says that what is in a call before `wg.Done()` is there when a follower reads it, in the
map or not; `Right` and `Tried` that a call never changes its host, and that the second
scheme is only asked when the first has refused.

**HttpFetch** (`HttpFetchProofs`), for any workers, delays, number of attempts and
resources: `RateLimitHolds`, `BodiesAccounted`, `VerdictsHold`, `CancelWaitsBriefly`.
The rate limit needs that `lastRequest` agrees with the time of the last request of
anybody (`Stamped`), that only the holder of the mutex sleeps (`Alone`), and that it
sleeps for the rest of the interval (`Paced`); all other steps are `Calm`.
`CancelWaitsBriefly` (`CancelBounded`) counts the requests that workers still owe when
the context has ended (`Owed`, as a set `Debts` of pairs): the present one, if it is not
sent yet, what may follow it (two after robots.txt, one after the other scheme or a
HEAD, those of all its files after a listing), and two for each file of a listing that
is left. That is at most `LateRequests` (`OwedBounded`), because files are left only
while a listing is worked off (`Counted`). No step adds to the debts (`NoNewDebt`),
sending pays for one, and the clock runs only while somebody sleeps in the rate limiter,
so that the ticks since the end and the ticks still owed never exceed the bound
(`Paid`).

**VisitedCache** (`MirrorProofs`): `CacheTypeCorrect` and `FileSavedWhole`, from
`Progress` (in each step of `Save` what is written, buffered and left to write adds up to
the cache). `SavedIsRecognised` and `FileGrowsOnly` also need `Loaded` (the file is part
of the cache while a run is past loading) and `Canonical` (`canonicalURL` leaves saved keys
alone), and have `Idempotent` as a hypothesis.

**Mirror** (`MirrorProofs`), for any set of URLs, paths of any length over any tokens, any
seed and any FTP server:

* `FtpListingsExact` (`ListingsExact`): the single entry that the LIST of a path gives is
  told apart by the entry of its name in the listing above it.
* `NothingOutside` (`OutputInside`): what `CleanSegments` leaves are names
  (`CleanSegmentsType`), and the backslashes have been made slashes before. The host's
  directory is a name too, unless the host is `..` (`HostIsName`), and a URL of that host is
  not on the seed's server, so it is kept only with `--follow-external` (`HostNotKept`).
* `OneKeyPerResource` (`KeysExact`) and `SameKeySameResource`. `CleanIsResource` is the
  heart of it: at each segment, the stack of `path.Clean` holds the names that stay so far,
  in order (`StackOf`). For that to be kept by a step it must also be said how far each of
  them is from being cancelled: the name at place k of a stack of L has L - k more names
  than ".." after it, and never had less than none (`Depth`). Then `CanonicalPathExact`: the
  way through `URL.Path`, `URL.RawPath` and `EscapedPath` gives back the cleaned path, unless
  its last name ends in an escaped slash.
* `MirrorRecognises` and `MirrorGrowsOnly` discharge the hypothesis of the cache's theorems:
  joined names, taken apart, are the same names (`JoinedApart`), and a normalised path is
  left alone by normalising, so `canonicalURL` leaves its own results alone (`KeyTwice`),
  under the same exception, which is their hypothesis and needed (section 4).
  `CacheAsSpecified` says that each step of `Mirror` is one of `VisitedCache`.
* `SubtreeIsExact` (`SubtreeOnly`): one joined path goes on with a slash after another just
  when the one has more names (`JoinedBelow`, `BelowJoined`), and without escaped slashes
  no two normal paths are decoded to one (`UnescapedPrefix`).
* `FileNamesOneResource` (`OneFileEach`): a path without dot-segments is cleaned on both
  sides of a slash by itself (`CleanBetween`), so the file below the seed, behind the seed's
  own names, is the resource again (`FileOfPlain`); and a file below the host's directory is
  not one of those (`HostOrSeed`).

The tokens are arbitrary strings; nothing is assumed of them but that a path as
`EscapedPath` gives it has no backslash.

**Recursion** has the induction that these proofs need of a recursive function: it exists
(so its equations may be used), two functions with the same steps are the same, and a set
that is closed under the steps contains all numbers up to a bound. It is stated for sets
and comes from the least element of a set of naturals, because a theorem with a predicate
as its parameter cannot be instantiated by the provers at hand.

**Model-checked only.** Liveness and everything under fairness (out of TLAPS's reach
here): `Completes`, `CancelReturns`, `ReturnsIfRead`, `RunReturns`, `ListingEnds`,
`Answered`, `FetchEnds`. So are the four violations of section 4.

## 6. Not modelled, and why

* Filters: conjunctions of regular expressions and sets of names without state; their
  results are fields of `Site`. Splitting comma-separated patterns is part of the command
  line.
* HTML parsing, robots.txt rules, FTP and HTTP themselves: libraries.
* Requests with `DisableRetries`, which return a status of 429 or 5xx to the caller as an
  answer; `SetCookie`, which is called before there are workers; `IsHtmlPage`, which the
  program does not call.
* Host names: lower-casing, user information, the brackets of IPv6 addresses that
  `Hostname()` drops with a default port (`urlutils.go:37`).
* A LIST in which an FTP server names the entries of a directory by their full path.
* An `aria2c` that exits with status 0 before the end of its input; os/exec hides
  the broken pipe then and the code cannot notice.
* Build scripts and tests.

## 7. Plan

1. `Robots` over `HttpFetch`, which makes the two requests of a lookup but knows nothing of
   the cache or of followers, instead of requests that are one step.
2. The filters as operators, with the regular expressions as sets of paths.
3. The safety half of what is only model-checked: a variant for each loop that must end.

## 8. Running it

    tlc -config CrawlPool.cfg MCCrawl
    tlapm CrawlProofs.tla

`PROJECT.json` lists every run with its module, the source lines behind each definition,
the hazards and the properties that cover them, and, for each property, a changed
definition (marked `Mutant` in the modules) with which the property must fail.
