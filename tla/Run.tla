-------------------------------- MODULE Run ---------------------------------
(***************************************************************************)
(* run() of main.go and RunWithContext() of pkg/lib.go: the checks before  *)
(* the crawl; the crawler (Crawl) and the download stage (Aria2Batch) side *)
(* by side, joined by downloadEntriesCh, the two contexts and              *)
(* downloadErrCh; the cache, the signals and the exit status.              *)
(*                                                                         *)
(* ctxDone is the context of the caller, cancelled that of crawlCtx, which *)
(* also ends when the executor fails.                                      *)
(***************************************************************************)
EXTENDS Crawl, Aria2Batch

CONSTANTS
  SftpgoSeed,      \* IsSFTPGoURL of the seed
  PreludeMayFail   \* may a check before the crawl, or saving the cache, fail?

ASSUME RunAssumption == {SftpgoSeed, PreludeMayFail} \subseteq BOOLEAN

VARIABLES
  rpc,     \* where RunWithContext is: look, load, output, detect, loginPage,
           \* loginPost, crawl, save, returned; exited when the process has ended
  saved,   \* the keys in the visited-cache file
  err,     \* what RunWithContext returned
  exit     \* the exit status, -1 before

crawlOwn == <<poolVars, mpc, dpc, workerVars, visited>>
batchOwn == <<executorVars, put, sess, buf, disk>>
runOwn   == <<rpc, saved, err, exit>>
vars     == <<crawlOwn, cancelled, channel, ctxDone, batchOwn, runOwn>>

Init ==
  /\ CrawlInit /\ BatchInit
  /\ rpc = "look" /\ saved = Preloaded /\ err = "none" /\ exit = -1

Leave(e) == rpc' = "returned" /\ err' = e

-----------------------------------------------------------------------------
(* Before the crawl.                                                       *)

\* crawlCtx is derived when the crawl begins, from a context that may be done already.
Pass(from, to, mayFail) ==
  /\ rpc = from
  /\ \/ /\ rpc' = to /\ UNCHANGED err
        /\ cancelled' = (cancelled \/ (to = "crawl" /\ ctxDone))
     \/ mayFail /\ Leave("err") /\ UNCHANGED cancelled
  /\ UNCHANGED <<crawlOwn, channel, ctxDone, batchOwn, saved, exit>>

\* aria2c is only looked for when it is the sink.
LookPath == Pass("look", "load", PreludeMayFail /\ kind = "aria2")

LoadCache == Pass("load", "output", PreludeMayFail)

EnsureOutput == Pass("output", IF SftpgoSeed THEN "detect" ELSE "crawl", PreludeMayFail)

\* A failed detection of SFTPGo, which the end of the context is enough for, is only
\* logged.  At rpc = "crawl" the executor goroutine is started and crawl() called.
Detect == Pass("detect", "crawl", FALSE) \/ (~ctxDone /\ Pass("detect", "loginPage", FALSE))

\* The form with its token and a first cookie, and the credentials for the cookie of
\* the session: a failed login ends the run.
Request(from, to) == Pass(from, to, PreludeMayFail \/ ctxDone) /\ (ctxDone => rpc' = "returned")

LoginPage == Request("loginPage", "loginPost")
LoginPost == Request("loginPost", "crawl")

Prelude == LookPath \/ LoadCache \/ EnsureOutput \/ Detect \/ LoginPage \/ LoginPost

-----------------------------------------------------------------------------
CrawlPart ==
  /\ rpc = "crawl" /\ CrawlStep
  /\ UNCHANGED <<ctxDone, batchOwn, runOwn>>

\* Since crawl() was called, and as long as the process lives.
ExecutorStarted == rpc = "crawl" \/ (rpc \in {"save", "returned"} /\ mpc # "seed")

BatchPart ==
  /\ ExecutorStarted /\ BatchStep
  /\ UNCHANGED <<crawlOwn, cancelled, runOwn>>

\* The first signal cancels the context of the run.
UserCancel ==
  /\ rpc # "exited" /\ Cancel
  /\ UNCHANGED <<crawlOwn, cancelled, runOwn>>

\* Mutant: the executor's failure does not cancel the crawl.
CancelCrawlByUserOnly ==
  /\ rpc = "crawl" /\ ~cancelled /\ ctxDone
  /\ cancelled' = TRUE
  /\ UNCHANGED <<crawlOwn, channel, ctxDone, batchOwn, runOwn>>

\* Once it exists, crawlCtx ends with its parent, or by cancel() when the executor failed.
CancelCrawl ==
  /\ rpc = "crawl" /\ ~cancelled
  /\ ctxDone \/ (xpc = "ret" /\ result = "err")
  /\ cancelled' = TRUE
  /\ UNCHANGED <<crawlOwn, channel, ctxDone, batchOwn, runOwn>>

\* Mutant: RunWithContext does not wait for the executor.
JoinUnwaited ==
  /\ rpc = "crawl" /\ Returned
  /\ rpc' = "save"
  /\ UNCHANGED <<crawlOwn, cancelled, channel, ctxDone, batchOwn, saved, err, exit>>

\* crawl() has returned and downloadErrCh delivers; the executor calls cancel()
\* before it reports an error.
Join ==
  /\ rpc = "crawl" /\ Returned
  /\ xpc = "ret" /\ (result = "err" => cancelled)
  /\ rpc' = "save"
  /\ UNCHANGED <<crawlOwn, cancelled, channel, ctxDone, batchOwn, saved, err, exit>>

\* Mutant: the error of the download stage is lost once the cache is saved.
SaveForgets ==
  /\ rpc = "save"
  /\ saved' = visited /\ Leave("nil")
  /\ UNCHANGED <<crawlOwn, cancelled, channel, ctxDone, batchOwn, exit>>

\* saveVisitedCache(), and the error RunWithContext returns.
Save ==
  /\ rpc = "save"
  /\ \/ saved' = visited /\ Leave(result)
     \/ PreludeMayFail /\ UNCHANGED saved /\ Leave("err")
  /\ UNCHANGED <<crawlOwn, cancelled, channel, ctxDone, batchOwn, exit>>

\* main(): 130 for an error of a cancelled run, 1 for any other.
EndProcess ==
  /\ rpc = "returned"
  /\ rpc' = "exited" /\ exit' = (IF err = "nil" THEN 0 ELSE IF ctxDone THEN 130 ELSE 1)
  /\ UNCHANGED <<crawlOwn, cancelled, channel, ctxDone, batchOwn, saved, err>>

\* A second signal ends the process where it stands: nothing is saved.
ForceQuit ==
  /\ ctxDone /\ rpc # "exited"
  /\ rpc' = "exited" /\ exit' = 130
  /\ UNCHANGED <<crawlOwn, cancelled, channel, ctxDone, batchOwn, saved, err>>

Terminated == rpc = "exited" /\ UNCHANGED vars

MainPart == Prelude \/ Join \/ Save \/ EndProcess

Next == MainPart \/ CrawlPart \/ BatchPart \/ UserCancel \/ CancelCrawl \/ ForceQuit \/ Terminated

Spec == Init /\ [][Next]_vars

WhileCrawling(A) == rpc = "crawl" /\ A /\ UNCHANGED <<ctxDone, batchOwn, runOwn>>
WhileRunning(A)  == ExecutorStarted /\ A /\ UNCHANGED <<crawlOwn, cancelled, runOwn>>

\* Every goroutine that can take a step takes one, and requests end.
FairSpec ==
  /\ Spec
  /\ WF_vars(MainPart) /\ WF_vars(CancelCrawl)
  /\ WF_vars(WhileCrawling(MainStep)) /\ WF_vars(WhileCrawling(DispatcherStep))
  /\ \A w \in Workers : WF_vars(WhileCrawling(WorkerStep(w)))
  /\ WF_vars(WhileRunning(ExecutorStep))
  /\ \A s \in Sessions : WF_vars(WhileRunning(SessionStep(s)))

-----------------------------------------------------------------------------
(* Properties.                                                             *)

Taken == IF kind = "file" THEN SeqSet(disk) ELSE UNION {SeqSet(sess[s].fed) : s \in Sessions}

\* End to end: when the process exits with status 0 and neither the user nor the
\* network interfered, every resource of the reference crawl that can be written
\* is in the batch file, or was read by an aria2c that finished with status 0.
SuccessMeansComplete ==
  exit = 0 /\ ~ctxDone /\ ~FetchMayFail /\ Preloaded = {}
    /\ kind # "discard" /\ Malformed = {} =>
    /\ Expected \subseteq {Key(u) : u \in Taken}
    /\ kind = "aria2" => \A s \in 1..opened : sess[s].proc = "ok"

\* The exit status tells what happened: 0 only when the download stage has ended
\* without error and every visited URL is in the cache file, whatever the order of
\* failures; 130 only after a signal; 1 only when a check or the stage failed, or the
\* saving of the cache, which then is as the run found it.
ExitTells ==
  /\ exit = 0 => result = "nil" /\ saved = visited
  /\ exit = 130 => ctxDone
  /\ exit = 1 => mpc = "seed" \/ result = "err" \/ saved = Preloaded

\* However a run ends that got as far as crawling, the executor and every worker
\* have returned; no aria2c is left running either once it was given an entry it
\* could be given.
NothingLeftRunning ==
  rpc = "returned" /\ mpc # "seed" =>
    /\ xpc = "ret"
    /\ dpc # "run" /\ \A w \in Workers : wpc[w] \in {"unborn", "exit"}
    /\ Valid # <<>> => \A s \in Sessions : sess[s].proc # "run"

\* What the download stage assumes of its environment is what the crawler does:
\* it sends no entry twice and none after closing the channel.
BatchAsSpecified == BatchSpec

\* The documentation of --visited-cache: interrupted runs can resume.  A resource
\* that the saved cache hides from the next run was handed to the download stage.
SavedWasHandedOver ==
  rpc = "returned" /\ Preloaded = {} =>
    saved \intersect Expected \subseteq {Key(u) : u \in SeqSet(handed)}

\* A run ends: when its checks fail, when aria2c cannot be started, fails or dies, when
\* the batch file cannot be written while the workers are blocked on a full channel, and
\* when a signal ends the crawl or the checks before it.  There are two exceptions, and
\* each is a hang of the code that only a second signal ends.  A signal that makes
\* crawlCtx done before the seed is in the inbox (during those checks that it does not
\* make fail, or the first steps of crawl()) lets crawl() leave without closing the
\* channel that the executor ranges over.  And when aria2c is gone, by its own fault or
\* killed after a signal, a second Write finds no reader (BatchHang).
RunReturns == [](~WritesToNobody /\ mpc # "left") => <>(rpc = "exited")

=============================================================================
