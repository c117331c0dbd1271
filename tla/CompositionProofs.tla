-------------------------- MODULE CompositionProofs --------------------------
(***************************************************************************)
(* Proofs about the compositions: the download stage with its probe        *)
(* (DownloadStage), and the whole run (Run).  What holds of a component by *)
(* itself is carried over by showing that the composition takes no steps   *)
(* with it that the component alone would not.                             *)
(***************************************************************************)
EXTENDS Run, DownloadStage, CrawlProofs, BatchProofs

-----------------------------------------------------------------------------
(* With the probe.                                                         *)

\* The composition with the probe takes the steps of the download stage, and others
\* that the stage does not see: what is proved of the one holds of the other.
THEOREM StageAsSpecified == StageFairSpec => BatchSpec
<1>1. StageInit => BatchInit
  BY DEF StageInit
<1>2. [StageNext]_stageVars => [BatchNext]_batchVars
  BY DEF StageNext, stageVars, InProbe, InBatch, BatchNext, BatchStep
<1> QED BY <1>1, <1>2, PTL DEF StageFairSpec, BatchSpec

\* SessionsInTurn: sessions of aria2c are full, follow one another and never overlap,
\* for any stream of entries and any session size.
THEOREM SessionsFollow == StageFairSpec => []SessionsInTurn
<1>1. BatchInv /\ PipeInv => SessionsInTurn
  BY DEF BatchInv
<1> QED BY <1>1, BatchInductive, StageAsSpecified, PTL

\* PipeFaithful: as long as aria2c lives, or has ended well, nothing that Write accepted
\* is lost, doubled or reordered on its way to it.
THEOREM NothingLostInPipe == StageFairSpec => []PipeFaithful
<1>1. BatchInv /\ PipeInv => PipeFaithful
  BY DEF PipeInv, Lossless, PipeFaithful
<1> QED BY <1>1, BatchInductive, StageAsSpecified, PTL

\* EntriesOnce, NilMeansDelivered: whatever the probe has found out, every valid entry
\* goes to one session, and a nil error means that it has arrived.
THEOREM StageDelivers == StageFairSpec => [](EntriesOnce /\ NilMeansDelivered)
BY StageAsSpecified, EntriesPlacedOnce, SuccessIsDelivery, PTL

\* A marker on its way to the probe, which reads it only while the input is open, was
\* printed by an aria2c that streams.
Marker(q) == \E i \in 1..Len(q) : q[i] = "marker"

Honest ==
  /\ out \in Seq(Line) /\ scan \in Seq(Line) /\ lines \in Seq(Line)
  /\ ppc \in {"start", "write", "loop", "stop"} => stdinOpen
  /\ stdinOpen /\ ~patched => ~Marker(out) /\ ~Marker(scan) /\ ~Marker(lines)
  /\ streaming => patched

ProbeInv == Honest /\ ProbeSound

\* A line that moves on between the goroutines was already on its way.
LEMMA MarkerPasses ==
  ASSUME NEW x \in Seq(Line), NEW y \in Seq(Line)
  PROVE  /\ ~Marker(<<>>)
         /\ Marker(x \o y) => Marker(x) \/ Marker(y)
         /\ x # <<>> => Head(x) \in Line /\ (Head(x) = "marker" => Marker(x))
         /\ x # <<>> => Tail(x) \in Seq(Line) /\ (Marker(Tail(x)) => Marker(x))
<1>1. ~Marker(<<>>)
  BY EmptySeq DEF Marker
<1>2. Marker(x \o y) => Marker(x) \/ Marker(y)
  <2> SUFFICES ASSUME NEW i \in 1..Len(x \o y), (x \o y)[i] = "marker" PROVE Marker(x) \/ Marker(y)
    BY DEF Marker
  <2>1. /\ Len(x) \in Nat /\ Len(y) \in Nat /\ Len(x \o y) = Len(x) + Len(y)
        /\ (x \o y)[i] = IF i <= Len(x) THEN x[i] ELSE y[i - Len(x)]
    BY ConcatProperties, LenProperties
  <2>2. CASE i <= Len(x)
    BY <2>1, <2>2 DEF Marker
  <2>3. CASE i > Len(x)
    <3>1. i - Len(x) \in 1..Len(y) /\ y[i - Len(x)] = "marker"
      BY <2>1, <2>3
    <3> QED BY <3>1 DEF Marker
  <2> QED BY <2>1, <2>2, <2>3
<1>3. x # <<>> => Head(x) \in Line /\ (Head(x) = "marker" => Marker(x))
  <2> SUFFICES ASSUME x # <<>> PROVE Head(x) \in Line /\ (Head(x) = "marker" => Marker(x))
    OBVIOUS
  <2>1. Head(x) \in Line /\ Head(x) = x[1] /\ 1 \in 1..Len(x)
    BY HeadTailProperties, EmptySeq
  <2> QED BY <2>1 DEF Marker
<1>4. x # <<>> => Tail(x) \in Seq(Line) /\ (Marker(Tail(x)) => Marker(x))
  <2> SUFFICES ASSUME x # <<>> PROVE Tail(x) \in Seq(Line) /\ (Marker(Tail(x)) => Marker(x))
    OBVIOUS
  <2>1. /\ Tail(x) \in Seq(Line) /\ Len(x) \in Nat /\ Len(Tail(x)) = Len(x) - 1
        /\ \A i \in 1..Len(Tail(x)) : Tail(x)[i] = x[i + 1]
    BY HeadTailProperties, LenProperties
  <2>2. \A i \in 1..Len(Tail(x)) : i + 1 \in 1..Len(x)
    BY <2>1
  <2> QED BY <2>1, <2>2 DEF Marker
<1> QED BY <1>1, <1>2, <1>3, <1>4

\* One case for each step of the probe and its process.
LEMMA ProbeStepKeeps ==
  ASSUME Honest, ProbeMain \/ OutputStep \/ ProbedStep
  PROVE  Honest' /\ patched' = patched
<1>1. out \in Seq(Line) /\ scan \in Seq(Line) /\ lines \in Seq(Line) /\ <<>> \in Seq(Line)
  BY EmptySeq DEF Honest
<1>2. CASE ProbeStart \/ ProbeWrite \/ ProbeTimeout \/ ProbeStop \/ ProbeKill \/ ProbedExits
  BY <1>2 DEF Honest, ProbeStart, ProbeWrite, ProbeTimeout, ProbeStop, ProbeKill, ProbedExits, ariaVars
<1>3. CASE ProbeLine
  <2>1. /\ ppc = "loop" /\ lines # <<>> /\ lines' = Tail(lines)
        /\ UNCHANGED <<patched, probeProc, printed, out, stdinOpen, probed, scan>>
    BY <1>3 DEF ProbeLine, ariaVars
  <2>2. \/ Head(lines) = "marker" /\ streaming' = TRUE /\ ppc' = "stop"
        \/ streaming' = streaming /\ ppc' = ppc
    BY <1>3 DEF ProbeLine
  <2>3. /\ Head(lines) = "marker" => Marker(lines)
        /\ Tail(lines) \in Seq(Line) /\ (Marker(Tail(lines)) => Marker(lines))
    BY <1>1, <2>1, MarkerPasses
  <2> QED BY <2>1, <2>2, <2>3 DEF Honest
<1>4. CASE ProbeWait
  <2>1. ~Marker(<<>>)
    BY <1>1, MarkerPasses
  <2> QED BY <1>1, <1>4, <2>1 DEF Honest, ProbeWait, ariaVars
<1>5. CASE \E line \in Line : PrintLine(line)
  <2>1. PICK line \in Line : PrintLine(line)
    BY <1>5
  <2>2. /\ line = "marker" => patched \/ ~stdinOpen
        /\ out' = <<line>>
        /\ UNCHANGED <<patched, ppc, stdinOpen, scan, lines, streaming>>
    BY <2>1 DEF PrintLine
  <2>3. <<line>> \in Seq(Line) /\ (Marker(<<line>>) => line = "marker")
    BY DEF Marker
  <2> QED BY <2>2, <2>3 DEF Honest
<1>6. CASE CopyLine
  <2>1. ~Marker(<<>>)
    BY <1>1, MarkerPasses
  <2> QED BY <1>1, <1>6, <2>1 DEF Honest, CopyLine
<1>7. CASE SendLine
  <2>1. lines \o scan \in Seq(Line) /\ (Marker(lines \o scan) => Marker(lines) \/ Marker(scan)) /\ ~Marker(<<>>)
    BY <1>1, MarkerPasses, ConcatProperties
  <2> QED BY <1>1, <1>7, <2>1 DEF Honest, SendLine, ariaVars
<1> QED BY <1>2, <1>3, <1>4, <1>5, <1>6, <1>7 DEF ProbeMain, OutputStep, ProbedStep

\* The invariant of the probe is inductive in the composed stage.
LEMMA StageKeeps == ProbeInv /\ [StageNext]_stageVars => ProbeInv'
<1> SUFFICES ASSUME ProbeInv, [StageNext]_stageVars PROVE ProbeInv'
  OBVIOUS
<1> USE DEF ProbeInv
<1>1. CASE InProbe(ProbeMain) \/ InProbe(OutputStep) \/ InProbe(ProbedStep)
  <2>1. (ProbeMain \/ OutputStep \/ ProbedStep) /\ xpc' = xpc /\ xpc = "limit"
    BY <1>1 DEF InProbe, batchVars
  <2>2. Honest'
    BY <2>1, ProbeStepKeeps
  <2> QED BY <2>1, <2>2 DEF ProbeSound
<1>2. CASE InBatch(ExecutorStep)
  <2>1. ExecutorStep /\ Decided /\ UNCHANGED probeVars
    BY <1>2 DEF InBatch
  <2>2. Honest'
    BY <2>1 DEF Honest, probeVars, Marker
  <2>3. CASE ResolveLimit
    <3>1. kind' = kind /\ patched' = patched /\ xpc = "limit"
          /\ \E streams \in (IF Probes THEN BOOLEAN ELSE {FALSE}) : limit' = LimitIf(streams)
      BY <2>1, <2>3 DEF ResolveLimit, probeVars
    <3>2. CASE kind = "aria2" /\ SessionSize > 0
      <4>1. LimitIf(FALSE) = SessionSize /\ SessionSize # 0
        BY <3>2, BatchAssumption DEF LimitIf
      <4>2. CASE Probes
        <5>1. limit' = LimitIf(streaming)
          BY <2>1, <3>1, <4>2 DEF Decided
        <5>2. ~streaming => limit' = SessionSize
          BY <3>2, <5>1, BatchAssumption DEF LimitIf
        <5> QED BY <2>2, <3>1, <4>1, <5>2 DEF ProbeSound, Honest
      <4>3. CASE ~Probes
        <5>1. limit' = LimitIf(FALSE)
          BY <3>1, <4>3
        <5> QED BY <2>2, <4>1, <5>1 DEF ProbeSound
      <4> QED BY <4>2, <4>3
    <3>3. CASE ~(kind = "aria2" /\ SessionSize > 0)
      BY <2>2, <3>1, <3>3 DEF ProbeSound
    <3> QED BY <3>2, <3>3
  <2>4. CASE ~ResolveLimit
    <3>1. kind' = kind /\ limit' = limit /\ patched' = patched /\ xpc # "limit"
      BY <2>1, <2>4 DEF ExecutorStep, Receive, OpenFailed, Open, SkipMalformed, WritePipe, WriteFile,
           WriteFileFailed, WriteNowhere, Ended, ClosePipe, Wait, CloseFile, CloseNothing, probeVars, ReceiveEntry
    <3> QED BY <2>2, <3>1 DEF ProbeSound
  <2> QED BY <2>3, <2>4
<1>3. CASE \/ UNCHANGED probeVars /\ ((\E s \in Sessions : SessionStep(s) \/ AriaDies(s))
                                         \/ Produce \/ CloseCh \/ Cancel)
           \/ BatchEnded /\ UNCHANGED probeVars
           \/ UNCHANGED stageVars
  <2>1. UNCHANGED probeVars
    BY <1>3 DEF stageVars
  <2>2. UNCHANGED <<kind, limit, xpc>>
    BY <1>3 DEF stageVars, BatchEnded, batchVars, Produce, CloseCh, Cancel, executorVars, SessionOnly,
         SessionStep, CopyOut, CopyEOF, AriaRead, AriaExit, AriaDies, Kill, Reap, SendEntry
  <2>3. Honest'
    BY <2>1 DEF Honest, probeVars, Marker
  <2> QED BY <2>1, <2>2, <2>3 DEF ProbeSound, probeVars
<1> QED BY <1>1, <1>2, <1>3 DEF StageNext

\* ProbeSound: an aria2c is only fed without a limit when it is one that reads its input as
\* it comes, whenever the probe times out and whatever else is printed, as long as (and this
\* is PrintLine's assumption about aria2c) one that does not stream prints no marker while
\* its input is open.
THEOREM ProbeHonest == StageFairSpec => []ProbeSound
<1>1. StageInit => ProbeInv
  BY EmptySeq DEF StageInit, BatchInit, ProbeInit, ProbeInv, Honest, ProbeSound, Marker, ChannelInit
<1>2. ProbeInv => ProbeSound
  BY DEF ProbeInv
<1> QED BY <1>1, <1>2, StageKeeps, PTL DEF StageFairSpec


-----------------------------------------------------------------------------
(* The run: its crawler.                                                   *)

ContextTyped == cancelled \in BOOLEAN

\* What the steps of each side do to the channel.
LEMMA BatchOnChannel == BatchStep => ReceiveEntry \/ UNCHANGED channel
BY DEF BatchStep, ExecutorStep, ResolveLimit, Receive, OpenFailed, Open, SkipMalformed, WritePipe,
       WriteFile, WriteFileFailed, WriteNowhere, Ended, ClosePipe, Wait, CloseFile, CloseNothing,
       SessionStep, CopyOut, CopyEOF, AriaRead, AriaExit, AriaDies, Kill, Reap, SessionOnly

\* The checks before the crawl touch neither side; the last of them derives crawlCtx, which
\* is done at birth when the context of the run is.
LEMMA PreludeContext ==
  ASSUME LookPath \/ LoadCache \/ EnsureOutput \/ Detect \/ LoginPage \/ LoginPost,
         cancelled \in BOOLEAN
  PROVE  /\ UNCHANGED <<crawlOwn, channel, ctxDone, batchOwn>>
         /\ UNCHANGED cancelled \/ (~cancelled /\ cancelled' = TRUE /\ ctxDone)
BY DEF LookPath, LoadCache, EnsureOutput, Detect, LoginPage, LoginPost, Request, Pass

\* A run takes no step with the crawler that crawl(), with a consumer of its channel
\* and somebody to cancel it, would not take: what is proved of the crawler holds in
\* every run.
LEMMA CrawlsAsSpecified == ContextTyped /\ [Next]_vars => [CrawlNext]_crawlVars
<1> SUFFICES ASSUME ContextTyped, [Next]_vars PROVE [CrawlNext]_crawlVars
  OBVIOUS
<1> USE DEF crawlVars, crawlOwn, ContextTyped
<1>1. CASE CrawlPart
  BY <1>1 DEF CrawlPart, CrawlNext
<1>2. CASE BatchPart
  <2>1. UNCHANGED <<crawlOwn, cancelled>> /\ (ReceiveEntry \/ UNCHANGED channel)
    BY <1>2, BatchOnChannel DEF BatchPart
  <2> QED BY <2>1 DEF CrawlNext, Consume
<1>3. CASE CancelCrawl
  BY <1>3 DEF CancelCrawl, CrawlNext, Interrupt
<1>4. CASE LookPath \/ LoadCache \/ EnsureOutput \/ Detect \/ LoginPage \/ LoginPost
  <2>1. UNCHANGED <<crawlOwn, channel>> /\ (UNCHANGED cancelled \/ (~cancelled /\ cancelled' = TRUE))
    BY <1>4, PreludeContext
  <2> QED BY <2>1 DEF CrawlNext, Interrupt
<1>5. CASE Join \/ Save \/ EndProcess \/ UserCancel \/ ForceQuit \/ Terminated \/ UNCHANGED vars
  <2>1. UNCHANGED <<crawlOwn, cancelled, channel>>
    BY <1>5 DEF Join, Save, EndProcess, UserCancel, Cancel, ForceQuit, Terminated, vars
  <2> QED BY <2>1
<1> QED BY <1>1, <1>2, <1>3, <1>4, <1>5 DEF Next, MainPart, Prelude

\* The crawler does not end its own context.
LEMMA CrawlContext == CrawlStep => cancelled' = cancelled
<1>1. MainStep \/ DispatcherStep => cancelled' = cancelled
  BY DEF MainStep, SeedRefused, SeedOffer, SeedAccepted, SeedAborted, CloseEntries, DispatcherStep, DispatchIn,
         DispatchOut, DispatchStop
<1>2. ASSUME NEW w \in Workers, WorkerStep(w) PROVE cancelled' = cancelled
  BY <1>2 DEF WorkerStep, ProcessStep, Take, Exit, Check, AskRobots, Mark, FetchFailed, FetchNotHTML,
              FetchListing, DownloadOwn, GetFile, Send, SendDropped, SkipLink, Offer, OfferAccepted,
              OfferAborted, Finish
<1> QED BY <1>1, <1>2 DEF CrawlStep

\* Neither side leaves the context half done.
LEMMA ContextKeeps == ContextTyped /\ [Next]_vars => ContextTyped'
<1> SUFFICES ASSUME ContextTyped, [Next]_vars PROVE ContextTyped'
  OBVIOUS
<1> USE DEF ContextTyped
<1>1. CASE CrawlPart
  BY <1>1, CrawlContext DEF CrawlPart
<1>2. CASE LookPath \/ LoadCache \/ EnsureOutput \/ Detect \/ LoginPage \/ LoginPost
  BY <1>2, PreludeContext
<1>3. CASE \/ BatchPart \/ UserCancel \/ CancelCrawl \/ Join \/ Save \/ EndProcess
           \/ ForceQuit \/ Terminated \/ UNCHANGED vars
  BY <1>3 DEF BatchPart, UserCancel, CancelCrawl, Join, Save, EndProcess, ForceQuit, Terminated, vars
<1> QED BY <1>1, <1>2, <1>3 DEF Next, MainPart, Prelude

THEOREM RunCrawls == Spec => CrawlSpec
<1>1. Init => CrawlInit /\ ContextTyped
  BY DEF Init, CrawlInit, ContextTyped
<1> QED BY <1>1, CrawlsAsSpecified, ContextKeeps, PTL DEF Spec, CrawlSpec

\* The crawler sends no entry twice, and none after closing the channel.
LEMMA CrawlOnChannel ==
  ASSUME IInv, Claims, CrawlStep
  PROVE  \/ ~chClosed /\ \E e \in Unsent : SendEntry(e)
         \/ ~chClosed /\ chClosed' = TRUE /\ UNCHANGED <<entriesCh, handed>>
         \/ UNCHANGED channel
<1>1. CASE CloseEntries
  BY <1>1 DEF CloseEntries, IInv, Structure
<1>2. ASSUME NEW w \in Workers, Send(w) PROVE ~chClosed /\ \E e \in Unsent : SendEntry(e)
  <2>1. wpc[w] = "send" /\ SendEntry(JobUrl(w))
    BY <1>2 DEF Send
  <2>2. ~chClosed
    BY <2>1 DEF IInv, Structure
  <2>3. JobUrl(w) \in Urls /\ Key(JobUrl(w)) \in Urls
    <3>1. wtodo[w] \in Seq(Job) /\ wtodo[w] # <<>>
      BY <2>1 DEF IInv, TypeOK, ControlTypes, Structure
    <3>2. Head(wtodo[w]) \in Job
      BY <3>1
    <3> QED BY <3>2, JobsType DEF JobUrl, Job
  <2>4. \A i \in 1..Len(Out) : Out[i] # JobUrl(w)
    <3>1. Key(JobUrl(w)) \in Claimed(w)
      BY <2>1, <2>3 DEF Claimed
    <3> QED BY <3>1 DEF Claims
  <2>5. JobUrl(w) \notin Delivered
    <3>1. /\ handed \in Seq(Urls) /\ entriesCh \in Seq(Urls)
          /\ Len(handed) \in Nat /\ Len(entriesCh) \in Nat
      BY DEF IInv, TypeOK, OutTypes
    <3>2. /\ Len(Out) = Len(handed) + Len(entriesCh)
          /\ \A i \in 1..Len(handed) : i \in 1..Len(Out) /\ Out[i] = handed[i]
          /\ \A i \in 1..Len(entriesCh) : Len(handed) + i \in 1..Len(Out) /\ Out[Len(handed) + i] = entriesCh[i]
      BY <3>1, ConcatProperties DEF Out
    <3> QED BY <2>4, <3>2 DEF Delivered, SeqSet
  <2> QED BY <2>1, <2>2, <2>3, <2>5 DEF Unsent
<1>3. CASE SeedRefused \/ SeedOffer \/ SeedAccepted \/ SeedAborted \/ DispatcherStep
  BY <1>3 DEF SeedRefused, SeedOffer, SeedAccepted, SeedAborted, DispatcherStep, DispatchIn, DispatchOut,
              DispatchStop
<1>4. ASSUME NEW w \in Workers, WorkerStep(w), ~Send(w) PROVE UNCHANGED channel
  BY <1>4 DEF WorkerStep, ProcessStep, Take, Exit, Check, AskRobots, Mark, FetchFailed, FetchNotHTML,
              FetchListing, DownloadOwn, GetFile, SendDropped, SkipLink, Offer, OfferAccepted,
              OfferAborted, Finish
<1> QED BY <1>1, <1>2, <1>3, <1>4 DEF CrawlStep, MainStep

\* BatchAsSpecified: in a run the download stage meets the environment it was specified
\* for, so what is proved of the stage holds in every run.
THEOREM StageInRun == Spec => BatchAsSpecified
<1>1. Init => BatchInit
  BY DEF Init
<1>2. IInv /\ Claims /\ [Next]_vars => [BatchNext]_batchVars
  <2> SUFFICES ASSUME IInv, Claims, [Next]_vars PROVE [BatchNext]_batchVars
    OBVIOUS
  <2> USE DEF batchVars, batchOwn, executorVars
  <2>1. CASE CrawlPart
    <3>1. CrawlStep /\ UNCHANGED <<ctxDone, batchOwn>>
      BY <2>1 DEF CrawlPart
    <3>2. \/ ~chClosed /\ \E e \in Unsent : SendEntry(e)
          \/ ~chClosed /\ chClosed' = TRUE /\ UNCHANGED <<entriesCh, handed>>
          \/ UNCHANGED channel
      BY <3>1, CrawlOnChannel
    <3> QED BY <3>1, <3>2 DEF BatchNext, Produce, CloseCh
  <2>2. CASE BatchPart
    BY <2>2 DEF BatchPart, BatchNext
  <2>3. CASE UserCancel
    BY <2>3 DEF UserCancel, BatchNext
  <2>4. CASE \/ LookPath \/ LoadCache \/ EnsureOutput \/ Detect \/ LoginPage \/ LoginPost
             \/ Join \/ Save \/ EndProcess \/ CancelCrawl \/ ForceQuit \/ Terminated \/ UNCHANGED vars
    <3>1. UNCHANGED <<channel, ctxDone, batchOwn>>
      BY <2>4 DEF LookPath, LoadCache, EnsureOutput, Detect, LoginPage, LoginPost, Request, Pass,
                  Join, Save, EndProcess, CancelCrawl, ForceQuit, Terminated, vars
    <3> QED BY <3>1
  <2> QED BY <2>1, <2>2, <2>3, <2>4 DEF Next, MainPart, Prelude
<1>3. Spec => [](IInv /\ Claims)
  BY RunCrawls, ClaimsInductive, PTL
<1> QED BY <1>1, <1>2, <1>3, PTL DEF Spec, BatchSpec, BatchAsSpecified


-----------------------------------------------------------------------------
(* The run: how it ends.                                                   *)

\* crawl() and the executor have returned.
Over == Returned /\ xpc = "ret"

\* What RunWithContext can return, and what it leaves in the cache file.
Outcome ==
  \/ mpc = "seed" /\ err = "err"
  \/ Over /\ err = result /\ saved = visited
  \/ Over /\ err = "err" /\ saved = Preloaded

RunInv ==
  /\ rpc \notin {"crawl", "save", "returned", "exited"} => mpc = "seed"
  /\ rpc \notin {"returned", "exited"} => saved = Preloaded
  /\ rpc = "save" => Over
  /\ rpc = "returned" \/ exit \in {0, 1} => Outcome
  /\ rpc # "exited" => exit = -1
  /\ exit = 0 => err = "nil"
  /\ exit = 1 => err # "nil"
  /\ exit = 130 => ctxDone

\* Why a crawl has been cancelled.
Cause == cancelled => ctxDone \/ (xpc = "ret" /\ result = "err")

\* Once the executor has returned, the sessions are all that moves.
LEMMA ReturnedStays == BatchStep /\ xpc = "ret" => UNCHANGED <<xpc, result, ctxDone>>
BY DEF BatchStep, ExecutorStep, ResolveLimit, Receive, OpenFailed, Open, SkipMalformed, WritePipe,
       WriteFile, WriteFileFailed, WriteNowhere, Ended, ClosePipe, Wait, CloseFile, CloseNothing,
       SessionStep, CopyOut, CopyEOF, AriaRead, AriaExit, AriaDies, Kill, Reap, SessionOnly, executorVars

\* The download stage does not end the context of the run.
LEMMA BatchContext == BatchStep => ctxDone' = ctxDone
BY DEF BatchStep, ExecutorStep, ResolveLimit, Receive, OpenFailed, Open, SkipMalformed, WritePipe,
       WriteFile, WriteFileFailed, WriteNowhere, Ended, ClosePipe, Wait, CloseFile, CloseNothing,
       SessionStep, CopyOut, CopyEOF, AriaRead, AriaExit, AriaDies, Kill, Reap, SessionOnly

\* One case for each part of a run.
LEMMA RunKeeps == RunInv /\ [Next]_vars => RunInv'
<1> SUFFICES ASSUME RunInv, [Next]_vars PROVE RunInv'
  OBVIOUS
<1> USE DEF RunInv, crawlOwn, batchOwn, runOwn, executorVars
<1>1. CASE CrawlPart
  BY <1>1 DEF CrawlPart
<1>2. CASE BatchPart
  <2>1. UNCHANGED <<crawlOwn, cancelled, runOwn, ctxDone>> /\ ExecutorStarted
    BY <1>2, BatchContext DEF BatchPart
  <2>2. rpc = "crawl" \/ mpc # "seed"
    BY <2>1 DEF ExecutorStarted
  <2>3. xpc = "ret" => UNCHANGED <<xpc, result>>
    BY <1>2, ReturnedStays DEF BatchPart
  <2>4. Over => Over'
    BY <2>1, <2>3 DEF Over, Returned
  <2>5. Outcome /\ mpc # "seed" => Outcome'
    BY <2>1, <2>3, <2>4 DEF Outcome, Over
  <2>6. rpc \in {"crawl", "save", "returned"} /\ exit = -1
    BY <2>1 DEF ExecutorStarted
  <2>7. rpc = "returned" => Outcome'
    BY <2>2, <2>5
  <2> QED BY <2>1, <2>4, <2>6, <2>7
<1>3. CASE UserCancel
  <2>1. UNCHANGED <<crawlOwn, runOwn, xpc, result>> /\ ctxDone'
    BY <1>3 DEF UserCancel, Cancel
  <2> QED BY <2>1 DEF Outcome, Over, Returned
<1>4. CASE LookPath \/ LoadCache \/ EnsureOutput \/ Detect \/ LoginPage \/ LoginPost
  <2>1. /\ UNCHANGED <<crawlOwn, ctxDone, saved, exit, xpc, result>>
        /\ rpc \notin {"crawl", "save", "returned", "exited"}
        /\ \/ rpc' \notin {"save", "returned", "exited"}
           \/ rpc' = "returned" /\ err' = "err"
    BY <1>4 DEF LookPath, LoadCache, EnsureOutput, Detect, LoginPage, LoginPost, Request, Pass, Leave
  <2> QED BY <2>1 DEF Outcome
<1>5. CASE CancelCrawl
  BY <1>5 DEF CancelCrawl
<1>6. CASE Join
  BY <1>6 DEF Join, Over, Returned
<1>7. CASE Save
  <2>1. Over /\ Over'
    BY <1>7 DEF Save, Over, Returned
  <2>2. rpc' = "returned" /\ exit = -1 /\ exit' = -1 /\ UNCHANGED <<ctxDone, visited, result>>
    BY <1>7 DEF Save, Leave
  <2>3. Outcome'
    BY <1>7, <2>1, <2>2 DEF Save, Leave, Outcome
  <2> QED BY <2>2, <2>3
<1>8. CASE EndProcess
  <2>1. /\ rpc = "returned" /\ rpc' = "exited" /\ Outcome
        /\ UNCHANGED <<crawlOwn, ctxDone, xpc, result, saved, err>>
        /\ exit' = (IF err = "nil" THEN 0 ELSE IF ctxDone THEN 130 ELSE 1)
    BY <1>8 DEF EndProcess
  <2>2. Outcome'
    BY <2>1 DEF Outcome, Over, Returned
  <2> QED BY <2>1, <2>2
<1>9. CASE ForceQuit
  BY <1>9 DEF ForceQuit
<1>10. CASE Terminated \/ UNCHANGED vars
  <2>1. UNCHANGED <<crawlOwn, ctxDone, xpc, result, runOwn>>
    BY <1>10 DEF Terminated, vars
  <2> QED BY <2>1 DEF Outcome, Over, Returned
<1> QED BY <1>1, <1>2, <1>3, <1>4, <1>5, <1>6, <1>7, <1>8, <1>9, <1>10 DEF Next, MainPart, Prelude

\* A crawl is cancelled with its run or after a failure of the executor, and stays so.
LEMMA CauseKeeps == ContextTyped /\ Cause /\ [Next]_vars => Cause'
<1> SUFFICES ASSUME ContextTyped, Cause, [Next]_vars PROVE Cause'
  OBVIOUS
<1> USE DEF ContextTyped
<1>1. CASE CrawlPart
  BY <1>1, CrawlContext DEF CrawlPart, Cause, batchOwn, executorVars
<1>2. CASE BatchPart
  BY <1>2, BatchContext, ReturnedStays DEF BatchPart, Cause
<1>3. CASE UserCancel
  BY <1>3 DEF UserCancel, Cancel, Cause
<1>4. CASE CancelCrawl
  BY <1>4 DEF CancelCrawl, Cause, batchOwn, executorVars
<1>5. CASE LookPath \/ LoadCache \/ EnsureOutput \/ Detect \/ LoginPage \/ LoginPost
  <2>1. UNCHANGED <<ctxDone, xpc, result>> /\ (UNCHANGED cancelled \/ ctxDone)
    BY <1>5, PreludeContext DEF batchOwn, executorVars
  <2> QED BY <2>1 DEF Cause
<1>6. CASE Join \/ Save \/ EndProcess \/ ForceQuit \/ Terminated \/ UNCHANGED vars
  <2>1. UNCHANGED <<cancelled, ctxDone, xpc, result>>
    BY <1>6 DEF Join, Save, EndProcess, ForceQuit, Terminated, vars, batchOwn, executorVars
  <2> QED BY <2>1 DEF Cause
<1> QED BY <1>1, <1>2, <1>3, <1>4, <1>5, <1>6 DEF Next, MainPart, Prelude

\* The invariants of a run: its own, the crawler's and the download stage's.
THEOREM RunInductive ==
  Spec => [](RunInv /\ Cause /\ (IInv /\ Claims /\ FoundInv) /\ (BatchInv /\ PipeInv /\ EndInv))
<1>1. Init => RunInv /\ Cause /\ ContextTyped
  <2>1. Init => RunInv /\ Cause
    BY DEF Init, RunInv, Cause, CrawlInit
  <2>2. Init => ContextTyped
    BY DEF Init, CrawlInit, ContextTyped
  <2> QED BY <2>1, <2>2
<1>2. Spec => [](RunInv /\ Cause)
  BY <1>1, RunKeeps, CauseKeeps, ContextKeeps, PTL DEF Spec
<1> QED BY <1>2, RunCrawls, FoundInductive, StageInRun, BatchInductive, PTL DEF BatchAsSpecified

\* ExitTells: whatever fails, and in whatever order, the exit status tells whether the
\* download stage ended well and the cache was saved.
THEOREM ExitIsTrue == Spec => []ExitTells
<1>1. RunInv /\ EndInv => ExitTells
  <2> SUFFICES ASSUME RunInv, EndInv PROVE ExitTells
    OBVIOUS
  <2>1. Over => result \in {"nil", "err"}
    BY DEF Over, EndInv, Ends
  <2> QED BY <2>1 DEF RunInv, Outcome, Over, ExitTells
<1> QED BY <1>1, RunInductive, PTL

\* NothingLeftRunning: when a run that got as far as crawling is over, so are its
\* goroutines and its aria2c.
THEOREM AllHasEnded == Spec => []NothingLeftRunning
<1>1. RunInv /\ IInv /\ BatchInv /\ PipeInv /\ EndInv => NothingLeftRunning
  <2> SUFFICES ASSUME RunInv, IInv, BatchInv, PipeInv, EndInv, rpc = "returned", mpc # "seed"
               PROVE  /\ xpc = "ret"
                      /\ dpc # "run" /\ \A w \in Workers : wpc[w] \in {"unborn", "exit"}
                      /\ Valid # <<>> => \A s \in Sessions : sess[s].proc # "run"
    BY DEF NothingLeftRunning
  <2>1. Returned /\ xpc = "ret"
    BY DEF RunInv, Outcome, Over
  <2>2. dpc # "run" /\ \A w \in Workers : wpc[w] \in {"unborn", "exit"}
    <3>1. CASE mpc = "left"
      BY <3>1 DEF IInv, Structure
    <3>2. CASE mpc = "done"
      <4>1. PICK w \in Workers : TRUE
        BY CrawlAssumption
      <4> QED BY <3>2, <4>1 DEF IInv, Structure
    <3> QED BY <2>1, <3>1, <3>2 DEF Returned
  <2> QED BY <2>1, <2>2, NoneRuns
<1> QED BY <1>1, RunInductive, PTL

-----------------------------------------------------------------------------
(* A run that ends well has delivered everything.                          *)

\* What is writable of a sequence without malformed entries is all of it.
LEMMA WritableSet ==
  ASSUME NEW s \in Seq(Urls)
  PROVE  SeqSet(Writable(s)) = {x \in SeqSet(s) : Good(x)}
<1> DEFINE N == Len(s)
           First(n) == {x \in {s[i] : i \in 1..n} : Good(x)}
<1>1. PICK g \in [0..N -> Seq(Urls)] :
        /\ Writable(s) = g[N] /\ g[0] = <<>>
        /\ \A n \in 1..N : g[n] = IF Good(s[n]) THEN Append(g[n-1], s[n]) ELSE g[n-1]
  BY WritableSteps
<1>2. N \in Nat /\ \A n \in 1..N : s[n] \in Urls
  OBVIOUS
<1> DEFINE T == {n \in 0..N : SeqSet(g[n]) = First(n)}
<1>3. 0 \in T
  <2>1. SeqSet(<<>>) = {}
    BY EmptySeq DEF SeqSet
  <2> QED BY <1>1, <1>2, <2>1
<1>4. ASSUME NEW n \in 1..N, n - 1 \in T PROVE n \in T
  <2>1. n \in 0..N /\ n - 1 \in 0..N /\ 1..n = 1..(n - 1) \union {n}
    BY <1>2
  <2>2. SeqSet(g[n-1]) = First(n - 1) /\ g[n-1] \in Seq(Urls) /\ s[n] \in Urls
    BY <1>1, <1>2, <1>4, <2>1
  <2>3. First(n) = First(n - 1) \union (IF Good(s[n]) THEN {s[n]} ELSE {})
    BY <2>1
  <2>4. SeqSet(g[n]) = SeqSet(g[n-1]) \union (IF Good(s[n]) THEN {s[n]} ELSE {})
    <3>1. CASE Good(s[n])
      <4>1. g[n] = Append(g[n-1], s[n])
        BY <1>1, <3>1
      <4> QED BY <2>2, <3>1, <4>1, SetOfAppend
    <3>2. CASE ~Good(s[n])
      BY <1>1, <3>2
    <3> QED BY <3>1, <3>2
  <2> HIDE DEF First
  <2> QED BY <2>1, <2>2, <2>3, <2>4
<1>5. 0..N \subseteq T
  <2> HIDE DEF T, N
  <2> QED BY <1>2, <1>3, <1>4, SetInduction
<1>6. SeqSet(g[N]) = First(N)
  BY <1>2, <1>5
<1> QED BY <1>1, <1>6 DEF SeqSet

\* What the sessions hold together is what each holds.
LEMMA FlatSet ==
  ASSUME NEW f \in [Sessions -> Seq(Urls)]
  PROVE  SeqSet(Flat(f)) = UNION {SeqSet(f[s]) : s \in Sessions}
<1> DEFINE N == Cardinality(Urls)
           First(n) == UNION {SeqSet(f[s]) : s \in 1..n}
<1>1. N \in Nat
  BY FlatSteps
<1>2. PICK g \in [0..N -> Seq(Urls)] :
        Flat(f) = g[N] /\ g[0] = <<>> /\ \A n \in Sessions : g[n] = g[n-1] \o f[n]
  BY FlatSteps
<1> DEFINE T == {n \in 0..N : SeqSet(g[n]) = First(n)}
<1>3. 0 \in T
  <2>1. SeqSet(<<>>) = {}
    BY EmptySeq DEF SeqSet
  <2> QED BY <1>1, <1>2, <2>1
<1>4. ASSUME NEW n \in 1..N, n - 1 \in T PROVE n \in T
  <2>1. n \in 0..N /\ n - 1 \in 0..N /\ 1..n = 1..(n - 1) \union {n} /\ n \in Sessions
    BY <1>1 DEF Sessions
  <2>2. SeqSet(g[n-1]) = First(n - 1) /\ g[n-1] \in Seq(Urls) /\ f[n] \in Seq(Urls)
    BY <1>2, <1>4, <2>1
  <2>3. First(n) = First(n - 1) \union SeqSet(f[n])
    BY <2>1
  <2>4. SeqSet(g[n]) = SeqSet(g[n-1]) \union SeqSet(f[n])
    <3>1. g[n] = g[n-1] \o f[n]
      BY <1>2, <2>1
    <3> QED BY <2>2, <3>1, SetOfConcat
  <2> HIDE DEF First
  <2> QED BY <2>1, <2>2, <2>3, <2>4
<1>5. 0..N \subseteq T
  <2> HIDE DEF T, N
  <2> QED BY <1>1, <1>3, <1>4, SetInduction
<1>6. SeqSet(g[N]) = First(N)
  BY <1>1, <1>5
<1> QED BY <1>2, <1>6 DEF Sessions

\* SuccessMeansComplete, for every site on which it does not matter what is met first:
\* when the process exits with status 0, and neither the user nor the network interfered,
\* every resource of the reference crawl was read by an aria2c that ended well, or is in
\* the batch file.
THEOREM ZeroMeansAll == Unambiguous => (Spec => []SuccessMeansComplete)
<1> SUFFICES ASSUME Unambiguous PROVE Spec => []SuccessMeansComplete
  OBVIOUS
<1>1. RunInv /\ Cause /\ (IInv /\ Claims /\ FoundInv) /\ BatchInv /\ EndInv /\ NilMeansDelivered => SuccessMeansComplete
  <2> SUFFICES ASSUME RunInv, Cause, IInv, Claims, FoundInv, BatchInv, EndInv, NilMeansDelivered,
                      exit = 0, ~ctxDone, ~FetchMayFail, Preloaded = {}, kind # "discard", Malformed = {}
               PROVE  /\ Expected \subseteq {Key(u) : u \in Taken}
                      /\ kind = "aria2" => \A s \in 1..opened : sess[s].proc = "ok"
    BY DEF SuccessMeansComplete
  <2>1. /\ handed \in Seq(Urls) /\ sess \in [Sessions -> SessionState] /\ kind \in {"aria2", "file"}
        /\ opened \in Nat /\ opened <= Len(handed)
    BY DEF BatchInv, Typed, Place
  <2>2. mpc = "done" /\ ~cancelled /\ result = "nil"
    <3>1. result \in {"nil", "err"} /\ Over
      BY DEF RunInv, Outcome, EndInv, Ends, Over, IInv, FoundInv
    <3> QED BY <3>1 DEF RunInv, Cause, Outcome, Over, Returned, FoundInv
  <2>3. Expected \subseteq {Key(u) : u \in Delivered}
    BY <2>2, AllDelivered DEF Complete
  <2>4. SeqSet(Valid) = SeqSet(handed)
    <3>1. \A x : Good(x)
      BY DEF Good
    <3> QED BY <2>1, <3>1, WritableSet DEF Valid
  <2>5. Delivered = SeqSet(handed)
    <3>1. entriesCh = <<>>
      BY <2>2 DEF EndInv, Ends
    <3> QED BY <3>1, SetOfNone DEF Delivered
  <2>6. CASE Valid = <<>>
    <3>1. SeqSet(handed) = {}
      BY <2>4, <2>6, SetOfNone
    <3>2. Len(handed) = 0
      BY <2>1, <3>1 DEF SeqSet
    <3>3. Expected = {} /\ opened = 0
      BY <2>1, <2>3, <2>5, <3>1, <3>2
    <3> QED BY <3>3
  <2>7. CASE Valid # <<>>
    <3>1. kind = "file" => SeqSet(disk) = SeqSet(handed)
      BY <2>2, <2>4, <2>7 DEF NilMeansDelivered
    <3>2. kind = "aria2" => UNION {SeqSet(sess[s].fed) : s \in Sessions} = SeqSet(handed)
      <4> SUFFICES ASSUME kind = "aria2" PROVE UNION {SeqSet(sess[s].fed) : s \in Sessions} = SeqSet(handed)
        OBVIOUS
      <4> DEFINE f == [s \in Sessions |-> sess[s].fed]
      <4>1. f \in [Sessions -> Seq(Urls)] /\ Flat(f) = Valid
        BY <2>1, <2>2, <2>7 DEF NilMeansDelivered, SessionState
      <4>2. SeqSet(Flat(f)) = UNION {SeqSet(f[s]) : s \in Sessions}
        <5> HIDE DEF f
        <5> QED BY <4>1, FlatSet
      <4>3. SeqSet(Flat(f)) = SeqSet(handed)
        BY <2>4, <4>1
      <4>4. UNION {SeqSet(f[s]) : s \in Sessions} = UNION {SeqSet(sess[s].fed) : s \in Sessions}
        OBVIOUS
      <4> QED BY <4>2, <4>3, <4>4
    <3>3. Taken = SeqSet(handed)
      BY <2>1, <3>1, <3>2 DEF Taken
    <3> QED BY <2>2, <2>3, <2>5, <2>7, <3>3 DEF NilMeansDelivered
  <2> QED BY <2>6, <2>7
<1>2. Spec => []NilMeansDelivered
  BY StageInRun, SuccessIsDelivery, PTL DEF BatchAsSpecified
<1> QED BY <1>1, <1>2, RunInductive, PTL

=============================================================================
