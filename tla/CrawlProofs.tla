---------------------------- MODULE CrawlProofs ----------------------------
(***************************************************************************)
(* Proofs about Crawl, for every number of workers, every site and every   *)
(* capacity of the channels.  In this order: the types, the counter and    *)
(* the end of the crawl; that crawl() implements the abstract WorkPool;    *)
(* that nothing is handed over twice; that nothing is handed over which    *)
(* the reference crawl does not reach; and that everything it finds is     *)
(* handed over, for the sites on which this does not depend on who is      *)
(* first.  Each part rests on the invariants of those before it.           *)
(***************************************************************************)
EXTENDS Crawl, Recursion, FiniteSetTheorems, SequenceTheorems, TLAPS

-----------------------------------------------------------------------------
(* The inductive invariant.                                                *)

\* Where the goroutines of crawl() can be with respect to each other.
Structure ==
  /\ mpc = "seed" => ~done
  /\ mpc \in {"seed", "offer"} => ~workClosed
  /\ mpc = "seed" => inbox = <<>> /\ queue = <<>> /\ work = <<>>
  /\ mpc \in {"seed", "offer", "left"} =>
       dpc = "unborn" /\ \A w \in Workers : wpc[w] = "unborn"
  /\ mpc = "done" => \A w \in Workers : wpc[w] = "exit"
  /\ mpc = "wait" /\ workClosed => dpc = "stopped"
  /\ dpc # "unborn" => mpc \in {"wait", "done"}
  /\ chClosed => mpc = "done"
  /\ \A w \in Workers :
       /\ wpc[w] = "exit" => dpc = "stopped"
       /\ wpc[w] \in {"offer", "send"} => wtodo[w] # <<>>

IInv == TypeOK /\ PendingExact /\ DoneMeansDrained /\ Structure

-----------------------------------------------------------------------------
(* Counting the workers in a set that one step changes at one worker.      *)

Num(b) == IF b THEN 1 ELSE 0

\* Two subsets of a finite set that agree off w differ in size by w alone.
LEMMA OneElement ==
  ASSUME NEW S, IsFiniteSet(S), NEW w \in S, NEW A \in SUBSET S, NEW B \in SUBSET S,
         \A v \in S : v # w => (v \in A <=> v \in B)
  PROVE  /\ Cardinality(A) \in Nat /\ Cardinality(B) \in Nat
         /\ Cardinality(B) = Cardinality(A) + Num(w \in B) - Num(w \in A)
<1>1. IsFiniteSet(A) /\ IsFiniteSet(B)
  BY FS_Subset
<1>2. Cardinality(A) \in Nat /\ Cardinality(B) \in Nat
  BY <1>1, FS_CardinalityType
<1>3. CASE w \in A /\ w \in B
  <2>1. A = B
    BY <1>3
  <2> QED BY <2>1, <1>2, <1>3 DEF Num
<1>4. CASE w \notin A /\ w \notin B
  <2>1. A = B
    BY <1>4
  <2> QED BY <2>1, <1>2, <1>4 DEF Num
<1>5. CASE w \notin A /\ w \in B
  <2>1. B = A \union {w}
    BY <1>5
  <2>2. Cardinality(B) = Cardinality(A) + 1
    BY <2>1, <1>1, <1>5, FS_AddElement
  <2> QED BY <2>2, <1>2, <1>5 DEF Num
<1>6. CASE w \in A /\ w \notin B
  <2>1. B = A \ {w}
    BY <1>6
  <2>2. Cardinality(B) = Cardinality(A) - 1
    BY <2>1, <1>1, <1>6, FS_RemoveElement
  <2> QED BY <2>2, <1>2, <1>6 DEF Num
<1> QED BY <1>3, <1>4, <1>5, <1>6

IsBusy(l) == l \notin {"unborn", "idle", "exit"}

\* How moving worker w to label l changes the two counts of Outstanding.
LEMMA GotoCounts ==
  ASSUME TypeOK, NEW w \in Workers, NEW l \in WorkerPcs, Goto(w, l)
  PROVE  /\ wpc' \in [Workers -> WorkerPcs]
         /\ Cardinality(Busy) \in Nat /\ Cardinality(Offering) \in Nat
         /\ Cardinality(Busy)' \in Nat /\ Cardinality(Offering)' \in Nat
         /\ Cardinality(Busy)' = Cardinality(Busy) + Num(IsBusy(l)) - Num(IsBusy(wpc[w]))
         /\ Cardinality(Offering)' =
              Cardinality(Offering) + Num(l = "offer") - Num(wpc[w] = "offer")
<1> DEFINE B2 == {v \in Workers : wpc'[v] \notin {"unborn", "idle", "exit"}}
           O2 == {v \in Workers : wpc'[v] = "offer"}
<1>1. wpc \in [Workers -> WorkerPcs] /\ wpc' = [wpc EXCEPT ![w] = l]
  BY DEF TypeOK, ControlTypes, Goto
<1>2. /\ wpc' \in [Workers -> WorkerPcs] /\ wpc'[w] = l
      /\ \A v \in Workers : v # w => wpc'[v] = wpc[v]
  BY <1>1
<1>3. /\ Busy \in SUBSET Workers /\ B2 \in SUBSET Workers
      /\ Offering \in SUBSET Workers /\ O2 \in SUBSET Workers
  BY DEF Busy, Offering
<1>4. /\ \A v \in Workers : v # w => (v \in Busy <=> v \in B2)
      /\ (w \in Busy <=> IsBusy(wpc[w])) /\ (w \in B2 <=> IsBusy(l))
  BY <1>2 DEF Busy, IsBusy
<1>5. /\ \A v \in Workers : v # w => (v \in Offering <=> v \in O2)
      /\ (w \in Offering <=> wpc[w] = "offer") /\ (w \in O2 <=> l = "offer")
  BY <1>2 DEF Offering
<1> HIDE DEF B2, O2
<1>6. IsFiniteSet(Workers)
  BY CrawlAssumption
<1>7. /\ Cardinality(Busy) \in Nat /\ Cardinality(B2) \in Nat
      /\ Cardinality(B2) = Cardinality(Busy) + Num(w \in B2) - Num(w \in Busy)
  BY <1>3, <1>4, <1>6, OneElement
<1>8. /\ Cardinality(Offering) \in Nat /\ Cardinality(O2) \in Nat
      /\ Cardinality(O2) = Cardinality(Offering) + Num(w \in O2) - Num(w \in Offering)
  BY <1>3, <1>5, <1>6, OneElement
<1>9. Num(w \in B2) = Num(IsBusy(l)) /\ Num(w \in Busy) = Num(IsBusy(wpc[w]))
  BY <1>4 DEF Num
<1>10. Num(w \in O2) = Num(l = "offer") /\ Num(w \in Offering) = Num(wpc[w] = "offer")
  BY <1>5 DEF Num
<1>11. Cardinality(Busy)' = Cardinality(B2) /\ Cardinality(Offering)' = Cardinality(O2)
  BY DEF Busy, Offering, B2, O2
<1> QED BY <1>2, <1>7, <1>8, <1>9, <1>10, <1>11

-----------------------------------------------------------------------------
(* Types are preserved.                                                    *)

Types == PoolTypes /\ ControlTypes /\ OutTypes

\* What processCrawlEntry has to walk over is a list of jobs.
LEMMA JobsOfType ==
  ASSUME NEW op \in {"own", "get", "link"}, NEW us \in Seq(Urls)
  PROVE  JobsOf(op, us) \in Seq(Job)
<1> DEFINE n == Len(us)
           js == [i \in 1..n |-> [op |-> op, url |-> us[i]]]
<1>1. n \in Nat /\ \A i \in 1..n : us[i] \in Urls
  BY ElementOfSeq, LenProperties
<1>2. js \in [1..n -> Job]
  BY <1>1 DEF Job
<1>3. js \in UNION {[1..m -> Job] : m \in Nat}
  BY <1>1, <1>2
<1>4. js \in Seq(Job)
  BY <1>3, SeqDef
<1> QED BY <1>4 DEF JobsOf

\* Listings turn into jobs.
LEMMA JobsType ==
  ASSUME NEW u \in Urls
  PROVE  Jobs(u) \in Seq(Job) /\ Key(u) \in Urls /\ JobsOf("own", <<u>>) \in Seq(Job)
<1>1. Site[u] \in UrlInfo
  BY CrawlAssumption
<1>2. Site[u].files \in Seq(Urls) /\ Site[u].dirs \in Seq(Urls) /\ Site[u].key \in Urls
  BY <1>1 DEF UrlInfo
<1>3. JobsOf("get", Site[u].files) \in Seq(Job) /\ JobsOf("link", Site[u].dirs) \in Seq(Job)
  BY <1>2, JobsOfType
<1>4. Jobs(u) \in Seq(Job)
  BY <1>3, ConcatProperties DEF Jobs
<1>5. <<u>> \in Seq(Urls)
  OBVIOUS
<1> QED BY <1>2, <1>4, <1>5, JobsOfType DEF Key

\* The capacities of the three channels.
LEMMA Capacities == InboxCap \in Nat /\ ChanCap \in Nat /\ WorkCap \in Nat
BY CrawlAssumption, ChannelAssumption, FS_CardinalityType DEF WorkCap

\* The seed is an entry.
LEMMA SeedEntryType == SeedEntry \in Entry
BY CrawlAssumption DEF SeedEntry, Entry

\* Steps of the goroutine running crawl(), and of the dispatcher.
LEMMA MainTypes == ASSUME Types, MainStep PROVE Types'
<1> USE SeedEntryType, CrawlAssumption DEF Types
<1>1. CASE SeedRefused \/ SeedOffer \/ SeedAborted
  BY <1>1 DEF SeedRefused, SeedOffer, SeedAborted, Release, PoolTypes, ControlTypes, OutTypes,
              workerVars, channel
<1>2. CASE SeedAccepted
  BY <1>2 DEF SeedAccepted, PoolTypes, ControlTypes, OutTypes, WorkerPcs, channel
<1>3. CASE CloseEntries
  BY <1>3 DEF CloseEntries, PoolTypes, ControlTypes, OutTypes, poolVars, workerVars
<1> QED BY <1>1, <1>2, <1>3 DEF MainStep

\* The dispatcher keeps the types.
LEMMA DispatcherTypes == ASSUME Types, DispatcherStep PROVE Types'
<1> USE Capacities DEF Types
<1>1. CASE DispatchIn
  BY <1>1 DEF DispatchIn, PoolTypes, ControlTypes, OutTypes, workerVars, channel
<1>2. CASE DispatchOut
  BY <1>2 DEF DispatchOut, PoolTypes, ControlTypes, OutTypes, workerVars, channel
<1>3. CASE DispatchStop
  BY <1>3 DEF DispatchStop, PoolTypes, ControlTypes, OutTypes, workerVars, channel
<1> QED BY <1>1, <1>2, <1>3 DEF DispatcherStep

\* Steps of a worker.
LEMMA WorkerTypes ==
  ASSUME Types, Structure, NEW w \in Workers, WorkerStep(w)
  PROVE  Types'
<1>1. /\ wentry[w] \in Entry /\ Url(w) \in Urls /\ Key(Url(w)) \in Urls
      /\ wtodo[w] \in Seq(Job)
      /\ JobsOf("own", <<Url(w)>>) \in Seq(Job) /\ Jobs(Url(w)) \in Seq(Job)
  BY JobsType DEF Types, ControlTypes, Url, Entry
<1>2. wtodo[w] # <<>> => /\ JobUrl(w) \in Urls /\ Key(JobUrl(w)) \in Urls
                         /\ Tail(wtodo[w]) \in Seq(Job)
  <2> SUFFICES ASSUME wtodo[w] # <<>>
               PROVE  JobUrl(w) \in Urls /\ Key(JobUrl(w)) \in Urls
                      /\ Tail(wtodo[w]) \in Seq(Job)
    OBVIOUS
  <2>1. Head(wtodo[w]) \in Job /\ Tail(wtodo[w]) \in Seq(Job)
    BY <1>1
  <2>2. JobUrl(w) \in Urls
    BY <2>1 DEF JobUrl, Job
  <2> QED BY <2>1, <2>2, JobsType
<1>3. /\ \A l \in WorkerPcs : Goto(w, l) => wpc' \in [Workers -> WorkerPcs]
      /\ wtodo[w] # <<>> /\ NextJob(w) => wtodo' \in [Workers -> Seq(Job)]
  BY <1>2 DEF Types, ControlTypes, Goto, NextJob
<1>4. /\ wpc[w] \in {"offer", "send"} => wtodo[w] # <<>>
      /\ \A op : HasJob(w, op) => wtodo[w] # <<>>
  BY DEF Structure, HasJob
<1> USE DEF Types, poolVars, workerVars, channel
<1>5. CASE Take(w)
  <2>1. Head(work) \in Entry /\ Tail(work) \in Seq(Entry) /\ Len(Tail(work)) <= WorkCap
    BY <1>5, Capacities DEF Take, PoolTypes
  <2>2. wpc' \in [Workers -> WorkerPcs]
    BY <1>5, <1>3 DEF Take, WorkerPcs
  <2> QED BY <1>5, <2>1, <2>2 DEF Take, PoolTypes, ControlTypes, OutTypes
<1>6. CASE Exit(w) \/ Check(w) \/ AskRobots(w)
  <2>1. wpc' \in [Workers -> WorkerPcs]
    BY <1>6, <1>3 DEF Exit, Check, AskRobots, WorkerPcs
  <2> QED BY <1>6, <2>1 DEF Exit, Check, AskRobots, PoolTypes, ControlTypes, OutTypes
<1>7. CASE Mark(w)
  <2>1. wpc' \in [Workers -> WorkerPcs]
    BY <1>7, <1>3 DEF Mark, WorkerPcs
  <2>2. wtodo' \in [Workers -> Seq(Job)]
    BY <1>7, <1>1 DEF Mark, ControlTypes
  <2>3. visited' \subseteq Urls
    BY <1>7, <1>1 DEF Mark, OutTypes
  <2> QED BY <1>7, <2>1, <2>2, <2>3 DEF Mark, PoolTypes, ControlTypes, OutTypes
<1>8. CASE FetchFailed(w) \/ FetchNotHTML(w) \/ FetchListing(w)
  <2>1. wpc' \in [Workers -> WorkerPcs]
    BY <1>8, <1>3 DEF FetchFailed, FetchNotHTML, FetchListing, WorkerPcs
  <2>2. PICK js \in Seq(Job) : wtodo' = [wtodo EXCEPT ![w] = js]
    <3>1. wtodo = [wtodo EXCEPT ![w] = wtodo[w]] /\ <<>> \in Seq(Job)
      BY DEF ControlTypes
    <3> QED BY <1>8, <1>1, <3>1 DEF FetchFailed, FetchNotHTML, FetchListing
  <2>3. wtodo' \in [Workers -> Seq(Job)]
    BY <2>2 DEF ControlTypes
  <2> QED BY <1>8, <2>1, <2>3
          DEF FetchFailed, FetchNotHTML, FetchListing, PoolTypes, ControlTypes, OutTypes
<1>9. CASE DownloadOwn(w) \/ GetFile(w)
  <2>1. wtodo[w] # <<>>
    BY <1>9, <1>4 DEF DownloadOwn, GetFile
  <2>2. Download(w) => /\ wpc' \in [Workers -> WorkerPcs]
                       /\ wtodo' \in [Workers -> Seq(Job)]
    BY <2>1, <1>3 DEF Download, WorkerPcs, ControlTypes
  <2>3. visited' \subseteq Urls
    BY <1>9, <1>2, <2>1 DEF DownloadOwn, GetFile, OutTypes
  <2> QED BY <1>9, <1>3, <2>1, <2>2, <2>3
          DEF DownloadOwn, GetFile, PoolTypes, ControlTypes, OutTypes
<1>10. CASE Send(w)
  <2>1. wpc' \in [Workers -> WorkerPcs] /\ wtodo' \in [Workers -> Seq(Job)]
    BY <1>10, <1>3, <1>4 DEF Send, WorkerPcs, SendEntry
  <2>2. entriesCh' \in Seq(Urls) /\ Len(entriesCh') <= ChanCap
    BY <1>10, <1>2, <1>4, Capacities DEF Send, OutTypes, SendEntry
  <2> QED BY <1>10, <2>1, <2>2 DEF Send, PoolTypes, ControlTypes, OutTypes, SendEntry
<1>11. CASE SendDropped(w) \/ SkipLink(w)
  <2>1. wpc' \in [Workers -> WorkerPcs] /\ wtodo' \in [Workers -> Seq(Job)]
    BY <1>11, <1>3, <1>4 DEF SendDropped, SkipLink, WorkerPcs, ControlTypes
  <2> QED BY <1>11, <2>1 DEF SendDropped, SkipLink, PoolTypes, ControlTypes, OutTypes
<1>12. CASE Offer(w)
  <2>1. wpc' \in [Workers -> WorkerPcs]
    BY <1>12, <1>3 DEF Offer, WorkerPcs
  <2> QED BY <1>12, <2>1 DEF Offer, PoolTypes, ControlTypes, OutTypes
<1>13. CASE OfferAccepted(w)
  <2>1. wpc' \in [Workers -> WorkerPcs] /\ wtodo' \in [Workers -> Seq(Job)]
    BY <1>13, <1>3, <1>4 DEF OfferAccepted, WorkerPcs
  <2>2. [url |-> JobUrl(w), depth |-> wentry[w].depth + 1] \in Entry
    BY <1>13, <1>1, <1>2, <1>4 DEF OfferAccepted, Entry
  <2>3. inbox' \in Seq(Entry) /\ Len(inbox') <= InboxCap
    BY <1>13, <2>2, Capacities DEF OfferAccepted, PoolTypes
  <2> QED BY <1>13, <2>1, <2>3 DEF OfferAccepted, PoolTypes, ControlTypes, OutTypes
<1>14. CASE OfferAborted(w)
  <2>1. wpc' \in [Workers -> WorkerPcs] /\ wtodo' \in [Workers -> Seq(Job)]
    BY <1>14, <1>3, <1>4 DEF OfferAborted, WorkerPcs
  <2> QED BY <1>14, <2>1 DEF OfferAborted, Release, PoolTypes, ControlTypes, OutTypes
<1>15. CASE Finish(w)
  <2>1. wpc' \in [Workers -> WorkerPcs] /\ wentry' \in [Workers -> Entry]
    BY <1>15, <1>3, SeedEntryType DEF Finish, WorkerPcs, ControlTypes
  <2> QED BY <1>15, <2>1 DEF Finish, Release, PoolTypes, ControlTypes, OutTypes
<1> QED BY <1>5, <1>6, <1>7, <1>8, <1>9, <1>10, <1>11, <1>12, <1>13, <1>14, <1>15
        DEF WorkerStep, ProcessStep

\* So do the consumer and whoever cancels.
LEMMA EnvironmentTypes == ASSUME Types, Consume \/ Interrupt \/ UNCHANGED crawlVars PROVE Types'
<1> USE DEF Types, poolVars, workerVars, channel
<1>1. CASE Consume
  BY <1>1, Capacities DEF Consume, PoolTypes, ControlTypes, OutTypes, ReceiveEntry
<1>2. CASE Interrupt
  BY <1>2 DEF Interrupt, PoolTypes, ControlTypes, OutTypes
<1>3. CASE UNCHANGED crawlVars
  BY <1>3 DEF crawlVars, PoolTypes, ControlTypes, OutTypes, poolVars, workerVars, channel
<1> QED BY <1>1, <1>2, <1>3

-----------------------------------------------------------------------------
(* The counter stays exact.                                                *)

\* The parts of Outstanding are numbers.
LEMMA PartsAreNats ==
  ASSUME PoolTypes
  PROVE  /\ Len(inbox) \in Nat /\ Len(queue) \in Nat /\ Len(work) \in Nat
         /\ Cardinality(Busy) \in Nat /\ Cardinality(Offering) \in Nat
<1>1. Busy \in SUBSET Workers /\ Offering \in SUBSET Workers
  BY DEF Busy, Offering
<1>2. IsFiniteSet(Busy) /\ IsFiniteSet(Offering)
  BY <1>1, CrawlAssumption, FS_Subset
<1> QED BY <1>2, FS_CardinalityType DEF PoolTypes

\* A step that moves no worker leaves the counts of workers alone.
LEMMA SameCounts ==
  ASSUME wpc' = wpc
  PROVE  Cardinality(Busy)' = Cardinality(Busy) /\ Cardinality(Offering)' = Cardinality(Offering)
BY DEF Busy, Offering

\* The counter agrees with the entries in every step of the calling goroutine.
LEMMA MainCounts ==
  ASSUME IInv, MainStep
  PROVE  PendingExact' /\ pending' \in Nat
<1> USE PartsAreNats DEF IInv, TypeOK, PendingExact, Outstanding
<1>1. CASE SeedRefused \/ SeedOffer \/ SeedAborted \/ CloseEntries
  <2>1. wpc' = wpc
    BY <1>1 DEF SeedRefused, SeedOffer, SeedAborted, CloseEntries, workerVars
  <2> QED BY <1>1, <2>1, SameCounts
          DEF SeedRefused, SeedOffer, SeedAborted, CloseEntries, Release, poolVars
<1>2. CASE SeedAccepted
  <2>1. /\ Busy = {} /\ Offering = {}
        /\ Busy' = {} /\ Offering' = {}
    BY <1>2 DEF SeedAccepted, Structure, Busy, Offering
  <2>2. Cardinality(Busy)' = Cardinality(Busy) /\ Cardinality(Offering)' = Cardinality(Offering)
    BY <2>1
  <2>3. Len(inbox') = Len(inbox) + 1
    BY <1>2 DEF SeedAccepted, PoolTypes
  <2> QED BY <1>2, <2>2, <2>3 DEF SeedAccepted
<1> QED BY <1>1, <1>2 DEF MainStep

\* The dispatcher moves entries and creates none.
LEMMA DispatcherCounts ==
  ASSUME IInv, DispatcherStep
  PROVE  PendingExact' /\ pending' \in Nat
<1> USE PartsAreNats DEF IInv, TypeOK, PendingExact, Outstanding
<1>1. wpc' = wpc /\ mpc' = mpc /\ pending' = pending
  BY DEF DispatcherStep, DispatchIn, DispatchOut, DispatchStop, workerVars
<1>2. Len(inbox') + Len(queue') + Len(work') = Len(inbox) + Len(queue) + Len(work)
  <2>1. CASE DispatchIn
    <3>1. Len(queue') = Len(queue) + 1 /\ Len(inbox') = Len(inbox) - 1
      BY <2>1 DEF DispatchIn, PoolTypes
    <3> QED BY <2>1, <3>1 DEF DispatchIn
  <2>2. CASE DispatchOut
    <3>1. Len(work') = Len(work) + 1 /\ Len(queue') = Len(queue) - 1
      BY <2>2 DEF DispatchOut, PoolTypes
    <3> QED BY <2>2, <3>1 DEF DispatchOut
  <2> QED BY <2>1, <2>2 DEF DispatcherStep, DispatchStop
<1>3. /\ Len(inbox') \in Nat /\ Len(queue') \in Nat /\ Len(work') \in Nat
  BY DispatcherTypes DEF Types, PoolTypes
<1> QED BY <1>1, <1>2, <1>3, SameCounts

\* The steps of a worker inside processCrawlEntry that neither enqueue nor end.
Quiet(w) ==
  \/ Check(w) \/ AskRobots(w) \/ Mark(w)
  \/ FetchFailed(w) \/ FetchNotHTML(w) \/ FetchListing(w)
  \/ DownloadOwn(w) \/ GetFile(w) \/ Send(w) \/ SendDropped(w) \/ SkipLink(w)

\* A step inside processCrawlEntry moves no entry.
LEMMA QuietFacts ==
  ASSUME Types, NEW w \in Workers, Quiet(w)
  PROVE  /\ wpc[w] \in {"check", "robots", "mark", "fetch", "walk", "send"}
         /\ \E l \in {"robots", "mark", "fetch", "walk", "send"} : Goto(w, l)
         /\ UNCHANGED <<inbox, queue, work, workClosed, pending, done, cancelled, mpc, dpc,
                        wentry, chClosed>>
<1>1. wpc = [wpc EXCEPT ![w] = wpc[w]]
  BY DEF Types, ControlTypes
<1>2. /\ wpc[w] \in {"check", "robots", "mark", "fetch", "walk", "send"}
      /\ UNCHANGED <<inbox, queue, work, workClosed, pending, done, cancelled, mpc, dpc,
                     wentry, chClosed>>
  BY DEF Quiet, Check, AskRobots, Mark, FetchFailed, FetchNotHTML, FetchListing,
         DownloadOwn, GetFile, Send, SendDropped, SkipLink, HasJob, poolVars, channel, SendEntry
<1>3. CASE Check(w) \/ AskRobots(w) \/ Mark(w) \/ FetchFailed(w) \/ FetchNotHTML(w)
           \/ FetchListing(w) \/ Send(w) \/ SendDropped(w)
  BY <1>2, <1>3 DEF Check, AskRobots, Mark, FetchFailed, FetchNotHTML, FetchListing,
                    Send, SendDropped, SendEntry
<1>4. CASE DownloadOwn(w) \/ GetFile(w) \/ SkipLink(w)
  <2>1. wpc[w] = "walk"
    BY <1>4 DEF DownloadOwn, GetFile, SkipLink, HasJob
  <2>2. UNCHANGED wpc \/ Goto(w, "walk") \/ Goto(w, "send")
    BY <1>4 DEF DownloadOwn, GetFile, SkipLink, Download
  <2> QED BY <1>1, <1>2, <2>1, <2>2 DEF Goto
<1> QED BY <1>3, <1>4 DEF Quiet

\* The counter agrees with the entries in every step of a worker.
LEMMA WorkerCounts ==
  ASSUME IInv, NEW w \in Workers, WorkerStep(w)
  PROVE  PendingExact' /\ pending' \in Nat
<1> USE PartsAreNats DEF IInv, TypeOK, PendingExact, Outstanding
<1>1. Types
  BY DEF Types
<1>2. /\ Len(inbox') \in Nat /\ Len(queue') \in Nat /\ Len(work') \in Nat
  BY <1>1, WorkerTypes DEF Types, PoolTypes
<1>3. CASE Quiet(w)
  <2>1. PICK l \in {"robots", "mark", "fetch", "walk", "send"} : Goto(w, l)
    BY <1>1, <1>3, QuietFacts
  <2>2. /\ l \in WorkerPcs /\ l # "offer" /\ IsBusy(l)
        /\ wpc[w] # "offer" /\ IsBusy(wpc[w])
    BY <1>1, <1>3, QuietFacts DEF IsBusy, WorkerPcs
  <2>3. /\ Cardinality(Busy)' = Cardinality(Busy) + Num(IsBusy(l)) - Num(IsBusy(wpc[w]))
        /\ Cardinality(Offering)' =
             Cardinality(Offering) + Num(l = "offer") - Num(wpc[w] = "offer")
    BY <2>1, <2>2, GotoCounts
  <2>4. Cardinality(Busy)' = Cardinality(Busy) /\ Cardinality(Offering)' = Cardinality(Offering)
    BY <2>2, <2>3 DEF Num
  <2> QED BY <1>1, <1>3, <2>4, QuietFacts
<1>4. CASE Take(w)
  <2>1. Cardinality(Busy)' = Cardinality(Busy) + 1 /\ Cardinality(Offering)' = Cardinality(Offering)
    BY <1>4, GotoCounts DEF Take, Num, IsBusy, WorkerPcs
  <2>2. Len(work') = Len(work) - 1
    BY <1>4 DEF Take, PoolTypes
  <2> QED BY <1>4, <2>1, <2>2 DEF Take
<1>5. CASE Exit(w)
  <2>1. Cardinality(Busy)' = Cardinality(Busy) /\ Cardinality(Offering)' = Cardinality(Offering)
    BY <1>5, GotoCounts DEF Exit, Num, IsBusy, WorkerPcs
  <2> QED BY <1>5, <2>1 DEF Exit, poolVars
<1>6. CASE Offer(w)
  <2>1. Goto(w, "offer") /\ wpc[w] = "walk"
    BY <1>6 DEF Offer, HasJob
  <2>2. /\ Cardinality(Busy)' = Cardinality(Busy) + Num(IsBusy("offer")) - Num(IsBusy("walk"))
        /\ Cardinality(Offering)' =
             Cardinality(Offering) + Num("offer" = "offer") - Num("walk" = "offer")
    BY <2>1, GotoCounts DEF WorkerPcs
  <2>3. Cardinality(Busy)' = Cardinality(Busy) /\ Cardinality(Offering)' = Cardinality(Offering) + 1
    BY <2>2 DEF Num, IsBusy
  <2> QED BY <1>6, <2>3 DEF Offer
<1>7. CASE OfferAccepted(w)
  <2>1. Cardinality(Busy)' = Cardinality(Busy) /\ Cardinality(Offering)' = Cardinality(Offering) - 1
    BY <1>7, GotoCounts DEF OfferAccepted, Num, IsBusy, WorkerPcs
  <2>2. Len(inbox') = Len(inbox) + 1
    BY <1>7 DEF OfferAccepted, PoolTypes
  <2> QED BY <1>7, <2>1, <2>2 DEF OfferAccepted
<1>8. CASE OfferAborted(w)
  <2>1. /\ Cardinality(Busy)' = Cardinality(Busy)
        /\ Cardinality(Offering)' = Cardinality(Offering) - 1 /\ Cardinality(Offering)' \in Nat
    BY <1>8, GotoCounts DEF OfferAborted, Num, IsBusy, WorkerPcs
  <2> QED BY <1>8, <2>1 DEF OfferAborted, Release
<1>9. CASE Finish(w)
  <2>1. /\ Cardinality(Busy)' = Cardinality(Busy) - 1 /\ Cardinality(Busy)' \in Nat
        /\ Cardinality(Offering)' = Cardinality(Offering)
    BY <1>9, GotoCounts DEF Finish, Num, IsBusy, WorkerPcs
  <2> QED BY <1>9, <2>1 DEF Finish, Release
<1> QED BY <1>3, <1>4, <1>5, <1>6, <1>7, <1>8, <1>9 DEF WorkerStep, ProcessStep, Quiet

-----------------------------------------------------------------------------
(* doneCh closes only on an empty pool.                                    *)

\* The statement of DoneMeansDrained follows from a count of zero.
LEMMA ZeroMeansDrained ==
  ASSUME Types', PendingExact', done' => pending' = 0
  PROVE  DoneMeansDrained'
<1> DEFINE B2 == {v \in Workers : wpc'[v] \notin {"unborn", "idle", "exit"}}
           O2 == {v \in Workers : wpc'[v] = "offer"}
<1>1. B2 \in SUBSET Workers /\ O2 \in SUBSET Workers
  OBVIOUS
<1>2. IsFiniteSet(B2) /\ IsFiniteSet(O2)
  BY <1>1, CrawlAssumption, FS_Subset
<1>3. /\ Cardinality(B2) \in Nat /\ Cardinality(O2) \in Nat
      /\ Cardinality(B2) = 0 => B2 = {}
  BY <1>2, FS_CardinalityType, FS_EmptySet
<1>4. /\ Len(inbox') \in Nat /\ Len(queue') \in Nat /\ Len(work') \in Nat
      /\ Len(inbox') = 0 => inbox' = <<>>
      /\ Len(queue') = 0 => queue' = <<>>
      /\ Len(work') = 0 => work' = <<>>
  BY DEF Types, PoolTypes
<1>5. Outstanding' = Len(inbox') + Len(queue') + Len(work') + Cardinality(B2) + Cardinality(O2)
                       + (IF mpc' = "offer" THEN 1 ELSE 0)
  BY DEF Outstanding, Busy, Offering
<1> HIDE DEF B2, O2
<1>6. done' => /\ Len(inbox') = 0 /\ Len(queue') = 0 /\ Len(work') = 0
               /\ Cardinality(B2) = 0 /\ mpc' # "offer"
  BY <1>3, <1>4, <1>5 DEF PendingExact
<1>7. B2 = {} => \A v \in Workers : wpc'[v] \in {"unborn", "idle", "exit"}
  BY DEF B2
<1> QED BY <1>3, <1>4, <1>6, <1>7 DEF DoneMeansDrained

\* A closed doneCh means the count is zero: the same, unprimed.
LEMMA DoneIsZero ==
  ASSUME IInv, done
  PROVE  pending = 0
<1>1. /\ inbox = <<>> /\ queue = <<>> /\ work = <<>> /\ mpc # "offer"
      /\ Busy = {} /\ Offering = {}
  BY DEF IInv, DoneMeansDrained, Busy, Offering
<1>2. Cardinality({}) = 0
  BY FS_EmptySet
<1> QED BY <1>1, <1>2 DEF IInv, PendingExact, Outstanding

\* doneCh is closed by the step that finds nothing left, and nothing comes after.
LEMMA DoneStep ==
  ASSUME IInv, Types', PendingExact', CrawlNext
  PROVE  DoneMeansDrained'
<1> SUFFICES ASSUME done' PROVE pending' = 0
  BY ZeroMeansDrained
<1> USE DEF poolVars
<1>1. CASE SeedRefused \/ SeedAccepted \/ CloseEntries \/ DispatcherStep
  BY <1>1, DoneIsZero DEF SeedRefused, SeedAccepted, CloseEntries, DispatcherStep,
                          DispatchIn, DispatchOut, DispatchStop
<1>2. CASE SeedOffer
  BY <1>2 DEF SeedOffer, IInv, Structure
<1>3. CASE SeedAborted
  BY <1>3 DEF SeedAborted, Release, IInv, DoneMeansDrained
<1>4. ASSUME NEW w \in Workers, WorkerStep(w) PROVE pending' = 0
  <2>1. CASE Quiet(w)
    <3>1. Types
      BY DEF IInv, TypeOK, Types
    <3>2. done' = done /\ pending' = pending
      BY <2>1, <3>1, QuietFacts
    <3> QED BY <3>2, DoneIsZero
  <2>2. CASE Take(w) \/ Exit(w) \/ OfferAccepted(w)
    BY <2>2, DoneIsZero DEF Take, Exit, OfferAccepted
  <2>3. CASE Offer(w)
    BY <2>3 DEF Offer, HasJob, IInv, DoneMeansDrained
  <2>4. CASE OfferAborted(w) \/ Finish(w)
    BY <2>4 DEF OfferAborted, Finish, Release, IInv, DoneMeansDrained
  <2> QED BY <1>4, <2>1, <2>2, <2>3, <2>4 DEF WorkerStep, ProcessStep, Quiet
<1>5. CASE Consume \/ Interrupt \/ CrawlEnded
  BY <1>5, DoneIsZero DEF Consume, Interrupt, CrawlEnded, crawlVars, ReceiveEntry, poolVars, workerVars, channel
<1> QED BY <1>1, <1>2, <1>3, <1>4, <1>5 DEF CrawlNext, CrawlStep, MainStep

-----------------------------------------------------------------------------
(* The goroutines start and stop in order.                                 *)

\* The calling goroutine keeps the positions of all goroutines consistent.
LEMMA MainStructure == ASSUME IInv, MainStep PROVE Structure'
<1> USE DEF IInv, Structure
<1>1. CASE SeedRefused \/ SeedOffer \/ SeedAborted
  BY <1>1 DEF SeedRefused, SeedOffer, SeedAborted, workerVars, channel
<1>2. CASE SeedAccepted
  <2>1. \A w \in Workers : wpc'[w] = "idle"
    BY <1>2 DEF SeedAccepted
  <2>2. mpc' = "wait" /\ dpc' = "run" /\ ~chClosed' /\ ~workClosed
    BY <1>2 DEF SeedAccepted, channel
  <2> QED BY <1>2, <2>1, <2>2 DEF SeedAccepted
<1>3. CASE CloseEntries
  BY <1>3 DEF CloseEntries, workerVars, poolVars
<1> QED BY <1>1, <1>2, <1>3 DEF MainStep

\* So does the dispatcher.
LEMMA DispatcherStructure == ASSUME IInv, DispatcherStep PROVE Structure'
<1> USE DEF IInv, Structure, workerVars, channel
<1>1. CASE DispatchIn
  BY <1>1 DEF DispatchIn
<1>2. CASE DispatchOut
  BY <1>2 DEF DispatchOut
<1>3. CASE DispatchStop
  BY <1>3 DEF DispatchStop
<1> QED BY <1>1, <1>2, <1>3 DEF DispatcherStep

\* A worker that moves to label l respects Structure if the crawl is under way
\* and its list fits l.
LEMMA GotoStructure ==
  ASSUME IInv, NEW w \in Workers, NEW l \in WorkerPcs, Goto(w, l),
         wpc[w] \notin {"unborn", "exit"}, l # "unborn",
         l = "exit" => dpc = "stopped",
         l \in {"offer", "send"} => wtodo'[w] # <<>>,
         \A v \in Workers : v # w => wtodo'[v] = wtodo[v],
         UNCHANGED <<mpc, dpc, workClosed, chClosed>>
  PROVE  Structure'
<1>1. /\ wpc'[w] = l
      /\ \A v \in Workers : v # w => wpc'[v] = wpc[v]
  BY DEF Goto, IInv, TypeOK, ControlTypes
<1>2. mpc = "wait"
  BY DEF IInv, TypeOK, ControlTypes, Structure
<1> QED BY <1>1, <1>2 DEF IInv, Structure

\* So does each worker.
LEMMA WorkerStructure ==
  ASSUME IInv, NEW w \in Workers, WorkerStep(w)
  PROVE  Structure'
<1> USE DEF poolVars, channel
<1>1. wtodo \in [Workers -> Seq(Job)] /\ wpc \in [Workers -> WorkerPcs]
  BY DEF IInv, TypeOK, ControlTypes
<1>2. NextJob(w) => \A v \in Workers : v # w => wtodo'[v] = wtodo[v]
  BY <1>1 DEF NextJob
<1>3. CASE Take(w)
  BY <1>3, GotoStructure DEF Take, WorkerPcs
<1>4. CASE Exit(w)
  <2>1. mpc \in {"wait", "done"} /\ mpc # "done"
    BY <1>4 DEF Exit, IInv, Structure, TypeOK, ControlTypes
  <2>2. dpc = "stopped"
    BY <1>4, <2>1 DEF Exit, IInv, Structure
  <2> QED BY <1>4, <2>2, GotoStructure DEF Exit, WorkerPcs
<1>5. CASE Check(w) \/ AskRobots(w) \/ FetchFailed(w)
  <2>1. \E l \in {"robots", "mark", "walk"} : Goto(w, l)
    BY <1>5 DEF Check, AskRobots, FetchFailed
  <2> QED BY <1>5, <2>1, GotoStructure DEF Check, AskRobots, FetchFailed, WorkerPcs
<1>6. CASE Mark(w) \/ FetchNotHTML(w) \/ FetchListing(w)
  <2>1. \E l \in {"fetch", "walk"} : Goto(w, l)
    BY <1>6 DEF Mark, FetchNotHTML, FetchListing
  <2>2. \A v \in Workers : v # w => wtodo'[v] = wtodo[v]
    BY <1>1, <1>6 DEF Mark, FetchNotHTML, FetchListing
  <2> QED BY <1>6, <2>1, <2>2, GotoStructure DEF Mark, FetchNotHTML, FetchListing, WorkerPcs
<1>7. CASE DownloadOwn(w) \/ GetFile(w) \/ SkipLink(w)
  <2>1. wpc[w] = "walk" /\ wtodo[w] # <<>>
    BY <1>7 DEF DownloadOwn, GetFile, SkipLink, HasJob
  <2>2. \/ Goto(w, "walk")
        \/ Goto(w, "send") /\ wtodo' = wtodo
    BY <1>1, <1>7, <2>1 DEF DownloadOwn, GetFile, SkipLink, Download, Goto
  <2>3. \A v \in Workers : v # w => wtodo'[v] = wtodo[v]
    BY <1>2, <1>7 DEF DownloadOwn, GetFile, SkipLink, Download
  <2> QED BY <1>7, <2>1, <2>2, <2>3, GotoStructure DEF DownloadOwn, GetFile, SkipLink, WorkerPcs
<1>8. CASE Send(w) \/ SendDropped(w) \/ OfferAccepted(w) \/ OfferAborted(w)
  BY <1>2, <1>8, GotoStructure
     DEF Send, SendDropped, OfferAccepted, OfferAborted, Release, WorkerPcs, SendEntry
<1>9. CASE Offer(w)
  BY <1>9, GotoStructure DEF Offer, HasJob, WorkerPcs
<1>10. CASE Finish(w)
  BY <1>10, GotoStructure DEF Finish, Release, WorkerPcs
<1> QED BY <1>3, <1>4, <1>5, <1>6, <1>7, <1>8, <1>9, <1>10 DEF WorkerStep, ProcessStep

\* So does the environment.
LEMMA EnvironmentStructure ==
  ASSUME IInv, Consume \/ Interrupt \/ UNCHANGED crawlVars
  PROVE  Structure'
<1>1. UNCHANGED <<inbox, queue, work, workClosed, done, mpc, dpc, wpc, wtodo, chClosed>>
  BY DEF Consume, Interrupt, crawlVars, poolVars, workerVars, channel, ReceiveEntry
<1> QED BY <1>1 DEF IInv, Structure

-----------------------------------------------------------------------------
(* The theorems.                                                           *)

\* The invariant holds at the start.
LEMMA InitIInv == CrawlInit => IInv
<1> SUFFICES ASSUME CrawlInit PROVE IInv
  OBVIOUS
<1>1. PoolTypes /\ ControlTypes /\ OutTypes /\ pending \in Nat
  <2>1. /\ <<>> \in Seq(Entry) /\ <<>> \in Seq(Urls) /\ <<>> \in Seq(Job)
        /\ Len(<<>>) <= InboxCap /\ Len(<<>>) <= ChanCap /\ Len(<<>>) <= WorkCap
    BY EmptySeq, Capacities
  <2>2. PoolTypes /\ pending \in Nat
    BY <2>1 DEF CrawlInit, PoolTypes, ChannelInit
  <2>3. OutTypes
    BY <2>1, CrawlAssumption DEF CrawlInit, OutTypes, ChannelInit
  <2>4. ControlTypes
    BY <2>1, SeedEntryType DEF CrawlInit, ControlTypes, WorkerPcs, ChannelInit
  <2> QED BY <2>2, <2>3, <2>4
<1>2. Busy = {} /\ Offering = {}
  BY DEF CrawlInit, Busy, Offering, ChannelInit
<1>3. Outstanding = 0
  BY <1>2, FS_EmptySet DEF CrawlInit, Outstanding, ChannelInit
<1>4. PendingExact
  BY <1>3 DEF CrawlInit, PendingExact, ChannelInit
<1>5. DoneMeansDrained /\ Structure
  BY DEF CrawlInit, DoneMeansDrained, Structure, ChannelInit
<1> QED BY <1>1, <1>4, <1>5 DEF IInv, TypeOK

\* The invariant is inductive.
LEMMA NextIInv == IInv /\ [CrawlNext]_crawlVars => IInv'
<1> SUFFICES ASSUME IInv, [CrawlNext]_crawlVars PROVE IInv'
  OBVIOUS
<1>1. Types
  BY DEF IInv, TypeOK, Types
<1>2. CASE MainStep
  <2>1. Types' /\ PendingExact' /\ pending' \in Nat /\ Structure'
    BY <1>1, <1>2, MainTypes, MainCounts, MainStructure
  <2>2. DoneMeansDrained'
    BY <1>2, <2>1, DoneStep DEF CrawlNext, CrawlStep
  <2> QED BY <2>1, <2>2 DEF IInv, TypeOK, Types
<1>3. CASE DispatcherStep
  <2>1. Types' /\ PendingExact' /\ pending' \in Nat /\ Structure'
    BY <1>1, <1>3, DispatcherTypes, DispatcherCounts, DispatcherStructure
  <2>2. DoneMeansDrained'
    BY <1>3, <2>1, DoneStep DEF CrawlNext, CrawlStep
  <2> QED BY <2>1, <2>2 DEF IInv, TypeOK, Types
<1>4. ASSUME NEW w \in Workers, WorkerStep(w) PROVE IInv'
  <2>1. Types' /\ PendingExact' /\ pending' \in Nat /\ Structure'
    BY <1>1, <1>4, WorkerTypes, WorkerCounts, WorkerStructure DEF IInv
  <2>2. DoneMeansDrained'
    BY <1>4, <2>1, DoneStep DEF CrawlNext, CrawlStep
  <2> QED BY <2>1, <2>2 DEF IInv, TypeOK, Types
<1>5. CASE Consume \/ Interrupt \/ UNCHANGED crawlVars
  <2>1. Types' /\ Structure'
    BY <1>1, <1>5, EnvironmentTypes, EnvironmentStructure
  <2>2. UNCHANGED <<inbox, queue, work, pending, done, mpc, wpc>>
    BY <1>5 DEF Consume, Interrupt, crawlVars, poolVars, workerVars, ReceiveEntry, channel
  <2>3. Outstanding' = Outstanding
    BY <2>2, SameCounts DEF Outstanding
  <2>4. PendingExact' /\ pending' \in Nat /\ DoneMeansDrained'
    BY <2>2, <2>3 DEF IInv, TypeOK, PendingExact, DoneMeansDrained
  <2> QED BY <2>1, <2>4 DEF IInv, TypeOK, Types
<1> QED BY <1>2, <1>3, <1>4, <1>5 DEF CrawlNext, CrawlStep, CrawlEnded

\* The whole inductive invariant holds of every behaviour of crawl().
THEOREM CrawlInductive == CrawlSpec => []IInv
<1>1. CrawlInit => IInv
  BY InitIInv
<1>2. IInv /\ [CrawlNext]_crawlVars => IInv'
  BY NextIInv
<1> QED BY <1>1, <1>2, PTL DEF CrawlSpec

\* Types, channel capacities, and a counter that never goes negative.
THEOREM TypeCorrect == CrawlSpec => []TypeOK
<1>1. IInv => TypeOK
  BY DEF IInv
<1> QED BY <1>1, CrawlInductive, PTL

\* The atomic counter `pending` is the number of outstanding entries.
THEOREM CounterExact == CrawlSpec => []PendingExact
<1>1. IInv => PendingExact
  BY DEF IInv
<1> QED BY <1>1, CrawlInductive, PTL

\* doneCh closes only when no crawl entry is left anywhere.
THEOREM DoneIsDrained == CrawlSpec => []DoneMeansDrained
<1>1. IInv => DoneMeansDrained
  BY DEF IInv
<1> QED BY <1>1, CrawlInductive, PTL

\* downloadEntriesCh is closed only after the last possible send on it.
THEOREM NoSendOnClosed == CrawlSpec => []ClosedAfterLastSend
<1>1. IInv => ClosedAfterLastSend
  <2> SUFFICES ASSUME IInv, chClosed PROVE dpc = "stopped" /\ \A w \in Workers : wpc[w] = "exit"
    BY DEF ClosedAfterLastSend
  <2>1. \A w \in Workers : wpc[w] = "exit"
    BY DEF IInv, Structure
  <2>2. PICK w \in Workers : TRUE
    BY CrawlAssumption
  <2> QED BY <2>1, <2>2 DEF IInv, Structure
<1> QED BY <1>1, CrawlInductive, PTL

-----------------------------------------------------------------------------
(* crawl() implements the abstract pool.                                   *)

\* Every step of the crawl opens the pool, adds to it, retires from it, or
\* leaves the counter and doneCh as they are.
LEMMA PoolStep ==
  ASSUME IInv, IInv', CrawlNext
  PROVE  Pool!Next \/ UNCHANGED Pool!vars
<1>1. Outstanding = pending /\ Outstanding' = pending' /\ pending \in Nat /\ pending' \in Nat
  BY DEF IInv, TypeOK, PendingExact
<1> DEFINE Still    == pending' = pending /\ done' = done
           Opened   == pending = 0 /\ ~done /\ pending' = 1 /\ done' = done
           Spawned  == pending > 0 /\ pending' = pending + 1 /\ done' = done
           Retired  == pending > 0 /\ pending' = pending - 1 /\ done' = (pending' = 0)
<1>2. Still \/ Opened \/ Spawned \/ Retired => Pool!Next \/ UNCHANGED Pool!vars
  BY <1>1 DEF Pool!Next, Pool!Open, Pool!Spawn, Pool!Retire, Pool!vars
<1>3. CASE SeedRefused \/ SeedAccepted \/ CloseEntries \/ DispatcherStep
           \/ Consume \/ Interrupt \/ CrawlEnded
  <2>1. Still
    BY <1>3 DEF SeedRefused, SeedAccepted, CloseEntries, DispatcherStep, DispatchIn,
                DispatchOut, DispatchStop, Consume, Interrupt, CrawlEnded, poolVars, crawlVars,
                ReceiveEntry, workerVars, channel
  <2> QED BY <2>1, <1>2
<1>4. CASE SeedOffer
  <2>1. pending = 0 /\ ~done
    <3>1. /\ Busy = {} /\ Offering = {} /\ ~done
      BY <1>4 DEF SeedOffer, IInv, Structure, Busy, Offering
    <3>2. inbox = <<>> /\ queue = <<>> /\ work = <<>>
      BY <1>4 DEF SeedOffer, IInv, Structure
    <3> QED BY <1>1, <1>4, <3>1, <3>2, FS_EmptySet DEF SeedOffer, Outstanding
  <2>2. Opened
    BY <1>1, <1>4, <2>1 DEF SeedOffer
  <2> QED BY <2>2, <1>2
<1>5. ASSUME Release, ~done PROVE Retired
  BY <1>1, <1>5 DEF Release, IInv, TypeOK, PoolTypes
<1>6. CASE SeedAborted
  <2>1. Retired
    BY <1>5, <1>6 DEF SeedAborted, IInv, DoneMeansDrained
  <2> QED BY <2>1, <1>2
<1>7. ASSUME NEW w \in Workers, WorkerStep(w)
      PROVE  Pool!Next \/ UNCHANGED Pool!vars
  <2>1. CASE Quiet(w) \/ Take(w) \/ Exit(w) \/ OfferAccepted(w)
    <3>1. Types
      BY DEF IInv, TypeOK, Types
    <3>2. Still
      BY <2>1, <3>1, QuietFacts DEF Take, Exit, OfferAccepted, poolVars
    <3> QED BY <3>2, <1>2
  <2>2. CASE Offer(w)
    <3>1. Cardinality(Busy) > 0
      <4>1. w \in Busy
        BY <2>2 DEF Offer, HasJob, Busy
      <4>2. Busy \in SUBSET Workers
        BY DEF Busy
      <4> QED BY <4>1, <4>2, CrawlAssumption, FS_Subset, FS_EmptySet, FS_CardinalityType
    <3>2. pending > 0
      BY <1>1, <3>1, PartsAreNats DEF IInv, TypeOK, Outstanding
    <3>3. Spawned
      BY <2>2, <3>2 DEF Offer
    <3> QED BY <3>3, <1>2
  <2>3. CASE OfferAborted(w) \/ Finish(w)
    <3>1. Retired
      BY <1>5, <2>3 DEF OfferAborted, Finish, IInv, DoneMeansDrained
    <3> QED BY <3>1, <1>2
  <2> QED BY <1>7, <2>1, <2>2, <2>3 DEF WorkerStep, ProcessStep, Quiet
<1> QED BY <1>3, <1>4, <1>6, <1>7 DEF CrawlNext, CrawlStep, MainStep

\* Every step of the crawler is one of the pool, or none.
LEMMA PoolStepOrStutter == IInv /\ IInv' /\ [CrawlNext]_crawlVars => [Pool!Next]_Pool!vars
<1>1. UNCHANGED crawlVars => UNCHANGED Pool!vars
  BY SameCounts DEF crawlVars, Pool!vars, Outstanding, poolVars, workerVars, channel
<1> QED BY <1>1, PoolStep

\* The channels, the queue and the atomic counter of crawl() implement the pool
\* that announces exactly once, and exactly when it is so, that no work is left.
THEOREM CrawlImplementsPool == CrawlSpec => ImplementsPool
<1>1. CrawlInit => Pool!Init
  <2> SUFFICES ASSUME CrawlInit PROVE Pool!Init
    OBVIOUS
  <2>1. Outstanding = 0
    BY InitIInv DEF CrawlInit, IInv, PendingExact, ChannelInit
  <2> QED BY <2>1 DEF CrawlInit, Pool!Init, ChannelInit
<1> QED BY <1>1, PoolStepOrStutter, CrawlInductive, PTL DEF CrawlSpec, ImplementsPool, Pool!Spec

\* Pool!DrainedIsFinal: doneCh is closed once and for all.  After that no entry is ever
\* outstanding again, in whatever order workers and dispatcher come to know of it.
THEOREM PoolFinal == CrawlSpec => Pool!DrainedIsFinal
<1>1. IInv /\ IInv' /\ [CrawlNext]_crawlVars => [done => UNCHANGED Pool!vars]_Pool!vars
  <2> SUFFICES ASSUME IInv, IInv', [CrawlNext]_crawlVars, done PROVE UNCHANGED Pool!vars
    OBVIOUS
  <2>1. Outstanding = 0
    BY DoneIsZero DEF IInv, PendingExact
  <2>2. Pool!Next \/ UNCHANGED Pool!vars
    BY PoolStepOrStutter
  <2> QED BY <2>1, <2>2 DEF Pool!Next, Pool!Open, Pool!Spawn, Pool!Retire
<1> QED BY <1>1, CrawlInductive, PTL DEF CrawlSpec, Pool!DrainedIsFinal

-----------------------------------------------------------------------------
(* Nothing is handed over twice.  Whoever finds a key unvisited, and marks *)
(* it in the same step, has a claim on it until the URL is sent or given   *)
(* up.  A claim is never copied, for a worker has one job of its own or    *)
(* the jobs of a listing, and those claim nothing before they are marked.  *)

Out == handed \o entriesCh

\* The keys worker w, and nobody else, may still hand over.
Claimed(w) ==
  {k \in Urls : \/ wpc[w] = "fetch" /\ k = Key(Url(w))
                \/ (wpc[w] = "send" \/ HasJob(w, "own")) /\ k = Key(JobUrl(w))}

\* Only a worker that walks has jobs, and one of its own is its only one.
OneOwnJob(w) ==
  /\ wpc[w] \notin {"walk", "offer", "send"} => wtodo[w] = <<>>
  /\ \A i \in 1..Len(wtodo[w]) : i > 1 => wtodo[w][i].op # "own"

Claims ==
  /\ \A w \in Workers : OneOwnJob(w)
  /\ \A i \in 1..Len(Out) : Key(Out[i]) \in visited
  /\ \A i, j \in 1..Len(Out) : Key(Out[i]) = Key(Out[j]) => i = j
  /\ \A w \in Workers : \A k \in Claimed(w) : k \in visited /\ \A i \in 1..Len(Out) : Key(Out[i]) # k
  /\ \A v, w \in Workers : \A k \in Claimed(v) : k \in Claimed(w) => v = w

-----------------------------------------------------------------------------
\* What was sent is a sequence of URLs.
LEMMA OutType ==
  ASSUME TypeOK
  PROVE  Out \in Seq(Urls) /\ Len(Out) \in Nat
BY ConcatProperties, LenProperties DEF TypeOK, OutTypes, Out

\* A step that sends nothing and claims only keys nobody had visited.
LEMMA ClaimsKept ==
  ASSUME TypeOK, Claims, NEW w \in Workers, visited \subseteq visited', Out' = Out,
         \A v \in Workers : v # w => wpc'[v] = wpc[v] /\ wentry'[v] = wentry[v] /\ wtodo'[v] = wtodo[v],
         OneOwnJob(w)',
         \A k \in Claimed(w)' : k \in Claimed(w) \/ k \in visited' \ visited
  PROVE  Claims'
<1>1. \A v \in Workers : v # w => Claimed(v)' = Claimed(v) /\ (OneOwnJob(v) => OneOwnJob(v)')
  BY DEF Claimed, OneOwnJob, HasJob, Url, JobUrl
<1>2. \A v \in Workers : OneOwnJob(v)'
  BY <1>1 DEF Claims
<1>3. \A v \in Workers : \A k \in Claimed(v)' : k \in Claimed(v) \/ (v = w /\ k \in visited' \ visited)
  BY <1>1
<1>4. /\ \A i \in 1..Len(Out)' : Key(Out[i])' \in visited'
      /\ \A i, j \in 1..Len(Out)' : Key(Out[i])' = Key(Out[j])' => i = j
  BY DEF Claims, Key
<1>5. \A v \in Workers : \A k \in Claimed(v)' : k \in visited' /\ \A i \in 1..Len(Out)' : Key(Out[i])' # k
  BY <1>3 DEF Claims, Key
<1>6. \A u, v \in Workers : \A k \in Claimed(u)' : k \in Claimed(v)' => u = v
  BY <1>3 DEF Claims
<1> QED BY <1>2, <1>4, <1>5, <1>6 DEF Claims

\* What the jobs of worker w are after it has dropped the first one.
LEMMA NextJobKeeps ==
  ASSUME TypeOK, NEW w \in Workers, OneOwnJob(w), wtodo[w] # <<>>, NextJob(w), wpc'[w] \in {"walk", "offer", "send"}
  PROVE  /\ OneOwnJob(w)'
         /\ wtodo'[w] # <<>> => Head(wtodo'[w]).op # "own"
         /\ \A v \in Workers : v # w => wtodo'[v] = wtodo[v]
<1>1. wtodo \in [Workers -> Seq(Job)]
  BY DEF TypeOK, ControlTypes
<1>2. wtodo'[w] = Tail(wtodo[w]) /\ \A v \in Workers : v # w => wtodo'[v] = wtodo[v]
  BY <1>1 DEF NextJob
<1>3. wtodo[w] \in Seq(Job)
  BY <1>1
<1>4. /\ Len(wtodo[w]) \in Nat /\ Tail(wtodo[w]) \in Seq(Job) /\ Len(Tail(wtodo[w])) = Len(wtodo[w]) - 1
      /\ \A i \in 1..Len(Tail(wtodo[w])) : Tail(wtodo[w])[i] = wtodo[w][i + 1]
  BY <1>3, HeadTailProperties, LenProperties
<1>5. \A i \in 1..Len(Tail(wtodo[w])) : Tail(wtodo[w])[i].op # "own"
  BY <1>4 DEF OneOwnJob
<1>6. Tail(wtodo[w]) # <<>> => Head(Tail(wtodo[w])) = Tail(wtodo[w])[1] /\ 1 \in 1..Len(Tail(wtodo[w]))
  BY <1>4
<1> QED BY <1>2, <1>5, <1>6 DEF OneOwnJob

\* The jobs of a listing claim nothing, a job of one's own is the only one.
LEMMA ListedJobs ==
  ASSUME NEW u \in Urls
  PROVE  /\ \A i \in 1..Len(Jobs(u)) : Jobs(u)[i].op # "own"
         /\ LET own == JobsOf("own", <<u>>) IN Len(own) = 1 /\ Head(own).url = u
<1> DEFINE f == JobsOf("get", Site[u].files)
           d == JobsOf("link", Site[u].dirs)
<1>1. Site[u].files \in Seq(Urls) /\ Site[u].dirs \in Seq(Urls)
  BY CrawlAssumption DEF UrlInfo
<1>2. f \in Seq(Job) /\ d \in Seq(Job)
  BY <1>1, JobsOfType
<1>3. Len(f) \in Nat /\ Len(d) \in Nat
  BY <1>2, LenProperties
<1>4. (\A i \in 1..Len(f) : f[i].op = "get") /\ (\A i \in 1..Len(d) : d[i].op = "link")
  <2>1. DOMAIN f = 1..Len(Site[u].files) /\ DOMAIN d = 1..Len(Site[u].dirs)
    BY DEF JobsOf
  <2>2. DOMAIN f = 1..Len(f) /\ DOMAIN d = 1..Len(d)
    BY <1>2, LenProperties
  <2> QED BY <2>1, <2>2 DEF JobsOf
<1>5. Jobs(u) = f \o d
  BY DEF Jobs
<1> HIDE DEF f, d
<1>6. /\ Len(f \o d) = Len(f) + Len(d)
      /\ \A i \in 1..Len(f) + Len(d) : (f \o d)[i] = IF i <= Len(f) THEN f[i] ELSE d[i - Len(f)]
  BY <1>2, ConcatProperties
<1>7. \A i \in 1..Len(f \o d) : (f \o d)[i].op # "own"
  <2> TAKE i \in 1..Len(f \o d)
  <2>1. CASE i <= Len(f)
    BY <1>3, <1>4, <1>6, <2>1
  <2>2. CASE i > Len(f)
    <3>1. i - Len(f) \in 1..Len(d) /\ (f \o d)[i] = d[i - Len(f)]
      BY <1>3, <1>6, <2>2
    <3> QED BY <1>4, <3>1
  <2> QED BY <1>3, <2>1, <2>2
<1>8. Len(JobsOf("own", <<u>>)) = 1 /\ Head(JobsOf("own", <<u>>)).url = u
  <2> DEFINE own == JobsOf("own", <<u>>)
  <2>1. own = [i \in 1..1 |-> [op |-> "own", url |-> u]]
    BY DEF JobsOf
  <2>2. own \in Seq(Job)
    BY JobsType
  <2>3. DOMAIN own = 1..1 /\ DOMAIN own = 1..Len(own) /\ Len(own) \in Nat
    BY <2>1, <2>2, LenProperties
  <2>4. Len(own) = 1
    BY <2>3
  <2>5. Head(own) = own[1]
    BY <2>2, <2>4
  <2> QED BY <2>1, <2>4, <2>5
<1> QED BY <1>5, <1>7, <1>8

\* Up to the listing: a key is claimed when it is marked, and by one job of one's own.
LEMMA EntryClaims ==
  ASSUME TypeOK, Claims, NEW w \in Workers,
         \/ Take(w) \/ Exit(w) \/ Check(w) \/ AskRobots(w) \/ Mark(w)
         \/ FetchFailed(w) \/ FetchNotHTML(w) \/ FetchListing(w) \/ Finish(w)
  PROVE  Claims'
<1>1. /\ wpc \in [Workers -> WorkerPcs] /\ wentry \in [Workers -> Entry] /\ wtodo \in [Workers -> Seq(Job)]
      /\ Url(w) \in Urls /\ Key(Url(w)) \in Urls
  <2>1. wpc \in [Workers -> WorkerPcs] /\ wentry \in [Workers -> Entry] /\ wtodo \in [Workers -> Seq(Job)]
    BY DEF TypeOK, ControlTypes
  <2>2. Url(w) \in Urls
    BY <2>1 DEF Url, Entry
  <2> QED BY <2>1, <2>2, JobsType
<1>2. OneOwnJob(w)
  BY DEF Claims
<1>3. Out' = Out
  BY DEF Take, Exit, Check, AskRobots, Mark, FetchFailed, FetchNotHTML, FetchListing, Finish, channel, Out
<1>4. wpc[w] \notin {"walk", "offer", "send"} => wtodo[w] = <<>>
  BY <1>2 DEF OneOwnJob
<1>5. CASE Take(w) \/ Exit(w) \/ Check(w) \/ AskRobots(w) \/ FetchFailed(w) \/ Finish(w)
  <2>1. /\ wpc[w] \in {"idle", "check", "robots", "fetch"} \/ (wpc[w] = "walk" /\ wtodo[w] = <<>>)
        /\ \E l \in {"check", "exit", "walk", "robots", "mark", "idle"} : wpc' = [wpc EXCEPT ![w] = l]
        /\ wtodo' = wtodo /\ visited' = visited
        /\ \E e : wentry' = [wentry EXCEPT ![w] = e]
    <3>1. wentry = [wentry EXCEPT ![w] = wentry[w]]
      BY <1>1
    <3> QED BY <1>5, <3>1 DEF Take, Exit, Check, AskRobots, FetchFailed, Finish, Goto
  <2>2. wtodo[w] = <<>> /\ wtodo'[w] = <<>>
    BY <1>4, <2>1
  <2>3. /\ \A v \in Workers : v # w => wpc'[v] = wpc[v] /\ wentry'[v] = wentry[v] /\ wtodo'[v] = wtodo[v]
        /\ wpc'[w] \in {"check", "exit", "walk", "robots", "mark", "idle"}
    BY <1>1, <2>1
  <2>4. OneOwnJob(w)'
    BY <2>2, EmptySeq DEF OneOwnJob
  <2>5. Claimed(w)' = {}
    BY <2>2, <2>3 DEF Claimed, HasJob
  <2> QED BY <1>3, <2>1, <2>3, <2>4, <2>5, ClaimsKept
<1>6. CASE Mark(w)
  <2> DEFINE k == Key(Url(w))
  <2>1. /\ wpc[w] = "mark" /\ visited' = visited \union {k} /\ wentry' = wentry
        /\ \/ k \in visited /\ wpc' = [wpc EXCEPT ![w] = "walk"] /\ wtodo' = wtodo
           \/ k \notin visited /\ wpc' = [wpc EXCEPT ![w] = "fetch"] /\ wtodo' = wtodo
           \/ /\ k \notin visited /\ wpc' = [wpc EXCEPT ![w] = "walk"]
              /\ wtodo' = [wtodo EXCEPT ![w] = JobsOf("own", <<Url(w)>>)]
    BY <1>6 DEF Mark, Goto
  <2>2. wtodo[w] = <<>>
    BY <1>4, <2>1
  <2>3. \A v \in Workers : v # w => wpc'[v] = wpc[v] /\ wentry'[v] = wentry[v] /\ wtodo'[v] = wtodo[v]
    BY <1>1, <2>1
  <2>4. CASE wtodo' = wtodo
    <3>1. wtodo'[w] = <<>> /\ wpc'[w] \in {"walk", "fetch"} /\ (wpc'[w] = "fetch" => k \notin visited)
      BY <1>1, <2>1, <2>2, <2>4
    <3>2. OneOwnJob(w)'
      BY <3>1, EmptySeq DEF OneOwnJob
    <3>3. \A x \in Claimed(w)' : x = k /\ k \notin visited
      BY <2>1, <3>1 DEF Claimed, HasJob, Url, Key
    <3> QED BY <1>3, <2>1, <2>3, <3>2, <3>3, ClaimsKept
  <2>5. CASE k \notin visited /\ wpc' = [wpc EXCEPT ![w] = "walk"]
               /\ wtodo' = [wtodo EXCEPT ![w] = JobsOf("own", <<Url(w)>>)]
    <3>1. wpc'[w] = "walk" /\ wtodo'[w] = JobsOf("own", <<Url(w)>>)
      BY <1>1, <2>5
    <3>2. Len(wtodo'[w]) = 1 /\ JobUrl(w)' = Url(w)
      BY <1>1, <3>1, ListedJobs DEF JobUrl
    <3>3. OneOwnJob(w)'
      BY <3>1, <3>2 DEF OneOwnJob
    <3>4. \A x \in Claimed(w)' : x = k
      BY <3>1, <3>2 DEF Claimed, Key
    <3> QED BY <1>3, <2>1, <2>3, <2>5, <3>3, <3>4, ClaimsKept
  <2> QED BY <2>1, <2>4, <2>5
<1>7. CASE FetchNotHTML(w) \/ FetchListing(w)
  <2>1. /\ wpc[w] = "fetch" /\ wpc' = [wpc EXCEPT ![w] = "walk"] /\ wentry' = wentry /\ visited' = visited
        /\ \E js \in {<<>>, Jobs(Url(w)), JobsOf("own", <<Url(w)>>)} : wtodo' = [wtodo EXCEPT ![w] = js]
    BY <1>7 DEF FetchNotHTML, FetchListing, Goto
  <2>2. PICK js \in {<<>>, Jobs(Url(w)), JobsOf("own", <<Url(w)>>)} : wtodo' = [wtodo EXCEPT ![w] = js]
    BY <2>1
  <2>3. /\ wpc'[w] = "walk" /\ wtodo'[w] = js
        /\ \A v \in Workers : v # w => wpc'[v] = wpc[v] /\ wentry'[v] = wentry[v] /\ wtodo'[v] = wtodo[v]
    BY <1>1, <2>1, <2>2
  <2>4. Key(Url(w)) \in Claimed(w)
    BY <1>1, <2>1 DEF Claimed
  <2>5. CASE js = JobsOf("own", <<Url(w)>>)
    <3>1. Len(wtodo'[w]) = 1 /\ JobUrl(w)' = Url(w)
      BY <1>1, <2>3, <2>5, ListedJobs DEF JobUrl
    <3>2. OneOwnJob(w)'
      BY <2>3, <3>1 DEF OneOwnJob
    <3>3. \A x \in Claimed(w)' : x = Key(Url(w))
      BY <2>3, <3>1 DEF Claimed, Key
    <3> QED BY <1>3, <2>1, <2>3, <2>4, <3>2, <3>3, ClaimsKept
  <2>6. CASE js \in {<<>>, Jobs(Url(w))}
    <3>1. js \in Seq(Job) /\ \A i \in 1..Len(js) : js[i].op # "own"
      <4>1. CASE js = <<>>
        BY <4>1, EmptySeq
      <4>2. CASE js = Jobs(Url(w))
        BY <1>1, <4>2, JobsType, ListedJobs
      <4> QED BY <2>6, <4>1, <4>2
    <3>2. js # <<>> => Head(js) = js[1] /\ 1 \in 1..Len(js)
      BY <3>1
    <3>3. OneOwnJob(w)'
      BY <2>3, <3>1 DEF OneOwnJob
    <3>4. Claimed(w)' = {}
      BY <2>3, <3>1, <3>2 DEF Claimed, HasJob
    <3> QED BY <1>3, <2>1, <2>3, <3>3, <3>4, ClaimsKept
  <2> QED BY <2>5, <2>6
<1> QED BY <1>5, <1>6, <1>7

\* Walking the jobs: a file of a listing is claimed when it is marked.
LEMMA WalkClaims ==
  ASSUME TypeOK, Claims, NEW w \in Workers,
         \/ DownloadOwn(w) \/ GetFile(w) \/ SendDropped(w)
         \/ SkipLink(w) \/ Offer(w) \/ OfferAccepted(w) \/ OfferAborted(w),
         wpc[w] \in {"send", "offer"} => wtodo[w] # <<>>
  PROVE  Claims'
<1>1. wpc \in [Workers -> WorkerPcs] /\ wtodo \in [Workers -> Seq(Job)]
  BY DEF TypeOK, ControlTypes
<1>2. OneOwnJob(w) /\ wtodo[w] # <<>> /\ wpc[w] \in {"walk", "offer", "send"}
  BY DEF Claims, DownloadOwn, GetFile, SendDropped, SkipLink, Offer, OfferAccepted, OfferAborted, HasJob
<1>3. JobUrl(w) \in Urls /\ Key(JobUrl(w)) \in Urls
  <2>1. Head(wtodo[w]) \in Job
    BY <1>1, <1>2
  <2>2. JobUrl(w) \in Urls
    BY <2>1 DEF JobUrl, Job
  <2> QED BY <2>2, JobsType
<1>4. Out' = Out /\ wentry' = wentry
  BY DEF DownloadOwn, GetFile, SendDropped, SkipLink, Offer, OfferAccepted, OfferAborted, channel, Out
<1>5. visited' = visited \/ visited' = visited \union {Key(JobUrl(w))}
  BY DEF DownloadOwn, GetFile, SendDropped, SkipLink, Offer, OfferAccepted, OfferAborted
<1>6. CASE NextJob(w) /\ ((wpc' = wpc /\ wpc[w] = "walk") \/ Goto(w, "walk"))
  <2>1. wpc'[w] = "walk" /\ \A v \in Workers : v # w => wpc'[v] = wpc[v]
    BY <1>1, <1>6 DEF Goto
  <2>2. /\ OneOwnJob(w)'
        /\ wtodo'[w] # <<>> => Head(wtodo'[w]).op # "own"
        /\ \A v \in Workers : v # w => wtodo'[v] = wtodo[v]
    BY <1>2, <1>6, <2>1, NextJobKeeps
  <2>3. Claimed(w)' = {}
    BY <2>1, <2>2 DEF Claimed, HasJob
  <2> QED BY <1>4, <1>5, <2>1, <2>2, <2>3, ClaimsKept
<1>7. CASE Goto(w, "offer") /\ wtodo' = wtodo
  <2>1. wpc'[w] = "offer" /\ \A v \in Workers : v # w => wpc'[v] = wpc[v]
    BY <1>1, <1>7 DEF Goto
  <2>2. OneOwnJob(w)'
    BY <1>2, <1>7, <2>1 DEF OneOwnJob
  <2>3. Claimed(w)' = {}
    BY <2>1 DEF Claimed, HasJob
  <2> QED BY <1>4, <1>5, <1>7, <2>1, <2>2, <2>3, ClaimsKept
<1>8. CASE Goto(w, "send") /\ wtodo' = wtodo
  <2>1. wpc'[w] = "send" /\ \A v \in Workers : v # w => wpc'[v] = wpc[v]
    BY <1>1, <1>8 DEF Goto
  <2>2. OneOwnJob(w)'
    BY <1>2, <1>8, <2>1 DEF OneOwnJob
  <2>3. \A k \in Claimed(w)' : k = Key(JobUrl(w))
    BY <1>8, <2>1 DEF Claimed, HasJob, JobUrl, Key
  <2>4. \/ HasJob(w, "own")
        \/ visited' = visited \union {Key(JobUrl(w))} /\ Key(JobUrl(w)) \notin visited
    <3>1. HasJob(w, "own") \/ GetFile(w)
      BY <1>1, <1>8, <2>1 DEF DownloadOwn, SendDropped, SkipLink, Offer, OfferAccepted, OfferAborted, HasJob, Goto
    <3>2. CASE GetFile(w)
      <4>1. \/ ~Fresh(w) /\ wpc' = wpc
            \/ Fresh(w) /\ visited' = visited \union {Key(JobUrl(w))}
        BY <3>2 DEF GetFile
      <4>2. wpc[w] = "walk"
        BY <3>2 DEF GetFile, HasJob
      <4> QED BY <2>1, <4>1, <4>2 DEF Fresh
    <3> QED BY <3>1, <3>2
  <2>5. HasJob(w, "own") => Key(JobUrl(w)) \in Claimed(w)
    BY <1>3 DEF Claimed
  <2> QED BY <1>3, <1>4, <1>5, <1>8, <2>1, <2>2, <2>3, <2>4, <2>5, ClaimsKept
<1>9. \/ NextJob(w) /\ ((wpc' = wpc /\ wpc[w] = "walk") \/ Goto(w, "walk"))
      \/ Goto(w, "offer") /\ wtodo' = wtodo
      \/ Goto(w, "send") /\ wtodo' = wtodo
  <2>1. CASE DownloadOwn(w) \/ GetFile(w)
    <3>1. wpc[w] = "walk"
      BY <2>1 DEF DownloadOwn, GetFile, HasJob
    <3> QED BY <2>1, <3>1 DEF DownloadOwn, GetFile, Download
  <2>2. CASE SendDropped(w) \/ SkipLink(w) \/ Offer(w) \/ OfferAccepted(w) \/ OfferAborted(w)
    BY <2>2 DEF SendDropped, SkipLink, Offer, OfferAccepted, OfferAborted, HasJob
  <2> QED BY <2>1, <2>2
<1> QED BY <1>6, <1>7, <1>8, <1>9

\* The send: the claim of the worker becomes an entry of the channel.
LEMMA SendClaims ==
  ASSUME TypeOK, Claims, NEW w \in Workers, Send(w), wtodo[w] # <<>>
  PROVE  Claims'
<1> DEFINE u == JobUrl(w)
<1>1. wpc \in [Workers -> WorkerPcs] /\ wtodo \in [Workers -> Seq(Job)]
  BY DEF TypeOK, ControlTypes
<1>2. /\ wpc[w] = "send" /\ wpc' = [wpc EXCEPT ![w] = "walk"] /\ NextJob(w)
      /\ entriesCh' = Append(entriesCh, u)
      /\ UNCHANGED <<wentry, visited, handed>>
  BY DEF Send, Goto, SendEntry
<1>3. u \in Urls /\ Key(u) \in Urls
  <2>1. Head(wtodo[w]) \in Job
    BY <1>1
  <2>2. u \in Urls
    BY <2>1 DEF JobUrl, Job
  <2> QED BY <2>2, JobsType
<1>4. Key(u) \in Claimed(w)
  BY <1>2, <1>3 DEF Claimed
<1>5. /\ Key(u) \in visited /\ \A i \in 1..Len(Out) : Key(Out[i]) # Key(u)
      /\ \A v \in Workers : v # w => Key(u) \notin Claimed(v)
  BY <1>4 DEF Claims
<1>6. wpc'[w] = "walk" /\ \A v \in Workers : v # w => wpc'[v] = wpc[v]
  BY <1>1, <1>2
<1>7. /\ OneOwnJob(w)'
      /\ wtodo'[w] # <<>> => Head(wtodo'[w]).op # "own"
      /\ \A v \in Workers : v # w => wtodo'[v] = wtodo[v]
  BY <1>2, <1>6, NextJobKeeps DEF Claims
<1>8. Claimed(w)' = {}
  BY <1>6, <1>7 DEF Claimed, HasJob
<1>9. \A v \in Workers : v # w => Claimed(v)' = Claimed(v) /\ OneOwnJob(v)'
  BY <1>2, <1>6, <1>7 DEF Claims, Claimed, OneOwnJob, HasJob, Url, JobUrl
<1>10. /\ Out' = Append(Out, u) /\ Len(Out)' = Len(Out) + 1
       /\ (\A i \in 1..Len(Out) : Out'[i] = Out[i]) /\ Out'[Len(Out) + 1] = u
  <2>1. handed \in Seq(Urls) /\ entriesCh \in Seq(Urls) /\ Out \in Seq(Urls) /\ <<u>> \in Seq(Urls)
    BY <1>3, OutType DEF TypeOK, OutTypes
  <2>2. Append(entriesCh, u) = entriesCh \o <<u>> /\ Append(Out, u) = Out \o <<u>>
    BY <1>3, <2>1, AppendIsConcat
  <2>3. Out' = Append(Out, u)
    BY <1>2, <2>1, <2>2, ConcatAssociative DEF Out
  <2> QED BY <1>3, <2>1, <2>3, AppendProperties
<1>11. Len(Out) \in Nat /\ \A i \in 1..Len(Out)' : i \in 1..Len(Out) \/ i = Len(Out) + 1
  BY <1>10, OutType
<1>12. \A i, j \in 1..Len(Out)' : Key(Out'[i]) = Key(Out'[j]) => i = j
  BY <1>5, <1>10, <1>11 DEF Claims
<1>13. \A i \in 1..Len(Out)' : Key(Out'[i]) \in visited
  BY <1>5, <1>10, <1>11 DEF Claims
<1>14. \A v \in Workers : \A k \in Claimed(v)' : k \in visited /\ \A i \in 1..Len(Out)' : Key(Out'[i]) # k
  BY <1>5, <1>8, <1>9, <1>10, <1>11 DEF Claims
<1>15. \A v, x \in Workers : \A k \in Claimed(v)' : k \in Claimed(x)' => v = x
  BY <1>8, <1>9 DEF Claims
<1> QED BY <1>2, <1>7, <1>9, <1>12, <1>13, <1>14, <1>15 DEF Claims, Key

\* The dispatcher, the caller and the consumer claim nothing.
LEMMA OtherClaims ==
  ASSUME TypeOK, Claims, Structure,
         MainStep \/ DispatcherStep \/ Consume \/ Interrupt \/ UNCHANGED crawlVars
  PROVE  Claims'
<1>1. CASE SeedAccepted
  <2>1. \A w \in Workers : wpc[w] = "unborn" /\ wpc'[w] = "idle"
    BY <1>1 DEF SeedAccepted, Structure
  <2>2. UNCHANGED <<wentry, wtodo, visited, handed, entriesCh>>
    BY <1>1 DEF SeedAccepted, channel
  <2>3. \A w \in Workers : Claimed(w)' = {} /\ OneOwnJob(w)'
    BY <2>1, <2>2 DEF Claims, Claimed, OneOwnJob, HasJob
  <2> QED BY <2>2, <2>3 DEF Claims, Out, Key
<1>2. CASE Consume
  <2>1. UNCHANGED <<wpc, wentry, wtodo, visited>>
    BY <1>2 DEF Consume, workerVars, ReceiveEntry
  <2>2. Out' = Out
    <3>1. handed \in Seq(Urls) /\ entriesCh \in Seq(Urls) /\ entriesCh # <<>>
      BY <1>2 DEF Consume, TypeOK, OutTypes, ReceiveEntry
    <3> DEFINE h == Head(entriesCh)
    <3>2. h \in Urls /\ Tail(entriesCh) \in Seq(Urls) /\ <<h>> \in Seq(Urls) /\ <<h>> \o Tail(entriesCh) = entriesCh
      BY <3>1
    <3>3. Append(handed, h) = handed \o <<h>>
      BY <3>1, <3>2, AppendIsConcat
    <3>4. Append(handed, h) \o Tail(entriesCh) = handed \o entriesCh
      BY <3>1, <3>2, <3>3, ConcatAssociative
    <3> QED BY <1>2, <3>4 DEF Consume, Out, ReceiveEntry
  <2> QED BY <2>1, <2>2 DEF Claims, Claimed, OneOwnJob, HasJob, Url, JobUrl, Key
<1>3. CASE \/ SeedRefused \/ SeedOffer \/ SeedAborted \/ CloseEntries \/ DispatcherStep
           \/ Interrupt \/ UNCHANGED crawlVars
  <2>1. UNCHANGED <<wpc, wentry, wtodo, visited, handed, entriesCh>>
    BY <1>3 DEF SeedRefused, SeedOffer, SeedAborted, CloseEntries, DispatcherStep, DispatchIn, DispatchOut,
                DispatchStop, Interrupt, crawlVars, workerVars, channel, poolVars
  <2> QED BY <2>1 DEF Claims, Claimed, OneOwnJob, HasJob, Url, JobUrl, Key, Out
<1> QED BY <1>1, <1>2, <1>3 DEF MainStep

\* At the start nothing is claimed.
LEMMA InitClaims == CrawlInit => Claims
<1> SUFFICES ASSUME CrawlInit PROVE Claims
  OBVIOUS
<1>1. Out = <<>>
  BY ConcatEmptySeq, EmptySeq DEF CrawlInit, Out, ChannelInit
<1>2. \A w \in Workers : Claimed(w) = {} /\ OneOwnJob(w)
  BY EmptySeq DEF CrawlInit, Claimed, OneOwnJob, HasJob, ChannelInit
<1> QED BY <1>1, <1>2, EmptySeq DEF Claims

\* The invariant of the claims is inductive over IInv.
LEMMA ClaimsKeep == IInv /\ Claims /\ [CrawlNext]_crawlVars => Claims'
<1> SUFFICES ASSUME IInv, Claims, [CrawlNext]_crawlVars PROVE Claims'
  OBVIOUS
<1>1. TypeOK /\ Structure
  BY DEF IInv
<1>2. ASSUME NEW w \in Workers, WorkerStep(w) PROVE Claims'
  <2>1. wpc[w] \in {"send", "offer"} => wtodo[w] # <<>>
    BY <1>1 DEF Structure
  <2>2. CASE Send(w)
    BY <1>1, <2>1, <2>2, SendClaims DEF Send, SendEntry
  <2>3. CASE ~Send(w)
    BY <1>1, <1>2, <2>1, <2>3, EntryClaims, WalkClaims DEF WorkerStep, ProcessStep
  <2> QED BY <2>2, <2>3
<1>3. CASE MainStep \/ DispatcherStep \/ Consume \/ Interrupt \/ UNCHANGED crawlVars
  BY <1>1, <1>3, OtherClaims
<1> QED BY <1>2, <1>3 DEF CrawlNext, CrawlStep, CrawlEnded

\* Both invariants of the crawl.
THEOREM ClaimsInductive == CrawlSpec => [](IInv /\ Claims)
<1>1. CrawlInit => IInv /\ Claims
  BY InitIInv, InitClaims
<1>2. IInv /\ Claims /\ [CrawlNext]_crawlVars => (IInv /\ Claims)'
  BY NextIInv, ClaimsKeep
<1> QED BY <1>1, <1>2, PTL DEF CrawlSpec

\* Distinct claims are distinct keys.
LEMMA ClaimsDistinct == IInv /\ Claims => NoDoubleDownload
<1> SUFFICES ASSUME IInv, Claims PROVE NoDoubleDownload
  OBVIOUS
<1>1. \A w \in Sending : Key(JobUrl(w)) \in Claimed(w) /\ w \in Workers
  <2> SUFFICES ASSUME NEW w \in Sending PROVE Key(JobUrl(w)) \in Claimed(w) /\ w \in Workers
    OBVIOUS
  <2>1. w \in Workers /\ wpc[w] = "send" /\ wtodo[w] \in Seq(Job) /\ wtodo[w] # <<>>
    BY DEF Sending, IInv, TypeOK, ControlTypes, Structure
  <2>2. Head(wtodo[w]) \in Job
    BY <2>1
  <2>3. JobUrl(w) \in Urls /\ Key(JobUrl(w)) \in Urls
    BY <2>2, JobsType DEF JobUrl, Job
  <2> QED BY <2>1, <2>3 DEF Claimed
<1>2. \A w \in Sending : Key(JobUrl(w)) \notin {Key(u) : u \in SeqSet(Out)}
  BY <1>1 DEF Claims, SeqSet
<1>3. \A v, w \in Sending : Key(JobUrl(v)) = Key(JobUrl(w)) => v = w
  BY <1>1 DEF Claims
<1> QED BY <1>2, <1>3 DEF NoDoubleDownload, Claims, Out

\* NoDoubleDownload: two workers that meet the same resource, under any spellings and
\* in any order, never both hand it over; and nothing is handed over twice.
THEOREM HandedOverOnce == CrawlSpec => []NoDoubleDownload
BY ClaimsInductive, ClaimsDistinct, PTL

-----------------------------------------------------------------------------
(* Nothing is handed over that the reference crawl does not reach.  Where  *)
(* a page is on its way at depth n, n keys have been visited (each on the  *)
(* path to it was new), so the depth never leaves the domain of Hops; and  *)
(* a job is only ever what the reference definition allows.                *)

\* What is in a sequence after appending to it.
LEMMA SetOfAppend ==
  ASSUME NEW S, NEW s \in Seq(S), NEW x \in S
  PROVE  SeqSet(Append(s, x)) = SeqSet(s) \union {x}
<1>1. /\ Len(Append(s, x)) = Len(s) + 1 /\ Len(s) \in Nat
      /\ \A i \in 1..Len(s) : Append(s, x)[i] = s[i]
      /\ Append(s, x)[Len(s) + 1] = x
  BY AppendProperties, LenProperties
<1>2. 1..(Len(s) + 1) = 1..Len(s) \union {Len(s) + 1}
  BY <1>1
<1> QED BY <1>1, <1>2 DEF SeqSet

\* What is in a sequence without its head.
LEMMA SetOfTail ==
  ASSUME NEW S, NEW s \in Seq(S), s # <<>>
  PROVE  SeqSet(s) = {Head(s)} \union SeqSet(Tail(s))
<1>1. /\ Head(s) = s[1] /\ Len(s) \in Nat \ {0} /\ Len(Tail(s)) = Len(s) - 1
      /\ \A i \in 1..Len(Tail(s)) : Tail(s)[i] = s[i + 1]
  BY HeadTailProperties, EmptySeq, LenProperties
<1>2. \A i \in 1..Len(s) : i = 1 \/ i - 1 \in 1..Len(Tail(s))
  BY <1>1
<1>3. \A i \in 1..Len(Tail(s)) : i + 1 \in 1..Len(s)
  BY <1>1
<1>4. SeqSet(s) \subseteq {Head(s)} \union SeqSet(Tail(s))
  <2> SUFFICES ASSUME NEW i \in 1..Len(s) PROVE s[i] \in {Head(s)} \union SeqSet(Tail(s))
    BY DEF SeqSet
  <2>1. CASE i # 1
    <3>1. i - 1 \in 1..Len(Tail(s)) /\ (i - 1) + 1 = i
      BY <1>2, <2>1
    <3>2. Tail(s)[i - 1] = s[i]
      BY <1>1, <3>1
    <3> QED BY <3>1, <3>2 DEF SeqSet
  <2> QED BY <1>1, <2>1
<1>5. {Head(s)} \union SeqSet(Tail(s)) \subseteq SeqSet(s)
  <2>1. 1 \in 1..Len(s)
    BY <1>1
  <2> QED BY <1>1, <1>3, <2>1 DEF SeqSet
<1> QED BY <1>4, <1>5

\* Nothing is in the empty sequence.
LEMMA SetOfNone == SeqSet(<<>>) = {}
BY EmptySeq DEF SeqSet

\* What is in two sequences joined.
LEMMA SetOfConcat ==
  ASSUME NEW S, NEW s \in Seq(S), NEW t \in Seq(S)
  PROVE  SeqSet(s \o t) = SeqSet(s) \union SeqSet(t)
<1> DEFINE m == Len(s)
           n == Len(t)
           u == s \o t
<1>1. /\ m \in Nat /\ n \in Nat /\ Len(u) = m + n
      /\ \A i \in 1..m + n : u[i] = IF i <= m THEN s[i] ELSE t[i - m]
  BY ConcatProperties, LenProperties
<1> HIDE DEF m, n, u
<1>2. \A i \in 1..m : i \in 1..m + n /\ u[i] = s[i]
  BY <1>1
<1>3. \A i \in 1..n : m + i \in 1..m + n /\ u[m + i] = t[i]
  <2> SUFFICES ASSUME NEW i \in 1..n PROVE m + i \in 1..m + n /\ u[m + i] = t[i]
    OBVIOUS
  <2>1. m + i \in 1..m + n /\ ~(m + i <= m) /\ (m + i) - m = i
    BY <1>1
  <2> QED BY <1>1, <2>1
<1>4. \A i \in 1..m + n : (i \in 1..m /\ u[i] = s[i]) \/ (i - m \in 1..n /\ u[i] = t[i - m])
  BY <1>1
<1>5. SeqSet(s) \subseteq SeqSet(u) /\ SeqSet(t) \subseteq SeqSet(u)
  BY <1>1, <1>2, <1>3 DEF SeqSet, m, n
<1>6. SeqSet(u) \subseteq SeqSet(s) \union SeqSet(t)
  BY <1>1, <1>4 DEF SeqSet, m, n
<1> QED BY <1>5, <1>6 DEF u

\* The jobs of a listing are its files and its directories.
LEMMA ListingJobs ==
  ASSUME NEW u \in Urls
  PROVE  /\ SeqSet(Jobs(u)) = {[op |-> "get", url |-> f] : f \in SeqSet(Site[u].files)}
                                \union {[op |-> "link", url |-> d] : d \in SeqSet(Site[u].dirs)}
         /\ SeqSet(JobsOf("own", <<u>>)) = {[op |-> "own", url |-> u]}
<1>1. Site[u].files \in Seq(Urls) /\ Site[u].dirs \in Seq(Urls) /\ <<u>> \in Seq(Urls)
  BY CrawlAssumption DEF UrlInfo
<1>2. ASSUME NEW op \in {"own", "get", "link"}, NEW us \in Seq(Urls)
      PROVE  SeqSet(JobsOf(op, us)) = {[op |-> op, url |-> x] : x \in SeqSet(us)}
  <2>1. JobsOf(op, us) \in Seq(Job)
    BY JobsOfType
  <2>2. DOMAIN JobsOf(op, us) = 1..Len(us) /\ \A i \in 1..Len(us) : JobsOf(op, us)[i] = [op |-> op, url |-> us[i]]
    BY DEF JobsOf
  <2>3. 1..Len(JobsOf(op, us)) = 1..Len(us)
    BY <2>1, <2>2, LenProperties
  <2> QED BY <2>2, <2>3 DEF SeqSet
<1>3. SeqSet(Jobs(u)) = SeqSet(JobsOf("get", Site[u].files)) \union SeqSet(JobsOf("link", Site[u].dirs))
  <2>1. JobsOf("get", Site[u].files) \in Seq(Job) /\ JobsOf("link", Site[u].dirs) \in Seq(Job)
    BY <1>1, JobsOfType
  <2> QED BY <2>1, SetOfConcat DEF Jobs
<1>4. SeqSet(<<u>>) = {u}
  BY DEF SeqSet
<1>5. SeqSet(JobsOf("get", Site[u].files)) = {[op |-> "get", url |-> f] : f \in SeqSet(Site[u].files)}
  BY <1>1, <1>2
<1>6. SeqSet(JobsOf("link", Site[u].dirs)) = {[op |-> "link", url |-> d] : d \in SeqSet(Site[u].dirs)}
  BY <1>1, <1>2
<1>7. SeqSet(JobsOf("own", <<u>>)) = {[op |-> "own", url |-> x] : x \in SeqSet(<<u>>)}
  BY <1>1, <1>2
<1> QED BY <1>3, <1>4, <1>5, <1>6, <1>7

\* The reference crawl, level by level.
LEMMA HopsSteps ==
  /\ Cardinality(Urls) \in Nat
  /\ Hops \in [0..Cardinality(Urls) -> SUBSET Urls]
  /\ Hops[0] = {Seed}
  /\ \A n \in 1..Cardinality(Urls) :
       Hops[n] = UNION {SeqSet(Site[u].dirs) : u \in {v \in Hops[n-1] : Expands(v, n-1)}}
<1> DEFINE N == Cardinality(Urls)
           Up(T, k) == UNION {SeqSet(Site[u].dirs) : u \in {v \in T : Expands(v, k)}}
           St == [x \in (SUBSET Urls) \X (1..N) |-> Up(x[1], x[2] - 1)]
           hops == CHOOSE h : h = [n \in 0..N |-> IF n = 0 THEN {Seed} ELSE Up(h[n-1], n-1)]
<1>1. N \in Nat /\ {Seed} \in SUBSET Urls
  BY ChannelAssumption, CrawlAssumption, FS_CardinalityType
<1>2. \A T \in SUBSET Urls : \A k : Up(T, k) \in SUBSET Urls
  <2> SUFFICES ASSUME NEW u \in Urls PROVE SeqSet(Site[u].dirs) \in SUBSET Urls
    OBVIOUS
  <2>1. Site[u].dirs \in Seq(Urls)
    BY CrawlAssumption DEF UrlInfo
  <2> QED BY <2>1 DEF SeqSet
<1>3. St \in Steps(N, SUBSET Urls)
  <2> HIDE DEF N, Up
  <2> QED BY <1>2 DEF Steps
<1>4. PICK g \in Maps(N, SUBSET Urls) : g[0] = {Seed} /\ \A n \in 1..N : g[n] = St[<<g[n-1], n>>]
  <2> DEFINE V == SUBSET Urls
             b == {Seed}
  <2>1. N \in Nat /\ b \in V /\ St \in Steps(N, V)
    BY <1>1, <1>3
  <2>2. \E g \in Maps(N, V) : g[0] = b /\ \A n \in 1..N : g[n] = St[<<g[n-1], n>>]
    <3> HIDE DEF St, N, V, b
    <3> QED BY <2>1, RecursionExists
  <2> QED BY <2>2
<1>5. g \in [0..N -> SUBSET Urls] /\ g[0] = {Seed} /\ \A n \in 1..N : g[n] = Up(g[n-1], n-1)
  <2>1. g \in [0..N -> SUBSET Urls] /\ g[0] = {Seed}
    BY <1>4 DEF Maps
  <2>2. ASSUME NEW n \in 1..N PROVE g[n] = Up(g[n-1], n-1)
    <3>1. g[n-1] \in SUBSET Urls /\ g[n] = St[<<g[n-1], n>>]
      <4> HIDE DEF St, N
      <4> QED BY <1>1, <1>4, <2>1
    <3> HIDE DEF Up
    <3> QED BY <3>1
  <2> QED BY <2>1, <2>2
<1>6. g = [n \in 0..N |-> IF n = 0 THEN {Seed} ELSE Up(g[n-1], n-1)]
  <2> HIDE DEF N, Up
  <2>1. ASSUME NEW n \in 0..N PROVE g[n] = IF n = 0 THEN {Seed} ELSE Up(g[n-1], n-1)
    <3>1. n = 0 \/ n \in 1..N
      BY <1>1
    <3> QED BY <1>5, <3>1
  <2> QED BY <1>5, <2>1
<1>7. hops = [n \in 0..N |-> IF n = 0 THEN {Seed} ELSE Up(hops[n-1], n-1)]
  BY <1>6
<1>8. \A n \in 0..N : hops[n] = g[n]
  <2> HIDE DEF hops, N, Up
  <2>1. hops[0] = g[0]
    BY <1>1, <1>5, <1>7
  <2>2. ASSUME NEW n \in 1..N PROVE hops[n] = Up(hops[n-1], n-1)
    <3>1. n \in 0..N /\ n # 0
      BY <1>1
    <3> QED BY <1>7, <3>1
  <2>3. \A n \in 1..N : hops[n-1] = g[n-1] => hops[n] = g[n]
    BY <1>5, <2>2
  <2> QED BY <1>1, <2>1, <2>3, SameSteps
<1>9. hops = g
  <2> HIDE DEF hops, N, Up
  <2>1. hops = [n \in 0..N |-> hops[n]]
    BY <1>7
  <2> QED BY <1>5, <1>8, <2>1
<1>10. Hops = hops
  BY DEF Hops
<1> QED
  <2> HIDE DEF hops
  <2> QED BY <1>1, <1>5, <1>9, <1>10

Clean == ~cancelled /\ ~FetchMayFail

\* The entries on their way to a worker.
Queued == SeqSet(inbox) \union SeqSet(queue) \union SeqSet(work)

Reached(e) ==
  /\ e.depth <= Cardinality(visited)
  /\ Clean => e.url \in Hops[e.depth]

\* What a worker may have to do for the entry e.
Lawful(e, j) ==
  \/ /\ j.op = "own" /\ j.url = e.url /\ MayVisit(e.url)
     /\ DirectFile(e) \/ Site[e.url].answer = "notHTML"
  \/ j.op = "get" /\ Expands(e.url, e.depth) /\ j.url \in SeqSet(Site[e.url].files)
  \/ j.op = "link" /\ Expands(e.url, e.depth) /\ j.url \in SeqSet(Site[e.url].dirs)

\* What a worker has found out about its entry before it does the next thing.
Allowed(w) ==
  /\ wpc[w] = "robots" => PathAllowed(Url(w)) /\ RespectRobots /\ IsHTTP(Url(w))
  /\ wpc[w] \in {"mark", "fetch"} => MayVisit(Url(w))
  /\ wpc[w] = "fetch" => ~DirectFile(wentry[w])
  /\ \A j \in SeqSet(wtodo[w]) : Lawful(wentry[w], j)
  /\ wpc[w] = "send" => /\ Site[JobUrl(w)].accepted /\ PathAllowed(JobUrl(w))
                        /\ Head(wtodo[w]).op # "link"
  /\ wpc[w] = "offer" => Head(wtodo[w]).op = "link"

WorkerReach(w) ==
  /\ wpc[w] \in {"check", "robots", "mark"} => Reached(wentry[w])
  /\ wpc[w] = "fetch" \/ wtodo[w] # <<>> =>
       Reached(wentry[w]) /\ wentry[w].depth + 1 <= Cardinality(visited)
  /\ Clean => Allowed(w)

\* What may be handed over: the reference crawl wants it, or it is the exception.
Wanted(u) == Key(u) \in Expected \/ u \in Forbidden

ReachInv ==
  /\ \A e \in Queued : Reached(e)
  /\ \A w \in Workers : WorkerReach(w)
  /\ Clean => \A u \in Delivered : Wanted(u)

\* Visited keys are urls, and so no more than there are of them.
LEMMA Sizes ==
  ASSUME NEW A, NEW B, A \subseteq B, B \subseteq Urls
  PROVE  /\ Cardinality(A) \in Nat /\ Cardinality(B) \in Nat /\ Cardinality(Urls) \in Nat
         /\ Cardinality(A) <= Cardinality(B) /\ Cardinality(B) <= Cardinality(Urls)
<1>1. IsFiniteSet(A) /\ IsFiniteSet(B) /\ IsFiniteSet(Urls)
  BY ChannelAssumption, FS_Subset
<1> QED BY <1>1, FS_Subset, FS_CardinalityType

\* A step of worker w that puts nothing into a channel which may not be there.
LEMMA ReachKept ==
  ASSUME TypeOK, TypeOK', ReachInv, NEW w \in Workers, visited \subseteq visited', cancelled' = cancelled,
         \A v \in Workers : v # w => wpc'[v] = wpc[v] /\ wentry'[v] = wentry[v] /\ wtodo'[v] = wtodo[v],
         \A e \in Queued' : e \in Queued \/ Reached(e)',
         Clean => \A u \in Delivered' : u \in Delivered \/ Wanted(u),
         WorkerReach(w)'
  PROVE  ReachInv'
<1>1. /\ Cardinality(visited) \in Nat /\ Cardinality(visited') \in Nat
      /\ Cardinality(visited) <= Cardinality(visited')
  BY Sizes DEF TypeOK, OutTypes
<1>2. Clean' <=> Clean
  BY DEF Clean
<1>3. \A e \in Queued' : Reached(e)'
  <2> SUFFICES ASSUME NEW e \in Queued', e \in Queued PROVE Reached(e)'
    OBVIOUS
  <2>1. Reached(e) /\ e.depth \in Nat
    <3>1. e \in Entry
      BY DEF Queued, SeqSet, TypeOK, PoolTypes
    <3> QED BY <3>1 DEF ReachInv, Entry
  <2> QED BY <1>1, <1>2, <2>1 DEF Reached
<1>4. ASSUME NEW v \in Workers, v # w PROVE WorkerReach(v)'
  <2>1. wentry[v].depth \in Nat
    BY DEF TypeOK, ControlTypes, Entry
  <2>2. wpc'[v] = wpc[v] /\ wentry'[v] = wentry[v] /\ wtodo'[v] = wtodo[v] /\ WorkerReach(v)
    BY <1>4 DEF ReachInv
  <2>3. Allowed(v)' <=> Allowed(v)
    BY <2>2 DEF Allowed, Url, JobUrl
  <2>4. Reached(wentry[v]) => Reached(wentry[v])'
    BY <1>1, <1>2, <2>1, <2>2 DEF Reached
  <2> QED BY <1>1, <1>2, <2>1, <2>2, <2>3, <2>4 DEF WorkerReach
<1>5. Clean' => \A u \in Delivered' : Wanted(u)
  BY <1>2 DEF ReachInv
<1> QED BY <1>3, <1>4, <1>5 DEF ReachInv, Wanted, Key, Expected, Forbidden

\* Up to the listing: a page that is marked is one more that has been visited.
LEMMA EntryReach ==
  ASSUME TypeOK, TypeOK', Claims, ReachInv, NEW w \in Workers,
         \/ Take(w) \/ Exit(w) \/ Check(w) \/ AskRobots(w) \/ Mark(w)
         \/ FetchFailed(w) \/ FetchNotHTML(w) \/ FetchListing(w) \/ Finish(w)
  PROVE  ReachInv'
<1>1. /\ wpc \in [Workers -> WorkerPcs] /\ wentry \in [Workers -> Entry] /\ wtodo \in [Workers -> Seq(Job)]
      /\ Url(w) \in Urls /\ Key(Url(w)) \in Urls /\ wentry[w].depth \in Nat
  <2>1. wpc \in [Workers -> WorkerPcs] /\ wentry \in [Workers -> Entry] /\ wtodo \in [Workers -> Seq(Job)]
    BY DEF TypeOK, ControlTypes
  <2>2. Url(w) \in Urls /\ wentry[w].depth \in Nat
    BY <2>1 DEF Url, Entry
  <2> QED BY <2>1, <2>2, JobsType
<1>2. wpc[w] \notin {"walk", "offer", "send"} => wtodo[w] = <<>>
  BY DEF Claims, OneOwnJob
<1>3. WorkerReach(w) /\ \A e \in Queued : Reached(e)
  BY DEF ReachInv
<1>4. cancelled' = cancelled /\ visited \subseteq visited' /\ UNCHANGED <<inbox, queue, entriesCh, handed>>
  BY DEF Take, Exit, Check, AskRobots, Mark, FetchFailed, FetchNotHTML, FetchListing, Finish, poolVars, channel
<1>5. (Clean' <=> Clean) /\ Delivered' = Delivered
  BY <1>4 DEF Clean, Delivered
<1>6. work # <<>> => Head(work) \in Queued /\ Head(work) \in Entry /\ SeqSet(Tail(work)) \subseteq SeqSet(work)
  BY SetOfTail DEF TypeOK, PoolTypes, Queued
<1>7. \A e \in Queued' : e \in Queued
  <2>1. work' = work \/ (work # <<>> /\ work' = Tail(work))
    BY DEF Take, Exit, Check, AskRobots, Mark, FetchFailed, FetchNotHTML, FetchListing, Finish, poolVars
  <2> QED BY <1>4, <1>6, <2>1 DEF Queued
<1>8. \A v \in Workers : v # w => wpc'[v] = wpc[v] /\ wentry'[v] = wentry[v] /\ wtodo'[v] = wtodo[v]
  BY <1>1 DEF Take, Exit, Check, AskRobots, Mark, FetchFailed, FetchNotHTML, FetchListing, Finish, Goto
<1>9. ASSUME WorkerReach(w)' PROVE ReachInv'
  BY <1>4, <1>5, <1>7, <1>8, <1>9, ReachKept
<1>10. CASE Take(w)
  <2>1. /\ wpc'[w] = "check" /\ wentry'[w] = Head(work) /\ wtodo'[w] = <<>> /\ visited' = visited
        /\ work # <<>>
    BY <1>1, <1>2, <1>10 DEF Take, Goto
  <2>2. Reached(wentry[w])'
    BY <1>3, <1>5, <1>6, <2>1 DEF Reached
  <2>3. WorkerReach(w)'
    BY <2>1, <2>2, SetOfNone DEF WorkerReach, Allowed
  <2> QED BY <1>9, <2>3
<1>11. CASE Exit(w) \/ FetchFailed(w) \/ Finish(w)
  <2>1. wpc'[w] \in {"exit", "walk", "idle"} /\ wtodo'[w] = <<>>
    BY <1>1, <1>2, <1>11 DEF Exit, FetchFailed, Finish, Goto
  <2>2. WorkerReach(w)'
    BY <2>1, SetOfNone DEF WorkerReach, Allowed
  <2> QED BY <1>9, <2>2
<1>12. CASE Check(w) \/ AskRobots(w)
  <2>1. /\ wpc[w] \in {"check", "robots"} /\ wpc'[w] \in {"walk", "robots", "mark"}
        /\ wentry'[w] = wentry[w] /\ wtodo'[w] = <<>> /\ visited' = visited
    BY <1>1, <1>2, <1>12 DEF Check, AskRobots, Goto
  <2>2. Reached(wentry[w])'
    BY <1>3, <1>5, <2>1 DEF WorkerReach, Reached
  <2>3. Clean /\ wpc'[w] = "robots" => PathAllowed(Url(w)) /\ RespectRobots /\ IsHTTP(Url(w))
    BY <1>1, <1>12 DEF Check, AskRobots, Goto
  <2>4. Clean /\ wpc'[w] = "mark" => MayVisit(Url(w))
    BY <1>1, <1>3, <1>12 DEF Check, AskRobots, Goto, WorkerReach, Allowed, Clean, MayVisit
  <2>5. WorkerReach(w)'
    BY <1>5, <2>1, <2>2, <2>3, <2>4, SetOfNone DEF WorkerReach, Allowed, Url, PathAllowed, MayVisit, IsHTTP
  <2> QED BY <1>9, <2>5
<1>13. CASE Mark(w)
  <2> DEFINE k == Key(Url(w))
  <2>1. /\ wpc[w] = "mark" /\ visited' = visited \union {k} /\ wentry'[w] = wentry[w] /\ wtodo[w] = <<>>
        /\ \/ k \in visited /\ wpc'[w] = "walk" /\ wtodo'[w] = <<>>
           \/ k \notin visited /\ ~DirectFile(wentry[w]) /\ wpc'[w] = "fetch" /\ wtodo'[w] = <<>>
           \/ /\ k \notin visited /\ DirectFile(wentry[w]) /\ wpc'[w] = "walk"
              /\ wtodo'[w] = JobsOf("own", <<Url(w)>>)
    BY <1>1, <1>2, <1>13 DEF Mark, Goto
  <2>2. Reached(wentry[w]) /\ (Clean => MayVisit(Url(w)))
    BY <1>3, <2>1 DEF WorkerReach, Allowed
  <2>3. k \notin visited => Cardinality(visited') = Cardinality(visited) + 1
    <3>1. IsFiniteSet(visited)
      BY ChannelAssumption, FS_Subset DEF TypeOK, OutTypes
    <3> QED BY <2>1, <3>1, FS_AddElement
  <2>4. Cardinality(visited) \in Nat
    BY Sizes DEF TypeOK, OutTypes
  <2>5. k \notin visited => Reached(wentry[w])' /\ wentry'[w].depth + 1 <= Cardinality(visited')
    BY <1>1, <1>5, <2>1, <2>2, <2>3, <2>4 DEF Reached
  <2>6. wtodo'[w] = <<>> \/ SeqSet(wtodo'[w]) = {[op |-> "own", url |-> Url(w)]}
    BY <1>1, <2>1, ListingJobs
  <2>7. Clean => \A j \in SeqSet(wtodo'[w]) : Lawful(wentry[w], j)
    BY <2>1, <2>2, <2>6, SetOfNone DEF Lawful, Url
  <2>8. Clean' => Allowed(w)'
    BY <1>5, <2>1, <2>2, <2>7 DEF Allowed, Url, MayVisit, PathAllowed, IsHTTP, DirectFile
  <2>9. WorkerReach(w)'
    BY <2>1, <2>5, <2>8 DEF WorkerReach
  <2> QED BY <1>9, <2>9
<1>14. CASE FetchNotHTML(w) \/ FetchListing(w)
  <2>1. /\ wpc[w] = "fetch" /\ wpc'[w] = "walk" /\ wentry'[w] = wentry[w] /\ visited' = visited
        /\ \/ wtodo'[w] = <<>>
           \/ ~DepthCut(wentry[w]) /\ Site[Url(w)].answer = "links" /\ wtodo'[w] = Jobs(Url(w))
           \/ /\ Clean => Site[Url(w)].answer = "notHTML"
              /\ wtodo'[w] = JobsOf("own", <<Url(w)>>)
    BY <1>1, <1>14 DEF FetchNotHTML, FetchListing, Goto, Clean
  <2>2. Reached(wentry[w]) /\ wentry[w].depth + 1 <= Cardinality(visited)
    BY <1>3, <2>1 DEF WorkerReach
  <2>3. Reached(wentry[w])' /\ wentry'[w].depth + 1 <= Cardinality(visited')
    BY <1>5, <2>1, <2>2 DEF Reached
  <2>4. Clean => MayVisit(Url(w)) /\ ~DirectFile(wentry[w])
    BY <1>3, <2>1 DEF WorkerReach, Allowed
  <2>5. Clean => \A j \in SeqSet(wtodo'[w]) : Lawful(wentry[w], j)
    <3>1. CASE wtodo'[w] = <<>>
      BY <3>1, SetOfNone
    <3>2. CASE ~DepthCut(wentry[w]) /\ Site[Url(w)].answer = "links" /\ wtodo'[w] = Jobs(Url(w))
      <4>1. Clean => Expands(wentry[w].url, wentry[w].depth)
        BY <2>4, <3>2 DEF Expands, DirectFile, DepthCut, Url
      <4>2. \A j \in SeqSet(Jobs(Url(w))) :
              \/ j.op = "get" /\ j.url \in SeqSet(Site[Url(w)].files)
              \/ j.op = "link" /\ j.url \in SeqSet(Site[Url(w)].dirs)
        <5> SUFFICES ASSUME NEW j \in SeqSet(Jobs(Url(w)))
                     PROVE  \/ j.op = "get" /\ j.url \in SeqSet(Site[Url(w)].files)
                            \/ j.op = "link" /\ j.url \in SeqSet(Site[Url(w)].dirs)
          OBVIOUS
        <5>1. \/ j \in {[op |-> "get", url |-> f] : f \in SeqSet(Site[Url(w)].files)}
              \/ j \in {[op |-> "link", url |-> d] : d \in SeqSet(Site[Url(w)].dirs)}
          BY <1>1, ListingJobs
        <5> QED BY <5>1
      <4> QED BY <3>2, <4>1, <4>2 DEF Lawful, Url
    <3>3. CASE /\ Clean => Site[Url(w)].answer = "notHTML"
               /\ wtodo'[w] = JobsOf("own", <<Url(w)>>)
      BY <1>1, <2>4, <3>3, ListingJobs DEF Lawful, Url
    <3> QED BY <2>1, <3>1, <3>2, <3>3
  <2>6. Clean' => Allowed(w)'
    BY <1>5, <2>1, <2>5 DEF Allowed
  <2>7. WorkerReach(w)'
    BY <2>1, <2>3, <2>6 DEF WorkerReach
  <2> QED BY <1>9, <2>7
<1> QED BY <1>10, <1>11, <1>12, <1>13, <1>14

\* Which keys are expected.
LEMMA ExpectedKeys ==
  /\ \A n \in DOMAIN Hops : \A u \in Hops[n] :
       /\ WantsOwn(u, n) => Key(u) \in Expected
       /\ Expands(u, n) => \A f \in SeqSet(Site[u].files) : WantsFile(f) => Key(f) \in Expected
  /\ \A k \in Expected : \E n \in DOMAIN Hops : \E u \in Hops[n] :
       \/ WantsOwn(u, n) /\ Key(u) = k
       \/ Expands(u, n) /\ \E f \in SeqSet(Site[u].files) : WantsFile(f) /\ Key(f) = k
<1>1. \A k : k \in Expected <=> \/ \E u \in Owned : Key(u) = k
                                \/ \E f \in Listed : WantsFile(f) /\ Key(f) = k
  BY DEF Expected
<1>2. \A u : u \in Owned <=> \E n \in DOMAIN Hops : u \in Hops[n] /\ WantsOwn(u, n)
  BY DEF Owned
<1>3. \A f : f \in Listed <=> \E u \in Walked : f \in SeqSet(Site[u].files)
  BY DEF Listed
<1>4. \A u : u \in Walked <=> \E n \in DOMAIN Hops : u \in Hops[n] /\ Expands(u, n)
  BY DEF Walked
<1> QED BY <1>1, <1>2, <1>3, <1>4

\* Walking the jobs: what is sent was wanted, what is enqueued is one hop further.
LEMMA WalkReach ==
  ASSUME TypeOK, TypeOK', Claims, ReachInv, NEW w \in Workers,
         \/ DownloadOwn(w) \/ GetFile(w) \/ Send(w) \/ SendDropped(w)
         \/ SkipLink(w) \/ Offer(w) \/ OfferAccepted(w) \/ OfferAborted(w),
         wpc[w] \in {"send", "offer"} => wtodo[w] # <<>>
  PROVE  ReachInv'
<1> DEFINE j == Head(wtodo[w])
           e == wentry[w]
<1>1. wpc \in [Workers -> WorkerPcs] /\ wtodo \in [Workers -> Seq(Job)] /\ e \in Entry /\ e.depth \in Nat
  BY DEF TypeOK, ControlTypes, Entry
<1>2. wtodo[w] # <<>> /\ wpc[w] \in {"walk", "offer", "send"}
  BY DEF DownloadOwn, GetFile, Send, SendDropped, SkipLink, Offer, OfferAccepted, OfferAborted, HasJob
<1>3. j \in Job /\ j \in SeqSet(wtodo[w]) /\ SeqSet(Tail(wtodo[w])) \subseteq SeqSet(wtodo[w])
  BY <1>1, <1>2, SetOfTail
<1>4. Reached(e) /\ e.depth + 1 <= Cardinality(visited) /\ (Clean => Allowed(w) /\ Lawful(e, j))
  BY <1>2, <1>3 DEF ReachInv, WorkerReach, Allowed
<1>5. /\ cancelled' = cancelled /\ wentry' = wentry /\ visited \subseteq visited' /\ visited' \subseteq Urls
      /\ UNCHANGED <<queue, work, handed>>
  BY DEF DownloadOwn, GetFile, Send, SendDropped, SkipLink, Offer, OfferAccepted, OfferAborted, SendEntry,
         poolVars, channel, TypeOK, OutTypes
<1>6. Clean' <=> Clean
  BY <1>5 DEF Clean
<1>7. /\ Cardinality(visited) \in Nat /\ Cardinality(visited') \in Nat /\ Cardinality(Urls) \in Nat
      /\ Cardinality(visited) <= Cardinality(visited') /\ Cardinality(visited') <= Cardinality(Urls)
  BY <1>5, Sizes
<1>8. /\ \A v \in Workers : v # w => wpc'[v] = wpc[v] /\ wentry'[v] = wentry[v] /\ wtodo'[v] = wtodo[v]
      /\ \/ wpc'[w] = "walk" /\ wtodo'[w] = Tail(wtodo[w])
         \/ wpc'[w] \in {"send", "offer"} /\ wtodo'[w] = wtodo[w]
  <2>1. /\ \/ Goto(w, "walk") /\ NextJob(w)
           \/ wpc' = wpc /\ wpc[w] = "walk" /\ NextJob(w)
           \/ (Goto(w, "send") \/ Goto(w, "offer")) /\ wtodo' = wtodo
    BY DEF DownloadOwn, GetFile, Send, SendDropped, SkipLink, Offer, OfferAccepted, OfferAborted, Download, HasJob
  <2> QED BY <1>1, <1>5, <2>1 DEF Goto, NextJob
<1>9. Reached(wentry[w])' /\ wentry'[w].depth + 1 <= Cardinality(visited')
  BY <1>1, <1>4, <1>5, <1>6, <1>7 DEF Reached
<1>10. Clean /\ wpc'[w] = "send" => Site[j.url].accepted /\ PathAllowed(j.url) /\ j.op # "link"
  <2> SUFFICES ASSUME Clean, wpc'[w] = "send" PROVE Site[j.url].accepted /\ PathAllowed(j.url) /\ j.op # "link"
    OBVIOUS
  <2>1. DownloadOwn(w) \/ GetFile(w)
    BY <1>1, <1>2 DEF Send, SendDropped, SkipLink, Offer, OfferAccepted, OfferAborted, Goto, HasJob
  <2>2. Site[j.url].accepted /\ wpc[w] = "walk" /\ (j.op = "own" \/ (j.op = "get" /\ PathAllowed(j.url)))
    BY <1>1, <2>1 DEF DownloadOwn, GetFile, Fresh, Download, Goto, HasJob, JobUrl
  <2>3. j.op = "own" => PathAllowed(j.url)
    BY <1>4 DEF Lawful, MayVisit
  <2> QED BY <2>2, <2>3
<1>11. Clean /\ wpc'[w] = "offer" => j.op = "link"
  <2>1. wpc'[w] = "offer" => Offer(w)
    BY <1>1, <1>2 DEF DownloadOwn, GetFile, Download, Send, SendDropped, SkipLink, OfferAccepted, OfferAborted, Goto, HasJob
  <2> QED BY <2>1 DEF Offer, HasJob
<1>12. Clean => \A i \in SeqSet(wtodo'[w]) : Lawful(e, i)
  BY <1>3, <1>4, <1>8 DEF Allowed
<1>13. Clean' => Allowed(w)'
  BY <1>5, <1>6, <1>8, <1>10, <1>11, <1>12 DEF Allowed, JobUrl, PathAllowed
<1>14. WorkerReach(w)'
  BY <1>8, <1>9, <1>13 DEF WorkerReach
<1>15. \A f \in Queued' : f \in Queued \/ Reached(f)'
  <2>1. CASE ~OfferAccepted(w)
    <3>1. inbox' = inbox
      BY <2>1 DEF DownloadOwn, GetFile, Send, SendDropped, SkipLink, Offer, OfferAborted, poolVars
    <3> QED BY <1>5, <3>1 DEF Queued
  <2>2. CASE OfferAccepted(w)
    <3>1. PICK new \in Entry : new.depth = e.depth + 1 /\ new.url = j.url /\ inbox' = Append(inbox, new)
      BY <1>1, <1>3, <2>2 DEF Entry, Job, OfferAccepted, JobUrl
    <3>2. SeqSet(inbox') = SeqSet(inbox) \union {new}
      <4>1. inbox \in Seq(Entry)
        BY DEF TypeOK, PoolTypes
      <4> QED BY <3>1, <4>1, SetOfAppend
    <3>3. Clean => j.url \in Hops[e.depth + 1]
      <4> SUFFICES ASSUME Clean PROVE j.url \in Hops[e.depth + 1]
        OBVIOUS
      <4>1. Expands(e.url, e.depth) /\ j.url \in SeqSet(Site[e.url].dirs) /\ e.url \in Hops[e.depth]
        BY <1>4, <2>2 DEF OfferAccepted, Allowed, Lawful, Reached
      <4>2. e.depth + 1 \in 1..Cardinality(Urls) /\ (e.depth + 1) - 1 = e.depth
        BY <1>1, <1>4, <1>7
      <4> DEFINE n == e.depth + 1
      <4>3. Hops[n] = UNION {SeqSet(Site[u].dirs) : u \in {v \in Hops[n-1] : Expands(v, n-1)}}
        BY <4>2, HopsSteps
      <4> QED BY <4>1, <4>2, <4>3
    <3>4. Reached(new)'
      BY <1>1, <1>4, <1>6, <1>7, <3>1, <3>3 DEF Reached
    <3> QED BY <1>5, <3>2, <3>4 DEF Queued
  <2> QED BY <2>1, <2>2
<1>16. Clean => \A u \in Delivered' : u \in Delivered \/ Wanted(u)
  <2>1. CASE ~Send(w)
    <3>1. entriesCh' = entriesCh
      BY <2>1 DEF DownloadOwn, GetFile, SendDropped, SkipLink, Offer, OfferAccepted, OfferAborted, channel
    <3> QED BY <1>5, <3>1 DEF Delivered
  <2>2. CASE Send(w)
    <3>1. SeqSet(entriesCh') = SeqSet(entriesCh) \union {j.url}
      <4>1. entriesCh' = Append(entriesCh, j.url) /\ entriesCh \in Seq(Urls) /\ j.url \in Urls
        BY <1>3, <2>2 DEF Send, SendEntry, JobUrl, TypeOK, OutTypes, Job
      <4> QED BY <4>1, SetOfAppend
    <3>2. Clean => Wanted(j.url)
      <4> SUFFICES ASSUME Clean PROVE Wanted(j.url)
        OBVIOUS
      <4>1. /\ Site[j.url].accepted /\ PathAllowed(j.url) /\ j.op # "link" /\ Lawful(e, j)
        BY <1>4, <2>2 DEF Send, Allowed, JobUrl
      <4>2. e.url \in Hops[e.depth] /\ e.depth \in DOMAIN Hops
        BY <1>1, <1>4, <1>7, HopsSteps DEF Reached
      <4>3. CASE j.op = "own"
        <5>1. j.url = e.url /\ WantsOwn(e.url, e.depth)
          BY <4>1, <4>3 DEF Lawful, WantsOwn, DirectFile
        <5> QED BY <4>2, <5>1, ExpectedKeys DEF Wanted
      <4>4. CASE j.op = "get"
        <5>1. Expands(e.url, e.depth) /\ j.url \in SeqSet(Site[e.url].files)
          BY <4>1, <4>4 DEF Lawful
        <5>2. CASE MayVisit(j.url)
          BY <4>1, <4>2, <5>1, <5>2, ExpectedKeys DEF Wanted, WantsFile
        <5>3. CASE ~MayVisit(j.url)
          <6>1. j.url \in Listed
            BY <4>2, <5>1 DEF Listed, Walked
          <6> QED BY <4>1, <5>3, <6>1 DEF Wanted, Forbidden
        <5> QED BY <5>2, <5>3
      <4> QED BY <4>1, <4>3, <4>4 DEF Lawful
    <3> QED BY <1>5, <3>1, <3>2 DEF Delivered
  <2> QED BY <2>1, <2>2
<1> QED BY <1>5, <1>8, <1>14, <1>15, <1>16, ReachKept

\* At the start only the seed can be met.
LEMMA InitReach == CrawlInit => ReachInv
<1> SUFFICES ASSUME CrawlInit PROVE ReachInv
  OBVIOUS
<1>1. Queued = {} /\ Delivered = {}
  BY SetOfNone DEF CrawlInit, ChannelInit, Queued, Delivered
<1>2. \A w \in Workers : WorkerReach(w)
  BY SetOfNone DEF CrawlInit, WorkerReach, Allowed
<1> QED BY <1>1, <1>2 DEF ReachInv

\* What goes from one channel to the next, or out, is what was there.
LEMMA Passed ==
  ASSUME TypeOK, DispatcherStep \/ Consume
  PROVE  Queued' = Queued /\ Delivered' = Delivered
<1>1. CASE DispatchIn
  <2>1. inbox \in Seq(Entry) /\ inbox # <<>> /\ queue \in Seq(Entry) /\ Head(inbox) \in Entry
    BY <1>1 DEF DispatchIn, TypeOK, PoolTypes
  <2>2. SeqSet(queue') = SeqSet(queue) \union {Head(inbox)} /\ SeqSet(inbox) = {Head(inbox)} \union SeqSet(inbox')
    BY <1>1, <2>1, SetOfAppend, SetOfTail DEF DispatchIn
  <2> QED BY <1>1, <2>2 DEF DispatchIn, Queued, Delivered, channel
<1>2. CASE DispatchOut
  <2>1. queue \in Seq(Entry) /\ queue # <<>> /\ work \in Seq(Entry) /\ Head(queue) \in Entry
    BY <1>2 DEF DispatchOut, TypeOK, PoolTypes
  <2>2. SeqSet(work') = SeqSet(work) \union {Head(queue)} /\ SeqSet(queue) = {Head(queue)} \union SeqSet(queue')
    BY <1>2, <2>1, SetOfAppend, SetOfTail DEF DispatchOut
  <2> QED BY <1>2, <2>2 DEF DispatchOut, Queued, Delivered, channel
<1>3. CASE DispatchStop
  BY <1>3 DEF DispatchStop, Queued, Delivered, channel
<1>4. CASE Consume
  <2>1. entriesCh \in Seq(Urls) /\ entriesCh # <<>> /\ handed \in Seq(Urls) /\ Head(entriesCh) \in Urls
    BY <1>4 DEF Consume, ReceiveEntry, TypeOK, OutTypes
  <2>2. SeqSet(handed') = SeqSet(handed) \union {Head(entriesCh)} /\ SeqSet(entriesCh) = {Head(entriesCh)} \union SeqSet(entriesCh')
    BY <1>4, <2>1, SetOfAppend, SetOfTail DEF Consume, ReceiveEntry
  <2> QED BY <1>4, <2>2 DEF Consume, Queued, Delivered, poolVars
<1> QED BY <1>1, <1>2, <1>3, <1>4 DEF DispatcherStep

\* Dispatcher, caller and consumer pass on what was reached.
LEMMA OtherReach ==
  ASSUME TypeOK, Claims, Structure, ReachInv,
         MainStep \/ DispatcherStep \/ Consume \/ Interrupt \/ UNCHANGED crawlVars
  PROVE  ReachInv'
<1>1. UNCHANGED <<wentry, wtodo, visited>> /\ (Clean' => Clean)
  BY DEF MainStep, SeedRefused, SeedOffer, SeedAccepted, SeedAborted, CloseEntries, DispatcherStep, DispatchIn,
         DispatchOut, DispatchStop, Consume, Interrupt, crawlVars, workerVars, poolVars, channel, Clean
<1>2. \A e : Reached(e) => Reached(e)'
  BY <1>1 DEF Reached
<1>3. \A w \in Workers : WorkerReach(w)'
  <2>1. CASE wpc' = wpc
    BY <1>1, <2>1 DEF ReachInv, WorkerReach, Allowed, Reached, Url, JobUrl
  <2>2. CASE SeedAccepted
    <3> SUFFICES ASSUME NEW w \in Workers PROVE WorkerReach(w)'
      OBVIOUS
    <3>1. wpc[w] = "unborn" /\ wpc'[w] = "idle"
      BY <2>2 DEF SeedAccepted, Structure
    <3>2. wtodo[w] = <<>>
      BY <3>1 DEF Claims, OneOwnJob
    <3> QED BY <1>1, <3>1, <3>2, SetOfNone DEF WorkerReach, Allowed
  <2> QED BY <2>1, <2>2
          DEF MainStep, SeedRefused, SeedOffer, SeedAborted, CloseEntries, DispatcherStep, DispatchIn,
              DispatchOut, DispatchStop, Consume, Interrupt, crawlVars, workerVars
<1>4. Delivered' = Delivered /\ \A e \in Queued' : e \in Queued \/ Reached(e)'
  <2>1. CASE SeedAccepted
    <3>1. SeqSet(inbox') = SeqSet(inbox) \union {SeedEntry}
      BY <2>1, SeedEntryType, SetOfAppend DEF SeedAccepted, TypeOK, PoolTypes
    <3>2. Reached(SeedEntry)'
      <4>1. Cardinality(visited') \in Nat
        BY <1>1, Sizes DEF TypeOK, OutTypes
      <4> QED BY <4>1, HopsSteps DEF Reached, SeedEntry
    <3> QED BY <2>1, <3>1, <3>2 DEF SeedAccepted, Queued, Delivered, channel
  <2>2. CASE DispatcherStep \/ Consume
    BY <2>2, Passed
  <2>3. CASE SeedRefused \/ SeedOffer \/ SeedAborted \/ CloseEntries \/ Interrupt \/ UNCHANGED crawlVars
    BY <2>3 DEF SeedRefused, SeedOffer, SeedAborted, CloseEntries, Interrupt, crawlVars, poolVars,
                channel, Queued, Delivered
  <2> QED BY <2>1, <2>2, <2>3 DEF MainStep
<1> QED BY <1>1, <1>2, <1>3, <1>4 DEF ReachInv, Wanted, Key, Expected, Forbidden

\* The invariant of what is reached is inductive over the other two.
LEMMA ReachKeeps == IInv /\ IInv' /\ Claims /\ ReachInv /\ [CrawlNext]_crawlVars => ReachInv'
<1> SUFFICES ASSUME IInv, IInv', Claims, ReachInv, [CrawlNext]_crawlVars PROVE ReachInv'
  OBVIOUS
<1>1. TypeOK /\ Structure /\ TypeOK'
  BY DEF IInv
<1>2. ASSUME NEW w \in Workers, WorkerStep(w) PROVE ReachInv'
  <2>1. wpc[w] \in {"send", "offer"} => wtodo[w] # <<>>
    BY <1>1 DEF Structure
  <2> QED BY <1>1, <1>2, <2>1, EntryReach, WalkReach DEF WorkerStep, ProcessStep
<1>3. CASE MainStep \/ DispatcherStep \/ Consume \/ Interrupt \/ UNCHANGED crawlVars
  BY <1>1, <1>3, OtherReach
<1> QED BY <1>2, <1>3 DEF CrawlNext, CrawlStep, CrawlEnded

\* How far the crawl has come, and by which right.
THEOREM ReachInductive == CrawlSpec => [](IInv /\ Claims /\ ReachInv)
<1>1. CrawlInit => ReachInv
  BY InitReach
<1>2. IInv /\ Claims /\ (IInv /\ Claims)' /\ ReachInv /\ [CrawlNext]_crawlVars => ReachInv'
  BY ReachKeeps
<1> QED BY <1>1, <1>2, ClaimsInductive, PTL DEF CrawlSpec

\* NothingExtra: nothing is handed over that the reference crawl does not want, for any
\* site, any limit and any interleaving of workers: the depth limit, the path filters and
\* the filters hold on every path to a URL, and robots.txt on every path but one, the loop
\* over the files of an SFTPGo listing.
THEOREM OnlyReached == CrawlSpec => []NothingExtra
<1>1. ReachInv => NothingExtra
  BY DEF ReachInv, NothingExtra, Wanted, Clean
<1> QED BY <1>1, ReachInductive, PTL

-----------------------------------------------------------------------------
(* Every resource is handed over.  What is found is never lost from sight: *)
(* a page or file of a walked listing is in a channel or with a worker     *)
(* until its key is visited, and a key that is visited stands for a page   *)
(* or file that is being handled, or whose own resource, links and files   *)
(* are on their way.  When doneCh closes nothing is left on its way.       *)

\* The page d is still to be marked, by worker w or by whoever takes it.
LinkAt(w, d) ==
  \/ wpc[w] \in {"check", "robots", "mark"} /\ Url(w) = d
  \/ \E j \in SeqSet(wtodo[w]) : j.op = "link" /\ j.url = d

LinkQueued(d) == \E e \in Queued : e.url = d

Awaited(d) ==
  LinkQueued(d) \/ (\E w \in Workers : LinkAt(w, d)) \/ ~MayVisit(d) \/ Key(d) \in visited

\* The file f of a listing is still to be marked by worker w.
FileAt(w, f) == \E j \in SeqSet(wtodo[w]) : j.op = "get" /\ j.url = f

FileAwaited(f) == (\E w \in Workers : FileAt(w, f)) \/ ~WantsFile(f) \/ Key(f) \in visited

\* Worker w is about to hand over a resource with the key k.
SendAt(w, k) ==
  /\ wpc[w] = "send" \/ HasJob(w, "own")
  /\ Key(JobUrl(w)) = k /\ Site[JobUrl(w)].accepted

OnItsWay(k) == (\E u \in Delivered : Key(u) = k) \/ \E w \in Workers : SendAt(w, k)

\* The page v, met at depth m, has been fetched.
Handled(v, m) ==
  /\ WantsOwn(v, m) => OnItsWay(Key(v))
  /\ Expands(v, m) => /\ \A d \in SeqSet(Site[v].dirs) : Awaited(d)
                      /\ \A f \in SeqSet(Site[v].files) : FileAwaited(f)

FetchAt(w, v, m) == wpc[w] = "fetch" /\ Url(w) = v /\ wentry[w].depth = m

\* Why the key k has been visited.
AsPage(k) ==
  \E m \in DOMAIN Hops : \E v \in Hops[m] :
    /\ Key(v) = k /\ MayVisit(v) /\ (k = Key(Seed) => m = 0)
    /\ (\E w \in Workers : FetchAt(w, v, m)) \/ Handled(v, m)

AsFile(k) ==
  /\ k # Key(Seed)
  /\ \E f \in Listed : Key(f) = k /\ PathAllowed(f) /\ (Site[f].accepted => OnItsWay(k))

Found ==
  /\ mpc \in {"seed", "offer"} \/ Awaited(Seed)
  /\ visited # {} => Key(Seed) \in visited
  /\ \A k \in visited : AsPage(k) \/ AsFile(k)

FoundInv ==
  /\ ~cancelled /\ (workClosed \/ dpc = "stopped") => done
  /\ mpc = "left" => cancelled
  /\ Clean /\ Preloaded = {} => Found

\* Nothing that is awaited or on its way gets lost in a step.
LEMMA FoundKept ==
  ASSUME Found, visited \subseteq visited', Delivered \subseteq Delivered',
         \A d : LinkQueued(d) => Awaited(d)',
         \A w \in Workers : \A d : LinkAt(w, d) => Awaited(d)',
         \A w \in Workers : \A f : FileAt(w, f) => FileAwaited(f)',
         \A w \in Workers : \A k : SendAt(w, k) => OnItsWay(k)',
         \A w \in Workers : \A v, m : FetchAt(w, v, m) => FetchAt(w, v, m)' \/ Handled(v, m)',
         mpc' \in {"seed", "offer"} \/ Awaited(Seed) \/ Awaited(Seed)',
         visited = {} /\ visited' # {} => Key(Seed) \in visited',
         \A k \in visited' : k \in visited \/ AsPage(k)' \/ AsFile(k)'
  PROVE  Found'
<1>1. ASSUME NEW d, Awaited(d) PROVE Awaited(d)'
  <2>1. CASE ~MayVisit(d) \/ Key(d) \in visited
    BY <2>1 DEF Awaited, MayVisit, Key, PathAllowed, IsHTTP
  <2> QED BY <1>1, <2>1 DEF Awaited
<1>2. ASSUME NEW f, FileAwaited(f) PROVE FileAwaited(f)'
  <2>1. CASE ~WantsFile(f) \/ Key(f) \in visited
    BY <2>1 DEF FileAwaited, WantsFile, Key, PathAllowed
  <2> QED BY <1>2, <2>1 DEF FileAwaited
<1>3. ASSUME NEW k, OnItsWay(k) PROVE OnItsWay(k)'
  <2>1. CASE \E u \in Delivered : Key(u) = k
    BY <2>1 DEF OnItsWay, Key
  <2> QED BY <1>3, <2>1 DEF OnItsWay
<1>4. ASSUME NEW v, NEW m, Handled(v, m) PROVE Handled(v, m)'
  BY <1>1, <1>2, <1>3, <1>4
     DEF Handled, WantsOwn, Expands, Key, MayVisit, PathAllowed, IsHTTP, DirectFile, DepthCut
<1>5. \A k : AsPage(k) => AsPage(k)'
  <2> SUFFICES ASSUME NEW k, NEW m \in DOMAIN Hops, NEW v \in Hops[m],
                      Key(v) = k /\ MayVisit(v) /\ (k = Key(Seed) => m = 0),
                      (\E w \in Workers : FetchAt(w, v, m)) \/ Handled(v, m)
               PROVE  AsPage(k)'
    BY DEF AsPage
  <2>1. (\E w \in Workers : FetchAt(w, v, m)') \/ Handled(v, m)'
    BY <1>4
  <2> QED BY <2>1 DEF AsPage, Key, MayVisit, PathAllowed, IsHTTP, Hops, Expands, DirectFile, DepthCut
<1>6. \A k : AsFile(k) => AsFile(k)'
  BY <1>3 DEF AsFile, Key, PathAllowed, Listed
<1>7. \A k \in visited' : AsPage(k)' \/ AsFile(k)'
  BY <1>5, <1>6 DEF Found
<1>8. visited' # {} => Key(Seed)' \in visited'
  BY DEF Found, Key
<1>9. mpc' \in {"seed", "offer"} \/ Awaited(Seed)'
  BY <1>1
<1> QED BY <1>7, <1>8, <1>9 DEF Found

\* The same for a step of worker w.
LEMMA WorkerFound ==
  ASSUME Found, NEW w \in Workers, visited \subseteq visited', Delivered \subseteq Delivered', mpc' = mpc,
         \A v \in Workers : v # w => wpc'[v] = wpc[v] /\ wentry'[v] = wentry[v] /\ wtodo'[v] = wtodo[v],
         \A d : LinkQueued(d) => Awaited(d)',
         \A d : LinkAt(w, d) => Awaited(d)',
         \A f : FileAt(w, f) => FileAwaited(f)',
         \A k : SendAt(w, k) => OnItsWay(k)',
         \A v, m : FetchAt(w, v, m) => Handled(v, m)',
         visited = {} /\ visited' # {} => Key(Seed) \in visited',
         \A k \in visited' : k \in visited \/ AsPage(k)' \/ AsFile(k)'
  PROVE  Found'
<1>1. ASSUME NEW v \in Workers, v # w
      PROVE  /\ \A d : LinkAt(v, d) => LinkAt(v, d)'
             /\ \A f : FileAt(v, f) => FileAt(v, f)'
             /\ \A k : SendAt(v, k) => SendAt(v, k)'
             /\ \A u, m : FetchAt(v, u, m) => FetchAt(v, u, m)'
  BY <1>1 DEF LinkAt, FileAt, SendAt, FetchAt, HasJob, Url, JobUrl, Key
<1>2. \A v \in Workers : \A d : LinkAt(v, d) => Awaited(d)'
  BY <1>1 DEF Awaited
<1>3. \A v \in Workers : \A f : FileAt(v, f) => FileAwaited(f)'
  BY <1>1 DEF FileAwaited
<1>4. \A v \in Workers : \A k : SendAt(v, k) => OnItsWay(k)'
  BY <1>1 DEF OnItsWay
<1>5. \A v \in Workers : \A u, m : FetchAt(v, u, m) => FetchAt(v, u, m)' \/ Handled(u, m)'
  BY <1>1
<1>6. mpc' \in {"seed", "offer"} \/ Awaited(Seed)
  BY DEF Found
<1> QED BY <1>2, <1>3, <1>4, <1>5, <1>6, FoundKept

\* Up to the listing: a page is marked, or may not be visited, or has been; and
\* what is made of its listing is all that was to be made of it.
LEMMA EntryFound ==
  ASSUME TypeOK, Claims, ReachInv, Clean, Found, NEW w \in Workers,
         \/ Take(w) \/ Exit(w) \/ Check(w) \/ AskRobots(w) \/ Mark(w)
         \/ FetchFailed(w) \/ FetchNotHTML(w) \/ FetchListing(w) \/ Finish(w)
  PROVE  Found'
<1> DEFINE e == wentry[w]
<1>1. /\ wpc \in [Workers -> WorkerPcs] /\ wentry \in [Workers -> Entry] /\ wtodo \in [Workers -> Seq(Job)]
      /\ Url(w) \in Urls /\ Key(Url(w)) \in Urls /\ e \in Entry /\ e.url = Url(w) /\ e.depth \in Nat
  <2>1. wpc \in [Workers -> WorkerPcs] /\ wentry \in [Workers -> Entry] /\ wtodo \in [Workers -> Seq(Job)]
    BY DEF TypeOK, ControlTypes
  <2>2. e \in Entry /\ e.url = Url(w) /\ Url(w) \in Urls /\ e.depth \in Nat
    BY <2>1 DEF Url, Entry
  <2> QED BY <2>1, <2>2, JobsType
<1>2. PICK u \in Urls, n \in Nat :
        /\ Url(w) = u /\ e.depth = n
        /\ DirectFile(e) <=> DirectFile([url |-> u, depth |-> n])
        /\ DepthCut(e) <=> DepthCut([url |-> u, depth |-> n])
  BY <1>1 DEF DirectFile, DepthCut
<1>3. wpc[w] \notin {"walk", "offer", "send"} => wtodo[w] = <<>>
  BY DEF Claims, OneOwnJob
<1>4. WorkerReach(w) /\ Allowed(w)
  BY DEF ReachInv, WorkerReach
<1>5. /\ mpc' = mpc /\ visited \subseteq visited' /\ UNCHANGED <<inbox, queue, entriesCh, handed>>
      /\ \A v \in Workers : v # w => wpc'[v] = wpc[v] /\ wentry'[v] = wentry[v] /\ wtodo'[v] = wtodo[v]
  BY <1>1 DEF Take, Exit, Check, AskRobots, Mark, FetchFailed, FetchNotHTML, FetchListing, Finish, Goto, poolVars, channel
<1>6. Delivered' = Delivered
  BY <1>5 DEF Delivered
<1>7. ~HasJob(w, "own") /\ wpc[w] # "send" /\ wtodo[w] = <<>>
  BY <1>3 DEF Take, Exit, Check, AskRobots, Mark, FetchFailed, FetchNotHTML, FetchListing, Finish, HasJob
<1>8. (\A f : ~FileAt(w, f)) /\ (\A k : ~SendAt(w, k)) /\ (\A j \in SeqSet(wtodo[w]) : FALSE)
  BY <1>7, SetOfNone DEF FileAt, SendAt
<1>9. ASSUME ~Take(w) PROVE \A d : LinkQueued(d) => LinkQueued(d)'
  <2>1. work' = work
    BY <1>9 DEF Exit, Check, AskRobots, Mark, FetchFailed, FetchNotHTML, FetchListing, Finish, poolVars
  <2> QED BY <1>5, <2>1 DEF LinkQueued, Queued
<1>10. CASE Take(w)
  <2>1. /\ wpc[w] = "idle" /\ wpc'[w] = "check" /\ wentry'[w] = Head(work) /\ visited' = visited
        /\ work \in Seq(Entry) /\ work # <<>> /\ work' = Tail(work)
    BY <1>1, <1>10 DEF Take, Goto, TypeOK, PoolTypes
  <2>2. SeqSet(work) = {Head(work)} \union SeqSet(work')
    BY <2>1, SetOfTail
  <2>3. \A d : LinkQueued(d) => LinkQueued(d)' \/ LinkAt(w, d)'
    BY <1>5, <2>1, <2>2 DEF LinkQueued, Queued, LinkAt, Url
  <2>4. \A d : ~LinkAt(w, d)
    BY <1>8, <2>1 DEF LinkAt
  <2>5. \A v, m : ~FetchAt(w, v, m)
    BY <2>1 DEF FetchAt
  <2> QED BY <1>5, <1>6, <1>8, <2>1, <2>3, <2>4, <2>5, WorkerFound DEF Awaited
<1>11. CASE Exit(w) \/ Finish(w)
  <2>1. wpc[w] \in {"idle", "walk"} /\ visited' = visited
    BY <1>11 DEF Exit, Finish
  <2>2. (\A d : ~LinkAt(w, d)) /\ (\A v, m : ~FetchAt(w, v, m))
    BY <1>8, <2>1 DEF LinkAt, FetchAt
  <2>3. \A d : LinkQueued(d) => LinkQueued(d)'
    BY <1>9, <1>11, <2>1 DEF Exit, Finish, Take
  <2> QED BY <1>5, <1>6, <1>8, <2>1, <2>2, <2>3, WorkerFound DEF Awaited
<1>12. CASE Check(w) \/ AskRobots(w)
  <2>1. /\ wpc[w] \in {"check", "robots"} /\ wentry' = wentry /\ visited' = visited
        /\ wpc'[w] \in {"robots", "mark"} \/ ~MayVisit(Url(w))
    BY <1>1, <1>4, <1>12 DEF Check, AskRobots, Goto, Allowed, MayVisit, Clean
  <2>2. \A d : LinkAt(w, d) => LinkAt(w, d)' \/ ~MayVisit(d)
    BY <1>8, <2>1 DEF LinkAt, Url
  <2>3. \A d : LinkAt(w, d) => Awaited(d)'
    BY <2>2 DEF Awaited, MayVisit, PathAllowed, IsHTTP
  <2>4. \A v, m : ~FetchAt(w, v, m)
    BY <2>1 DEF FetchAt
  <2>5. \A d : LinkQueued(d) => LinkQueued(d)'
    BY <1>9, <2>1 DEF Take
  <2> QED BY <1>5, <1>6, <1>8, <2>1, <2>3, <2>4, <2>5, WorkerFound DEF Awaited
<1>13. CASE Mark(w)
  <2> DEFINE k == Key(u)
  <2>1. /\ wpc[w] = "mark" /\ visited' = visited \union {k} /\ wentry' = wentry
        /\ \/ k \in visited
           \/ k \notin visited /\ ~DirectFile(e) /\ wpc'[w] = "fetch"
           \/ k \notin visited /\ DirectFile(e) /\ wpc'[w] = "walk" /\ wtodo'[w] = JobsOf("own", <<u>>)
    BY <1>1, <1>2, <1>13 DEF Mark, Goto
  <2>2. MayVisit(u) /\ n <= Cardinality(visited) /\ u \in Hops[n] /\ n \in DOMAIN Hops
    <3>1. Reached(e) /\ MayVisit(u)
      BY <1>2, <1>4, <2>1 DEF WorkerReach, Allowed
    <3>2. Cardinality(visited) \in Nat /\ Cardinality(visited) <= Cardinality(Urls) /\ Cardinality(Urls) \in Nat
      BY Sizes DEF TypeOK, OutTypes
    <3> QED BY <1>1, <1>2, <3>1, <3>2, HopsSteps DEF Reached
  <2>3. visited = {} => n = 0 /\ u = Seed
    <3>1. Cardinality({}) = 0
      BY FS_EmptySet
    <3> QED BY <1>1, <1>2, <2>2, <3>1, HopsSteps
  <2>4. k \notin visited /\ k = Key(Seed) => n = 0
    BY <2>3 DEF Found
  <2>5. ASSUME k \notin visited PROVE AsPage(k)'
    <3>1. CASE ~DirectFile(e) /\ wpc'[w] = "fetch"
      <4>1. FetchAt(w, u, n)'
        BY <1>2, <2>1, <3>1 DEF FetchAt, Url
      <4> QED BY <2>2, <2>4, <2>5, <4>1
              DEF AsPage, Key, MayVisit, PathAllowed, IsHTTP, Hops, Expands, DirectFile, DepthCut
    <3>2. CASE DirectFile(e) /\ wpc'[w] = "walk" /\ wtodo'[w] = JobsOf("own", <<u>>)
      <4>1. HasJob(w, "own")' /\ JobUrl(w)' = u
        <5>1. JobsOf("own", <<u>>) = <<[op |-> "own", url |-> u]>>
          BY DEF JobsOf
        <5> QED BY <3>2, <5>1 DEF HasJob, JobUrl
      <4>2. Site[u].accepted => OnItsWay(k)'
        BY <4>1 DEF OnItsWay, SendAt, Key
      <4>3. Handled(u, n)'
        <5>1. ~Expands(u, n)
          BY <1>2, <3>2 DEF Expands
        <5>2. WantsOwn(u, n) => Site[u].accepted
          BY DEF WantsOwn
        <5> QED BY <4>2, <5>1, <5>2
                DEF Handled, WantsOwn, Expands, Key, MayVisit, PathAllowed, IsHTTP, DirectFile, DepthCut
      <4> QED BY <2>2, <2>4, <2>5, <4>3
              DEF AsPage, Key, MayVisit, PathAllowed, IsHTTP, Hops, Expands, DirectFile, DepthCut
    <3> QED BY <2>1, <2>5, <3>1, <3>2
  <2>6. \A d : LinkAt(w, d) => Awaited(d)'
    BY <1>2, <1>8, <2>1 DEF LinkAt, Awaited, Key
  <2>7. \A v, m : ~FetchAt(w, v, m)
    BY <2>1 DEF FetchAt
  <2>8. \A d : LinkQueued(d) => LinkQueued(d)'
    BY <1>9, <2>1 DEF Take
  <2>9. visited = {} => Key(Seed) \in visited'
    BY <2>1, <2>3
  <2>10. \A x \in visited' : x \in visited \/ AsPage(x)'
    BY <2>1, <2>5
  <2> QED BY <1>5, <1>6, <1>8, <2>6, <2>7, <2>8, <2>9, <2>10, WorkerFound DEF Awaited
<1>14. CASE FetchFailed(w) \/ FetchNotHTML(w) \/ FetchListing(w)
  <2>1. /\ wpc[w] = "fetch" /\ wpc'[w] = "walk" /\ visited' = visited
        /\ \/ Site[u].answer = "error"
           \/ Site[u].answer = "notHTML" /\ wtodo'[w] = JobsOf("own", <<u>>)
           \/ Site[u].answer = "links" /\ (DepthCut(e) \/ wtodo'[w] = Jobs(u))
    BY <1>1, <1>2, <1>14 DEF FetchFailed, FetchNotHTML, FetchListing, Goto, Clean
  <2>2. ~DirectFile(e)
    BY <1>4, <2>1 DEF Allowed
  <2>3. Handled(u, n)'
    <3>1. CASE Site[u].answer = "error" \/ (Site[u].answer = "links" /\ DepthCut(e))
      <4>1. ~WantsOwn(u, n) /\ ~Expands(u, n)
        BY <1>2, <2>2, <3>1 DEF WantsOwn, Expands
      <4> QED BY <4>1 DEF Handled, WantsOwn, Expands, MayVisit, PathAllowed, IsHTTP, DirectFile, DepthCut
    <3>2. CASE Site[u].answer = "notHTML" /\ wtodo'[w] = JobsOf("own", <<u>>)
      <4>1. HasJob(w, "own")' /\ JobUrl(w)' = u
        <5>1. JobsOf("own", <<u>>) = <<[op |-> "own", url |-> u]>>
          BY DEF JobsOf
        <5> QED BY <2>1, <3>2, <5>1 DEF HasJob, JobUrl
      <4>2. Site[u].accepted => OnItsWay(Key(u))'
        BY <4>1 DEF OnItsWay, SendAt, Key
      <4>3. ~Expands(u, n) /\ (WantsOwn(u, n) => Site[u].accepted)
        BY <1>2, <3>2 DEF Expands, WantsOwn
      <4> QED BY <4>2, <4>3
              DEF Handled, WantsOwn, Expands, Key, MayVisit, PathAllowed, IsHTTP, DirectFile, DepthCut
    <3>3. CASE Site[u].answer = "links" /\ wtodo'[w] = Jobs(u)
      <4>1. ~WantsOwn(u, n)
        BY <1>2, <2>2, <3>3 DEF WantsOwn
      <4>2. ASSUME NEW d \in SeqSet(Site[u].dirs) PROVE Awaited(d)'
        <5>1. [op |-> "link", url |-> d] \in {[op |-> "link", url |-> y] : y \in SeqSet(Site[u].dirs)}
          OBVIOUS
        <5>2. [op |-> "link", url |-> d] \in SeqSet(Jobs(u))
          BY <5>1, ListingJobs
        <5> QED BY <3>3, <5>2 DEF Awaited, LinkAt
      <4>3. ASSUME NEW f \in SeqSet(Site[u].files) PROVE FileAwaited(f)'
        <5>1. [op |-> "get", url |-> f] \in {[op |-> "get", url |-> y] : y \in SeqSet(Site[u].files)}
          OBVIOUS
        <5>2. [op |-> "get", url |-> f] \in SeqSet(Jobs(u))
          BY <5>1, ListingJobs
        <5> QED BY <3>3, <5>2 DEF FileAwaited, FileAt
      <4> QED BY <4>1, <4>2, <4>3 DEF Handled, WantsOwn, MayVisit, PathAllowed, IsHTTP, DirectFile
    <3> QED BY <2>1, <3>1, <3>2, <3>3
  <2>4. \A v, m : FetchAt(w, v, m) => Handled(v, m)'
    BY <1>2, <2>3 DEF FetchAt
  <2>5. \A d : ~LinkAt(w, d)
    BY <1>8, <2>1 DEF LinkAt
  <2>6. \A d : LinkQueued(d) => LinkQueued(d)'
    BY <1>9, <2>1 DEF Take
  <2> QED BY <1>5, <1>6, <1>8, <2>1, <2>4, <2>5, <2>6, WorkerFound DEF Awaited
<1> QED BY <1>10, <1>11, <1>12, <1>13, <1>14

\* Walking the jobs: a link that is dropped is queued or may not be visited, a file
\* that is dropped is marked or not wanted, and what is wanted is sent.
LEMMA WalkFound ==
  ASSUME TypeOK, Claims, ReachInv, Clean, Found, NEW w \in Workers,
         \/ DownloadOwn(w) \/ GetFile(w) \/ Send(w) \/ SendDropped(w)
         \/ SkipLink(w) \/ Offer(w) \/ OfferAccepted(w) \/ OfferAborted(w),
         wpc[w] \in {"send", "offer"} => wtodo[w] # <<>>
  PROVE  Found'
<1> DEFINE e == wentry[w]
<1>1. wpc \in [Workers -> WorkerPcs] /\ wtodo \in [Workers -> Seq(Job)] /\ e \in Entry /\ e.depth \in Nat
  BY DEF TypeOK, ControlTypes, Entry
<1>2. wtodo[w] # <<>> /\ wpc[w] \in {"walk", "offer", "send"}
  BY DEF DownloadOwn, GetFile, Send, SendDropped, SkipLink, Offer, OfferAccepted, OfferAborted, HasJob
<1>3. PICK j \in Job : Head(wtodo[w]) = j /\ SeqSet(wtodo[w]) = {j} \union SeqSet(Tail(wtodo[w]))
  BY <1>1, <1>2, SetOfTail
<1>4. /\ wpc[w] = "send" => Site[j.url].accepted /\ PathAllowed(j.url) /\ j.op # "link"
      /\ wpc[w] = "offer" => j.op = "link"
      /\ Reached(e) /\ e.depth + 1 <= Cardinality(visited) /\ Lawful(e, j)
  <2>1. WorkerReach(w) /\ Allowed(w)
    BY DEF ReachInv, WorkerReach
  <2> QED BY <1>2, <1>3, <2>1 DEF WorkerReach, Allowed, JobUrl
<1>5. /\ cancelled = FALSE /\ ~FetchMayFail /\ wentry' = wentry /\ mpc' = mpc /\ visited \subseteq visited'
      /\ UNCHANGED <<queue, work, handed>>
  BY DEF DownloadOwn, GetFile, Send, SendDropped, SkipLink, Offer, OfferAccepted, OfferAborted, SendEntry,
         poolVars, channel, Clean
<1>6. \A v \in Workers : v # w => wpc'[v] = wpc[v] /\ wentry'[v] = wentry[v] /\ wtodo'[v] = wtodo[v]
  <2>1. /\ \/ Goto(w, "walk") /\ NextJob(w)
           \/ wpc' = wpc /\ NextJob(w)
           \/ (Goto(w, "send") \/ Goto(w, "offer")) /\ wtodo' = wtodo
    BY DEF DownloadOwn, GetFile, Send, SendDropped, SkipLink, Offer, OfferAccepted, OfferAborted, Download
  <2> QED BY <1>1, <1>5, <2>1 DEF Goto, NextJob
<1>7. SeqSet(inbox) \subseteq SeqSet(inbox') /\ (OfferAccepted(w) => LinkQueued(j.url)')
  <2>1. CASE OfferAccepted(w)
    <3>1. PICK new \in Entry : new.url = j.url /\ inbox' = Append(inbox, new)
      BY <1>1, <1>3, <2>1 DEF Entry, Job, OfferAccepted, JobUrl
    <3>2. SeqSet(inbox') = SeqSet(inbox) \union {new}
      <4>1. inbox \in Seq(Entry)
        BY DEF TypeOK, PoolTypes
      <4> QED BY <3>1, <4>1, SetOfAppend
    <3> QED BY <3>1, <3>2 DEF LinkQueued, Queued
  <2>2. CASE ~OfferAccepted(w)
    <3>1. inbox' = inbox
      BY <2>2 DEF DownloadOwn, GetFile, Send, SendDropped, SkipLink, Offer, OfferAborted, poolVars
    <3> QED BY <2>2, <3>1
  <2> QED BY <2>1, <2>2
<1>8. Delivered \subseteq Delivered' /\ (Send(w) => j.url \in Delivered')
  <2>1. CASE Send(w)
    <3>1. entriesCh' = Append(entriesCh, j.url) /\ entriesCh \in Seq(Urls) /\ j.url \in Urls
      BY <1>3, <2>1 DEF Send, SendEntry, JobUrl, TypeOK, OutTypes, Job
    <3>2. SeqSet(entriesCh') = SeqSet(entriesCh) \union {j.url}
      BY <3>1, SetOfAppend
    <3> QED BY <1>5, <3>2 DEF Delivered
  <2>2. CASE ~Send(w)
    <3>1. entriesCh' = entriesCh
      BY <2>2 DEF DownloadOwn, GetFile, SendDropped, SkipLink, Offer, OfferAccepted, OfferAborted, channel
    <3> QED BY <1>5, <2>2, <3>1 DEF Delivered
  <2> QED BY <2>1, <2>2
<1>9. \A d : LinkQueued(d) => LinkQueued(d)'
  BY <1>5, <1>7 DEF LinkQueued, Queued
<1>10. \/ wpc'[w] = "walk" /\ wtodo'[w] = Tail(wtodo[w])
       \/ wpc'[w] \in {"send", "offer"} /\ wtodo'[w] = wtodo[w]
  <2>1. \/ Goto(w, "walk") /\ NextJob(w)
        \/ wpc' = wpc /\ wpc[w] = "walk" /\ NextJob(w)
        \/ (Goto(w, "send") \/ Goto(w, "offer")) /\ wtodo' = wtodo
    BY DEF DownloadOwn, GetFile, Send, SendDropped, SkipLink, Offer, OfferAccepted, OfferAborted, Download, HasJob
  <2> QED BY <1>1, <2>1 DEF Goto, NextJob
<1>11. ASSUME wpc'[w] = "walk"
       PROVE  /\ j.op = "link" => ~MayVisit(j.url) \/ LinkQueued(j.url)'
              /\ j.op = "get" => ~WantsFile(j.url) \/ Key(j.url) \in visited'
              /\ j.op = "own" => ~Site[j.url].accepted \/ j.url \in Delivered'
  <2>1. CASE DownloadOwn(w)
    BY <1>1, <1>3, <1>5, <1>11, <2>1 DEF DownloadOwn, Download, HasJob, JobUrl, Goto
  <2>2. CASE GetFile(w)
    BY <1>1, <1>3, <2>2 DEF GetFile, Fresh, HasJob, JobUrl, WantsFile, MayVisit
  <2>3. CASE Send(w)
    <3>1. wpc[w] = "send" /\ JobUrl(w) = j.url /\ j.op # "link"
      BY <1>3, <1>4, <2>3 DEF Send, JobUrl
    <3>2. Key(j.url) \in Claimed(w)
      <4>1. Key(j.url) \in Urls
        BY JobsType DEF Job
      <4> QED BY <3>1, <4>1 DEF Claimed
    <3>3. Key(j.url) \in visited
      BY <3>2 DEF Claims
    <3> QED BY <1>5, <1>8, <2>3, <3>1, <3>3
  <2>4. CASE SkipLink(w)
    BY <1>3, <1>5, <2>4 DEF SkipLink, HasJob, JobUrl, MayVisit
  <2>5. CASE OfferAccepted(w)
    BY <1>4, <1>7, <2>5 DEF OfferAccepted
  <2>6. CASE Offer(w)
    BY <1>1, <1>11, <2>6 DEF Offer, Goto
  <2> QED BY <1>5, <2>1, <2>2, <2>3, <2>4, <2>5, <2>6 DEF SendDropped, OfferAborted
<1>12. SeqSet(wtodo'[w]) = SeqSet(wtodo[w]) \/ SeqSet(wtodo'[w]) \union {j} = SeqSet(wtodo[w])
  BY <1>3, <1>10
<1>13. \A d : LinkAt(w, d) => Awaited(d)'
  <2> SUFFICES ASSUME NEW d, LinkAt(w, d), ~LinkAt(w, d)' PROVE Awaited(d)'
    BY DEF Awaited
  <2>1. wpc'[w] = "walk" /\ j.op = "link" /\ j.url = d
    BY <1>2, <1>3, <1>10 DEF LinkAt
  <2> QED BY <1>11, <2>1 DEF Awaited, MayVisit, PathAllowed, IsHTTP
<1>14. \A f : FileAt(w, f) => FileAwaited(f)'
  <2> SUFFICES ASSUME NEW f, FileAt(w, f), ~FileAt(w, f)' PROVE FileAwaited(f)'
    BY DEF FileAwaited
  <2>1. wpc'[w] = "walk" /\ j.op = "get" /\ j.url = f
    BY <1>3, <1>10 DEF FileAt
  <2> QED BY <1>11, <2>1 DEF FileAwaited, WantsFile, PathAllowed, Key
<1>15. \A k : SendAt(w, k) => OnItsWay(k)'
  <2> SUFFICES ASSUME NEW k, SendAt(w, k) PROVE OnItsWay(k)'
    OBVIOUS
  <2>1. /\ Key(j.url) = k /\ Site[j.url].accepted
        /\ wpc[w] = "send" \/ (wpc[w] = "walk" /\ j.op = "own")
    BY <1>3 DEF SendAt, HasJob, JobUrl
  <2>2. DownloadOwn(w) \/ Send(w)
    BY <1>3, <1>5, <2>1 DEF GetFile, SendDropped, SkipLink, Offer, OfferAccepted, OfferAborted, HasJob
  <2>3. CASE Send(w)
    BY <1>8, <2>1, <2>3 DEF OnItsWay, Key
  <2>4. CASE DownloadOwn(w)
    <3>1. wpc'[w] = "send" /\ wtodo'[w] = wtodo[w]
      BY <1>1, <1>3, <1>5, <2>1, <2>4 DEF DownloadOwn, Download, JobUrl, Goto
    <3>2. SendAt(w, k)'
      BY <1>3, <2>1, <3>1 DEF SendAt, JobUrl, Key
    <3> QED BY <3>2 DEF OnItsWay
  <2> QED BY <2>2, <2>3, <2>4
<1>16. \A v, m : ~FetchAt(w, v, m)
  BY <1>2 DEF FetchAt
<1>17. visited # {}
  <2>1. visited = {} => Cardinality(visited) = 0
    BY FS_EmptySet
  <2>2. e.depth \in Nat /\ e.depth + 1 <= Cardinality(visited)
    BY <1>1, <1>4
  <2> HIDE DEF e
  <2> QED BY <2>1, <2>2
<1>18. ASSUME NEW k \in visited', k \notin visited PROVE AsFile(k)'
  <2>1. GetFile(w) /\ Fresh(w) /\ k = Key(j.url) /\ PathAllowed(j.url) /\ j.op = "get"
    BY <1>3, <1>18 DEF DownloadOwn, GetFile, Send, SendDropped, SkipLink, Offer, OfferAccepted, OfferAborted,
                       HasJob, Fresh, JobUrl
  <2>2. k # Key(Seed)
    BY <1>17, <1>18 DEF Found
  <2>3. j.url \in Listed
    <3>1. Expands(e.url, e.depth) /\ j.url \in SeqSet(Site[e.url].files)
      BY <1>4, <2>1 DEF Lawful
    <3>2. e.url \in Hops[e.depth] /\ e.depth \in DOMAIN Hops
      <4>1. Cardinality(visited) \in Nat /\ Cardinality(visited) <= Cardinality(Urls) /\ Cardinality(Urls) \in Nat
        BY Sizes DEF TypeOK, OutTypes
      <4> QED BY <1>1, <1>4, <4>1, HopsSteps DEF Reached
    <3>3. e.url \in Walked
      BY <3>1, <3>2 DEF Walked
    <3> QED BY <3>1, <3>3 DEF Listed
  <2>4. ASSUME Site[j.url].accepted PROVE OnItsWay(k)'
    <3>1. wpc'[w] = "send" /\ wtodo'[w] = wtodo[w]
      BY <1>1, <1>3, <1>5, <2>1, <2>4 DEF GetFile, Download, JobUrl, Goto
    <3>2. SendAt(w, k)'
      BY <1>3, <2>1, <2>4, <3>1 DEF SendAt, JobUrl, Key
    <3> QED BY <3>2 DEF OnItsWay
  <2>5. \E f \in Listed : Key(f) = k /\ PathAllowed(f) /\ (Site[f].accepted => OnItsWay(k)')
    BY <2>1, <2>3, <2>4
  <2> QED BY <2>2, <2>5 DEF AsFile, Key, PathAllowed, Listed
<1> QED BY <1>5, <1>6, <1>8, <1>9, <1>13, <1>14, <1>15, <1>16, <1>17, <1>18, WorkerFound DEF Awaited

\* Dispatcher, caller and consumer lose nothing that is on its way.
LEMMA OtherFound ==
  ASSUME TypeOK, Structure, Claims, Found, ~cancelled,
         MainStep \/ DispatcherStep \/ Consume \/ Interrupt \/ UNCHANGED crawlVars
  PROVE  Found'
<1>1. UNCHANGED <<wentry, wtodo, visited>>
  BY DEF MainStep, SeedRefused, SeedOffer, SeedAccepted, SeedAborted, CloseEntries, DispatcherStep, DispatchIn,
         DispatchOut, DispatchStop, Consume, Interrupt, crawlVars, workerVars, poolVars, channel
<1>2. ASSUME NEW w \in Workers
      PROVE  /\ \A d : LinkAt(w, d) => LinkAt(w, d)'
             /\ \A f : FileAt(w, f) => FileAt(w, f)'
             /\ \A k : SendAt(w, k) => SendAt(w, k)'
             /\ \A v, m : FetchAt(w, v, m) => FetchAt(w, v, m)'
  <2>1. CASE wpc'[w] = wpc[w]
    BY <1>1, <2>1 DEF LinkAt, FileAt, SendAt, FetchAt, HasJob, Url, JobUrl, Key
  <2>2. CASE SeedAccepted
    <3>1. wpc[w] = "unborn" /\ wtodo[w] = <<>>
      BY <2>2 DEF SeedAccepted, Structure, Claims, OneOwnJob
    <3> QED BY <3>1, SetOfNone DEF LinkAt, FileAt, SendAt, FetchAt, HasJob
  <2> QED BY <2>1, <2>2
          DEF MainStep, SeedRefused, SeedOffer, SeedAborted, CloseEntries, DispatcherStep, DispatchIn,
              DispatchOut, DispatchStop, Consume, Interrupt, crawlVars, workerVars
<1>3. /\ Queued \subseteq Queued' /\ Delivered' = Delivered
      /\ mpc' \in {"seed", "offer"} \/ mpc \notin {"seed", "offer"} \/ Awaited(Seed)'
  <2>1. CASE SeedAccepted
    <3>1. SeqSet(inbox') = SeqSet(inbox) \union {SeedEntry}
      BY <2>1, SeedEntryType, SetOfAppend DEF SeedAccepted, TypeOK, PoolTypes
    <3>2. LinkQueued(Seed)'
      <4>1. SeedEntry \in Queued' /\ SeedEntry.url = Seed
        BY <3>1 DEF Queued, SeedEntry
      <4> QED BY <4>1 DEF LinkQueued
    <3> QED BY <2>1, <3>1, <3>2 DEF SeedAccepted, Queued, Delivered, channel, Awaited
  <2>2. CASE DispatcherStep \/ Consume
    BY <2>2, Passed DEF DispatcherStep, DispatchIn, DispatchOut, DispatchStop, Consume
  <2>3. CASE SeedRefused \/ SeedOffer \/ SeedAborted \/ CloseEntries \/ Interrupt \/ UNCHANGED crawlVars
    BY <2>3 DEF SeedRefused, SeedOffer, SeedAborted, CloseEntries, Interrupt, crawlVars, poolVars,
                channel, Queued, Delivered
  <2> QED BY <2>1, <2>2, <2>3 DEF MainStep
<1>4. mpc' \in {"seed", "offer"} \/ Awaited(Seed) \/ Awaited(Seed)'
  BY <1>3 DEF Found
<1>5. \A d : LinkQueued(d) => LinkQueued(d)'
  BY <1>3 DEF LinkQueued
<1>6. /\ \A w \in Workers : \A d : LinkAt(w, d) => Awaited(d)'
      /\ \A w \in Workers : \A f : FileAt(w, f) => FileAwaited(f)'
      /\ \A w \in Workers : \A k : SendAt(w, k) => OnItsWay(k)'
  BY <1>2 DEF Awaited, FileAwaited, OnItsWay
<1> QED BY <1>1, <1>2, <1>3, <1>4, <1>5, <1>6, FoundKept DEF Awaited

\* At the start nothing is marked, so nothing is missing.
LEMMA InitFound == CrawlInit => FoundInv
BY DEF CrawlInit, FoundInv, Found

\* The invariant of what is found is inductive over the other two.
LEMMA FoundKeeps ==
  IInv /\ Claims /\ ReachInv /\ FoundInv /\ [CrawlNext]_crawlVars => FoundInv'
<1> SUFFICES ASSUME IInv, Claims, ReachInv, FoundInv, [CrawlNext]_crawlVars PROVE FoundInv'
  OBVIOUS
<1>1. TypeOK /\ Structure
  BY DEF IInv
<1>2. ~cancelled' => ~cancelled
  <2>1. CASE MainStep \/ DispatcherStep \/ Consume \/ Interrupt \/ UNCHANGED crawlVars
    BY <2>1 DEF MainStep, SeedRefused, SeedOffer, SeedAccepted, SeedAborted, CloseEntries, DispatcherStep, DispatchIn,
         DispatchOut, DispatchStop, Consume, Interrupt, crawlVars
  <2>2. ASSUME NEW w \in Workers, WorkerStep(w) PROVE cancelled' = cancelled
    BY <2>2 DEF WorkerStep, ProcessStep, Take, Exit, Check, AskRobots, Mark, FetchFailed, FetchNotHTML, FetchListing,
                DownloadOwn, GetFile, Send, SendDropped, SkipLink, Offer, OfferAccepted, OfferAborted, Finish
  <2> QED BY <2>1, <2>2 DEF CrawlNext, CrawlStep, CrawlEnded
<1>3. ~cancelled' /\ (workClosed' \/ dpc' = "stopped") => done'
  <2> SUFFICES ASSUME ~cancelled' PROVE (workClosed' \/ dpc' = "stopped") => done'
    OBVIOUS
  <2>1. CASE MainStep \/ DispatcherStep \/ Consume \/ Interrupt \/ UNCHANGED crawlVars
    BY <1>1, <1>2, <2>1 DEF MainStep, SeedRefused, SeedOffer, SeedAccepted, SeedAborted, CloseEntries, DispatcherStep,
         DispatchIn, DispatchOut, DispatchStop, Consume, Interrupt, crawlVars, poolVars, FoundInv, Structure
  <2>2. ASSUME NEW w \in Workers, WorkerStep(w) PROVE workClosed' = workClosed /\ dpc' = dpc /\ (done => done')
    <3>1. CASE Finish(w) \/ OfferAborted(w)
      <4>1. workClosed' = workClosed /\ dpc' = dpc /\ done' = (done \/ pending' = 0)
        BY <3>1 DEF Finish, OfferAborted, Release
      <4> QED BY <4>1
    <3>2. CASE ~(Finish(w) \/ OfferAborted(w))
      BY <2>2, <3>2 DEF WorkerStep, ProcessStep, Take, Exit, Check, AskRobots, Mark, FetchFailed, FetchNotHTML,
           FetchListing, DownloadOwn, GetFile, Send, SendDropped, SkipLink, Offer, OfferAccepted, poolVars
    <3> QED BY <3>1, <3>2
  <2> QED BY <1>2, <2>1, <2>2 DEF CrawlNext, CrawlStep, CrawlEnded, FoundInv
<1>4. mpc' = "left" => cancelled'
  <2>1. CASE MainStep \/ DispatcherStep \/ Consume \/ Interrupt \/ UNCHANGED crawlVars
    BY <2>1 DEF MainStep, SeedRefused, SeedOffer, SeedAccepted, SeedAborted, CloseEntries, DispatcherStep, DispatchIn,
         DispatchOut, DispatchStop, Consume, Interrupt, crawlVars, FoundInv
  <2>2. ASSUME NEW w \in Workers, WorkerStep(w) PROVE UNCHANGED <<mpc, cancelled>>
    BY <2>2 DEF WorkerStep, ProcessStep, Take, Exit, Check, AskRobots, Mark, FetchFailed, FetchNotHTML, FetchListing,
                DownloadOwn, GetFile, Send, SendDropped, SkipLink, Offer, OfferAccepted, OfferAborted, Finish
  <2> QED BY <2>1, <2>2 DEF CrawlNext, CrawlStep, CrawlEnded, FoundInv
<1>5. ASSUME Clean', Preloaded = {} PROVE Found'
  <2>1. Clean /\ Found /\ ~cancelled
    BY <1>2, <1>5 DEF Clean, FoundInv
  <2>2. ASSUME NEW w \in Workers, WorkerStep(w) PROVE Found'
    <3>1. wpc[w] \in {"send", "offer"} => wtodo[w] # <<>>
      BY <1>1 DEF Structure
    <3> QED BY <1>1, <2>1, <2>2, <3>1, EntryFound, WalkFound DEF WorkerStep, ProcessStep
  <2>3. CASE MainStep \/ DispatcherStep \/ Consume \/ Interrupt \/ UNCHANGED crawlVars
    BY <1>1, <2>1, <2>3, OtherFound
  <2> QED BY <2>2, <2>3 DEF CrawlNext, CrawlStep, CrawlEnded
<1> QED BY <1>3, <1>4, <1>5 DEF FoundInv

\* What is found is never lost from sight: see Found.
THEOREM FoundInductive == CrawlSpec => [](IInv /\ Claims /\ FoundInv)
<1>1. CrawlInit => FoundInv
  BY InitFound
<1>2. IInv /\ Claims /\ ReachInv /\ FoundInv /\ [CrawlNext]_crawlVars => FoundInv'
  BY FoundKeeps
<1>3. CrawlSpec => [](IInv /\ Claims /\ ReachInv)
  BY ReachInductive
<1> QED BY <1>1, <1>2, <1>3, PTL DEF CrawlSpec

-----------------------------------------------------------------------------
\* When crawl() has closed the channel nothing is awaited any more.
LEMMA NothingAhead ==
  ASSUME IInv, Claims, FoundInv, mpc = "done", ~cancelled
  PROVE  /\ \A d : Awaited(d) => (MayVisit(d) => Key(d) \in visited)
         /\ \A f : FileAwaited(f) => (WantsFile(f) => Key(f) \in visited)
         /\ \A k : OnItsWay(k) => \E u \in Delivered : Key(u) = k
         /\ \A w \in Workers : \A v, m : ~FetchAt(w, v, m)
<1>1. \A w \in Workers : wpc[w] = "exit" /\ wtodo[w] = <<>>
  BY DEF IInv, Structure, Claims, OneOwnJob
<1>2. done
  <2>1. PICK w \in Workers : TRUE
    BY CrawlAssumption
  <2> QED BY <1>1, <2>1 DEF IInv, Structure, FoundInv
<1>3. Queued = {}
  BY <1>2, SetOfNone DEF IInv, DoneMeansDrained, Queued
<1>4. \A w \in Workers : \A d : ~LinkAt(w, d) /\ ~FileAt(w, d) /\ ~SendAt(w, d)
  BY <1>1, SetOfNone DEF LinkAt, FileAt, SendAt, HasJob
<1>5. \A w \in Workers : \A v, m : ~FetchAt(w, v, m)
  BY <1>1 DEF FetchAt
<1> QED BY <1>3, <1>4, <1>5 DEF Awaited, LinkQueued, FileAwaited, OnItsWay

\* When the crawl has ended nothing is ahead, so what is expected was delivered.
LEMMA AllDelivered ==
  ASSUME Unambiguous, IInv, Claims, FoundInv
  PROVE  Complete
<1> SUFFICES ASSUME mpc = "done", ~cancelled, ~FetchMayFail, Preloaded = {},
                    NEW k \in Expected
             PROVE  \E u \in Delivered : Key(u) = k
  BY DEF Complete
<1> DEFINE N == Cardinality(Urls)
<1>1. Found
  BY DEF FoundInv, Clean
<1>2. N \in Nat /\ DOMAIN Hops = 0..N /\ Hops[0] = {Seed}
  BY HopsSteps
\* A page that has been met, and a file, have both been handled as well as any other.
<1>3. ASSUME NEW n \in DOMAIN Hops, NEW u \in Hops[n], Key(u) \in visited
      PROVE  /\ WantsOwn(u, n) => \E x \in Delivered : Key(x) = Key(u)
             /\ Expands(u, n) => /\ \A d \in SeqSet(Site[u].dirs) : MayVisit(d) => Key(d) \in visited
                                 /\ \A f \in SeqSet(Site[u].files) : WantsFile(f) => Key(f) \in visited
  <2>1. n = 0 => Key(u) = Key(Seed)
    BY <1>2, <1>3
  <2>2. CASE AsPage(Key(u))
    <3> PICK m \in DOMAIN Hops : \E v \in Hops[m] :
           Key(v) = Key(u) /\ MayVisit(v) /\ (Key(u) = Key(Seed) => m = 0) /\ Handled(v, m)
      BY <2>2, NothingAhead DEF AsPage
    <3>1. PICK v \in Hops[m] :
            Key(v) = Key(u) /\ MayVisit(v) /\ (Key(u) = Key(Seed) => m = 0) /\ Handled(v, m)
      OBVIOUS
    <3>2. /\ WantsOwn(u, n) => WantsOwn(v, m)
          /\ Expands(u, n) => /\ Expands(v, m)
                              /\ SeqSet(Site[u].dirs) \subseteq SeqSet(Site[v].dirs)
                              /\ SeqSet(Site[u].files) \subseteq SeqSet(Site[v].files)
      BY <1>3, <2>1, <3>1 DEF Unambiguous, SamePages
    <3> QED BY <3>1, <3>2, NothingAhead DEF Handled
  <2>3. CASE AsFile(Key(u))
    <3>1. PICK f \in Listed : Key(f) = Key(u) /\ PathAllowed(f) /\ (Site[f].accepted => OnItsWay(Key(u)))
      BY <2>3 DEF AsFile
    <3>2. n # 0
      BY <2>1, <2>3 DEF AsFile
    <3>3. ~Expands(u, n) /\ (WantsOwn(u, n) => Site[f].accepted)
      BY <1>3, <3>1, <3>2 DEF Unambiguous, SameFiles
    <3> QED BY <3>1, <3>3, NothingAhead
  <2> QED BY <1>1, <1>3, <2>2, <2>3 DEF Found
<1>4. \A n \in 0..N : \A u \in Hops[n] : MayVisit(u) => Key(u) \in visited
  <2> DEFINE T == {n \in 0..N : \A u \in Hops[n] : MayVisit(u) => Key(u) \in visited}
  <2>1. 0 \in T
    BY <1>1, <1>2, NothingAhead DEF Found
  <2>2. ASSUME NEW n \in 1..N, n - 1 \in T PROVE n \in T
    <3>1. n \in 0..N /\ n - 1 \in 0..N
      BY <1>2
    <3>2. ASSUME NEW u \in Hops[n], MayVisit(u) PROVE Key(u) \in visited
      <4>1. PICK v \in Hops[n - 1] : Expands(v, n - 1) /\ u \in SeqSet(Site[v].dirs)
        BY HopsSteps
      <4>2. Key(v) \in visited
        BY <2>2, <4>1 DEF Expands
      <4> QED BY <1>2, <1>3, <3>1, <3>2, <4>1, <4>2
    <3> QED BY <3>1, <3>2
  <2>3. 0..N \subseteq T
    <3> HIDE DEF T, N
    <3> QED BY <1>2, <2>1, <2>2, SetInduction
  <2> QED BY <2>3
<1> PICK n \in DOMAIN Hops : \E u \in Hops[n] :
        \/ WantsOwn(u, n) /\ Key(u) = k
        \/ Expands(u, n) /\ \E f \in SeqSet(Site[u].files) : WantsFile(f) /\ Key(f) = k
  BY ExpectedKeys
<1>5. PICK u \in Hops[n] :
        \/ WantsOwn(u, n) /\ Key(u) = k
        \/ Expands(u, n) /\ \E f \in SeqSet(Site[u].files) : WantsFile(f) /\ Key(f) = k
  OBVIOUS
<1>6. Key(u) \in visited
  BY <1>2, <1>4, <1>5 DEF WantsOwn, Expands
<1>7. CASE WantsOwn(u, n) /\ Key(u) = k
  BY <1>3, <1>6, <1>7
<1>8. ASSUME Expands(u, n), NEW f \in SeqSet(Site[u].files), WantsFile(f), Key(f) = k
      PROVE  \E x \in Delivered : Key(x) = k
  <2>1. k \in visited
    BY <1>3, <1>6, <1>8
  <2>2. f \in Listed
    <3>1. u \in Walked
      BY <1>8 DEF Walked
    <3> QED BY <1>8, <3>1 DEF Listed
  <2>3. CASE AsPage(k)
    <3> PICK m \in DOMAIN Hops : \E v \in Hops[m] : Key(v) = k /\ MayVisit(v) /\ Handled(v, m)
      BY <2>3, NothingAhead DEF AsPage
    <3>1. PICK v \in Hops[m] : Key(v) = k /\ MayVisit(v) /\ Handled(v, m)
      OBVIOUS
    <3>2. WantsOwn(v, m)
      BY <1>8, <2>2, <3>1 DEF Unambiguous, SameFiles
    <3> QED BY <3>1, <3>2, NothingAhead DEF Handled
  <2>4. CASE AsFile(k)
    <3>1. PICK g \in Listed : Key(g) = k /\ PathAllowed(g) /\ (Site[g].accepted => OnItsWay(k))
      BY <2>4 DEF AsFile
    <3>2. Site[g].accepted
      BY <1>8, <2>2, <3>1 DEF Unambiguous, SameFiles
    <3> QED BY <3>1, <3>2, NothingAhead
  <2> QED BY <1>1, <2>1, <2>3, <2>4 DEF Found
<1> QED BY <1>5, <1>7, <1>8

\* Complete, for every site on which it does not matter what is met first: a crawl that
\* ends on its own has handed over every resource the reference crawl finds, however the
\* inbox, the dispatcher, the work channel and the workers passed its URLs on.
THEOREM NothingMissed == Unambiguous => (CrawlSpec => []Complete)
<1> SUFFICES ASSUME Unambiguous PROVE CrawlSpec => []Complete
  OBVIOUS
<1>1. IInv /\ Claims /\ FoundInv => Complete
  BY AllDelivered
<1>2. CrawlSpec => [](IInv /\ Claims /\ FoundInv)
  BY FoundInductive
<1> QED BY <1>1, <1>2, PTL

=============================================================================
