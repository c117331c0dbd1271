----------------------------- MODULE Aria2Batch -----------------------------
(***************************************************************************)
(* The download stage, pkg/aria2.go: ExecuteBatchDownload() turns the      *)
(* stream of entries from the crawler into aria2c sessions (or one batch   *)
(* file), through a downloadSink.                                          *)
(*                                                                         *)
(* For the aria2 sink the chain behind Write and Close is modelled too:    *)
(* the io.Pipe without buffer, the goroutine of os/exec that copies it to  *)
(* the standard input of the process, the process, the goroutine that      *)
(* kills it when the context ends, and cmd.Wait.                           *)
(***************************************************************************)
EXTENDS EntryChannel

CONSTANTS
  Malformed,     \* entries writeBatchEntry refuses (control characters)
  Sinks,         \* sinks a run may be configured with: "aria2", "file" (WriteBatch)
                 \* or "discard" (DryRun)
  SessionSize,   \* Aria2EntriesPerSession
  StreamingAuto, \* Aria2StreamingAuto: probe aria2c before the first session
  PipeCap,       \* entries the operating system's pipe to aria2c holds
  OpenMayFail,   \* may exec.Start or os.Create fail?
  AriaMayFail,   \* may aria2c end early, or with a non-zero status?
  FileMayFail,   \* may writing the batch file fail?
  MayCancel      \* may the context be cancelled?

ASSUME BatchAssumption ==
  /\ Malformed \subseteq Urls
  /\ PipeCap \in Nat \ {0}
  /\ Sinks \subseteq {"aria2", "file", "discard"} /\ Sinks # {}
  /\ SessionSize \in Int
  /\ {StreamingAuto, OpenMayFail, AriaMayFail, FileMayFail, MayCancel} \subseteq BOOLEAN

VARIABLES
  ctxDone,               \* the context of the run is done
  kind,                  \* the kind of sink this run is configured with
  limit,                 \* resolvedSessionSize, 0 for no limit
  xpc,                   \* where ExecuteBatchDownload is
  cur,                   \* the entry it holds
  sink,                  \* number of the open session, 0 for nil
  opened,                \* number of sinks opened so far
  total, count,          \* entryCount, sessionEntryCount
  after,                 \* what flushSession was called for: recv, end or fail
  result,                \* what ExecuteBatchDownload returned
  put,                   \* entries Write accepted, for each session
  sess,                  \* the aria2c process of each session
  buf, disk              \* the bufio.Writer of the batch file, and the file

executorVars == <<kind, limit, xpc, cur, sink, opened, total, count, after, result>>
batchVars == <<channel, ctxDone, kind, limit, xpc, cur, sink, opened, total, count,
          after, result, put, sess, buf, disk>>

\* A session is opened for an entry, so there are never more than entries.
Sessions == 1..Cardinality(Urls)

\* proc: the process; pipe: the copying goroutine, waiting in Read, holding an
\* entry it writes to the process, or ended; waited: cmd.Wait has returned.
NoProcess == [proc |-> "none", pipe |-> "end", held |-> <<>>, closed |-> FALSE,
              stdin |-> <<>>, fed |-> <<>>, waited |-> FALSE]
Started   == [NoProcess EXCEPT !.proc = "run", !.pipe = "read"]

\* Is aria2c probed?  The outcome of that is StreamingProbe's.
Probes == StreamingAuto /\ kind = "aria2" /\ SessionSize > 0

\* resolveSessionLimit(), when the probe has found an aria2c that streams, or not.
LimitIf(streams) == IF SessionSize <= 0 \/ kind = "file" \/ streams THEN 0 ELSE SessionSize

Good(e) == e \notin Malformed

-----------------------------------------------------------------------------
BatchInit ==
  /\ ChannelInit /\ ctxDone = FALSE
  /\ kind \in Sinks
  /\ limit = 0
  /\ xpc = "limit" /\ cur = <<>> /\ sink = 0 /\ opened = 0
  /\ total = 0 /\ count = 0 /\ after = "recv" /\ result = "none"
  /\ put = [s \in Sessions |-> <<>>]
  /\ sess = [s \in Sessions |-> NoProcess]
  /\ buf = <<>> /\ disk = <<>>

Return(r) == xpc' = "ret" /\ result' = r

-----------------------------------------------------------------------------
(* ExecuteBatchDownload.                                                   *)

ResolveLimit ==
  /\ xpc = "limit"
  /\ \E streams \in (IF Probes THEN BOOLEAN ELSE {FALSE}) : limit' = LimitIf(streams)
  /\ xpc' = "recv"
  /\ UNCHANGED <<channel, ctxDone, kind, cur, sink, opened, total, count, after,
                 result, put, sess, buf, disk>>

Receive ==
  /\ xpc = "recv" /\ ReceiveEntry
  /\ cur' = <<Head(entriesCh)>>
  /\ xpc' = IF sink = 0 THEN "open" ELSE "write"
  /\ UNCHANGED <<ctxDone, kind, limit, sink, opened, total, count, after, result, put, sess, buf, disk>>

OpenFailed ==
  /\ xpc = "open" /\ OpenMayFail /\ kind # "discard"
  /\ Return("err")
  /\ UNCHANGED <<channel, ctxDone, kind, limit, cur, sink, opened, total, count, after,
                 put, sess, buf, disk>>

\* Mutant: opening a sink uses up the entry it was opened for.
OpenSkips ==
  /\ xpc = "open"
  /\ sink' = opened + 1 /\ opened' = opened + 1 /\ xpc' = "recv" /\ cur' = <<>>
  /\ sess' = [sess EXCEPT ![opened + 1] = IF kind = "aria2" THEN Started ELSE @]
  /\ UNCHANGED <<channel, ctxDone, kind, limit, total, count, after, result, put, buf, disk>>

\* os.Create truncates an existing batch file.
Open ==
  /\ xpc = "open"
  /\ sink' = opened + 1 /\ opened' = opened + 1 /\ xpc' = "write"
  /\ \/ kind = "aria2" /\ sess' = [sess EXCEPT ![opened + 1] = Started] /\ UNCHANGED <<buf, disk>>
     \/ kind = "file" /\ buf' = <<>> /\ disk' = <<>> /\ UNCHANGED sess
     \/ kind = "discard" /\ UNCHANGED <<sess, buf, disk>>
  /\ UNCHANGED <<channel, ctxDone, kind, limit, cur, total, count, after, result, put>>

\* errInvalidBatchEntry: the entry is skipped, the sink stays.
SkipMalformed ==
  /\ xpc = "write" /\ ~Good(cur[1])
  /\ xpc' = "recv" /\ cur' = <<>>
  /\ UNCHANGED <<channel, ctxDone, kind, limit, sink, opened, total, count, after, result,
                 put, sess, buf, disk>>

\* After a successful Write: count it, and end a full session.
Written ==
  /\ total' = total + 1 /\ count' = count + 1 /\ cur' = <<>>
  /\ put' = [put EXCEPT ![sink] = Append(@, cur[1])]
  /\ IF limit > 0 /\ count + 1 >= limit
     THEN xpc' = "close" /\ after' = "recv"
     ELSE xpc' = "recv" /\ UNCHANGED after

\* Mutant: the write does not wait for the copying goroutine.
WritePipeUnsynchronised ==
  /\ xpc = "write" /\ Good(cur[1]) /\ kind = "aria2"
  /\ sess' = [sess EXCEPT ![sink].pipe = "hold", ![sink].held = cur]
  /\ Written
  /\ UNCHANGED <<channel, ctxDone, kind, limit, sink, opened, result, buf, disk>>

\* aria2Sink.Write: the write to the pipe returns once the copying goroutine has
\* read it; nobody ever closes the reading end.
WritePipe ==
  /\ xpc = "write" /\ Good(cur[1]) /\ kind = "aria2"
  /\ sess[sink].pipe = "read"
  /\ sess' = [sess EXCEPT ![sink].pipe = "hold", ![sink].held = cur]
  /\ Written
  /\ UNCHANGED <<channel, ctxDone, kind, limit, sink, opened, result, buf, disk>>

\* batchFileSink.Write: into the buffer, which spills to the file when full.
WriteFile ==
  /\ xpc = "write" /\ Good(cur[1]) /\ kind = "file"
  /\ \/ buf' = buf \o cur /\ UNCHANGED disk
     \/ buf' = <<>> /\ disk' = disk \o buf \o cur
  /\ Written
  /\ UNCHANGED <<channel, ctxDone, kind, limit, sink, opened, result, sess>>

WriteFileFailed ==
  /\ xpc = "write" /\ Good(cur[1]) /\ kind = "file" /\ FileMayFail
  /\ xpc' = "close" /\ after' = "fail"
  /\ UNCHANGED <<channel, ctxDone, kind, limit, cur, sink, opened, total, count, result,
                 put, sess, buf, disk>>

WriteNowhere ==
  /\ xpc = "write" /\ Good(cur[1]) /\ kind = "discard"
  /\ Written
  /\ UNCHANGED <<channel, ctxDone, kind, limit, sink, opened, result, sess, buf, disk>>

\* The channel is closed and drained.
Ended ==
  /\ xpc = "recv" /\ entriesCh = <<>> /\ chClosed
  /\ \/ (total = 0 \/ sink = 0) /\ Return("nil") /\ UNCHANGED after
     \/ total > 0 /\ sink # 0 /\ xpc' = "close" /\ after' = "end" /\ UNCHANGED result
  /\ UNCHANGED <<channel, ctxDone, kind, limit, cur, sink, opened, total, count, put, sess,
                 buf, disk>>

\* Mutant: the exit status of aria2c is not looked at.
ClosedUnchecked(ok) ==
  \/ after = "fail" /\ Return("err") /\ UNCHANGED <<sink, count>>
  \/ after = "recv" /\ sink' = 0 /\ count' = 0 /\ xpc' = "recv" /\ UNCHANGED result
  \/ after = "end" /\ sink' = 0 /\ count' = 0 /\ Return("nil")

\* The rest of flushSession, and of its caller, once sink.Close has returned.
\* Only a session that closed without error is forgotten.
Closed(ok) ==
  \/ (~ok \/ after = "fail") /\ Return("err") /\ UNCHANGED <<sink, count>>
  \/ ok /\ after = "recv" /\ sink' = 0 /\ count' = 0 /\ xpc' = "recv" /\ UNCHANGED result
  \/ ok /\ after = "end" /\ sink' = 0 /\ count' = 0 /\ Return("nil")

\* Mutant: Close does not wait for the process.
ClosePipeUnwaited ==
  /\ xpc = "close" /\ kind = "aria2"
  /\ sess' = [sess EXCEPT ![sink].closed = TRUE]
  /\ Closed(TRUE)
  /\ UNCHANGED <<channel, ctxDone, kind, limit, cur, opened, total, after, put,
                 buf, disk>>

\* Mutant: Close waits for the process without closing the pipe.
ClosePipeLeftOpen ==
  /\ xpc = "close" /\ kind = "aria2"
  /\ xpc' = "wait"
  /\ UNCHANGED <<channel, ctxDone, kind, limit, cur, sink, opened, total, count, after,
                 result, put, sess, buf, disk>>

\* aria2Sink.Close: close the pipe, then receive from waitCh.
ClosePipe ==
  /\ xpc = "close" /\ kind = "aria2"
  /\ sess' = [sess EXCEPT ![sink].closed = TRUE]
  /\ xpc' = "wait"
  /\ UNCHANGED <<channel, ctxDone, kind, limit, cur, sink, opened, total, count, after,
                 result, put, buf, disk>>

Wait ==
  /\ xpc = "wait" /\ sess[sink].waited
  /\ Closed(sess[sink].proc = "ok")
  /\ UNCHANGED <<channel, ctxDone, kind, limit, cur, opened, total, after, put, sess,
                 buf, disk>>

\* batchFileSink.Close: flush, then close; after a failed Write the bufio.Writer
\* keeps failing.
CloseFile ==
  /\ xpc = "close" /\ kind = "file"
  /\ \/ after # "fail" /\ disk' = disk \o buf /\ buf' = <<>> /\ Closed(TRUE)
     \/ FileMayFail /\ UNCHANGED <<buf, disk>> /\ Closed(FALSE)
  /\ UNCHANGED <<channel, ctxDone, kind, limit, cur, opened, total, after, put, sess>>

CloseNothing ==
  /\ xpc = "close" /\ kind = "discard"
  /\ Closed(TRUE)
  /\ UNCHANGED <<channel, ctxDone, kind, limit, cur, opened, total, after, put, sess,
                 buf, disk>>

ExecutorStep ==
  \/ ResolveLimit \/ Receive \/ OpenFailed \/ Open \/ SkipMalformed
  \/ WritePipe \/ WriteFile \/ WriteFileFailed \/ WriteNowhere
  \/ Ended \/ ClosePipe \/ Wait \/ CloseFile \/ CloseNothing

-----------------------------------------------------------------------------
(* One session: os/exec, the aria2c process, and the goroutine that kills it. *)

SessionOnly == UNCHANGED <<channel, ctxDone, executorVars, put, buf, disk>>

\* The copying goroutine writes to the process; when that is gone the write fails
\* (EPIPE) and the goroutine ends, with its reader still open.
CopyOut(s) ==
  /\ sess[s].pipe = "hold"
  /\ \/ /\ sess[s].proc = "run" /\ Len(sess[s].stdin) < PipeCap
        /\ sess' = [sess EXCEPT ![s].pipe = "read", ![s].held = <<>>,
                                ![s].stdin = @ \o sess[s].held]
     \/ /\ sess[s].proc # "run"
        /\ sess' = [sess EXCEPT ![s].pipe = "end", ![s].held = <<>>]
  /\ SessionOnly

CopyEOF(s) ==
  /\ sess[s].pipe = "read" /\ sess[s].closed
  /\ sess' = [sess EXCEPT ![s].pipe = "end"]
  /\ SessionOnly

AriaRead(s) ==
  /\ sess[s].proc = "run" /\ sess[s].stdin # <<>>
  /\ sess' = [sess EXCEPT ![s].stdin = Tail(@), ![s].fed = Append(@, Head(sess[s].stdin))]
  /\ SessionOnly

\* At the end of its input aria2c finishes; failed downloads make its status 1.
AriaExit(s) ==
  /\ sess[s].proc = "run" /\ sess[s].pipe = "end" /\ sess[s].stdin = <<>>
  /\ \/ sess' = [sess EXCEPT ![s].proc = "ok"]
     \/ AriaMayFail /\ sess' = [sess EXCEPT ![s].proc = "failed"]
  /\ SessionOnly

AriaDies(s) ==
  /\ sess[s].proc = "run" /\ AriaMayFail
  /\ sess' = [sess EXCEPT ![s].proc = "failed"]
  /\ SessionOnly

Kill(s) ==
  /\ sess[s].proc = "run" /\ ctxDone
  /\ sess' = [sess EXCEPT ![s].proc = "killed"]
  /\ SessionOnly

\* cmd.Wait returns when the process and the copying goroutine have ended.
Reap(s) ==
  /\ sess[s].proc \in {"ok", "failed", "killed"} /\ sess[s].pipe = "end" /\ ~sess[s].waited
  /\ sess' = [sess EXCEPT ![s].waited = TRUE]
  /\ SessionOnly

\* What a session does on its own; AriaDies is never owed.
SessionStep(s) == CopyOut(s) \/ CopyEOF(s) \/ AriaRead(s) \/ AriaExit(s) \/ Kill(s) \/ Reap(s)

BatchStep == ExecutorStep \/ \E s \in Sessions : SessionStep(s) \/ AriaDies(s)

-----------------------------------------------------------------------------
(* The environment: the crawler (its own module is Crawl) and the user.    *)

Unsent == Urls \ Delivered

Produce ==
  /\ ~chClosed
  /\ \E e \in Unsent : SendEntry(e)
  /\ UNCHANGED <<ctxDone, executorVars, put, sess, buf, disk>>

CloseCh ==
  /\ ~chClosed
  /\ chClosed' = TRUE
  /\ UNCHANGED <<entriesCh, handed, ctxDone, executorVars, put, sess, buf, disk>>

Cancel ==
  /\ MayCancel /\ ~ctxDone
  /\ ctxDone' = TRUE
  /\ UNCHANGED <<channel, executorVars, put, sess, buf, disk>>

BatchEnded == xpc = "ret" /\ UNCHANGED batchVars

BatchNext == BatchStep \/ Produce \/ CloseCh \/ Cancel \/ BatchEnded

BatchSpec == BatchInit /\ [][BatchNext]_batchVars

-----------------------------------------------------------------------------
(* Properties.                                                             *)

\* The concatenation of the sequences f[1], f[2], ...
Flat(f) ==
  LET flat[n \in 0..Cardinality(Urls)] == IF n = 0 THEN <<>> ELSE flat[n-1] \o f[n]
  IN  flat[Cardinality(Urls)]

\* The entries of s that can be written.
Writable(s) ==
  LET good[n \in 0..Len(s)] ==
        IF n = 0 THEN <<>> ELSE IF Good(s[n]) THEN Append(good[n-1], s[n]) ELSE good[n-1]
  IN  good[Len(s)]

Valid == Writable(handed)

\* Every valid entry goes to exactly one session, in the order it was received,
\* across restarts of aria2c and skipped entries; only the one in hand is not
\* yet placed.
EntriesOnce == Flat(put) \o Writable(cur) = Valid

\* Session after session: with a limit every session but the last has exactly that
\* many entries and the last has no more, and a new aria2c is only started when the
\* one before ended well, so at most one runs; without a limit there is one session,
\* and the batch file is created, and truncated, once.
SessionsInTurn ==
  /\ opened > 1 => limit = SessionSize /\ limit > 0
  /\ limit > 0 => \A s \in 1..opened : Len(put[s]) <= limit
  /\ \A s \in 1..opened : s < opened =>
       /\ Len(put[s]) = limit
       /\ kind = "aria2" => sess[s].proc = "ok"

\* What aria2c has read, what waits in its standard input and what the copying
\* goroutine holds is what Write accepted, in order, as long as it lives.
PipeFaithful ==
  \A s \in Sessions : sess[s].proc \in {"run", "ok"} =>
    sess[s].fed \o sess[s].stdin \o sess[s].held = put[s]

\* Success is never reported early: when ExecuteBatchDownload returns nil after
\* any valid entry, every one of them was read by an aria2c that exited with
\* status 0, or is in the batch file.
NilMeansDelivered ==
  result = "nil" /\ Valid # <<>> =>
    /\ entriesCh = <<>>
    /\ kind = "aria2" => /\ Flat([s \in Sessions |-> sess[s].fed]) = Valid
                         /\ \A s \in 1..opened : sess[s].proc = "ok" /\ sess[s].waited
    /\ kind = "file" => disk = Valid

\* The documented end of the download stage (the comment on aria2Sink.Close): once
\* the crawler has closed the channel ExecuteBatchDownload returns.
ExecutorReturns == chClosed ~> xpc = "ret"

\* The executor holds an entry for an aria2c that died, or was killed, and whose copying
\* goroutine has noticed it and ended: nobody will ever read from the pipe.
WritesToNobody ==
  xpc = "write" /\ kind = "aria2" /\ Good(cur[1]) /\ sess[sink].pipe = "end"

=============================================================================
