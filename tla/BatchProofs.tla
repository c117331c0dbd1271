----------------------------- MODULE BatchProofs -----------------------------
(***************************************************************************)
(* Proofs about the download stage, for any entries, sinks, session size   *)
(* and capacities.                                                         *)
(*                                                                         *)
(* The argument for the sessions: one is only opened for an entry of its   *)
(* own (Place, Fresh), so there are never more than entries; the counter   *)
(* of the open session is the number of its entries, and below the limit   *)
(* while it is open for more (Filling); so a session that is closed to     *)
(* make room for the next one is full.  What is in the pipe is a second    *)
(* invariant, which needs only the positions of the first; how sessions    *)
(* and the executor end, and what was placed by then, is a third.          *)
(***************************************************************************)
EXTENDS Aria2Batch, Recursion, FiniteSetTheorems, SequenceTheorems, TLAPS

USE DEF channel

SessionState ==
  [proc : {"none", "run", "ok", "failed", "killed"}, pipe : {"read", "hold", "end"},
   held : Seq(Urls), closed : BOOLEAN, stdin : Seq(Urls), fed : Seq(Urls), waited : BOOLEAN]

Typed ==
  /\ entriesCh \in Seq(Urls) /\ handed \in Seq(Urls) /\ cur \in Seq(Urls)
  /\ kind \in {"aria2", "file", "discard"}
  /\ xpc \in {"limit", "recv", "open", "write", "close", "wait", "ret"}
  /\ after \in {"recv", "end", "fail"}
  /\ limit \in Nat /\ opened \in Nat /\ sink \in Nat /\ count \in Nat /\ total \in Nat
  /\ put \in [Sessions -> Seq(Urls)]
  /\ sess \in [Sessions -> SessionState]

\* No entry is sent twice.
SentOnce ==
  /\ \A i, j \in 1..Len(handed) : handed[i] = handed[j] => i = j
  /\ \A i, j \in 1..Len(entriesCh) : entriesCh[i] = entriesCh[j] => i = j
  /\ \A i \in 1..Len(handed), j \in 1..Len(entriesCh) : handed[i] # entriesCh[j]

\* Where the executor is, and what it holds there.
Place ==
  /\ opened <= Len(handed)
  /\ xpc = "limit" => opened = 0 /\ limit = 0
  /\ xpc = "open" => sink = 0 /\ opened + 1 <= Len(handed)
  /\ xpc \in {"open", "write"} => Len(cur) = 1
  /\ xpc \in {"write", "close", "wait"} => sink # 0
  /\ sink \in {0, opened}

Full(s) == Len(put[s]) = limit /\ (kind = "aria2" => sess[s].proc = "ok")

\* The open session: its counter, and how far it is filled.
Filling ==
  /\ limit \in {0, SessionSize}
  /\ \A s \in Sessions : s > opened => put[s] = <<>> /\ sess[s] = NoProcess
  /\ sink # 0 => count = Len(put[sink])
  /\ sink = 0 /\ xpc \in {"limit", "recv", "open"} => count = 0 /\ \A s \in 1..opened : limit > 0 /\ Full(s)
  /\ sink # 0 /\ limit > 0 /\ xpc \in {"recv", "write"} => count < limit
  /\ xpc \in {"close", "wait"} /\ after = "recv" => limit > 0 /\ count = limit

BatchInv == Typed /\ SentOnce /\ Place /\ Filling /\ SessionsInTurn

-----------------------------------------------------------------------------
\* There are never more sessions than entries.
LEMMA Bounded ==
  ASSUME Typed, SentOnce, Place
  PROVE  /\ Cardinality(Urls) \in Nat
         /\ Len(handed) <= Cardinality(Urls)
         /\ 1..opened \subseteq Sessions
         /\ xpc = "open" => opened + 1 \in Sessions
<1>1. IsFiniteSet(Urls) /\ Cardinality(Urls) \in Nat
  BY ChannelAssumption, FS_CardinalityType
<1>2. Len(handed) \in Nat /\ handed \in [1..Len(handed) -> Urls]
  BY DEF Typed
<1>3. handed \in Injection(1..Len(handed), Urls)
  BY <1>2 DEF SentOnce, Injection, IsInjective
<1>4. Cardinality(1..Len(handed)) <= Cardinality(Urls)
  BY <1>1, <1>3, FS_Injection
<1>5. Cardinality(1..Len(handed)) = Len(handed)
  BY <1>2, FS_Interval
<1> QED BY <1>1, <1>2, <1>4, <1>5 DEF Typed, Place, Sessions

\* The open session is the last that was opened, and one of Sessions.
LEMMA OpenSession ==
  ASSUME BatchInv, sink # 0
  PROVE  sink \in Sessions /\ sink = opened /\ 1..opened \subseteq Sessions
BY Bounded DEF BatchInv, Place, Typed

\* The invariant of the executor holds at the start.
LEMMA InitBatch == BatchInit => BatchInv
<1> SUFFICES ASSUME BatchInit PROVE BatchInv
  OBVIOUS
<1>1. NoProcess \in SessionState
  BY DEF NoProcess, SessionState
<1>2. Typed
  BY <1>1, BatchAssumption DEF BatchInit, Typed, ChannelInit
<1>3. SentOnce /\ Place
  BY DEF BatchInit, SentOnce, Place, ChannelInit
<1>4. Filling /\ SessionsInTurn
  BY DEF BatchInit, Filling, SessionsInTurn, Sessions, ChannelInit
<1> QED BY <1>2, <1>3, <1>4 DEF BatchInv

-----------------------------------------------------------------------------
(* The sessions.                                                           *)

Gone(q) == q.proc \in {"ok", "failed", "killed"}

\* From q to r a process that is gone stays so, with its status; nobody else is waited for.
Lasts(q, r) ==
  /\ q.proc = "ok" => r.proc = "ok"
  /\ q.waited => r.waited
  /\ Gone(q) => Gone(r)
  /\ r.waited => q.waited \/ Gone(r)

\* What a step of a session does: it changes the record of one that was started.
Moves(s) ==
  /\ SessionOnly
  /\ \E r \in SessionState : sess' = [sess EXCEPT ![s] = r] /\ Lasts(sess[s], r)
  /\ sess[s] # NoProcess

\* What a step of pipe or process does to its own record, and to nothing else.
LEMMA SessionMoves ==
  ASSUME sess \in [Sessions -> SessionState], NEW s \in Sessions, SessionStep(s) \/ AriaDies(s)
  PROVE  Moves(s)
<1> DEFINE q == sess[s]
<1>1. /\ q \in SessionState /\ q.held \in Seq(Urls) /\ q.stdin \in Seq(Urls) /\ q.fed \in Seq(Urls)
      /\ SessionOnly
  BY DEF SessionState, SessionStep, CopyOut, CopyEOF, AriaRead, AriaExit, AriaDies, Kill, Reap
<1>2. SUFFICES /\ \E r \in SessionState : sess' = [sess EXCEPT ![s] = r] /\ Lasts(q, r)
               /\ q # NoProcess
  BY <1>1 DEF Moves
<1>3. q.pipe # "end" \/ q.proc # "none" => q # NoProcess
  BY DEF NoProcess
<1>0. \A r \in SessionState : r.proc = q.proc /\ r.waited = q.waited => Lasts(q, r)
  BY DEF Lasts, Gone
<1>4. CASE CopyOut(s)
  <2>1. q.pipe = "hold"
    BY <1>4 DEF CopyOut
  <2>2. CASE sess' = [sess EXCEPT ![s].pipe = "read", ![s].held = <<>>, ![s].stdin = @ \o sess[s].held]
    <3> DEFINE r == [q EXCEPT !.pipe = "read", !.held = <<>>, !.stdin = q.stdin \o q.held]
    <3>1. sess' = [sess EXCEPT ![s] = r]
      BY <2>2
    <3>2. q.stdin \o q.held \in Seq(Urls) /\ <<>> \in Seq(Urls)
      BY <1>1
    <3>3. r \in SessionState /\ r.proc = q.proc /\ r.waited = q.waited
      BY <1>1, <3>2 DEF SessionState
    <3>4. Lasts(q, r)
      BY <1>0, <3>3
    <3> QED BY <1>3, <2>1, <3>1, <3>3, <3>4
  <2>3. CASE sess' = [sess EXCEPT ![s].pipe = "end", ![s].held = <<>>]
    <3> DEFINE r == [q EXCEPT !.pipe = "end", !.held = <<>>]
    <3>1. sess' = [sess EXCEPT ![s] = r]
      BY <2>3
    <3>2. <<>> \in Seq(Urls)
      OBVIOUS
    <3>3. r \in SessionState /\ r.proc = q.proc /\ r.waited = q.waited
      BY <1>1, <3>2 DEF SessionState
    <3>4. Lasts(q, r)
      BY <1>0, <3>3
    <3> QED BY <1>3, <2>1, <3>1, <3>3, <3>4
  <2> QED BY <1>4, <2>2, <2>3 DEF CopyOut
<1>5. CASE CopyEOF(s)
  <2> DEFINE r == [q EXCEPT !.pipe = "end"]
  <2>1. q.pipe = "read" /\ sess' = [sess EXCEPT ![s] = r]
    BY <1>5 DEF CopyEOF
  <2>2. r \in SessionState /\ r.proc = q.proc /\ r.waited = q.waited
    BY <1>1 DEF SessionState
  <2>3. Lasts(q, r)
    BY <1>0, <2>2
  <2> QED BY <1>3, <2>1, <2>2, <2>3
<1>6. CASE AriaRead(s)
  <2> DEFINE r == [q EXCEPT !.stdin = Tail(q.stdin), !.fed = Append(q.fed, Head(q.stdin))]
  <2>1. q.proc = "run" /\ q.stdin # <<>> /\ sess' = [sess EXCEPT ![s] = r]
    BY <1>6 DEF AriaRead
  <2>2. Tail(q.stdin) \in Seq(Urls) /\ Append(q.fed, Head(q.stdin)) \in Seq(Urls)
    BY <1>1, <2>1
  <2>3. r \in SessionState /\ r.proc = q.proc /\ r.waited = q.waited
    BY <1>1, <2>2 DEF SessionState
  <2>4. Lasts(q, r)
    BY <1>0, <2>3
  <2> QED BY <1>3, <2>1, <2>3, <2>4
<1>7. CASE AriaExit(s) \/ AriaDies(s) \/ Kill(s)
  <2>1. q.proc = "run"
    BY <1>7 DEF AriaExit, AriaDies, Kill
  <2>2. PICK x \in {"ok", "failed", "killed"} : sess' = [sess EXCEPT ![s] = [q EXCEPT !.proc = x]]
    BY <1>7 DEF AriaExit, AriaDies, Kill
  <2>3. [q EXCEPT !.proc = x] \in SessionState /\ Lasts(q, [q EXCEPT !.proc = x])
    BY <1>1, <2>1 DEF SessionState, Lasts, Gone
  <2> QED BY <1>3, <2>1, <2>2, <2>3
<1>8. CASE Reap(s)
  <2> DEFINE r == [q EXCEPT !.waited = TRUE]
  <2>1. q.proc \in {"ok", "failed", "killed"} /\ sess' = [sess EXCEPT ![s] = r]
    BY <1>8 DEF Reap
  <2>2. r \in SessionState /\ r.proc = q.proc /\ r.waited
    BY <1>1 DEF SessionState
  <2>3. Lasts(q, r)
    BY <2>1, <2>2 DEF Lasts, Gone
  <2> QED BY <1>3, <2>1, <2>2, <2>3
<1> QED BY <1>4, <1>5, <1>6, <1>7, <1>8 DEF SessionStep

\* No step of pipe or process disturbs the executor.
LEMMA SessionKeeps ==
  ASSUME BatchInv, NEW s \in Sessions, Moves(s)
  PROVE  BatchInv'
<1> USE DEF BatchInv
<1>1. PICK r \in SessionState : sess' = [sess EXCEPT ![s] = r] /\ (sess[s].proc = "ok" => r.proc = "ok")
  BY DEF Moves, Lasts
<1>2. /\ UNCHANGED <<entriesCh, chClosed, handed, ctxDone, put, buf, disk>>
      /\ UNCHANGED <<kind, limit, xpc, cur, sink, opened, total, count, after, result>>
  BY DEF Moves, SessionOnly, executorVars
<1>0. sess \in [Sessions -> SessionState] /\ sess' \in [Sessions -> SessionState]
  BY <1>1 DEF Typed
<1>3. Typed' /\ SentOnce' /\ Place'
  BY <1>0, <1>2 DEF Typed, SentOnce, Place
<1>4. s <= opened
  BY DEF Moves, Filling, Typed, Sessions
<1>5. 1..opened \subseteq Sessions
  BY Bounded
<1>6. \A t \in Sessions : t # s => sess'[t] = sess[t]
  BY <1>0, <1>1
<1>7. \A t \in Sessions : sess[t].proc = "ok" => sess'[t].proc = "ok"
  BY <1>0, <1>1, <1>6
<1>8. \A t \in 1..opened : Full(t) => Full(t)'
  BY <1>2, <1>5, <1>7 DEF Full
<1>9. Filling'
  <2>1. \A t \in Sessions : t > opened' => put'[t] = <<>> /\ sess'[t] = NoProcess
    BY <1>2, <1>4, <1>6 DEF Filling, Sessions, Typed
  <2>2. sink' = 0 /\ xpc' \in {"limit", "recv", "open"} => count' = 0 /\ \A t \in 1..opened' : limit' > 0 /\ Full(t)'
    BY <1>2, <1>8 DEF Filling
  <2> QED BY <1>2, <2>1, <2>2 DEF Filling
<1>10. SessionsInTurn'
  BY <1>2, <1>5, <1>7 DEF SessionsInTurn
<1> QED BY <1>3, <1>9, <1>10

\* The crawler's side of the channel, and the user.
LEMMA OutsideKeeps == BatchInv /\ (Produce \/ CloseCh \/ Cancel \/ UNCHANGED batchVars) => BatchInv'
<1> SUFFICES ASSUME BatchInv, Produce \/ CloseCh \/ Cancel \/ UNCHANGED batchVars PROVE BatchInv'
  OBVIOUS
<1> USE DEF BatchInv
<1>1. /\ UNCHANGED <<handed, put, sess>>
      /\ UNCHANGED <<kind, limit, xpc, cur, sink, opened, total, count, after, result>>
  BY DEF Produce, CloseCh, Cancel, batchVars, executorVars, SendEntry
<1>2. entriesCh' \in Seq(Urls) /\ SentOnce'
  <2>1. CASE Produce
    <3>1. PICK e \in Unsent : entriesCh' = Append(entriesCh, e)
      BY <2>1 DEF Produce, SendEntry
    <3>2. e \in Urls /\ (\A i \in 1..Len(handed) : handed[i] # e) /\ \A i \in 1..Len(entriesCh) : entriesCh[i] # e
      BY DEF Unsent, Delivered, SeqSet
    <3>3. entriesCh \in Seq(Urls) /\ handed' = handed
      BY <1>1 DEF Typed
    <3>4. /\ entriesCh' \in Seq(Urls) /\ Len(entriesCh') = Len(entriesCh) + 1
          /\ \A i \in 1..Len(entriesCh) : entriesCh'[i] = entriesCh[i]
          /\ entriesCh'[Len(entriesCh) + 1] = e
      BY <3>1, <3>2, <3>3
    <3>5. \A i \in 1..Len(entriesCh') : i \in 1..Len(entriesCh) \/ i = Len(entriesCh) + 1
      BY <3>3, <3>4
    <3> QED BY <3>2, <3>3, <3>4, <3>5 DEF SentOnce
  <2>2. CASE CloseCh \/ Cancel \/ UNCHANGED batchVars
    BY <1>1, <2>2 DEF CloseCh, Cancel, batchVars, Typed, SentOnce
  <2> QED BY <2>1, <2>2
<1>3. Typed' /\ Place'
  BY <1>1, <1>2 DEF Typed, Place
<1>4. Filling' /\ SessionsInTurn'
  BY <1>1 DEF Filling, Full, SessionsInTurn
<1> QED BY <1>2, <1>3, <1>4

-----------------------------------------------------------------------------
(* The executor.                                                           *)

Elsewhere == UNCHANGED <<entriesCh, handed, kind, limit, opened>>

\* A successful Write, by any sink, leaves every process as it is.
LEMMA WrittenKeeps ==
  ASSUME BatchInv, xpc = "write", Written, Elsewhere, sink' = sink,
         sess' \in [Sessions -> SessionState],
         \A t \in Sessions : sess'[t].proc = sess[t].proc /\ (t # sink => sess'[t] = sess[t])
  PROVE  BatchInv'
<1> USE DEF BatchInv, Elsewhere
<1>1. sink \in Sessions /\ sink \in 1..opened /\ 1..opened \subseteq Sessions
  BY Bounded DEF Place, Typed
<1>2. /\ cur \in Seq(Urls) /\ Len(cur) = 1 /\ put \in [Sessions -> Seq(Urls)]
      /\ limit \in Nat /\ count \in Nat /\ total \in Nat
  BY DEF Typed, Place
<1>3. cur[1] \in Urls
  <2>1. cur \in Seq(Urls) /\ Len(cur) = 1
    BY <1>2
  <2>2. cur \in [1..Len(cur) -> Urls]
    BY <2>1
  <2> QED BY <2>1, <2>2
<1>4. put' = [put EXCEPT ![sink] = Append(put[sink], cur[1])] /\ cur' = <<>>
      /\ total' = total + 1 /\ count' = count + 1
  BY DEF Written
<1>5. put' \in [Sessions -> Seq(Urls)] /\ Len(put'[sink]) = Len(put[sink]) + 1
  BY <1>1, <1>2, <1>3, <1>4
<1>6. \A t \in Sessions : t # sink => put'[t] = put[t]
  BY <1>2, <1>4
<1>7. \/ limit > 0 /\ count + 1 >= limit /\ xpc' = "close" /\ after' = "recv"
      \/ ~(limit > 0 /\ count + 1 >= limit) /\ xpc' = "recv" /\ after' = after
  BY DEF Written
<1>8. count' = Len(put'[sink]) /\ (limit > 0 => count < limit)
  BY <1>4, <1>5 DEF Filling, Place
<1>9. Typed'
  BY <1>2, <1>4, <1>5, <1>7 DEF Typed
<1>10. SentOnce' /\ Place'
  BY <1>1, <1>7 DEF SentOnce, Place
<1>11. \A s \in Sessions : s > opened => put'[s] = <<>> /\ sess'[s] = NoProcess
  BY <1>1, <1>6 DEF Filling, Typed, Sessions
<1>12. Filling'
  BY <1>1, <1>2, <1>4, <1>7, <1>8, <1>11 DEF Filling, Place
<1>13. SessionsInTurn'
  <2>1. limit > 0 => \A s \in 1..opened : Len(put'[s]) <= limit
    <3> SUFFICES ASSUME limit > 0, NEW s \in 1..opened PROVE Len(put'[s]) <= limit
      OBVIOUS
    <3>1. CASE s = sink
      BY <3>1, <1>2, <1>4, <1>8
    <3>2. CASE s # sink
      BY <3>2, <1>1, <1>6 DEF SessionsInTurn
    <3> QED BY <3>1, <3>2
  <2>2. \A s \in 1..opened : s < opened => s # sink
    BY <1>1 DEF Place, Typed
  <2> QED BY <2>1, <2>2, <1>1, <1>6 DEF SessionsInTurn
<1> QED BY <1>9, <1>10, <1>12, <1>13

\* The end of a session: it was closed for the next one only when it was full.
LEMMA ClosedKeeps ==
  ASSUME BatchInv, xpc \in {"close", "wait"}, NEW ok \in BOOLEAN, Closed(ok),
         Elsewhere, UNCHANGED <<cur, total, after, put, sess>>,
         ok /\ kind = "aria2" => sess[sink].proc = "ok"
  PROVE  BatchInv'
<1> USE DEF BatchInv, Elsewhere
<1>1. sink \in Sessions /\ sink = opened /\ 1..opened \subseteq Sessions
  BY Bounded DEF Place, Typed
<1>2. \/ xpc' = "ret" /\ (UNCHANGED <<sink, count>> \/ (sink' = 0 /\ count' = 0))
      \/ ok /\ after = "recv" /\ xpc' = "recv" /\ sink' = 0 /\ count' = 0
  <2>1. CASE (~ok \/ after = "fail") /\ Return("err") /\ UNCHANGED <<sink, count>>
    <3>1. xpc' = "ret" /\ sink' = sink /\ count' = count
      BY <2>1 DEF Return
    <3> QED BY <3>1
  <2>2. CASE ok /\ after = "recv" /\ sink' = 0 /\ count' = 0 /\ xpc' = "recv"
    BY <2>2
  <2>3. CASE ok /\ after = "end" /\ sink' = 0 /\ count' = 0 /\ Return("nil")
    BY <2>3 DEF Return
  <2> QED BY <2>1, <2>2, <2>3 DEF Closed
<1>3. Typed'
  BY <1>2 DEF Typed
<1>4. SentOnce' /\ Place'
  BY <1>1, <1>2 DEF SentOnce, Place
<1>5. SessionsInTurn'
  BY DEF SessionsInTurn
<1>6. xpc' = "recv" => \A s \in 1..opened : limit > 0 /\ Full(s)'
  <2> SUFFICES ASSUME xpc' = "recv", NEW s \in 1..opened PROVE limit > 0 /\ Full(s)'
    OBVIOUS
  <2>1. ok /\ limit > 0 /\ count = limit /\ count = Len(put[sink])
    BY <1>2 DEF Filling, Place
  <2>2. CASE s = sink
    BY <2>1, <2>2 DEF Full
  <2>3. CASE s # sink
    BY <2>1, <2>3, <1>1 DEF Full, SessionsInTurn, Typed
  <2> QED BY <2>1, <2>2, <2>3
<1>7. Filling'
  BY <1>1, <1>2, <1>6 DEF Filling
<1> QED BY <1>3, <1>4, <1>5, <1>7

\* A new session is the entry's own: there are never more than entries.
LEMMA OpenKeeps == BatchInv /\ Open => BatchInv'
<1> SUFFICES ASSUME BatchInv, Open PROVE BatchInv'
  OBVIOUS
<1> USE DEF BatchInv
<1> DEFINE n == opened + 1
<1>1. /\ sink' = n /\ opened' = n /\ xpc = "open" /\ xpc' = "write"
      /\ sess' = sess \/ sess' = [sess EXCEPT ![n] = Started]
      /\ UNCHANGED <<entriesCh, handed, kind, limit, cur, total, count, after, put>>
  BY DEF Open
<1>2. n \in Sessions /\ 1..opened \subseteq Sessions /\ opened \in Nat
  BY <1>1, Bounded DEF Typed
<1>3. Started \in SessionState
  <2>1. <<>> \in Seq(Urls)
    OBVIOUS
  <2>2. NoProcess \in SessionState
    BY <2>1 DEF NoProcess, SessionState
  <2> QED BY <2>2 DEF Started, SessionState
<1>4. sess \in [Sessions -> SessionState] /\ sess' \in [Sessions -> SessionState]
  BY <1>1, <1>2, <1>3 DEF Typed
<1>5. \A t \in Sessions : t # n => sess'[t] = sess[t]
  BY <1>1, <1>4
<1>6. Typed'
  BY <1>1, <1>2, <1>4 DEF Typed
<1>7. SentOnce' /\ Place'
  BY <1>1, <1>2 DEF SentOnce, Place
<1>8. put[n] = <<>> /\ sink = 0 /\ count = 0 /\ \A s \in 1..opened : limit > 0 /\ Full(s)
  BY <1>1, <1>2 DEF Filling, Place
<1>9. SessionsInTurn'
  <2>1. limit > 0 => \A s \in 1..n : Len(put[s]) <= limit
    <3>1. limit \in Nat /\ Len(put[n]) = 0
      BY <1>8 DEF Typed
    <3>2. limit > 0 => \A s \in 1..opened : Len(put[s]) <= limit
      BY DEF SessionsInTurn
    <3>3. \A s \in 1..n : s \in 1..opened \/ s = n
      BY <1>2
    <3> QED BY <3>1, <3>2, <3>3
  <2>2. \A s \in 1..n : s < n => s \in 1..opened /\ s # n
    BY <1>2
  <2>3. n > 1 => limit > 0 /\ limit = SessionSize
    BY <1>2, <1>8 DEF Filling
  <2> QED BY <1>1, <1>2, <1>5, <1>8, <2>1, <2>2, <2>3 DEF SessionsInTurn, Full
<1>10. \A s \in Sessions : s > n => put'[s] = <<>> /\ sess'[s] = NoProcess
  BY <1>1, <1>2, <1>5 DEF Filling, Sessions
<1>11. Filling'
  BY <1>1, <1>2, <1>8, <1>10 DEF Filling, Typed
<1> QED BY <1>6, <1>7, <1>9, <1>11

\* The steps that receive an entry, skip it, or give up, open or fill no session.
LEMMA OtherKeeps ==
  BatchInv /\ (ResolveLimit \/ Receive \/ OpenFailed \/ SkipMalformed \/ WriteFileFailed \/ Ended)
    => BatchInv'
<1> SUFFICES ASSUME BatchInv,
                    ResolveLimit \/ Receive \/ OpenFailed \/ SkipMalformed \/ WriteFileFailed \/ Ended
             PROVE  BatchInv'
  OBVIOUS
<1> USE DEF BatchInv
<1>1. CASE ResolveLimit
  <2>1. /\ xpc = "limit" /\ xpc' = "recv" /\ limit' \in Nat /\ limit' \in {0, SessionSize}
        /\ UNCHANGED <<entriesCh, handed, kind, cur, sink, opened, total, count, after, put, sess>>
    BY <1>1, BatchAssumption DEF ResolveLimit, LimitIf
  <2>2. opened = 0 /\ sink = 0
    BY <2>1 DEF Place
  <2>3. Typed'
    BY <2>1 DEF Typed
  <2>4. SentOnce' /\ Place'
    BY <2>1, <2>2 DEF SentOnce, Place, Typed
  <2>5. SessionsInTurn'
    BY <2>1, <2>2 DEF SessionsInTurn
  <2>6. Filling'
    BY <2>1, <2>2 DEF Filling, Typed
  <2> QED BY <2>3, <2>4, <2>5, <2>6
<1>2. CASE Receive
  <2> DEFINE e == Head(entriesCh)
  <2>1. /\ xpc = "recv" /\ entriesCh # <<>> /\ cur' = <<e>> /\ entriesCh' = Tail(entriesCh)
        /\ handed' = Append(handed, e)
        /\ xpc' \in {"open", "write"} /\ (xpc' = "open" <=> sink = 0)
        /\ UNCHANGED <<kind, limit, sink, opened, total, count, after, put, sess>>
    BY <1>2 DEF Receive, ReceiveEntry
  <2>2. entriesCh \in Seq(Urls) /\ handed \in Seq(Urls)
    BY DEF Typed
  <2>3. e \in Urls /\ e = entriesCh[1] /\ Len(entriesCh) \in Nat \ {0}
    BY <2>1, <2>2
  <2>4. /\ entriesCh' \in Seq(Urls) /\ Len(entriesCh') = Len(entriesCh) - 1
        /\ \A i \in 1..Len(entriesCh') : entriesCh'[i] = entriesCh[i + 1] /\ i + 1 \in 1..Len(entriesCh)
    BY <2>1, <2>2, <2>3
  <2>5. /\ handed' \in Seq(Urls) /\ Len(handed') = Len(handed) + 1
        /\ handed'[Len(handed) + 1] = e
        /\ \A i \in 1..Len(handed) : handed'[i] = handed[i]
        /\ \A i \in 1..Len(handed') : i \in 1..Len(handed) \/ i = Len(handed) + 1
    BY <2>1, <2>2, <2>3
  <2>6. cur' \in Seq(Urls) /\ Len(cur') = 1
    BY <2>1, <2>3
  <2>7. Typed'
    BY <2>1, <2>4, <2>5, <2>6 DEF Typed
  <2>8. SentOnce'
    <3>1. \A i, j \in 1..Len(entriesCh') : entriesCh'[i] = entriesCh'[j] => i = j
      BY <2>3, <2>4 DEF SentOnce
    <3>2. \A i \in 1..Len(entriesCh') : entriesCh'[i] # e
      BY <2>3, <2>4 DEF SentOnce
    <3>3. \A i \in 1..Len(handed) : handed[i] # e
      BY <2>3 DEF SentOnce
    <3>4. \A i, j \in 1..Len(handed') : handed'[i] = handed'[j] => i = j
      BY <2>5, <3>3 DEF SentOnce
    <3>5. \A i \in 1..Len(handed'), j \in 1..Len(entriesCh') : handed'[i] # entriesCh'[j]
      BY <2>4, <2>5, <3>2 DEF SentOnce
    <3> QED BY <3>1, <3>4, <3>5 DEF SentOnce
  <2>9. Place'
    BY <2>1, <2>2, <2>5, <2>6 DEF Place, Typed
  <2>10. Filling' /\ SessionsInTurn'
    BY <2>1 DEF Filling, Full, SessionsInTurn
  <2> QED BY <2>7, <2>8, <2>9, <2>10
<1>3. CASE OpenFailed \/ SkipMalformed \/ WriteFileFailed \/ Ended
  <2>1. /\ UNCHANGED <<entriesCh, handed, kind, limit, sink, opened, total, count, put, sess>>
        /\ cur' = cur \/ cur' = <<>>
        /\ \/ xpc' = "ret" /\ after' = after
           \/ xpc = "write" /\ xpc' = "recv" /\ after' = after
           \/ xpc = "write" /\ xpc' = "close" /\ after' = "fail"
           \/ sink # 0 /\ xpc' = "close" /\ after' = "end"
    BY <1>3 DEF OpenFailed, SkipMalformed, WriteFileFailed, Ended, Return
  <2>2. Typed'
    <3>1. cur' \in Seq(Urls)
      <4>1. <<>> \in Seq(Urls)
        OBVIOUS
      <4> QED BY <2>1, <4>1 DEF Typed
    <3>2. /\ xpc' \in {"limit", "recv", "open", "write", "close", "wait", "ret"}
          /\ after' \in {"recv", "end", "fail"}
      <4>1. after \in {"recv", "end", "fail"}
        BY DEF Typed
      <4>2. xpc' \in {"ret", "recv", "close"} /\ after' \in {after, "fail", "end"}
        BY <2>1
      <4> QED BY <4>1, <4>2
    <3>3. total' = total
      BY <1>3 DEF OpenFailed, SkipMalformed, WriteFileFailed, Ended
    <3> QED BY <2>1, <3>1, <3>2, <3>3 DEF Typed
  <2>3. SentOnce' /\ Place'
    BY <2>1 DEF SentOnce, Place
  <2>4. Filling' /\ SessionsInTurn'
    BY <2>1 DEF Filling, Place, Full, SessionsInTurn
  <2> QED BY <2>2, <2>3, <2>4
<1> QED BY <1>1, <1>2, <1>3

\* One case for each step of ExecuteBatchDownload.
LEMMA ExecutorKeeps == BatchInv /\ ExecutorStep => BatchInv'
<1> SUFFICES ASSUME BatchInv, ExecutorStep PROVE BatchInv'
  OBVIOUS
<1>0. Typed
  BY DEF BatchInv
<1>1. CASE WritePipe
  <2>1. xpc = "write" /\ Written /\ Elsewhere /\ sink' = sink
    BY <1>1 DEF WritePipe, Elsewhere
  <2>2. sess[sink].pipe = "read" /\ sess' = [sess EXCEPT ![sink].pipe = "hold", ![sink].held = cur]
    BY <1>1 DEF WritePipe
  <2>3. sess \in [Sessions -> SessionState] /\ cur \in Seq(Urls)
    BY <1>0 DEF Typed
  <2>4. sink \in Sessions
    BY <2>1, OpenSession DEF BatchInv, Place
  <2>5. [sess[sink] EXCEPT !.pipe = "hold", !.held = cur] \in SessionState
    BY <2>3, <2>4 DEF SessionState
  <2>6. sess' \in [Sessions -> SessionState]
    BY <2>2, <2>3, <2>5
  <2>7. \A s \in Sessions : sess'[s].proc = sess[s].proc /\ (s # sink => sess'[s] = sess[s])
    BY <2>2, <2>3, <2>4 DEF SessionState
  <2> QED BY <2>1, <2>6, <2>7, WrittenKeeps
<1>2. CASE WriteFile \/ WriteNowhere
  <2>1. xpc = "write" /\ Written /\ Elsewhere /\ sink' = sink /\ sess' = sess
    BY <1>2 DEF WriteFile, WriteNowhere, Elsewhere
  <2>2. sess' \in [Sessions -> SessionState]
    BY <1>0, <2>1 DEF Typed
  <2> QED BY <2>1, <2>2, WrittenKeeps
<1>3. CASE Wait
  <2>1. /\ xpc \in {"close", "wait"} /\ Closed(sess[sink].proc = "ok") /\ Elsewhere
        /\ UNCHANGED <<cur, total, after, put, sess>>
    BY <1>3 DEF Wait, Elsewhere
  <2> DEFINE ok == sess[sink].proc = "ok"
  <2>2. ok \in BOOLEAN /\ Closed(ok) /\ (ok /\ kind = "aria2" => sess[sink].proc = "ok")
    BY <2>1
  <2> HIDE DEF ok
  <2> QED BY <2>1, <2>2, ClosedKeeps
<1>4. CASE CloseFile \/ CloseNothing
  <2>1. /\ xpc \in {"close", "wait"} /\ Elsewhere /\ kind # "aria2"
        /\ UNCHANGED <<cur, total, after, put, sess>>
        /\ Closed(TRUE) \/ Closed(FALSE)
    BY <1>4 DEF CloseFile, CloseNothing, Elsewhere
  <2> QED BY <2>1, ClosedKeeps
<1>5. CASE ClosePipe
  <2>1. /\ xpc = "close" /\ xpc' = "wait"
        /\ sess' = [sess EXCEPT ![sink].closed = TRUE]
        /\ UNCHANGED <<entriesCh, handed, kind, limit, cur, sink, opened, total, count, after, put>>
    BY <1>5 DEF ClosePipe
  <2>2. sess \in [Sessions -> SessionState] /\ sink \in Sessions /\ sink = opened /\ 1..opened \subseteq Sessions
    <3>1. sink # 0
      BY <2>1 DEF BatchInv, Place
    <3> QED BY <1>0, <3>1, OpenSession DEF Typed
  <2>3. [sess[sink] EXCEPT !.closed = TRUE] \in SessionState
    BY <2>2 DEF SessionState
  <2>4. sess' \in [Sessions -> SessionState]
    BY <2>1, <2>2, <2>3
  <2>5. \A s \in Sessions : sess'[s].proc = sess[s].proc /\ (s # sink => sess'[s] = sess[s])
    BY <2>1, <2>2 DEF SessionState
  <2>6. Typed'
    BY <1>0, <2>1, <2>4 DEF Typed
  <2>7. SentOnce' /\ Place'
    BY <2>1 DEF BatchInv, SentOnce, Place
  <2>8. Filling' /\ SessionsInTurn'
    <3>1. \A s \in Sessions : s > opened => put'[s] = <<>> /\ sess'[s] = NoProcess
      BY <1>0, <2>1, <2>2, <2>5 DEF BatchInv, Filling, Typed, Sessions
    <3>2. sink # 0
      BY <2>1 DEF BatchInv, Place
    <3> QED BY <2>1, <2>2, <2>5, <3>1, <3>2 DEF BatchInv, Filling, SessionsInTurn
  <2> QED BY <2>6, <2>7, <2>8 DEF BatchInv
<1> QED BY <1>1, <1>2, <1>3, <1>4, <1>5, OpenKeeps, OtherKeeps DEF ExecutorStep

\* The positions, counters and sessions stay as BatchInv says.
LEMMA NextKeeps == BatchInv /\ [BatchNext]_batchVars => BatchInv'
<1> SUFFICES ASSUME BatchInv, [BatchNext]_batchVars PROVE BatchInv'
  OBVIOUS
<1>1. CASE ExecutorStep
  BY <1>1, ExecutorKeeps
<1>2. CASE \E s \in Sessions : SessionStep(s) \/ AriaDies(s)
  <2>1. sess \in [Sessions -> SessionState]
    BY DEF BatchInv, Typed
  <2> QED BY <1>2, <2>1, SessionMoves, SessionKeeps
<1>3. CASE Produce \/ CloseCh \/ Cancel \/ UNCHANGED batchVars
  BY <1>3, OutsideKeeps
<1> QED BY <1>1, <1>2, <1>3 DEF BatchNext, BatchStep, BatchEnded

-----------------------------------------------------------------------------
(* The pipe.                                                               *)

\* A session with record q, of which p was accepted: the copying goroutine has nothing
\* unless it writes, a process that ended well has read everything, and until it fails
\* nothing is lost on the way.
Lossless(q, p) ==
  /\ q.pipe # "hold" => q.held = <<>>
  /\ q.proc = "ok" => q.pipe = "end" /\ q.stdin = <<>>
  /\ q.proc \in {"run", "ok"} => q.fed \o q.stdin \o q.held = p

PipeInv ==
  /\ \A s \in Sessions : Lossless(sess[s], put[s])
  /\ kind # "aria2" => \A s \in Sessions : sess[s] = NoProcess

\* An entry that moves along the pipe keeps its place among the others.
LEMMA Moved ==
  ASSUME NEW f \in Seq(Urls), NEW i \in Seq(Urls), NEW h \in Seq(Urls)
  PROVE  /\ f \o (i \o h) \o <<>> = f \o i \o h
         /\ i # <<>> => Append(f, Head(i)) \o Tail(i) = f \o i
         /\ \A e \in Urls : f \o i \o <<e>> = Append(f \o i \o <<>>, e)
<1>1. f \o i \in Seq(Urls) /\ i \o h \in Seq(Urls)
  BY ConcatProperties
<1>2. f \o (i \o h) = f \o i \o h /\ f \o i \o h \in Seq(Urls)
  BY <1>1, ConcatAssociative, ConcatProperties
<1>3. i # <<>> => Append(f, Head(i)) \o Tail(i) = f \o i
  <2> SUFFICES ASSUME i # <<>> PROVE Append(f, Head(i)) \o Tail(i) = f \o i
    OBVIOUS
  <2>1. Head(i) \in Urls /\ Tail(i) \in Seq(Urls)
    BY HeadTailProperties
  <2>2. Append(f, Head(i)) = f \o <<Head(i)>> /\ <<Head(i)>> \in Seq(Urls)
    BY <2>1, AppendIsConcat
  <2>3. <<Head(i)>> \o Tail(i) = i
    BY <2>1
  <2> QED BY <2>1, <2>2, <2>3, ConcatAssociative
<1>4. f \o i \o <<>> = f \o i
  BY <1>1, ConcatEmptySeq
<1> QED BY <1>1, <1>2, <1>3, <1>4, ConcatEmptySeq, AppendIsConcat

\* The copying goroutine and aria2c lose nothing, as long as aria2c lives.
LEMMA SessionLossless ==
  ASSUME BatchInv, PipeInv, NEW s \in Sessions, SessionStep(s) \/ AriaDies(s)
  PROVE  PipeInv'
<1> DEFINE q == sess[s]
<1>1. sess \in [Sessions -> SessionState] /\ q \in SessionState
  BY DEF BatchInv, Typed
<1>2. put' = put /\ kind' = kind /\ q # NoProcess
      /\ \E r \in SessionState : sess' = [sess EXCEPT ![s] = r]
  BY <1>1, SessionMoves DEF Moves, SessionOnly, executorVars
<1>3. \A t \in Sessions : t # s => sess'[t] = sess[t]
  BY <1>1, <1>2
<1>4. Lossless(q, put[s])
  BY DEF PipeInv
<1>5. q.fed \in Seq(Urls) /\ q.stdin \in Seq(Urls) /\ q.held \in Seq(Urls)
  BY <1>1 DEF SessionState
<1>6. /\ q.fed \o (q.stdin \o q.held) \o <<>> = q.fed \o q.stdin \o q.held
      /\ q.stdin # <<>> => Append(q.fed, Head(q.stdin)) \o Tail(q.stdin) = q.fed \o q.stdin
  BY <1>5, Moved
<1>7. SUFFICES Lossless(sess'[s], put[s])
  BY <1>2, <1>3 DEF PipeInv
<1>8. CASE CopyOut(s)
  <2>1. CASE q.proc = "run" /\ sess' = [sess EXCEPT ![s].pipe = "read", ![s].held = <<>>,
                                                   ![s].stdin = @ \o sess[s].held]
    <3> DEFINE r == [q EXCEPT !.pipe = "read", !.held = <<>>, !.stdin = q.stdin \o q.held]
    <3>1. sess'[s] = r
      BY <1>1, <2>1
    <3>2. r.proc = "run" /\ r.held = <<>> /\ r.stdin = q.stdin \o q.held /\ r.fed = q.fed
      BY <1>1, <2>1 DEF SessionState
    <3> HIDE DEF r
    <3> QED BY <1>4, <1>6, <2>1, <3>1, <3>2 DEF Lossless
  <2>2. CASE q.proc # "run" /\ sess' = [sess EXCEPT ![s].pipe = "end", ![s].held = <<>>]
    <3> DEFINE r == [q EXCEPT !.pipe = "end", !.held = <<>>]
    <3>1. sess'[s] = r
      BY <1>1, <2>2
    <3>2. r.proc = q.proc /\ r.held = <<>> /\ r.stdin = q.stdin /\ r.fed = q.fed /\ r.pipe = "end"
      BY <1>1 DEF SessionState
    <3>3. q.pipe = "hold"
      BY <1>8 DEF CopyOut
    <3> HIDE DEF r
    <3> QED BY <1>4, <2>2, <3>1, <3>2, <3>3 DEF Lossless
  <2> QED BY <1>8, <2>1, <2>2 DEF CopyOut
<1>9. CASE CopyEOF(s)
  <2> DEFINE r == [q EXCEPT !.pipe = "end"]
  <2>1. q.pipe = "read" /\ sess'[s] = r
    BY <1>1, <1>9 DEF CopyEOF
  <2>2. r.proc = q.proc /\ r.held = q.held /\ r.stdin = q.stdin /\ r.fed = q.fed /\ r.pipe = "end"
    BY <1>1 DEF SessionState
  <2> HIDE DEF r
  <2> QED BY <1>4, <2>1, <2>2 DEF Lossless
<1>10. CASE AriaRead(s)
  <2> DEFINE r == [q EXCEPT !.stdin = Tail(q.stdin), !.fed = Append(q.fed, Head(q.stdin))]
  <2>1. q.proc = "run" /\ q.stdin # <<>> /\ sess'[s] = r
    BY <1>1, <1>10 DEF AriaRead
  <2>2. /\ r.proc = "run" /\ r.held = q.held /\ r.pipe = q.pipe
        /\ r.stdin = Tail(q.stdin) /\ r.fed = Append(q.fed, Head(q.stdin))
    BY <1>1, <2>1 DEF SessionState
  <2> HIDE DEF r
  <2>3. r.fed \o r.stdin = q.fed \o q.stdin
    BY <1>6, <2>1, <2>2
  <2> QED BY <1>4, <2>1, <2>2, <2>3 DEF Lossless
<1>11. CASE AriaExit(s)
  <2>1. PICK x \in {"ok", "failed"} : sess'[s] = [q EXCEPT !.proc = x]
    BY <1>1, <1>11 DEF AriaExit
  <2> DEFINE r == [q EXCEPT !.proc = x]
  <2>2. r.proc = x /\ r.held = q.held /\ r.stdin = q.stdin /\ r.fed = q.fed /\ r.pipe = q.pipe
    BY <1>1 DEF SessionState
  <2>3. q.proc = "run" /\ q.pipe = "end" /\ q.stdin = <<>>
    BY <1>11 DEF AriaExit
  <2>4. sess'[s] = r
    BY <2>1
  <2> HIDE DEF r
  <2> QED BY <1>4, <2>2, <2>3, <2>4 DEF Lossless
<1>12. CASE AriaDies(s) \/ Kill(s)
  <2>1. PICK x \in {"failed", "killed"} : sess'[s] = [q EXCEPT !.proc = x]
    BY <1>1, <1>12 DEF AriaDies, Kill
  <2> DEFINE r == [q EXCEPT !.proc = x]
  <2>2. r.proc = x /\ r.held = q.held /\ r.pipe = q.pipe
    BY <1>1 DEF SessionState
  <2>3. sess'[s] = r
    BY <2>1
  <2> HIDE DEF r
  <2> QED BY <1>4, <2>2, <2>3 DEF Lossless
<1>13. CASE Reap(s)
  <2> DEFINE r == [q EXCEPT !.waited = TRUE]
  <2>1. sess'[s] = r
    BY <1>1, <1>13 DEF Reap
  <2>2. r.proc = q.proc /\ r.held = q.held /\ r.stdin = q.stdin /\ r.fed = q.fed /\ r.pipe = q.pipe
    BY <1>1 DEF SessionState
  <2> HIDE DEF r
  <2> QED BY <1>4, <2>1, <2>2 DEF Lossless
<1> QED BY <1>8, <1>9, <1>10, <1>11, <1>12, <1>13 DEF SessionStep

\* Write puts an entry into the pipe of the open session, the other steps none.
LEMMA ExecutorLossless ==
  ASSUME BatchInv, PipeInv, ExecutorStep
  PROVE  PipeInv'
<1>1. sess \in [Sessions -> SessionState] /\ put \in [Sessions -> Seq(Urls)]
  BY DEF BatchInv, Typed
<1>2. kind' = kind
  BY DEF ExecutorStep, ResolveLimit, Receive, OpenFailed, Open, SkipMalformed, WritePipe, WriteFile,
         WriteFileFailed, WriteNowhere, Ended, ClosePipe, Wait, CloseFile, CloseNothing, ReceiveEntry
<1>3. CASE WritePipe
  <2> DEFINE q == sess[sink]
             r == [q EXCEPT !.pipe = "hold", !.held = cur]
  <2>1. /\ kind = "aria2" /\ q.pipe = "read" /\ sess' = [sess EXCEPT ![sink] = r]
        /\ put' = [put EXCEPT ![sink] = Append(put[sink], cur[1])]
    BY <1>3 DEF WritePipe, Written
  <2>2. sink \in Sessions
    <3>1. sink # 0
      BY <1>3 DEF WritePipe, BatchInv, Place
    <3> QED BY <3>1, OpenSession
  <2>3. q \in SessionState /\ cur \in Seq(Urls) /\ Len(cur) = 1
    BY <1>1, <1>3, <2>2 DEF WritePipe, BatchInv, Typed, Place
  <2>4. q.fed \in Seq(Urls) /\ q.stdin \in Seq(Urls)
    BY <2>3 DEF SessionState
  <2>5. cur[1] \in Urls /\ cur = <<cur[1]>>
    <3>1. cur \in [1..Len(cur) -> Urls]
      BY <2>3
    <3> QED BY <2>3, <3>1
  <2>6. q.fed \o q.stdin \o <<cur[1]>> = Append(q.fed \o q.stdin \o <<>>, cur[1])
    BY <2>4, <2>5, Moved
  <2>7. r.proc = q.proc /\ r.held = cur /\ r.stdin = q.stdin /\ r.fed = q.fed /\ r.pipe = "hold"
    BY <2>3 DEF SessionState
  <2>8. sess'[sink] = r /\ put'[sink] = Append(put[sink], cur[1])
    BY <1>1, <2>1, <2>2
  <2>9. Lossless(q, put[sink])
    BY <2>2 DEF PipeInv
  <2> HIDE DEF r
  <2>10. Lossless(sess'[sink], put'[sink])
    BY <2>1, <2>5, <2>6, <2>7, <2>8, <2>9 DEF Lossless
  <2>11. \A t \in Sessions : t # sink => sess'[t] = sess[t] /\ put'[t] = put[t]
    BY <1>1, <2>1
  <2> QED BY <1>2, <2>1, <2>10, <2>11 DEF PipeInv
<1>4. CASE ClosePipe
  <2> DEFINE q == sess[sink]
             r == [q EXCEPT !.closed = TRUE]
  <2>1. kind = "aria2" /\ sess' = [sess EXCEPT ![sink] = r] /\ put' = put
    BY <1>4 DEF ClosePipe
  <2>2. sink \in Sessions
    <3>1. sink # 0
      BY <1>4 DEF ClosePipe, BatchInv, Place
    <3> QED BY <3>1, OpenSession
  <2>3. r.proc = q.proc /\ r.held = q.held /\ r.stdin = q.stdin /\ r.fed = q.fed /\ r.pipe = q.pipe
    BY <1>1, <2>2 DEF SessionState
  <2>4. sess'[sink] = r /\ \A t \in Sessions : t # sink => sess'[t] = sess[t]
    BY <1>1, <2>1, <2>2
  <2> HIDE DEF r
  <2>5. Lossless(sess'[sink], put[sink])
    BY <2>2, <2>3, <2>4 DEF PipeInv, Lossless
  <2> QED BY <1>2, <2>1, <2>4, <2>5 DEF PipeInv
<1>5. CASE Open
  <2> DEFINE n == opened + 1
  <2>1. put' = put /\ n \in Sessions /\ put[n] = <<>>
    BY <1>5, Bounded DEF Open, BatchInv, Filling, Typed
  <2>2. CASE kind = "aria2"
    <3>1. sess' = [sess EXCEPT ![n] = Started]
      BY <1>5, <2>2 DEF Open
    <3>2. sess'[n] = Started /\ \A t \in Sessions : t # n => sess'[t] = sess[t]
      BY <1>1, <2>1, <3>1
    <3>3. /\ Started.pipe = "read" /\ Started.proc = "run"
          /\ Started.fed = <<>> /\ Started.stdin = <<>> /\ Started.held = <<>>
      BY DEF Started, NoProcess
    <3>4. <<>> \o <<>> \o <<>> = <<>>
      BY ConcatEmptySeq, EmptySeq
    <3>5. Lossless(Started, <<>>)
      BY <3>3, <3>4 DEF Lossless
    <3> QED BY <1>2, <2>1, <2>2, <3>2, <3>5 DEF PipeInv
  <2>3. CASE kind # "aria2"
    <3>1. sess' = sess
      BY <1>5, <2>3 DEF Open
    <3> QED BY <1>2, <2>1, <3>1 DEF PipeInv
  <2> QED BY <2>2, <2>3
<1>6. CASE WriteFile \/ WriteNowhere
  <2>1. kind # "aria2" /\ sess' = sess
    BY <1>6 DEF WriteFile, WriteNowhere
  <2>2. \A s \in Sessions : sess'[s] = NoProcess
    BY <2>1 DEF PipeInv
  <2>3. ASSUME NEW p PROVE Lossless(NoProcess, p)
    BY DEF Lossless, NoProcess
  <2> QED BY <1>2, <2>1, <2>2, <2>3 DEF PipeInv
<1>7. CASE \/ ResolveLimit \/ Receive \/ OpenFailed \/ SkipMalformed \/ WriteFileFailed
           \/ Ended \/ Wait \/ CloseFile \/ CloseNothing
  <2>1. UNCHANGED <<put, sess>>
    BY <1>7 DEF ResolveLimit, Receive, OpenFailed, SkipMalformed, WriteFileFailed, Ended, Wait,
                CloseFile, CloseNothing, ReceiveEntry
  <2> QED BY <1>2, <2>1 DEF PipeInv
<1> QED BY <1>3, <1>4, <1>5, <1>6, <1>7 DEF ExecutorStep

\* At the start there is nothing in any pipe.
LEMMA InitPipe == BatchInit => PipeInv
<1> SUFFICES ASSUME BatchInit PROVE PipeInv
  OBVIOUS
<1>1. \A s \in Sessions : sess[s] = NoProcess
  BY DEF BatchInit, ChannelInit
<1>2. ASSUME NEW p PROVE Lossless(NoProcess, p)
  BY DEF Lossless, NoProcess
<1> QED BY <1>1, <1>2 DEF PipeInv

\* The invariant of the pipes is inductive over that of the executor.
LEMMA PipeKeeps == BatchInv /\ PipeInv /\ [BatchNext]_batchVars => PipeInv'
<1> SUFFICES ASSUME BatchInv, PipeInv, [BatchNext]_batchVars PROVE PipeInv'
  OBVIOUS
<1>1. CASE ExecutorStep
  BY <1>1, ExecutorLossless
<1>2. CASE \E s \in Sessions : SessionStep(s) \/ AriaDies(s)
  BY <1>2, SessionLossless
<1>3. CASE Produce \/ CloseCh \/ Cancel \/ UNCHANGED batchVars
  <2>1. UNCHANGED <<put, sess, kind>>
    BY <1>3 DEF Produce, CloseCh, Cancel, batchVars, executorVars, SendEntry
  <2> QED BY <2>1 DEF PipeInv
<1> QED BY <1>1, <1>2, <1>3 DEF BatchNext, BatchStep, BatchEnded

-----------------------------------------------------------------------------
(* Writable and Flat, by their recursion equations.                        *)

\* Writable looks at one entry after the other.
LEMMA WritableSteps ==
  ASSUME NEW s \in Seq(Urls)
  PROVE  \E g \in [0..Len(s) -> Seq(Urls)] :
            /\ Writable(s) = g[Len(s)]
            /\ g[0] = <<>>
            /\ \A n \in 1..Len(s) : g[n] = IF Good(s[n]) THEN Append(g[n-1], s[n]) ELSE g[n-1]
<1> DEFINE N == Len(s)
           St == [x \in Seq(Urls) \X (1..N) |-> IF Good(s[x[2]]) THEN Append(x[1], s[x[2]]) ELSE x[1]]
           good == CHOOSE h : h = [n \in 0..N |-> IF n = 0 THEN <<>>
                                    ELSE IF Good(s[n]) THEN Append(h[n-1], s[n]) ELSE h[n-1]]
<1>1. N \in Nat /\ <<>> \in Seq(Urls) /\ \A i \in 1..N : s[i] \in Urls
  OBVIOUS
<1>2. St \in Steps(N, Seq(Urls))
  <2> SUFFICES ASSUME NEW q \in Seq(Urls), NEW i \in 1..N
               PROVE  (IF Good(s[i]) THEN Append(q, s[i]) ELSE q) \in Seq(Urls)
    BY DEF Steps
  <2>1. s[i] \in Urls
    BY <1>1
  <2> QED BY <2>1, AppendProperties
<1>3. PICK g \in Maps(N, Seq(Urls)) : g[0] = <<>> /\ \A n \in 1..N : g[n] = St[<<g[n-1], n>>]
  <2> DEFINE V == Seq(Urls)
             b == <<>>
  <2>1. N \in Nat /\ b \in V /\ St \in Steps(N, V)
    BY <1>1, <1>2
  <2>2. \E g \in Maps(N, V) : g[0] = b /\ \A n \in 1..N : g[n] = St[<<g[n-1], n>>]
    <3> HIDE DEF St, N, V, b
    <3> QED BY <2>1, RecursionExists
  <2> QED BY <2>2
<1>4. ASSUME NEW n \in 1..N PROVE g[n] = IF Good(s[n]) THEN Append(g[n-1], s[n]) ELSE g[n-1]
  <2>1. g[n-1] \in Seq(Urls) /\ g[n] = St[<<g[n-1], n>>]
    <3> HIDE DEF St, N
    <3> QED BY <1>1, <1>3 DEF Maps
  <2> QED BY <2>1
<1>5. g = [n \in 0..N |-> IF n = 0 THEN <<>> ELSE IF Good(s[n]) THEN Append(g[n-1], s[n]) ELSE g[n-1]]
  <2> HIDE DEF N, St
  <2>1. g \in [0..N -> Seq(Urls)] /\ g[0] = <<>>
    BY <1>3 DEF Maps
  <2>2. ASSUME NEW n \in 0..N
        PROVE  g[n] = IF n = 0 THEN <<>> ELSE IF Good(s[n]) THEN Append(g[n-1], s[n]) ELSE g[n-1]
    <3>1. n = 0 \/ n \in 1..N
      BY <1>1
    <3> QED BY <1>4, <2>1, <3>1
  <2> QED BY <2>1, <2>2
<1>6. good = [n \in 0..N |-> IF n = 0 THEN <<>> ELSE IF Good(s[n]) THEN Append(good[n-1], s[n]) ELSE good[n-1]]
  BY <1>5
<1>7. good[0] = <<>> /\ \A n \in 1..N : good[n] = IF Good(s[n]) THEN Append(good[n-1], s[n]) ELSE good[n-1]
  <2> HIDE DEF good, N
  <2>1. 0 \in 0..N /\ \A n \in 1..N : n \in 0..N /\ n # 0
    BY <1>1
  <2>2. \A n \in 0..N : good[n] = IF n = 0 THEN <<>>
                                 ELSE IF Good(s[n]) THEN Append(good[n-1], s[n]) ELSE good[n-1]
    BY <1>6
  <2> QED BY <2>1, <2>2
<1>8. good[N] = g[N]
  <2>1. \A n \in 0..N : good[n] = g[n]
    <3> HIDE DEF good, N, St
    <3>1. good[0] = g[0] /\ \A n \in 1..N : good[n-1] = g[n-1] => good[n] = g[n]
      BY <1>3, <1>4, <1>7
    <3> QED BY <1>1, <3>1, SameSteps
  <2> HIDE DEF good, N, St
  <2> QED BY <1>1, <2>1
<1>9. Writable(s) = good[N]
  BY DEF Writable
<1> HIDE DEF good, St
<1> QED BY <1>3, <1>4, <1>8, <1>9 DEF Maps

\* Writable goes along with the sequence.
LEMMA WritableAppend ==
  ASSUME NEW s \in Seq(Urls), NEW e \in Urls
  PROVE  /\ Writable(<<>>) = <<>>
         /\ Writable(s) \in Seq(Urls)
         /\ Writable(Append(s, e)) = IF Good(e) THEN Append(Writable(s), e) ELSE Writable(s)
         /\ Writable(<<e>>) = IF Good(e) THEN <<e>> ELSE <<>>
<1>1. ASSUME NEW t \in Seq(Urls)
      PROVE  /\ Writable(t) \in Seq(Urls)
             /\ Writable(Append(t, e)) = IF Good(e) THEN Append(Writable(t), e) ELSE Writable(t)
  <2> DEFINE u == Append(t, e)
             N == Len(t)
  <2>1. /\ u \in Seq(Urls) /\ N \in Nat /\ Len(u) = N + 1 /\ u[N + 1] = e
        /\ \A i \in 1..N : u[i] = t[i]
    BY AppendProperties
  <2>2. PICK g \in [0..N -> Seq(Urls)] :
            /\ Writable(t) = g[N] /\ g[0] = <<>>
            /\ \A n \in 1..N : g[n] = IF Good(t[n]) THEN Append(g[n-1], t[n]) ELSE g[n-1]
    BY WritableSteps
  <2>3. PICK h \in [0..(N + 1) -> Seq(Urls)] :
            /\ Writable(u) = h[N + 1] /\ h[0] = <<>>
            /\ \A n \in 1..(N + 1) : h[n] = IF Good(u[n]) THEN Append(h[n-1], u[n]) ELSE h[n-1]
    <3> HIDE DEF u, N
    <3>1. u \in Seq(Urls) /\ Len(u) = N + 1
      BY <2>1
    <3>2. \E h \in [0..Len(u) -> Seq(Urls)] :
            /\ Writable(u) = h[Len(u)] /\ h[0] = <<>>
            /\ \A n \in 1..Len(u) : h[n] = IF Good(u[n]) THEN Append(h[n-1], u[n]) ELSE h[n-1]
      BY <3>1, WritableSteps
    <3> QED BY <3>1, <3>2
  <2>4. \A n \in 0..N : g[n] = h[n]
    <3> HIDE DEF u, N
    <3>1. \A n \in 1..N : h[n] = IF Good(t[n]) THEN Append(h[n-1], t[n]) ELSE h[n-1]
      <4> SUFFICES ASSUME NEW n \in 1..N PROVE h[n] = IF Good(t[n]) THEN Append(h[n-1], t[n]) ELSE h[n-1]
        OBVIOUS
      <4>1. n \in 1..(N + 1) /\ u[n] = t[n]
        BY <2>1
      <4> QED BY <2>3, <4>1
    <3>2. \A n \in 1..N : g[n-1] = h[n-1] => g[n] = h[n]
      BY <2>2, <3>1
    <3>3. N \in Nat /\ g[0] = h[0]
      BY <2>1, <2>2, <2>3
    <3> DEFINE T == {n \in 0..N : g[n] = h[n]}
    <3>4. 0 \in T /\ \A n \in 1..N : n - 1 \in T => n \in T
      BY <3>2, <3>3
    <3>5. 0..N \subseteq T
      <4> HIDE DEF T
      <4> QED BY <3>3, <3>4, SetInduction
    <3> QED BY <3>5
  <2>5. h[N + 1] = IF Good(e) THEN Append(h[N], e) ELSE h[N]
    <3> HIDE DEF u, N
    <3>1. N + 1 \in 1..(N + 1) /\ (N + 1) - 1 = N
      BY <2>1
    <3> QED BY <2>1, <2>3, <3>1
  <2> HIDE DEF u, N
  <2> QED BY <2>1, <2>2, <2>3, <2>4, <2>5 DEF u
<1>2. <<>> \in Seq(Urls) /\ Append(<<>>, e) = <<e>>
  OBVIOUS
<1>3. Writable(<<>>) = <<>>
  <2>1. Len(<<>>) = 0
    OBVIOUS
  <2> QED BY <1>2, <2>1, WritableSteps
<1> QED BY <1>1, <1>2, <1>3

\* Flat joins one session after the other.
LEMMA FlatSteps ==
  ASSUME NEW f \in [Sessions -> Seq(Urls)]
  PROVE  /\ Cardinality(Urls) \in Nat
         /\ \E g \in [0..Cardinality(Urls) -> Seq(Urls)] :
              /\ Flat(f) = g[Cardinality(Urls)]
              /\ g[0] = <<>>
              /\ \A n \in Sessions : g[n] = g[n-1] \o f[n]
<1> DEFINE N == Cardinality(Urls)
           St == [x \in Seq(Urls) \X (1..N) |-> x[1] \o f[x[2]]]
           flat == CHOOSE h : h = [n \in 0..N |-> IF n = 0 THEN <<>> ELSE h[n-1] \o f[n]]
<1>1. N \in Nat /\ <<>> \in Seq(Urls) /\ f \in [1..N -> Seq(Urls)]
  BY ChannelAssumption, FS_CardinalityType DEF Sessions
<1>2. St \in Steps(N, Seq(Urls))
  <2> HIDE DEF N
  <2> SUFFICES ASSUME NEW q \in Seq(Urls), NEW i \in 1..N PROVE q \o f[i] \in Seq(Urls)
    BY DEF Steps
  <2>1. f[i] \in Seq(Urls)
    BY <1>1
  <2> QED BY <2>1, ConcatProperties
<1>3. PICK g \in Maps(N, Seq(Urls)) : g[0] = <<>> /\ \A n \in 1..N : g[n] = St[<<g[n-1], n>>]
  <2> DEFINE V == Seq(Urls)
             b == <<>>
  <2>1. N \in Nat /\ b \in V /\ St \in Steps(N, V)
    BY <1>1, <1>2
  <2>2. \E g \in Maps(N, V) : g[0] = b /\ \A n \in 1..N : g[n] = St[<<g[n-1], n>>]
    <3> HIDE DEF St, N, V, b
    <3> QED BY <2>1, RecursionExists
  <2> QED BY <2>2
<1>4. ASSUME NEW n \in 1..N PROVE g[n] = g[n-1] \o f[n]
  <2>1. g[n-1] \in Seq(Urls) /\ g[n] = St[<<g[n-1], n>>]
    <3> HIDE DEF St, N
    <3> QED BY <1>1, <1>3 DEF Maps
  <2> QED BY <2>1
<1>5. g = [n \in 0..N |-> IF n = 0 THEN <<>> ELSE g[n-1] \o f[n]]
  <2> HIDE DEF N, St
  <2>1. g \in [0..N -> Seq(Urls)] /\ g[0] = <<>>
    BY <1>3 DEF Maps
  <2>2. ASSUME NEW n \in 0..N
        PROVE  g[n] = IF n = 0 THEN <<>> ELSE g[n-1] \o f[n]
    <3>1. n = 0 \/ n \in 1..N
      BY <1>1
    <3> QED BY <1>4, <2>1, <3>1
  <2> QED BY <2>1, <2>2
<1>6. flat = [n \in 0..N |-> IF n = 0 THEN <<>> ELSE flat[n-1] \o f[n]]
  BY <1>5
<1>7. flat[0] = <<>> /\ \A n \in 1..N : flat[n] = flat[n-1] \o f[n]
  <2> HIDE DEF flat, N
  <2> QED BY <1>1, <1>6
<1>8. flat[N] = g[N]
  <2>1. \A n \in 0..N : flat[n] = g[n]
    <3> HIDE DEF flat, N, St
    <3>1. N \in Nat /\ flat[0] = g[0] /\ \A n \in 1..N : flat[n-1] = g[n-1] => flat[n] = g[n]
      BY <1>1, <1>3, <1>4, <1>7
    <3> QED BY <3>1, SameSteps
  <2> HIDE DEF flat, N, St
  <2> QED BY <1>1, <2>1
<1>9. Flat(f) = flat[N]
  BY DEF Flat
<1> HIDE DEF flat, St
<1> QED BY <1>1, <1>3, <1>4, <1>8, <1>9 DEF Sessions, Maps

\* An entry appended to the last sequence that is not empty ends up last.
LEMMA FlatAppend ==
  ASSUME NEW f \in [Sessions -> Seq(Urls)], NEW k \in Sessions, NEW e \in Urls,
         \A s \in Sessions : s > k => f[s] = <<>>
  PROVE  Flat([f EXCEPT ![k] = Append(f[k], e)]) = Append(Flat(f), e)
<1> DEFINE h == [f EXCEPT ![k] = Append(f[k], e)]
           N == Cardinality(Urls)
<1>1. /\ N \in Nat /\ Sessions = 1..N /\ k \in 1..N /\ f[k] \in Seq(Urls)
      /\ h \in [Sessions -> Seq(Urls)] /\ h[k] = Append(f[k], e)
      /\ \A s \in Sessions : s # k => h[s] = f[s]
  BY FlatSteps, AppendProperties DEF Sessions
<1>2. PICK g \in [0..N -> Seq(Urls)] :
        Flat(f) = g[N] /\ g[0] = <<>> /\ \A n \in Sessions : g[n] = g[n-1] \o f[n]
  BY FlatSteps
<1>3. PICK i \in [0..N -> Seq(Urls)] :
        Flat(h) = i[N] /\ i[0] = <<>> /\ \A n \in Sessions : i[n] = i[n-1] \o h[n]
  <2> HIDE DEF h
  <2> QED BY <1>1, FlatSteps
<1> HIDE DEF h, N
<1>4. i[k-1] = g[k-1]
  <2> DEFINE T == {n \in 0..(k-1) : i[n] = g[n]}
  <2>1. 0 \in T /\ \A n \in 1..(k-1) : n - 1 \in T => n \in T
    <3>1. \A n \in 1..(k-1) : n \in Sessions /\ n # k /\ h[n] = f[n] /\ n - 1 \in 0..(k-1)
      BY <1>1
    <3>2. 0 \in 0..(k-1)
      BY <1>1
    <3>3. i[0] = g[0]
      BY <1>2, <1>3
    <3>4. ASSUME NEW n \in 1..(k-1), i[n-1] = g[n-1] PROVE i[n] = g[n]
      <4>1. i[n] = i[n-1] \o h[n] /\ g[n] = g[n-1] \o f[n] /\ h[n] = f[n]
        BY <1>2, <1>3, <3>1
      <4> QED BY <3>4, <4>1
    <3>5. \A n \in 1..(k-1) : n \in 0..(k-1)
      BY <1>1
    <3> QED BY <3>2, <3>3, <3>4, <3>5
  <2>2. k - 1 \in Nat
    BY <1>1
  <2>3. 0..(k-1) \subseteq T
    <3> HIDE DEF T
    <3> QED BY <2>1, <2>2, SetInduction
  <2>4. k - 1 \in 0..(k-1)
    BY <1>1
  <2> QED BY <2>3, <2>4
<1>5. i[k] = Append(g[k], e)
  <2>1. g[k-1] \in Seq(Urls) /\ <<e>> \in Seq(Urls)
    BY <1>1, <1>2
  <2>2. Append(f[k], e) = f[k] \o <<e>>
    BY <1>1, AppendIsConcat
  <2>3. g[k-1] \o (f[k] \o <<e>>) = (g[k-1] \o f[k]) \o <<e>>
    <3> DEFINE x == g[k-1]
               y == f[k]
               z == <<e>>
    <3>1. x \in Seq(Urls) /\ y \in Seq(Urls) /\ z \in Seq(Urls)
      BY <1>1, <2>1
    <3>2. x \o (y \o z) = (x \o y) \o z
      <4> HIDE DEF x, y, z
      <4> QED BY <3>1, ConcatAssociative
    <3> QED BY <3>2
  <2>4. g[k] \in Seq(Urls) /\ Append(g[k], e) = g[k] \o <<e>>
    <3>1. g[k] \in Seq(Urls)
      BY <1>1, <1>2
    <3> QED BY <3>1, AppendIsConcat
  <2>5. g[k] = g[k-1] \o f[k] /\ i[k] = g[k-1] \o Append(f[k], e)
    BY <1>1, <1>2, <1>3, <1>4
  <2> QED BY <2>2, <2>3, <2>4, <2>5
<1>6. \A n \in 1..N : n > k => g[n] = g[n-1] /\ i[n] = i[n-1]
  <2> SUFFICES ASSUME NEW n \in 1..N, n > k PROVE g[n] = g[n-1] /\ i[n] = i[n-1]
    OBVIOUS
  <2>1. n \in Sessions /\ n # k /\ f[n] = <<>> /\ h[n] = <<>>
    BY <1>1
  <2>2. g[n-1] \in Seq(Urls) /\ i[n-1] \in Seq(Urls)
    <3>1. n - 1 \in 0..N
      BY <1>1
    <3> QED BY <3>1
  <2> QED BY <1>2, <1>3, <2>1, <2>2, ConcatEmptySeq
<1>7. g[N] = g[k]
  <2>1. k \in 0..N /\ \A n \in 1..N : n > k => g[n] = g[n-1]
    BY <1>1, <1>6
  <2> QED BY <1>1, <2>1, Steady
<1>8. i[N] = i[k]
  <2>1. k \in 0..N /\ \A n \in 1..N : n > k => i[n] = i[n-1]
    BY <1>1, <1>6
  <2> QED BY <1>1, <2>1, Steady
<1> QED BY <1>2, <1>3, <1>5, <1>7, <1>8 DEF h

\* Sequences that are empty, but for the first.
LEMMA FlatFirst ==
  ASSUME NEW f \in [Sessions -> Seq(Urls)], \A s \in Sessions : s > 1 => f[s] = <<>>
  PROVE  /\ 1 \in Sessions => Flat(f) = f[1]
         /\ (\A s \in Sessions : f[s] = <<>>) => Flat(f) = <<>>
<1> DEFINE N == Cardinality(Urls)
<1>1. PICK g \in [0..N -> Seq(Urls)] :
        Flat(f) = g[N] /\ g[0] = <<>> /\ \A n \in Sessions : g[n] = g[n-1] \o f[n]
  BY FlatSteps
<1>2. N \in Nat /\ Sessions = 1..N
  BY FlatSteps DEF Sessions
<1> HIDE DEF N
<1>3. \A n \in Sessions : f[n] = <<>> => g[n] = g[n-1]
  <2> SUFFICES ASSUME NEW n \in Sessions, f[n] = <<>> PROVE g[n] = g[n-1]
    OBVIOUS
  <2>1. g[n-1] \in Seq(Urls)
    BY <1>1, <1>2
  <2> QED BY <1>1, <2>1, ConcatEmptySeq
<1>4. 1 \in Sessions => Flat(f) = f[1]
  <2> SUFFICES ASSUME 1 \in Sessions PROVE Flat(f) = f[1]
    OBVIOUS
  <2>1. g[1] = g[0] \o f[1] /\ f[1] \in Seq(Urls)
    <3>1. 1 - 1 = 0
      OBVIOUS
    <3>2. g[1] = g[1-1] \o f[1]
      BY <1>1
    <3> QED BY <3>1, <3>2
  <2>2. g[1] = f[1]
    BY <1>1, <2>1, ConcatEmptySeq
  <2>3. 1 \in 0..N /\ \A n \in 1..N : n > 1 => g[n] = g[n-1]
    BY <1>2, <1>3
  <2>4. g[N] = g[1]
    BY <1>2, <2>3, Steady
  <2> QED BY <1>1, <2>2, <2>4
<1>5. (\A s \in Sessions : f[s] = <<>>) => Flat(f) = <<>>
  <2> SUFFICES ASSUME \A s \in Sessions : f[s] = <<>> PROVE Flat(f) = <<>>
    OBVIOUS
  <2>1. 0 \in 0..N /\ \A n \in 1..N : n > 0 => g[n] = g[n-1]
    BY <1>2, <1>3
  <2>2. g[N] = g[0]
    BY <1>2, <2>1, Steady
  <2> QED BY <1>1, <2>2
<1> QED BY <1>4, <1>5

-----------------------------------------------------------------------------
(* How sessions and the executor end.                                      *)

\* A session that is over: its aria2c has ended well, and was waited for.
Rest(s) == kind = "aria2" => sess[s].proc = "ok" /\ sess[s].waited

\* The executor holds an entry only on its way to a sink, or when it fails; it ends
\* well only at the end of the channel; every session but the open one is over, and
\* of that one it has waited for the process when it returns, unless it was never
\* given an entry.
Ends ==
  /\ \/ xpc \in {"limit", "recv"}
     \/ xpc \in {"close", "wait"} /\ after # "fail"
     \/ result = "nil"
     => cur = <<>>
  /\ after = "end" \/ result = "nil" => chClosed /\ entriesCh = <<>>
  /\ total = 0 => \A s \in Sessions : put[s] = <<>>
  /\ \A s \in Sessions : sess[s].waited => Gone(sess[s])
  /\ \A s \in 1..opened : s # sink => Rest(s)
  /\ result = "nil" => sink = 0 \/ total = 0
  /\ xpc = "ret" => result = "nil" \/ sink = 0 \/ kind # "aria2" \/ sess[sink].waited
  /\ IF xpc = "ret" THEN result \in {"nil", "err"} ELSE result = "none"

\* What was accepted for the batch file is in it, or in its buffer.
FileInv ==
  kind = "file" =>
    /\ limit = 0 /\ buf \in Seq(Urls) /\ disk \in Seq(Urls)
    /\ sink = 0 => buf = <<>>
    /\ \A s \in 1..opened : disk \o buf = put[s]

EndInv == Ends /\ FileInv /\ EntriesOnce

\* The invariant of the ends holds at the start.
LEMMA InitEnds == BatchInit => EndInv
<1> SUFFICES ASSUME BatchInit PROVE EndInv
  OBVIOUS
<1>1. Ends
  BY DEF BatchInit, Ends, NoProcess
<1>2. FileInv
  BY EmptySeq DEF BatchInit, FileInv
<1>3. Flat(put) = <<>>
  <2>1. put \in [Sessions -> Seq(Urls)] /\ \A s \in Sessions : put[s] = <<>>
    BY EmptySeq DEF BatchInit
  <2> QED BY <2>1, FlatFirst
<1>4. Writable(<<>>) = <<>>
  <2>1. <<>> \in Seq(Urls) /\ Len(<<>>) = 0
    BY EmptySeq
  <2> QED BY <2>1, WritableSteps
<1>5. EntriesOnce
  <2>1. <<>> \o <<>> = <<>>
    BY ConcatEmptySeq, EmptySeq
  <2> QED BY <1>3, <1>4, <2>1 DEF BatchInit, ChannelInit, EntriesOnce, Valid
<1> QED BY <1>1, <1>2, <1>5 DEF EndInv

\* A session that has ended well stays so, and what it read is not taken back.
LEMMA SessionEnds ==
  ASSUME BatchInv, EndInv, NEW s \in Sessions, Moves(s)
  PROVE  EndInv'
<1> USE DEF EndInv
<1>1. PICK r \in SessionState : sess' = [sess EXCEPT ![s] = r] /\ Lasts(sess[s], r)
  BY DEF Moves
<1>2. UNCHANGED <<channel, ctxDone, executorVars, put, buf, disk>>
  BY DEF Moves, SessionOnly
<1>3. sess \in [Sessions -> SessionState] /\ opened \in Nat /\ 1..opened \subseteq Sessions
  BY Bounded DEF BatchInv, Typed
<1>4. sess'[s] = r /\ \A t \in Sessions : t # s => sess'[t] = sess[t]
  BY <1>1, <1>3
<1>5. \A t \in Sessions : sess'[t].waited => Gone(sess'[t])
  BY <1>1, <1>4 DEF Ends, Lasts
<1>6. \A t \in Sessions : Rest(t) => Rest(t)'
  BY <1>1, <1>2, <1>4 DEF Rest, Lasts, executorVars
<1>7. sink # 0 => sink \in Sessions /\ (sess[sink].waited => sess'[sink].waited)
  BY <1>1, <1>4, OpenSession DEF Lasts
<1>8. Ends'
  <2> USE <1>2 DEF executorVars
  <2>1. \A t \in 1..opened' : t # sink' => Rest(t)'
    BY <1>3, <1>6 DEF Ends
  <2>2. xpc' = "ret" => result' = "nil" \/ sink' = 0 \/ kind' # "aria2" \/ sess'[sink'].waited
    BY <1>7 DEF Ends
  <2> QED BY <1>5, <2>1, <2>2 DEF Ends
<1>9. FileInv'
  BY <1>2 DEF FileInv, executorVars
<1>10. EntriesOnce'
  BY <1>2 DEF EntriesOnce, Valid, executorVars
<1> QED BY <1>8, <1>9, <1>10

\* The crawler and the context do not touch what was placed.
LEMMA OutsideEnds ==
  ASSUME BatchInv, EndInv, Produce \/ CloseCh \/ Cancel \/ UNCHANGED batchVars
  PROVE  EndInv'
<1> USE DEF EndInv
<1>1. /\ UNCHANGED <<executorVars, put, sess, buf, disk, handed>>
      /\ chClosed => UNCHANGED <<entriesCh, chClosed>>
  BY DEF Produce, CloseCh, Cancel, batchVars, SendEntry, executorVars
<1>2. CASE CloseCh
  <2>1. entriesCh' = entriesCh /\ chClosed'
    BY <1>2 DEF CloseCh
  <2> QED BY <1>1, <2>1 DEF Ends, FileInv, EntriesOnce, Valid, Rest, executorVars
<1>3. CASE ~CloseCh
  <2>1. Ends'
    BY <1>1 DEF Ends, Rest, executorVars
  <2>2. FileInv' /\ EntriesOnce'
    BY <1>1 DEF FileInv, EntriesOnce, Valid, executorVars
  <2> QED BY <2>1, <2>2
<1> QED BY <1>2, <1>3

Writes == WritePipe \/ WriteFile \/ WriteNowhere

\* A sequence of length one is its element.
LEMMA OneEntry ==
  ASSUME NEW s \in Seq(Urls), Len(s) = 1
  PROVE  s[1] \in Urls /\ s = <<s[1]>>
<1>1. s \in [1..Len(s) -> Urls]
  OBVIOUS
<1> QED BY <1>1

\* A successful Write, by whichever sink.
LEMMA WriteFacts ==
  ASSUME BatchInv, Writes
  PROVE  /\ xpc = "write" /\ sink \in Sessions /\ sink = opened /\ Good(cur[1])
         /\ cur[1] \in Urls /\ cur = <<cur[1]>>
         /\ put \in [Sessions -> Seq(Urls)] /\ put[sink] \in Seq(Urls)
         /\ put' = [put EXCEPT ![sink] = Append(put[sink], cur[1])] /\ Written
         /\ UNCHANGED <<channel, kind, limit, sink, opened, result>>
<1>1. xpc = "write" /\ Good(cur[1]) /\ Written /\ UNCHANGED <<channel, kind, limit, sink, opened, result>>
  BY DEF Writes, WritePipe, WriteFile, WriteNowhere
<1>2. sink \in Sessions /\ sink = opened
  BY <1>1, OpenSession DEF BatchInv, Place
<1>3. cur \in Seq(Urls) /\ Len(cur) = 1 /\ put \in [Sessions -> Seq(Urls)]
  BY <1>1 DEF BatchInv, Typed, Place
<1>4. cur[1] \in Urls /\ cur = <<cur[1]>>
  BY <1>3, OneEntry
<1>5. put' = [put EXCEPT ![sink] = Append(put[sink], cur[1])]
  BY <1>1 DEF Written
<1> QED BY <1>1, <1>2, <1>3, <1>4, <1>5

\* Each step of the executor places the entry it holds once, or skips an invalid one.
LEMMA ExecutorOnce == ASSUME BatchInv, EndInv, ExecutorStep PROVE EntriesOnce'
<1>1. /\ put \in [Sessions -> Seq(Urls)] /\ handed \in Seq(Urls) /\ cur \in Seq(Urls)
      /\ Flat(put) \o Writable(cur) = Writable(handed)
  BY DEF BatchInv, Typed, EndInv, EntriesOnce, Valid
<1>2. Flat(put) \in Seq(Urls)
  <2> DEFINE N == Cardinality(Urls)
  <2>1. N \in Nat /\ \E g \in [0..N -> Seq(Urls)] : Flat(put) = g[N]
    BY <1>1, FlatSteps
  <2> HIDE DEF N
  <2> QED BY <2>1
<1>3. Writable(<<>>) = <<>>
  <2>1. <<>> \in Seq(Urls) /\ Len(<<>>) = 0
    BY EmptySeq
  <2> QED BY <2>1, WritableSteps
<1>4. CASE Receive
  <2> DEFINE e == Head(entriesCh)
  <2>1. xpc = "recv" /\ cur' = <<e>> /\ handed' = Append(handed, e) /\ put' = put /\ entriesCh # <<>>
    BY <1>4 DEF Receive, ReceiveEntry
  <2>2. e \in Urls /\ cur = <<>>
    <3>1. entriesCh \in Seq(Urls)
      BY DEF BatchInv, Typed
    <3> QED BY <2>1, <3>1, HeadTailProperties DEF EndInv, Ends
  <2> HIDE DEF e
  <2>3. Flat(put) = Writable(handed)
    BY <1>1, <1>2, <1>3, <2>2, ConcatEmptySeq
  <2>4. /\ Writable(Append(handed, e)) = IF Good(e) THEN Append(Writable(handed), e) ELSE Writable(handed)
        /\ Writable(<<e>>) = IF Good(e) THEN <<e>> ELSE <<>>
    BY <1>1, <2>2, WritableAppend
  <2>5. Append(Flat(put), e) = Flat(put) \o <<e>> /\ Flat(put) \o <<>> = Flat(put)
    BY <1>2, <2>2, AppendIsConcat, ConcatEmptySeq
  <2>6. Flat(put) \o Writable(<<e>>) = Writable(Append(handed, e))
    BY <2>3, <2>4, <2>5
  <2> QED BY <2>1, <2>6 DEF EntriesOnce, Valid
<1>5. CASE SkipMalformed
  <2>1. xpc = "write" /\ ~Good(cur[1]) /\ cur' = <<>> /\ UNCHANGED <<handed, put>>
    BY <1>5 DEF SkipMalformed
  <2>2. cur[1] \in Urls /\ cur = <<cur[1]>>
    <3>1. Len(cur) = 1
      BY <2>1 DEF BatchInv, Place
    <3> QED BY <1>1, <3>1, OneEntry
  <2>3. Writable(cur) = <<>>
    <3>1. Writable(<<cur[1]>>) = <<>>
      BY <1>1, <2>1, <2>2, WritableAppend
    <3> QED BY <2>2, <3>1
  <2> QED BY <1>1, <1>3, <2>1, <2>3 DEF EntriesOnce, Valid
<1>6. CASE Writes
  <2>1. /\ sink \in Sessions /\ sink = opened /\ Good(cur[1]) /\ cur[1] \in Urls /\ cur = <<cur[1]>>
        /\ put' = [put EXCEPT ![sink] = Append(put[sink], cur[1])] /\ cur' = <<>> /\ handed' = handed
    BY <1>6, WriteFacts DEF Written
  <2>2. \A s \in Sessions : s > sink => put[s] = <<>>
    BY <2>1 DEF BatchInv, Filling
  <2>3. Flat(put') = Append(Flat(put), cur[1])
    BY <1>1, <2>1, <2>2, FlatAppend
  <2>4. Writable(cur) = <<cur[1]>>
    <3>1. Writable(<<cur[1]>>) = <<cur[1]>>
      BY <1>1, <2>1, WritableAppend
    <3> QED BY <2>1, <3>1
  <2>5. Append(Flat(put), cur[1]) \in Seq(Urls) /\ Append(Flat(put), cur[1]) = Flat(put) \o <<cur[1]>>
    BY <1>2, <2>1, AppendIsConcat, AppendProperties
  <2>6. Flat(put') \o <<>> = Flat(put')
    BY <2>3, <2>5, ConcatEmptySeq
  <2>7. Flat(put') \o Writable(<<>>) = Writable(handed)
    BY <1>1, <1>3, <2>3, <2>4, <2>5, <2>6
  <2> QED BY <2>1, <2>7 DEF EntriesOnce, Valid
<1>7. CASE \/ ResolveLimit \/ OpenFailed \/ Open \/ WriteFileFailed \/ Ended
           \/ ClosePipe \/ Wait \/ CloseFile \/ CloseNothing
  <2>1. UNCHANGED <<put, cur, handed>>
    BY <1>7 DEF ResolveLimit, OpenFailed, Open, WriteFileFailed, Ended, ClosePipe, Wait, CloseFile, CloseNothing
  <2> QED BY <2>1 DEF EndInv, EntriesOnce, Valid
<1> QED BY <1>4, <1>5, <1>6, <1>7 DEF ExecutorStep, Writes

\* The batch file is opened once, for there is no limit to its session.
LEMMA ExecutorFile == ASSUME BatchInv, PipeInv, EndInv, ExecutorStep PROVE FileInv'
<1> SUFFICES ASSUME kind' = "file" PROVE FileInv'
  BY DEF FileInv
<1>1. kind = "file" /\ (xpc # "limit" => limit' = limit)
  BY DEF ExecutorStep, ResolveLimit, Receive, OpenFailed, Open, SkipMalformed, WritePipe, WriteFile,
         WriteFileFailed, WriteNowhere, Ended, ClosePipe, Wait, CloseFile, CloseNothing
<1>2. /\ limit = 0 /\ buf \in Seq(Urls) /\ disk \in Seq(Urls) /\ (sink = 0 => buf = <<>>)
      /\ \A s \in 1..opened : disk \o buf = put[s]
  BY <1>1 DEF EndInv, FileInv
<1>3. opened \in Nat /\ opened <= 1 /\ 1..opened \subseteq Sessions
  BY <1>2, Bounded DEF BatchInv, SessionsInTurn, Typed
<1>4. CASE ResolveLimit
  BY <1>1, <1>2, <1>4 DEF ResolveLimit, LimitIf, FileInv
<1>5. CASE Open
  <2>1. /\ buf' = <<>> /\ disk' = <<>> /\ sink' = opened + 1 /\ opened' = opened + 1
        /\ UNCHANGED <<limit, put>> /\ xpc = "open"
    BY <1>1, <1>5 DEF Open
  <2>2. opened = 0
    BY <1>2, <1>3, <2>1 DEF BatchInv, Filling, Place
  <2>3. 1 \in Sessions /\ put[1] = <<>>
    BY <2>1, <2>2, Bounded DEF BatchInv, Filling
  <2>4. <<>> \in Seq(Urls) /\ <<>> \o <<>> = <<>>
    BY EmptySeq, ConcatEmptySeq
  <2> QED BY <1>2, <2>1, <2>2, <2>3, <2>4 DEF FileInv
<1>6. CASE WriteFile
  <2>1. /\ sink \in Sessions /\ sink = opened /\ cur[1] \in Urls /\ cur = <<cur[1]>>
        /\ put' = [put EXCEPT ![sink] = Append(put[sink], cur[1])]
        /\ put \in [Sessions -> Seq(Urls)] /\ UNCHANGED <<limit, sink, opened>>
    BY <1>6, WriteFacts DEF Writes
  <2>2. sink = 1 /\ opened = 1
    BY <1>3, <2>1 DEF Sessions
  <2>3. cur \in Seq(Urls)
    BY DEF BatchInv, Typed
  <2>4. /\ buf \o cur \in Seq(Urls) /\ disk \o buf \in Seq(Urls) /\ disk \o buf \o cur \in Seq(Urls)
        /\ disk \o (buf \o cur) = disk \o buf \o cur
        /\ disk \o buf \o cur \o <<>> = disk \o buf \o cur
    <3>1. buf \o cur \in Seq(Urls) /\ disk \o buf \in Seq(Urls)
      BY <1>2, <2>3, ConcatProperties
    <3>2. disk \o buf \o cur \in Seq(Urls)
      BY <2>3, <3>1, ConcatProperties
    <3>3. disk \o (buf \o cur) = disk \o buf \o cur
      BY <1>2, <2>3, ConcatAssociative
    <3> QED BY <3>1, <3>2, <3>3, ConcatEmptySeq
  <2>5. disk' \o buf' = disk \o buf \o cur /\ buf' \in Seq(Urls) /\ disk' \in Seq(Urls)
    <3>1. <<>> \in Seq(Urls)
      BY EmptySeq
    <3> QED BY <1>2, <1>6, <2>4, <3>1 DEF WriteFile
  <2>6. put'[1] = disk \o buf \o cur
    <3>1. put[1] = disk \o buf
      BY <1>2, <2>2
    <3>2. put'[1] = Append(put[1], cur[1])
      BY <2>1, <2>2
    <3>3. Append(disk \o buf, cur[1]) = (disk \o buf) \o <<cur[1]>>
      BY <2>1, <2>4, AppendIsConcat
    <3> QED BY <2>1, <3>1, <3>2, <3>3
  <2>7. \A s \in 1..opened' : s = 1
    BY <2>1, <2>2
  <2> QED BY <1>2, <2>1, <2>2, <2>5, <2>6, <2>7 DEF FileInv
<1>7. CASE CloseFile
  <2>1. UNCHANGED <<limit, opened, put>> /\ xpc = "close"
    BY <1>7 DEF CloseFile
  <2>2. CASE after # "fail" /\ disk' = disk \o buf /\ buf' = <<>> /\ Closed(TRUE)
    <3>1. disk \o buf \in Seq(Urls) /\ disk \o buf \o <<>> = disk \o buf /\ <<>> \in Seq(Urls)
      BY <1>2, ConcatProperties, ConcatEmptySeq, EmptySeq
    <3> QED BY <1>2, <2>1, <2>2, <3>1 DEF FileInv
  <2>3. CASE UNCHANGED <<buf, disk>> /\ Closed(FALSE)
    <3>1. sink' = sink
      BY <2>3 DEF Closed
    <3> QED BY <1>2, <2>1, <2>3, <3>1 DEF FileInv
  <2> QED BY <1>7, <2>2, <2>3 DEF CloseFile
<1>8. CASE Receive \/ OpenFailed \/ SkipMalformed \/ WriteFileFailed \/ Ended
  <2>1. UNCHANGED <<limit, opened, put, sink, buf, disk>>
    BY <1>8 DEF Receive, OpenFailed, SkipMalformed, WriteFileFailed, Ended
  <2> QED BY <1>2, <2>1 DEF FileInv
<1>9. ~WritePipe /\ ~WriteNowhere /\ ~ClosePipe /\ ~CloseNothing
  BY <1>1 DEF WritePipe, WriteNowhere, ClosePipe, CloseNothing
<1>10. ~Wait
  <2> SUFFICES ASSUME Wait PROVE FALSE
    OBVIOUS
  <2>1. xpc = "wait" /\ sess[sink].waited /\ sink \in Sessions
    BY OpenSession DEF Wait, BatchInv, Place
  <2> QED BY <1>1, <2>1 DEF PipeInv, NoProcess
<1> QED BY <1>4, <1>5, <1>6, <1>7, <1>8, <1>9, <1>10 DEF ExecutorStep

\* A step that leaves what matters of the processes, and what was opened, alone.
LEMMA SameProcesses ==
  ASSUME Ends, 1..opened \subseteq Sessions, UNCHANGED <<kind, opened>>, sink' \in {sink, 0},
         sink' # sink => sink = 0 \/ Rest(sink),
         \A s \in Sessions : sess'[s].proc = sess[s].proc /\ sess'[s].waited = sess[s].waited
  PROVE  /\ \A s \in Sessions : sess'[s].waited => Gone(sess'[s])
         /\ \A s \in 1..opened' : s # sink' => Rest(s)'
<1>1. \A s \in Sessions : Rest(s)' = Rest(s)
  BY DEF Rest
<1>2. \A s \in Sessions : sess'[s].waited => Gone(sess'[s])
  BY DEF Ends, Gone
<1>3. ASSUME NEW s \in 1..opened', s # sink' PROVE Rest(s)'
  <2>1. Rest(s)
    <3>1. CASE s # sink
      BY <1>3, <3>1 DEF Ends
    <3>2. CASE s = sink
      BY <1>3, <3>2
    <3> QED BY <3>1, <3>2
  <2> QED BY <1>1, <1>3, <2>1
<1> QED BY <1>2, <1>3

\* What is left of Ends when a session is closed, well or not.
LEMMA ClosedEnds ==
  ASSUME BatchInv, EndInv, NEW ok \in BOOLEAN, Closed(ok), xpc \in {"close", "wait"},
         ok => Rest(sink), kind = "aria2" => sess[sink].waited,
         UNCHANGED <<channel, cur, opened, total, after, put, sess, kind>>
  PROVE  Ends'
<1>1. 1..opened \subseteq Sessions /\ sink # 0
  BY Bounded DEF BatchInv, Place
<1>2. \/ xpc' = "ret" /\ result' = "err" /\ UNCHANGED <<sink, count>>
      \/ ok /\ after = "recv" /\ xpc' = "recv" /\ sink' = 0 /\ result' = result
      \/ ok /\ after = "end" /\ xpc' = "ret" /\ result' = "nil" /\ sink' = 0
  <2>1. CASE (~ok \/ after = "fail") /\ Return("err") /\ UNCHANGED <<sink, count>>
    BY <2>1 DEF Return
  <2>2. CASE ok /\ after = "recv" /\ sink' = 0 /\ count' = 0 /\ xpc' = "recv" /\ UNCHANGED result
    BY <2>2
  <2>3. CASE ok /\ after = "end" /\ sink' = 0 /\ count' = 0 /\ Return("nil")
    BY <2>3 DEF Return
  <2> QED BY <2>1, <2>2, <2>3 DEF Closed
<1>3. /\ \A s \in Sessions : sess'[s].waited => Gone(sess'[s])
      /\ \A s \in 1..opened' : s # sink' => Rest(s)'
  BY <1>1, <1>2, SameProcesses DEF EndInv
<1>4. result = "none"
  BY DEF EndInv, Ends
<1>5. after # "fail" => cur = <<>>
  BY DEF EndInv, Ends
<1> QED BY <1>2, <1>3, <1>4, <1>5 DEF EndInv, Ends

\* The executor reports success only for what has ended well.
LEMMA ExecutorEnds == ASSUME BatchInv, PipeInv, EndInv, ExecutorStep PROVE Ends'
<1> USE DEF EndInv
<1>1. /\ sess \in [Sessions -> SessionState] /\ put \in [Sessions -> Seq(Urls)]
      /\ opened \in Nat /\ total \in Nat /\ 1..opened \subseteq Sessions
  BY Bounded DEF BatchInv, Typed
<1>2. CASE ResolveLimit \/ OpenFailed \/ SkipMalformed \/ WriteFileFailed \/ Ended
  <2>1. UNCHANGED <<channel, kind, sink, opened, total, put, sess>>
    BY <1>2 DEF ResolveLimit, OpenFailed, SkipMalformed, WriteFileFailed, Ended
  <2>2. /\ \A s \in Sessions : sess'[s].waited => Gone(sess'[s])
        /\ \A s \in 1..opened' : s # sink' => Rest(s)'
    BY <1>1, <2>1, SameProcesses
  <2>3. CASE ResolveLimit
    BY <2>1, <2>2, <2>3 DEF ResolveLimit, Ends
  <2>4. CASE OpenFailed
    BY <2>1, <2>2, <2>4 DEF OpenFailed, Return, Ends, BatchInv, Place
  <2>5. CASE SkipMalformed
    BY <2>1, <2>2, <2>5 DEF SkipMalformed, Ends
  <2>6. CASE WriteFileFailed
    BY <2>1, <2>2, <2>6 DEF WriteFileFailed, Ends
  <2>7. CASE Ended
    BY <2>1, <2>2, <2>7 DEF Ended, Return, Ends
  <2> QED BY <1>2, <2>3, <2>4, <2>5, <2>6, <2>7
<1>3. CASE Receive
  <2>1. /\ UNCHANGED <<chClosed, kind, sink, opened, total, after, result, put, sess>>
        /\ xpc = "recv" /\ xpc' \in {"open", "write"} /\ entriesCh # <<>>
    BY <1>3 DEF Receive, ReceiveEntry
  <2>2. /\ \A s \in Sessions : sess'[s].waited => Gone(sess'[s])
        /\ \A s \in 1..opened' : s # sink' => Rest(s)'
    BY <1>1, <2>1, SameProcesses
  <2> QED BY <2>1, <2>2 DEF Ends
<1>4. CASE Open
  <2> DEFINE n == opened + 1
  <2>1. /\ UNCHANGED <<channel, kind, cur, total, after, result, put>>
        /\ sink' = n /\ opened' = n /\ xpc = "open" /\ xpc' = "write"
        /\ sess' = sess \/ sess' = [sess EXCEPT ![n] = Started]
    BY <1>4 DEF Open
  <2>2. sink = 0 /\ n \in Sessions /\ sess[n] = NoProcess
    BY <1>1, <2>1, Bounded DEF BatchInv, Place, Filling
  <2>3. \A s \in Sessions : s # n => sess'[s] = sess[s]
    BY <1>1, <2>1
  <2>4. ~sess'[n].waited
    <3>1. ~NoProcess.waited /\ ~Started.waited
      BY DEF Started, NoProcess
    <3>2. sess'[n] \in {NoProcess, Started}
      BY <1>1, <2>1, <2>2
    <3> QED BY <3>1, <3>2
  <2>5. \A s \in Sessions : sess'[s].waited => Gone(sess'[s])
    BY <2>3, <2>4 DEF Ends
  <2>6. ASSUME NEW s \in 1..n, s # n PROVE Rest(s)'
    <3>1. s \in 1..opened /\ s # sink /\ sess'[s] = sess[s]
      BY <1>1, <2>2, <2>3, <2>6
    <3> QED BY <2>1, <3>1 DEF Ends, Rest
  <2> QED BY <2>1, <2>5, <2>6 DEF Ends
<1>5. CASE Writes
  <2>1. /\ UNCHANGED <<channel, kind, sink, opened, result>> /\ xpc = "write"
        /\ Written /\ sink \in Sessions
    BY <1>5, WriteFacts
  <2>2. \A s \in Sessions : sess'[s].proc = sess[s].proc /\ sess'[s].waited = sess[s].waited
    <3>1. CASE WritePipe
      BY <1>1, <2>1, <3>1 DEF WritePipe, SessionState
    <3>2. CASE WriteFile \/ WriteNowhere
      BY <3>2 DEF WriteFile, WriteNowhere
    <3> QED BY <1>5, <3>1, <3>2 DEF Writes
  <2>3. /\ \A s \in Sessions : sess'[s].waited => Gone(sess'[s])
        /\ \A s \in 1..opened' : s # sink' => Rest(s)'
    BY <1>1, <2>1, <2>2, SameProcesses
  <2>4. total' # 0 /\ cur' = <<>> /\ xpc' \in {"close", "recv"} /\ after' \in {"recv", after}
    BY <1>1, <2>1 DEF Written
  <2> QED BY <2>1, <2>3, <2>4 DEF Ends
<1>6. CASE ClosePipe
  <2>1. /\ UNCHANGED <<channel, kind, cur, sink, opened, total, after, result, put>>
        /\ xpc = "close" /\ xpc' = "wait" /\ sess' = [sess EXCEPT ![sink].closed = TRUE]
    BY <1>6 DEF ClosePipe
  <2>2. \A s \in Sessions : sess'[s].proc = sess[s].proc /\ sess'[s].waited = sess[s].waited
    BY <1>1, <2>1 DEF SessionState
  <2>3. /\ \A s \in Sessions : sess'[s].waited => Gone(sess'[s])
        /\ \A s \in 1..opened' : s # sink' => Rest(s)'
    BY <1>1, <2>1, <2>2, SameProcesses
  <2> QED BY <2>1, <2>3 DEF Ends
<1>7. CASE Wait
  <2> DEFINE ok == sess[sink].proc = "ok"
  <2>1. /\ xpc = "wait" /\ sess[sink].waited /\ ok \in BOOLEAN /\ Closed(ok)
        /\ UNCHANGED <<channel, kind, cur, opened, total, after, put, sess>>
        /\ ok => Rest(sink)
    BY <1>7 DEF Wait, Rest
  <2> HIDE DEF ok
  <2> QED BY <2>1, ClosedEnds
<1>8. CASE CloseFile \/ CloseNothing
  <2>1. /\ xpc = "close" /\ kind # "aria2" /\ Rest(sink)
        /\ UNCHANGED <<channel, kind, cur, opened, total, after, put, sess>>
        /\ Closed(TRUE) \/ Closed(FALSE)
    BY <1>8 DEF CloseFile, CloseNothing, Rest
  <2> QED BY <2>1, ClosedEnds
<1> QED BY <1>2, <1>3, <1>4, <1>5, <1>6, <1>7, <1>8 DEF ExecutorStep, Writes

\* The invariant of the ends is inductive over the other two.
LEMMA EndKeeps == BatchInv /\ PipeInv /\ EndInv /\ [BatchNext]_batchVars => EndInv'
<1> SUFFICES ASSUME BatchInv, PipeInv, EndInv, [BatchNext]_batchVars PROVE EndInv'
  OBVIOUS
<1>1. CASE ExecutorStep
  BY <1>1, ExecutorEnds, ExecutorFile, ExecutorOnce DEF EndInv
<1>2. CASE \E s \in Sessions : SessionStep(s) \/ AriaDies(s)
  <2>1. sess \in [Sessions -> SessionState]
    BY DEF BatchInv, Typed
  <2> QED BY <1>2, <2>1, SessionMoves, SessionEnds
<1>3. CASE Produce \/ CloseCh \/ Cancel \/ UNCHANGED batchVars
  BY <1>3, OutsideEnds
<1> QED BY <1>1, <1>2, <1>3 DEF BatchNext, BatchStep, BatchEnded

\* The invariants together.
THEOREM BatchInductive == BatchSpec => [](BatchInv /\ PipeInv /\ EndInv)
<1>1. BatchInit => BatchInv /\ PipeInv /\ EndInv
  BY InitBatch, InitPipe, InitEnds
<1>2. BatchInv /\ PipeInv /\ EndInv /\ [BatchNext]_batchVars => (BatchInv /\ PipeInv /\ EndInv)'
  BY NextKeeps, PipeKeeps, EndKeeps
<1> QED BY <1>1, <1>2, PTL DEF BatchSpec

\* EntriesOnce: every entry that can be written is accepted by exactly one session, in
\* the order it was received; only the one in hand is not yet placed.
THEOREM EntriesPlacedOnce == BatchSpec => []EntriesOnce
<1>1. EndInv => EntriesOnce
  BY DEF EndInv
<1> QED BY <1>1, BatchInductive, PTL

\* When the executor has returned, and anything could be written, no aria2c runs.
LEMMA NoneRuns ==
  ASSUME BatchInv, PipeInv, EndInv, xpc = "ret", Valid # <<>>
  PROVE  \A s \in Sessions : sess[s].proc # "run"
<1> SUFFICES ASSUME NEW s \in Sessions, sess[s].proc = "run" PROVE FALSE
  OBVIOUS
<1>1. NoProcess.proc # "run"
  BY DEF NoProcess
<1>2. s \in 1..opened /\ kind = "aria2"
  BY <1>1 DEF BatchInv, Filling, Typed, PipeInv, Sessions
<1>3. s = sink /\ ~sess[s].waited
  BY <1>2 DEF EndInv, Ends, Rest, Gone
<1>4. result = "nil" /\ total = 0 /\ cur = <<>> /\ sink # 0
  BY <1>2, <1>3 DEF EndInv, Ends
<1>5. Valid = <<>>
  <2>1. put \in [Sessions -> Seq(Urls)] /\ \A t \in Sessions : put[t] = <<>>
    BY <1>4 DEF EndInv, Ends, BatchInv, Typed
  <2>2. Flat(put) = <<>>
    BY <2>1, FlatFirst
  <2>3. Writable(<<>>) = <<>> /\ <<>> \o <<>> = <<>>
    <3>1. <<>> \in Seq(Urls) /\ Len(<<>>) = 0
      BY EmptySeq
    <3> QED BY <3>1, WritableSteps, ConcatEmptySeq
  <2> QED BY <1>4, <2>2, <2>3 DEF EndInv, EntriesOnce
<1> QED BY <1>5

\* NilMeansDelivered: ExecuteBatchDownload reports success only when every entry that
\* can be written was read by an aria2c that has ended well, or is in the batch file.
THEOREM SuccessIsDelivery == BatchSpec => []NilMeansDelivered
<1>1. BatchInv /\ PipeInv /\ EndInv => NilMeansDelivered
  <2> SUFFICES ASSUME BatchInv, PipeInv, EndInv, result = "nil", Valid # <<>>
               PROVE  /\ entriesCh = <<>>
                      /\ kind = "aria2" => /\ Flat([s \in Sessions |-> sess[s].fed]) = Valid
                                           /\ \A s \in 1..opened : sess[s].proc = "ok" /\ sess[s].waited
                      /\ kind = "file" => disk = Valid
    BY DEF NilMeansDelivered
  <2> USE DEF EndInv
  <2>1. /\ put \in [Sessions -> Seq(Urls)] /\ sess \in [Sessions -> SessionState]
        /\ opened \in Nat /\ 1..opened \subseteq Sessions
    BY Bounded DEF BatchInv, Typed
  <2>2. entriesCh = <<>> /\ cur = <<>> /\ (sink = 0 \/ total = 0)
    BY DEF Ends
  <2>3. Flat(put) = Valid
    <3> DEFINE N == Cardinality(Urls)
    <3>1. N \in Nat /\ \E g \in [0..N -> Seq(Urls)] : Flat(put) = g[N]
      BY <2>1, FlatSteps
    <3>2. Flat(put) \in Seq(Urls)
      <4> HIDE DEF N
      <4> QED BY <3>1
    <3>3. Writable(<<>>) = <<>>
      <4>1. <<>> \in Seq(Urls) /\ Len(<<>>) = 0
        BY EmptySeq
      <4> QED BY <4>1, WritableSteps
    <3> QED BY <2>2, <3>2, <3>3, ConcatEmptySeq DEF EntriesOnce
  <2>4. sink = 0
    <3> SUFFICES ASSUME total = 0 PROVE FALSE
      BY <2>2
    <3>1. \A s \in Sessions : put[s] = <<>>
      BY DEF Ends
    <3> QED BY <2>1, <2>3, <3>1, FlatFirst
  <2>5. \A s \in 1..opened : Rest(s)
    BY <2>1, <2>4 DEF Ends
  <2>6. kind = "aria2" => Flat([s \in Sessions |-> sess[s].fed]) = Valid
    <3> SUFFICES ASSUME kind = "aria2", NEW s \in Sessions PROVE sess[s].fed = put[s]
      BY <2>1, <2>3
    <3>1. CASE s > opened
      BY <3>1 DEF BatchInv, Filling, NoProcess
    <3>2. CASE s <= opened
      <4>1. sess[s].proc = "ok"
        BY <2>1, <2>5, <3>2 DEF Rest, Sessions
      <4>2. /\ sess[s].held = <<>> /\ sess[s].stdin = <<>> /\ sess[s].fed \in Seq(Urls)
            /\ sess[s].fed \o <<>> \o <<>> = put[s]
        BY <2>1, <4>1 DEF PipeInv, Lossless, SessionState
      <4> QED BY <4>2, ConcatEmptySeq
    <3> QED BY <2>1, <3>1, <3>2 DEF Sessions
  <2>7. kind = "file" => disk = Valid
    <3> SUFFICES ASSUME kind = "file" PROVE disk = Valid
      OBVIOUS
    <3>1. limit = 0 /\ buf = <<>> /\ disk \in Seq(Urls) /\ \A s \in 1..opened : disk \o buf = put[s]
      BY <2>4 DEF FileInv
    <3>2. \A s \in Sessions : s > opened => put[s] = <<>>
      BY DEF BatchInv, Filling
    <3>3. CASE opened = 0
      <4>1. \A s \in Sessions : put[s] = <<>>
        BY <3>2, <3>3 DEF Sessions
      <4> QED BY <2>1, <2>3, <4>1, FlatFirst
    <3>4. CASE opened # 0
      <4>1. opened = 1
        BY <2>1, <3>1, <3>4 DEF BatchInv, SessionsInTurn
      <4>2. 1 \in Sessions /\ put[1] = disk
        BY <2>1, <3>1, <4>1, ConcatEmptySeq
      <4>3. Flat(put) = put[1]
        BY <2>1, <3>2, <4>1, <4>2, FlatFirst
      <4> QED BY <2>3, <4>2, <4>3
    <3> QED BY <3>3, <3>4
  <2> QED BY <2>2, <2>5, <2>6, <2>7 DEF Rest
<1> QED BY <1>1, BatchInductive, PTL

=============================================================================
