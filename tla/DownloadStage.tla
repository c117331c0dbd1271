--------------------------- MODULE DownloadStage ----------------------------
(***************************************************************************)
(* The download stage with the streaming probe in it: the executor asks    *)
(* for its session limit before the first entry, and waits for the probe   *)
(* while the crawler goes on filling the channel.                          *)
(***************************************************************************)
EXTENDS Aria2Batch, StreamingProbe

stageVars == <<batchVars, probeVars>>

StageInit == BatchInit /\ ProbeInit

InProbe(A) == xpc = "limit" /\ Probes /\ ppc # "ret" /\ A /\ UNCHANGED batchVars

\* Without a probe the limit is the configured one; with one it waits for its end.
Decided == xpc = "limit" /\ Probes => ppc = "ret" /\ limit' = LimitIf(streaming)

InBatch(A) == A /\ Decided /\ UNCHANGED probeVars

StageNext ==
  \/ InProbe(ProbeMain) \/ InProbe(OutputStep) \/ InProbe(ProbedStep)
  \/ InBatch(ExecutorStep)
  \/ UNCHANGED probeVars /\ ((\E s \in Sessions : SessionStep(s) \/ AriaDies(s)) \/ Produce \/ CloseCh \/ Cancel)
  \/ BatchEnded /\ UNCHANGED probeVars

\* Goroutines that can go on do, and so do timers; aria2c owes nothing to the probe.
StageFairSpec ==
  /\ StageInit /\ [][StageNext]_stageVars
  /\ WF_stageVars(InProbe(ProbeMain)) /\ WF_stageVars(InProbe(OutputStep))
  /\ WF_stageVars(InBatch(ExecutorStep))
  /\ \A s \in Sessions : WF_stageVars(SessionStep(s) /\ UNCHANGED probeVars)

-----------------------------------------------------------------------------
(* Properties.                                                             *)

\* Session restarts are given up only for an aria2c that was seen to read its input
\* as it comes.  An unpatched one, for which they exist, never passes the probe, whenever
\* it dies and the probe times out, as long as it prints no marker while its input is open
\* (what PrintLine assumes of it, and the probe relies on).
ProbeSound ==
  kind = "aria2" /\ SessionSize > 0 /\ xpc # "limit" => (limit = 0 => patched)

\* In the probe aria2c prints no more than the channel and the scanner can hold when
\* nobody reads them.
ProbeQuiet == printed <= LinesCap + 1

\* The executor returns once the crawler has closed the channel, unless it writes to an
\* aria2c that is gone, or the probed one floods the probe: the probe, the pipes without
\* buffer, the copying goroutines and the processes never wait for each other in a
\* circle, with sessions longer than the pipe and for every kind of sink, and also when
\* aria2c fails, dies or is killed with no more than one entry to go.
ReturnsIfRead == [](~WritesToNobody /\ ProbeQuiet) => ExecutorReturns

=============================================================================
