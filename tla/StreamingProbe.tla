--------------------------- MODULE StreamingProbe ---------------------------
(***************************************************************************)
(* probeAria2StdinStreaming() of pkg/aria2.go: start aria2c, feed it one   *)
(* URL that fails at once, keep its input open and watch what it prints,   *)
(* then kill it.  Its output passes a chain of goroutines: aria2c writes   *)
(* to the copying goroutine of os/exec, that to the scanning goroutine,    *)
(* that to the channel `lines`, which the probe reads until it decides.    *)
(*                                                                         *)
(* A patched aria2c reports on the URL while its input is open; an         *)
(* unpatched one waits for the end of the input first.  Either may print   *)
(* other lines, and exit, at any time.                                     *)
(***************************************************************************)
EXTENDS Integers, Sequences

CONSTANTS
  LinesCap,    \* capacity of the channel `lines`, 64 in the code
  MaxPrinted   \* bound: lines aria2c prints in one probe

ASSUME ProbeAssumption == LinesCap \in Nat \ {0} /\ MaxPrinted \in Nat

VARIABLES
  patched,     \* the aria2c on PATH has the fix for aria2/aria2#1161
  ppc,         \* where the probe is
  probeProc,   \* its aria2c: none, run or dead
  stdinOpen, probed,   \* is its input open; was it given the URL?
  printed,     \* lines it has printed
  out,         \* the line the copying goroutine has taken and not passed on
  scan,        \* the line the scanning goroutine has read and not sent
  lines,       \* the channel
  streaming    \* what the probe found

probeVars == <<patched, ppc, probeProc, stdinOpen, probed, printed, out, scan, lines, streaming>>
ariaVars  == <<probeProc, printed, out>>

Line == {"marker", "other"}

ProbeInit ==
  /\ patched \in BOOLEAN
  /\ ppc = "start" /\ probeProc = "none"
  /\ stdinOpen = TRUE /\ probed = FALSE /\ printed = 0
  /\ out = <<>> /\ scan = <<>> /\ lines = <<>>
  /\ streaming = FALSE

-----------------------------------------------------------------------------
(* The probe.                                                              *)

ProbeStart ==
  /\ ppc = "start"
  /\ \/ ppc' = "write" /\ probeProc' = "run"
     \/ ppc' = "ret" /\ UNCHANGED probeProc
  /\ UNCHANGED <<patched, stdinOpen, probed, printed, out, scan, lines, streaming>>

\* Writing the URL fails when aria2c has gone.
ProbeWrite ==
  /\ ppc = "write"
  /\ \/ probeProc = "run" /\ probed' = TRUE /\ ppc' = "loop"
     \/ probeProc = "dead" /\ ppc' = "kill" /\ UNCHANGED probed
  /\ UNCHANGED <<patched, ariaVars, stdinOpen, scan, lines, streaming>>

ProbeLine ==
  /\ ppc = "loop" /\ lines # <<>>
  /\ lines' = Tail(lines)
  /\ IF Head(lines) = "marker" THEN streaming' = TRUE /\ ppc' = "stop"
                               ELSE UNCHANGED <<streaming, ppc>>
  /\ UNCHANGED <<patched, ariaVars, stdinOpen, probed, scan>>

\* Mutant: the input is closed first, and what is printed then counts.
ProbeTimeoutClosing ==
  /\ ppc = "loop"
  /\ IF stdinOpen THEN UNCHANGED ppc ELSE ppc' = "kill"
  /\ stdinOpen' = FALSE
  /\ UNCHANGED <<patched, ariaVars, probed, scan, lines, streaming>>

\* The decision window is over, or the overall timeout.
ProbeTimeout ==
  /\ ppc = "loop"
  /\ ppc' = "stop"
  /\ UNCHANGED <<patched, ariaVars, stdinOpen, probed, scan, lines, streaming>>

ProbeStop ==
  /\ ppc = "stop"
  /\ stdinOpen' = FALSE /\ ppc' = "kill"
  /\ UNCHANGED <<patched, ariaVars, probed, scan, lines, streaming>>

ProbeKill ==
  /\ ppc = "kill"
  /\ probeProc' = "dead" /\ ppc' = "wait"
  /\ UNCHANGED <<patched, stdinOpen, probed, printed, out, scan, lines, streaming>>

\* cmd.Wait waits for the copying goroutine too.  The channel is garbage then; the
\* scanning goroutine never ends, for nobody closes the pipe it reads.
ProbeWait ==
  /\ ppc = "wait" /\ out = <<>>
  /\ ppc' = "ret"
  /\ lines' = <<>> /\ stdinOpen' = FALSE /\ probed' = TRUE
  /\ UNCHANGED <<patched, ariaVars, scan, streaming>>

-----------------------------------------------------------------------------
(* Its aria2c and the goroutines behind it.                                *)

PrintLine(line) ==
  /\ probeProc = "run" /\ out = <<>> /\ printed < MaxPrinted
  /\ line = "marker" => probed /\ (patched \/ ~stdinOpen)
  /\ out' = <<line>> /\ printed' = printed + 1
  /\ UNCHANGED <<patched, ppc, probeProc, stdinOpen, probed, scan, lines, streaming>>

ProbedExits ==
  /\ probeProc = "run"
  /\ probeProc' = "dead"
  /\ UNCHANGED <<patched, ppc, stdinOpen, probed, printed, out, scan, lines, streaming>>

\* io.Pipe: the copying goroutine waits until the scanner reads.
CopyLine ==
  /\ out # <<>> /\ scan = <<>>
  /\ scan' = out /\ out' = <<>>
  /\ UNCHANGED <<patched, ppc, probeProc, stdinOpen, probed, printed, lines, streaming>>

SendLine ==
  /\ scan # <<>> /\ Len(lines) < LinesCap
  /\ lines' = lines \o scan /\ scan' = <<>>
  /\ UNCHANGED <<patched, ppc, ariaVars, stdinOpen, probed, streaming>>

ProbeMain == ProbeStart \/ ProbeWrite \/ ProbeLine \/ ProbeTimeout \/ ProbeStop \/ ProbeKill \/ ProbeWait
OutputStep == CopyLine \/ SendLine
ProbedStep == ProbedExits \/ \E line \in Line : PrintLine(line)

=============================================================================
