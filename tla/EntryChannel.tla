---------------------------- MODULE EntryChannel ----------------------------
(***************************************************************************)
(* downloadEntriesCh of RunWithContext(), the one thing the crawler and    *)
(* the download stage share: workers of the one send on it, and the one    *)
(* that runs crawl() closes it, while the executor of the other receives.  *)
(***************************************************************************)
EXTENDS Integers, Sequences, FiniteSets

CONSTANTS
  Urls,      \* every URL a run can meet; an aria2URLEntry is the URL it is for
  ChanCap    \* capacity of the channel (defaultDownloadQueueSize)

ASSUME ChannelAssumption == IsFiniteSet(Urls) /\ ChanCap \in Nat \ {0}

VARIABLES
  entriesCh, chClosed,   \* what is in the channel; is it closed?
  handed                 \* every entry received from it, in order

channel == <<entriesCh, chClosed, handed>>

ChannelInit == entriesCh = <<>> /\ chClosed = FALSE /\ handed = <<>>

\* Sending blocks while the channel is full.
SendEntry(e) ==
  /\ Len(entriesCh) < ChanCap
  /\ entriesCh' = Append(entriesCh, e)
  /\ UNCHANGED <<chClosed, handed>>

ReceiveEntry ==
  /\ entriesCh # <<>>
  /\ handed' = Append(handed, Head(entriesCh)) /\ entriesCh' = Tail(entriesCh)
  /\ UNCHANGED chClosed

SeqSet(s) == {s[i] : i \in 1..Len(s)}

\* The URLs that were sent: received, or still in the channel.
Delivered == SeqSet(handed) \union SeqSet(entriesCh)

=============================================================================
