---------------------------- MODULE VisitedCache ----------------------------
(***************************************************************************)
(* The visited-URL cache, pkg/cache.go: MarkVisited(), Load() and Save(),  *)
(* over the runs of one user who gives every run the same --visited-cache  *)
(* file.  A run loads, crawls and saves; it can die between any two steps, *)
(* and every system call of Save() can fail.                               *)
(*                                                                         *)
(* A file is the set of its lines: Save() sorts the keys and Load() does   *)
(* not depend on their order.  A file that does not exist has none: Load() *)
(* and os.Create treat it like an empty one.                               *)
(***************************************************************************)
EXTENDS Integers, FiniteSets

CONSTANTS
  Urls,          \* URLs a run can meet, canonical ones included
  Canon,         \* canonicalURL()
  Long,          \* keys beyond the token size of bufio.Scanner (64 KiB)
  DiskMayFail,   \* may a system call on the files fail?
  MaxRuns        \* bound: runs started

ASSUME CacheAssumption ==
  /\ Canon \in [Urls -> Urls]
  /\ Long \subseteq Urls
  /\ DiskMayFail \in BOOLEAN
  /\ MaxRuns \in Nat

VARIABLES
  pc,      \* off, load, refused (Load failed), crawl, and the steps of Save
  cache,   \* URLCache.cache
  todo,    \* keys Save has not yet written
  buf,     \* keys in the bufio.Writer
  tmp,     \* the file <path>.tmp
  file,    \* the file <path>
  runs     \* runs started

vars == <<pc, cache, todo, buf, tmp, file, runs>>

Init ==
  /\ pc = "off" /\ cache = {} /\ todo = {} /\ buf = {}
  /\ tmp = {} /\ file = {} /\ runs = 0

-----------------------------------------------------------------------------
Start ==
  /\ pc \in {"off", "refused"} /\ runs < MaxRuns
  /\ pc' = "load" /\ cache' = {} /\ runs' = runs + 1
  /\ UNCHANGED <<todo, buf, tmp, file>>

\* A missing file is an empty cache.
Load ==
  /\ pc = "load" /\ file \intersect Long = {}
  /\ cache' = {Canon[u] : u \in file}
  /\ pc' = "crawl"
  /\ UNCHANGED <<todo, buf, tmp, file, runs>>

\* os.Open or the scanner fails, the latter after some of the lines: the run ends
\* with an error and without saving.
LoadFailed ==
  /\ pc = "load" /\ (DiskMayFail \/ file \intersect Long # {})
  /\ \E read \in SUBSET (file \ Long) : cache' = {Canon[u] : u \in read}
  /\ pc' = "refused"
  /\ UNCHANGED <<todo, buf, tmp, file, runs>>

MarkVisited(u) ==
  /\ pc = "crawl"
  /\ cache' = cache \union {Canon[u]}
  /\ UNCHANGED <<pc, todo, buf, tmp, file, runs>>

-----------------------------------------------------------------------------
(* Save().                                                                 *)

SaveFailed == pc' = "off" /\ todo' = {} /\ buf' = {}

\* The copy of the keys is taken under the lock; os.MkdirAll may fail after it.
Snapshot ==
  /\ pc = "crawl"
  /\ todo' = cache /\ buf' = {} /\ pc' = "create"
  /\ UNCHANGED <<cache, tmp, file, runs>>

\* Mutant: the file itself is created anew, and removed on errors.
CreateInPlace ==
  /\ pc = "create"
  /\ tmp' = {} /\ file' = {} /\ pc' = "write"
  /\ UNCHANGED <<cache, todo, buf, runs>>

\* os.Create truncates what a run that died has left of <path>.tmp.
Create ==
  /\ pc = "create"
  /\ tmp' = {} /\ pc' = "write"
  /\ UNCHANGED <<cache, todo, buf, file, runs>>

CreateFailed ==
  /\ pc = "create" /\ DiskMayFail
  /\ SaveFailed
  /\ UNCHANGED <<cache, tmp, file, runs>>

\* A key goes into the buffer, which is written out when it is full.
Write ==
  /\ pc = "write"
  /\ \E k \in todo :
       /\ todo' = todo \ {k}
       /\ \/ buf' = buf \union {k} /\ UNCHANGED tmp
          \/ buf' = {} /\ tmp' = tmp \union buf \union {k}
  /\ UNCHANGED <<pc, cache, file, runs>>

\* Mutant: the temporary file is closed without flushing the buffer.
FlushForgotten ==
  /\ pc = "write" /\ todo = {}
  /\ buf' = {} /\ pc' = "close"
  /\ UNCHANGED <<cache, todo, tmp, file, runs>>

Flush ==
  /\ pc = "write" /\ todo = {}
  /\ tmp' = tmp \union buf /\ buf' = {} /\ pc' = "close"
  /\ UNCHANGED <<cache, todo, file, runs>>

\* A failed write, flush or close: the temporary file is removed, if it can be.
WriteFailed ==
  /\ pc \in {"write", "close"} /\ DiskMayFail
  /\ SaveFailed
  /\ tmp' \in {tmp, {}}
  /\ UNCHANGED <<cache, file, runs>>

Close ==
  /\ pc = "close"
  /\ pc' = "rename"
  /\ UNCHANGED <<cache, todo, buf, tmp, file, runs>>

Rename ==
  /\ pc = "rename"
  /\ file' = tmp /\ tmp' = {} /\ pc' = "off"
  /\ UNCHANGED <<cache, todo, buf, runs>>

RenameFailed ==
  /\ pc = "rename" /\ DiskMayFail
  /\ SaveFailed
  /\ UNCHANGED <<cache, tmp, file, runs>>

Save ==
  \/ Snapshot \/ Create \/ CreateFailed \/ Write \/ Flush \/ WriteFailed
  \/ Close \/ Rename \/ RenameFailed

\* The process dies: a signal, os.Exit after the second Ctrl-C, a panic.
Crash ==
  /\ pc \notin {"off", "refused"}
  /\ pc' = "off" /\ cache' = {} /\ todo' = {} /\ buf' = {}
  /\ UNCHANGED <<tmp, file, runs>>

Terminated == pc \in {"off", "refused"} /\ runs = MaxRuns /\ UNCHANGED vars

Next ==
  \/ Start \/ Load \/ LoadFailed \/ \E u \in Urls : MarkVisited(u)
  \/ Save \/ Crash \/ Terminated

Spec == Init /\ [][Next]_vars

-----------------------------------------------------------------------------
(* Properties.                                                             *)

\* Every variable keeps its type, and what is renamed holds no more than what Save
\* was given to write.
TypeOK ==
  /\ pc \in {"off", "load", "refused", "crawl", "create", "write", "close", "rename"}
  /\ cache \subseteq Urls /\ todo \subseteq Urls /\ buf \subseteq Urls
  /\ tmp \subseteq Urls /\ file \subseteq Urls
  /\ runs \in 0..MaxRuns
  /\ pc \in {"write", "close", "rename"} => todo \union buf \union tmp \subseteq cache

\* The file is replaced as a whole: whenever it changes it becomes the complete
\* set of URLs the run has visited, never a part of it, wherever an earlier or
\* the present run has died or failed.
SavedWhole == [][file' # file => file' = cache]_vars

\* What an earlier run has saved is not new to this one, when canonicalURL() gives a
\* canonical URL back unchanged.
Idempotent == \A u \in Urls : Canon[Canon[u]] = Canon[u]
Recognised == pc = "crawl" => file \subseteq cache

\* No saved URL is ever forgotten: neither a run that dies while saving, nor one
\* whose Load or Save fails, nor a later successful one shrinks the file.
GrowsOnly == [][file \subseteq file']_vars

=============================================================================
