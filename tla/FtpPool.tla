------------------------------ MODULE FtpPool -------------------------------
(***************************************************************************)
(* The FTP connection pools of pkg/ftp_conn_cache.go, and ftpListRaw() of  *)
(* pkg/crawler_ftp.go, the one caller that takes connections out of them.  *)
(*                                                                         *)
(* A worker looks its pool up, takes a token, takes the idle connection    *)
(* used last or dials, lists, and gives everything back; after a failed    *)
(* listing it does so a second time.  The steps follow the locks: what is  *)
(* done under one lock is one step.                                        *)
(***************************************************************************)
EXTENDS Integers, Sequences, FiniteSets

CONSTANTS
  Workers,       \* the goroutines that list directories
  Keys,          \* servers and logins: the keys of ftpConnPools
  Conns,         \* names for connections; a name is used again once closed
  PoolSize,      \* ftpPoolSize()
  MaxLists,      \* bound: listings per worker
  ListMayFail,   \* may LIST fail on a live connection?
  DialMayFail,   \* may dialling or login fail?
  NoConn         \* conn == nil

ASSUME PoolAssumption ==
  /\ IsFiniteSet(Workers) /\ IsFiniteSet(Keys) /\ Keys # {} /\ IsFiniteSet(Conns)
  /\ PoolSize \in Nat \ {0} /\ MaxLists \in Nat
  /\ {ListMayFail, DialMayFail} \subseteq BOOLEAN
  /\ NoConn \notin Conns

VARIABLES
  made,      \* keys with a pool in ftpConnPools
  tokens,    \* tokens in tokenSem, for each pool
  idle,      \* the pool's idle connections
  active,    \* the pool's count of connections in use
  pc,        \* where each worker is in ftpListRaw
  key,       \* the key of the server it lists
  conn,      \* the connection it holds
  attempt,   \* 1, or 2 for the retry
  fresh,     \* its connection was dialled for this attempt
  lists,     \* listings it has begun
  open,      \* connections not closed by Quit
  stale,     \* open connections the server has dropped
  ctxDone,   \* the context of the crawl is done
  closed     \* ftpConnCacheCloseAll has run

poolVars == <<made, tokens, idle, active>>
callVars == <<key, attempt, lists>>
vars == <<made, tokens, idle, active, pc, key, conn, attempt, fresh, lists, open, stale,
          ctxDone, closed>>

Init ==
  /\ made = {} /\ tokens = [k \in Keys |-> 0]
  /\ idle = [k \in Keys |-> <<>>] /\ active = [k \in Keys |-> 0]
  /\ pc = [w \in Workers |-> "idle"]
  /\ key = [w \in Workers |-> CHOOSE k \in Keys : TRUE]   \* not read before Begin
  /\ conn = [w \in Workers |-> NoConn] /\ attempt = [w \in Workers |-> 1]
  /\ fresh = [w \in Workers |-> FALSE] /\ lists = [w \in Workers |-> 0]
  /\ open = {} /\ stale = {} /\ ctxDone = FALSE /\ closed = FALSE

Goto(w, l) == pc' = [pc EXCEPT ![w] = l]

-----------------------------------------------------------------------------
(* ftpListRaw and ftpConnPoolGet.                                          *)

Begin(w) ==
  /\ pc[w] = "idle" /\ lists[w] < MaxLists /\ ~closed
  /\ \E k \in Keys : key' = [key EXCEPT ![w] = k]
  /\ lists' = [lists EXCEPT ![w] = @ + 1] /\ attempt' = [attempt EXCEPT ![w] = 1]
  /\ Goto(w, "lookup")
  /\ UNCHANGED <<poolVars, conn, fresh, open, stale, ctxDone, closed>>

\* Mutant: looking up a pool always makes a new one.
LookupResets(w) ==
  /\ pc[w] = "lookup" /\ ~ctxDone
  /\ made' = made \union {key[w]}
  /\ tokens' = [tokens EXCEPT ![key[w]] = PoolSize]
  /\ Goto(w, "acquire")
  /\ UNCHANGED <<idle, active, callVars, conn, fresh, open, stale, ctxDone, closed>>

\* Under ftpConnMu: find the pool, or make one with all its tokens.
Lookup(w) ==
  /\ pc[w] = "lookup" /\ ~ctxDone
  /\ made' = made \union {key[w]}
  /\ tokens' = IF key[w] \in made THEN tokens ELSE [tokens EXCEPT ![key[w]] = PoolSize]
  /\ Goto(w, "acquire")
  /\ UNCHANGED <<idle, active, callVars, conn, fresh, open, stale, ctxDone, closed>>

\* ctx.Err() before the lookup, or ctx.Done() while waiting for a token.
GiveUp(w) ==
  /\ pc[w] \in {"lookup", "acquire"} /\ ctxDone
  /\ Goto(w, "idle")
  /\ UNCHANGED <<poolVars, callVars, conn, fresh, open, stale, ctxDone, closed>>

Acquire(w) ==
  /\ pc[w] = "acquire" /\ tokens[key[w]] > 0
  /\ tokens' = [tokens EXCEPT ![key[w]] = @ - 1]
  /\ Goto(w, "pick")
  /\ UNCHANGED <<made, idle, active, callVars, conn, fresh, open, stale, ctxDone, closed>>

\* Mutant: the idle connection is used but stays in the pool.
PickShared(w) ==
  /\ pc[w] = "pick" /\ idle[key[w]] # <<>>
  /\ LET cs == idle[key[w]]
     IN  conn' = [conn EXCEPT ![w] = cs[Len(cs)]]
  /\ active' = [active EXCEPT ![key[w]] = @ + 1]
  /\ fresh' = [fresh EXCEPT ![w] = FALSE]
  /\ Goto(w, "list")
  /\ UNCHANGED <<made, tokens, idle, callVars, open, stale, ctxDone, closed>>

\* Under mu: the connection returned last is taken first.
PickIdle(w) ==
  /\ pc[w] = "pick" /\ idle[key[w]] # <<>>
  /\ LET cs == idle[key[w]]
     IN  /\ conn' = [conn EXCEPT ![w] = cs[Len(cs)]]
         /\ idle' = [idle EXCEPT ![key[w]] = SubSeq(cs, 1, Len(cs) - 1)]
  /\ active' = [active EXCEPT ![key[w]] = @ + 1]
  /\ fresh' = [fresh EXCEPT ![w] = FALSE]
  /\ Goto(w, "list")
  /\ UNCHANGED <<made, tokens, callVars, open, stale, ctxDone, closed>>

\* Mutant: dial although an idle connection is there.
PickNewAlways(w) ==
  /\ pc[w] = "pick"
  /\ active' = [active EXCEPT ![key[w]] = @ + 1]
  /\ Goto(w, "dial")
  /\ UNCHANGED <<made, tokens, idle, callVars, conn, fresh, open, stale, ctxDone, closed>>

PickNew(w) ==
  /\ pc[w] = "pick" /\ idle[key[w]] = <<>>
  /\ active' = [active EXCEPT ![key[w]] = @ + 1]
  /\ Goto(w, "dial")
  /\ UNCHANGED <<made, tokens, idle, callVars, conn, fresh, open, stale, ctxDone, closed>>

Dial(w) ==
  /\ pc[w] = "dial"
  /\ \E c \in Conns \ open : /\ conn' = [conn EXCEPT ![w] = c]
                             /\ open' = open \union {c} /\ stale' = stale \ {c}
  /\ fresh' = [fresh EXCEPT ![w] = TRUE]
  /\ Goto(w, "list")
  /\ UNCHANGED <<poolVars, callVars, ctxDone, closed>>

\* Mutant: the error path of get() forgets the token.
DialFailedKeepsToken(w) ==
  /\ pc[w] = "dial" /\ (DialMayFail \/ ctxDone)
  /\ active' = [active EXCEPT ![key[w]] = @ - 1]
  /\ Goto(w, "idle")
  /\ UNCHANGED <<made, tokens, idle, callVars, conn, fresh, open, stale, ctxDone, closed>>

\* get() gives up its place, and then its token; the error ends ftpListRaw.
DialFailed(w) ==
  /\ pc[w] = "dial" /\ (DialMayFail \/ ctxDone)
  /\ active' = [active EXCEPT ![key[w]] = @ - 1]
  /\ Goto(w, "failed")
  /\ UNCHANGED <<made, tokens, idle, callVars, conn, fresh, open, stale, ctxDone, closed>>

\* releaseToken() never blocks: a token too many is dropped.
TokenBack(k) == tokens' = [tokens EXCEPT ![k] = IF @ < PoolSize THEN @ + 1 ELSE @]

ReleaseToken(w) ==
  /\ pc[w] \in {"failed", "dropped"}
  /\ TokenBack(key[w])
  /\ \/ /\ pc[w] = "dropped" /\ attempt[w] = 1
        /\ attempt' = [attempt EXCEPT ![w] = 2] /\ Goto(w, "lookup")
     \/ /\ pc[w] = "failed" \/ attempt[w] = 2
        /\ Goto(w, "idle") /\ UNCHANGED attempt
  /\ UNCHANGED <<made, idle, active, key, lists, conn, fresh, open, stale, ctxDone, closed>>

\* The listing succeeded: put() returns place, connection and token under mu.
Put(w) ==
  /\ pc[w] = "list" /\ conn[w] \notin stale
  /\ active' = [active EXCEPT ![key[w]] = @ - 1]
  /\ idle' = [idle EXCEPT ![key[w]] = Append(@, conn[w])]
  /\ TokenBack(key[w])
  /\ conn' = [conn EXCEPT ![w] = NoConn]
  /\ Goto(w, "idle")
  /\ UNCHANGED <<made, callVars, fresh, open, stale, ctxDone, closed>>

\* Mutant: a broken connection is dropped without Quit.
ListFailedNoQuit(w) ==
  /\ pc[w] = "list" /\ (conn[w] \in stale \/ ListMayFail \/ ctxDone)
  /\ conn' = [conn EXCEPT ![w] = NoConn]
  /\ Goto(w, "discard")
  /\ UNCHANGED <<poolVars, callVars, fresh, open, stale, ctxDone, closed>>

\* The listing failed: discard() closes the connection first.
ListFailed(w) ==
  /\ pc[w] = "list" /\ (conn[w] \in stale \/ ListMayFail \/ ctxDone)
  /\ open' = open \ {conn[w]} /\ stale' = stale \ {conn[w]}
  /\ conn' = [conn EXCEPT ![w] = NoConn]
  /\ Goto(w, "discard")
  /\ UNCHANGED <<poolVars, callVars, fresh, ctxDone, closed>>

Discard(w) ==
  /\ pc[w] = "discard"
  /\ active' = [active EXCEPT ![key[w]] = @ - 1]
  /\ Goto(w, "dropped")
  /\ UNCHANGED <<made, tokens, idle, callVars, conn, fresh, open, stale, ctxDone, closed>>

\* Steps of a listing once it has begun.
ListStep(w) ==
  \/ Lookup(w) \/ GiveUp(w) \/ Acquire(w) \/ PickIdle(w) \/ PickNew(w) \/ Dial(w)
  \/ DialFailed(w) \/ ReleaseToken(w) \/ Put(w) \/ ListFailed(w) \/ Discard(w)

-----------------------------------------------------------------------------
\* RunWithContext returns, and with it the crawl has ended.
CloseAll ==
  /\ ~closed /\ \A w \in Workers : pc[w] = "idle"
  /\ closed' = TRUE /\ made' = {}
  /\ open' = open \ UNION {{idle[k][i] : i \in 1..Len(idle[k])} : k \in made}
  /\ stale' = stale \intersect open'
  /\ idle' = [k \in Keys |-> <<>>]
  /\ UNCHANGED <<tokens, active, pc, callVars, conn, fresh, ctxDone>>

\* The server drops a connection, idle or not.
ServerDrops ==
  /\ \E c \in open \ stale : stale' = stale \union {c}
  /\ UNCHANGED <<poolVars, pc, callVars, conn, fresh, open, ctxDone, closed>>

Cancel ==
  /\ ~ctxDone /\ ~closed
  /\ ctxDone' = TRUE
  /\ UNCHANGED <<poolVars, pc, callVars, conn, fresh, open, stale, closed>>

Terminated == closed /\ UNCHANGED vars

Next ==
  \/ \E w \in Workers : Begin(w) \/ ListStep(w)
  \/ CloseAll \/ ServerDrops \/ Cancel \/ Terminated

Spec     == Init /\ [][Next]_vars
FairSpec == Spec /\ \A w \in Workers : WF_vars(ListStep(w))

-----------------------------------------------------------------------------
(* Properties.                                                             *)

Pcs == {"idle", "lookup", "acquire", "pick", "dial", "list", "discard", "failed", "dropped"}

\* Every variable keeps its type, and no counter of a pool runs below zero or
\* above PoolSize.
TypeOK ==
  /\ made \subseteq Keys /\ open \subseteq Conns /\ stale \subseteq open
  /\ tokens \in [Keys -> 0..PoolSize] /\ active \in [Keys -> 0..PoolSize]
  /\ idle \in [Keys -> Seq(Conns)]
  /\ pc \in [Workers -> Pcs] /\ key \in [Workers -> Keys]
  /\ conn \in [Workers -> Conns \union {NoConn}]
  /\ attempt \in [Workers -> {1, 2}] /\ fresh \in [Workers -> BOOLEAN]
  /\ lists \in [Workers -> 0..MaxLists]
  /\ ctxDone \in BOOLEAN /\ closed \in BOOLEAN

\* Workers that hold a token of pool k, and those it counts as active.
Holders(k) == {w \in Workers : key[w] = k /\
                 pc[w] \in {"pick", "dial", "list", "discard", "failed", "dropped"}}
InUse(k)   == {w \in Workers : key[w] = k /\ pc[w] \in {"dial", "list", "discard"}}

\* Tokens are neither lost nor invented on any path through get, put, discard and
\* their errors, and the pool's own count agrees with its callers.
TokensExact ==
  \A k \in made : /\ tokens[k] + Cardinality(Holders(k)) = PoolSize
                  /\ active[k] = Cardinality(InUse(k))

Idle(k) == {idle[k][i] : i \in 1..Len(idle[k])}

\* A connection has one owner: it is idle once in one pool, or held by one worker.
ExclusiveUse ==
  /\ \A k \in Keys : Cardinality(Idle(k)) = Len(idle[k])
  /\ \A j, k \in Keys : j # k => Idle(j) \intersect Idle(k) = {}
  /\ \A w \in Workers : conn[w] # NoConn =>
       /\ \A k \in Keys : conn[w] \notin Idle(k)
       /\ \A v \in Workers : conn[v] = conn[w] => v = w

\* No server ever sees more than PoolSize connections, counting the idle ones and
\* the ones being dialled.
ConnectionLimit ==
  \A k \in Keys : Len(idle[k]) + active[k] <= PoolSize

\* Every connection ever dialled has been closed when the run is over: none is
\* forgotten by a failed listing, a retry or a cancellation.
NoneLeaked == closed => open = {}

\* A listing that has begun ends, with fewer tokens than workers, stale
\* connections, retries and cancellation.
ListingEnds == \A w \in Workers : pc[w] = "lookup" ~> pc[w] = "idle"

=============================================================================
