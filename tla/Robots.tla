------------------------------- MODULE Robots -------------------------------
(***************************************************************************)
(* pkg/robots_http.go: getRobotsData() with its cache and its inflight     *)
(* calls, asked by all workers at once; fetchRobotsData() with its second  *)
(* attempt over the other scheme.                                          *)
(*                                                                         *)
(* A robotsCall is known by its number, since followers may still hold one *)
(* that has left the inflight map.                                         *)
(***************************************************************************)
EXTENDS Integers, Sequences, FiniteSets

CONSTANTS
  Workers,       \* goroutines that ask
  Hosts,
  Answer,        \* what each host answers over each scheme to GET /robots.txt
  MaxAsks        \* bound: questions per worker

Schemes == {"http", "https"}

\* rules: 200 and a body that parses; open: any other answer that the client hands on;
\* refused: an error of the client, which a 429 or 5xx to its last attempt is as well;
\* badHost: http.NewRequest rejects the URL built from the host.
ASSUME RobotsAssumption ==
  /\ IsFiniteSet(Workers) /\ IsFiniteSet(Hosts)
  /\ Answer \in [Hosts -> [Schemes -> {"rules", "open", "refused", "badHost"}]]
  /\ MaxAsks \in Nat

VARIABLES
  robotsCache,   \* verdict cached for each host, or "none"
  inflight,      \* number of the call in robotsInflight for each host, or 0
  calls,         \* every robotsCall made: its host, its result and wg
  pc,            \* where each worker is
  host, scheme,  \* of the URL it asks about
  call,          \* the call it leads or waits for
  ans,           \* what getRobotsData last returned to it
  asks,          \* questions it has asked
  down           \* requests may fail: the network is gone, or ctx is done

vars == <<robotsCache, inflight, calls, pc, host, scheme, call, ans, asks, down>>

Init ==
  /\ robotsCache = [h \in Hosts |-> "none"] /\ inflight = [h \in Hosts |-> 0]
  /\ calls = <<>>
  /\ pc = [w \in Workers |-> "idle"]
  /\ host \in [Workers -> Hosts] /\ scheme = [w \in Workers |-> "http"]
  /\ call = [w \in Workers |-> 0] /\ ans = [w \in Workers |-> "none"]
  /\ asks = [w \in Workers |-> 0] /\ down = FALSE

Goto(w, l)   == pc' = [pc EXCEPT ![w] = l]
Reply(w, r)  == ans' = [ans EXCEPT ![w] = r] /\ Goto(w, "idle")
Other(s)     == IF s = "http" THEN "https" ELSE "http"

-----------------------------------------------------------------------------
\* urlAllowedByRobots() asks about a URL; fetchRobotsData takes any scheme but
\* https for http.
Ask(w) ==
  /\ pc[w] = "idle" /\ asks[w] < MaxAsks
  /\ \E h \in Hosts, s \in Schemes : /\ host' = [host EXCEPT ![w] = h]
                                     /\ scheme' = [scheme EXCEPT ![w] = s]
  /\ asks' = [asks EXCEPT ![w] = @ + 1]
  /\ Goto(w, "peek")
  /\ UNCHANGED <<robotsCache, inflight, calls, call, ans, down>>

\* Under robotsCacheMu.
Peek(w) ==
  /\ pc[w] = "peek"
  /\ \/ robotsCache[host[w]] # "none" /\ Reply(w, robotsCache[host[w]])
     \/ robotsCache[host[w]] = "none" /\ Goto(w, "join") /\ UNCHANGED ans
  /\ UNCHANGED <<robotsCache, inflight, calls, host, scheme, call, asks, down>>

\* Mutant: every worker that finds no cached answer leads a call of its own.
LeadAlways(w) ==
  /\ pc[w] = "join"
  /\ calls' = Append(calls, [host |-> host[w], res |-> "none", done |-> FALSE])
  /\ inflight' = [inflight EXCEPT ![host[w]] = Len(calls')]
  /\ call' = [call EXCEPT ![w] = Len(calls')]
  /\ Goto(w, "fetch")
  /\ UNCHANGED <<robotsCache, host, scheme, ans, asks, down>>

\* Under robotsInflightMu: no call for the host, so this worker leads one.
Lead(w) ==
  /\ pc[w] = "join" /\ inflight[host[w]] = 0
  /\ calls' = Append(calls, [host |-> host[w], res |-> "none", done |-> FALSE])
  /\ inflight' = [inflight EXCEPT ![host[w]] = Len(calls')]
  /\ call' = [call EXCEPT ![w] = Len(calls')]
  /\ Goto(w, "fetch")
  /\ UNCHANGED <<robotsCache, host, scheme, ans, asks, down>>

\* Under robotsInflightMu: wait for the leader of the call that is under way.
Follow(w) ==
  /\ pc[w] = "join" /\ inflight[host[w]] # 0
  /\ call' = [call EXCEPT ![w] = inflight[host[w]]]
  /\ Goto(w, "wait")
  /\ UNCHANGED <<robotsCache, inflight, calls, host, scheme, ans, asks, down>>

\* The answer of the host to the request the worker has made, if none failed.
Heard(w) == Answer[host[w]][scheme[w]]
Refused(w) == Heard(w) = "refused" \/ (down /\ Heard(w) # "badHost")

\* Mutant: a refused request is not repeated over the other scheme.
FetchRefusedOnce(w) ==
  /\ pc[w] = "fetch" /\ Refused(w)
  /\ Goto(w, "other")
  /\ UNCHANGED <<robotsCache, inflight, calls, host, scheme, call, ans, asks, down>>

\* No response at all: try the other scheme.
FetchRefused(w) ==
  /\ pc[w] = "fetch" /\ Refused(w)
  /\ scheme' = [scheme EXCEPT ![w] = Other(@)]
  /\ Goto(w, "other")
  /\ UNCHANGED <<robotsCache, inflight, calls, host, call, ans, asks, down>>

\* What fetchRobotsData returns, and caches unless it is an error: it fails open
\* when the second request fails too, or the body cannot be read or parsed.
Verdict(w, r) ==
  \/ pc[w] = "fetch" /\ Heard(w) \in {"rules", "open"} /\ r = Heard(w)
  \/ pc[w] = "other" /\ Heard(w) \in {"rules", "open"} /\ r = Heard(w)
  \/ pc[w] = "other" /\ Refused(w) /\ r = "open"
  \/ pc[w] \in {"fetch", "other"} /\ down /\ Heard(w) # "badHost" /\ r = "open"
  \/ pc[w] \in {"fetch", "other"} /\ Heard(w) = "badHost" /\ r = "err"

\* cacheRobotsData(), under robotsCacheMu; then the result goes into the call.
Store(w) ==
  /\ \E r \in {"rules", "open", "err"} :
       /\ Verdict(w, r)
       /\ robotsCache' = IF r = "err" THEN robotsCache ELSE [robotsCache EXCEPT ![host[w]] = r]
       /\ calls' = [calls EXCEPT ![call[w]].res = r]
  /\ Goto(w, "publish")
  /\ UNCHANGED <<inflight, host, scheme, call, ans, asks, down>>

\* Mutant: the group is released only after a successful fetch.
PublishSuccess(w) ==
  /\ pc[w] = "publish"
  /\ calls' = [calls EXCEPT ![call[w]].done = (calls[call[w]].res # "err")]
  /\ Goto(w, "clear")
  /\ UNCHANGED <<robotsCache, inflight, host, scheme, call, ans, asks, down>>

\* wg.Done()
Publish(w) ==
  /\ pc[w] = "publish"
  /\ calls' = [calls EXCEPT ![call[w]].done = TRUE]
  /\ Goto(w, "clear")
  /\ UNCHANGED <<robotsCache, inflight, host, scheme, call, ans, asks, down>>

\* Under robotsInflightMu; the leader returns what it put into the call.
Clear(w) ==
  /\ pc[w] = "clear"
  /\ inflight' = [inflight EXCEPT ![host[w]] = 0]
  /\ Reply(w, calls[call[w]].res)
  /\ UNCHANGED <<robotsCache, calls, host, scheme, call, asks, down>>

\* Mutant: a follower does not wait.
WokenEarly(w) ==
  /\ pc[w] = "wait"
  /\ Reply(w, calls[call[w]].res)
  /\ UNCHANGED <<robotsCache, inflight, calls, host, scheme, call, asks, down>>

\* wg.Wait() returns.
Woken(w) ==
  /\ pc[w] = "wait" /\ calls[call[w]].done
  /\ Reply(w, calls[call[w]].res)
  /\ UNCHANGED <<robotsCache, inflight, calls, host, scheme, call, asks, down>>

\* Steps of a question once it is asked.
AnswerStep(w) ==
  \/ Peek(w) \/ Lead(w) \/ Follow(w) \/ FetchRefused(w) \/ Store(w)
  \/ Publish(w) \/ Clear(w) \/ Woken(w)

GoDown ==
  /\ ~down
  /\ down' = TRUE
  /\ UNCHANGED <<robotsCache, inflight, calls, pc, host, scheme, call, ans, asks>>

Terminated ==
  /\ \A w \in Workers : pc[w] = "idle" /\ asks[w] = MaxAsks
  /\ UNCHANGED vars

Next == (\E w \in Workers : Ask(w) \/ AnswerStep(w)) \/ GoDown \/ Terminated

Spec     == Init /\ [][Next]_vars
FairSpec == Spec /\ \A w \in Workers : WF_vars(AnswerStep(w))

-----------------------------------------------------------------------------
(* Properties.                                                             *)

Pcs == {"idle", "peek", "join", "fetch", "other", "publish", "clear", "wait"}

\* Every variable keeps its type; errors in particular are never cached.
TypeOK ==
  /\ robotsCache \in [Hosts -> {"none", "rules", "open"}]
  /\ inflight \in [Hosts -> 0..Len(calls)]
  /\ calls \in Seq([host : Hosts, res : {"none", "rules", "open", "err"}, done : BOOLEAN])
  /\ pc \in [Workers -> Pcs]
  /\ host \in [Workers -> Hosts] /\ scheme \in [Workers -> Schemes]
  /\ call \in [Workers -> 0..Len(calls)]
  /\ ans \in [Workers -> {"none", "rules", "open", "err"}]
  /\ asks \in [Workers -> 0..MaxAsks] /\ down \in BOOLEAN

Leaders(h) == {w \in Workers : host[w] = h /\ pc[w] \in {"fetch", "other", "publish", "clear"}}

\* However the workers interleave, one host never gets requests for robots.txt from
\* two of them at the same time, and the inflight map names the call of the one.
OneAtATime ==
  \A h \in Hosts :
    /\ Cardinality(Leaders(h)) <= 1
    /\ IF inflight[h] = 0 THEN Leaders(h) = {} ELSE \E w \in Leaders(h) : call[w] = inflight[h]

\* getRobotsData never returns without a result: followers see what the leader has
\* put into the call, also when they hold on to a call that has left the map.
\* (A nil result with a nil error is a nil dereference in TestAgent.)
AnswersSettled ==
  \A w \in Workers : pc[w] = "idle" /\ asks[w] > 0 => ans[w] # "none"

\* As long as no request fails, a host whose rules can be had over one of the
\* schemes, the other being refused at worst, is never taken for open.
RulesNotMissed ==
  ~down =>
    \A h \in Hosts :
      (\E s \in Schemes : Answer[h][s] = "rules")
        /\ (\A s \in Schemes : Answer[h][s] \in {"rules", "refused"}) =>
      \A w \in Workers : host[w] = h /\ pc[w] = "idle" /\ asks[w] > 0 => ans[w] = "rules"

\* Every worker gets its answer: nobody waits for a call whose leader is gone,
\* whatever the fetch comes to.
Answered == \A w \in Workers : pc[w] = "peek" ~> pc[w] = "idle"

=============================================================================
