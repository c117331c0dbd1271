---------------------------- MODULE RobotsProofs ----------------------------
(***************************************************************************)
(* Proofs about getRobotsData, for any number of workers, hosts and        *)
(* questions and whatever the hosts answer.                                *)
(*                                                                         *)
(* The argument: the inflight map names the call of whoever is leading     *)
(* (Leading, Led), so a worker that finds no call under way finds no       *)
(* leader either, and there is never a second one (Single).  What is in a  *)
(* call before wg.Done() is there when a follower reads it (Settled),      *)
(* whether or not the call is still in the map.  Answers are about the     *)
(* right host because calls do not change hosts (Right), and right because *)
(* the second scheme is only tried when the first was refused (Tried).     *)
(***************************************************************************)
EXTENDS Robots, FiniteSetTheorems, SequenceTheorems, TLAPS

Call == [host : Hosts, res : {"none", "rules", "open", "err"}, done : BOOLEAN]

Leads(w) == pc[w] \in {"fetch", "other", "publish", "clear"}

Leading ==
  \A w \in Workers : Leads(w) => call[w] = inflight[host[w]] /\ call[w] # 0

Led == \A h \in Hosts : inflight[h] # 0 => \E w \in Workers : host[w] = h /\ Leads(w)

Single == \A v, w \in Workers : Leads(v) /\ Leads(w) /\ host[v] = host[w] => v = w

Following == \A w \in Workers : pc[w] = "wait" => call[w] # 0

FlightInv == TypeOK /\ Leading /\ Led /\ Single /\ Following

Settled ==
  /\ \A i \in 1 .. Len(calls) : calls[i].done => calls[i].res # "none"
  /\ \A w \in Workers : pc[w] \in {"publish", "clear"} => calls[call[w]].res # "none"
  /\ AnswersSettled

-----------------------------------------------------------------------------
\* How the calls change: not at all, by a new one, or by one field of one call.
SameCalls == UNCHANGED calls

NewCall(h) ==
  /\ Len(calls') = Len(calls) + 1
  /\ \A i \in 1 .. Len(calls) : calls'[i] = calls[i]
  /\ calls'[Len(calls) + 1] = [host |-> h, res |-> "none", done |-> FALSE]

Changed(c, r, d) ==
  /\ Len(calls') = Len(calls)
  /\ \A i \in 1 .. Len(calls) : i # c => calls'[i] = calls[i]
  /\ calls'[c].host = calls[c].host /\ calls'[c].res = r /\ calls'[c].done = d

\* A new call leaves the earlier ones alone.
LEMMA Appended ==
  ASSUME TypeOK, NEW w \in Workers, Lead(w)
  PROVE  NewCall(host[w]) /\ calls' \in Seq(Call)
<1>1. calls \in Seq(Call)
  BY DEF TypeOK, Call
<1>2. [host |-> host[w], res |-> "none", done |-> FALSE] \in Call
  BY DEF TypeOK, Call
<1>3. calls' = Append(calls, [host |-> host[w], res |-> "none", done |-> FALSE])
  BY DEF Lead
<1> HIDE DEF Call
<1> QED BY <1>1, <1>2, <1>3, AppendProperties DEF NewCall

\* A verdict goes into the leader's call only.
LEMMA Stored ==
  ASSUME TypeOK, NEW w \in Workers, call[w] \in 1 .. Len(calls), Store(w)
  PROVE  /\ calls' \in Seq(Call)
         /\ \E r \in {"rules", "open", "err"} :
              /\ Verdict(w, r)
              /\ robotsCache' = IF r = "err" THEN robotsCache ELSE [robotsCache EXCEPT ![host[w]] = r]
              /\ Changed(call[w], r, calls[call[w]].done)
<1>1. PICK r \in {"rules", "open", "err"} :
        /\ Verdict(w, r)
        /\ robotsCache' = IF r = "err" THEN robotsCache ELSE [robotsCache EXCEPT ![host[w]] = r]
        /\ calls' = [calls EXCEPT ![call[w]].res = r]
  BY DEF Store
<1> DEFINE x == [calls[call[w]] EXCEPT !.res = r]
<1>0. calls \in Seq(Call)
  BY DEF TypeOK, Call
<1>2. calls \in Seq(Call) /\ calls[call[w]] \in Call
  BY <1>0, ElementOfSeq
<1>3. /\ x \in Call /\ x.res = r
      /\ x.host = calls[call[w]].host /\ x.done = calls[call[w]].done
  BY <1>2 DEF Call
<1>4. calls' = [calls EXCEPT ![call[w]] = x]
  BY <1>1
<1> HIDE DEF x
<1>5. Changed(call[w], r, calls[call[w]].done) /\ calls' \in Seq(Call)
  BY <1>2, <1>3, <1>4, ExceptSeq DEF Changed
<1> QED BY <1>1, <1>5

\* A published call keeps its host and its result.
LEMMA Published ==
  ASSUME TypeOK, NEW w \in Workers, call[w] \in 1 .. Len(calls), Publish(w)
  PROVE  calls' \in Seq(Call) /\ Changed(call[w], calls[call[w]].res, TRUE)
<1> DEFINE x == [calls[call[w]] EXCEPT !.done = TRUE]
<1>0. calls \in Seq(Call)
  BY DEF TypeOK, Call
<1>1. calls \in Seq(Call) /\ calls[call[w]] \in Call
  BY <1>0, ElementOfSeq
<1>2. /\ x \in Call /\ x.done = TRUE
      /\ x.host = calls[call[w]].host /\ x.res = calls[call[w]].res
  BY <1>1 DEF Call
<1>3. calls' = [calls EXCEPT ![call[w]] = x]
  BY DEF Publish
<1> HIDE DEF x
<1> QED BY <1>1, <1>2, <1>3, ExceptSeq DEF Changed

-----------------------------------------------------------------------------
\* A leader or a follower has a call.
LEMMA HasCall ==
  ASSUME TypeOK, Leading, Following, NEW w \in Workers, Leads(w) \/ pc[w] = "wait"
  PROVE  call[w] \in 1 .. Len(calls) /\ Len(calls) \in Nat
BY DEF TypeOK, Leading, Following

\* The types are inductive.
LEMMA TypesKept ==
  ASSUME TypeOK, Leading, Following, [Next]_vars
  PROVE  TypeOK'
<1>0. MaxAsks \in Nat /\ Len(calls) \in Nat /\ calls \in Seq(Call)
  BY RobotsAssumption DEF TypeOK, Call
<1> USE DEF TypeOK, Goto, Reply, Pcs
<1>1. ASSUME NEW w \in Workers, Ask(w) PROVE TypeOK'
  <2>1. asks[w] + 1 \in 0 .. MaxAsks
    BY <1>0, <1>1 DEF Ask
  <2> QED BY <1>1, <2>1 DEF Ask
<1>2. ASSUME NEW w \in Workers, Peek(w) \/ Follow(w) \/ FetchRefused(w) PROVE TypeOK'
  <2>1. CASE Peek(w)
    BY <2>1 DEF Peek
  <2>2. CASE Follow(w)
    BY <2>2 DEF Follow
  <2>3. CASE FetchRefused(w)
    BY <2>3 DEF FetchRefused, Other, Schemes
  <2> QED BY <1>2, <2>1, <2>2, <2>3
<1>3. ASSUME NEW w \in Workers, Lead(w) PROVE TypeOK'
  <2>1. Len(calls') = Len(calls) + 1 /\ calls' \in Seq(Call)
    BY <1>3, Appended DEF NewCall
  <2>2. /\ inflight' = [inflight EXCEPT ![host[w]] = Len(calls')]
        /\ call' = [call EXCEPT ![w] = Len(calls')]
    BY <1>3 DEF Lead
  <2>3. inflight' \in [Hosts -> 0 .. Len(calls')] /\ call' \in [Workers -> 0 .. Len(calls')]
    BY <1>0, <2>1, <2>2
  <2>4. /\ pc' \in [Workers -> Pcs]
        /\ UNCHANGED <<robotsCache, host, scheme, ans, asks, down>>
    BY <1>3 DEF Lead
  <2> QED BY <2>1, <2>3, <2>4 DEF Call
<1>4. ASSUME NEW w \in Workers, Store(w) PROVE TypeOK'
  <2>1. Leads(w)
    BY <1>4 DEF Store, Verdict, Leads
  <2>2. call[w] \in 1 .. Len(calls)
    BY <2>1, HasCall
  <2>3. calls' \in Seq(Call) /\ Len(calls') = Len(calls)
    BY <1>4, <2>2, Stored DEF Changed
  <2>4. robotsCache' \in [Hosts -> {"none", "rules", "open"}]
    BY <1>4 DEF Store
  <2>5. /\ pc' \in [Workers -> Pcs] /\ UNCHANGED <<inflight, host, scheme, call, ans, asks, down>>
    BY <1>4 DEF Store
  <2> QED BY <2>3, <2>4, <2>5 DEF Call
<1>5. ASSUME NEW w \in Workers, Publish(w) PROVE TypeOK'
  <2>1. call[w] \in 1 .. Len(calls)
    BY <1>5, HasCall DEF Publish, Leads
  <2>2. calls' \in Seq(Call) /\ Len(calls') = Len(calls)
    BY <1>5, <2>1, Published DEF Changed
  <2>3. /\ pc' \in [Workers -> Pcs]
        /\ UNCHANGED <<robotsCache, inflight, host, scheme, call, ans, asks, down>>
    BY <1>5 DEF Publish
  <2> QED BY <2>2, <2>3 DEF Call
<1>6. ASSUME NEW w \in Workers, Clear(w) \/ Woken(w) PROVE TypeOK'
  <2>0. call[w] \in 1 .. Len(calls)
    BY <1>6, HasCall DEF Clear, Woken, Leads
  <2>1. calls[call[w]] \in Call
    BY <1>0, <2>0, ElementOfSeq
  <2>2. calls[call[w]].res \in {"none", "rules", "open", "err"}
    BY <2>1 DEF Call
  <2>3. CASE Clear(w)
    BY <1>0, <2>2, <2>3 DEF Clear
  <2>4. CASE Woken(w)
    BY <2>2, <2>4 DEF Woken
  <2> QED BY <1>6, <2>3, <2>4
<1>7. CASE GoDown \/ Terminated \/ UNCHANGED vars
  BY <1>7 DEF GoDown, Terminated, vars
<1> QED BY <1>1, <1>2, <1>3, <1>4, <1>5, <1>6, <1>7 DEF Next, AnswerStep

\* A worker that neither begins nor ends to lead.
LEMMA FlightUndisturbed ==
  ASSUME FlightInv, UNCHANGED inflight,
         \A v \in Workers : Leads(v)' <=> Leads(v),
         \A v \in Workers : Leads(v) => call'[v] = call[v] /\ host'[v] = host[v],
         \A v \in Workers : pc'[v] = "wait" => call'[v] # 0
  PROVE  Leading' /\ Led' /\ Single' /\ Following'
BY DEF FlightInv, Leading, Led, Single, Following

\* The invariant of the single flight is inductive.
LEMMA FlightKept ==
  ASSUME FlightInv, [Next]_vars
  PROVE  FlightInv'
<1>1. TypeOK /\ Leading /\ Led /\ Single /\ Following
  BY DEF FlightInv
<1>2. TypeOK'
  BY <1>1, TypesKept
<1> SUFFICES Leading' /\ Led' /\ Single' /\ Following'
  BY <1>2 DEF FlightInv
<1>3. ASSUME NEW w \in Workers,
             Ask(w) \/ Peek(w) \/ Follow(w) \/ FetchRefused(w) \/ Store(w) \/ Publish(w) \/ Woken(w)
      PROVE  Leading' /\ Led' /\ Single' /\ Following'
  <2>1. /\ UNCHANGED inflight
        /\ \A v \in Workers \ {w} : pc'[v] = pc[v] /\ call'[v] = call[v] /\ host'[v] = host[v]
        /\ Leads(w)' <=> Leads(w)
        /\ Leads(w) => call'[w] = call[w] /\ host'[w] = host[w]
        /\ pc'[w] = "wait" => call'[w] # 0
    <3> USE <1>1 DEF TypeOK, Goto, Reply, Leads
    <3>1. CASE Ask(w)
      BY <3>1 DEF Ask
    <3>2. CASE Peek(w)
      BY <3>2 DEF Peek
    <3>3. CASE Follow(w)
      BY <3>3 DEF Follow
    <3>4. CASE FetchRefused(w)
      BY <3>4 DEF FetchRefused
    <3>5. CASE Store(w)
      BY <3>5 DEF Store, Verdict
    <3>6. CASE Publish(w)
      BY <3>6 DEF Publish
    <3>7. CASE Woken(w)
      BY <3>7 DEF Woken
    <3> QED BY <1>3, <3>1, <3>2, <3>3, <3>4, <3>5, <3>6, <3>7
  <2>2. \A v \in Workers : Leads(v)' <=> Leads(v)
    BY <2>1 DEF Leads
  <2>3. \A v \in Workers : Leads(v) => call'[v] = call[v] /\ host'[v] = host[v]
    BY <2>1
  <2>4. \A v \in Workers : pc'[v] = "wait" => call'[v] # 0
    BY <1>1, <2>1 DEF Following
  <2> QED BY <2>1, <2>2, <2>3, <2>4, FlightUndisturbed
<1>4. ASSUME NEW w \in Workers, Lead(w) PROVE Leading' /\ Led' /\ Single' /\ Following'
  <2> DEFINE n == Len(calls')
  <2>1. n \in Nat \ {0}
    <3>1. Len(calls) \in Nat
      BY <1>1 DEF TypeOK
    <3>2. n = Len(calls) + 1
      BY <1>1, <1>4, Appended DEF NewCall
    <3> QED BY <3>1, <3>2
  <2>2. /\ \A v \in Workers : /\ host'[v] = host[v]
                              /\ call'[v] = IF v = w THEN n ELSE call[v]
                              /\ pc'[v] = IF v = w THEN "fetch" ELSE pc[v]
        /\ \A h \in Hosts : inflight'[h] = IF h = host[w] THEN n ELSE inflight[h]
        /\ host[w] \in Hosts /\ inflight[host[w]] = 0 /\ pc[w] = "join"
    <3>1. /\ call' = [call EXCEPT ![w] = n] /\ inflight' = [inflight EXCEPT ![host[w]] = n]
          /\ pc' = [pc EXCEPT ![w] = "fetch"] /\ host' = host
          /\ inflight[host[w]] = 0 /\ pc[w] = "join"
      BY <1>4 DEF Lead, Goto
    <3> HIDE DEF n
    <3> QED BY <1>1, <3>1 DEF TypeOK
  <2> HIDE DEF n
  <2>3. \A v \in Workers : Leads(v) => host[v] # host[w] /\ host[v] \in Hosts
    BY <1>1, <2>2 DEF Leading, TypeOK
  <2>4. \A v \in Workers : Leads(v)' <=> (v = w \/ Leads(v))
    BY <2>2 DEF Leads
  <2> QED BY <1>1, <2>1, <2>2, <2>3, <2>4 DEF Leading, Led, Single, Following
<1>5. ASSUME NEW w \in Workers, Clear(w) PROVE Leading' /\ Led' /\ Single' /\ Following'
  <2>1. /\ \A v \in Workers : /\ host'[v] = host[v] /\ call'[v] = call[v]
                              /\ pc'[v] = IF v = w THEN "idle" ELSE pc[v]
        /\ \A h \in Hosts : inflight'[h] = IF h = host[w] THEN 0 ELSE inflight[h]
        /\ Leads(w)
    BY <1>1, <1>5 DEF TypeOK, Clear, Goto, Reply, Leads
  <2>2. \A v \in Workers : Leads(v)' <=> (v # w /\ Leads(v))
    BY <2>1 DEF Leads
  <2>3. \A v \in Workers : Leads(v) /\ v # w => host[v] # host[w] /\ host[v] \in Hosts
    BY <1>1, <2>1 DEF Single, TypeOK
  <2>4. Leading' /\ Single' /\ Following'
    BY <1>1, <2>1, <2>2, <2>3 DEF Leading, Single, Following
  <2>5. Led'
    BY <1>1, <2>1, <2>2 DEF Led
  <2> QED BY <2>4, <2>5
<1>6. CASE GoDown \/ Terminated \/ UNCHANGED vars
  <2>1. UNCHANGED <<inflight, pc, call, host>>
    BY <1>6 DEF GoDown, Terminated, vars
  <2> QED BY <1>1, <2>1 DEF Leading, Led, Single, Following, Leads
<1> QED BY <1>3, <1>4, <1>5, <1>6 DEF Next, AnswerStep

\* At the start there is no call.
LEMMA FlightInitially == Init => FlightInv
<1> SUFFICES ASSUME Init PROVE FlightInv
  OBVIOUS
<1>1. Len(calls) = 0 /\ calls \in Seq(Call)
  BY DEF Init
<1>2. TypeOK
  <2>1. MaxAsks \in Nat /\ 0 \in 0 .. MaxAsks
    BY RobotsAssumption
  <2>2. /\ robotsCache \in [Hosts -> {"none", "rules", "open"}]
        /\ inflight \in [Hosts -> 0 .. Len(calls)] /\ call \in [Workers -> 0 .. Len(calls)]
    BY <1>1 DEF Init
  <2>3. /\ pc \in [Workers -> Pcs] /\ host \in [Workers -> Hosts] /\ scheme \in [Workers -> Schemes]
        /\ ans \in [Workers -> {"none", "rules", "open", "err"}]
        /\ asks \in [Workers -> 0 .. MaxAsks] /\ down \in BOOLEAN
    BY <2>1 DEF Init, Pcs, Schemes
  <2> QED BY <1>1, <2>2, <2>3 DEF TypeOK, Call
<1>3. Leading /\ Led /\ Single /\ Following
  BY DEF Init, Leading, Led, Single, Following, Leads
<1> QED BY <1>2, <1>3 DEF FlightInv

\* The inflight map names the one leader of each host, in every reachable state.
THEOREM FlightInductive == Spec => []FlightInv
BY FlightInitially, FlightKept, PTL DEF Spec

\* Every variable keeps its type, and no error is ever cached.
THEOREM TypeCorrect == Spec => []TypeOK
<1>1. FlightInv => TypeOK
  BY DEF FlightInv
<1> QED BY <1>1, FlightInductive, PTL

\* getRobotsData lets one worker at a time fetch the robots.txt of a host.
THEOREM SingleFlight == Spec => []OneAtATime
<1>1. FlightInv => OneAtATime
  <2> SUFFICES ASSUME FlightInv, NEW h \in Hosts
               PROVE  /\ Cardinality(Leaders(h)) <= 1
                      /\ IF inflight[h] = 0 THEN Leaders(h) = {}
                         ELSE \E w \in Leaders(h) : call[w] = inflight[h]
    BY DEF OneAtATime
  <2>1. \A v \in Leaders(h) : v \in Workers /\ host[v] = h /\ Leads(v)
    BY DEF Leaders, Leads
  <2>2. CASE Leaders(h) = {}
    <3>1. Cardinality(Leaders(h)) = 0
      BY <2>2, FS_EmptySet
    <3>2. inflight[h] = 0
      BY <2>2 DEF FlightInv, Led, Leaders, Leads
    <3> QED BY <2>2, <3>1, <3>2
  <2>3. CASE Leaders(h) # {}
    <3>1. PICK w \in Leaders(h) : Leaders(h) = {w}
      BY <2>1, <2>3 DEF FlightInv, Single
    <3>2. Cardinality(Leaders(h)) = 1
      BY <3>1, FS_Singleton
    <3>3. call[w] = inflight[h] /\ inflight[h] # 0
      BY <2>1, <3>1 DEF FlightInv, Leading
    <3> QED BY <3>2, <3>3
  <2> QED BY <2>2, <2>3
<1> QED BY <1>1, FlightInductive, PTL

-----------------------------------------------------------------------------
\* What is in a call when its followers may read it stays settled.
LEMMA SettledKept ==
  ASSUME FlightInv, Settled, [Next]_vars
  PROVE  Settled'
<1>1. /\ TypeOK /\ Leading /\ Following
      /\ calls \in Seq(Call) /\ Len(calls) \in Nat
      /\ \A v \in Workers : Leads(v) \/ pc[v] = "wait" => call[v] \in 1 .. Len(calls)
  BY DEF FlightInv, TypeOK, Call, Leading, Following
<1> DEFINE Good(v) == /\ pc[v] \in {"publish", "clear"} => calls[call[v]].res # "none"
                      /\ pc[v] = "idle" /\ asks[v] > 0 => ans[v] # "none"
<1>2. \A v \in Workers : Good(v)
  BY DEF Settled, AnswersSettled
<1>3. \A i \in 1 .. Len(calls) : calls[i].done => calls[i].res # "none"
  BY DEF Settled
<1> SUFFICES /\ \A i \in 1 .. Len(calls') : calls'[i].done => calls'[i].res # "none"
             /\ \A v \in Workers : Good(v)'
  BY DEF Settled, AnswersSettled
<1>4. ASSUME NEW w \in Workers, Ask(w) \/ Peek(w) \/ Follow(w) \/ FetchRefused(w) \/ Woken(w) \/ Clear(w)
      PROVE  UNCHANGED calls /\ \A v \in Workers : Good(v)'
  <2>1. /\ UNCHANGED calls
        /\ \A v \in Workers \ {w} : pc'[v] = pc[v] /\ call'[v] = call[v] /\ ans'[v] = ans[v] /\ asks'[v] = asks[v]
        /\ pc'[w] \notin {"publish", "clear"}
        /\ pc'[w] = "idle" => ans'[w] # "none"
    <3> USE <1>1, <1>2, <1>3 DEF TypeOK, Goto, Reply, Leads
    <3>1. CASE Ask(w)
      BY <3>1 DEF Ask
    <3>2. CASE Peek(w)
      BY <3>2 DEF Peek
    <3>3. CASE Follow(w)
      BY <3>3 DEF Follow
    <3>4. CASE FetchRefused(w)
      BY <3>4 DEF FetchRefused
    <3>5. CASE Woken(w)
      BY <3>5 DEF Woken
    <3>6. CASE Clear(w)
      BY <3>6 DEF Clear
    <3> QED BY <1>4, <3>1, <3>2, <3>3, <3>4, <3>5, <3>6
  <2> QED BY <1>2, <2>1
<1>5. ASSUME NEW w \in Workers, Lead(w)
      PROVE  /\ \A i \in 1 .. Len(calls') : calls'[i].done => calls'[i].res # "none"
             /\ \A v \in Workers : Good(v)'
  <2>1. /\ Len(calls') = Len(calls) + 1
        /\ \A i \in 1 .. Len(calls) : calls'[i] = calls[i]
        /\ calls'[Len(calls) + 1].done = FALSE
    <3>1. NewCall(host[w])
      BY <1>1, <1>5, Appended
    <3>2. calls'[Len(calls) + 1] = [host |-> host[w], res |-> "none", done |-> FALSE]
      BY <3>1 DEF NewCall
    <3>3. calls'[Len(calls) + 1].done = FALSE
      BY <3>2
    <3> QED BY <3>1, <3>3 DEF NewCall
  <2>2. /\ \A v \in Workers \ {w} : pc'[v] = pc[v] /\ call'[v] = call[v]
        /\ UNCHANGED <<ans, asks>> /\ pc'[w] = "fetch"
    BY <1>1, <1>5 DEF TypeOK, Lead, Goto
  <2>3. \A i \in 1 .. Len(calls') : i \in 1 .. Len(calls) \/ i = Len(calls) + 1
    BY <1>1, <2>1
  <2>4. \A v \in Workers \ {w} : Good(v)'
    BY <1>1, <1>2, <2>1, <2>2 DEF Leads
  <2> QED BY <1>3, <2>1, <2>2, <2>3, <2>4
<1>6. ASSUME NEW w \in Workers, Store(w) \/ Publish(w)
      PROVE  /\ \A i \in 1 .. Len(calls') : calls'[i].done => calls'[i].res # "none"
             /\ \A v \in Workers : Good(v)'
  <2>1. call[w] \in 1 .. Len(calls)
    BY <1>1, <1>6 DEF Store, Verdict, Publish, Leads
  <2>2. /\ Len(calls') = Len(calls)
        /\ \A i \in 1 .. Len(calls) : i # call[w] => calls'[i] = calls[i]
        /\ calls'[call[w]].res # "none"
    <3>1. CASE Store(w)
      BY <1>1, <2>1, <3>1, Stored DEF Changed
    <3>2. CASE Publish(w)
      <4>1. calls[call[w]].res # "none"
        BY <1>2, <3>2 DEF Publish
      <4> QED BY <1>1, <2>1, <3>2, <4>1, Published DEF Changed
    <3> QED BY <1>6, <3>1, <3>2
  <2>3. /\ \A v \in Workers \ {w} : pc'[v] = pc[v]
        /\ UNCHANGED <<call, ans, asks>> /\ pc'[w] \in {"publish", "clear"}
    BY <1>1, <1>6 DEF TypeOK, Store, Publish, Goto
  <2>4. \A v \in Workers : pc'[v] \in {"publish", "clear"} => call[v] \in 1 .. Len(calls)
    BY <1>1, <2>1, <2>3 DEF Leads
  <2> QED BY <1>2, <1>3, <2>1, <2>2, <2>3, <2>4
<1>7. CASE GoDown \/ Terminated \/ UNCHANGED vars
  BY <1>2, <1>3, <1>7 DEF GoDown, Terminated, vars
<1> QED BY <1>3, <1>4, <1>5, <1>6, <1>7 DEF Next, AnswerStep

\* No worker comes out of getRobotsData without what the leader of its call found.
THEOREM FollowersSettled == Spec => []AnswersSettled
<1>1. Init => Settled
  BY DEF Init, Settled, AnswersSettled
<1>2. FlightInv /\ Settled /\ [Next]_vars => Settled'
  BY SettledKept
<1>3. Settled => AnswersSettled
  BY DEF Settled
<1> QED BY <1>1, <1>2, <1>3, FlightInductive, PTL DEF Spec

-----------------------------------------------------------------------------
\* A host whose rules RulesNotMissed is about.
Known(h) ==
  /\ \E s \in Schemes : Answer[h][s] = "rules"
  /\ \A s \in Schemes : Answer[h][s] \in {"rules", "refused"}

\* A call is about the host its workers ask about.
Right ==
  /\ \A h \in Hosts : inflight[h] # 0 => calls[inflight[h]].host = h
  /\ \A w \in Workers : Leads(w) \/ pc[w] = "wait" => calls[call[w]].host = host[w]

\* The other scheme is tried when the first was refused.
Tried == \A w \in Workers : pc[w] = "other" => Answer[host[w]][Other(scheme[w])] = "refused"

TrueRules ==
  /\ \A h \in Hosts : Known(h) => robotsCache[h] \in {"none", "rules"}
  /\ \A i \in 1 .. Len(calls) : Known(calls[i].host) => calls[i].res \in {"none", "rules"}
  /\ \A w \in Workers : Known(host[w]) /\ pc[w] = "idle" /\ asks[w] > 0 => ans[w] = "rules"

RulesInv == Right /\ (~down => Tried /\ TrueRules)

\* What a leader finds out about such a host while nothing fails are its rules.
LEMMA VerdictTrue ==
  ASSUME TypeOK, NEW w \in Workers, NEW r, Verdict(w, r), ~down, Known(host[w]), Tried
  PROVE  r = "rules"
<1>1. host[w] \in Hosts /\ scheme[w] \in Schemes
  BY DEF TypeOK
<1>2. Heard(w) \in {"rules", "refused"}
  BY <1>1 DEF Heard, Known
<1>3. pc[w] = "other" => Heard(w) # "refused"
  <2> SUFFICES ASSUME pc[w] = "other", Heard(w) = "refused" PROVE FALSE
    OBVIOUS
  <2>1. \A s \in Schemes : s = scheme[w] \/ s = Other(scheme[w])
    BY <1>1 DEF Schemes, Other
  <2>2. \A s \in Schemes : Answer[host[w]][s] = "refused"
    BY <2>1 DEF Tried, Heard
  <2> QED BY <2>2 DEF Known
<1> QED BY <1>2, <1>3 DEF Verdict, Refused

\* A call keeps its host.
LEMMA RightKept ==
  ASSUME FlightInv, Right, [Next]_vars
  PROVE  Right'
<1>1. /\ TypeOK /\ Leading /\ Following
      /\ Len(calls) \in Nat /\ inflight \in [Hosts -> 0 .. Len(calls)]
      /\ \A v \in Workers : Leads(v) \/ pc[v] = "wait" => call[v] \in 1 .. Len(calls)
      /\ \A v \in Workers : host[v] \in Hosts
  BY DEF FlightInv, TypeOK, Leading, Following
<1>2. ASSUME \A i \in 1 .. Len(calls) : calls'[i].host = calls[i].host,
             \A h \in Hosts : inflight'[h] \in {inflight[h], 0},
             \A v \in Workers : Leads(v)' \/ pc'[v] = "wait" =>
               /\ host'[v] = host[v]
               /\ \/ (Leads(v) \/ pc[v] = "wait") /\ call'[v] = call[v]
                  \/ inflight[host[v]] # 0 /\ call'[v] = inflight[host[v]]
      PROVE  Right'
  BY <1>1, <1>2 DEF Right
<1>3. ASSUME NEW w \in Workers, Ask(w) \/ Peek(w) \/ Follow(w) \/ FetchRefused(w) \/ Woken(w) \/ Clear(w)
      PROVE  Right'
  <2>1. /\ UNCHANGED calls
        /\ \A h \in Hosts : inflight'[h] \in {inflight[h], 0}
        /\ \A v \in Workers \ {w} : pc'[v] = pc[v] /\ call'[v] = call[v] /\ host'[v] = host[v]
        /\ Leads(w)' \/ pc'[w] = "wait" =>
             /\ host'[w] = host[w]
             /\ \/ (Leads(w) \/ pc[w] = "wait") /\ call'[w] = call[w]
                \/ inflight[host[w]] # 0 /\ call'[w] = inflight[host[w]]
    <3> USE <1>1 DEF TypeOK, Goto, Reply, Leads
    <3>1. CASE Ask(w)
      BY <3>1 DEF Ask
    <3>2. CASE Peek(w)
      BY <3>2 DEF Peek
    <3>3. CASE Follow(w)
      BY <3>3 DEF Follow
    <3>4. CASE FetchRefused(w)
      BY <3>4 DEF FetchRefused
    <3>5. CASE Woken(w)
      BY <3>5 DEF Woken
    <3>6. CASE Clear(w)
      BY <3>6 DEF Clear
    <3> QED BY <1>3, <3>1, <3>2, <3>3, <3>4, <3>5, <3>6
  <2>2. \A v \in Workers \ {w} : Leads(v)' <=> Leads(v)
    BY <2>1 DEF Leads
  <2> QED BY <2>1, <2>2, <1>2
<1>4. ASSUME NEW w \in Workers, Store(w) \/ Publish(w) PROVE Right'
  <2>1. call[w] \in 1 .. Len(calls)
    BY <1>1, <1>4 DEF Store, Verdict, Publish, Leads
  <2>2. \A i \in 1 .. Len(calls) : calls'[i].host = calls[i].host
    BY <1>1, <1>4, <2>1, Stored, Published DEF Changed
  <2>3. /\ UNCHANGED <<inflight, call, host>>
        /\ \A v \in Workers \ {w} : pc'[v] = pc[v]
        /\ Leads(w)
    BY <1>1, <1>4 DEF TypeOK, Store, Verdict, Publish, Goto, Leads
  <2>4. \A v \in Workers : Leads(v)' \/ pc'[v] = "wait" => Leads(v) \/ pc[v] = "wait"
    BY <2>3 DEF Leads
  <2> QED BY <2>2, <2>3, <2>4, <1>2
<1>5. ASSUME NEW w \in Workers, Lead(w) PROVE Right'
  <2> DEFINE n == Len(calls) + 1
  <2>1. NewCall(host[w])
    BY <1>1, <1>5, Appended
  <2>2. /\ Len(calls') = n /\ \A i \in 1 .. Len(calls) : calls'[i] = calls[i]
        /\ calls'[n].host = host[w]
    BY <2>1 DEF NewCall
  <2>3. /\ call' = [call EXCEPT ![w] = n] /\ inflight' = [inflight EXCEPT ![host[w]] = n]
        /\ pc' = [pc EXCEPT ![w] = "fetch"] /\ host' = host
    BY <1>5, <2>2 DEF Lead, Goto
  <2> HIDE DEF n
  <2>4. /\ \A v \in Workers : call'[v] = IF v = w THEN n ELSE call[v]
        /\ \A v \in Workers : pc'[v] = IF v = w THEN "fetch" ELSE pc[v]
        /\ \A h \in Hosts : inflight'[h] = IF h = host[w] THEN n ELSE inflight[h]
    BY <1>1, <2>3 DEF TypeOK
  <2>5. \A h \in Hosts : inflight'[h] # 0 => calls'[inflight'[h]].host = h
    BY <1>1, <2>2, <2>4 DEF Right
  <2>6. \A v \in Workers : Leads(v)' \/ pc'[v] = "wait" => calls'[call'[v]].host = host'[v]
    BY <1>1, <2>2, <2>3, <2>4 DEF Right, Leads
  <2> QED BY <2>5, <2>6 DEF Right
<1>6. CASE GoDown \/ Terminated \/ UNCHANGED vars
  BY <1>6 DEF GoDown, Terminated, vars, Right, Leads
<1> QED BY <1>3, <1>4, <1>5, <1>6 DEF Next, AnswerStep

\* The invariant of the rules is inductive over that of the flight.
LEMMA RulesKept ==
  ASSUME FlightInv, Settled, Right, ~down => Tried /\ TrueRules, [Next]_vars, ~down'
  PROVE  Tried' /\ TrueRules'
<1>1. /\ TypeOK /\ Leading /\ Following
      /\ Len(calls) \in Nat
      /\ \A v \in Workers : Leads(v) \/ pc[v] = "wait" => call[v] \in 1 .. Len(calls)
      /\ \A v \in Workers : host[v] \in Hosts /\ scheme[v] \in Schemes
  BY DEF FlightInv, TypeOK, Leading, Following
<1>2. ~down /\ Tried /\ TrueRules
  <2>1. down => down'
    BY DEF Next, AnswerStep, vars, Ask, Peek, Lead, Follow, FetchRefused, Store, Publish, Clear,
       Woken, GoDown, Terminated
  <2> QED BY <2>1
\* A worker that gets its answer from a call gets the rules.
<1>3. ASSUME NEW w \in Workers, Known(host[w]), Leads(w) \/ pc[w] = "wait",
             calls[call[w]].res # "none"
      PROVE  calls[call[w]].res = "rules"
  BY <1>1, <1>2, <1>3 DEF Right, TrueRules
<1>4. ASSUME NEW w \in Workers, Ask(w) \/ Peek(w) \/ Follow(w) \/ FetchRefused(w) \/ Woken(w) \/ Clear(w)
      PROVE  Tried' /\ TrueRules'
  <2>1. /\ UNCHANGED <<calls, robotsCache>>
        /\ \A v \in Workers \ {w} : /\ pc'[v] = pc[v] /\ host'[v] = host[v] /\ scheme'[v] = scheme[v]
                                    /\ ans'[v] = ans[v] /\ asks'[v] = asks[v]
        /\ pc'[w] = "other" => Answer[host'[w]][Other(scheme'[w])] = "refused"
        /\ pc'[w] = "idle" /\ Known(host'[w]) => ans'[w] = "rules"
    <3>1. CASE Ask(w)
      BY <1>1, <3>1 DEF Ask, TypeOK, Goto
    <3>2. CASE Peek(w)
      BY <1>1, <1>2, <3>2 DEF Peek, TypeOK, Goto, Reply, TrueRules
    <3>3. CASE Follow(w)
      BY <1>1, <3>3 DEF Follow, TypeOK, Goto
    <3>4. CASE FetchRefused(w)
      <4>1. Answer[host[w]][scheme[w]] = "refused" /\ Other(Other(scheme[w])) = scheme[w]
        BY <1>1, <1>2, <3>4 DEF FetchRefused, Refused, Heard, Other, Schemes
      <4>2. /\ scheme' = [scheme EXCEPT ![w] = Other(@)] /\ pc' = [pc EXCEPT ![w] = "other"]
            /\ UNCHANGED <<robotsCache, calls, host, ans, asks>>
        BY <3>4 DEF FetchRefused, Goto
      <4>3. scheme'[w] = Other(scheme[w]) /\ \A v \in Workers \ {w} : scheme'[v] = scheme[v]
        BY <1>1, <4>2 DEF TypeOK
      <4>4. pc'[w] = "other" /\ \A v \in Workers \ {w} : pc'[v] = pc[v]
        BY <1>1, <4>2 DEF TypeOK
      <4> QED BY <4>1, <4>2, <4>3, <4>4
    <3>5. CASE Woken(w)
      <4>1. calls[call[w]].res # "none"
        BY <1>1, <3>5 DEF Woken, Settled
      <4>2. Known(host[w]) => calls[call[w]].res = "rules"
        BY <1>3, <3>5, <4>1 DEF Woken
      <4> QED BY <1>1, <3>5, <4>2 DEF Woken, TypeOK, Reply, Goto
    <3>6. CASE Clear(w)
      <4>1. calls[call[w]].res # "none"
        BY <3>6 DEF Clear, Settled
      <4>2. Known(host[w]) => calls[call[w]].res = "rules"
        BY <1>3, <3>6, <4>1 DEF Clear, Leads
      <4> QED BY <1>1, <3>6, <4>2 DEF Clear, TypeOK, Reply, Goto
    <3> QED BY <1>4, <3>1, <3>2, <3>3, <3>4, <3>5, <3>6
  <2>2. Tried'
    BY <1>2, <2>1 DEF Tried
  <2>3. TrueRules'
    BY <1>2, <2>1 DEF TrueRules
  <2> QED BY <2>2, <2>3
<1>5. ASSUME NEW w \in Workers, Store(w) PROVE Tried' /\ TrueRules'
  <2>1. call[w] \in 1 .. Len(calls)
    BY <1>1, <1>5 DEF Store, Verdict, Leads
  <2>2. PICK r \in {"rules", "open", "err"} :
          /\ Verdict(w, r)
          /\ robotsCache' = IF r = "err" THEN robotsCache ELSE [robotsCache EXCEPT ![host[w]] = r]
          /\ Changed(call[w], r, calls[call[w]].done)
    BY <1>1, <1>5, <2>1, Stored
  <2>3. Known(host[w]) => r = "rules"
    BY <1>1, <1>2, <2>2, VerdictTrue
  <2>4. calls[call[w]].host = host[w]
    BY <1>5 DEF Store, Verdict, Right, Leads
  <2>5. /\ UNCHANGED <<host, scheme, ans, asks>> /\ pc' = [pc EXCEPT ![w] = "publish"]
    BY <1>5 DEF Store, Goto
  <2>6. \A h \in Hosts : Known(h) => robotsCache'[h] \in {"none", "rules"}
    BY <1>1, <1>2, <2>2, <2>3 DEF TypeOK, TrueRules
  <2>7. \A i \in 1 .. Len(calls') : Known(calls'[i].host) => calls'[i].res \in {"none", "rules"}
    BY <1>1, <1>2, <2>1, <2>2, <2>3, <2>4 DEF Changed, TrueRules
  <2>8. \A v \in Workers : pc'[v] \in {"other", "idle"} => pc[v] = pc'[v]
    BY <1>1, <2>5 DEF TypeOK
  <2> QED BY <1>2, <2>5, <2>6, <2>7, <2>8 DEF Tried, TrueRules
<1>6. ASSUME NEW w \in Workers, Publish(w) PROVE Tried' /\ TrueRules'
  <2>1. call[w] \in 1 .. Len(calls)
    BY <1>1, <1>6 DEF Publish, Leads
  <2>2. Changed(call[w], calls[call[w]].res, TRUE)
    BY <1>1, <1>6, <2>1, Published
  <2>3. /\ UNCHANGED <<robotsCache, host, scheme, ans, asks>> /\ pc' = [pc EXCEPT ![w] = "clear"]
    BY <1>6 DEF Publish, Goto
  <2>4. \A i \in 1 .. Len(calls') : Known(calls'[i].host) => calls'[i].res \in {"none", "rules"}
    BY <1>1, <1>2, <2>1, <2>2 DEF Changed, TrueRules
  <2>5. \A v \in Workers : pc'[v] \in {"other", "idle"} => pc[v] = pc'[v]
    BY <1>1, <2>3 DEF TypeOK
  <2> QED BY <1>2, <2>3, <2>4, <2>5 DEF Tried, TrueRules
<1>7. ASSUME NEW w \in Workers, Lead(w) PROVE Tried' /\ TrueRules'
  <2>1. NewCall(host[w])
    BY <1>1, <1>7, Appended
  <2>2. /\ Len(calls') = Len(calls) + 1 /\ \A i \in 1 .. Len(calls) : calls'[i] = calls[i]
        /\ calls'[Len(calls) + 1].res = "none"
    BY <2>1 DEF NewCall
  <2>3. /\ UNCHANGED <<robotsCache, host, scheme, ans, asks>> /\ pc' = [pc EXCEPT ![w] = "fetch"]
    BY <1>7 DEF Lead, Goto
  <2>4. \A i \in 1 .. Len(calls') : i \in 1 .. Len(calls) \/ i = Len(calls) + 1
    BY <1>1, <2>2
  <2>5. \A i \in 1 .. Len(calls') : Known(calls'[i].host) => calls'[i].res \in {"none", "rules"}
    BY <1>2, <2>2, <2>4 DEF TrueRules
  <2>6. \A v \in Workers : pc'[v] \in {"other", "idle"} => pc[v] = pc'[v]
    BY <1>1, <2>3 DEF TypeOK
  <2> QED BY <1>2, <2>3, <2>5, <2>6 DEF Tried, TrueRules
<1>8. CASE GoDown \/ Terminated \/ UNCHANGED vars
  BY <1>2, <1>8 DEF GoDown, Terminated, vars, Tried, TrueRules
<1> QED BY <1>4, <1>5, <1>6, <1>7, <1>8 DEF Next, AnswerStep

\* While nothing fails, getRobotsData answers with the rules of every host whose rules
\* can be had over one of the schemes, whoever asks and whoever fetched them.
THEOREM RulesFound == Spec => []RulesNotMissed
<1>1. Init => Settled /\ RulesInv
  BY DEF Init, Settled, AnswersSettled, RulesInv, Right, Tried, TrueRules, Leads
<1>2. FlightInv /\ Settled /\ RulesInv /\ [Next]_vars => (Settled /\ RulesInv)'
  BY SettledKept, RightKept, RulesKept DEF RulesInv
<1>3. RulesInv => RulesNotMissed
  BY DEF RulesInv, TrueRules, RulesNotMissed, Known
<1> QED BY <1>1, <1>2, <1>3, FlightInductive, PTL DEF Spec

=============================================================================
