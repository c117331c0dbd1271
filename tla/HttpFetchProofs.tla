-------------------------- MODULE HttpFetchProofs --------------------------
(***************************************************************************)
(* Proofs about the HTTP client and the fetches it serves, for any number  *)
(* of workers, any rate limit, delays and retries, and any server.         *)
(*                                                                         *)
(* The argument for the rate limit: lastRequest agrees with the time of    *)
(* the last request of anybody (Stamped), so a worker that has taken the   *)
(* mutex sleeps until a whole interval has passed since (Paced); nobody    *)
(* else sends in that time, because sending takes the mutex (Alone).  All  *)
(* steps but the mutex's and the clock's are Calm: they touch neither.     *)
(* The bodies are accounted for by an invariant that is inductive as it    *)
(* stands, given the types; the verdicts need that a body is only read of  *)
(* a resource that is there (Reading).  That a cancelled run waits no      *)
(* longer than the bound is a count of the requests that are still owed    *)
(* (CancelInv, below), and needs that files are left only while a listing  *)
(* is worked off (Counted).                                                *)
(***************************************************************************)
EXTENDS HttpFetch, FiniteSetTheorems, TLAPS

Stamped == sinceSent = age

Alone == \A w \in Workers : cpc[w] = "sleep" => rateMu = w

Paced ==
  \A w \in Workers : cpc[w] = "sleep" => timer[w] \in Nat /\ age + timer[w] >= MinInterval

RateInv == TypeOK /\ Stamped /\ Alone /\ Paced

\* Between two entries and before its page is read, a worker has no files left; in the
\* first file of a listing it has one less than the listing.
Counted ==
  \A w \in Workers :
    /\ cpc[w] = "listed" => files[w] >= 1
    /\ cpc[w] # "listed" => files[w] < MaxFiles
    /\ cpc[w] # "listed" /\ stage[w] \in Lookups \union {"page"} => files[w] = 0
    /\ cpc[w] \in {"idle", "listed"} => stage[w] = "page"

Reading == \A w \in Workers : cpc[w] = "read" /\ stage[w] \notin Lookups => res[w].there

\* No request begins to sleep or is sent.
Calm ==
  /\ UNCHANGED <<rateMu, age, sinceSent>>
  /\ \A w \in Workers :
       cpc'[w] \in {"sleep", "net"} => cpc'[w] = cpc[w] /\ timer'[w] = timer[w]

Paperwork(w) == Refused(w) \/ RetryDrained(w) \/ RetryFailed(w) \/ BackoffOver(w)

\* All steps of a worker but Lock and Send.
Quiet(w) == Fetch(w) \/ NextFile(w) \/ Ending(w) \/ (Paperwork(w) /\ UNCHANGED fetchVars)

-----------------------------------------------------------------------------
\* The types hold at the start.
LEMMA TypesInitially == Init => TypeOK
<1> SUFFICES ASSUME Init PROVE TypeOK
  OBVIOUS
<1>1. 0 \in 0 .. RetryCount - 1 /\ MinInterval \in 0 .. MinInterval /\ 0 \in 0 .. MaxFiles
  BY HttpAssumption
<1>2. attempt \in [Workers -> 0 .. RetryCount - 1] /\ bodies \in [Workers -> Int]
  BY <1>1 DEF Init, ClientInit
<1>3. cpc \in [Workers -> Where] /\ stage \in [Workers -> Stages] /\ verdict \in [Workers -> Verdicts]
  BY DEF Init, ClientInit, Where, Stages, Verdicts
<1>4. files \in [Workers -> 0 .. MaxFiles]
  BY <1>1 DEF Init
<1> QED BY <1>1, <1>2, <1>3, <1>4 DEF Init, ClientInit, TypeOK

\* The types, and the count of the files, are inductive.
LEMMA CountInductive == Spec => [](TypeOK /\ Counted)
<1>1. Init => TypeOK /\ Counted
  BY TypesInitially, HttpAssumption DEF Init, ClientInit, Counted
<1>2. TypeOK /\ Counted /\ [Next]_vars => TypeOK' /\ Counted'
  <2> SUFFICES ASSUME TypeOK, Counted, [Next]_vars PROVE TypeOK' /\ Counted'
    OBVIOUS
  <2> USE HttpAssumption DEF TypeOK, Counted, At, Arm, Where, Lookups, Stages, Verdicts, fetchVars
  <2>1. CASE Passing
    <3>1. age' \in 0 .. MinInterval /\ sinceSent' \in 0 .. MinInterval
      BY <2>1 DEF Passing, Tick, Cancel, UpTo
    <3>2. DOMAIN timer' = Workers
      BY <2>1 DEF Passing, Tick, Cancel
    <3> QED BY <2>1, <3>1, <3>2 DEF Passing, Tick, Cancel
  <2>2. ASSUME NEW w \in Workers, Fetch(w) PROVE TypeOK' /\ Counted'
    <3>1. PICK r \in Resources : res' = [res EXCEPT ![w] = r]
      BY <2>2 DEF Fetch
    <3> QED BY <2>2, <3>1 DEF Fetch, Request, clockVars
  <2>3. ASSUME NEW w \in Workers, NextFile(w) PROVE TypeOK' /\ Counted'
    <3>1. PICK r \in Files : res' = [res EXCEPT ![w] = r]
      BY <2>3 DEF NextFile
    <3>2. files[w] \in 1 .. MaxFiles /\ files' = [files EXCEPT ![w] = files[w] - 1]
      BY <2>3 DEF NextFile
    <3>3. r \in Resources
      BY DEF Files
    <3>4. TypeOK'
      BY <2>3, <3>1, <3>2, <3>3 DEF NextFile, Request, clockVars
    <3>5. Counted'
      BY <2>3, <3>2 DEF NextFile, Request
    <3> QED BY <3>4, <3>5
  <2>4. ASSUME NEW w \in Workers, Attempting(w), UNCHANGED fetchVars
        PROVE TypeOK' /\ Counted'
    <3>1. CASE Lock(w)
      BY <2>4, <3>1 DEF Lock, clockVars
    <3>2. CASE Send(w)
      BY <2>4, <3>2 DEF Send
    <3>3. CASE Paperwork(w)
      BY <2>4, <3>3 DEF Paperwork, Refused, RetryDrained, RetryFailed, BackoffOver,
         NextAttempt, LastAttempt, clockVars
    <3> QED BY <2>4, <3>1, <3>2, <3>3 DEF Attempting, Paperwork
  <2>5. ASSUME NEW w \in Workers, Ending(w) PROVE TypeOK' /\ Counted'
    <3> USE DEF Return, ReturnWith, Start, Request, Read, CloseBody, ClosedOnFailure, NotHTML,
            LookedUp, TypeOf, clockVars
    <3>1. CASE RobotsAnswered(w)
      BY <3>1 DEF RobotsAnswered, Answered
    <3>2. CASE PageAnswered(w)
      BY <3>2 DEF PageAnswered, Answered
    <3>3. CASE HeadAnswered(w)
      BY <3>3 DEF HeadAnswered, Answered
    <3>4. CASE RangeAnswered(w)
      BY <3>4 DEF RangeAnswered, Answered
    <3>5. CASE PlainAnswered(w)
      BY <3>5 DEF PlainAnswered, Answered
    <3>6. CASE ReadDone(w)
      <4>1. CASE stage[w] \in Lookups /\ LookedUp(w)
        BY <3>6, <4>1 DEF ReadDone
      <4>2. ASSUME stage[w] = "page", NEW n \in 0 .. MaxFiles, ReturnWith(w, "links", n)
            PROVE  TypeOK' /\ Counted'
        BY <3>6, <4>2 DEF ReadDone
      <4>3. CASE stage[w] = "page" /\ Return(w, "links")
        BY <3>6, <4>3 DEF ReadDone
      <4>4. CASE stage[w] = "page" /\ NotHTML(w)
        BY <3>6, <4>4 DEF ReadDone
      <4>5. CASE stage[w] \in {"range", "plain"} /\ Return(w, TypeOf(res[w]))
        BY <3>6, <4>5 DEF ReadDone
      <4> QED BY <3>6, <4>1, <4>2, <4>3, <4>4, <4>5 DEF ReadDone
    <3>7. CASE ReadFailed(w)
      BY <3>7 DEF ReadFailed
    <3>8. CASE RequestFailed(w)
      BY <3>8 DEF RequestFailed, GivenUp
    <3> QED BY <2>5, <3>1, <3>2, <3>3, <3>4, <3>5, <3>6, <3>7, <3>8 DEF Ending
  <2>6. CASE UNCHANGED vars
    BY <2>6 DEF vars, clientVars
  <2> QED BY <2>1, <2>2, <2>3, <2>4, <2>5, <2>6 DEF Next, Step
<1> QED BY <1>1, <1>2, PTL DEF Spec

\* The variables keep their types, and no caller goes beyond its last attempt.
THEOREM TypeCorrect == Spec => []TypeOK
BY CountInductive, PTL

-----------------------------------------------------------------------------
\* A fetch goes through the rate limiter only by Lock and Send.
LEMMA MostlyCalm ==
  ASSUME TypeOK, NEW w \in Workers, Quiet(w)
  PROVE  Calm
<1> USE DEF TypeOK, Calm, At, Arm, clockVars
<1>1. CASE Fetch(w) \/ NextFile(w)
  BY <1>1 DEF Fetch, NextFile, Request
<1>2. CASE Ending(w)
  <2> USE DEF Return, ReturnWith, Start, Request, Read, NotHTML, LookedUp
  <2>1. CASE RobotsAnswered(w) \/ PageAnswered(w)
    BY <2>1 DEF RobotsAnswered, PageAnswered
  <2>2. CASE HeadAnswered(w) \/ RangeAnswered(w) \/ PlainAnswered(w)
    BY <2>2 DEF HeadAnswered, RangeAnswered, PlainAnswered
  <2>3. CASE ReadDone(w) \/ ReadFailed(w)
    BY <2>3 DEF ReadDone, ReadFailed
  <2>4. CASE RequestFailed(w)
    BY <2>4 DEF RequestFailed
  <2> QED BY <1>2, <2>1, <2>2, <2>3, <2>4 DEF Ending
<1>3. CASE Paperwork(w)
  BY <1>3 DEF Paperwork, Refused, RetryDrained, RetryFailed, BackoffOver, NextAttempt
<1> QED BY <1>1, <1>2, <1>3 DEF Quiet

\* The invariant of the rate limiter.
THEOREM RateInductive == Spec => []RateInv
<1>1. Init => RateInv
  <2>1. Init => Stamped /\ Alone /\ Paced
    BY DEF Init, ClientInit, Stamped, Alone, Paced
  <2>2. Init => TypeOK
    BY TypesInitially
  <2> QED BY <2>1, <2>2 DEF RateInv
<1>2. RateInv /\ [Next]_vars /\ TypeOK' => RateInv'
  <2> SUFFICES ASSUME RateInv, [Next]_vars, TypeOK' PROVE (Stamped /\ Alone /\ Paced)'
    BY DEF RateInv
  <2> USE HttpAssumption DEF RateInv, TypeOK, Stamped, Alone, Paced
  <2>1. CASE Calm
    BY <2>1 DEF Calm
  <2>2. CASE Tick
    <3>1. (Stamped /\ Alone)'
      BY <2>2 DEF Tick
    <3>2. ASSUME NEW w \in Workers, cpc'[w] = "sleep"
          PROVE  timer'[w] \in Nat /\ age' + timer'[w] >= MinInterval
      <4>1. cpc[w] = "sleep" /\ timer[w] \in Nat /\ age + timer[w] >= MinInterval
        BY <2>2, <3>2 DEF Tick
      <4>2. timer[w] # 0 /\ timer'[w] = timer[w] - 1
        BY <2>2, <4>1 DEF Tick, Urgent, OnTime
      <4> QED BY <2>2, <4>1, <4>2 DEF Tick, UpTo
    <3> QED BY <3>1, <3>2
  <2>3. ASSUME NEW w \in Workers, Lock(w) PROVE (Stamped /\ Alone /\ Paced)'
    BY <2>3 DEF Lock, At, Arm, clockVars
  <2>4. ASSUME NEW w \in Workers, Send(w) PROVE (Stamped /\ Alone /\ Paced)'
    BY <2>4 DEF Send, At, Arm
  <2>5. CASE Cancel \/ UNCHANGED vars
    BY <2>5 DEF Cancel, vars, clientVars
  <2> QED BY <2>1, <2>2, <2>3, <2>4, <2>5, MostlyCalm
          DEF Next, Passing, Step, Attempting, Paperwork, Quiet
<1> QED BY <1>1, <1>2, TypeCorrect, PTL DEF Spec

\* Two requests are never sent closer together than the rate limit allows, by however
\* many workers (waitForRateLimit).
THEOREM RateLimitHolds == Spec => RateRespected
<1>1. ASSUME RateInv, [Next]_vars
      PROVE  [\A w \in Workers : cpc[w] # "net" /\ cpc'[w] = "net" => sinceSent >= MinInterval]_vars
  <2> SUFFICES ASSUME NEW w \in Workers, cpc[w] # "net", cpc'[w] = "net"
               PROVE  sinceSent >= MinInterval
    OBVIOUS
  <2> USE HttpAssumption DEF RateInv, TypeOK
  <2>1. ~Calm
    BY DEF Calm
  <2>2. ASSUME NEW v \in Workers, Send(v) PROVE sinceSent >= MinInterval
    <3>1. v = w /\ cpc[w] = "sleep" /\ timer[w] = 0
      BY <1>1, <2>2 DEF Send, At
    <3>2. age + timer[w] >= MinInterval /\ sinceSent = age
      BY <1>1, <3>1 DEF Stamped, Paced
    <3> QED BY <1>1, <3>1, <3>2
  <2>3. ASSUME NEW v \in Workers, Lock(v) PROVE FALSE
    BY <1>1, <2>3 DEF Lock, At
  <2>4. CASE Passing \/ UNCHANGED vars
    BY <2>4 DEF Passing, Tick, Cancel, vars, clientVars
  <2> QED BY <1>1, <2>1, <2>2, <2>3, <2>4, MostlyCalm DEF Next, Step, Attempting, Paperwork, Quiet
<1> QED BY <1>1, RateInductive, PTL DEF Spec, RateRespected

-----------------------------------------------------------------------------
\* No path through retries, sniffing and failed reads leaves a response body open, or
\* closes one twice (closeSilently and its callers).
THEOREM BodiesAccounted == Spec => []BodiesClosed
<1>1. Init => BodiesClosed
  BY DEF Init, ClientInit, BodiesClosed
<1>2. TypeOK /\ BodiesClosed /\ [Next]_vars => BodiesClosed'
  <2> SUFFICES ASSUME TypeOK, BodiesClosed, [Next]_vars PROVE BodiesClosed'
    OBVIOUS
  <2> USE DEF TypeOK, BodiesClosed, At, clockVars
  <2>1. CASE Passing
    BY <2>1 DEF Passing, Tick, Cancel
  <2>2. ASSUME NEW w \in Workers, Fetch(w) \/ NextFile(w) PROVE BodiesClosed'
    BY <2>2 DEF Fetch, NextFile, Request
  <2>3. ASSUME NEW w \in Workers, Attempting(w) PROVE BodiesClosed'
    BY <2>3 DEF Attempting, Lock, Send, Refused, RetryDrained, RetryFailed, BackoffOver, NextAttempt
  <2>4. ASSUME NEW w \in Workers, Ending(w) PROVE BodiesClosed'
    <3> USE DEF Return, ReturnWith, Start, Request, Read, NotHTML, LookedUp
    <3>1. CASE RobotsAnswered(w) \/ PageAnswered(w) \/ HeadAnswered(w) \/ RangeAnswered(w) \/ PlainAnswered(w)
      BY <3>1 DEF RobotsAnswered, PageAnswered, HeadAnswered, RangeAnswered, PlainAnswered, Answered
    <3>2. CASE ReadDone(w) \/ ReadFailed(w)
      BY <3>2 DEF ReadDone, ReadFailed, CloseBody
    <3>3. CASE RequestFailed(w)
      BY <3>3 DEF RequestFailed, GivenUp, ClosedOnFailure
    <3> QED BY <2>4, <3>1, <3>2, <3>3 DEF Ending
  <2>5. CASE UNCHANGED vars
    BY <2>5 DEF vars, clientVars
  <2> QED BY <2>1, <2>2, <2>3, <2>4, <2>5 DEF Next, Step
<1> QED BY <1>1, <1>2, TypeCorrect, PTL DEF Spec

-----------------------------------------------------------------------------
\* A verdict that says something about a resource says what is so, for every
\* combination of what servers support (getLinksByUrlWithContext and
\* sniffHTTPContentTypeWithContext).
THEOREM VerdictsHold == Spec => []VerdictSound
<1>1. Init => Reading /\ VerdictSound
  BY DEF Init, ClientInit, Reading, VerdictSound
<1>2. TypeOK /\ Reading /\ VerdictSound /\ [Next]_vars => (Reading /\ VerdictSound)'
  <2> SUFFICES ASSUME TypeOK, Reading, VerdictSound, [Next]_vars
               PROVE  (Reading /\ VerdictSound)'
    OBVIOUS
  <2> USE DEF TypeOK, Reading, VerdictSound, At, Lookups, fetchVars
  <2>1. CASE Passing
    BY <2>1 DEF Passing, Tick, Cancel
  <2>2. ASSUME NEW w \in Workers, Fetch(w) PROVE (Reading /\ VerdictSound)'
    <3>1. PICK r \in Resources : res' = [res EXCEPT ![w] = r]
      BY <2>2 DEF Fetch
    <3> QED BY <2>2, <3>1 DEF Fetch, Request
  <2>3. ASSUME NEW w \in Workers, NextFile(w) PROVE (Reading /\ VerdictSound)'
    <3>1. PICK r \in Files : res' = [res EXCEPT ![w] = r]
      BY <2>3 DEF NextFile
    <3> QED BY <2>3, <3>1 DEF NextFile, Request
  <2>4. ASSUME NEW w \in Workers, Attempting(w), UNCHANGED fetchVars
        PROVE  (Reading /\ VerdictSound)'
    BY <2>4 DEF Attempting, Lock, Send, Refused, RetryDrained, RetryFailed, BackoffOver, NextAttempt
  <2>5. ASSUME NEW w \in Workers, Ending(w) PROVE (Reading /\ VerdictSound)'
    <3> USE DEF Return, ReturnWith, Start, Request, Read, NotHTML, LookedUp, TypeOf
    <3>1. CASE RobotsAnswered(w)
      BY <3>1 DEF RobotsAnswered
    <3>2. CASE PageAnswered(w)
      BY <3>2 DEF PageAnswered
    <3>3. CASE HeadAnswered(w)
      BY <3>3 DEF HeadAnswered
    <3>4. CASE RangeAnswered(w) \/ PlainAnswered(w)
      BY <3>4 DEF RangeAnswered, PlainAnswered
    <3>5. CASE ReadDone(w)
      BY <3>5 DEF ReadDone
    <3>6. CASE ReadFailed(w) \/ RequestFailed(w)
      BY <3>6 DEF ReadFailed, RequestFailed
    <3> QED BY <2>5, <3>1, <3>2, <3>3, <3>4, <3>5, <3>6 DEF Ending
  <2>6. CASE UNCHANGED vars
    BY <2>6 DEF vars, clientVars, fetchVars
  <2> QED BY <2>1, <2>2, <2>3, <2>4, <2>5, <2>6 DEF Next, Step
<1> QED BY <1>1, <1>2, TypeCorrect, PTL DEF Spec

-----------------------------------------------------------------------------
(* How long a cancelled run waits for its workers.  Once the context has   *)
(* ended a worker makes no request but the ones it owes: the one it is     *)
(* about to make, those that follow a failure, and two for each file of a  *)
(* listing.  Every step but the clock's leaves what is owed as it is or    *)
(* less, and sending pays for one request.  The clock runs only while      *)
(* somebody sleeps in the rate limiter, so the time that has passed and    *)
(* the time that is left never exceed the bound.                           *)

\* The request that is still to be sent, and those that may follow it.
Unsent(w) == IF cpc[w] \in {"lock", "sleep", "drain", "backoff"} THEN 1 ELSE 0

Following(w) ==
  IF cpc[w] = "read"
    THEN IF stage[w] \in Lookups THEN 1 ELSE IF stage[w] = "page" THEN 2 * MaxFiles ELSE 0
    ELSE IF stage[w] = "robots" THEN 2 ELSE IF stage[w] \in {"other", "head"} THEN 1 ELSE 0

Owed(w) == Unsent(w) + Following(w) + 2 * files[w]

\* One element for each request that is owed.
Debts == {d \in Workers \X (1 .. LateRequests) : d[2] <= Owed(d[1])}

Turns == Cardinality(Debts)

\* The ticks these requests may still take, of which a sleeper has taken some.
TimeLeft ==
  IF rateMu = NoWorker THEN Turns * MinInterval ELSE (Turns - 1) * MinInterval + timer[rateMu]

Held  == rateMu # NoWorker => cpc[rateMu] = "sleep"
Brief == \A w \in Workers : cpc[w] = "sleep" => timer[w] \in 0 .. MinInterval
Paid  == IF ctxDone THEN sinceDone \in Nat /\ sinceDone + TimeLeft <= CancelBound
                    ELSE sinceDone = 0

CancelInv == Held /\ Brief /\ Paid

\* A step of w that leaves the rate limiter, the clock and everybody else alone.
Apart(w) ==
  /\ cpc[w] # "sleep" /\ cpc'[w] # "sleep"
  /\ UNCHANGED <<rateMu, ctxDone, sinceDone>>
  /\ \A v \in Workers \ {w} :
       /\ cpc'[v] = cpc[v] /\ timer'[v] = timer[v]
       /\ stage'[v] = stage[v] /\ files'[v] = files[v]

\* Multiplying by an interval keeps the order: the arithmetic of turns and ticks.
LEMMA Scaled ==
  ASSUME NEW a \in Int, NEW b \in Int, NEW m \in Nat, a <= b
  PROVE  a * m \in Int /\ b * m \in Int /\ a * m <= b * m /\ (a - 1) * m = a * m - m
<1>1. \A c \in Nat : c * m >= 0
  BY Z3
<1>2. (b - a) * m >= 0 /\ (b - a) * m = b * m - a * m
  BY <1>1, Z3
<1>3. (a - 1) * m = a * m - m
  BY Z3
<1> QED BY <1>2, <1>3

\* Nobody owes more than the late requests of one entry.
LEMMA OwedBounded ==
  ASSUME TypeOK, Counted, NEW w \in Workers
  PROVE  Owed(w) \in 0 .. LateRequests
<1> USE HttpAssumption DEF TypeOK
<1>1. files[w] \in 0 .. MaxFiles /\ cpc[w] \in Where /\ stage[w] \in Stages
  OBVIOUS
<1>2. LateRequests \in Nat /\ 3 <= LateRequests /\ 2 * MaxFiles <= LateRequests
  BY DEF LateRequests
<1>3. CASE cpc[w] = "listed"
  BY <1>1, <1>2, <1>3 DEF Counted, Owed, Unsent, Following, Lookups
<1>4. CASE cpc[w] # "listed" /\ stage[w] \in Lookups \union {"page"}
  <2>1. files[w] = 0
    BY <1>4 DEF Counted
  <2> QED BY <1>1, <1>2, <1>4, <2>1 DEF Owed, Unsent, Following, Lookups
<1>5. CASE cpc[w] # "listed" /\ stage[w] \notin Lookups \union {"page"}
  <2>1. files[w] + 1 <= MaxFiles
    BY <1>1, <1>5 DEF Counted
  <2>2. Unsent(w) \in 0 .. 1 /\ Following(w) \in 0 .. 1
    BY <1>5 DEF Unsent, Following, Lookups
  <2> QED BY <1>1, <1>2, <2>1, <2>2 DEF Owed
<1> QED BY <1>3, <1>4, <1>5

\* All workers together owe no more than that for each of them.
LEMMA TurnsCounted ==
  /\ IsFiniteSet(Debts) /\ Turns \in Nat
  /\ Cardinality(Workers) * LateRequests \in Nat
  /\ Turns <= Cardinality(Workers) * LateRequests
<1> USE HttpAssumption
<1>1. LateRequests \in Nat
  BY DEF LateRequests
<1>2. IsFiniteSet(1 .. LateRequests) /\ Cardinality(1 .. LateRequests) = LateRequests
  BY <1>1, FS_Interval
<1>3. /\ IsFiniteSet(Workers \X (1 .. LateRequests))
      /\ Cardinality(Workers \X (1 .. LateRequests)) = Cardinality(Workers) * LateRequests
  BY <1>2, FS_Product
<1>4. Debts \subseteq Workers \X (1 .. LateRequests)
  BY DEF Debts
<1>5. /\ IsFiniteSet(Debts)
      /\ Cardinality(Debts) <= Cardinality(Workers \X (1 .. LateRequests))
  BY <1>3, <1>4, FS_Subset
<1>6. Cardinality(Debts) \in Nat /\ Cardinality(Workers \X (1 .. LateRequests)) \in Nat
  BY <1>3, <1>5, FS_CardinalityType
<1> QED BY <1>3, <1>5, <1>6 DEF Turns

\* Who owes less, owes less in sum; and one less when one has paid.
LEMMA Fewer ==
  ASSUME NEW A, NEW B, IsFiniteSet(B), A \subseteq B
  PROVE  /\ Cardinality(A) \in Nat /\ Cardinality(B) \in Nat
         /\ Cardinality(A) <= Cardinality(B)
         /\ \A w \in B \ A : Cardinality(A) <= Cardinality(B) - 1
<1>1. IsFiniteSet(A) /\ Cardinality(A) <= Cardinality(B)
  BY FS_Subset
<1>2. Cardinality(A) \in Nat /\ Cardinality(B) \in Nat
  BY <1>1, FS_CardinalityType
<1>3. ASSUME NEW w \in B \ A PROVE Cardinality(A) <= Cardinality(B) - 1
  <2>1. IsFiniteSet(B \ {w}) /\ Cardinality(B \ {w}) = Cardinality(B) - 1
    BY FS_RemoveElement
  <2>2. A \subseteq B \ {w}
    OBVIOUS
  <2> QED BY <2>1, <2>2, FS_Subset
<1> QED BY <1>1, <1>2, <1>3

\* The quiet steps are Apart.
LEMMA MostlyApart ==
  ASSUME TypeOK, NEW w \in Workers, Quiet(w)
  PROVE  Apart(w)
<1> USE DEF TypeOK, Apart, At, Arm, clockVars
<1>1. CASE Fetch(w) \/ NextFile(w)
  BY <1>1 DEF Fetch, NextFile, Request
<1>2. CASE Ending(w)
  <2> USE DEF Return, ReturnWith, Start, Request, Read, NotHTML, LookedUp
  <2>1. CASE RobotsAnswered(w) \/ PageAnswered(w)
    BY <2>1 DEF RobotsAnswered, PageAnswered, Answered
  <2>2. CASE HeadAnswered(w) \/ RangeAnswered(w) \/ PlainAnswered(w)
    BY <2>2 DEF HeadAnswered, RangeAnswered, PlainAnswered, Answered
  <2>3. CASE ReadDone(w) \/ ReadFailed(w)
    BY <2>3 DEF ReadDone, ReadFailed
  <2>4. CASE RequestFailed(w)
    BY <2>4 DEF RequestFailed, GivenUp
  <2> QED BY <1>2, <2>1, <2>2, <2>3, <2>4 DEF Ending
<1>3. CASE Paperwork(w) /\ UNCHANGED fetchVars
  BY <1>3 DEF Paperwork, Refused, RetryDrained, RetryFailed, BackoffOver, NextAttempt, fetchVars
<1> QED BY <1>1, <1>2, <1>3 DEF Quiet

\* When the context has ended, none of these steps makes a worker owe more.
LEMMA NoNewDebt ==
  ASSUME TypeOK, Counted, ctxDone, NEW w \in Workers, Quiet(w)
  PROVE  Debts' \subseteq Debts
<1>1. \A v \in Workers \ {w} : Owed(v)' = Owed(v)
  BY MostlyApart DEF Apart, Owed, Unsent, Following
<1>2. files[w] \in 0 .. MaxFiles /\ MaxFiles \in Nat \ {0}
  BY HttpAssumption DEF TypeOK
<1>3. Owed(w)' \in Int /\ Owed(w) \in Int /\ Owed(w)' <= Owed(w)
  <2> USE <1>2 DEF TypeOK, At, Owed, Unsent, Following, Lookups
  <2>1. CASE Ending(w)
    <3> USE DEF Return, ReturnWith, Start, Request, NotHTML, LookedUp
    <3>1. ~Answered(w)
      BY DEF Answered
    <3>2. CASE ReadDone(w)
      <4>1. CASE stage[w] \in Lookups /\ LookedUp(w)
        BY <3>2, <4>1 DEF ReadDone
      <4>2. ASSUME stage[w] = "page", NEW n \in 0 .. MaxFiles, ReturnWith(w, "links", n)
            PROVE  Owed(w)' \in Int /\ Owed(w) \in Int /\ Owed(w)' <= Owed(w)
        BY <3>2, <4>2 DEF ReadDone, Counted
      <4>3. CASE stage[w] = "page" /\ Return(w, "links")
        BY <3>2, <4>3 DEF ReadDone
      <4>4. CASE stage[w] = "page" /\ NotHTML(w)
        BY <3>2, <4>4 DEF ReadDone
      <4>5. CASE stage[w] \in {"range", "plain"} /\ Return(w, TypeOf(res[w]))
        BY <3>2, <4>5 DEF ReadDone
      <4> QED BY <3>2, <4>1, <4>2, <4>3, <4>4, <4>5 DEF ReadDone
    <3>3. CASE ReadFailed(w)
      BY <3>3 DEF ReadFailed
    <3>4. CASE RequestFailed(w)
      <4>1. cpc[w] \in {"net", "backoff", "drain"}
        BY <3>4 DEF RequestFailed, GivenUp
      <4>2. CASE stage[w] = "robots" /\ Start(w, "other")
        BY <4>1, <4>2
      <4>3. CASE stage[w] = "other" /\ LookedUp(w)
        BY <4>1, <4>3
      <4>4. CASE stage[w] = "head" /\ Start(w, "range")
        BY <4>1, <4>4
      <4>5. CASE stage[w] \notin {"robots", "other", "head"} /\ Return(w, "error")
        BY <4>1, <4>5
      <4> HIDE DEF Owed, Start, LookedUp, Return
      <4> QED BY <3>4, <4>2, <4>3, <4>4, <4>5 DEF RequestFailed
    <3> QED BY <2>1, <3>1, <3>2, <3>3, <3>4 DEF Ending, RobotsAnswered, PageAnswered,
         HeadAnswered, RangeAnswered, PlainAnswered
  <2>2. CASE NextFile(w)
    <3>1. cpc[w] = "listed" /\ cpc'[w] = "lock" /\ stage'[w] = "head"
          /\ files'[w] = files[w] - 1 /\ stage[w] = "page"
      BY <2>2 DEF NextFile, Request, Counted
    <3> QED BY <3>1
  <2>3. CASE Paperwork(w) /\ UNCHANGED fetchVars
    BY <2>3 DEF Paperwork, Refused, RetryDrained, RetryFailed, BackoffOver, NextAttempt, fetchVars
  <2>4. ~Fetch(w)
    BY DEF Fetch
  <2> QED BY <2>1, <2>2, <2>3, <2>4 DEF Quiet
<1>4. ASSUME NEW v \in Workers, NEW i \in 1 .. LateRequests, i <= Owed(v)'
      PROVE  i <= Owed(v)
  <2>1. i \in Int
    BY HttpAssumption DEF LateRequests
  <2>2. CASE v = w
    BY <1>3, <1>4, <2>1, <2>2
  <2>3. CASE v # w
    BY <1>1, <1>4, <2>3
  <2> QED BY <2>2, <2>3
<1> QED BY <1>4 DEF Debts

\* The invariant of a cancelled client.
THEOREM CancelInductive == Spec => []CancelInv
<1>1. Init => CancelInv
  BY DEF Init, ClientInit, CancelInv, Held, Brief, Paid
<1>2. TypeOK /\ Counted /\ CancelInv /\ [Next]_vars /\ Alone => CancelInv'
  <2> SUFFICES ASSUME TypeOK, Counted, CancelInv, Alone, [Next]_vars PROVE CancelInv'
    OBVIOUS
  <2> USE HttpAssumption
  <2>1. /\ MinInterval \in Nat /\ Turns \in Nat /\ CancelBound \in Nat
        /\ Turns * MinInterval \in Nat /\ Turns * MinInterval <= CancelBound
        /\ (Turns - 1) * MinInterval = Turns * MinInterval - MinInterval
    <3>1. Cardinality(Workers) * LateRequests \in Nat /\ Turns \in Nat
      BY TurnsCounted
    <3>2. CancelBound = (Cardinality(Workers) * LateRequests) * MinInterval
      BY DEF CancelBound
    <3>3. CancelBound \in Nat /\ Turns * MinInterval \in Nat
      <4>1. \A a, b \in Nat : a * b \in Nat
        BY Z3
      <4> QED BY <3>1, <3>2, <4>1
    <3>4. Turns * MinInterval <= CancelBound
      BY <3>1, <3>2, TurnsCounted, Scaled
    <3>5. (Turns - 1) * MinInterval = Turns * MinInterval - MinInterval
      BY TurnsCounted, Scaled
    <3> QED BY <3>3, <3>4, <3>5, TurnsCounted
  \* Who waits for the mutex waits for a sleeper.
  <2>2. rateMu # NoWorker => rateMu \in Workers /\ cpc[rateMu] = "sleep" /\ timer[rateMu] \in 0 .. MinInterval
    BY DEF CancelInv, Held, Brief, TypeOK
  <2>3. TimeLeft \in Int /\ TimeLeft <= Turns * MinInterval
    BY <2>1, <2>2 DEF TimeLeft
  <2>4. CASE Tick /\ UNCHANGED fetchVars
    <3> USE <2>4 DEF Tick
    <3>1. cpc' = cpc /\ rateMu' = rateMu /\ ctxDone' = ctxDone
      OBVIOUS
    <3>2. \A w \in Workers : cpc[w] = "sleep" => timer'[w] = timer[w] - 1 /\ timer[w] \in 1 .. MinInterval
      BY DEF CancelInv, Brief, Urgent, OnTime
    <3>3. (Held /\ Brief)'
      BY <3>1, <3>2 DEF CancelInv, Held, Brief
    <3>4. CASE ~ctxDone
      BY <3>1, <3>3, <3>4 DEF CancelInv, Paid
    <3>5. CASE ctxDone /\ rateMu = NoWorker
      <4>1. \A w \in Workers : cpc[w] = "idle"
        BY <3>5 DEF Urgent, OnTime, Cancellable, TypeOK, Where, Alone
      <4>2. sinceDone' = sinceDone /\ TimeLeft' = TimeLeft
        BY <3>1, <3>5, <4>1 DEF TimeLeft, Turns, Debts, Owed, Unsent, Following, fetchVars
      <4> QED BY <3>1, <3>3, <3>5, <4>2 DEF CancelInv, Paid
    <3>6. CASE ctxDone /\ rateMu # NoWorker
      <4>1. timer'[rateMu] = timer[rateMu] - 1 /\ timer[rateMu] \in 1 .. MinInterval
        BY <2>2, <3>2, <3>6
      <4>2. stage' = stage /\ files' = files
        BY DEF fetchVars
      <4>3. Turns' = Turns
        BY <3>1, <4>2 DEF Turns, Debts, Owed, Unsent, Following
      <4>4. TimeLeft' = TimeLeft - 1
        BY <2>1, <3>1, <3>6, <4>1, <4>3 DEF TimeLeft
      <4>5. sinceDone \in Nat /\ sinceDone + TimeLeft <= CancelBound
        BY <3>6 DEF CancelInv, Paid
      <4>6. sinceDone' \in Nat /\ sinceDone' <= sinceDone + 1
        BY <2>1, <4>5 DEF UpTo
      <4> QED BY <2>1, <2>3, <3>1, <3>3, <3>6, <4>4, <4>5, <4>6 DEF CancelInv, Paid
    <3> QED BY <3>4, <3>5, <3>6
  <2>5. CASE Cancel /\ UNCHANGED fetchVars
    <3>1. (Held /\ Brief)'
      BY <2>5 DEF Cancel, CancelInv, Held, Brief
    <3>2. TimeLeft' = TimeLeft
      BY <2>5 DEF Cancel, TimeLeft, Turns, Debts, Owed, Unsent, Following, fetchVars
    <3>3. sinceDone' = 0
      BY <2>5 DEF Cancel, CancelInv, Paid
    <3> QED BY <2>1, <2>3, <2>5, <3>1, <3>2, <3>3 DEF Cancel, CancelInv, Paid
  <2>6. ASSUME NEW w \in Workers, Apart(w),
               ctxDone => Debts' \subseteq Debts
        PROVE  CancelInv'
    <3>1. rateMu' = rateMu /\ ctxDone' = ctxDone /\ sinceDone' = sinceDone
      BY <2>6 DEF Apart
    <3>2. \A v \in Workers : cpc[v] = "sleep" => cpc'[v] = "sleep" /\ timer'[v] = timer[v]
      BY <2>6 DEF Apart
    <3>3. \A v \in Workers : cpc'[v] = "sleep" => cpc[v] = "sleep"
      BY <2>6 DEF Apart
    <3>4. (Held /\ Brief)'
      BY <2>2, <3>1, <3>2, <3>3 DEF CancelInv, Held, Brief
    <3>5. CASE ~ctxDone
      BY <3>1, <3>4, <3>5 DEF CancelInv, Paid
    <3>6. CASE ctxDone
      <4>1. Turns' \in Nat /\ Turns' <= Turns
        BY <2>6, <3>6, Fewer, TurnsCounted DEF Turns
      <4>2. Turns' * MinInterval <= Turns * MinInterval
            /\ (Turns' - 1) * MinInterval <= (Turns - 1) * MinInterval
            /\ Turns' * MinInterval \in Int /\ (Turns' - 1) * MinInterval \in Int
        <5>1. \A a, b \in Int : a <= b =>
                a * MinInterval \in Int /\ b * MinInterval \in Int /\ a * MinInterval <= b * MinInterval
          BY <2>1, Scaled
        <5>2. \A a, b \in Nat : a <= b =>
                a \in Int /\ b \in Int /\ a - 1 \in Int /\ b - 1 \in Int /\ a - 1 <= b - 1
          OBVIOUS
        <5>3. Turns \in Nat
          BY <2>1
        <5> QED BY <4>1, <5>1, <5>2, <5>3, Zenon
      <4>3. TimeLeft' \in Int /\ TimeLeft' <= TimeLeft
        BY <2>1, <2>2, <3>1, <3>2, <4>2 DEF TimeLeft
      <4> QED BY <2>1, <2>3, <3>1, <3>4, <3>6, <4>3 DEF CancelInv, Paid
    <3> QED BY <3>5, <3>6
  <2>7. ASSUME NEW w \in Workers, Lock(w), UNCHANGED fetchVars PROVE CancelInv'
    <3> USE <2>7 DEF Lock, At, Arm, clockVars, TypeOK
    <3>1. rateMu' = w /\ cpc'[w] = "sleep" /\ timer'[w] = MinInterval - age
      OBVIOUS
    <3>2. MinInterval - age \in 0 .. MinInterval
      OBVIOUS
    <3>3. (Held /\ Brief)'
      BY <3>1, <3>2 DEF CancelInv, Held, Brief
    <3>4. Debts' = Debts
      <4>1. \A v \in Workers : Unsent(v)' = Unsent(v) /\ Following(v)' = Following(v) /\ files'[v] = files[v]
        BY DEF Unsent, Following, fetchVars
      <4> QED BY <4>1 DEF Debts, Owed
    <3>5. TimeLeft' \in Int /\ TimeLeft' <= TimeLeft
      BY <2>1, <3>1, <3>2, <3>4 DEF TimeLeft, Turns
    <3> QED BY <2>1, <2>3, <3>3, <3>5 DEF CancelInv, Paid
  <2>8. ASSUME NEW w \in Workers, Send(w), UNCHANGED fetchVars PROVE CancelInv'
    <3> USE <2>8 DEF Send, At, Arm, TypeOK
    <3>1. rateMu = w /\ rateMu' = NoWorker /\ timer[rateMu] = 0
      BY DEF Alone
    <3>2. \A v \in Workers : v # w => cpc[v] # "sleep"
      BY <3>1 DEF Alone
    <3>3. (Held /\ Brief)'
      BY <3>1, <3>2 DEF CancelInv, Held, Brief
    <3>4. Debts' \subseteq Debts /\ <<w, Owed(w)>> \in Debts \ Debts'
      <4>1. \A v \in Workers \ {w} : Owed(v)' = Owed(v)
        BY DEF Owed, Unsent, Following, fetchVars
      <4>2. Unsent(w) = 1 /\ Unsent(w)' = 0 /\ Following(w)' = Following(w) /\ files'[w] = files[w]
        BY DEF Unsent, Following, fetchVars
      <4>3. files[w] \in Nat /\ Following(w) \in Nat
        BY DEF Following
      <4>4. Owed(w) \in 1 .. LateRequests /\ Owed(w)' = Owed(w) - 1
        BY <4>2, <4>3, OwedBounded DEF Owed
      <4>5. \A i \in 1 .. LateRequests : i \in Int /\ (i <= Owed(w)' => i <= Owed(w))
        BY <4>4
      <4>6. ~(Owed(w) <= Owed(w)')
        BY <4>4
      <4> QED BY <4>1, <4>4, <4>5, <4>6 DEF Debts
    <3>5. Turns' \in Nat /\ Turns' <= Turns - 1
      BY <3>4, Fewer, TurnsCounted DEF Turns
    <3>6. Turns' * MinInterval \in Int /\ Turns' * MinInterval <= (Turns - 1) * MinInterval
      <4>1. \A a, b \in Int : a <= b =>
              a * MinInterval \in Int /\ b * MinInterval \in Int /\ a * MinInterval <= b * MinInterval
        BY <2>1, Scaled
      <4>2. Turns' \in Int /\ Turns - 1 \in Int
        BY <2>1, <3>5
      <4> QED BY <3>5, <4>1, <4>2, Zenon
    <3>7. TimeLeft' \in Int /\ TimeLeft' <= TimeLeft
      BY <2>1, <3>1, <3>6 DEF TimeLeft
    <3> QED BY <2>1, <2>3, <3>3, <3>7 DEF CancelInv, Paid
  <2>9. CASE UNCHANGED vars
    BY <2>9 DEF vars, clientVars, fetchVars, CancelInv, Held, Brief, Paid, TimeLeft, Turns,
       Debts, Owed, Unsent, Following
  <2> QED BY <2>4, <2>5, <2>6, <2>7, <2>8, <2>9, MostlyApart, NoNewDebt
          DEF Next, Passing, Step, Attempting, Paperwork, Quiet
<1> QED BY <1>1, <1>2, CountInductive, RateInductive, PTL DEF Spec, RateInv

\* A cancelled run waits for its workers no longer than the late requests of each of them
\* take in the rate limiter: three, or two for each file of the longest listing, for any
\* number of workers, any interval and any such length (waitForRateLimit sleeps without a
\* look at the context, and so do fetchRobotsData and the loop over a listing's files go on).
THEOREM CancelWaitsBriefly == Spec => []CancelBounded
<1>1. ASSUME TypeOK, Counted, CancelInv PROVE CancelBounded
  <2> USE HttpAssumption
  <2>0. \A a, b \in Nat : a * b \in Nat
    BY Z3
  <2>1. MinInterval \in Nat /\ Turns \in Nat /\ CancelBound \in Nat
    <3>1. CancelBound = (Cardinality(Workers) * LateRequests) * MinInterval
      BY DEF CancelBound
    <3> QED BY <2>0, <3>1, TurnsCounted
  <2>2. CASE ~ctxDone
    BY <1>1, <2>1, <2>2 DEF CancelInv, Paid, CancelBounded
  <2>3. CASE ctxDone /\ rateMu = NoWorker
    <3>1. Turns * MinInterval \in Nat
      BY <2>0, <2>1
    <3> QED BY <1>1, <2>1, <2>3, <3>1 DEF CancelInv, Paid, TimeLeft, CancelBounded
  <2>4. CASE ctxDone /\ rateMu # NoWorker
    <3>1. rateMu \in Workers /\ cpc[rateMu] = "sleep" /\ timer[rateMu] \in Nat
      BY <1>1, <2>4 DEF CancelInv, Held, Brief, TypeOK
    <3>2. Debts # {}
      <4>1. Owed(rateMu) \in Int /\ 1 <= Owed(rateMu)
        <5>1. Unsent(rateMu) = 1 /\ Following(rateMu) \in Nat /\ files[rateMu] \in Nat
          BY <1>1, <3>1 DEF Unsent, Following, TypeOK
        <5> QED BY <5>1 DEF Owed
      <4>2. 1 \in 1 .. LateRequests
        BY DEF LateRequests
      <4>3. <<rateMu, 1>> \in Debts
        BY <3>1, <4>1, <4>2 DEF Debts
      <4> QED BY <4>3
    <3>3. Turns - 1 \in Nat
      BY <2>1, <3>2, TurnsCounted, FS_EmptySet DEF Turns
    <3>4. (Turns - 1) * MinInterval \in Nat
      BY <2>0, <2>1, <3>3
    <3> QED BY <1>1, <2>1, <2>4, <3>1, <3>4 DEF CancelInv, Paid, TimeLeft, CancelBounded
  <2> QED BY <2>2, <2>3, <2>4
<1> QED BY <1>1, CountInductive, CancelInductive, PTL

=============================================================================
