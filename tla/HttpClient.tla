----------------------------- MODULE HttpClient -----------------------------
(***************************************************************************)
(* HTTPClient of pkg/client_http.go, shared by all workers: the rate limit *)
(* with its mutex, the retry loop with its backoff, and the response body  *)
(* that somebody has to close.  Time is counted in ticks: a tick passes    *)
(* only when no goroutine has a step to take at once, so the bounds below  *)
(* are about the delays the code asks for and not about the scheduler's.   *)
(*                                                                         *)
(* The program that a caller runs around its requests is HttpFetch.        *)
(* What goes past doWithRetry goes past the limit and is not here: the     *)
(* hops of a redirect, which client.Do makes itself, and the POST of the   *)
(* login to SFTPGo, before the crawl.                                      *)
(***************************************************************************)
EXTENDS Integers, FiniteSets

CONSTANTS
  Workers,      \* goroutines that call the client
  NoWorker,     \* holder of a free mutex
  RetryCount,   \* retryCount; requests with DisableRetries are not modelled
  BaseDelay,    \* baseDelay, in ticks, the jitter included
  MinInterval,  \* one second / rateLimit, in ticks; 0 for no limit
  Timeout,      \* http.Client.Timeout, in ticks
  MaxFiles      \* files of one SFTPGo listing, a bound that is the server's

ASSUME HttpAssumption ==
  /\ IsFiniteSet(Workers) /\ NoWorker \notin Workers
  /\ RetryCount \in Nat \ {0}
  /\ BaseDelay \in Nat
  /\ MinInterval \in Nat
  /\ Timeout \in Nat \ {0}
  /\ MaxFiles \in Nat \ {0}

VARIABLES
  cpc,        \* where each caller is in doWithRetry, or with the body it got
  attempt,    \* attempt of its retry loop
  timer,      \* ticks until its sleep, backoff or client timeout is over
  rateMu,     \* who holds rateMu
  age,        \* ticks since lastRequest; MinInterval stands for any more, and for never
  bodies,     \* response bodies it has open
  ctxDone,    \* the context of all requests is done
  sinceSent,  \* history: ticks since any request was sent, counted like age
  sinceDone   \* history: ticks since ctxDone, up to one above CancelBound

clientVars == <<cpc, attempt, timer, rateMu, age, bodies, ctxDone, sinceSent, sinceDone>>
clockVars  == <<age, ctxDone, sinceSent, sinceDone>>

\* net: waiting for the response; drain: emptying a refused one; read: the caller
\* reads the body; listed: it has more files of a listing to look at.
Where == {"idle", "lock", "sleep", "net", "drain", "backoff", "read", "listed"}

\* The requests a caller may still make when its context has ended: for robots.txt by
\* one scheme, by the other, and for the page; or a HEAD and a GET for each file of a
\* listing it has read.
LateRequests == IF 2 * MaxFiles > 3 THEN 2 * MaxFiles ELSE 3

\* Every one of them waits for its turn in the rate limiter.
CancelBound == Cardinality(Workers) * LateRequests * MinInterval

UpTo(bound, n) == IF n < bound THEN n ELSE bound

ClientInit ==
  /\ cpc = [w \in Workers |-> "idle"]
  /\ attempt = [w \in Workers |-> 0]
  /\ timer = [w \in Workers |-> 0]
  /\ rateMu = NoWorker
  /\ age = MinInterval
  /\ bodies = [w \in Workers |-> 0]
  /\ ctxDone = FALSE
  /\ sinceSent = MinInterval /\ sinceDone = 0

-----------------------------------------------------------------------------
(* Time.                                                                   *)

OnTime == {"sleep", "backoff", "net", "drain", "read"}

\* Mutant: the backoff is a time.Sleep.
CancellableOnNet == {"net", "drain", "read"}

\* Waiting that the end of the context cuts short: time.Sleep is not.
Cancellable == {"backoff", "net", "drain", "read"}

\* Who has a step to take before any time passes.
Urgent(w) ==
  \/ cpc[w] = "lock" /\ rateMu = NoWorker
  \/ cpc[w] = "listed"
  \/ cpc[w] \in OnTime /\ timer[w] = 0
  \/ cpc[w] \in Cancellable /\ ctxDone

Tick ==
  /\ \A w \in Workers : ~Urgent(w)
  /\ timer' = [w \in Workers |-> IF cpc[w] \in OnTime THEN timer[w] - 1 ELSE timer[w]]
  /\ age' = UpTo(MinInterval, age + 1)
  /\ sinceSent' = UpTo(MinInterval, sinceSent + 1)
  /\ sinceDone' = IF ctxDone /\ \E w \in Workers : cpc[w] # "idle"
                    THEN UpTo(CancelBound + 1, sinceDone + 1) ELSE sinceDone
  /\ UNCHANGED <<cpc, attempt, rateMu, bodies, ctxDone>>

Cancel ==
  /\ ~ctxDone
  /\ ctxDone' = TRUE
  /\ UNCHANGED <<cpc, attempt, timer, rateMu, age, bodies, sinceSent, sinceDone>>

-----------------------------------------------------------------------------
(* The steps of one request.                                               *)

At(w, pc) == cpc' = [cpc EXCEPT ![w] = pc]
Arm(w, n) == timer' = [timer EXCEPT ![w] = n]

\* doWithRetry is entered: its first attempt goes to the rate limit.
Request(w) ==
  /\ At(w, "lock") /\ Arm(w, 0)
  /\ attempt' = [attempt EXCEPT ![w] = 0]

\* rateMu.Lock(), then a sleep of nextAllowed - now.
Lock(w) ==
  /\ cpc[w] = "lock" /\ rateMu = NoWorker
  /\ At(w, "sleep") /\ Arm(w, MinInterval - age)
  /\ rateMu' = w
  /\ UNCHANGED <<attempt, bodies, clockVars>>

\* Mutant: the mutex is not released.
SendLocked(w) ==
  /\ cpc[w] = "sleep" /\ timer[w] = 0
  /\ At(w, "net") /\ Arm(w, Timeout)
  /\ age' = 0 /\ sinceSent' = 0
  /\ UNCHANGED <<attempt, rateMu, bodies, ctxDone, sinceDone>>

\* Mutant: lastRequest is not set.
SendUnstamped(w) ==
  /\ cpc[w] = "sleep" /\ timer[w] = 0
  /\ At(w, "net") /\ Arm(w, Timeout)
  /\ rateMu' = NoWorker /\ sinceSent' = 0
  /\ UNCHANGED <<attempt, age, bodies, ctxDone, sinceDone>>

\* lastRequest = now, rateMu.Unlock(), client.Do(req).
Send(w) ==
  /\ cpc[w] = "sleep" /\ timer[w] = 0
  /\ At(w, "net") /\ Arm(w, Timeout)
  /\ rateMu' = NoWorker /\ age' = 0 /\ sinceSent' = 0
  /\ UNCHANGED <<attempt, bodies, ctxDone, sinceDone>>

LastAttempt(w) == attempt[w] + 1 >= RetryCount

\* The next turn of the loop, a backoff of baseDelay << (attempt - 1).
NextAttempt(w) ==
  /\ ~LastAttempt(w)
  /\ At(w, "backoff") /\ Arm(w, BaseDelay * 2 ^ attempt[w])
  /\ attempt' = [attempt EXCEPT ![w] = @ + 1]

\* Status 429 or 5xx: what is left of the body is drained first.
Refused(w) ==
  /\ cpc[w] = "net" /\ ~ctxDone
  /\ At(w, "drain")
  /\ bodies' = [bodies EXCEPT ![w] = @ + 1]
  /\ UNCHANGED <<attempt, timer, rateMu, clockVars>>

\* The drain ends, on time, at the client's timeout or with the context.
RetryDrained(w) ==
  /\ cpc[w] = "drain" /\ NextAttempt(w)
  /\ bodies' = [bodies EXCEPT ![w] = @ - 1]
  /\ UNCHANGED <<rateMu, clockVars>>

\* A timeout, or an error that IsTransientError() knows.
RetryFailed(w) ==
  /\ cpc[w] = "net" /\ ~ctxDone /\ NextAttempt(w)
  /\ UNCHANGED <<rateMu, bodies, clockVars>>

BackoffOver(w) ==
  /\ cpc[w] = "backoff" /\ timer[w] = 0
  /\ At(w, "lock")
  /\ UNCHANGED <<attempt, timer, rateMu, bodies, clockVars>>

Attempting(w) ==
  Lock(w) \/ Send(w) \/ Refused(w) \/ RetryDrained(w) \/ RetryFailed(w) \/ BackoffOver(w)

-----------------------------------------------------------------------------
(* How a request ends; HttpFetch says what its caller does then.           *)

\* client.Do returned a response that is not refused: its body is open.
Answered(w) == cpc[w] = "net" /\ ~ctxDone

\* An error that is not transient, the end of the context in the request or in the
\* backoff, or the failure of the last attempt.
GivenUp(w) ==
  \/ cpc[w] = "net"
  \/ cpc[w] = "backoff" /\ ctxDone
  \/ cpc[w] = "drain" /\ LastAttempt(w)

\* The bodies that are open when a request has failed: the drained one is closed.
ClosedOnFailure(w) ==
  bodies' = [bodies EXCEPT ![w] = IF cpc[w] = "drain" THEN @ - 1 ELSE @]

=============================================================================
