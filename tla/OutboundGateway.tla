--------------------------- MODULE OutboundGateway ---------------------------
(***************************************************************************)
(* The gateway to the vulnerability providers: requests of several tasks   *)
(* through one sliding-window limiter, with bounded retries.               *)
(*                                                                         *)
(* Time is relative: the limiter's timestamps are ages in ticks, and a     *)
(* sleep is the number of ticks that remain.  The length of a backoff is   *)
(* left open: jitter and Retry-After make it any.                          *)
(***************************************************************************)
EXTENDS Integers, Sequences, FiniteSets

CONSTANTS
  Tasks,
  Limit,        \* requests per window
  Window,       \* RATE_WINDOW_SECONDS, in ticks
  MaxAttempts,  \* MAX_ATTEMPTS
  NoTask

ASSUME GatewayAssumption ==
  /\ Limit \in Nat \ {0} /\ Window \in Nat \ {0} /\ MaxAttempts \in Nat \ {0}
  /\ NoTask \notin Tasks

VARIABLES
  stamps,   \* ages of _timestamps, oldest first; Window stands for any older
  holder,   \* the task inside the limiter's lock
  queue,    \* the tasks that wait for it, in order
  sleep,    \* ticks the holder still sleeps
  call,     \* the get_json of each task: where it is, its attempt
  sent      \* history: ages of the requests of the last Window ticks

gateVars == <<stamps, holder, queue, sleep, call, sent>>

NoCall == [pc |-> "idle", attempt |-> 0]

GateInit ==
  /\ stamps = <<>> /\ holder = NoTask /\ queue = <<>> /\ sleep = 0
  /\ call = [t \in Tasks |-> NoCall]
  /\ sent = <<>>

-----------------------------------------------------------------------------
(* _SlidingWindowLimiter.acquire *)

\* The comprehension that keeps the ages inside the window: the list is in
\* order of age (WindowInv of ResponseCacheProofs), so it loses its first ones.
Expired(ages) == CHOOSE n \in 0..Len(ages) : \A i \in DOMAIN ages : ages[i] < Window <=> i > n
Recent(ages) == SubSeq(ages, Expired(ages) + 1, Len(ages))

\* Mutant: a stamp leaves the list one tick early.
Kept_OffByOne == SelectSeq(stamps, LAMBDA a : a < Window - 1)

\* The stamps that are still inside the window.
Kept == Recent(stamps)

\* The lock is free: the first in line gets it (a Lock is fair).
EnterLimiter(t) ==
  /\ holder = NoTask /\ queue # <<>> /\ Head(queue) = t
  /\ holder' = t /\ queue' = Tail(queue)
  /\ UNCHANGED <<stamps, sleep, call, sent>>

\* Room in the window: the request is stamped and goes out.
Acquire(t) ==
  /\ holder = t /\ sleep = 0
  /\ Len(Kept) < Limit
  /\ stamps' = Append(Kept, 0)
  /\ sent' = Append(sent, 0)
  /\ holder' = NoTask
  /\ call' = [call EXCEPT ![t].pc = "sent"]
  /\ UNCHANGED <<queue, sleep>>

\* No room: sleep, inside the lock, until the oldest stamp has left.
Throttle(t) ==
  /\ holder = t /\ sleep = 0
  /\ Len(Kept) >= Limit
  /\ stamps' = Kept
  /\ sleep' = Window - Kept[1]
  /\ UNCHANGED <<holder, queue, call, sent>>

\* A cancelled task leaves the queue, or the lock.
Without(t) ==
  IF \A i \in DOMAIN queue : queue[i] # t THEN queue
  ELSE LET i == CHOOSE i \in DOMAIN queue : queue[i] = t
       IN SubSeq(queue, 1, i - 1) \o SubSeq(queue, i + 1, Len(queue))

Abandon(t) ==
  /\ queue' = Without(t)
  /\ holder' = IF holder = t THEN NoTask ELSE holder
  /\ sleep' = IF holder = t THEN 0 ELSE sleep

-----------------------------------------------------------------------------
(* get_json *)

Wait(t, n) == call' = [call EXCEPT ![t] = [pc |-> "limiter", attempt |-> n]]

\* The URL passed check_url; the first attempt lines up.
GetJson(t) ==
  /\ Wait(t, 1)
  /\ queue' = Append(queue, t)
  /\ UNCHANGED <<stamps, holder, sleep, sent>>

\* 403, 429 and 5xx back off even after the last attempt, an error of the
\* connection only before another one.
Backoff(t) ==
  /\ call[t].pc = "sent"
  /\ call' = [call EXCEPT ![t].pc = "backoff"]
  /\ UNCHANGED <<stamps, holder, queue, sleep, sent>>

\* Mutant: the attempts are not counted.
Again_Forever(t) ==
  /\ call[t].pc = "backoff"
  /\ Wait(t, call[t].attempt)
  /\ queue' = Append(queue, t)
  /\ UNCHANGED <<stamps, holder, sleep, sent>>

\* The next attempt goes through the limiter like the first.
Again(t) ==
  /\ call[t].pc = "backoff" /\ call[t].attempt < MaxAttempts
  /\ Wait(t, call[t].attempt + 1)
  /\ queue' = Append(queue, t)
  /\ UNCHANGED <<stamps, holder, sleep, sent>>

\* The call is over: a 200 with a body that can be read or not, any other
\* status, or the last error after the last attempt.
Returns(t) ==
  /\ \/ call[t].pc = "sent"
     \/ call[t].pc = "backoff" /\ call[t].attempt = MaxAttempts
  /\ call' = [call EXCEPT ![t] = NoCall]
  /\ UNCHANGED <<stamps, holder, queue, sleep, sent>>

CancelCall(t) ==
  /\ call[t].pc # "idle"
  /\ call' = [call EXCEPT ![t] = NoCall]
  /\ Abandon(t)
  /\ UNCHANGED <<stamps, sent>>

\* Time passes for everyone.
GateTick ==
  /\ stamps' = [i \in DOMAIN stamps |-> IF stamps[i] < Window THEN stamps[i] + 1 ELSE Window]
  /\ sent' = Recent([i \in DOMAIN sent |-> sent[i] + 1])
  /\ sleep' = IF sleep > 0 THEN sleep - 1 ELSE 0
  /\ UNCHANGED <<holder, queue, call>>

-----------------------------------------------------------------------------
\* In any window the gateway sends at most Limit requests, whatever number of
\* tasks retries, sleeps and gives up: all attempts pass one limiter.
WindowRespected == Len(sent) <= Limit
=============================================================================
