---------------------------- MODULE RateLimiter ----------------------------
(***************************************************************************)
(* AsyncTokenBucketLimiter: at most MaxRpm calls and MaxTpm tokens within  *)
(* any window.  A caller that finds no room sleeps until the oldest call   *)
(* leaves the window and tries again; nobody is served in turn.            *)
(*                                                                         *)
(* Who was let through calls the model, and calls it again when that       *)
(* fails: of this the limiter knows nothing.                               *)
(*                                                                         *)
(* Time is discrete and relative: the limiter remembers how old a call is. *)
(***************************************************************************)
EXTENDS Naturals, Sequences, FiniteSetsExt

CONSTANTS
    Callers, \* coroutines that call acquire
    MaxRpm,  \* max_rpm
    MaxTpm,  \* max_tpm
    Window   \* window_seconds, in ticks

ASSUME QuotaAssumption == {MaxRpm, MaxTpm, Window} \subseteq Nat \ {0}

VARIABLES
    events,  \* _requests and _token_events, appended to and purged together
    current, \* _current_tokens
    sleep,   \* per caller: ticks it still sleeps
    granted, \* the calls let through in the last Window ticks
    called,  \* the calls of the model in the last Window ticks, which the provider sees
    unasked  \* some call was not let through by this limiter

limiter == <<events, current, sleep, granted, called, unasked>>

Tokens(q) == MapThenSumSet(LAMBDA i : q[i].tokens, DOMAIN q)
Least(a, b) == IF a < b THEN a ELSE b
-----------------------------------------------------------------------------
\* Mutant: a call leaves the window one tick early.
Expired_Early(event) == event.age + 1 >= Window
Expired(event) == event.age >= Window

\* The two popleft loops stop at the first call that is still in the window.
Kept == {i \in DOMAIN events : \E j \in 1..i : ~Expired(events[j])}
Purged == SubSeq(events, Len(events) - Cardinality(Kept) + 1, Len(events))
Freed == Tokens(SubSeq(events, 1, Len(events) - Cardinality(Kept)))
Remaining == IF current > Freed THEN current - Freed ELSE 0

\* Mutant: no ceiling, so that a call may ask for more than there ever is.
Ask_Unclamped(estimate) == estimate
Ask(estimate) == Least(IF estimate > 1 THEN estimate ELSE 1, MaxTpm)

\* Mutant: what is asked for now is not counted.
Fits_Beforehand(estimate) == Len(Purged) < MaxRpm /\ Remaining < MaxTpm
Fits(estimate) == Len(Purged) < MaxRpm /\ Remaining + Ask(estimate) <= MaxTpm

\* One round of acquire under the lock; then the model is called, some times.
Times(n, event) == [i \in 1..n |-> event]
Admit(c, estimate, n) ==
    LET event == [age |-> 0, tokens |-> Ask(estimate)] IN
    /\ sleep[c] = 0 /\ Fits(estimate)
    /\ events' = Append(Purged, event) /\ current' = Remaining + event.tokens
    /\ granted' = Append(granted, event)
    /\ called' = called \o Times(n, event) /\ unasked' = (unasked \/ n > 1)
    /\ UNCHANGED sleep

\* The model is called again, and nobody is asked.
CallAgain(estimate) ==
    /\ called' = Append(called, [age |-> 0, tokens |-> Ask(estimate)]) /\ unasked' = TRUE
    /\ UNCHANGED <<events, current, sleep, granted>>

\* No room: until the oldest call has left the window, and a jitter longer.
Wait(c, estimate) ==
    /\ sleep[c] = 0 /\ ~Fits(estimate)
    /\ events' = Purged /\ current' = Remaining
    /\ sleep' = [sleep EXCEPT ![c] =
          IF Purged = <<>> THEN Window ELSE Window - Purged[1].age]
    /\ UNCHANGED <<granted, called, unasked>>

\* Ages beyond the window are all the same.
Older(q) == [i \in DOMAIN q |-> [q[i] EXCEPT !.age = Least(@ + 1, Window)]]
\* The oldest calls come first.
InWindow(q) ==
    SubSeq(q, Cardinality({i \in DOMAIN q : q[i].age >= Window}) + 1, Len(q))
Tick ==
    /\ events' = Older(events)
    /\ sleep' = [c \in Callers |-> IF sleep[c] = 0 THEN 0 ELSE sleep[c] - 1]
    /\ granted' = InWindow(Older(granted)) /\ called' = InWindow(Older(called))
    /\ <<events, sleep, granted, called>>' # <<events, sleep, granted, called>>
    /\ UNCHANGED <<current, unasked>>

\* Only memory is used: a new process has a new limiter, and its own window.  The
\* provider's is still the old one.
Reset ==
    /\ events' = <<>> /\ current' = 0 /\ sleep' = [c \in Callers |-> 0]
    /\ granted' = <<>> /\ unasked' = TRUE
    /\ UNCHANGED called

LimiterInit ==
    /\ events = <<>> /\ current = 0 /\ sleep = [c \in Callers |-> 0]
    /\ granted = <<>> /\ called = <<>> /\ unasked = FALSE
-----------------------------------------------------------------------------
Calls == [age : 0..Window, tokens : 1..MaxTpm]
LimiterTypeOK ==
    /\ events \in Seq(Calls) /\ granted \in Seq(Calls) /\ called \in Seq(Calls)
    /\ current \in 0..MaxTpm /\ sleep \in [Callers -> 0..Window]
    /\ unasked \in BOOLEAN

\* What the limiter lets through keeps both quotas in every window, although expired
\* calls are only purged when somebody asks and the tokens are kept as a running total.
\* For the calls that the provider sees this holds until a try that failed is repeated,
\* of which the limiter is not told, or the process is started anew.
Within(q) == Len(q) <= MaxRpm /\ Tokens(q) <= MaxTpm
QuotaRespected == Within(granted) /\ (unasked \/ Within(called))
=============================================================================
