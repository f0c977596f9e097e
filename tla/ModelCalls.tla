------------------------------ MODULE ModelCalls ------------------------------
(***************************************************************************)
(* call_primary_model (agents/orchestrator.py) in the threads of one       *)
(* worker process: each call goes to the vLLM endpoint or to Groq, as      *)
(* MODEL_BACKEND says, through _throttle_request, which lets one request   *)
(* pass per Interval, and retries what looks like a rate limit.            *)
(*                                                                         *)
(* Time is counted in ticks, only as far as the throttle tells it apart    *)
(* (the clock is taken to be steady); a backoff delay and a request take   *)
(* any time.  ReviewGraph takes a call as one step: an answer or an        *)
(* exception.                                                              *)
(***************************************************************************)
EXTENDS Integers

CONSTANTS
  Callers,      \* threads, with one call each
  NoCaller,     \* the lock is free
  Interval,     \* min_interval of the throttle, in ticks
  MaxRetries    \* attempts at a provider

ASSUME NoCallerAssumption   == NoCaller \notin Callers
ASSUME IntervalAssumption   == Interval \in Nat \ {0}
ASSUME MaxRetriesAssumption == MaxRetries \in Nat \ {0}

VARIABLES
  config,   \* MODEL_BACKEND, and whether there is a GROQ_API_KEY
  since,    \* ticks since _last_request_time, up to Interval
  lock,     \* _rate_limit_lock: the thread in the throttle
  sleep,    \* how long that thread still sleeps
  call,     \* the threads' calls
  tried     \* history: requests sent to each provider and the last outcome

vars == <<config, since, lock, sleep, call, tried>>

Providers == {"vllm", "groq"}
Outcomes  == {"ok", "transient", "refused", "error"}

\* What becomes of a request: "transient" is an error that the provider's loop takes
\* for a rate limit, "refused" a ConnectError of httpx, "error" any other exception.
OutcomesOf(p) == IF p = "vllm" THEN Outcomes ELSE Outcomes \ {"refused"}

TypeOK ==
  /\ config \in [backend : Providers, key : BOOLEAN]
  /\ since \in 0 .. Interval
  /\ lock \in Callers \cup {NoCaller}
  /\ sleep \in 0 .. Interval
  /\ call \in [Callers -> [pc : {"idle", "throttle", "holding", "sending", "backoff",
                                 "answered", "raised"},
                           provider : Providers,
                           attempt : 0 .. MaxRetries - 1]]
  /\ tried \in [Callers -> [Providers -> [sent : 0 .. MaxRetries,
                                          last : Outcomes \cup {"none"}]]]

Init ==
  /\ config \in [backend : Providers, key : BOOLEAN]
  /\ since = Interval
  /\ lock = NoCaller
  /\ sleep = 0
  /\ call = [c \in Callers |-> [pc |-> "idle", provider |-> config.backend, attempt |-> 0]]
  /\ tried = [c \in Callers |-> [p \in Providers |-> [sent |-> 0, last |-> "none"]]]

Tick ==
  /\ since < Interval \/ sleep > 0
  /\ since' = IF since < Interval THEN since + 1 ELSE since
  /\ sleep' = IF sleep > 0 THEN sleep - 1 ELSE 0
  /\ UNCHANGED <<config, lock, call, tried>>

-----------------------------------------------------------------------------
Goto(c, pc) == call' = [call EXCEPT ![c].pc = pc]

\* A provider's loop is entered; Groq's only with a key.
Begin(c, p) ==
  call' = [call EXCEPT ![c] =
             [pc |-> IF p = "groq" /\ ~config.key THEN "raised" ELSE "throttle",
              provider |-> p, attempt |-> 0]]

Start(c) ==
  /\ call[c].pc = "idle"
  /\ Begin(c, config.backend)
  /\ UNCHANGED <<config, since, lock, sleep, tried>>

\* Mutant of Enter: the throttle is entered without the lock.
EnterUnlocked(c) ==
  /\ call[c].pc = "throttle"
  /\ lock' = c
  /\ sleep' = Interval - since
  /\ Goto(c, "holding")
  /\ UNCHANGED <<config, since, tried>>

\* _throttle_request takes the lock and sleeps for what is left of the interval ...
Enter(c) ==
  /\ call[c].pc = "throttle"
  /\ lock = NoCaller
  /\ lock' = c
  /\ sleep' = Interval - since
  /\ Goto(c, "holding")
  /\ UNCHANGED <<config, since, tried>>

\* Mutant of Grant: the lock is not released.
GrantKeepingLock(c) ==
  /\ call[c].pc = "holding"
  /\ sleep = 0
  /\ since' = 0
  /\ Goto(c, "sending")
  /\ UNCHANGED <<config, lock, sleep, tried>>

\* ... and stamps the time and lets the lock go before the request is sent.
Grant(c) ==
  /\ call[c].pc = "holding"
  /\ sleep = 0
  /\ since' = 0
  /\ lock' = NoCaller
  /\ Goto(c, "sending")
  /\ UNCHANGED <<config, sleep, tried>>

-----------------------------------------------------------------------------
Ends(c, outcome) ==
  /\ call[c].pc = "sending"
  /\ outcome \in OutcomesOf(call[c].provider)
  /\ tried' = [tried EXCEPT ![c][call[c].provider] = [sent |-> @.sent + 1, last |-> outcome]]
  /\ UNCHANGED <<config, since, lock, sleep>>

Answered(c) ==
  /\ Ends(c, "ok")
  /\ Goto(c, "answered")

HasMoreAttempts(c) == call[c].attempt < MaxRetries - 1

Backoff(c) ==
  /\ Ends(c, "transient")
  /\ HasMoreAttempts(c)
  /\ Goto(c, "backoff")

Retry(c) ==
  /\ call[c].pc = "backoff"
  /\ call' = [call EXCEPT ![c].pc = "throttle", ![c].attempt = @ + 1]
  /\ UNCHANGED <<config, since, lock, sleep, tried>>

\* Mutant of Raise: whatever vLLM raises, Groq is asked.
RaiseOrFallBack(c) ==
  /\ Ends(c, "error") \/ (Ends(c, "transient") /\ ~HasMoreAttempts(c))
  /\ IF call[c].provider = "vllm" THEN Begin(c, "groq") ELSE Goto(c, "raised")

\* Other errors, and the last of the transient ones, are raised, those of vLLM as a
\* RuntimeError.
Raise(c) ==
  /\ Ends(c, "error") \/ (Ends(c, "transient") /\ ~HasMoreAttempts(c))
  /\ Goto(c, "raised")

\* No retry for a refused connection, at whichever attempt: on to Groq.
FallBack(c) ==
  /\ Ends(c, "refused")
  /\ Begin(c, "groq")

Proceed(c) ==
  \/ Enter(c) \/ Grant(c)
  \/ Answered(c) \/ Backoff(c) \/ Retry(c) \/ Raise(c) \/ FallBack(c)

Next ==
  \/ Tick
  \/ \E c \in Callers : Start(c) \/ Proceed(c)

\* Time passes, requests end (they have timeouts) and threads go on; a thread that waits
\* for the lock gets it at the latest when the others are through.
Fairness == WF_vars(Tick) /\ \A c \in Callers : WF_vars(Proceed(c))

Spec == Init /\ [][Next]_vars /\ Fairness

-----------------------------------------------------------------------------
(* Properties                                                              *)

\* However the threads are scheduled, the throttle of a process never lets two requests
\* pass within Interval of each other (_throttle_request).
GrantsSpaced ==
  [][\A c \in Callers :
       call[c].pc = "holding" /\ call'[c].pc = "sending" => since = Interval]_vars

\* An answer is attributed to the provider that gave it, and Groq stands in for vLLM only
\* after a refused connection.
AnswerExplained(c) ==
  /\ tried[c][call[c].provider].last = "ok"
  /\ call[c].provider # config.backend =>
       config.backend = "vllm" /\ tried[c]["vllm"].last = "refused"

\* An exception is an error of the provider asked last, a rate limit that outlived every
\* attempt, or the missing key of Groq.
ExceptionExplained(c) ==
  LET asked == tried[c][call[c].provider]
  IN  \/ asked.last = "error"
      \/ asked.last = "transient" /\ asked.sent = MaxRetries
      \/ call[c].provider = "groq" /\ ~config.key /\ asked.sent = 0

\* How each call ends is explained by what the providers did, retries included: no result
\* is misattributed and no attempt is given up (call_primary_model, call_vllm_api).
EndsExplained ==
  \A c \in Callers :
    /\ call[c].pc = "answered" => AnswerExplained(c)
    /\ call[c].pc = "raised"   => ExceptionExplained(c)

\* A call that was started is answered or raises, whatever the others do in the throttle.
EveryCallEnds ==
  \A c \in Callers : call[c].pc = "throttle" ~> call[c].pc \in {"answered", "raised"}
=============================================================================
