-------------------------- MODULE ModelCalls_proofs --------------------------
(***************************************************************************)
(* Theorems about ModelCalls, for every set of threads, every interval and *)
(* every number of retries: its types, the spacing of requests and the     *)
(* explanation of every end.                                               *)
(***************************************************************************)
EXTENDS ModelCalls, TLAPS

-----------------------------------------------------------------------------
(* The inductive invariant                                                 *)

\* The lock is held by the thread in the throttle, which sleeps through the interval.
LockInv ==
  /\ \A c \in Callers : call[c].pc = "holding" <=> lock = c
  /\ lock # NoCaller => since + sleep >= Interval

\* Groq is reached from vLLM through a refused connection, and is untouched before.
OnItsWay(c) ==
  /\ call[c].provider # config.backend =>
       config.backend = "vllm" /\ tried[c]["vllm"].last = "refused"
  /\ call[c].provider = "vllm" => tried[c]["groq"].sent = 0
  /\ call[c].pc = "idle" => call[c].provider = config.backend /\ call[c].attempt = 0
  /\ call[c].provider = "groq" /\ ~config.key => call[c].pc \in {"idle", "raised"}

\* The attempts counted by the loop are the requests that were sent.
Counted(c) ==
  LET sent == tried[c][call[c].provider].sent
  IN  /\ call[c].pc \in {"idle", "throttle", "holding", "sending"} => sent = call[c].attempt
      /\ call[c].pc = "backoff" => sent = call[c].attempt + 1 /\ sent < MaxRetries

CallInv == \A c \in Callers : OnItsWay(c) /\ Counted(c)

IInv == TypeOK /\ LockInv /\ CallInv /\ EndsExplained

\* A thread's step leaves the calls of the others alone.
Others(c) ==
  \A d \in Callers \ {c} : call'[d] = call[d] /\ tried'[d] = tried[d]

-----------------------------------------------------------------------------
(* Steps                                                                   *)

LEMMA InitIInv == Init => IInv
<1> SUFFICES ASSUME Init PROVE IInv
  OBVIOUS
<1> USE IntervalAssumption, MaxRetriesAssumption, NoCallerAssumption DEF Init, Providers
<1>1. TypeOK
  BY DEF TypeOK, Outcomes
<1>2. LockInv
  BY DEF LockInv
<1>3. CallInv
  BY DEF CallInv, OnItsWay, Counted
<1>4. EndsExplained
  BY DEF EndsExplained
<1> QED
  BY <1>1, <1>2, <1>3, <1>4 DEF IInv

\* Time passes while the holder sleeps.
LEMMA TickIInv == IInv /\ Tick => IInv'
<1> SUFFICES ASSUME IInv, Tick PROVE IInv'
  OBVIOUS
<1> USE IntervalAssumption DEF IInv, Tick
<1>1. TypeOK'
  BY DEF TypeOK
<1>2. LockInv'
  BY DEF TypeOK, LockInv
<1>3. CallInv' /\ EndsExplained'
  BY DEF CallInv, OnItsWay, Counted, EndsExplained, AnswerExplained, ExceptionExplained
<1> QED
  BY <1>1, <1>2, <1>3

LEMMA StutterIInv == IInv /\ UNCHANGED vars => IInv'
BY DEF vars, IInv, TypeOK, LockInv, CallInv, OnItsWay, Counted, EndsExplained, AnswerExplained,
       ExceptionExplained

\* The type invariant, step by step.
LEMMA CallerTypeOK ==
  ASSUME IInv, NEW c \in Callers, Start(c) \/ Proceed(c)
  PROVE  TypeOK'
<1> USE IntervalAssumption, MaxRetriesAssumption DEF TypeOK, Goto, Providers
<1>0. TypeOK /\ OnItsWay(c) /\ Counted(c)
  BY DEF IInv, CallInv
<1>1. CASE Start(c)
  BY <1>0, <1>1 DEF Start, Begin
<1>2. CASE Enter(c)
  <2>1. Interval - since \in 0 .. Interval
    BY <1>0
  <2>2. call' \in [Callers -> [pc : {"idle", "throttle", "holding", "sending", "backoff",
                                    "answered", "raised"},
                              provider : Providers,
                              attempt : 0 .. MaxRetries - 1]]
    BY <1>0, <1>2 DEF Enter
  <2> QED
    BY <1>0, <1>2, <2>1, <2>2 DEF Enter
<1>3. CASE Grant(c)
  BY <1>0, <1>3 DEF Grant
<1>4. ASSUME NEW o, Ends(c, o)
      PROVE  tried' \in [Callers -> [Providers -> [sent : 0 .. MaxRetries,
                                                   last : Outcomes \cup {"none"}]]]
  <2>1. tried[c][call[c].provider].sent = call[c].attempt
    BY <1>0, <1>4 DEF Ends, Counted
  <2>2. call[c].provider \in Providers /\ call[c].attempt \in 0 .. MaxRetries - 1
    BY <1>0
  <2>3. tried[c][call[c].provider].sent + 1 \in 0 .. MaxRetries
    BY <2>1, <2>2
  <2>4. o \in Outcomes
    BY <1>4 DEF Ends, OutcomesOf
  <2> QED
    BY <1>0, <1>4, <2>2, <2>3, <2>4 DEF Ends
<1>5. CASE Answered(c)
  BY <1>0, <1>4, <1>5, ZenonT(30) DEF Answered, Ends
<1>6. CASE Backoff(c)
  BY <1>0, <1>4, <1>6, ZenonT(30) DEF Backoff, Ends
<1>7. CASE Retry(c)
  <2>1. call[c].attempt + 1 \in 0 .. MaxRetries - 1
    BY <1>0, <1>7 DEF Retry, Counted
  <2> QED
    BY <1>0, <1>7, <2>1 DEF Retry
<1>8. CASE Raise(c)
  BY <1>0, <1>4, <1>8, ZenonT(30) DEF Raise, Ends
<1>9. CASE FallBack(c)
  <2>1. call' \in [Callers -> [pc : {"idle", "throttle", "holding", "sending", "backoff",
                                    "answered", "raised"},
                              provider : Providers,
                              attempt : 0 .. MaxRetries - 1]]
    BY <1>0, <1>9 DEF FallBack, Begin
  <2>2. UNCHANGED <<config, since, lock, sleep>>
    BY <1>9 DEF FallBack, Ends
  <2>3. Ends(c, "refused")
    BY <1>9 DEF FallBack
  <2> QED
    BY <1>0, <1>4, <2>1, <2>2, <2>3
<1> QED
  BY <1>1, <1>2, <1>3, <1>5, <1>6, <1>7, <1>8, <1>9 DEF Proceed

LEMMA CallerOthers ==
  ASSUME IInv, NEW c \in Callers, Start(c) \/ Proceed(c)
  PROVE  Others(c) /\ config' = config
<1>0. TypeOK
  BY DEF IInv
<1> QED
  BY <1>0 DEF TypeOK, Others, Start, Proceed, Begin, Goto, Enter, Grant, Answered, Backoff, Retry,
          Raise, FallBack, Ends

\* Only Enter and Grant touch the throttle.
LEMMA CallerLockInv ==
  ASSUME IInv, NEW c \in Callers, Start(c) \/ Proceed(c)
  PROVE  LockInv'
<1> USE IntervalAssumption, NoCallerAssumption
<1>0. TypeOK /\ LockInv /\ Others(c)
  BY CallerOthers DEF IInv
<1>1. CASE Enter(c)
  BY <1>0, <1>1 DEF Enter, LockInv, TypeOK, Goto
<1>2. CASE Grant(c)
  BY <1>0, <1>2 DEF Grant, LockInv, TypeOK, Goto
<1>3. ASSUME UNCHANGED <<since, lock, sleep>>, call[c].pc # "holding", call'[c].pc # "holding"
      PROVE  LockInv'
  BY <1>0, <1>3 DEF LockInv, Others
<1>4. CASE Start(c)
  BY <1>0, <1>3, <1>4 DEF Start, Begin, TypeOK
<1>5. CASE Answered(c) \/ Backoff(c) \/ Raise(c)
  BY <1>0, <1>3, <1>5 DEF Answered, Backoff, Raise, Ends, Goto, TypeOK
<1>6. CASE Retry(c)
  BY <1>0, <1>3, <1>6 DEF Retry, TypeOK
<1>7. CASE FallBack(c)
  BY <1>0, <1>3, <1>7 DEF FallBack, Ends, Begin, TypeOK
<1> QED
  BY <1>1, <1>2, <1>4, <1>5, <1>6, <1>7 DEF Proceed

\* The call of the thread that steps.
LEMMA CallerOwn ==
  ASSUME IInv, NEW c \in Callers, Start(c) \/ Proceed(c)
  PROVE  /\ OnItsWay(c)' /\ Counted(c)'
         /\ call'[c].pc = "answered" => AnswerExplained(c)'
         /\ call'[c].pc = "raised" => ExceptionExplained(c)'
<1> USE MaxRetriesAssumption DEF TypeOK, Goto, Providers, OnItsWay, Counted, AnswerExplained, ExceptionExplained
<1>0. TypeOK /\ OnItsWay(c) /\ Counted(c)
  BY DEF IInv, CallInv
<1>1. CASE Start(c)
  BY <1>0, <1>1 DEF Start, Begin
<1>2. CASE Enter(c)
  BY <1>0, <1>2 DEF Enter
<1>3. CASE Grant(c)
  BY <1>0, <1>3 DEF Grant
<1>5. CASE Answered(c)
  BY <1>0, <1>5 DEF Answered, Ends
<1>6. CASE Backoff(c)
  BY <1>0, <1>6 DEF Backoff, Ends, HasMoreAttempts
<1>7. CASE Retry(c)
  BY <1>0, <1>7 DEF Retry
<1>8. CASE Raise(c)
  BY <1>0, <1>8 DEF Raise, Ends, HasMoreAttempts
<1>9. CASE FallBack(c)
  BY <1>0, <1>9 DEF FallBack, Ends, Begin, OutcomesOf, Outcomes
<1> QED
  BY <1>1, <1>2, <1>3, <1>5, <1>6, <1>7, <1>8, <1>9 DEF Proceed

LEMMA CallerIInv ==
  ASSUME IInv, NEW c \in Callers, Start(c) \/ Proceed(c)
  PROVE  IInv'
<1>1. TypeOK' /\ LockInv'
  BY CallerTypeOK, CallerLockInv
<1>2. ASSUME NEW d \in Callers
      PROVE  /\ OnItsWay(d)' /\ Counted(d)'
             /\ call'[d].pc = "answered" => AnswerExplained(d)'
             /\ call'[d].pc = "raised" => ExceptionExplained(d)'
  <2>1. CASE d = c
    BY <2>1, CallerOwn
  <2>2. CASE d # c
    <3>1. call'[d] = call[d] /\ tried'[d] = tried[d] /\ config' = config
      BY <2>2, CallerOthers DEF Others
    <3>2. /\ OnItsWay(d) /\ Counted(d)
          /\ call[d].pc = "answered" => AnswerExplained(d)
          /\ call[d].pc = "raised" => ExceptionExplained(d)
      BY DEF IInv, CallInv, EndsExplained
    <3> QED
      BY <3>1, <3>2 DEF OnItsWay, Counted, AnswerExplained, ExceptionExplained
  <2> QED
    BY <2>1, <2>2
<1>3. CallInv' /\ EndsExplained'
  BY <1>2 DEF CallInv, EndsExplained
<1> QED
  BY <1>1, <1>3 DEF IInv

-----------------------------------------------------------------------------
(* Theorems                                                                *)

\* The inductive invariant of the calls and the throttle (call_primary_model and
\* _throttle_request), from which the theorems below follow.
THEOREM CallsInvariance == Spec => []IInv
<1>1. Init => IInv
  BY InitIInv
<1>2. IInv /\ [Next]_vars => IInv'
  BY TickIInv, StutterIInv, CallerIInv DEF Next
<1> QED
  BY <1>1, <1>2, PTL DEF Spec

\* Every reachable state of the calls has its types: no loop counts past its last attempt.
THEOREM CallsTypeCorrect == Spec => []TypeOK
<1>1. IInv => TypeOK
  BY DEF IInv
<1> QED
  BY <1>1, CallsInvariance, PTL

\* An answer comes from the provider it is attributed to, Groq answers for vLLM only
\* after a refused connection, and no call raises before its attempts are used up.
THEOREM CallsEndsExplained == Spec => []EndsExplained
<1>1. IInv => EndsExplained
  BY DEF IInv
<1> QED
  BY <1>1, CallsInvariance, PTL

\* Any number of threads: two requests never pass the throttle within the interval.
THEOREM ThrottleSpacesRequests == Spec => GrantsSpaced
<1> DEFINE Spaced == \A c \in Callers :
             call[c].pc = "holding" /\ call'[c].pc = "sending" => since = Interval
<1>1. ASSUME IInv, [Next]_vars PROVE [Spaced]_vars
  <2> SUFFICES ASSUME NEW c \in Callers, call[c].pc = "holding", call'[c].pc = "sending"
               PROVE  since = Interval
    OBVIOUS
  <2>0. TypeOK /\ LockInv
    BY <1>1 DEF IInv
  <2>1. lock = c /\ since + sleep >= Interval
    BY <2>0, NoCallerAssumption DEF LockInv
  <2>2. PICK d \in Callers : Start(d) \/ Proceed(d)
    BY <1>1 DEF Next, Tick, vars
  <2>3. d = c
    BY <2>2, <1>1, CallerOthers DEF Others
  <2>4. Grant(c)
    BY <2>0, <2>2, <2>3 DEF TypeOK, Start, Proceed, Enter, Answered, Backoff, Retry, Raise, FallBack,
          Ends, Goto
  <2> QED
    BY <2>0, <2>1, <2>4, IntervalAssumption DEF Grant, TypeOK
<1> QED
  BY <1>1, CallsInvariance, PTL DEF Spec, GrantsSpaced
=============================================================================
