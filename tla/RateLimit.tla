------------------------------ MODULE RateLimit ------------------------------
(***************************************************************************)
(* The rate governor of figment-engine-chain (rate_limit.rs): a bucket of  *)
(* tokens refilled at a rate that throttles lower and quiet time raises,   *)
(* and two priorities of callers. All its callers are futures of one task  *)
(* (try_join! and buffer_unordered in assemble_chain.rs), so what runs     *)
(* between two awaits is one step.                                         *)
(*                                                                         *)
(* Time is kept as ages, in milliseconds, each capped where the code no    *)
(* longer tells ages apart: nothing bounds a behaviour. A definition that  *)
(* stands next to one of the same shape and that no specification uses     *)
(* (RefilledOver, ...) is a plausible bug in it.                           *)
(***************************************************************************)
EXTENDS Integers, FiniteSets, FiniteSetsExt

CONSTANTS
  High, Low,        (* the calls in flight, by priority                    *)
  Floor, Ceil,      (* of the rate, in thousandths of a token per ms       *)
  Start,            (* START_RATE                                          *)
  StepDown, StepUp,
  DownWindow, RecoverInterval,  (* in ms                                   *)
  MaxBurst,         (* in thousandths of a token                           *)
  Token,            (* a thousand of them                                  *)
  Timeout,          (* of the wait of a caller, in ms                      *)
  Calls,            (* each caller makes                                   *)
  Watch             (* ms over which the property counts calls             *)

ASSUME RateAssumption ==
  /\ High \cap Low = {} /\ IsFiniteSet(High \cup Low)
  /\ {Floor, Ceil, Start, StepDown, StepUp, DownWindow, RecoverInterval,
      MaxBurst, Token, Timeout, Calls, Watch} \subseteq Nat \ {0}
  /\ Floor <= Start /\ Start <= Ceil /\ MaxBurst >= Token

Callers == High \cup Low

VARIABLES
  rate,          (* rate_bits                                              *)
  tokens,        (* tokens_milli                                           *)
  refilled,      (* age of last_refill_ms                                  *)
  sinceDown,     (* age of last_down_ms                                    *)
  sinceUp,       (* age of last_up_ms                                      *)
  sinceThrottle, (* age of last_throttle_ms                                *)
  high_waiters,
  call,          (* caller -> away, deferred (it awaits a notification),    *)
                 (* timed (at most for Timeout), woken, calling             *)
  waited,        (* caller -> ms it has waited                              *)
  left,          (* caller -> calls it has yet to make                      *)
  watch          (* of the properties: since some instant, the ms passed,   *)
                 (* the calls issued, and the rate at that instant          *)

clock == <<refilled, sinceDown, sinceUp, sinceThrottle, waited>>
rateVars == <<rate, tokens, clock, high_waiters, call, left, watch>>

FillTime == (MaxBurst \div Floor) + 1

Restart == [ms |-> 0, issued |-> 0, from |-> rate]

(* All instants are 0 at the start, and so is the clock. *)
RateInit ==
  /\ rate = Start /\ tokens = MaxBurst
  /\ refilled = 0 /\ sinceDown = 0 /\ sinceUp = 0 /\ sinceThrottle = 0
  /\ high_waiters = 0
  /\ call = [c \in Callers |-> "away"] /\ waited = [c \in Callers |-> 0]
  /\ left = [c \in Callers |-> Calls] /\ watch = Restart
-----------------------------------------------------------------------------
AtMost(n, bound) == Min({n, bound})

Tick ==
  /\ refilled' = AtMost(refilled + 1, FillTime)
  /\ sinceDown' = AtMost(sinceDown + 1, DownWindow)
  /\ sinceUp' = AtMost(sinceUp + 1, RecoverInterval)
  /\ sinceThrottle' = AtMost(sinceThrottle + 1, RecoverInterval)
  /\ waited' = [c \in Callers |-> IF call[c] = "timed" THEN AtMost(waited[c] + 1, Timeout) ELSE 0]
  /\ watch' = Restart \/ (watch.ms < Watch /\ watch' = [watch EXCEPT !.ms = @ + 1])
  /\ UNCHANGED <<rate, tokens, high_waiters, call, left>>

ClampCeil(r) == Min({Ceil, r})
Clamp(r) == Max({Floor, Min({Ceil, r})})

(* refill: the tokens at the old rate, then the additive increase. *)
RefilledOver == tokens + refilled * rate
Refilled == AtMost(tokens + refilled * rate, MaxBurst)

Quiet == sinceUp >= RecoverInterval /\ sinceThrottle >= RecoverInterval

Refill ==
  /\ refilled' = 0
  /\ IF Quiet
     THEN sinceUp' = 0 /\ rate' = IF rate < Ceil THEN Clamp(rate + StepUp) ELSE rate
     ELSE UNCHANGED <<sinceUp, rate>>

(* notify_waiters: every caller that waits, timed or not, looks again. *)
NotifiedTimed == [x \in Callers |-> IF call[x] = "timed" THEN "woken" ELSE call[x]]
Notified == [x \in Callers |-> IF call[x] \in {"deferred", "timed"} THEN "woken" ELSE call[x]]

(* acquire: a High caller counts itself on entry, and counts itself out when *)
(* it is served.                                                             *)
Acquiring(c) == (call[c] = "away" /\ left[c] > 0) \/ call[c] = "woken"
CountedIn(c) == high_waiters + IF c \in High /\ call[c] = "away" THEN 1 ELSE 0
CountedOut(c) == CountedIn(c) - IF c \in High THEN 1 ELSE 0

(* A Low caller yields while a High one waits. *)
Yields(c) == c \in Low /\ high_waiters > 0

Defer(c) ==
  /\ Acquiring(c) /\ Yields(c)
  /\ call' = [call EXCEPT ![c] = "deferred"]
  /\ UNCHANGED <<rate, tokens, clock, high_waiters, left, watch>>

Take(c) ==
  /\ Acquiring(c) /\ ~Yields(c) /\ Refilled >= Token
  /\ Refill /\ tokens' = Refilled - Token
  /\ high_waiters' = CountedOut(c)
  /\ call' = [(IF c \in High THEN Notified ELSE call) EXCEPT ![c] = "calling"]
  /\ watch' = [watch EXCEPT !.issued = @ + 1]
  /\ UNCHANGED <<sinceDown, sinceThrottle, waited, left>>

Miss(c) ==
  /\ Acquiring(c) /\ ~Yields(c) /\ Refilled < Token
  /\ Refill /\ tokens' = Refilled
  /\ high_waiters' = CountedIn(c)
  /\ call' = [call EXCEPT ![c] = "timed"]
  /\ UNCHANGED <<sinceDown, sinceThrottle, waited, left, watch>>

TimedOut(c) ==
  /\ call[c] = "timed" /\ waited[c] >= Timeout
  /\ call' = [call EXCEPT ![c] = "woken"]
  /\ UNCHANGED <<rate, tokens, clock, high_waiters, left, watch>>

(* The call returns; a retry is a call of its own. *)
Return(c) ==
  /\ call[c] = "calling"
  /\ call' = [call EXCEPT ![c] = "away"] /\ left' = [left EXCEPT ![c] = @ - 1]
  /\ UNCHANGED <<rate, tokens, clock, high_waiters, watch>>

(* on_throttle: one additive step down per window. *)
StepAlways == TRUE
StepDue == sinceDown >= DownWindow

Throttled(c) ==
  /\ call[c] = "calling"
  /\ call' = [call EXCEPT ![c] = "away"] /\ left' = [left EXCEPT ![c] = @ - 1]
  /\ sinceThrottle' = 0
  /\ IF StepDue THEN sinceDown' = 0 /\ rate' = Clamp(rate - StepDown)
                ELSE UNCHANGED <<sinceDown, rate>>
  /\ UNCHANGED <<tokens, refilled, sinceUp, high_waiters, waited, watch>>
-----------------------------------------------------------------------------
Acquire(c) == Defer(c) \/ Take(c) \/ Miss(c) \/ TimedOut(c)
End(c) == Return(c) \/ Throttled(c)

RateNext == Tick \/ \E c \in Callers : Acquire(c) \/ End(c)

(* Time passes, futures that are ready are polled and calls return. *)
RateFairness ==
  WF_rateVars(Tick) /\ \A c \in Callers : WF_rateVars(Acquire(c)) /\ WF_rateVars(End(c))

RateSpec == RateInit /\ [][RateNext]_rateVars /\ RateFairness
-----------------------------------------------------------------------------
(* Properties *)

(* The count that makes Low callers yield is the number of High callers that *)
(* wait: one more and they yield for ever.                                   *)
RateTypeOK ==
  /\ rate \in Floor .. Ceil /\ tokens \in 0 .. MaxBurst
  /\ refilled \in 0 .. FillTime /\ sinceDown \in 0 .. DownWindow
  /\ sinceUp \in 0 .. RecoverInterval /\ sinceThrottle \in 0 .. RecoverInterval
  /\ call \in [Callers -> {"away", "deferred", "timed", "woken", "calling"}]
  /\ waited \in [Callers -> 0 .. Timeout] /\ left \in [Callers -> 0 .. Calls]
  /\ high_waiters = Cardinality({c \in High : call[c] \in {"timed", "woken"}})

(* Over any interval, however idle before: a burst and the ceiling.          *)
IssueBounded == watch.issued * Token <= MaxBurst + Ceil * watch.ms

(* A wave of throttles costs one step per window, so that the rate glides    *)
(* instead of collapsing, and recovery takes its time.                       *)
RateGlides ==
  /\ rate >= watch.from - StepDown * (1 + watch.ms \div DownWindow)
  /\ rate <= watch.from + StepUp * (1 + watch.ms \div RecoverInterval)

(* Every call is served, the deferred ones too, when High calls end.         *)
AllServed == <>(\A c \in Callers : left[c] = 0)
=============================================================================
