---------------------------- MODULE RetryPolicy ----------------------------
(***************************************************************************)
(* The backoff of internal/botruntime/retry.go: exponential, capped, then  *)
(* jittered.  Durations are whole units of time; a random draw is the set  *)
(* of the values it can have.  The module has no state.                    *)
(***************************************************************************)
EXTENDS Integers

CONSTANTS BaseBackoff, MaxBackoff, JitterPercent, MaxAttempts

ASSUME PolicyAssumption ==
  /\ BaseBackoff \in Nat \ {0} /\ MaxBackoff \in Nat \ {0}
  /\ JitterPercent \in Nat /\ MaxAttempts \in Nat

Cap(d) == IF d >= MaxBackoff THEN MaxBackoff ELSE d

\* The delay after n rounds of the loop, which looks at the cap after doubling.
Doubled[n \in Nat] ==
  IF n = 0 THEN BaseBackoff
           ELSE Cap(2 * Doubled[n - 1])

\* Mutant: the loop starts at zero and doubles once too often.
NominalDelayEarly(attempt) == Cap(Doubled[attempt])

NominalDelay(attempt) == Cap(Doubled[IF attempt <= 0 THEN 0 ELSE attempt - 1])

\* The draw is within JitterPercent of the nominal delay on either side; a delay
\* that came out as zero or less is half the base instead.
NextDelay(attempt) ==
  LET nominal == NominalDelay(attempt)
      spread  == (nominal * JitterPercent) \div 100
  IN {IF d <= 0 THEN BaseBackoff \div 2 ELSE d : d \in (nominal - spread)..(nominal + spread)}
=============================================================================
