------------------------------ MODULE PollBackoff ------------------------------
(***************************************************************************)
(* The delay until a thread is polled again (pkg/connector/                *)
(* poll_backoff.go): operators on one thread's backoff, for PollLoop.      *)
(*                                                                         *)
(* A time.Duration is a signed 64-bit count of nanoseconds.  Times here    *)
(* are in a coarser unit, but for a product that may overflow, where what  *)
(* matters is the sign of the wrapped result.                              *)
(***************************************************************************)
EXTENDS Integers

CONSTANTS
    BaseDelay,   \* pollBaseDelay
    IdleCap,     \* pollIdleCap
    FailureCap,  \* pollFailureCap
    Odd, Twos,   \* BaseDelay in nanoseconds is Odd * 2^Twos, Odd an odd number
    OddBits      \* the number of binary digits of Odd

ASSUME BackoffAssumption ==
    /\ BaseDelay \in Nat \ {0}
    /\ IdleCap \in Nat /\ IdleCap >= BaseDelay
    /\ FailureCap \in Nat /\ FailureCap >= BaseDelay
    /\ Odd \in Nat /\ Odd % 2 = 1 /\ Odd >= 2^(OddBits - 1) /\ Odd < 2^OddBits
    /\ Twos \in Nat

\* A thread's PollBackoff; IdleCap is the poll loop's and is passed along.
Backoff == [failures : Nat, delay : Int]
Fresh == [failures |-> 0, delay |-> BaseDelay]

Lesser(a, b) == IF a <= b THEN a ELSE b

OnSuccess(b) == Fresh

\* OnIdle, the idle cap in force being idleCap.
OnIdle(b, idleCap) ==
    [failures |-> 0,
     delay |-> Lesser((IF b.delay <= 0 THEN BaseDelay ELSE b.delay) + BaseDelay, idleCap)]

\* pollBaseDelay * Duration(1<<(n-1)), in 64 bits, cut to the cap where it
\* exceeds it.  Of the product's digits the lowest Twos + n - 1 are zero; room is
\* how many are left for Odd's, the topmost of which is the sign.
FailureDelay(n) ==
    LET room == 64 - Twos - (n - 1)
        low == Odd % 2^room
    IN  IF room <= 0 THEN 0
        ELSE IF room > OddBits
             THEN IF n > 30 THEN FailureCap ELSE Lesser(BaseDelay * 2^(n - 1), FailureCap)
        ELSE IF low >= 2^(room - 1) THEN -1 ELSE FailureCap

\* OnFailure.
OnFailure(b) == [failures |-> b.failures + 1, delay |-> FailureDelay(b.failures + 1)]

\* ApplyPollBackoff, by the kind of answer: the answers that reach it are not
\* 429, which pauses all polling instead.
ApplyPollBackoff(b, answer, idleCap) ==
    CASE answer = "messages" -> OnSuccess(b)
      [] answer = "idle" -> OnIdle(b, idleCap)
      [] answer = "client4xx" -> [failures |-> 0, delay |-> IdleCap]
      [] answer = "failure" -> OnFailure(b)
=============================================================================
