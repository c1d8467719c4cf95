---------------------------- MODULE PollLoopProofs ----------------------------
(***************************************************************************)
(* Proofs about PollLoop and about what its passes track of a chat         *)
(* (ChatState), for every value of the constants.  Of the loop: its types, *)
(* that nothing is polled during a pause, that it never sleeps past what   *)
(* is due next, and that nothing is put off for ever.  Of the chat's       *)
(* state: its types, and that whenever what was going on is done, room and *)
(* tracker agree on marks and pins and the account data on saved messages, *)
(* unless a named loss occurred.                                           *)
(***************************************************************************)
EXTENDS PollLoop, ChatState, WellFoundedInduction, TLAPS

\* While polling is paused, the loop sleeps exactly until the pause is over.
SleepsThroughPause == pc = "asleep" /\ throttled > 0 => wake = throttled

\* While a pass goes over its threads, it has found the earliest of what it has
\* looked at, which the loop will sleep until.
WakeFoundSoFar ==
    pc = "threads" =>
        /\ wake <= MaxSleep /\ wake <= activity /\ wake <= discovery
        /\ \A t \in states \ todo : wake <= due[t]

\* Only listed threads have a state, so a pass looks at every one that does.
StatesKnown == states \subseteq known /\ (pc = "threads" => todo \subseteq known)

LoopInv ==
    /\ TypeOK
    /\ NoPollWhilePaused
    /\ SleepsThroughPause
    /\ WakeFoundSoFar
    /\ StatesKnown
    /\ NeverSleepsPastDue

-----------------------------------------------------------------------------
(* Lemmas about the operators *)

LEMMA ConstantTypes ==
    /\ BaseDelay \in Nat /\ IdleCap \in Nat /\ FailureCap \in Nat
    /\ BackstopCap \in Nat /\ ActiveCap \in Nat /\ MaxSleep \in Nat /\ GoneRecheck \in Nat
    /\ ActivityInterval \in Nat /\ ActivityMax \in Nat
    /\ DiscoveryInterval \in Nat /\ DiscoveryGap \in Nat
    /\ WakeQueueSize \in Nat /\ MaxFailures \in Nat /\ MaxElapsed \in Nat
    /\ Pauses \subseteq Nat
  BY BackoffAssumption, LoopAssumption

LEMMA LesserType ==
    ASSUME NEW a \in Int, NEW b \in Int
    PROVE  /\ Lesser(a, b) \in {a, b}
           /\ Lesser(a, b) <= a /\ Lesser(a, b) <= b
  BY DEF Lesser

LEMMA TimeToGoType ==
    ASSUME elapsed \in Nat, NEW a \in Nat
    PROVE  TimeToGo(a) \in Nat
  BY DEF TimeToGo

\* A timer that ends no later than another still does once brought up to date.
LEMMA TimeToGoOrder ==
    ASSUME elapsed \in Nat, NEW a \in Nat, NEW b \in Nat, a <= b
    PROVE  TimeToGo(a) <= TimeToGo(b)
  BY DEF TimeToGo

\* Whatever the answer, the backoff keeps its type, although its delay may be
\* negative after an overflow.
LEMMA BackoffType ==
    ASSUME NEW b \in Backoff, NEW answer \in Answers, NEW cap \in Int
    PROVE  ApplyPollBackoff(b, answer, cap) \in Backoff
  <1>1. \A n \in Nat \ {0} : FailureDelay(n) \in Int
    <2> SUFFICES ASSUME NEW n \in Nat \ {0} PROVE FailureDelay(n) \in Int
      OBVIOUS
    <2>1. Lesser(BaseDelay * 2^(n - 1), FailureCap) \in Int
      BY BackoffAssumption DEF Lesser
    <2>2. FailureDelay(n) \in {0, -1, FailureCap, Lesser(BaseDelay * 2^(n - 1), FailureCap)}
      BY DEF FailureDelay
    <2> QED
      BY <2>1, <2>2, BackoffAssumption
  <1>2. Fresh \in Backoff /\ [failures |-> 0, delay |-> IdleCap] \in Backoff
    BY BackoffAssumption DEF Fresh, Backoff
  <1>3. OnFailure(b) \in Backoff
    BY <1>1 DEF OnFailure, Backoff
  <1>4. OnIdle(b, cap) \in Backoff
    BY BackoffAssumption, LesserType DEF OnIdle, Backoff
  <1> QED
    BY <1>2, <1>3, <1>4 DEF ApplyPollBackoff, OnSuccess, Answers

LEMMA RetryDelayType ==
    ASSUME NEW n \in Nat
    PROVE  ActivityRetryDelay(n) \in Nat
  <1>1. Lesser(n, 6) \in {0, 1, 2, 3, 4, 5, 6}
    BY DEF Lesser
  <1>2. 2^0 = 1 /\ 2^1 = 2 /\ 2^2 = 4 /\ 2^3 = 8 /\ 2^4 = 16 /\ 2^5 = 32 /\ 2^6 = 64
    OBVIOUS
  <1>3. \A k \in {0, 1, 2, 3, 4, 5, 6} : 2^k \in Nat
    <2>1. \A k \in {0, 1, 2, 3, 4, 5, 6} : 2^k \in {1, 2, 4, 8, 16, 32, 64}
      BY <1>2, Zenon
    <2>2. {1, 2, 4, 8, 16, 32, 64} \subseteq Nat
      OBVIOUS
    <2> QED
      BY <2>1, <2>2, Zenon
  <1>4. ActivityInterval * 2^Lesser(n, 6) \in Nat
    <2>1. 2^Lesser(n, 6) \in Nat
      BY <1>1, <1>3, Zenon
    <2> QED
      BY <2>1, ConstantTypes
  <1> QED
    BY <1>4, ConstantTypes DEF ActivityRetryDelay, Lesser

\* What a wakeup does to the schedule.
LEMMA WakeupType ==
    ASSUME NEW S, due \in [Thread -> Nat], backoff \in [Thread -> Backoff]
    PROVE  /\ ApplyWakeup(S, due) \in [Thread -> Nat]
           /\ Hasten(S) \in [Thread -> Backoff]
  <1>1. Fresh \in Backoff
    BY BackoffAssumption DEF Fresh, Backoff
  <1> QED
    BY <1>1 DEF ApplyWakeup, Hasten, OnSuccess

\* How a pass ends.
LEMMA EndPassType ==
    ASSUME TypeOK, NEW w \in Nat, NEW thr \in Nat, EndPass(w),
           Settle(due, thr, discovery, gap, activity)
    PROVE  /\ pc' = "asleep" /\ todo' = {} /\ elapsed' = 0
           /\ due' \in [Thread -> Nat]
           /\ wake' \in Nat /\ throttled' \in Nat /\ discovery' \in Nat /\ gap' \in Nat
           /\ activity' \in Nat
  <1>1. \A a \in Nat : TimeToGo(a) \in Nat
    BY TimeToGoType DEF TypeOK
  <1> QED
    BY <1>1 DEF EndPass, Settle, TypeOK

-----------------------------------------------------------------------------
(* Types *)

LEMMA TypeInit == Init => TypeOK
  <1>1. Fresh \in Backoff
    BY BackoffAssumption DEF Fresh, Backoff
  <1> QED
    <2> SUFFICES ASSUME Init PROVE TypeOK
      OBVIOUS
    <2>1. discovery \in Nat
      BY ConstantTypes DEF Init
    <2>2. wakeups \in Seq(Thread) /\ Len(wakeups) <= WakeQueueSize
      BY ConstantTypes DEF Init
    <2>3. chats \subseteq Thread /\ known \subseteq Thread /\ states \subseteq Thread
      BY LoopAssumption DEF Init
    <2>4. due \in [Thread -> Nat] /\ backoff \in [Thread -> Backoff]
      BY <1>1 DEF Init
    <2> QED
      BY <2>1, <2>2, <2>3, <2>4, LoopAssumption DEF Init, TypeOK

LEMMA TypeNext == TypeOK /\ [Next]_vars => TypeOK'
  <1> SUFFICES ASSUME TypeOK, [Next]_vars PROVE TypeOK'
    OBVIOUS
  <1> USE LoopAssumption
  <1>1. CASE StartPass
    BY <1>1 DEF StartPass, GoRound, TypeOK, teamsVars, threadVars, checkVars
  <1>2. CASE TakeWakeups
    <2>1. wakeups' \in Seq(Thread) /\ Len(wakeups') <= WakeQueueSize
      BY <1>2 DEF TakeWakeups, TypeOK
    <2>2. due' \in [Thread -> Nat] /\ backoff' \in [Thread -> Backoff]
      BY <1>2, WakeupType DEF TakeWakeups, TypeOK
    <2> QED
      BY <1>2, <2>1, <2>2 DEF TakeWakeups, GoRound, TypeOK, teamsVars, checkVars
  <1>3. CASE Discover
    BY <1>3 DEF Discover, Throttle, TypeOK, threadVars, checkVars
  <1>4. CASE SkipDiscovery
    BY <1>4 DEF SkipDiscovery, TypeOK, teamsVars, threadVars, checkVars
  <1>5. CASE CheckActivity
    <2>1. due' \in [Thread -> Nat] /\ backoff' \in [Thread -> Backoff]
      BY <1>5, WakeupType DEF CheckActivity, TypeOK
    <2> QED
      BY <1>5, <2>1 DEF CheckActivity, TypeOK, teamsVars
  <1>6. CASE ActivityFails
    <2>1. activityFailures' \in Nat
      BY <1>6 DEF ActivityFails, Lesser, TypeOK
    <2>2. activity' \in Nat
      BY <1>6, <2>1, RetryDelayType DEF ActivityFails
    <2> QED
      BY <1>6, <2>1, <2>2 DEF ActivityFails, Throttle, TypeOK, threadVars
  <1>7. CASE SkipActivity
    BY <1>7 DEF SkipActivity, TypeOK, teamsVars, threadVars, checkVars
  <1>8. CASE PausePass
    <2>1. throttled \in Nat
      BY DEF TypeOK
    <2>2. EndPass(throttled) /\ Settle(due, throttled, discovery, gap, activity)
      BY <1>8 DEF PausePass
    <2>3. /\ pc' = "asleep" /\ todo' = {} /\ elapsed' = 0
          /\ due' \in [Thread -> Nat]
          /\ wake' \in Nat /\ throttled' \in Nat /\ discovery' \in Nat /\ gap' \in Nat
          /\ activity' \in Nat
      BY <2>1, <2>2, EndPassType
    <2> QED
      BY <1>8, <2>3 DEF PausePass, TypeOK, teamsVars
  <1>9. CASE ListThreads
    BY <1>9 DEF ListThreads, Lesser, TypeOK, teamsVars, threadVars, checkVars
  <1>10. ASSUME NEW t \in Thread, SkipThread(t) PROVE TypeOK'
    BY <1>10 DEF SkipThread, NextWake, Lesser, TypeOK, teamsVars, threadVars, checkVars
  <1>11. ASSUME NEW t \in Thread, NEW a \in Answers, PollThread(t, a) PROVE TypeOK'
    <2>1. PICK cap \in IdleCaps :
             /\ backoff' = [backoff EXCEPT ![t] = AfterPoll(t, a, cap)]
             /\ due' = [due EXCEPT ![t] = IF AfterPoll(t, a, cap).delay > 0
                                          THEN AfterPoll(t, a, cap).delay ELSE 0]
      BY <1>11 DEF PollThread
    <2>2. cap \in Int /\ BackstopCap \in Int
      BY BackoffAssumption DEF IdleCaps
    <2>3. ApplyPollBackoff(backoff[t], a, cap) \in Backoff
      BY <2>2, BackoffType DEF TypeOK
    <2>4. AfterPoll(t, a, cap) \in Backoff
      BY <2>2, <2>3 DEF AfterPoll, Backoff
    <2>5. due' \in [Thread -> Nat] /\ backoff' \in [Thread -> Backoff] /\ due'[t] \in Nat
      <3>1. AfterPoll(t, a, cap).delay \in Int
        BY <2>4 DEF Backoff
      <3>2. (IF AfterPoll(t, a, cap).delay > 0 THEN AfterPoll(t, a, cap).delay ELSE 0) \in Nat
        BY <3>1
      <3> QED
        BY <2>1, <2>4, <3>2 DEF TypeOK
    <2>6. wake' \in Nat
      BY <1>11, <2>5 DEF PollThread, NextWake, Lesser, TypeOK
    <2> QED
      BY <1>11, <2>5, <2>6 DEF PollThread, TypeOK, checkVars
  <1>12. ASSUME NEW t \in Thread, ThreadGone(t) PROVE TypeOK'
    BY <1>12 DEF ThreadGone, TypeOK, teamsVars, checkVars
  <1>13. ASSUME NEW t \in Thread, ThreadThrottled(t) PROVE TypeOK'
    <2>1. PICK d \in Pauses : ThrottlePass(t, d)
      BY <1>13 DEF ThreadThrottled
    <2>2. (IF d > throttled THEN d ELSE throttled) \in Nat
      BY DEF TypeOK
    <2> QED
      BY <1>13, <2>1, <2>2, EndPassType DEF ThreadThrottled, ThrottlePass, TypeOK
  <1>14. CASE PassDone
    <2>1. wake \in Nat /\ throttled \in Nat
      BY DEF TypeOK
    <2>2. EndPass(wake) /\ Settle(due, throttled, discovery, gap, activity)
      BY <1>14 DEF PassDone
    <2>3. /\ pc' = "asleep" /\ todo' = {} /\ elapsed' = 0
          /\ due' \in [Thread -> Nat]
          /\ wake' \in Nat /\ throttled' \in Nat /\ discovery' \in Nat /\ gap' \in Nat
          /\ activity' \in Nat
      BY <2>1, <2>2, EndPassType
    <2> QED
      BY <1>14, <2>3 DEF PassDone, TypeOK, teamsVars
  <1>15. CASE Tick
    <2>1. \A x \in Nat : Down(x) \in Nat
      BY DEF Down
    <2>2. /\ wake' \in Nat /\ throttled' \in Nat /\ discovery' \in Nat /\ gap' \in Nat
          /\ activity' \in Nat /\ elapsed' \in Nat
      <3>1. CASE pc = "asleep"
        BY <1>15, <2>1, <3>1 DEF Tick, TypeOK
      <3>2. CASE pc # "asleep"
        <4>1. elapsed' = elapsed + 1 /\ UNCHANGED <<wake, due, throttled, discovery, gap, activity>>
          BY <1>15, <3>2 DEF Tick
        <4> QED
          BY <4>1 DEF TypeOK
      <3> QED
        BY <3>1, <3>2
    <2>3. due' \in [Thread -> Nat]
      <3>1. due' = [t \in Thread |-> Down(due[t])] \/ due' = due
        BY <1>15 DEF Tick
      <3> QED
        BY <2>1, <3>1 DEF TypeOK
    <2> QED
      BY <1>15, <2>2, <2>3 DEF Tick, TypeOK
  <1>16. ASSUME NEW t \in Thread, RequestPoll(t) PROVE TypeOK'
    <2>1. wakeups' \in Seq(Thread) /\ Len(wakeups') <= WakeQueueSize
      BY <1>16 DEF RequestPoll, TypeOK
    <2> QED
      BY <1>16, <2>1 DEF RequestPoll, TypeOK, teamsVars, threadVars, checkVars
  <1>17. ASSUME NEW t \in Thread, Post(t) PROVE TypeOK'
    BY <1>17 DEF Post, TypeOK, threadVars
  <1>18. CASE UNCHANGED vars
    BY <1>18 DEF vars, TypeOK, teamsVars, threadVars, checkVars
  <1> QED
    BY <1>1, <1>2, <1>3, <1>4, <1>5, <1>6, <1>7, <1>8, <1>9, <1>10, <1>11, <1>12, <1>13,
       <1>14, <1>15, <1>16, <1>17, <1>18 DEF Next, Loop

\* Every timer stays a time to go, also after a delay that overflowed, and the
\* wakeup queue stays within its size (pollDueThreads).
THEOREM TypeCorrect == Spec => []TypeOK
  <1> QED
    BY TypeInit, TypeNext, PTL DEF Spec

-----------------------------------------------------------------------------
(* The schedule *)

\* Every timer still runs as long as the loop's sleep once brought up to date.
LEMMA SettledOrder ==
    ASSUME TypeOK, NEW w \in Nat, EndPass(w), NEW thr \in Nat,
           Settle(due, thr, discovery, gap, activity)
    PROVE  /\ w <= activity => wake' <= activity'
           /\ w <= discovery => wake' <= discovery'
           /\ \A t \in Thread : w <= due[t] => wake' <= due'[t]
           /\ w = thr => wake' = throttled'
           /\ thr = 0 => throttled' = 0
  <1> USE DEF EndPass, Settle
  <1>1. elapsed \in Nat /\ activity \in Nat /\ discovery \in Nat /\ \A t \in Thread : due[t] \in Nat
    BY DEF TypeOK
  <1>2. w <= activity => wake' <= activity'
    BY <1>1, TimeToGoOrder
  <1>3. w <= discovery => wake' <= discovery'
    BY <1>1, TimeToGoOrder
  <1>4. \A t \in Thread : w <= due[t] => wake' <= due'[t]
    BY <1>1, TimeToGoOrder
  <1>5. thr = 0 => throttled' = 0
    BY <1>1 DEF TimeToGo
  <1> QED
    BY <1>2, <1>3, <1>4, <1>5

LEMMA LoopInit == Init => LoopInv
  <1> SUFFICES ASSUME Init PROVE LoopInv
    OBVIOUS
  <1>1. TypeOK
    BY TypeInit
  <1>2. NeverSleepsPastDue
    BY <1>1 DEF Init, NeverSleepsPastDue, TypeOK
  <1> QED
    BY <1>1, <1>2 DEF Init, LoopInv, NoPollWhilePaused, SleepsThroughPause, WakeFoundSoFar,
                      StatesKnown

LEMMA LoopNext == LoopInv /\ [Next]_vars => LoopInv'
  <1> SUFFICES ASSUME LoopInv, [Next]_vars PROVE LoopInv'
    OBVIOUS
  <1>0. TypeOK /\ TypeOK'
    BY TypeNext DEF LoopInv
  <1> USE DEF LoopInv, NoPollWhilePaused, SleepsThroughPause, WakeFoundSoFar, StatesKnown,
              NeverSleepsPastDue
  <1>1. CASE StartPass
    BY <1>0, <1>1 DEF StartPass, GoRound, TypeOK, teamsVars, threadVars, checkVars
  <1>2. CASE TakeWakeups
    <2>1. UNCHANGED <<states, known, todo, throttled>> /\ GoRound /\ pc = "asleep"
      BY <1>2 DEF TakeWakeups, teamsVars
    <2>2. CASE throttled > 0
      BY <1>0, <2>1, <2>2 DEF GoRound
    <2>3. CASE ~(throttled > 0)
      BY <1>0, <2>1, <2>3 DEF GoRound
    <2> QED
      BY <2>2, <2>3
  <1>3. CASE Discover
    BY <1>0, <1>3 DEF Discover, TypeOK, threadVars, checkVars
  <1>4. CASE SkipDiscovery
    BY <1>0, <1>4 DEF SkipDiscovery, TypeOK, teamsVars, threadVars, checkVars
  <1>5. CASE CheckActivity
    BY <1>0, <1>5 DEF CheckActivity, TypeOK, teamsVars
  <1>6. CASE ActivityFails
    BY <1>0, <1>6 DEF ActivityFails, TypeOK, threadVars
  <1>7. CASE SkipActivity
    BY <1>0, <1>7 DEF SkipActivity, TypeOK, teamsVars, threadVars, checkVars
  <1>8. CASE PausePass
    <2>1. EndPass(throttled) /\ Settle(due, throttled, discovery, gap, activity)
      BY <1>8 DEF PausePass
    <2>2. wake' = throttled' /\ pc' = "asleep"
      BY <1>0, <2>1, SettledOrder DEF TypeOK, EndPass
    <2>3. throttled' = 0 => wake' = 0
      BY <2>2
    <2> QED
      BY <1>0, <1>8, <2>2, <2>3 DEF PausePass, TypeOK, teamsVars
  <1>9. CASE ListThreads
    <2>1. wake' <= MaxSleep /\ wake' <= activity' /\ wake' <= discovery'
      BY <1>0, <1>9, LesserType, ConstantTypes DEF ListThreads, TypeOK, checkVars, Lesser
    <2> QED
      BY <1>0, <1>9, <2>1 DEF ListThreads, TypeOK, teamsVars, threadVars, checkVars
  <1>10. ASSUME NEW t \in Thread, SkipThread(t) PROVE LoopInv'
    <2>1. wake' <= wake /\ wake' <= due[t]
      BY <1>0, <1>10, LesserType DEF SkipThread, NextWake, TypeOK
    <2>2. \A u \in states' \ todo' : wake' <= due'[u]
      BY <1>0, <1>10, <2>1, ConstantTypes DEF SkipThread, TypeOK, threadVars
    <2>3. wake' <= MaxSleep /\ wake' <= activity' /\ wake' <= discovery'
      BY <1>0, <1>10, <2>1, ConstantTypes DEF SkipThread, TypeOK, checkVars
    <2>4. pc' = "threads" /\ UNCHANGED <<states, known, throttled>> /\ todo' \subseteq todo
      BY <1>10 DEF SkipThread, threadVars
    <2> QED
      BY <1>0, <1>10, <2>2, <2>3, <2>4 DEF SkipThread
  <1>11. ASSUME NEW t \in Thread, NEW a \in Answers, PollThread(t, a) PROVE LoopInv'
    <2>1. wake' <= wake /\ wake' <= due'[t]
      BY <1>0, <1>11, LesserType DEF PollThread, NextWake, TypeOK
    <2>2. \A u \in Thread \ {t} : due'[u] = due[u]
      BY <1>0, <1>11 DEF PollThread, TypeOK
    <2>3. \A u \in states' \ todo' : wake' <= due'[u]
      BY <1>0, <1>11, <2>1, <2>2 DEF PollThread, TypeOK
    <2> QED
      BY <1>0, <1>11, <2>1, <2>3, ConstantTypes DEF PollThread, TypeOK, checkVars
  <1>12. ASSUME NEW t \in Thread, ThreadGone(t) PROVE LoopInv'
    <2>1. wake' <= due'[t]
      BY <1>0, <1>12, LoopAssumption, ConstantTypes DEF ThreadGone, TypeOK
    <2>2. \A u \in states' \ todo' : wake' <= due'[u]
      BY <1>0, <1>12, <2>1 DEF ThreadGone, TypeOK
    <2> QED
      BY <1>0, <1>12, <2>2 DEF ThreadGone, TypeOK, teamsVars, checkVars
  <1>13. ASSUME NEW t \in Thread, ThreadThrottled(t) PROVE LoopInv'
    <2>1. PICK d \in Pauses : ThrottlePass(t, d)
      BY <1>13 DEF ThreadThrottled
    <2> DEFINE thr == IF d > throttled THEN d ELSE throttled
    <2>2. thr \in Nat
      BY <1>0, ConstantTypes DEF TypeOK
    <2>3. EndPass(thr) /\ Settle(due, thr, discovery, gap, activity)
      BY <2>1 DEF ThrottlePass
    <2> HIDE DEF thr
    <2>4. wake' = throttled' /\ pc' = "asleep"
      BY <1>0, <2>2, <2>3, SettledOrder DEF EndPass
    <2> QED
      BY <1>0, <1>13, <2>4 DEF ThreadThrottled, TypeOK
  <1>14. CASE PassDone
    <2>1. EndPass(wake) /\ Settle(due, throttled, discovery, gap, activity)
      BY <1>14 DEF PassDone
    <2>2. /\ wake <= activity /\ wake <= discovery /\ throttled = 0
          /\ \A t \in states : wake <= due[t]
      BY <1>14 DEF PassDone
    <2>3. /\ wake' <= activity' /\ wake' <= discovery' /\ throttled' = 0
          /\ \A t \in states : wake' <= due'[t]
      BY <1>0, <2>1, <2>2, SettledOrder DEF TypeOK
    <2> QED
      BY <1>0, <1>14, <2>1, <2>3 DEF PassDone, EndPass, TypeOK, teamsVars
  <1>15. CASE Tick
    <2>1. \A x, y \in Nat : x <= y => Down(x) <= Down(y)
      BY DEF Down
    <2>2. CASE pc = "asleep"
      BY <1>0, <1>15, <2>1, <2>2 DEF Tick, TypeOK, Down
    <2>3. CASE pc # "asleep"
      BY <1>0, <1>15, <2>3 DEF Tick, TypeOK
    <2> QED
      BY <2>2, <2>3
  <1>16. ASSUME NEW t \in Thread, RequestPoll(t) PROVE LoopInv'
    BY <1>0, <1>16 DEF RequestPoll, TypeOK, teamsVars, threadVars, checkVars
  <1>17. ASSUME NEW t \in Thread, Post(t) PROVE LoopInv'
    BY <1>0, <1>17 DEF Post, TypeOK, threadVars
  <1>18. CASE UNCHANGED vars
    BY <1>0, <1>18 DEF vars, TypeOK, teamsVars, threadVars, checkVars
  <1> QED
    BY <1>1, <1>2, <1>3, <1>4, <1>5, <1>6, <1>7, <1>8, <1>9, <1>10, <1>11, <1>12, <1>13,
       <1>14, <1>15, <1>16, <1>17, <1>18 DEF Next, Loop

\* No thread is polled while a pause is in force (pollPass).
THEOREM NothingPolledWhilePaused == Spec => []NoPollWhilePaused
  <1>1. LoopInv => NoPollWhilePaused
    BY DEF LoopInv
  <1> QED
    BY LoopInit, LoopNext, <1>1, PTL DEF Spec

\* Whatever the intervals, failures, pauses and wakeups, the loop never sleeps past
\* a thread's next poll or a queued check (pollPass, pollDueThreads).
THEOREM NothingSleptPast == Spec => []NeverSleepsPastDue
  <1>1. LoopInv => NeverSleepsPastDue
    BY DEF LoopInv
  <1> QED
    BY LoopInit, LoopNext, <1>1, PTL DEF Spec

-----------------------------------------------------------------------------
(* Nothing is put off for ever *)

\* The longest a thread's next poll is put off by any answer.
DelayCaps == {BaseDelay, IdleCap, FailureCap, ActiveCap, BackstopCap, GoneRecheck}

\* Every timer ends: a thread's within one of the caps, whether it answers, fails (also
\* with a delay that overflowed) or is gone, and at once if it is new; the next
\* discovery and the next check within theirs, and a pause with what Teams asked for.
\* Unless there is one the loop sleeps no longer than pollLoopMaxSleep.
NothingPutOff ==
    /\ \A t \in Thread : \E cap \in DelayCaps : due[t] <= cap
    /\ \A t \in Thread \ states : due[t] = 0
    /\ discovery <= DiscoveryInterval
    /\ \E cap \in {ActivityInterval, ActivityMax} : activity <= cap
    /\ throttled > 0 => \E d \in Pauses : throttled <= d
    /\ pc = "asleep" /\ throttled = 0 => wake <= MaxSleep

LEMMA CapTypes == DelayCaps \subseteq Nat /\ BaseDelay \in DelayCaps /\ GoneRecheck \in DelayCaps
  BY ConstantTypes DEF DelayCaps

\* However the answers follow each other, the delay stays within a cap.
LEMMA DelayCapped ==
    ASSUME NEW b \in Backoff, NEW answer \in Answers, NEW cap \in IdleCaps
    PROVE  \E c \in DelayCaps : ApplyPollBackoff(b, answer, cap).delay <= c
  <1>1. cap \in DelayCaps /\ cap \in Nat
    BY ConstantTypes DEF IdleCaps, DelayCaps
  <1>2. IdleCap \in DelayCaps /\ FailureCap \in DelayCaps /\ IdleCap \in Nat /\ FailureCap \in Nat /\ BaseDelay \in Nat
    BY ConstantTypes DEF DelayCaps
  <1>3. CASE answer = "messages"
    BY <1>2, <1>3, CapTypes DEF ApplyPollBackoff, OnSuccess, Fresh
  <1>4. CASE answer = "idle"
    <2>1. b.delay \in Int
      BY DEF Backoff
    <2>2. ApplyPollBackoff(b, answer, cap).delay <= cap
      BY <1>1, <1>2, <1>4, <2>1 DEF ApplyPollBackoff, OnIdle, Lesser
    <2> QED
      BY <1>1, <2>2
  <1>5. CASE answer = "client4xx"
    BY <1>2, <1>5 DEF ApplyPollBackoff
  <1>6. CASE answer = "failure"
    <2>1. ApplyPollBackoff(b, answer, cap).delay = FailureDelay(b.failures + 1)
      BY <1>6 DEF ApplyPollBackoff, OnFailure
    <2>2. \A n \in Nat \ {0} : FailureDelay(n) <= FailureCap
      <3> SUFFICES ASSUME NEW n \in Nat \ {0} PROVE FailureDelay(n) <= FailureCap
        OBVIOUS
      <3>1. PICK product : product = BaseDelay * 2^(n - 1)
        OBVIOUS
      <3>2. product \in Int
        BY <1>2, <3>1
      <3>3. Lesser(product, FailureCap) <= FailureCap
        BY <1>2, <3>2 DEF Lesser
      <3>4. FailureDelay(n) \in {0, -1, FailureCap, Lesser(product, FailureCap)}
        BY <3>1 DEF FailureDelay
      <3> QED
        BY <1>2, <3>3, <3>4
    <2>3. b.failures + 1 \in Nat \ {0}
      BY DEF Backoff
    <2> QED
      BY <1>2, <2>1, <2>2, <2>3
  <1> QED
    BY <1>3, <1>4, <1>5, <1>6 DEF Answers

LEMMA RetryCapped ==
    ASSUME NEW n \in Nat
    PROVE  ActivityRetryDelay(n) <= ActivityMax
  <1>1. PICK spaced : spaced = ActivityInterval * 2^Lesser(n, 6)
    OBVIOUS
  <1>2. ActivityRetryDelay(n) = Lesser(spaced, ActivityMax) /\ ActivityRetryDelay(n) \in Nat
    BY <1>1, RetryDelayType DEF ActivityRetryDelay
  <1> QED
    BY <1>2, ConstantTypes DEF Lesser

\* A timer that is brought forward or runs on stays within what it was.
LEMMA Sooner ==
    ASSUME NEW S, S \subseteq Nat, NEW x \in Nat, NEW y \in Nat, y <= x, \E c \in S : x <= c
    PROVE  \E c \in S : y <= c
  OBVIOUS

\* The timers are left, or brought forward.
Forward ==
    /\ \A t \in Thread : due'[t] <= due[t]
    /\ states \subseteq states'
    /\ discovery' <= discovery /\ activity' <= activity

LEMMA ForwardKept ==
    ASSUME TypeOK, TypeOK', NothingPutOff, Forward
    PROVE  /\ \A t \in Thread : \E cap \in DelayCaps : due'[t] <= cap
           /\ \A t \in Thread \ states' : due'[t] = 0
           /\ discovery' <= DiscoveryInterval
           /\ \E cap \in {ActivityInterval, ActivityMax} : activity' <= cap
  <1>1. \A t \in Thread : due[t] \in Nat /\ due'[t] \in Nat /\ due'[t] <= due[t]
    BY DEF TypeOK, Forward
  <1>2. \A t \in Thread : \E cap \in DelayCaps : due'[t] <= cap
    BY <1>1, Sooner, CapTypes DEF NothingPutOff
  <1>3. \A t \in Thread \ states' : due'[t] = 0
    BY <1>1 DEF NothingPutOff, Forward
  <1>4. discovery' <= DiscoveryInterval
    BY ConstantTypes DEF NothingPutOff, Forward, TypeOK
  <1>5. \E cap \in {ActivityInterval, ActivityMax} : activity' <= cap
    BY ConstantTypes DEF NothingPutOff, Forward, TypeOK
  <1> QED
    BY <1>2, <1>3, <1>4, <1>5

LEMMA ThrottleKept ==
    ASSUME TypeOK, NothingPutOff, NEW d \in Pauses, Throttle(d)
    PROVE  throttled' > 0 => \E e \in Pauses : throttled' <= e
  <1>1. d \in Nat /\ throttled \in Nat
    BY ConstantTypes DEF TypeOK
  <1> QED
    BY <1>1 DEF Throttle, NothingPutOff

\* A wakeup brings threads forward.
LEMMA WakeupForward ==
    ASSUME TypeOK, NEW S
    PROVE  \A t \in Thread : ApplyWakeup(S, due)[t] <= due[t]
  BY DEF ApplyWakeup, TypeOK

\* The end of a pass brings every timer up to date.
LEMMA SettledForward ==
    ASSUME TypeOK, NothingPutOff, NEW thr \in Nat, Settle(due, thr, discovery, gap, activity),
           states \subseteq states'
    PROVE  Forward /\ throttled' <= thr
  <1>1. \A a \in Nat : TimeToGo(a) <= a
    BY DEF TimeToGo, TypeOK
  <1> QED
    BY <1>1 DEF Settle, Forward, TypeOK

LEMMA PutOffNext == LoopInv /\ NothingPutOff /\ [Next]_vars => NothingPutOff'
  <1> SUFFICES ASSUME LoopInv, NothingPutOff, [Next]_vars PROVE NothingPutOff'
    OBVIOUS
  <1>0. TypeOK /\ TypeOK'
    BY TypeNext DEF LoopInv
  <1>1. CASE StartPass \/ TakeWakeups
    <2>1. Forward
      BY <1>0, <1>1, WakeupForward DEF StartPass, TakeWakeups, Forward, TypeOK, threadVars, checkVars
    <2>2. throttled' = throttled /\ (pc' = "asleep" => throttled > 0)
      BY <1>1 DEF StartPass, TakeWakeups, GoRound
    <2> QED
      BY <1>0, <2>1, <2>2, ForwardKept DEF NothingPutOff
  <1>2. CASE Discover
    <2>1. /\ UNCHANGED <<due, states, activity>> /\ discovery' = DiscoveryInterval /\ pc' # "asleep"
          /\ throttled' = throttled \/ \E d \in Pauses : Throttle(d)
      BY <1>2 DEF Discover, threadVars, checkVars
    <2>2. throttled' > 0 => \E d \in Pauses : throttled' <= d
      BY <1>0, <2>1, ThrottleKept DEF NothingPutOff
    <2> QED
      BY <2>1, <2>2, ConstantTypes DEF NothingPutOff
  <1>3. CASE SkipDiscovery \/ SkipActivity \/ (\E t \in Thread : SkipThread(t)) \/ ListThreads
    <2>1. UNCHANGED <<due, states, discovery, activity, throttled>> /\ pc' # "asleep"
      BY <1>3 DEF SkipDiscovery, SkipActivity, SkipThread, ListThreads, threadVars, checkVars
    <2> QED
      BY <2>1 DEF NothingPutOff
  <1>4. CASE CheckActivity
    <2>1. PICK news : due' = ApplyWakeup(news, due)
      BY <1>4 DEF CheckActivity
    <2>2. /\ UNCHANGED <<states, throttled>> /\ pc' # "asleep" /\ activity' = ActivityInterval
          /\ discovery' \in {0, discovery}
      BY <1>4 DEF CheckActivity
    <2>3. \A t \in Thread : due'[t] <= due[t] /\ due[t] \in Nat /\ due'[t] \in Nat
      BY <1>0, <2>1, WakeupForward DEF TypeOK
    <2>4. \A t \in Thread : \E cap \in DelayCaps : due'[t] <= cap
      BY <2>3, Sooner, CapTypes DEF NothingPutOff
    <2>5. \A t \in Thread \ states' : due'[t] = 0
      BY <2>2, <2>3 DEF NothingPutOff
    <2>6. discovery' <= DiscoveryInterval /\ activity' <= ActivityInterval
      BY <2>2, ConstantTypes DEF NothingPutOff
    <2> QED
      BY <2>2, <2>4, <2>5, <2>6 DEF NothingPutOff
  <1>5. CASE ActivityFails
    <2>1. /\ UNCHANGED <<due, states, discovery>> /\ pc' # "asleep"
          /\ activity' = ActivityRetryDelay(activityFailures') /\ activityFailures' \in Nat
          /\ throttled' = throttled \/ \E d \in Pauses : Throttle(d)
      BY <1>0, <1>5 DEF ActivityFails, threadVars, TypeOK
    <2>2. throttled' > 0 => \E d \in Pauses : throttled' <= d
      BY <1>0, <2>1, ThrottleKept DEF NothingPutOff
    <2>3. activity' <= ActivityMax
      BY <2>1, RetryCapped
    <2> QED
      BY <2>1, <2>2, <2>3 DEF NothingPutOff
  <1>6. CASE PausePass \/ PassDone
    <2>1. /\ Settle(due, throttled, discovery, gap, activity) /\ UNCHANGED states
          /\ throttled \in Nat
      BY <1>0, <1>6 DEF PausePass, PassDone, TypeOK
    <2>2. Forward /\ throttled' <= throttled
      BY <1>0, <2>1, SettledForward
    <2>3. throttled' > 0 => \E d \in Pauses : throttled' <= d
      <3>1. throttled' \in Nat /\ throttled \in Nat /\ (throttled' > 0 => throttled > 0)
        BY <1>0, <2>2 DEF TypeOK
      <3> QED
        BY <2>2, <3>1, Sooner, ConstantTypes DEF NothingPutOff
    <2>4. throttled' = 0 => wake' <= MaxSleep
      <3>1. CASE PausePass
        <4>1. wake' = throttled'
          BY <3>1 DEF PausePass, EndPass, Settle
        <4> QED
          BY <4>1, ConstantTypes
      <3>2. CASE PassDone
        <4>1. wake <= MaxSleep /\ wake \in Nat /\ elapsed \in Nat /\ wake' = TimeToGo(wake)
          BY <1>0, <3>2 DEF PassDone, EndPass, LoopInv, WakeFoundSoFar, TypeOK
        <4> QED
          BY <4>1, ConstantTypes DEF TimeToGo
      <3> QED
        BY <1>6, <3>1, <3>2
    <2> QED
      BY <1>0, <2>2, <2>3, <2>4, ForwardKept DEF NothingPutOff
  <1>7. ASSUME NEW t \in Thread, NEW a \in Answers, PollThread(t, a) PROVE NothingPutOff'
    <2>1. PICK cap \in IdleCaps :
             due' = [due EXCEPT ![t] = IF AfterPoll(t, a, cap).delay > 0 THEN AfterPoll(t, a, cap).delay ELSE 0]
      BY <1>7 DEF PollThread
    <2>2. PICK c \in DelayCaps : AfterPoll(t, a, cap).delay <= c
      <3>1. backoff[t] \in Backoff
        BY <1>0 DEF TypeOK
      <3>2. PICK b : b = ApplyPollBackoff(backoff[t], a, cap)
        OBVIOUS
      <3>3. b \in Backoff
        <4>1. cap \in Int
          BY ConstantTypes DEF IdleCaps
        <4> QED
          BY <3>1, <3>2, <4>1, BackoffType
      <3>4. \E d \in DelayCaps : b.delay <= d
        BY <3>1, <3>2, DelayCapped
      <3>5. BackstopCap \in DelayCaps /\ BackstopCap <= BackstopCap
        BY ConstantTypes DEF DelayCaps
      <3>6. AfterPoll(t, a, cap).delay \in {b.delay, BackstopCap}
        BY <3>2, <3>3 DEF AfterPoll, Backoff
      <3> QED
        BY <3>4, <3>5, <3>6
    <2>3. due'[t] <= c \/ due'[t] = 0
      BY <1>0, <2>1, <2>2 DEF TypeOK
    <2>4. \A u \in Thread \ {t} : due'[u] = due[u]
      BY <1>0, <2>1 DEF TypeOK
    <2>5. \A u \in Thread : \E d \in DelayCaps : due'[u] <= d
      <3>1. \E d \in DelayCaps : due'[t] <= d
        BY <2>2, <2>3, CapTypes
      <3> QED
        BY <2>4, <3>1 DEF NothingPutOff
    <2>6. states' = states \cup {t} /\ UNCHANGED <<discovery, activity, throttled>> /\ pc' # "asleep"
      BY <1>7 DEF PollThread, checkVars
    <2> QED
      BY <2>4, <2>5, <2>6 DEF NothingPutOff
  <1>8. ASSUME NEW t \in Thread, ThreadGone(t) PROVE NothingPutOff'
    <2>1. /\ due' = [due EXCEPT ![t] = GoneRecheck] /\ states' = states \cup {t}
          /\ UNCHANGED <<discovery, activity, throttled>> /\ pc' # "asleep"
      BY <1>8 DEF ThreadGone, checkVars
    <2>2. due'[t] = GoneRecheck /\ \A u \in Thread \ {t} : due'[u] = due[u]
      BY <1>0, <2>1 DEF TypeOK
    <2>3. \A u \in Thread : \E d \in DelayCaps : due'[u] <= d
      <3>1. \E d \in DelayCaps : due'[t] <= d
        BY <2>2, CapTypes, ConstantTypes
      <3> QED
        BY <2>2, <3>1 DEF NothingPutOff
    <2> QED
      BY <2>1, <2>2, <2>3 DEF NothingPutOff
  <1>9. ASSUME NEW t \in Thread, ThreadThrottled(t) PROVE NothingPutOff'
    <2>1. PICK d \in Pauses : ThrottlePass(t, d)
      BY <1>9 DEF ThreadThrottled
    <2>2. throttled = 0 /\ d \in Nat /\ states' = states \cup {t}
      BY <1>9, ConstantTypes DEF ThreadThrottled, LoopInv, NoPollWhilePaused
    <2>3. EndPass(d) /\ Settle(due, d, discovery, gap, activity)
      BY <2>1, <2>2 DEF ThrottlePass
    <2>4. Forward /\ throttled' <= d
      BY <1>0, <2>2, <2>3, SettledForward
    <2>5. wake' = throttled'
      BY <2>3 DEF EndPass, Settle
    <2>6. throttled' = 0 => wake' <= MaxSleep
      BY <2>5, ConstantTypes
    <2> QED
      BY <1>0, <2>4, <2>6, ForwardKept DEF NothingPutOff
  <1>10. CASE Tick
    <2>1. \A x \in Nat : Down(x) <= x /\ Down(x) \in Nat
      BY DEF Down
    <2>2. CASE pc = "asleep"
      <3>1. /\ due' = [t \in Thread |-> Down(due[t])] /\ discovery' = Down(discovery)
            /\ activity' = Down(activity) /\ throttled' = Down(throttled) /\ wake' = wake - 1
            /\ UNCHANGED states
        BY <1>10, <2>2 DEF Tick
      <3>2. Forward
        BY <1>0, <2>1, <3>1 DEF Forward, TypeOK
      <3>3. throttled \in Nat /\ throttled' \in Nat /\ throttled' <= throttled /\ wake \in Nat
        BY <1>0, <2>1, <3>1 DEF TypeOK
      <3>4. throttled' > 0 => \E d \in Pauses : throttled' <= d
        <4>1. throttled' > 0 => throttled > 0
          BY <3>3
        <4> QED
          BY <3>3, <4>1, Sooner, ConstantTypes DEF NothingPutOff
      <3>5. throttled' = 0 => wake' <= MaxSleep
        <4>1. CASE throttled = 0
          BY <2>2, <3>1, <3>3, <4>1, ConstantTypes DEF NothingPutOff
        <4>2. CASE throttled > 0
          <5>1. wake = throttled
            BY <2>2, <4>2 DEF LoopInv, SleepsThroughPause
          <5> QED
            BY <3>1, <3>3, <4>2, <5>1, ConstantTypes DEF Down
        <4> QED
          BY <3>3, <4>1, <4>2
      <3> QED
        BY <1>0, <3>2, <3>4, <3>5, ForwardKept DEF NothingPutOff
    <2>3. CASE pc # "asleep"
      BY <1>10, <2>3 DEF Tick, NothingPutOff
    <2> QED
      BY <2>2, <2>3
  <1>11. CASE (\E t \in Thread : RequestPoll(t) \/ Post(t)) \/ UNCHANGED vars
    <2>1. UNCHANGED <<due, states, discovery, activity, throttled, wake, pc>>
      BY <1>11 DEF RequestPoll, Post, vars, threadVars, checkVars
    <2> QED
      BY <2>1 DEF NothingPutOff
  <1> QED
    BY <1>1, <1>2, <1>3, <1>4, <1>5, <1>6, <1>7, <1>8, <1>9, <1>10, <1>11 DEF Next, Loop

\* Whatever Teams answers, in whatever order, each thread is due again within the
\* longest of the caps, and the loop is awake to see it: with NothingSleptPast, what
\* UnreadPolled needs of the schedule (pollThread, applyPollBackoff, pollPass).
THEOREM AlwaysDueAgain == Spec => []NothingPutOff
  <1>1. Init => LoopInv /\ NothingPutOff
    <2> SUFFICES ASSUME Init PROVE NothingPutOff
      BY LoopInit
    <2>1. /\ \A t \in Thread : due[t] = 0
          /\ discovery \in {0, DiscoveryInterval} /\ activity = 0 /\ throttled = 0 /\ wake = 0
      BY DEF Init
    <2>2. \A t \in Thread : due[t] <= BaseDelay
      BY <2>1, ConstantTypes
    <2>3. discovery <= DiscoveryInterval /\ activity <= ActivityInterval /\ wake <= MaxSleep
      BY <2>1, ConstantTypes
    <2> QED
      BY <2>1, <2>2, <2>3, CapTypes DEF NothingPutOff
  <1>2. LoopInv /\ NothingPutOff /\ [Next]_vars => (LoopInv /\ NothingPutOff)'
    BY LoopNext, PutOffNext
  <1> QED
    BY <1>1, <1>2, PTL DEF Spec

-----------------------------------------------------------------------------
(* What the passes track of a chat: pins, mutes, unread marks, saved messages *)

\* Of a set of numbers that is not empty one is the least, which serves for
\* induction: a least n of which something does not hold leads nowhere.
Earlier == OpToRel(<, Nat)

LEMMA Least ==
    ASSUME NEW X, X \subseteq Nat, X # {}
    PROVE  \E n \in X : \A k \in X : n <= k
<1>1. IsWellFoundedOn(Earlier, Nat)
  BY NatLessThanWellFounded DEF Earlier
<1>2. Earlier = {ss \in Nat \X Nat : ss[1] < ss[2]}
  BY DEF OpToRel, Earlier
<1>3. PICK n \in X : \A k \in X : <<k, n>> \notin Earlier
  BY <1>1, WFMin
<1>4. ASSUME NEW k \in X, k < n
      PROVE  FALSE
  <2>1. <<k, n>> \in Earlier
    BY <1>2, <1>4
  <2> QED
    BY <2>1, <1>3
<1> QED
  BY <1>4

\* Lists of messages without repetition, put together, extended and reversed, stay
\* so.
LEMMA Joined ==
    ASSUME NEW M, NEW s \in Seq(M), NEW t \in Seq(M), IsInjective(s), IsInjective(t),
           ToSet(s) \cap ToSet(t) = {}
    PROVE  /\ s \o t \in Seq(M) /\ IsInjective(s \o t)
           /\ ToSet(s \o t) = ToSet(s) \cup ToSet(t)
<1> DEFINE u == s \o t
<1>1. /\ u \in Seq(M) /\ Len(u) = Len(s) + Len(t)
      /\ Len(s) \in Nat /\ Len(t) \in Nat /\ Len(u) \in Nat
      /\ \A i \in 1 .. Len(s) : u[i] = s[i]
      /\ \A i \in 1 .. Len(u) : i > Len(s) => u[i] = t[i - Len(s)]
      /\ DOMAIN u = 1 .. Len(u) /\ DOMAIN s = 1 .. Len(s) /\ DOMAIN t = 1 .. Len(t)
  OBVIOUS
<1> HIDE DEF u
<1>2. \A i \in 1 .. Len(s) : \A j \in 1 .. Len(t) : s[i] # t[j]
  BY <1>1 DEF ToSet
<1>3. IsInjective(u)
  <2> SUFFICES ASSUME NEW i \in 1 .. Len(u), NEW j \in 1 .. Len(u), u[i] = u[j]
               PROVE  i = j
    BY <1>1 DEF IsInjective
  <2>1. CASE i <= Len(s) /\ j <= Len(s)
    BY <2>1, <1>1 DEF IsInjective
  <2>2. CASE i <= Len(s) /\ j > Len(s)
    BY <2>2, <1>1, <1>2
  <2>3. CASE i > Len(s) /\ j <= Len(s)
    BY <2>3, <1>1, <1>2
  <2>4. CASE i > Len(s) /\ j > Len(s)
    <3>1. i - Len(s) \in 1 .. Len(t) /\ j - Len(s) \in 1 .. Len(t)
      BY <2>4, <1>1
    <3>2. u[i] = t[i - Len(s)] /\ u[j] = t[j - Len(s)]
      BY <2>4, <1>1
    <3>3. i - Len(s) = j - Len(s)
      BY <3>1, <3>2, <1>1 DEF IsInjective
    <3> QED
      BY <3>3, <1>1
  <2> QED
    BY <2>1, <2>2, <2>3, <2>4, <1>1
<1>4. ToSet(u) \subseteq ToSet(s) \cup ToSet(t)
  <2> SUFFICES ASSUME NEW i \in 1 .. Len(u)
               PROVE  u[i] \in ToSet(s) \cup ToSet(t)
    BY <1>1 DEF ToSet
  <2>1. CASE i <= Len(s)
    BY <2>1, <1>1 DEF ToSet
  <2>2. CASE i > Len(s)
    <3>1. i - Len(s) \in DOMAIN t /\ u[i] = t[i - Len(s)]
      BY <2>2, <1>1
    <3> QED
      BY <3>1 DEF ToSet
  <2> QED
    BY <2>1, <2>2, <1>1
<1>5. ToSet(s) \subseteq ToSet(u)
  BY <1>1 DEF ToSet
<1>6. ToSet(t) \subseteq ToSet(u)
  <2> SUFFICES ASSUME NEW i \in 1 .. Len(t)
               PROVE  t[i] \in ToSet(u)
    BY <1>1 DEF ToSet
  <2>1. i + Len(s) \in DOMAIN u /\ u[i + Len(s)] = t[i]
    BY <1>1
  <2> QED
    BY <2>1 DEF ToSet
<1> QED
  BY <1>1, <1>3, <1>4, <1>5, <1>6 DEF u

LEMMA Singly ==
    ASSUME NEW M, NEW x \in M
    PROVE  <<x>> \in Seq(M) /\ IsInjective(<<x>>) /\ ToSet(<<x>>) = {x}
BY DEF IsInjective, ToSet

LEMMA NoneListed ==
    ASSUME NEW M
    PROVE  <<>> \in Seq(M) /\ IsInjective(<<>>) /\ ToSet(<<>>) = {}
BY DEF IsInjective, ToSet

LEMMA Appended ==
    ASSUME NEW M, NEW s \in Seq(M), IsInjective(s), NEW x \in M, x \notin ToSet(s)
    PROVE  /\ Append(s, x) \in Seq(M) /\ IsInjective(Append(s, x))
           /\ ToSet(Append(s, x)) = ToSet(s) \cup {x}
<1>1. Append(s, x) = s \o <<x>>
  OBVIOUS
<1>2. <<x>> \in Seq(M) /\ IsInjective(<<x>>) /\ ToSet(<<x>>) = {x}
  BY Singly
<1>3. ToSet(s) \cap ToSet(<<x>>) = {}
  BY <1>2
<1> QED
  BY <1>1, <1>2, <1>3, Joined

LEMMA Reversed ==
    ASSUME NEW M, NEW s \in Seq(M), IsInjective(s)
    PROVE  /\ Reverse(s) \in Seq(M) /\ IsInjective(Reverse(s))
           /\ ToSet(Reverse(s)) = ToSet(s)
<1> DEFINE r == Reverse(s)
<1>1. /\ r \in Seq(M) /\ Len(s) \in Nat
      /\ DOMAIN r = 1 .. Len(s) /\ DOMAIN s = 1 .. Len(s)
      /\ \A i \in 1 .. Len(s) : r[i] = s[Len(s) - i + 1]
  BY DEF Reverse
<1> HIDE DEF r
<1>2. \A i \in 1 .. Len(s) : Len(s) - i + 1 \in 1 .. Len(s)
  BY <1>1
<1>3. IsInjective(r)
  BY <1>1, <1>2 DEF IsInjective
<1>4. ToSet(r) \subseteq ToSet(s)
  BY <1>1, <1>2 DEF ToSet
<1>5. \A i \in 1 .. Len(s) : s[i] = r[Len(s) - i + 1]
  BY <1>1, <1>2
<1>6. ToSet(s) \subseteq ToSet(r)
  BY <1>1, <1>2, <1>5 DEF ToSet
<1> QED
  BY <1>1, <1>3, <1>4, <1>6 DEF r

\* What Filter has made of the first k messages of a list.
FilterRun(list, S, f, k) ==
    f = [n \in 0 .. k |-> IF n = 0 THEN <<>>
                          ELSE IF list[n] \in S THEN Append(f[n - 1], list[n]) ELSE f[n - 1]]

LEMMA RunExists ==
    ASSUME NEW M, NEW list \in Seq(M), NEW S, NEW k \in 0 .. Len(list)
    PROVE  \E f : FilterRun(list, S, f, k)
<1> DEFINE Bad == {j \in Nat : j <= Len(list) /\ ~ \E f : FilterRun(list, S, f, j)}
<1> SUFFICES ASSUME Bad # {} PROVE FALSE
  OBVIOUS
<1>1. PICK j \in Bad : \A i \in Bad : j <= i
  BY Least, Bad \subseteq Nat
<1>2. CASE j = 0
  <2> DEFINE g == [n \in 0 .. 0 |-> <<>>]
  <2>1. FilterRun(list, S, g, 0)
    BY DEF FilterRun
  <2> QED
    BY <1>1, <1>2, <2>1
<1>3. CASE j # 0
  <2>1. j - 1 \in Nat /\ j - 1 <= Len(list) /\ j - 1 \notin Bad /\ j \in Nat
    BY <1>1, <1>3
  <2>2. PICK f : FilterRun(list, S, f, j - 1)
    BY <2>1
  <2> DEFINE last == IF list[j] \in S THEN Append(f[j - 1], list[j]) ELSE f[j - 1]
  <2> DEFINE g == [n \in 0 .. j |-> IF n = j THEN last ELSE f[n]]
  <2>3. \A n \in 0 .. j - 1 : f[n] = IF n = 0 THEN <<>>
            ELSE IF list[n] \in S THEN Append(f[n - 1], list[n]) ELSE f[n - 1]
    BY <2>2, <2>1 DEF FilterRun
  <2>4. \A n \in 0 .. j : g[n] = IF n = 0 THEN <<>>
            ELSE IF list[n] \in S THEN Append(g[n - 1], list[n]) ELSE g[n - 1]
    BY <2>3, <2>1, <1>3
  <2> HIDE DEF g
  <2>5. g = [n \in 0 .. j |-> g[n]]
    BY DEF g
  <2>6. FilterRun(list, S, g, j)
    BY <2>4, <2>5 DEF FilterRun
  <2> QED
    BY <1>1, <2>6
<1> QED
  BY <1>2, <1>3

\* Filter leaves of a list what is in S, and no message twice.
LEMMA Filtered ==
    ASSUME NEW M, NEW list \in Seq(M), IsInjective(list), NEW S
    PROVE  /\ Filter(list, S) \in Seq(M) /\ IsInjective(Filter(list, S))
           /\ ToSet(Filter(list, S)) = ToSet(list) \cap S
<1> DEFINE L == Len(list)
<1>1. L \in Nat /\ L \in 0 .. L /\ DOMAIN list = 1 .. L
  OBVIOUS
<1>2. PICK f : FilterRun(list, S, f, L) /\ Filter(list, S) = f[L]
  <2>1. \E f : FilterRun(list, S, f, L)
    BY <1>1, RunExists
  <2>2. Filter(list, S) = (CHOOSE f : FilterRun(list, S, f, L))[L]
    BY DEF Filter, FilterRun
  <2> QED
    BY <2>1, <2>2
<1> HIDE DEF L
<1>3. /\ f[0] = <<>>
      /\ \A n \in 1 .. L : f[n] = IF list[n] \in S THEN Append(f[n - 1], list[n]) ELSE f[n - 1]
  <2>1. /\ 0 \in 0 .. L
        /\ \A n \in 1 .. L : n \in 0 .. L /\ n # 0
    BY <1>1
  <2>2. \A n \in 0 .. L : f[n] = IF n = 0 THEN <<>>
            ELSE IF list[n] \in S THEN Append(f[n - 1], list[n]) ELSE f[n - 1]
    BY <1>2 DEF FilterRun
  <2> QED
    BY <2>1, <2>2
<1> DEFINE Before(n) == {list[i] : i \in 1 .. n}
<1> DEFINE Good(n) == f[n] \in Seq(M) /\ IsInjective(f[n]) /\ ToSet(f[n]) = Before(n) \cap S
<1>4. Good(0)
  BY <1>3, NoneListed
<1>5. ASSUME NEW n \in 1 .. L, Good(n - 1)
      PROVE  Good(n)
  <2>1. list[n] \in M /\ list[n] \notin Before(n - 1)
    BY <1>1 DEF IsInjective
  <2>2. Before(n) = Before(n - 1) \cup {list[n]}
    <3>1. Before(n) \subseteq Before(n - 1) \cup {list[n]}
      <4>1. \A i \in 1 .. n : i = n \/ i \in 1 .. n - 1
        OBVIOUS
      <4> QED
        BY <4>1
    <3>2. Before(n - 1) \cup {list[n]} \subseteq Before(n)
      <4>1. n \in 1 .. n /\ \A i \in 1 .. n - 1 : i \in 1 .. n
        OBVIOUS
      <4> QED
        BY <4>1
    <3> QED
      BY <3>1, <3>2
  <2> HIDE DEF Before
  <2>3. CASE list[n] \in S
    <3>1. f[n] = Append(f[n - 1], list[n]) /\ list[n] \notin ToSet(f[n - 1])
      BY <1>3, <1>5, <2>1, <2>3
    <3> QED
      BY <3>1, <1>5, <2>1, <2>2, <2>3, Appended
  <2>4. CASE list[n] \notin S
    BY <1>3, <1>5, <2>2, <2>4
  <2> QED
    BY <2>3, <2>4
<1>6. Good(L)
  <2> HIDE DEF Good
  <2> DEFINE Bad == {n \in Nat : n <= L /\ ~Good(n)}
  <2>1. ASSUME Bad # {} PROVE FALSE
    <3>1. PICK n \in Bad : \A i \in Bad : n <= i
      BY <2>1, Least, Bad \subseteq Nat
    <3>2. n # 0 /\ n \in 1 .. L
      BY <3>1, <1>1, <1>4
    <3>3. n - 1 \in Nat /\ n - 1 <= L /\ n - 1 \notin Bad
      BY <3>1, <3>2, <1>1
    <3> QED
      BY <3>1, <3>2, <3>3, <1>5
  <2> QED
    BY <2>1, <1>1
<1>7. ToSet(list) = Before(L)
  BY <1>1 DEF ToSet
<1> QED
  BY <1>2, <1>6, <1>7

-----------------------------------------------------------------------------
(* The types, part by part *)

\* What waits in the portal's queue.
Shows == {[kind |-> "show", marks |-> f] : f \in UNION {[S -> BOOLEAN] : S \in SUBSET Marks}}
Tags == {[kind |-> "tag", on |-> b] : b \in BOOLEAN}
PortalEvents == Shows \cup Tags

CountTypes ==
    /\ part \in Parts /\ missed \in BOOLEAN
    /\ changes \in 0 .. MaxChanges /\ faults \in 0 .. MaxFaults /\ restarts \in 0 .. MaxRestarts

MarksTypes ==
    /\ marked \in [Marks -> BOOLEAN] /\ shown \in [Marks -> BOOLEAN]
    /\ tracked \in [Marks -> Maybe(BOOLEAN)] /\ listed \in [Marks -> Maybe(BOOLEAN)]
    /\ sig \in Maybe([{"pin", "mute"} -> BOOLEAN])
    /\ pass \in {"list", "pinned", "apply"} /\ tagging \in Maybe(BOOLEAN)
    /\ queue \in Seq(PortalEvents)

LEMMA ShowTyped ==
    ASSUME NEW e \in PortalEvents
    PROVE  /\ e.kind \in {"show", "tag"}
           /\ e.kind = "tag" => e.on \in BOOLEAN /\ e = [kind |-> "tag", on |-> e.on]
           /\ e.kind = "show" => DOMAIN e.marks \subseteq Marks /\ \A m \in DOMAIN e.marks : e.marks[m] \in BOOLEAN
<1>1. CASE e \in Tags
  BY <1>1 DEF Tags
<1>2. CASE e \in Shows
  <2>1. PICK f \in UNION {[S -> BOOLEAN] : S \in SUBSET Marks} : e = [kind |-> "show", marks |-> f]
    BY <1>2 DEF Shows
  <2>2. e.kind = "show" /\ e.marks = f
    BY <2>1
  <2>3. PICK S \in SUBSET Marks : f \in [S -> BOOLEAN]
    OBVIOUS
  <2> QED
    BY <2>2, <2>3
<1> QED
  BY <1>1, <1>2 DEF PortalEvents

LEMMA TagIn == ASSUME NEW b \in BOOLEAN PROVE [kind |-> "tag", on |-> b] \in PortalEvents
BY DEF Tags, PortalEvents

LEMMA ShowIn ==
    ASSUME NEW S \in SUBSET Marks, NEW f \in [S -> BOOLEAN]
    PROVE  [kind |-> "show", marks |-> f] \in PortalEvents
BY DEF Shows, PortalEvents

LEMMA OneMore ==
    ASSUME NEW S, NEW s \in Seq(S), NEW x \in S
    PROVE  Append(s, x) \in Seq(S) /\ <<x>> \in Seq(S) /\ <<>> \in Seq(S)
OBVIOUS

LEMMA MaybeBoolean == \A x : x \in Maybe(BOOLEAN) <=> x = <<>> \/ x = <<TRUE>> \/ x = <<FALSE>>
BY DEF Maybe

LEMMA NowTyped ==
    ASSUME MarksTypes
    PROVE  \A m \in Marks : StateNow(m) \in Maybe(BOOLEAN)
BY DEF MarksTypes, StateNow

LEMMA FaultCounted == ASSUME CountTypes, Fault PROVE faults' \in 0 .. MaxFaults
BY ChatStateAssumption DEF CountTypes, Fault

LEMMA ChangeCounted == ASSUME CountTypes, Change PROVE changes' \in 0 .. MaxChanges
BY ChatStateAssumption DEF CountTypes, Change

LEMMA DivergesTyped == ASSUME CountTypes, NEW b \in BOOLEAN, Diverges(b) PROVE missed' \in BOOLEAN
BY DEF CountTypes, Diverges

LEMMA MarksTyped ==
    ASSUME CountTypes, MarksTypes, MarksNext
    PROVE  MarksTypes' /\ changes' \in 0 .. MaxChanges /\ faults' \in 0 .. MaxFaults /\ missed' \in BOOLEAN
<1> USE DEF CountTypes, MarksTypes
<1>1. CASE MarkInTeams
  BY <1>1, ChangeCounted DEF MarkInTeams, SetMark
<1>2. CASE ListConversations
  BY <1>2 DEF ListConversations, Maybe
<1>3. CASE FetchPinnedChats
  BY <1>3, FaultCounted DEF FetchPinnedChats, Maybe, Marks
<1>4. CASE Announce
  <2> DEFINE newSig == <<[m \in {"pin", "mute"} |-> StateNow(m) = <<TRUE>>]>>
             Message(S) == [kind |-> "show", marks |-> [m \in S |-> StateNow(m) = <<TRUE>>]]
             event == IF "unread" \in ToTell THEN <<Message({"unread"})>> ELSE <<>>
             resync == IF newSig # sig THEN <<Message(ToTell \ {"unread"})>> ELSE <<>>
  <2>1. \A S \in SUBSET Marks : Message(S) \in PortalEvents
    BY ShowIn
  <2>2. ToTell \subseteq Marks /\ "unread" \in Marks
    BY DEF ToTell, Marks
  <2>3. event \in Seq(PortalEvents) /\ resync \in Seq(PortalEvents)
    <3>1. Message({"unread"}) \in PortalEvents /\ Message(ToTell \ {"unread"}) \in PortalEvents
      BY <2>1, <2>2
    <3>2. /\ event = <<>> \/ event = <<Message({"unread"})>>
          /\ resync = <<>> \/ resync = <<Message(ToTell \ {"unread"})>>
      OBVIOUS
    <3> HIDE DEF Message, event, resync
    <3>3. <<>> \in Seq(PortalEvents)
      OBVIOUS
    <3> QED
      BY <3>1, <3>2, <3>3, OneMore
  <2> HIDE DEF event, resync, Message
  <2>4. queue' = queue \o event \o resync
    BY <1>4 DEF Announce, event, resync, Message
  <2>5. queue' \in Seq(PortalEvents)
    BY <2>3, <2>4
  <2>6. tracked' \in [Marks -> Maybe(BOOLEAN)]
    BY <1>4, NowTyped DEF Announce
  <2>7. sig' \in Maybe([{"pin", "mute"} -> BOOLEAN])
    BY <1>4 DEF Announce, Maybe
  <2>8. missed' \in BOOLEAN
    BY <1>4 DEF Announce, Diverges
  <2> QED
    BY <1>4, <2>5, <2>6, <2>7, <2>8 DEF Announce
<1>5. CASE TagRoom
  <2>1. shown' \in [Marks -> BOOLEAN]
    BY <1>5 DEF TagRoom
  <2>2. [kind |-> "tag", on |-> ~shown["pin"]] \in PortalEvents
    BY TagIn
  <2>3. queue' \in Seq(PortalEvents)
    BY <1>5, <2>2 DEF TagRoom
  <2> QED
    BY <1>5, <2>1, <2>3, ChangeCounted DEF TagRoom
<1>6. CASE ShowMarks
  <2> DEFINE told == Head(queue).marks
  <2>1. Head(queue) \in PortalEvents /\ Tail(queue) \in Seq(PortalEvents)
    BY <1>6 DEF ShowMarks
  <2>2. DOMAIN told \subseteq Marks /\ \A m \in DOMAIN told : told[m] \in BOOLEAN
    BY <1>6, <2>1, ShowTyped DEF ShowMarks
  <2>3. CASE shown' = [m \in Marks |-> IF m \in DOMAIN told THEN told[m] ELSE shown[m]]
    <3>1. shown' \in [Marks -> BOOLEAN]
      BY <2>2, <2>3
    <3>2. queue' = Tail(queue) \/ ("pin" \in DOMAIN told /\ queue' = Append(Tail(queue), [kind |-> "tag", on |-> told["pin"]]))
      BY <1>6, <2>3 DEF ShowMarks, Marks
    <3>3. queue' \in Seq(PortalEvents)
      <4>1. "pin" \in DOMAIN told => [kind |-> "tag", on |-> told["pin"]] \in PortalEvents
        BY <2>2, TagIn
      <4> HIDE DEF told
      <4> QED
        BY <2>1, <3>2, <4>1, OneMore
    <3> QED
      BY <1>6, <3>1, <3>3, ChangeCounted, FaultCounted DEF ShowMarks, Diverges
  <2>4. CASE Fault /\ queue' = Tail(queue) /\ missed' = TRUE /\ UNCHANGED <<changes, shown>>
    BY <1>6, <2>1, <2>4, FaultCounted DEF ShowMarks
  <2> QED
    BY <1>6, <2>3, <2>4 DEF ShowMarks
<1>7. CASE HandleRoomTag
  <2>1. Head(queue) \in PortalEvents /\ queue' \in Seq(PortalEvents)
    BY <1>7 DEF HandleRoomTag
  <2>2. Head(queue).on \in BOOLEAN
    BY <1>7, <2>1, ShowTyped DEF HandleRoomTag
  <2>3. tagging' \in Maybe(BOOLEAN) /\ missed' \in BOOLEAN
    BY <1>7, <2>2 DEF HandleRoomTag, Maybe, Diverges
  <2> QED
    BY <1>7, <2>1, <2>3 DEF HandleRoomTag
<1>8. CASE SetChatPinned
  <2>1. tagging = <<tagging[1]>> /\ tagging[1] \in BOOLEAN
    BY <1>8 DEF SetChatPinned, Maybe
  <2>2. marked' \in [Marks -> BOOLEAN] /\ tracked' \in [Marks -> Maybe(BOOLEAN)]
    BY <1>8, <2>1 DEF SetChatPinned, SetMark
  <2>3. missed' \in BOOLEAN /\ tagging' \in Maybe(BOOLEAN)
    BY <1>8 DEF SetChatPinned, Diverges, Maybe
  <2> QED
    BY <1>8, <2>2, <2>3, FaultCounted DEF SetChatPinned
<1> QED
  BY <1>1, <1>2, <1>3, <1>4, <1>5, <1>6, <1>7, <1>8 DEF MarksNext

(* Pinned messages: what their state is made of *)

RefreshPlaces == {"idle", "sync", "send", "record"}
Refreshes == [pc : RefreshPlaces, list : Lists, linked : Lists]
Handlers == [pc : {"merge", "set", "record"}, list : Lists]

PinsTypes ==
    /\ bridged \in SUBSET Messages
    /\ pinned \in Lists
    /\ events \in Lists /\ ToSet(events) \subseteq bridged
    /\ pinSig \in Seq(Lists) /\ Len(pinSig) <= 1
    /\ pinnable \in BOOLEAN /\ may \in BOOLEAN
    /\ refresh \in Refreshes /\ ToSet(refresh.linked) \subseteq bridged
    /\ pinning \in Seq(Handlers)

LEMMA EmptyList == <<>> \in Lists /\ ToSet(<<>>) = {}
BY NoneListed DEF Lists

LEMMA FilterList ==
    ASSUME NEW list \in Lists, NEW S
    PROVE  Filter(list, S) \in Lists /\ ToSet(Filter(list, S)) = ToSet(list) \cap S
BY Filtered DEF Lists

LEMMA ListOfMessages ==
    ASSUME NEW list \in Lists
    PROVE  ToSet(list) \subseteq Messages
BY DEF Lists, ToSet

LEMMA LinkedList ==
    ASSUME NEW list \in Lists
    PROVE  Linked(list) \in Lists /\ ToSet(Linked(list)) = ToSet(list) \cap bridged
BY FilterList DEF Linked

LEMMA WithoutList ==
    ASSUME NEW list \in Lists, NEW m \in Messages
    PROVE  Without(list, m) \in Lists /\ ToSet(Without(list, m)) = ToSet(list) \ {m}
<1>1. ToSet(list) \cap (Messages \ {m}) = ToSet(list) \ {m}
  BY ListOfMessages
<1> QED
  BY <1>1, FilterList DEF Without

LEMMA PinFirst ==
    ASSUME NEW list \in Lists, NEW m \in Messages, m \notin ToSet(list)
    PROVE  <<m>> \o list \in Lists
<1>1. <<m>> \in Seq(Messages) /\ IsInjective(<<m>>) /\ ToSet(<<m>>) = {m}
  BY Singly
<1>2. ToSet(<<m>>) \cap ToSet(list) = {}
  BY <1>1
<1>3. list \in Seq(Messages) /\ IsInjective(list)
  BY DEF Lists
<1>4. <<m>> \o list \in Seq(Messages) /\ IsInjective(<<m>> \o list)
  BY <1>1, <1>2, <1>3, Joined
<1> QED
  BY <1>4 DEF Lists

LEMMA PinLast ==
    ASSUME NEW list \in Lists, NEW m \in Messages, m \notin ToSet(list)
    PROVE  Append(list, m) \in Lists /\ ToSet(Append(list, m)) = ToSet(list) \cup {m}
BY Appended DEF Lists

\* Merged, the list has just the messages that are wanted.
LEMMA MergedList ==
    ASSUME NEW current \in Lists, NEW wanted \in Lists
    PROVE  /\ MergePinnedItems(current, wanted) \in Lists
           /\ ToSet(MergePinnedItems(current, wanted)) = ToSet(wanted)
<1> DEFINE new == Filter(wanted, Messages \ ToSet(current))
           kept == Filter(current, ToSet(wanted))
<1>1. /\ new \in Lists /\ ToSet(new) = ToSet(wanted) \cap (Messages \ ToSet(current))
      /\ kept \in Lists /\ ToSet(kept) = ToSet(current) \cap ToSet(wanted)
  BY FilterList
<1> HIDE DEF new, kept
<1>2. new \in Seq(Messages) /\ IsInjective(new) /\ kept \in Seq(Messages) /\ IsInjective(kept)
  BY <1>1 DEF Lists
<1>3. Reverse(new) \in Seq(Messages) /\ IsInjective(Reverse(new)) /\ ToSet(Reverse(new)) = ToSet(new)
  BY <1>2, Reversed
<1>4. ToSet(Reverse(new)) \cap ToSet(kept) = {}
  BY <1>1, <1>3
<1>5. /\ Reverse(new) \o kept \in Seq(Messages) /\ IsInjective(Reverse(new) \o kept)
      /\ ToSet(Reverse(new) \o kept) = ToSet(Reverse(new)) \cup ToSet(kept)
  BY <1>2, <1>3, <1>4, Joined
<1>6. ToSet(new) \cup ToSet(kept) = ToSet(wanted)
  BY <1>1, ListOfMessages
<1>7. MergePinnedItems(current, wanted) = Reverse(new) \o kept
  BY DEF MergePinnedItems, new, kept
<1> QED
  BY <1>3, <1>5, <1>6, <1>7 DEF Lists

LEMMA Removed ==
    ASSUME NEW S, NEW s \in Seq(S), NEW i \in DOMAIN s
    PROVE  /\ RemoveAt(s, i) \in Seq(S) /\ Len(RemoveAt(s, i)) = Len(s) - 1
           /\ Len(s) = 1 => RemoveAt(s, i) = <<>>
<1>1. Len(s) \in Nat /\ i \in 1 .. Len(s)
  OBVIOUS
<1> DEFINE before == SubSeq(s, 1, i - 1)
           after == SubSeq(s, i + 1, Len(s))
<1>2. before \in Seq(S) /\ Len(before) = i - 1
  BY <1>1
<1>3. after \in Seq(S) /\ Len(after) = Len(s) - i
  <2>1. CASE i = Len(s)
    BY <1>1, <2>1
  <2>2. CASE i < Len(s)
    BY <1>1, <2>2
  <2> QED
    BY <1>1, <2>1, <2>2
<1>4. RemoveAt(s, i) = before \o after
  BY DEF RemoveAt
<1> HIDE DEF before, after
<1>5. RemoveAt(s, i) \in Seq(S) /\ Len(RemoveAt(s, i)) = Len(s) - 1
  BY <1>1, <1>2, <1>3, <1>4
<1> QED
  BY <1>5

LEMMA Replaced ==
    ASSUME NEW S, NEW s \in Seq(S), NEW i \in DOMAIN s, NEW x \in S
    PROVE  [s EXCEPT ![i] = x] \in Seq(S) /\ Len([s EXCEPT ![i] = x]) = Len(s)
OBVIOUS

LEMMA Alone ==
    ASSUME NEW S, NEW x \in S
    PROVE  <<x>> \in Seq(S) /\ Len(<<x>>) <= 1 /\ <<x>> # <<>> /\ <<x>>[1] = x
OBVIOUS

LEMMA PinsTyped ==
    ASSUME CountTypes, PinsTypes, PinsNext
    PROVE  PinsTypes' /\ changes' \in 0 .. MaxChanges /\ faults' \in 0 .. MaxFaults /\ missed' \in BOOLEAN
<1> USE DEF CountTypes, PinsTypes
<1>1. CASE PinInTeams
  <2>1. PICK m \in Messages : pinned' = IF m \in ToSet(pinned) THEN Without(pinned, m) ELSE <<m>> \o pinned
    BY <1>1 DEF PinInTeams
  <2>2. pinned' \in Lists
    BY <2>1, WithoutList, PinFirst
  <2> QED
    BY <1>1, <2>2, ChangeCounted DEF PinInTeams
<1>2. CASE RefreshPinnedMessages
  <2>1. refresh' \in Refreshes /\ refresh'.linked = <<>>
    BY <1>2, EmptyList DEF RefreshPinnedMessages, GetThreadPinnedItems, Refreshes, RefreshPlaces
  <2> QED
    BY <1>2, <2>1, EmptyList DEF RefreshPinnedMessages
<1>3. CASE SyncPinnedMessages
  <2>1. pinnable' \in BOOLEAN /\ may' \in BOOLEAN /\ faults' \in 0 .. MaxFaults
    BY <1>3, FaultCounted DEF SyncPinnedMessages, EnsurePinnable
  <2>2. refresh.list \in Lists /\ refresh.linked \in Lists
    BY DEF Refreshes
  <2>3. Linked(refresh.list) \in Lists /\ ToSet(Linked(refresh.list)) \subseteq bridged
    BY <2>2, LinkedList
  <2>4. missed' \in BOOLEAN
    BY <1>3 DEF SyncPinnedMessages, Diverges
  <2>5. pinSig' \in Seq(Lists) /\ Len(pinSig') <= 1
    <3>1. pinSig' = pinSig \/ pinSig' = <<<<>>>>
      BY <1>3 DEF SyncPinnedMessages
    <3>2. <<<<>>>> \in Seq(Lists) /\ Len(<<<<>>>>) <= 1
      BY EmptyList, Alone
    <3> QED
      BY <3>1, <3>2
  <2>6. \/ refresh' = [refresh EXCEPT !.pc = "idle"]
        \/ refresh' = [pc |-> "send", list |-> refresh.list, linked |-> Linked(refresh.list)]
    BY <1>3 DEF SyncPinnedMessages
  <2>7. refresh' \in Refreshes /\ ToSet(refresh'.linked) \subseteq bridged
    <3>1. CASE refresh' = [refresh EXCEPT !.pc = "idle"]
      <4>1. refresh' \in Refreshes /\ refresh'.linked = refresh.linked
        BY <3>1 DEF Refreshes, RefreshPlaces
      <4> QED
        BY <4>1
    <3>2. CASE refresh' = [pc |-> "send", list |-> refresh.list, linked |-> Linked(refresh.list)]
      <4>1. refresh' \in Refreshes /\ refresh'.linked = Linked(refresh.list)
        BY <3>2, <2>2, <2>3 DEF Refreshes, RefreshPlaces
      <4> QED
        BY <4>1, <2>3
    <3> QED
      BY <2>6, <3>1, <3>2
  <2> QED
    BY <1>3, <2>1, <2>4, <2>5, <2>7 DEF SyncPinnedMessages
<1>4. CASE SendPinnedEvents
  <2>1. refresh' \in Refreshes /\ refresh'.linked = refresh.linked
    BY <1>4 DEF SendPinnedEvents, Refreshes, RefreshPlaces
  <2>2. events' \in Lists /\ ToSet(events') \subseteq bridged
    BY <1>4 DEF SendPinnedEvents, Refreshes
  <2> QED
    BY <1>4, <2>1, <2>2, FaultCounted DEF SendPinnedEvents
<1>5. CASE RecordPinned
  <2>1. refresh' \in Refreshes /\ refresh'.linked = refresh.linked
    BY <1>5 DEF RecordPinned, Refreshes, RefreshPlaces
  <2>2. refresh.list \in Lists
    BY DEF Refreshes
  <2>3. pinSig' \in Seq(Lists) /\ Len(pinSig') <= 1
    BY <1>5, <2>2 DEF RecordPinned
  <2> QED
    BY <1>5, <2>1, <2>3 DEF RecordPinned, Diverges
<1>6. CASE BridgeMessage
  <2>1. bridged' \in SUBSET Messages /\ bridged \subseteq bridged'
    BY <1>6 DEF BridgeMessage
  <2> QED
    BY <1>6, <2>1 DEF BridgeMessage, Diverges, countVars
<1>7. CASE PinInRoom
  <2>1. PICK m \in bridged : events' = IF m \in ToSet(events) THEN Without(events, m) ELSE Append(events, m)
    BY <1>7 DEF PinInRoom
  <2>2. events' \in Lists /\ ToSet(events') \subseteq bridged
    BY <2>1, WithoutList, PinLast
  <2>3. [pc |-> "merge", list |-> events'] \in Handlers
    BY <2>2 DEF Handlers
  <2>4. pinning' \in Seq(Handlers)
    BY <1>7, <2>3, OneMore DEF PinInRoom
  <2> QED
    BY <1>7, <2>2, <2>4, ChangeCounted DEF PinInRoom
<1>8. CASE HandleMatrixPinnedEvents
  <2>1. PICK i \in DOMAIN pinning : LET h == pinning[i] IN
          \/ /\ h.pc = "merge"
             /\ LET current == IF pinSig = <<>> THEN <<>> ELSE pinSig[1] IN
                 pinning' = [pinning EXCEPT ![i] = [pc |-> "set", list |-> MergePinnedItems(current, h.list)]]
             /\ UNCHANGED <<pinned, pinSig, missed>>
          \/ /\ h.pc = "set"
             /\ pinned' = h.list
             /\ pinning' = [pinning EXCEPT ![i].pc = "record"]
             /\ UNCHANGED <<pinSig, missed>>
          \/ /\ h.pc = "record"
             /\ pinSig' = <<h.list>>
             /\ pinning' = RemoveAt(pinning, i)
             /\ Diverges(Len(pinning) = 1 /\ ToSet(events) # ToSet(h.list))
             /\ UNCHANGED pinned
    BY <1>8 DEF HandleMatrixPinnedEvents
  <2> DEFINE h == pinning[i]
             current == IF pinSig = <<>> THEN <<>> ELSE pinSig[1]
  <2>2. h \in Handlers
    OBVIOUS
  <2>3. h.list \in Lists /\ [h EXCEPT !.pc = "record"] \in Handlers
    BY <2>2 DEF Handlers
  <2>4. current \in Lists
    <3>1. pinSig # <<>> => pinSig[1] \in Lists
      OBVIOUS
    <3> QED
      BY <3>1, EmptyList
  <2>5. [pc |-> "set", list |-> MergePinnedItems(current, h.list)] \in Handlers
    BY <2>3, <2>4, MergedList DEF Handlers
  <2>6. pinning' \in Seq(Handlers)
    <3>1. \/ pinning' = [pinning EXCEPT ![i] = [pc |-> "set", list |-> MergePinnedItems(current, h.list)]]
          \/ pinning' = [pinning EXCEPT ![i] = [h EXCEPT !.pc = "record"]]
          \/ pinning' = RemoveAt(pinning, i)
      BY <2>1
    <3> HIDE DEF h, current
    <3> QED
      <4>1. /\ h \in Handlers /\ [h EXCEPT !.pc = "record"] \in Handlers
            /\ [pc |-> "set", list |-> MergePinnedItems(current, h.list)] \in Handlers
        BY <2>2, <2>3, <2>5
      <4>2. RemoveAt(pinning, i) \in Seq(Handlers)
        BY Removed
      <4>3. \A x \in Handlers : [pinning EXCEPT ![i] = x] \in Seq(Handlers)
        BY Replaced
      <4> QED
        BY <3>1, <4>1, <4>2, <4>3
  <2>7. pinned' \in Lists
    <3>1. pinned' = pinned \/ pinned' = h.list
      BY <2>1
    <3> QED
      BY <3>1, <2>3
  <2>8. pinSig' \in Seq(Lists) /\ Len(pinSig') <= 1
    <3>1. pinSig' = pinSig \/ pinSig' = <<h.list>>
      BY <2>1
    <3>2. <<h.list>> \in Seq(Lists) /\ Len(<<h.list>>) <= 1
      BY <2>3, Alone
    <3> HIDE DEF h
    <3> QED
      BY <3>1, <3>2
  <2>9. missed' \in BOOLEAN
    BY <2>1 DEF Diverges
  <2> QED
    BY <1>8, <2>6, <2>7, <2>8, <2>9 DEF HandleMatrixPinnedEvents
<1>9. CASE SetPinnedItemsFails
  <2>1. PICK i \in DOMAIN pinning : pinning' = RemoveAt(pinning, i)
    BY <1>9 DEF SetPinnedItemsFails
  <2>2. pinning' \in Seq(Handlers)
    BY <2>1, Removed
  <2> QED
    BY <1>9, <2>2, FaultCounted DEF SetPinnedItemsFails
<1> QED
  BY <1>1, <1>2, <1>3, <1>4, <1>5, <1>6, <1>7, <1>8, <1>9 DEF PinsNext

(* Saved messages: what their state is made of *)

Places == {"idle", "note", "take", "read", "store", "collect", "link", "put", "record"}

SavedTypes ==
    /\ bridged \in SUBSET Messages
    /\ saved \in SUBSET Messages /\ knownSaved \in SUBSET Messages
    /\ version \in Nat /\ read \in 0 .. version
    /\ pending \in Maybe(1 .. version)
    /\ incomplete \in BOOLEAN
    /\ published \in Maybe(Items) /\ account \in Maybe(Items)
    /\ at \in [Publishers -> Places]
    /\ holds \in [Publishers -> Items]
    /\ seen \in [Publishers -> 0 .. version]

LEMMA SomePublisher == "loop" \in Publishers /\ "command" \in Publishers
BY DEF Publishers

LEMMA PairTyped ==
    ASSUME NEW items \in Items
    PROVE  items[1] \in SUBSET Messages /\ items[2] \in SUBSET Messages /\ items = <<items[1], items[2]>>
BY DEF Items

LEMMA PairIn ==
    ASSUME NEW x \in SUBSET Messages, NEW y \in SUBSET Messages
    PROVE  <<x, y>> \in Items
BY DEF Items

LEMMA MaybeIn ==
    ASSUME NEW S, NEW x \in S
    PROVE  <<x>> \in Maybe(S) /\ <<>> \in Maybe(S)
BY DEF Maybe

LEMMA MaybeOf ==
    ASSUME NEW S, NEW x \in Maybe(S)
    PROVE  x = <<>> \/ (x[1] \in S /\ x = <<x[1]>>)
BY DEF Maybe

LEMMA VersionsGrow ==
    ASSUME SavedTypes
    PROVE  /\ version + 1 \in Nat /\ read \in 0 .. version + 1
           /\ pending \in Maybe(1 .. version + 1)
           /\ seen \in [Publishers -> 0 .. version + 1]
<1>1. \A x : x \in 1 .. version => x \in 1 .. version + 1
  BY DEF SavedTypes
<1>2. pending \in Maybe(1 .. version + 1)
  <2>1. CASE pending = <<>>
    BY <2>1 DEF Maybe
  <2>2. CASE pending # <<>>
    <3>1. pending[1] \in 1 .. version /\ pending = <<pending[1]>>
      BY <2>2, MaybeOf DEF SavedTypes
    <3> QED
      BY <3>1, <1>1, MaybeIn
  <2> QED
    BY <2>1, <2>2
<1>3. seen \in [Publishers -> 0 .. version + 1]
  BY DEF SavedTypes
<1> QED
  BY <1>2, <1>3 DEF SavedTypes

LEMMA SavedTyped ==
    ASSUME CountTypes, SavedTypes, SavedNext
    PROVE  SavedTypes' /\ changes' \in 0 .. MaxChanges /\ faults' \in 0 .. MaxFaults /\ missed' \in BOOLEAN
<1> USE DEF CountTypes
<1>1. CASE SaveInTeams
  <2>1. saved' \in SUBSET Messages /\ version' = version + 1
    BY <1>1 DEF SaveInTeams, SetMessageSaved, Toggle, SavedTypes
  <2> QED
    BY <1>1, <2>1, VersionsGrow, ChangeCounted DEF SaveInTeams, SavedTypes, trackerVars
<1>2. CASE ListVersion
  <2>1. version \in 0 .. version
    BY DEF SavedTypes
  <2>2. seen' \in [Publishers -> 0 .. version]
    BY <1>2, <2>1 DEF ListVersion, SavedTypes
  <2>3. at' \in [Publishers -> Places]
    BY <1>2 DEF ListVersion, Go, Places, SavedTypes
  <2> QED
    BY <1>2, <2>2, <2>3 DEF ListVersion, SavedTypes, trackerVars
<1>3. CASE NoteVersion
  <2>1. at' \in [Publishers -> Places]
    BY <1>3 DEF NoteVersion, Go, Places, SavedTypes
  <2>2. seen["loop"] \in 0 .. version /\ version \in Nat
    BY SomePublisher DEF SavedTypes
  <2>3. pending' \in Maybe(1 .. version)
    <3>1. CASE seen["loop"] \in {0, read}
      BY <1>3, <3>1 DEF NoteVersion, SavedTypes
    <3>2. CASE seen["loop"] \notin {0, read}
      <4>1. seen["loop"] \in 1 .. version
        BY <2>2, <3>2
      <4> QED
        BY <1>3, <3>2, <4>1, MaybeIn DEF NoteVersion
    <3> QED
      BY <3>1, <3>2
  <2> QED
    BY <1>3, <2>1, <2>3 DEF NoteVersion, SavedTypes
<1>4. CASE TakePending
  <2>1. at' \in [Publishers -> Places]
    BY <1>4 DEF TakePending, Go, Places, SavedTypes
  <2>2. pending' \in Maybe(1 .. version)
    BY <1>4 DEF TakePending, Maybe
  <2>3. pending # <<>> => pending[1] \in 0 .. version
    <3>1. ASSUME pending # <<>> PROVE pending[1] \in 1 .. version
      BY <3>1, MaybeOf DEF SavedTypes
    <3> QED
      BY <3>1 DEF SavedTypes
  <2>4. seen' \in [Publishers -> 0 .. version]
    <3>1. seen' = seen \/ (pending # <<>> /\ seen' = [seen EXCEPT !["loop"] = pending[1]])
      BY <1>4 DEF TakePending
    <3> QED
      BY <3>1, <2>3 DEF SavedTypes
  <2> QED
    BY <1>4, <2>1, <2>2, <2>4 DEF TakePending, SavedTypes
<1>5. CASE Save
  <2>1. saved' \in SUBSET Messages /\ version' = version + 1
    BY <1>5 DEF Save, SetMessageSaved, Toggle, SavedTypes
  <2>2. at' \in [Publishers -> Places]
    BY <1>5 DEF Save, Go, Places, SavedTypes
  <2>3. seen' \in [Publishers -> 0 .. version + 1]
    <3>1. seen' = [seen EXCEPT !["command"] = 0] /\ 0 \in 0 .. version + 1
      BY <1>5, VersionsGrow DEF Save
    <3> QED
      BY <3>1, VersionsGrow
  <2> QED
    BY <1>5, <2>1, <2>2, <2>3, VersionsGrow, ChangeCounted DEF Save, SavedTypes, trackerVars
<1>6. CASE BridgeSaved
  <2>1. bridged' \in SUBSET Messages
    BY <1>6 DEF BridgeSaved, SavedTypes
  <2> QED
    BY <1>6, <2>1 DEF BridgeSaved, SavedTypes, savedVars, trackerVars, countVars
<1>7. ASSUME NEW p \in Publishers, SavedStep(p)
      PROVE  SavedTypes' /\ changes' \in 0 .. MaxChanges /\ faults' \in 0 .. MaxFaults /\ missed' \in BOOLEAN
  <2>1. /\ holds[p] \in Items /\ holds[p][1] \in SUBSET Messages /\ holds[p][2] \in SUBSET Messages
        /\ seen[p] \in 0 .. version
    BY PairTyped DEF SavedTypes
  <2>2. /\ <<saved, {}>> \in Items /\ <<knownSaved, {}>> \in Items
        /\ <<holds[p][1], holds[p][1] \cap bridged>> \in Items
    BY <2>1, PairIn DEF SavedTypes
  <2>3. CASE GetSavedMessages(p)
    <3>1. at' \in [Publishers -> Places] /\ holds' \in [Publishers -> Items]
      BY <2>3, <2>2 DEF GetSavedMessages, Go, Places, SavedTypes
    <3> QED
      BY <2>3, <3>1, FaultCounted DEF GetSavedMessages, SavedTypes, trackerVars
  <2>4. CASE Store(p)
    <3>1. at' \in [Publishers -> Places] /\ knownSaved' \in SUBSET Messages /\ read' \in 0 .. version
      BY <2>4, <2>1 DEF Store, Go, Places, SavedTypes
    <3> QED
      BY <2>4, <3>1 DEF Store, SavedTypes
  <2>5. CASE Collect(p)
    <3>1. at' \in [Publishers -> Places] /\ holds' \in [Publishers -> Items]
      BY <2>5, <2>2 DEF Collect, Go, Places, SavedTypes
    <3> QED
      BY <2>5, <3>1 DEF Collect, SavedTypes, trackerVars
  <2>6. CASE Link(p)
    <3>1. holds' \in [Publishers -> Items]
      BY <2>6, <2>2 DEF Link, ItemsOf, SavedTypes
    <3>2. at' \in [Publishers -> Places]
      BY <2>6 DEF Link, Go, Places, SavedTypes
    <3>3. incomplete' \in BOOLEAN /\ missed' \in BOOLEAN
      BY <2>6 DEF Link, Incomplete, Diverges, Overtaken
    <3> QED
      BY <2>6, <3>1, <3>2, <3>3 DEF Link, SavedTypes
  <2>7. CASE Publish(p)
    <3>1. at' \in [Publishers -> Places]
      BY <2>7 DEF Publish, Go, Places, SavedTypes
    <3>2. account' \in Maybe(Items)
      <4>1. account' = account \/ account' = <<holds[p]>>
        BY <2>7 DEF Publish
      <4> QED
        BY <4>1, <2>1, MaybeIn DEF SavedTypes
    <3>3. missed' \in BOOLEAN
      BY <2>7 DEF Publish, Diverges
    <3> QED
      BY <2>7, <3>1, <3>2, <3>3, FaultCounted DEF Publish, SavedTypes, trackerVars
  <2>8. CASE RecordPublished(p)
    <3>1. at' \in [Publishers -> Places]
      BY <2>8 DEF RecordPublished, Go, Places, SavedTypes
    <3>2. published' \in Maybe(Items)
      BY <2>8, <2>1, MaybeIn DEF RecordPublished
    <3> QED
      BY <2>8, <3>1, <3>2 DEF RecordPublished, SavedTypes, Diverges
  <2> QED
    BY <1>7, <2>3, <2>4, <2>5, <2>6, <2>7, <2>8 DEF SavedStep
<1> QED
  BY <1>1, <1>2, <1>3, <1>4, <1>5, <1>6, <1>7 DEF SavedNext

LEMMA BridgedGrows ==
    ASSUME SavedNext
    PROVE  bridged \subseteq bridged'
BY DEF SavedNext, SaveInTeams, ListVersion, NoteVersion, TakePending, Save, BridgeSaved,
       SavedStep, GetSavedMessages, Store, Collect, Link, Publish, RecordPublished

\* All of it: what ChatTypeOK says, and the types of what waits in queues.
ChatTypeInv == CountTypes /\ MarksTypes /\ PinsTypes /\ SavedTypes

LEMMA ChatTypesStart ==
    ASSUME ChatInit
    PROVE  ChatTypeInv
<1>1. CountTypes
  <2>1. 0 \in 0 .. MaxChanges /\ 0 \in 0 .. MaxFaults /\ 0 \in 0 .. MaxRestarts
    BY ChatStateAssumption
  <2> QED
    BY <2>1 DEF ChatInit, CountTypes
<1>2. MarksTypes
  <2>1. marked \in [Marks -> BOOLEAN]
    BY DEF ChatInit, MarksInit
  <2>2. <<>> \in Seq(PortalEvents) /\ \A S : <<>> \in Maybe(S)
    BY DEF Maybe
  <2> QED
    BY <2>1, <2>2 DEF ChatInit, MarksInit, MarksTypes
<1>3. PinsTypes
  <2>1. pinned \in Maybe(Messages)
    BY DEF ChatInit, PinsInit, Maybe
  <2>2. pinned \in Lists
    <3>1. CASE pinned = <<>>
      BY <3>1, EmptyList
    <3>2. CASE pinned # <<>>
      <4>1. pinned = <<pinned[1]>> /\ pinned[1] \in Messages
        BY <2>1, <3>2, MaybeOf
      <4> QED
        BY <4>1, Singly DEF Lists
    <3> QED
      BY <3>1, <3>2
  <2>3. events \in Lists /\ ToSet(events) \subseteq bridged
    BY EmptyList DEF ChatInit, PinsInit
  <2>4. refresh = [pc |-> "idle", list |-> <<>>, linked |-> <<>>]
    BY DEF ChatInit, PinsInit
  <2>5. refresh \in Refreshes /\ refresh.linked = <<>>
    BY <2>4, EmptyList DEF Refreshes, RefreshPlaces
  <2> QED
    <3>1. <<>> \in Seq(Lists) /\ Len(<<>>) <= 1 /\ <<>> \in Seq(Handlers)
      OBVIOUS
    <3>2. bridged \in SUBSET Messages
      BY ChatStateAssumption DEF ChatInit
    <3>3. ToSet(refresh.linked) \subseteq bridged
      BY <2>5, EmptyList
    <3>4. pinSig = <<>> /\ pinning = <<>> /\ pinnable \in BOOLEAN /\ may \in BOOLEAN
      BY DEF ChatInit, PinsInit
    <3> QED
      BY <2>2, <2>3, <2>5, <3>1, <3>2, <3>3, <3>4 DEF PinsTypes
<1>4. SavedTypes
  <2>1. <<{}, {}>> \in Items
    BY PairIn
  <2>2. saved \in SUBSET Messages /\ version \in Nat /\ bridged \in SUBSET Messages
    BY ChatStateAssumption DEF ChatInit, SavedInit
  <2>3. holds \in [Publishers -> Items] /\ at \in [Publishers -> Places] /\ seen \in [Publishers -> 0 .. version]
    BY <2>1, <2>2 DEF ChatInit, SavedInit, Places
  <2> QED
    <3>1. \A S : <<>> \in Maybe(S)
      BY DEF Maybe
    <3>2. 0 \in 0 .. version
      BY <2>2
    <3>3. knownSaved = {} /\ read = 0 /\ pending = <<>> /\ published = <<>> /\ incomplete = FALSE /\ account = <<>>
      BY DEF ChatInit, SavedInit
    <3> QED
      BY <2>2, <2>3, <3>1, <3>2, <3>3 DEF SavedTypes
<1> QED
  BY <1>1, <1>2, <1>3, <1>4 DEF ChatTypeInv

LEMMA ChatTypesRestart ==
    ASSUME ChatTypeInv, Restart
    PROVE  ChatTypeInv'
<1> USE DEF ChatTypeInv
<1>1. CountTypes'
  BY ChatStateAssumption DEF Restart, CountTypes
<1>2. MarksTypes'
  BY DEF Restart, MarksRestart, MarksTypes, Maybe
<1>3. PinsTypes'
  <2>1. refresh' = [pc |-> "idle", list |-> <<>>, linked |-> <<>>]
    BY DEF Restart, PinsRestart
  <2>2. refresh' \in Refreshes /\ refresh'.linked = <<>>
    BY <2>1, EmptyList DEF Refreshes, RefreshPlaces
  <2> QED
    <3>1. <<>> \in Seq(Lists) /\ Len(<<>>) <= 1 /\ <<>> \in Seq(Handlers)
      OBVIOUS
    <3>2. ToSet(refresh'.linked) \subseteq bridged
      BY <2>2, EmptyList
    <3> QED
      BY <2>2, <3>1, <3>2 DEF Restart, PinsRestart, PinsTypes
<1>4. SavedTypes'
  <2>1. <<{}, {}>> \in Items
    BY PairIn
  <2>2. /\ holds' \in [Publishers -> Items] /\ at' \in [Publishers -> Places] /\ seen' \in [Publishers -> 0 .. version]
        /\ read' \in 0 .. version
    BY <2>1 DEF Restart, SavedRestart, Places, SavedTypes
  <2> QED
    BY <2>2 DEF Restart, SavedRestart, SavedTypes, Maybe
<1> QED
  BY <1>1, <1>2, <1>3, <1>4

LEMMA ChatTypesStep ==
    ASSUME ChatTypeInv, [ChatNext]_chatVars
    PROVE  ChatTypeInv'
<1> USE DEF ChatTypeInv
<1>1. CASE part = "marks" /\ MarksNext /\ UNCHANGED <<part, restarts, bridged, pinsVars, savedVars>>
  <2>1. MarksTypes' /\ changes' \in 0 .. MaxChanges /\ faults' \in 0 .. MaxFaults /\ missed' \in BOOLEAN
    BY <1>1, MarksTyped
  <2>2. PinsTypes'
    BY <1>1 DEF PinsTypes, pinsVars
  <2>3. SavedTypes'
    BY <1>1 DEF SavedTypes, savedVars, trackerVars
  <2> QED
    BY <1>1, <2>1, <2>2, <2>3 DEF CountTypes
<1>2. CASE part = "pins" /\ PinsNext /\ UNCHANGED <<part, restarts, marksVars, savedVars>>
  <2>1. PinsTypes' /\ changes' \in 0 .. MaxChanges /\ faults' \in 0 .. MaxFaults /\ missed' \in BOOLEAN
    BY <1>2, PinsTyped
  <2>2. MarksTypes'
    BY <1>2 DEF MarksTypes, marksVars
  <2>3. bridged' \in SUBSET Messages
    BY <2>1 DEF PinsTypes
  <2>4. SavedTypes'
    BY <1>2, <2>3 DEF SavedTypes, savedVars, trackerVars
  <2> QED
    BY <1>2, <2>1, <2>2, <2>4 DEF CountTypes
<1>3. CASE part = "saved" /\ SavedNext /\ UNCHANGED <<part, restarts, marksVars, pinsVars>>
  <2>1. SavedTypes' /\ changes' \in 0 .. MaxChanges /\ faults' \in 0 .. MaxFaults /\ missed' \in BOOLEAN
    BY <1>3, SavedTyped
  <2>2. MarksTypes'
    BY <1>3 DEF MarksTypes, marksVars
  <2>3. bridged \subseteq bridged' /\ bridged' \in SUBSET Messages
    BY <1>3, <2>1, BridgedGrows DEF SavedTypes
  <2>4. PinsTypes'
    BY <1>3, <2>3 DEF PinsTypes, pinsVars
  <2> QED
    BY <1>3, <2>1, <2>2, <2>4 DEF CountTypes
<1>4. CASE Restart
  BY <1>4, ChatTypesRestart
<1>5. CASE UNCHANGED chatVars
  BY <1>5 DEF chatVars, countVars, marksVars, pinsVars, savedVars, trackerVars, CountTypes, MarksTypes, PinsTypes, SavedTypes
<1> QED
  BY <1>1, <1>2, <1>3, <1>4, <1>5 DEF ChatNext

LEMMA ChatTypesFollow ==
    ASSUME ChatTypeInv
    PROVE  ChatTypeOK
<1>1. \A i \in DOMAIN pinning : pinning[i] \in [pc : {"merge", "set", "record"}, list : Lists]
  <2>1. pinning \in Seq(Handlers)
    BY DEF ChatTypeInv, PinsTypes
  <2>2. \A i \in DOMAIN pinning : pinning[i] \in Handlers
    BY <2>1
  <2> QED
    BY <2>2 DEF Handlers
<1>2. read <= version
  BY DEF ChatTypeInv, SavedTypes
<1> QED
  BY <1>1, <1>2 DEF ChatTypeInv, ChatTypeOK, CountTypes, MarksTypes, PinsTypes, SavedTypes

\* What the chat's state is always like: lists of messages without
\* repetition, only bridged messages pinned in the room, versions that are
\* no later than the chat's.
THEOREM ChatTypeCorrect == ChatSpec => []ChatTypeOK
<1>1. ChatInit => ChatTypeInv
  BY ChatTypesStart
<1>2. ChatTypeInv /\ [ChatNext]_chatVars => ChatTypeInv'
  BY ChatTypesStep
<1>3. ChatTypeInv => ChatTypeOK
  BY ChatTypesFollow
<1> QED
  BY <1>1, <1>2, <1>3, PTL DEF ChatSpec

-----------------------------------------------------------------------------
(* Pinned messages at rest *)

\* When no pin of the user is being handled and no refresh is about to
\* remember what it sent, the messages last remembered as pinned, of those
\* that have an event, are the ones the room has pinned.
PinsRemembered ==
    (part = "pins" /\ ~missed /\ pinning = <<>> /\ refresh.pc # "record" /\ pinSig # <<>>)
        => ToSet(events) = ToSet(pinSig[1]) \cap bridged

\* What a refresh sends is still what it would send.
SentCurrent ==
    (part = "pins" /\ ~missed /\ refresh.pc \in {"send", "record"})
        => ToSet(refresh.linked) = ToSet(refresh.list) \cap bridged

PinsInv == PinsRemembered /\ SentCurrent

LEMMA PinsKept ==
    ASSUME PinsTypes, PinsInv, PinsNext, part = "pins", ~missed', missed \in BOOLEAN, UNCHANGED part
    PROVE  PinsInv'
<1> USE DEF PinsTypes, PinsInv, PinsRemembered, SentCurrent
<1>0. ~missed
  BY DEF PinsNext, PinInTeams, RefreshPinnedMessages, SyncPinnedMessages, SendPinnedEvents, RecordPinned,
         BridgeMessage, PinInRoom, HandleMatrixPinnedEvents, SetPinnedItemsFails, Diverges
<1>1. CASE PinInTeams
  BY <1>0, <1>1 DEF PinInTeams
<1>2. CASE RefreshPinnedMessages
  BY <1>0, <1>2 DEF RefreshPinnedMessages
<1>3. CASE SyncPinnedMessages
  <2> USE <1>0, <1>3 DEF SyncPinnedMessages
  <2>1. CASE pinSig = <<refresh.list>> /\ refresh' = [refresh EXCEPT !.pc = "idle"] /\ UNCHANGED <<pinSig, missed>>
    BY <2>1 DEF Refreshes
  <2>2. CASE pinSig = <<>> /\ pinSig' = <<<<>>>> /\ refresh' = [refresh EXCEPT !.pc = "idle"] /\ Diverges(events # <<>>)
    <3>1. events' = <<>> /\ pinSig'[1] = <<>> /\ refresh'.pc = "idle"
      BY <2>2 DEF Diverges, Refreshes
    <3> QED
      BY <3>1, EmptyList
  <2>3. CASE refresh' = [pc |-> "send", list |-> refresh.list, linked |-> Linked(refresh.list)] /\ UNCHANGED <<pinSig, missed>>
    <3>1. refresh.list \in Lists /\ ToSet(Linked(refresh.list)) = ToSet(refresh.list) \cap bridged
      BY LinkedList DEF Refreshes
    <3> QED
      BY <2>3, <3>1
  <2> QED
    BY <2>1, <2>2, <2>3
<1>4. CASE SendPinnedEvents
  BY <1>0, <1>4 DEF SendPinnedEvents, Refreshes
<1>5. CASE RecordPinned
  <2>1. pinSig'[1] = refresh.list /\ refresh'.pc = "idle"
    BY <1>5 DEF RecordPinned, Refreshes
  <2>2. pinning = <<>> => ToSet(events) = ToSet(refresh.linked)
    BY <1>5 DEF RecordPinned, Diverges
  <2> QED
    BY <1>0, <1>5, <2>1, <2>2 DEF RecordPinned
<1>6. CASE BridgeMessage
  <2>1. PICK m \in Messages : /\ bridged' = bridged \cup {m}
                              /\ m \notin ToSet(refresh.list)
                              /\ pinSig # <<>> => m \notin ToSet(pinSig[1])
    BY <1>6 DEF BridgeMessage, Diverges
  <2> QED
    BY <1>0, <1>6, <2>1 DEF BridgeMessage
<1>7. CASE PinInRoom
  BY <1>0, <1>7 DEF PinInRoom
<1>8. CASE HandleMatrixPinnedEvents
  <2>1. PICK i \in DOMAIN pinning :
          \/ Len(pinning') = Len(pinning)
          \/ /\ pinSig' = <<pinning[i].list>>
             /\ pinning' = RemoveAt(pinning, i)
             /\ Len(pinning) = 1 => ToSet(events) = ToSet(pinning[i].list)
    <3>1. \A i \in DOMAIN pinning : \A x : Len([pinning EXCEPT ![i] = x]) = Len(pinning)
      OBVIOUS
    <3>2. PICK i \in DOMAIN pinning : LET h == pinning[i] IN
            \/ \E x : pinning' = [pinning EXCEPT ![i] = x]
            \/ /\ pinSig' = <<h.list>>
               /\ pinning' = RemoveAt(pinning, i)
               /\ Diverges(Len(pinning) = 1 /\ ToSet(events) # ToSet(h.list))
      <4>1. PICK i \in DOMAIN pinning : LET h == pinning[i] IN
              \/ /\ h.pc = "merge"
                 /\ LET current == IF pinSig = <<>> THEN <<>> ELSE pinSig[1] IN
                     pinning' = [pinning EXCEPT ![i] = [pc |-> "set", list |-> MergePinnedItems(current, h.list)]]
              \/ /\ h.pc = "set"
                 /\ pinning' = [pinning EXCEPT ![i].pc = "record"]
              \/ /\ h.pc = "record"
                 /\ pinSig' = <<h.list>>
                 /\ pinning' = RemoveAt(pinning, i)
                 /\ Diverges(Len(pinning) = 1 /\ ToSet(events) # ToSet(h.list))
        BY <1>8 DEF HandleMatrixPinnedEvents
      <4>2. pinning' = [pinning EXCEPT ![i].pc = "record"] => \E x : pinning' = [pinning EXCEPT ![i] = x]
        OBVIOUS
      <4> QED
        BY <4>1, <4>2
    <3>3. CASE \E x : pinning' = [pinning EXCEPT ![i] = x]
      <4>1. Len(pinning') = Len(pinning)
        BY <3>1, <3>3
      <4> QED
        BY <4>1
    <3>4. CASE /\ pinSig' = <<pinning[i].list>>
               /\ pinning' = RemoveAt(pinning, i)
               /\ Diverges(Len(pinning) = 1 /\ ToSet(events) # ToSet(pinning[i].list))
      <4>1. Len(pinning) = 1 => ToSet(events) = ToSet(pinning[i].list)
        BY <3>4 DEF Diverges
      <4> QED
        BY <3>4, <4>1
    <3> QED
      BY <3>2, <3>3, <3>4
  <2>2. Len(pinning) \in Nat /\ Len(pinning) >= 1 /\ Len(RemoveAt(pinning, i)) = Len(pinning) - 1
    BY Removed
  <2>3. pinning' = <<>> => pinSig'[1] = pinning[i].list /\ ToSet(events) = ToSet(pinning[i].list)
    <3>1. Len(<<>>) = 0
      OBVIOUS
    <3> QED
      BY <2>1, <2>2, <3>1
  <2>4. UNCHANGED <<events, bridged, refresh>>
    BY <1>8 DEF HandleMatrixPinnedEvents
  <2> QED
    BY <1>0, <2>3, <2>4
<1>9. CASE SetPinnedItemsFails
  BY <1>9 DEF SetPinnedItemsFails
<1> QED
  BY <1>1, <1>2, <1>3, <1>4, <1>5, <1>6, <1>7, <1>8, <1>9 DEF PinsNext

LEMMA PinsInvStep ==
    ASSUME ChatTypeInv, PinsInv, [ChatNext]_chatVars
    PROVE  PinsInv'
<1>1. CASE part = "marks" /\ MarksNext /\ UNCHANGED <<part, restarts, bridged, pinsVars, savedVars>>
  BY <1>1 DEF PinsInv, PinsRemembered, SentCurrent
<1>2. CASE part = "pins" /\ PinsNext /\ UNCHANGED <<part, restarts, marksVars, savedVars>>
  <2>1. CASE missed'
    BY <2>1 DEF PinsInv, PinsRemembered, SentCurrent
  <2>2. CASE ~missed'
    BY <1>2, <2>2, PinsKept DEF ChatTypeInv, CountTypes
  <2> QED
    BY <2>1, <2>2
<1>3. CASE part = "saved" /\ SavedNext /\ UNCHANGED <<part, restarts, marksVars, pinsVars>>
  BY <1>3 DEF PinsInv, PinsRemembered, SentCurrent
<1>4. CASE Restart
  BY <1>4 DEF Restart, PinsRestart, PinsInv, PinsRemembered, SentCurrent
<1>5. CASE UNCHANGED chatVars
  BY <1>5 DEF chatVars, countVars, pinsVars, PinsInv, PinsRemembered, SentCurrent
<1> QED
  BY <1>1, <1>2, <1>3, <1>4, <1>5 DEF ChatNext

\* The room and the chat agree on what is pinned whenever the pin tracker
\* has caught up, in whatever order refreshes, the user's pins and newly
\* bridged messages come (syncPinnedMessages, handleMatrixPinnedEvents),
\* unless one of the named losses occurred.
THEOREM PinsAtRest == ChatSpec => []PinsRemembered
<1>1. ChatInit => ChatTypeInv /\ PinsInv
  <2> SUFFICES ASSUME ChatInit PROVE ChatTypeInv /\ PinsInv
    OBVIOUS
  <2>1. pinSig = <<>> /\ refresh.pc = "idle"
    BY DEF ChatInit, PinsInit
  <2> QED
    BY <2>1, ChatTypesStart DEF PinsInv, PinsRemembered, SentCurrent
<1>2. ChatTypeInv /\ PinsInv /\ [ChatNext]_chatVars => (ChatTypeInv /\ PinsInv)'
  BY ChatTypesStep, PinsInvStep
<1>3. ChatTypeInv /\ PinsInv => PinsRemembered
  BY DEF PinsInv
<1> QED
  BY <1>1, <1>2, <1>3, PTL DEF ChatSpec

-----------------------------------------------------------------------------
(* Saved messages at rest *)

\* When nobody is publishing and the chat's last version has been read, the
\* account data hold just the saved messages, with a link to each.
SavedAtRest ==
    (/\ part = "saved" /\ ~missed
     /\ \A p \in Publishers : at[p] \in {"idle", "note", "take"}
     /\ read = version /\ published # <<>> /\ ~incomplete)
        => account = <<ItemsOf(saved)>>

Publishing == \E p \in Publishers : at[p] \in {"collect", "link", "put", "record"}

\* A list is as new as the version that goes with it.
VersionsTell ==
    /\ version = 0 => saved = {} /\ knownSaved = {} /\ \A p \in Publishers : holds[p][1] = {}
    /\ \A p \in Publishers : (at[p] = "store" /\ seen[p] = version) => holds[p][1] = saved
    /\ read = version => knownSaved = saved

\* Links are made only of events that there are, and stay.
LinksBridged ==
    /\ \A p \in Publishers : holds[p][2] \subseteq bridged
    /\ published # <<>> => published[1][2] \subseteq bridged

\* What was published is what the account has, until the next is put there,
\* and is the tracker's list, if that one is complete.
AccountKnown ==
    (~missed /\ published # <<>> /\ \A p \in Publishers : at[p] # "record")
        => account = published

ListPublished ==
    (~missed /\ published # <<>> /\ ~incomplete /\ ~Publishing)
        => published[1] = <<knownSaved, knownSaved>>

SavedInv == VersionsTell /\ LinksBridged /\ AccountKnown /\ ListPublished

\* A loss stays known.
LEMMA NotMissedYet ==
    ASSUME SavedNext, ~missed', missed \in BOOLEAN
    PROVE  ~missed
BY DEF SavedNext, SaveInTeams, ListVersion, NoteVersion, TakePending, Save, BridgeSaved, SavedStep,
       GetSavedMessages, Store, Collect, Link, Publish, RecordPublished, Diverges, countVars, savedVars

LEMMA VersionsTold ==
    ASSUME SavedTypes, VersionsTell, SavedNext
    PROVE  VersionsTell'
<1> USE DEF VersionsTell
<1>0. /\ version \in Nat /\ \A p \in Publishers : seen[p] \in 0 .. version
      /\ read \in 0 .. version
      /\ at \in [Publishers -> Places] /\ holds \in [Publishers -> Items] /\ seen \in [Publishers -> 0 .. version]
  BY DEF SavedTypes
<1>1. ASSUME saved' \in SUBSET Messages, version' = version + 1, UNCHANGED <<knownSaved, read, holds>>,
             \A p \in Publishers : at'[p] = "store" => at[p] = "store" /\ seen'[p] = seen[p]
      PROVE  VersionsTell'
  <2>1. version' # 0 /\ read' # version' /\ \A p \in Publishers : seen[p] # version'
    BY <1>0, <1>1
  <2> QED
    BY <1>1, <2>1
<1>2. CASE SaveInTeams
  BY <1>1, <1>2 DEF SaveInTeams, SetMessageSaved, Toggle, SavedTypes, trackerVars
<1>3. CASE ListVersion
  BY <1>0, <1>3, SomePublisher DEF ListVersion, Go, trackerVars
<1>4. CASE NoteVersion
  BY <1>0, <1>4, SomePublisher DEF NoteVersion, Go
<1>5. CASE TakePending
  BY <1>0, <1>5, SomePublisher DEF TakePending, Go
<1>6. CASE Save
  BY <1>0, <1>1, <1>6, SomePublisher DEF Save, Go, SetMessageSaved, Toggle, SavedTypes, trackerVars
<1>7. CASE BridgeSaved
  BY <1>7 DEF BridgeSaved, savedVars, trackerVars
<1>8. ASSUME NEW p \in Publishers, SavedStep(p)
      PROVE  VersionsTell'
  <2>1. CASE GetSavedMessages(p)
    BY <1>0, <2>1 DEF GetSavedMessages, Go, trackerVars
  <2>2. CASE Store(p)
    BY <1>0, <2>2 DEF Store, Go
  <2>3. CASE Collect(p)
    BY <1>0, <2>3 DEF Collect, Go, trackerVars
  <2>4. CASE Link(p)
    <3>1. /\ \A q \in Publishers : holds'[q][1] = holds[q][1]
          /\ \A q \in Publishers : at'[q] = "store" => at[q] = "store"
      BY <1>0, <2>4 DEF Link, Go, ItemsOf
    <3> QED
      BY <2>4, <3>1 DEF Link
  <2>5. CASE Publish(p)
    <3>1. \A q \in Publishers : at'[q] = "store" => at[q] = "store"
      BY <1>0, <2>5 DEF Publish, Go
    <3> QED
      BY <2>5, <3>1 DEF Publish, trackerVars
  <2>6. CASE RecordPublished(p)
    <3>1. \A q \in Publishers : at'[q] = "store" => at[q] = "store"
      BY <1>0, <2>6 DEF RecordPublished, Go
    <3> QED
      BY <2>6, <3>1 DEF RecordPublished
  <2> QED
    BY <1>8, <2>1, <2>2, <2>3, <2>4, <2>5, <2>6 DEF SavedStep
<1> QED
  BY <1>2, <1>3, <1>4, <1>5, <1>6, <1>7, <1>8 DEF SavedNext

LEMMA LinksKept ==
    ASSUME SavedTypes, LinksBridged, SavedNext
    PROVE  LinksBridged'
<1> USE DEF LinksBridged
<1>0. holds \in [Publishers -> Items]
  BY DEF SavedTypes
<1>1. bridged \subseteq bridged'
  BY BridgedGrows
<1>2. CASE SaveInTeams \/ ListVersion \/ NoteVersion \/ TakePending \/ Save \/ BridgeSaved
  <2>1. UNCHANGED <<holds, published>>
    BY <1>2 DEF SaveInTeams, ListVersion, NoteVersion, TakePending, Save, BridgeSaved, savedVars, trackerVars
  <2> QED
    BY <1>1, <2>1
<1>3. ASSUME NEW p \in Publishers, SavedStep(p)
      PROVE  LinksBridged'
  <2>1. CASE GetSavedMessages(p)
    BY <1>0, <2>1 DEF GetSavedMessages, trackerVars
  <2>2. CASE Store(p)
    BY <2>2 DEF Store
  <2>3. CASE Collect(p)
    BY <1>0, <2>3 DEF Collect, trackerVars
  <2>4. CASE Link(p)
    BY <1>0, <2>4 DEF Link, ItemsOf
  <2>5. CASE Publish(p)
    BY <2>5 DEF Publish, trackerVars
  <2>6. CASE RecordPublished(p)
    BY <2>6 DEF RecordPublished
  <2> QED
    BY <1>3, <2>1, <2>2, <2>3, <2>4, <2>5, <2>6 DEF SavedStep
<1> QED
  BY <1>2, <1>3 DEF SavedNext

LEMMA AccountKept ==
    ASSUME SavedTypes, missed \in BOOLEAN, AccountKnown, SavedNext
    PROVE  AccountKnown'
<1> SUFFICES ASSUME ~missed', published' # <<>>, \A p \in Publishers : at'[p] # "record"
             PROVE  account' = published'
  BY DEF AccountKnown
<1>0. at \in [Publishers -> Places] /\ ~missed
  BY NotMissedYet DEF SavedTypes
<1>1. ASSUME UNCHANGED <<account, published>>, \A p \in Publishers : at[p] = "record" => at'[p] = "record"
      PROVE  account' = published'
  BY <1>0, <1>1 DEF AccountKnown
<1>2. CASE SaveInTeams \/ ListVersion \/ NoteVersion \/ TakePending \/ Save \/ BridgeSaved
  <2>1. UNCHANGED <<account, published>>
    BY <1>2 DEF SaveInTeams, ListVersion, NoteVersion, TakePending, Save, BridgeSaved, savedVars, trackerVars
  <2>2. \A p \in Publishers : at[p] = "record" => at'[p] = "record"
    BY <1>0, <1>2 DEF SaveInTeams, ListVersion, NoteVersion, TakePending, Save, BridgeSaved, savedVars, Go
  <2> QED
    BY <1>1, <2>1, <2>2
<1>3. ASSUME NEW p \in Publishers, SavedStep(p)
      PROVE  account' = published'
  <2>1. CASE GetSavedMessages(p)
    BY <1>0, <1>1, <2>1 DEF GetSavedMessages, Go, trackerVars
  <2>2. CASE Store(p)
    BY <1>0, <1>1, <2>2 DEF Store, Go
  <2>3. CASE Collect(p)
    BY <1>0, <1>1, <2>3 DEF Collect, Go, trackerVars
  <2>4. CASE Link(p)
    <3>1. \A q \in Publishers : at[q] = "record" => at'[q] = "record"
      BY <1>0, <2>4 DEF Link, Go
    <3> QED
      BY <1>1, <2>4, <3>1 DEF Link
  <2>5. CASE Publish(p)
    <3>1. at'[p] # "record" => UNCHANGED account
      BY <1>0, <2>5 DEF Publish, Go
    <3>2. \A q \in Publishers : at[q] = "record" => at'[q] = "record"
      BY <1>0, <2>5 DEF Publish, Go
    <3> QED
      BY <1>1, <2>5, <3>1, <3>2 DEF Publish, trackerVars
  <2>6. CASE RecordPublished(p)
    BY <2>6 DEF RecordPublished, Diverges
  <2> QED
    BY <1>3, <2>1, <2>2, <2>3, <2>4, <2>5, <2>6 DEF SavedStep
<1> QED
  BY <1>2, <1>3 DEF SavedNext

LEMMA PublishedKept ==
    ASSUME SavedTypes, missed \in BOOLEAN, ListPublished, SavedNext
    PROVE  ListPublished'
<1> SUFFICES ASSUME ~missed', published' # <<>>, ~incomplete', ~Publishing'
             PROVE  published'[1] = <<knownSaved', knownSaved'>>
  BY DEF ListPublished
<1> USE DEF Publishing
<1>0. at \in [Publishers -> Places] /\ holds \in [Publishers -> Items] /\ ~missed
  BY NotMissedYet DEF SavedTypes
<1>1. ASSUME UNCHANGED <<published, knownSaved, incomplete>>,
             \A p \in Publishers : at[p] \in {"collect", "link", "put", "record"}
                                      => at'[p] \in {"collect", "link", "put", "record"}
      PROVE  published'[1] = <<knownSaved', knownSaved'>>
  BY <1>0, <1>1 DEF ListPublished
<1>2. CASE SaveInTeams \/ ListVersion \/ NoteVersion \/ TakePending \/ Save \/ BridgeSaved
  <2>1. UNCHANGED <<published, knownSaved, incomplete>>
    BY <1>2 DEF SaveInTeams, ListVersion, NoteVersion, TakePending, Save, BridgeSaved, savedVars, trackerVars
  <2>2. \A p \in Publishers : at[p] \in {"collect", "link", "put", "record"}
                                 => at'[p] \in {"collect", "link", "put", "record"}
    BY <1>0, <1>2 DEF SaveInTeams, ListVersion, NoteVersion, TakePending, Save, BridgeSaved, savedVars, Go
  <2> QED
    BY <1>1, <2>1, <2>2
<1>3. ASSUME NEW p \in Publishers, SavedStep(p)
      PROVE  published'[1] = <<knownSaved', knownSaved'>>
  <2>0. holds[p] = <<holds[p][1], holds[p][2]>>
    BY <1>0, PairTyped
  <2>1. CASE GetSavedMessages(p)
    BY <1>0, <1>1, <2>1 DEF GetSavedMessages, Go, trackerVars
  <2>2. CASE Store(p)
    <3>1. at'[p] = "collect"
      BY <1>0, <2>2 DEF Store, Go
    <3> QED
      BY <3>1
  <2>3. CASE Collect(p)
    <3>1. at'[p] = "link"
      BY <1>0, <2>3 DEF Collect, Go
    <3> QED
      BY <3>1
  <2>4. CASE Link(p)
    <3>1. holds'[p] = ItemsOf(holds[p][1]) /\ holds[p][1] = knownSaved /\ ~Incomplete(holds'[p])
      BY <1>0, <2>4 DEF Link, Diverges, Overtaken
    <3>2. holds'[p] = <<knownSaved, knownSaved>>
      BY <3>1 DEF ItemsOf, Incomplete
    <3>3. published = <<holds'[p]>>
      BY <1>0, <2>4 DEF Link, Go
    <3> QED
      BY <2>4, <3>2, <3>3 DEF Link
  <2>5. CASE Publish(p)
    <3>1. at'[p] = "record" \/ ~(published # <<>> /\ ~incomplete)
      BY <1>0, <2>5 DEF Publish, Go, Diverges
    <3> QED
      BY <2>5, <3>1 DEF Publish, trackerVars
  <2>6. CASE RecordPublished(p)
    BY <2>0, <2>6 DEF RecordPublished, Diverges, Overtaken, Incomplete
  <2> QED
    BY <1>3, <2>1, <2>2, <2>3, <2>4, <2>5, <2>6 DEF SavedStep
<1> QED
  BY <1>2, <1>3 DEF SavedNext

LEMMA LossesKnown ==
    ASSUME missed \in BOOLEAN, MarksNext \/ PinsNext, ~missed'
    PROVE  ~missed
BY DEF MarksNext, MarkInTeams, ListConversations, FetchPinnedChats, Announce, TagRoom, ShowMarks, HandleRoomTag,
       SetChatPinned, PinsNext, PinInTeams, RefreshPinnedMessages, SyncPinnedMessages, SendPinnedEvents, RecordPinned,
       BridgeMessage, PinInRoom, HandleMatrixPinnedEvents, SetPinnedItemsFails, Diverges

LEMMA SavedInvStep ==
    ASSUME ChatTypeInv, SavedInv, [ChatNext]_chatVars
    PROVE  SavedInv'
<1>0. SavedTypes /\ missed \in BOOLEAN
  BY DEF ChatTypeInv, CountTypes
<1> USE DEF SavedInv
<1>1. ASSUME UNCHANGED savedVars, bridged \subseteq bridged', ~missed' => ~missed
      PROVE  SavedInv'
  BY <1>1 DEF savedVars, trackerVars, VersionsTell, LinksBridged, AccountKnown, ListPublished, Publishing
<1>2. CASE part = "marks" /\ MarksNext /\ UNCHANGED <<part, restarts, bridged, pinsVars, savedVars>>
  BY <1>0, <1>1, <1>2, LossesKnown
<1>3. CASE part = "pins" /\ PinsNext /\ UNCHANGED <<part, restarts, marksVars, savedVars>>
  <2>1. bridged \subseteq bridged'
    BY <1>3 DEF PinsNext, PinInTeams, RefreshPinnedMessages, SyncPinnedMessages, SendPinnedEvents, RecordPinned,
         BridgeMessage, PinInRoom, HandleMatrixPinnedEvents, SetPinnedItemsFails, countVars
  <2> QED
    BY <1>0, <1>1, <1>3, <2>1, LossesKnown
<1>4. CASE part = "saved" /\ SavedNext /\ UNCHANGED <<part, restarts, marksVars, pinsVars>>
  BY <1>0, <1>4, VersionsTold, LinksKept, AccountKept, PublishedKept
<1>5. CASE Restart
  <2>1. VersionsTell' /\ LinksBridged'
    BY <1>5 DEF Restart, SavedRestart, VersionsTell, LinksBridged
  <2>2. published' = <<>>
    BY <1>5 DEF Restart, SavedRestart
  <2> QED
    BY <2>1, <2>2 DEF AccountKnown, ListPublished
<1>6. CASE UNCHANGED chatVars
  BY <1>1, <1>6 DEF chatVars
<1> QED
  BY <1>2, <1>3, <1>4, <1>5, <1>6 DEF ChatNext

LEMMA SavedInvStart ==
    ASSUME ChatInit
    PROVE  SavedInv
<1>1. /\ published = <<>> /\ knownSaved = {} /\ read = 0
      /\ at = [p \in Publishers |-> "idle"] /\ holds = [p \in Publishers |-> <<{}, {}>>]
      /\ version = 0 => saved = {}
  BY DEF ChatInit, SavedInit
<1> QED
  BY <1>1 DEF SavedInv, VersionsTell, LinksBridged, AccountKnown, ListPublished

\* The account data hold just the saved messages, each with its link, once
\* the loop has read the chat's last version and nobody publishes, in
\* whatever order the loop and the command read, publish and remember
\* (syncSavedMessages, fnSave), unless one of the named losses occurred.
THEOREM SavedStaysPublished == ChatSpec => []SavedAtRest
<1>1. ChatInit => ChatTypeInv /\ SavedInv
  BY ChatTypesStart, SavedInvStart
<1>2. ChatTypeInv /\ SavedInv /\ [ChatNext]_chatVars => (ChatTypeInv /\ SavedInv)'
  BY ChatTypesStep, SavedInvStep
<1>3. ASSUME ChatTypeInv, SavedInv
      PROVE  SavedAtRest
  <2> SUFFICES ASSUME /\ part = "saved" /\ ~missed
                      /\ \A p \in Publishers : at[p] \in {"idle", "note", "take"}
                      /\ read = version /\ published # <<>> /\ ~incomplete
               PROVE  account = <<ItemsOf(saved)>>
    BY DEF SavedAtRest
  <2>1. account = published /\ published[1] = <<knownSaved, knownSaved>> /\ knownSaved = saved
    BY <1>3 DEF SavedInv, AccountKnown, ListPublished, VersionsTell, Publishing
  <2>2. published = <<published[1]>> /\ published[1][2] \subseteq bridged
    BY <1>3, MaybeOf DEF ChatTypeInv, SavedTypes, SavedInv, LinksBridged
  <2>3. saved \cap bridged = saved
    BY <2>1, <2>2
  <2>4. published = <<<<saved, saved>>>>
    BY <2>1, <2>2
  <2> QED
    BY <2>1, <2>3, <2>4 DEF ItemsOf
<1> QED
  BY <1>1, <1>2, <1>3, PTL DEF ChatSpec

-----------------------------------------------------------------------------
(* Marks at rest *)

\* What waits in the portal's queue, and what it says of a mark.
Concerns(e, m) == IF e.kind = "tag" THEN m = "pin" ELSE m \in DOMAIN e.marks

\* Nothing in the queue is about a mark; or the last that is gives it state x.
Silent(q, m) == \A i \in 1 .. Len(q) : ~Concerns(q[i], m)

LastSays(q, m, x) ==
    \A i \in 1 .. Len(q) :
        (Concerns(q[i], m) /\ \A j \in i + 1 .. Len(q) : ~Concerns(q[j], m)) => x = <<q[i].marks[m]>>

\* What these say of a queue that gets an event of another mark, one of this mark, or
\* loses its first.
LEMMA Unconcerned ==
    ASSUME NEW S, NEW q \in Seq(S), NEW e \in S, NEW m, ~Concerns(e, m)
    PROVE  /\ Silent(Append(q, e), m) <=> Silent(q, m)
           /\ \A x : LastSays(q, m, x) => LastSays(Append(q, e), m, x)
<1> DEFINE r == Append(q, e)
<1>1. /\ Len(q) \in Nat /\ Len(r) = Len(q) + 1
      /\ \A i \in 1 .. Len(q) : r[i] = q[i]
      /\ r[Len(q) + 1] = e
  OBVIOUS
<1> HIDE DEF r
<1>2. \A i \in 1 .. Len(r) : i \in 1 .. Len(q) \/ i = Len(q) + 1
  BY <1>1
<1>3. Silent(r, m) <=> Silent(q, m)
  BY <1>1, <1>2 DEF Silent
<1>4. ASSUME NEW x, LastSays(q, m, x), NEW i \in 1 .. Len(r), Concerns(r[i], m),
             \A j \in i + 1 .. Len(r) : ~Concerns(r[j], m)
      PROVE  x = <<r[i].marks[m]>>
  <2>1. i \in 1 .. Len(q)
    BY <1>1, <1>2, <1>4
  <2>2. \A j \in i + 1 .. Len(q) : j \in i + 1 .. Len(r) /\ q[j] = r[j]
    BY <1>1, <2>1
  <2>3. \A j \in i + 1 .. Len(q) : ~Concerns(q[j], m)
    BY <1>4, <2>2
  <2> QED
    BY <1>1, <1>4, <2>1, <2>3 DEF LastSays
<1> QED
  BY <1>3, <1>4 DEF LastSays, r

LEMMA NewlySaid ==
    ASSUME NEW S, NEW q \in Seq(S), NEW e \in S, NEW m, Concerns(e, m)
    PROVE  /\ ~Silent(Append(q, e), m)
           /\ LastSays(Append(q, e), m, <<e.marks[m]>>)
<1> DEFINE r == Append(q, e)
<1>1. /\ Len(q) \in Nat /\ Len(r) = Len(q) + 1
      /\ r[Len(q) + 1] = e
  OBVIOUS
<1> HIDE DEF r
<1>2. Len(r) \in 1 .. Len(r) /\ r[Len(r)] = e
  BY <1>1
<1>3. ASSUME NEW i \in 1 .. Len(r), \A j \in i + 1 .. Len(r) : ~Concerns(r[j], m)
      PROVE  i = Len(r)
  <2>1. i # Len(r) => Len(r) \in i + 1 .. Len(r)
    BY <1>1
  <2> QED
    BY <1>2, <1>3, <2>1
<1>4. \A i \in 1 .. Len(r) : (\A j \in i + 1 .. Len(r) : ~Concerns(r[j], m)) => r[i] = e
  BY <1>2, <1>3
<1>5. LastSays(r, m, <<e.marks[m]>>)
  BY <1>4 DEF LastSays
<1> QED
  BY <1>2, <1>5 DEF Silent, r

LEMMA Handled ==
    ASSUME NEW S, NEW q \in Seq(S), q # <<>>, NEW m
    PROVE  /\ \A x : LastSays(q, m, x) => LastSays(Tail(q), m, x)
           /\ Silent(q, m) => Silent(Tail(q), m)
           /\ Silent(Tail(q), m) /\ ~Concerns(Head(q), m) => Silent(q, m)
           /\ \A x : LastSays(q, m, x) /\ Silent(Tail(q), m) /\ Concerns(Head(q), m) => x = <<Head(q).marks[m]>>
<1> DEFINE r == Tail(q)
<1>1. /\ Len(q) \in Nat /\ Len(q) > 0 /\ Len(r) = Len(q) - 1
      /\ \A i \in 1 .. Len(q) - 1 : r[i] = q[i + 1]
      /\ Head(q) = q[1]
  OBVIOUS
<1> HIDE DEF r
<1>2. \A i \in 1 .. Len(r) : i + 1 \in 1 .. Len(q) /\ r[i] = q[i + 1]
  BY <1>1
<1>3. \A i \in 1 .. Len(q) : i = 1 \/ (i - 1 \in 1 .. Len(r) /\ r[i - 1] = q[i])
  BY <1>1
<1>4. ASSUME NEW x, LastSays(q, m, x), NEW i \in 1 .. Len(r), Concerns(r[i], m),
             \A j \in i + 1 .. Len(r) : ~Concerns(r[j], m)
      PROVE  x = <<r[i].marks[m]>>
  <2>1. \A j \in i + 2 .. Len(q) : j - 1 \in i + 1 .. Len(r) /\ r[j - 1] = q[j]
    BY <1>1
  <2>2. \A j \in (i + 1) + 1 .. Len(q) : ~Concerns(q[j], m)
    BY <1>4, <2>1
  <2> QED
    BY <1>2, <1>4, <2>2 DEF LastSays
<1>5. ASSUME NEW x, LastSays(q, m, x), Silent(r, m), Concerns(q[1], m)
      PROVE  x = <<q[1].marks[m]>>
  <2>1. \A j \in 1 + 1 .. Len(q) : j - 1 \in 1 .. Len(r) /\ r[j - 1] = q[j]
    BY <1>1
  <2>2. \A j \in 1 + 1 .. Len(q) : ~Concerns(q[j], m)
    BY <1>5, <2>1 DEF Silent
  <2>3. 1 \in 1 .. Len(q)
    BY <1>1
  <2> QED
    BY <1>5, <2>2, <2>3 DEF LastSays
<1>6. Silent(q, m) => Silent(r, m)
  BY <1>2 DEF Silent
<1>7. Silent(r, m) /\ ~Concerns(q[1], m) => Silent(q, m)
  BY <1>3 DEF Silent
<1>8. \A x : LastSays(q, m, x) => LastSays(r, m, x)
  BY <1>4 DEF LastSays
<1> QED
  BY <1>1, <1>5, <1>6, <1>7, <1>8 DEF r

\* A mark the room is told of has its last state in the queue, or shown.
Told(m) == LastSays(queue, m, tracked[m]) /\ (tracked[m] = <<>> => Silent(queue, m))

\* With nothing on its way, the room shows the mark.
Settled(m) ==
    (tracked[m] # <<>> /\ Silent(queue, m) /\ (m = "pin" => tagging = <<>>)) => tracked[m] = <<shown[m]>>

\* The signature has the mute as it is tracked, so that one that changed is announced.
MuteSigned == sig # <<>> => sig[1]["mute"] = (tracked["mute"] = <<TRUE>>)

\* A pin is not said to be Told: a tag's handler sets the tracker while announcements
\* wait.
MarksInv ==
    (part = "marks" /\ ~missed) =>
        /\ Told("mute") /\ Told("unread") /\ MuteSigned
        /\ Settled("mute") /\ Settled("unread") /\ Settled("pin")

LEMMA MarkNames == Marks = {"pin", "mute", "unread"} /\ "pin" \in Marks /\ "mute" \in Marks /\ "unread" \in Marks
BY DEF Marks

LEMMA PinConcerned ==
    ASSUME NEW e \in PortalEvents
    PROVE  AboutPin(e) <=> Concerns(e, "pin")
BY ShowTyped DEF AboutPin, Concerns

\* A state that is there is a Boolean's.
LEMMA OnOff ==
    ASSUME NEW x, x = <<TRUE>> \/ x = <<FALSE>>, NEW b \in BOOLEAN, b <=> x = <<TRUE>>
    PROVE  x = <<b>>
<1>1. CASE b
  <2>1. b = TRUE
    BY <1>1
  <2> QED
    BY <1>1, <2>1
<1>2. CASE ~b
  <2>1. b = FALSE
    BY <1>2
  <2> QED
    BY <1>2, <2>1
<1> QED
  BY <1>1, <1>2

\* A state that is announced is read, and is not the one last known.
LEMMA ChangedState ==
    ASSUME NEW was \in Maybe(BOOLEAN), NEW now \in Maybe(BOOLEAN)
    PROVE  /\ Changed(was, now) => (now = <<TRUE>> \/ now = <<FALSE>>) /\ now # <<>> /\ (was = <<TRUE>>) # (now = <<TRUE>>)
           /\ ~Changed(was, now) /\ now # <<>> => now = was \/ (was = <<>> /\ now = <<FALSE>>)
BY MaybeBoolean DEF Changed

\* MarksInv of the next state, spelled out.
LEMMA MarksInvNext ==
    ASSUME \A m \in {"mute", "unread"} : /\ LastSays(queue', m, tracked'[m])
                                         /\ tracked'[m] = <<>> => Silent(queue', m)
                                         /\ tracked'[m] # <<>> /\ Silent(queue', m) => tracked'[m] = <<shown'[m]>>,
           tracked'["pin"] # <<>> /\ Silent(queue', "pin") /\ tagging' = <<>> => tracked'["pin"] = <<shown'["pin"]>>,
           sig' # <<>> => sig'[1]["mute"] = (tracked'["mute"] = <<TRUE>>)
    PROVE  MarksInv'
<1>1. Told("mute")' /\ Told("unread")'
  BY DEF Told, LastSays, Silent
<1>2. Settled("mute")' /\ Settled("unread")' /\ Settled("pin")'
  BY DEF Settled, Silent
<1>3. MuteSigned'
  BY DEF MuteSigned
<1> QED
  BY <1>1, <1>2, <1>3 DEF MarksInv

LEMMA MarksInvNow ==
    ASSUME MarksInv, part = "marks", ~missed
    PROVE  /\ \A m \in {"mute", "unread"} : /\ LastSays(queue, m, tracked[m])
                                            /\ tracked[m] = <<>> => Silent(queue, m)
                                            /\ tracked[m] # <<>> /\ Silent(queue, m) => tracked[m] = <<shown[m]>>
           /\ tracked["pin"] # <<>> /\ Silent(queue, "pin") /\ tagging = <<>> => tracked["pin"] = <<shown["pin"]>>
           /\ sig # <<>> => sig[1]["mute"] = (tracked["mute"] = <<TRUE>>)
BY DEF MarksInv, Told, Settled, MuteSigned

LEMMA AnnouncedMarks ==
    ASSUME MarksTypes, MarksInv, part = "marks", ~missed, ~missed', Announce
    PROVE  MarksInv'
<1> DEFINE newSig == <<[m \in {"pin", "mute"} |-> StateNow(m) = <<TRUE>>]>>
           Message(S) == [kind |-> "show", marks |-> [m \in S |-> StateNow(m) = <<TRUE>>]]
           event == IF "unread" \in ToTell THEN <<Message({"unread"})>> ELSE <<>>
           resync == IF newSig # sig THEN <<Message(ToTell \ {"unread"})>> ELSE <<>>
           first == queue \o event
<1>1. ToTell \subseteq Marks
  BY DEF ToTell
<1>2. \A S \in SUBSET Marks : /\ Message(S) \in PortalEvents
                              /\ \A m : Concerns(Message(S), m) <=> m \in S
                              /\ \A m \in S : Message(S).marks[m] = (StateNow(m) = <<TRUE>>)
  BY ShowIn DEF Concerns
<1>3. queue \in Seq(PortalEvents)
  BY DEF MarksTypes
<1>4. /\ queue' = first \o resync
      /\ tracked' = [m \in Marks |-> StateNow(m)] /\ sig' = newSig
      /\ UNCHANGED <<shown, tagging>>
  BY DEF Announce
<1>5. /\ \A m \in Marks : tracked[m] = <<>> /\ listed[m] = <<FALSE>> => ~shown[m]
      /\ newSig = sig => "pin" \notin ToTell
  BY DEF Announce, Diverges
<1>6. \A m \in Marks : /\ m \in ToTell => (StateNow(m) = <<TRUE>> \/ StateNow(m) = <<FALSE>>) /\ StateNow(m) # <<>>
                                          /\ (tracked[m] = <<TRUE>>) # (StateNow(m) = <<TRUE>>)
                       /\ m \notin ToTell => StateNow(m) = tracked[m]
                                             \/ (tracked[m] = <<>> /\ StateNow(m) = <<FALSE>> /\ ~shown[m])
  <2> SUFFICES ASSUME NEW m \in Marks
               PROVE  /\ m \in ToTell => (StateNow(m) = <<TRUE>> \/ StateNow(m) = <<FALSE>>) /\ StateNow(m) # <<>>
                                          /\ (tracked[m] = <<TRUE>>) # (StateNow(m) = <<TRUE>>)
                      /\ m \notin ToTell => StateNow(m) = tracked[m]
                                             \/ (tracked[m] = <<>> /\ StateNow(m) = <<FALSE>> /\ ~shown[m])
    OBVIOUS
  <2>1. tracked[m] \in Maybe(BOOLEAN) /\ listed[m] \in Maybe(BOOLEAN)
    BY DEF MarksTypes
  <2>2. m \in ToTell <=> Changed(tracked[m], listed[m])
    BY DEF ToTell
  <2>3. ASSUME m \in ToTell
        PROVE  (StateNow(m) = <<TRUE>> \/ StateNow(m) = <<FALSE>>) /\ StateNow(m) # <<>>
               /\ (tracked[m] = <<TRUE>>) # (StateNow(m) = <<TRUE>>)
    <3>1. /\ listed[m] = <<TRUE>> \/ listed[m] = <<FALSE>>
          /\ listed[m] # <<>>
          /\ (tracked[m] = <<TRUE>>) # (listed[m] = <<TRUE>>)
      BY <2>1, <2>2, <2>3, ChangedState
    <3>2. StateNow(m) = listed[m]
      BY <3>1 DEF StateNow
    <3> QED
      BY <3>1, <3>2
  <2>4. ASSUME m \notin ToTell
        PROVE  StateNow(m) = tracked[m] \/ (tracked[m] = <<>> /\ StateNow(m) = <<FALSE>> /\ ~shown[m])
    BY <1>5, <2>1, <2>2, <2>4, ChangedState DEF StateNow
  <2> QED
    BY <2>3, <2>4
<1> DEFINE E1 == Message({"unread"})
           E2 == Message(ToTell \ {"unread"})
<1>7. /\ E1 \in PortalEvents /\ \A m : Concerns(E1, m) <=> m = "unread"
      /\ E1.marks["unread"] = (StateNow("unread") = <<TRUE>>)
      /\ E2 \in PortalEvents /\ \A m : Concerns(E2, m) <=> m \in ToTell /\ m # "unread"
      /\ \A m \in ToTell : m # "unread" => E2.marks[m] = (StateNow(m) = <<TRUE>>)
  <2>1. {"unread"} \in SUBSET Marks /\ ToTell \ {"unread"} \in SUBSET Marks
    BY <1>1, MarkNames
  <2> HIDE DEF Message
  <2>2. /\ E1 \in PortalEvents /\ \A m : Concerns(E1, m) <=> m \in {"unread"}
        /\ E1.marks["unread"] = (StateNow("unread") = <<TRUE>>)
    BY <1>2, <2>1
  <2>3. /\ E2 \in PortalEvents /\ \A m : Concerns(E2, m) <=> m \in ToTell \ {"unread"}
        /\ \A m \in ToTell \ {"unread"} : E2.marks[m] = (StateNow(m) = <<TRUE>>)
    BY <1>2, <2>1
  <2> QED
    BY <2>2, <2>3
<1>8. /\ first = IF "unread" \in ToTell THEN Append(queue, E1) ELSE queue
      /\ queue' = IF newSig # sig THEN Append(first, E2) ELSE first
  <2>1. \A e : queue \o <<e>> = Append(queue, e) /\ queue \o <<>> = queue
    BY <1>3
  <2> HIDE DEF E1, E2, Message
  <2>2. first \in Seq(PortalEvents) /\ first = IF "unread" \in ToTell THEN Append(queue, E1) ELSE queue
    <3>1. first = IF "unread" \in ToTell THEN Append(queue, E1) ELSE queue
      BY <2>1 DEF E1
    <3> HIDE DEF first
    <3> QED
      BY <3>1, <1>3, <1>7, OneMore
  <2> HIDE DEF first
  <2>3. \A e : first \o <<e>> = Append(first, e) /\ first \o <<>> = first
    BY <2>2
  <2> QED
    BY <1>4, <2>2, <2>3 DEF E2
<1>9. first \in Seq(PortalEvents)
  <2> HIDE DEF E1, E2, Message, first
  <2> QED
    BY <1>3, <1>7, <1>8, OneMore
<1>10. /\ newSig[1]["mute"] = (StateNow("mute") = <<TRUE>>)
  OBVIOUS
<1>11. "mute" \in ToTell => newSig # sig
  <2>1. newSig # <<>>
    OBVIOUS
  <2> HIDE DEF newSig
  <2>2. "mute" \in ToTell => (tracked["mute"] = <<TRUE>>) # (StateNow("mute") = <<TRUE>>)
    BY <1>6, MarkNames
  <2>3. sig # <<>> => sig[1]["mute"] = (tracked["mute"] = <<TRUE>>)
    BY MarksInvNow
  <2> QED
    BY <1>10, <2>1, <2>2, <2>3
<1> HIDE DEF E1, E2, Message, first, newSig, event, resync
<1>12. \A m \in Marks : tracked'[m] = StateNow(m)
  BY <1>4
<1>13. ASSUME NEW m \in {"mute", "unread"}
       PROVE  /\ LastSays(queue', m, tracked'[m])
              /\ tracked'[m] = <<>> => Silent(queue', m)
              /\ tracked'[m] # <<>> /\ Silent(queue', m) => tracked'[m] = <<shown'[m]>>
  <2>0. m \in Marks /\ shown'[m] = shown[m] /\ shown[m] \in BOOLEAN
    BY <1>4, <1>13, MarkNames DEF MarksTypes
  <2>1. CASE m \notin ToTell
    <3>1. ~Concerns(E1, m) \/ "unread" \notin ToTell
      BY <1>7, <2>1
    <3>2. ~Concerns(E2, m)
      BY <1>7, <2>1
    <3>3. (Silent(first, m) <=> Silent(queue, m)) /\ \A x : LastSays(queue, m, x) => LastSays(first, m, x)
      BY <1>3, <1>7, <1>8, <3>1, Unconcerned
    <3>4. (Silent(queue', m) <=> Silent(first, m)) /\ \A x : LastSays(first, m, x) => LastSays(queue', m, x)
      BY <1>7, <1>8, <1>9, <3>2, Unconcerned
    <3>5. CASE StateNow(m) = tracked[m]
      BY <1>12, <2>0, <3>3, <3>4, <3>5, MarksInvNow
    <3>6. CASE tracked[m] = <<>> /\ StateNow(m) = <<FALSE>> /\ ~shown[m]
      <4>1. Silent(queue', m)
        BY <3>3, <3>4, <3>6, MarksInvNow
      <4>2. LastSays(queue', m, tracked'[m])
        BY <4>1 DEF Silent, LastSays
      <4>3. tracked'[m] = <<FALSE>> /\ shown'[m] = FALSE
        BY <1>12, <2>0, <3>6
      <4> QED
        BY <4>1, <4>2, <4>3
    <3> QED
      BY <1>6, <2>0, <2>1, <3>5, <3>6
  <2>2. CASE m \in ToTell /\ m = "unread"
    <3>1. first = Append(queue, E1) /\ Concerns(E1, m) /\ ~Concerns(E2, m)
      BY <1>7, <1>8, <2>2
    <3>2. ~Silent(first, m) /\ LastSays(first, m, <<E1.marks[m]>>)
      BY <1>3, <1>7, <3>1, NewlySaid
    <3>3. ~Silent(queue', m) /\ LastSays(queue', m, <<E1.marks[m]>>)
      BY <1>7, <1>8, <1>9, <3>1, <3>2, Unconcerned
    <3>4. tracked'[m] = <<E1.marks[m]>> /\ tracked'[m] # <<>>
      <4>1. E1.marks[m] = (StateNow(m) = <<TRUE>>)
        BY <1>7, <2>2
      <4>2. E1.marks[m] \in BOOLEAN /\ (E1.marks[m] <=> StateNow(m) = <<TRUE>>)
        BY <4>1
      <4> QED
        BY <1>6, <1>12, <2>0, <2>2, <4>2, OnOff
    <3> QED
      BY <3>3, <3>4
  <2>3. CASE m \in ToTell /\ m = "mute"
    <3>1. queue' = Append(first, E2) /\ Concerns(E2, m)
      BY <1>7, <1>8, <1>11, <2>3
    <3>2. ~Silent(queue', m) /\ LastSays(queue', m, <<E2.marks[m]>>)
      BY <1>7, <1>9, <3>1, NewlySaid
    <3>3. tracked'[m] = <<E2.marks[m]>> /\ tracked'[m] # <<>>
      <4>1. E2.marks[m] = (StateNow(m) = <<TRUE>>)
        BY <1>7, <2>3
      <4>2. E2.marks[m] \in BOOLEAN /\ (E2.marks[m] <=> StateNow(m) = <<TRUE>>)
        BY <4>1
      <4> QED
        BY <1>6, <1>12, <2>0, <2>3, <4>2, OnOff
    <3> QED
      BY <3>2, <3>3
  <2> QED
    BY <2>1, <2>2, <2>3
<1>14. tracked'["pin"] # <<>> /\ Silent(queue', "pin") /\ tagging' = <<>> => tracked'["pin"] = <<shown'["pin"]>>
  <2>0. "pin" \in Marks /\ shown'["pin"] = shown["pin"] /\ shown["pin"] \in BOOLEAN /\ tagging' = tagging
    BY <1>4, MarkNames DEF MarksTypes
  <2>1. CASE "pin" \in ToTell
    <3>1. queue' = Append(first, E2) /\ Concerns(E2, "pin")
      BY <1>5, <1>7, <1>8, <2>1 DEF newSig
    <3>2. ~Silent(queue', "pin")
      BY <1>7, <1>9, <3>1, NewlySaid
    <3> QED
      BY <3>2
  <2>2. CASE "pin" \notin ToTell
    <3>1. ~Concerns(E1, "pin") /\ ~Concerns(E2, "pin")
      BY <1>7, <2>2
    <3>2. Silent(first, "pin") <=> Silent(queue, "pin")
      BY <1>3, <1>7, <1>8, <3>1, Unconcerned
    <3>3. Silent(queue', "pin") <=> Silent(first, "pin")
      BY <1>7, <1>8, <1>9, <3>1, Unconcerned
    <3>4. CASE StateNow("pin") = tracked["pin"]
      BY <1>12, <2>0, <3>2, <3>3, <3>4, MarksInvNow
    <3>5. CASE StateNow("pin") = <<FALSE>> /\ ~shown["pin"]
      <4>1. tracked'["pin"] = <<FALSE>> /\ shown'["pin"] = FALSE
        BY <1>12, <2>0, <3>5
      <4> QED
        BY <4>1
    <3> QED
      BY <1>6, <2>0, <2>2, <3>4, <3>5
  <2> QED
    BY <2>1, <2>2
<1>15. sig' # <<>> => sig'[1]["mute"] = (tracked'["mute"] = <<TRUE>>)
  BY <1>4, <1>10, <1>12, MarkNames
<1> QED
  BY <1>13, <1>14, <1>15, MarksInvNext

\* A tag in the queue is about the pin.
LEMMA TagsWait ==
    ASSUME NEW q \in Seq(PortalEvents), ~NoMoreTags(q)
    PROVE  ~Silent(q, "pin")
BY DEF NoMoreTags, Silent, Concerns

LEMMA MarksKept ==
    ASSUME MarksTypes, MarksInv, part = "marks", missed \in BOOLEAN, ~missed', MarksNext
    PROVE  MarksInv'
<1>0. ~missed
  BY LossesKnown
<1>1. queue \in Seq(PortalEvents) /\ shown \in [Marks -> BOOLEAN] /\ tracked \in [Marks -> Maybe(BOOLEAN)]
  BY DEF MarksTypes
<1>2. /\ \A m \in {"mute", "unread"} : /\ LastSays(queue, m, tracked[m])
                                       /\ tracked[m] = <<>> => Silent(queue, m)
                                       /\ tracked[m] # <<>> /\ Silent(queue, m) => tracked[m] = <<shown[m]>>
      /\ tracked["pin"] # <<>> /\ Silent(queue, "pin") /\ tagging = <<>> => tracked["pin"] = <<shown["pin"]>>
      /\ sig # <<>> => sig[1]["mute"] = (tracked["mute"] = <<TRUE>>)
  BY <1>0, MarksInvNow
<1>3. \A m \in {"mute", "unread"} : m \in Marks /\ m # "pin"
  BY MarkNames
<1>4. CASE MarkInTeams \/ ListConversations \/ FetchPinnedChats
  <2>1. UNCHANGED <<shown, tracked, sig, queue, tagging>>
    BY <1>4 DEF MarkInTeams, ListConversations, FetchPinnedChats
  <2> QED
    BY <1>2, <2>1, MarksInvNext
<1>5. CASE Announce
  BY <1>0, <1>5, AnnouncedMarks
<1>6. CASE TagRoom
  <2> DEFINE e == [kind |-> "tag", on |-> ~shown["pin"]]
  <2>1. e \in PortalEvents /\ Concerns(e, "pin") /\ \A m \in {"mute", "unread"} : ~Concerns(e, m)
    BY TagIn DEF Concerns
  <2> HIDE DEF e
  <2>2. /\ queue' = Append(queue, e) /\ UNCHANGED <<tracked, sig, tagging>>
        /\ \A m \in {"mute", "unread"} : shown'[m] = shown[m]
    BY <1>1, <1>3, <1>6 DEF TagRoom, e
  <2>3. ~Silent(queue', "pin")
    BY <1>1, <2>1, <2>2, NewlySaid
  <2>4. \A m \in {"mute", "unread"} : /\ Silent(queue', m) <=> Silent(queue, m)
                                      /\ \A x : LastSays(queue, m, x) => LastSays(queue', m, x)
    BY <1>1, <2>1, <2>2, Unconcerned
  <2> QED
    BY <1>2, <2>2, <2>3, <2>4, MarksInvNext
<1>7. CASE ShowMarks
  <2> DEFINE told == Head(queue).marks
             rest == Tail(queue)
             echo == [kind |-> "tag", on |-> told["pin"]]
  <2>1. queue # <<>> /\ Head(queue) \in PortalEvents /\ Head(queue).kind = "show" /\ tagging = <<>>
    BY <1>1, <1>7 DEF ShowMarks
  <2>2. DOMAIN told \subseteq Marks /\ \A m \in DOMAIN told : told[m] \in BOOLEAN
    BY <2>1, ShowTyped
  <2>3. \A m : Concerns(Head(queue), m) <=> m \in DOMAIN told
    BY <2>1 DEF Concerns
  <2>4. shown' = [m \in Marks |-> IF m \in DOMAIN told THEN told[m] ELSE shown[m]]
    BY <1>7 DEF ShowMarks
  <2>5. UNCHANGED <<tracked, sig, tagging>>
    BY <1>7 DEF ShowMarks
  <2>6. queue' = rest \/ ("pin" \in DOMAIN told /\ queue' = Append(rest, echo))
    BY <1>7, MarkNames DEF ShowMarks
  <2>7. rest \in Seq(PortalEvents)
    BY <1>1, <2>1
  <2>8. "pin" \in DOMAIN told => echo \in PortalEvents /\ Concerns(echo, "pin") /\ \A m \in {"mute", "unread"} : ~Concerns(echo, m)
    BY <2>2, TagIn DEF Concerns
  <2>9. /\ \A m, x : LastSays(queue, m, x) => LastSays(rest, m, x)
        /\ \A m : Silent(queue, m) => Silent(rest, m)
        /\ \A m : Silent(rest, m) /\ ~Concerns(Head(queue), m) => Silent(queue, m)
        /\ \A m, x : LastSays(queue, m, x) /\ Silent(rest, m) /\ Concerns(Head(queue), m) => x = <<Head(queue).marks[m]>>
    BY <1>1, <2>1, Handled
  <2>10. queue' \in Seq(PortalEvents)
    <3> HIDE DEF told, rest, echo
    <3> QED
      BY <2>6, <2>7, <2>8, OneMore
  <2>11. ("pin" \in DOMAIN told /\ Silent(queue', "pin")) => tracked["pin"] = <<told["pin"]>>
    <3>1. Silent(queue', "pin") <=> \A i \in 1 .. Len(queue') : ~AboutPin(queue'[i])
      <4>1. \A i \in 1 .. Len(queue') : queue'[i] \in PortalEvents
        BY <2>10
      <4> QED
        BY <4>1, PinConcerned DEF Silent
    <3> QED
      BY <1>7, <3>1 DEF ShowMarks, Diverges
  <2> HIDE DEF told, rest, echo
  <2>12. ASSUME NEW m \in {"mute", "unread"}
         PROVE  /\ LastSays(queue', m, tracked'[m])
                /\ tracked'[m] = <<>> => Silent(queue', m)
                /\ tracked'[m] # <<>> /\ Silent(queue', m) => tracked'[m] = <<shown'[m]>>
    <3>1. /\ Silent(queue', m) <=> Silent(rest, m)
          /\ \A x : LastSays(rest, m, x) => LastSays(queue', m, x)
      BY <2>6, <2>7, <2>8, Unconcerned
    <3>2. ASSUME Silent(rest, m), tracked[m] # <<>>
          PROVE  tracked[m] = <<shown'[m]>>
      <4>1. CASE m \in DOMAIN told
        <5>1. tracked[m] = <<told[m]>>
          BY <1>2, <2>3, <2>9, <3>2, <4>1 DEF told
        <5> QED
          BY <1>3, <2>4, <4>1, <5>1
      <4>2. CASE m \notin DOMAIN told
        <5>1. tracked[m] = <<shown[m]>>
          BY <1>2, <2>3, <2>9, <3>2, <4>2
        <5> QED
          BY <1>3, <2>4, <4>2, <5>1
      <4> QED
        BY <4>1, <4>2
    <3> QED
      BY <1>2, <2>5, <2>9, <3>1, <3>2
  <2>13. tracked'["pin"] # <<>> /\ Silent(queue', "pin") /\ tagging' = <<>> => tracked'["pin"] = <<shown'["pin"]>>
    <3> SUFFICES ASSUME tracked["pin"] # <<>>, Silent(queue', "pin")
                 PROVE  tracked["pin"] = <<shown'["pin"]>>
      BY <2>5
    <3>1. CASE "pin" \in DOMAIN told
      <4>1. shown'["pin"] = told["pin"]
        BY <2>4, <3>1, MarkNames
      <4> QED
        BY <2>11, <3>1, <4>1
    <3>2. CASE "pin" \notin DOMAIN told
      <4>1. shown'["pin"] = shown["pin"]
        BY <2>4, <3>2, MarkNames
      <4>2. Silent(queue, "pin")
        BY <2>3, <2>6, <2>9, <3>2
      <4> QED
        BY <1>2, <2>1, <4>1, <4>2
    <3> QED
      BY <3>1, <3>2
  <2> QED
    BY <1>2, <2>5, <2>12, <2>13, MarksInvNext
<1>8. CASE HandleRoomTag
  <2> DEFINE rest == Tail(queue)
             on == Head(queue).on
  <2>1. queue # <<>> /\ Head(queue).kind = "tag" /\ queue' = rest /\ UNCHANGED <<shown, tracked, sig>>
    BY <1>8 DEF HandleRoomTag
  <2>2. \A m \in {"mute", "unread"} : ~Concerns(Head(queue), m)
    BY <2>1 DEF Concerns
  <2>3. /\ \A m, x : LastSays(queue, m, x) => LastSays(rest, m, x)
        /\ \A m : Silent(queue, m) => Silent(rest, m)
        /\ \A m : Silent(rest, m) /\ ~Concerns(Head(queue), m) => Silent(queue, m)
    BY <1>1, <2>1, Handled
  <2>4. rest \in Seq(PortalEvents)
    BY <1>1, <2>1
  <2>5. \/ tagging' = <<on>>
        \/ tracked["pin"] = <<on>> /\ (shown["pin"] = on \/ ~NoMoreTags(rest))
    BY <1>8 DEF HandleRoomTag, Diverges
  <2> HIDE DEF rest, on
  <2>6. Silent(rest, "pin") /\ tagging' = <<>> => tracked["pin"] = <<shown["pin"]>>
    <3>1. <<on>> # <<>>
      OBVIOUS
    <3> QED
      BY <2>4, <2>5, <3>1, TagsWait
  <2> QED
    BY <1>2, <2>1, <2>2, <2>3, <2>6, MarksInvNext
<1>9. CASE SetChatPinned
  <2>1. tagging # <<>> /\ tagging = <<tagging[1]>> /\ tagging[1] \in BOOLEAN
    BY <1>9 DEF SetChatPinned, MarksTypes, Maybe
  <2>2. /\ tracked' = [tracked EXCEPT !["pin"] = tagging]
        /\ shown["pin"] = tagging[1] \/ ~NoMoreTags(queue)
        /\ UNCHANGED <<shown, sig, queue>>
    BY <1>9 DEF SetChatPinned, Diverges
  <2>3. Silent(queue, "pin") => shown["pin"] = tagging[1]
    BY <1>1, <2>2, TagsWait
  <2>4. tracked'["pin"] = tagging /\ \A m \in {"mute", "unread"} : tracked'[m] = tracked[m]
    BY <1>1, <1>3, <2>2, MarkNames
  <2>5. Silent(queue, "pin") => tracked'["pin"] = <<shown["pin"]>>
    BY <2>1, <2>3, <2>4
  <2> QED
    BY <1>2, <2>2, <2>4, <2>5, MarksInvNext
<1> QED
  BY <1>4, <1>5, <1>6, <1>7, <1>8, <1>9 DEF MarksNext

LEMMA MarksInvStep ==
    ASSUME ChatTypeInv, MarksInv, [ChatNext]_chatVars
    PROVE  MarksInv'
<1>0. MarksTypes /\ missed \in BOOLEAN
  BY DEF ChatTypeInv, CountTypes
<1>1. CASE part = "marks" /\ MarksNext /\ UNCHANGED <<part, restarts, bridged, pinsVars, savedVars>>
  <2>1. CASE missed'
    BY <2>1 DEF MarksInv
  <2>2. CASE ~missed'
    BY <1>0, <1>1, <2>2, MarksKept
  <2> QED
    BY <2>1, <2>2
<1>2. CASE part # "marks" /\ UNCHANGED part
  BY <1>2 DEF MarksInv
<1>3. CASE Restart
  <2>1. /\ tracked' = [m \in Marks |-> <<>>] /\ sig' = <<>> /\ queue' = <<>>
    BY <1>3 DEF Restart, MarksRestart
  <2>2. \A m \in Marks : tracked'[m] = <<>>
    BY <2>1
  <2>3. \A m, x : Silent(<<>>, m) /\ LastSays(<<>>, m, x)
    BY DEF Silent, LastSays
  <2> QED
    BY <2>1, <2>2, <2>3, MarkNames, MarksInvNext
<1>4. CASE UNCHANGED chatVars
  <2>1. UNCHANGED <<part, missed, shown, tracked, sig, queue, tagging>>
    BY <1>4 DEF chatVars, marksVars
  <2>2. CASE part = "marks" /\ ~missed
    BY <2>1, <2>2, MarksInvNow, MarksInvNext
  <2>3. CASE ~(part = "marks" /\ ~missed)
    BY <2>1, <2>3 DEF MarksInv
  <2> QED
    BY <2>2, <2>3
<1> QED
  BY <1>1, <1>2, <1>3, <1>4 DEF ChatNext

\* When the portal has worked off its queue, the room shows each mark as
\* the tracker has it.
MarksAtRest ==
    (part = "marks" /\ ~missed /\ queue = <<>> /\ tagging = <<>>)
        => \A m \in Marks : tracked[m] # <<>> => tracked[m] = <<shown[m]>>

\* What was announced of a mark, tagged in the room or written to Teams
\* ends with the room and the tracker agreeing, in whatever order passes,
\* tags and their echoes are worked off (refreshThreads, HandleRoomTag),
\* unless one of the named losses occurred.
THEOREM MarksStayShown == ChatSpec => []MarksAtRest
<1>1. ChatInit => ChatTypeInv /\ MarksInv
  <2> SUFFICES ASSUME ChatInit PROVE ChatTypeInv /\ MarksInv
    OBVIOUS
  <2>1. tracked = [m \in Marks |-> <<>>] /\ sig = <<>> /\ queue = <<>>
    BY DEF ChatInit, MarksInit
  <2>2. \A m \in Marks : tracked[m] = <<>>
    BY <2>1
  <2>3. \A m, x : Silent(<<>>, m) /\ LastSays(<<>>, m, x)
    BY DEF Silent, LastSays
  <2>4. MarksInv
    BY <2>1, <2>2, <2>3, MarkNames DEF MarksInv, Told, Settled, MuteSigned
  <2> QED
    BY <2>4, ChatTypesStart
<1>2. ChatTypeInv /\ MarksInv /\ [ChatNext]_chatVars => (ChatTypeInv /\ MarksInv)'
  BY ChatTypesStep, MarksInvStep
<1>3. MarksInv => MarksAtRest
  <2>1. \A m : Silent(<<>>, m)
    BY DEF Silent
  <2> QED
    BY <2>1, MarkNames DEF MarksInv, MarksAtRest, Settled
<1> QED
  BY <1>1, <1>2, <1>3, PTL DEF ChatSpec
===============================================================================
