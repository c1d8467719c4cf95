------------------------------- MODULE PollLoop -------------------------------
(***************************************************************************)
(* The poll loop of one login (pkg/connector/message_poller.go,            *)
(* pollDueThreads and pollPass; poll_wake.go; poll_limits.go): when each   *)
(* thread is polled, what wakes it early, and what a rate limit, a failure *)
(* or a deleted thread does to the schedule.                               *)
(*                                                                         *)
(* One goroutine sleeps and makes passes: discovery if due, the recent-    *)
(* conversations check if due, then every due thread.  A pass takes the    *)
(* time once, at its start, and schedules everything from it, however long *)
(* its requests take.  So timers here are kept relative to the last pass's *)
(* start while a pass runs, and brought up to date when it ends.           *)
(***************************************************************************)
EXTENDS PollBackoff, Sequences, FiniteSets

CONSTANTS
    Thread,            \* threads the user may be in
    Listed,            \* the ones the database lists at start
    BackstopCap,       \* pollBackstopIdleCap
    ActiveCap,         \* activeThreadIdleCap
    MaxSleep,          \* pollLoopMaxSleep
    ActivityInterval,  \* activityCheckInterval
    ActivityMax,       \* activityFailureMax
    DiscoveryInterval, \* threadDiscoveryInterval and discoveryIntervalWatched
    DiscoveryGap,      \* discoveryMinGap
    GoneRecheck,       \* goneThreadRecheck
    Pauses,            \* pauses Teams may ask for with a 429
    WakeQueueSize,     \* wakeQueueSize
    MaxFailures,       \* bound: failures in a row
    MaxElapsed         \* bound: time units one pass takes

ASSUME LoopAssumption ==
    /\ Listed \subseteq Thread
    /\ {BackstopCap, ActiveCap, MaxSleep, ActivityInterval, DiscoveryInterval, GoneRecheck}
          \subseteq Nat \ {0}
    /\ {ActivityMax, DiscoveryGap, WakeQueueSize, MaxFailures, MaxElapsed} \subseteq Nat
    /\ Pauses \subseteq Nat \ {0}
    /\ MaxSleep <= GoneRecheck

VARIABLES
    chats,     \* Teams: threads that exist
    unread,    \* Teams: threads with a message no poll has returned
    known,     \* database: the threads ListForLogin lists
    pc,        \* where the loop is
    todo,      \* threads the pass has still to look at
    elapsed,   \* time since the pass began
    wake,      \* nextWake
    states,    \* threads with a pollState
    due,       \* their nextPoll, as time to go
    backoff,   \* their PollBackoff
    throttled, \* throttledUntil, as time to go
    discovery, \* nextDiscovery, as time to go
    gap,       \* what is left of discoveryMinGap since lastDiscovery
    activity,  \* nextActivity, as time to go
    activityFailures,
    changed,   \* threads whose newest message is not the one in lastSeen
    primed,    \* lastSeen is filled
    watching,  \* activityUp
    wakeups    \* the pollWake channel

teamsVars == <<chats, unread>>
threadVars == <<states, due, backoff>>
checkVars == <<activity, activityFailures, changed, primed, watching>>
vars == <<teamsVars, known, pc, todo, elapsed, wake, threadVars, throttled, discovery, gap,
          checkVars, wakeups>>

Init ==
    /\ chats = Listed
    /\ unread = {}
    /\ known = Listed
    /\ pc = "asleep"
    /\ todo = {}
    /\ elapsed = 0
    /\ wake = 0
    /\ states = Listed
    /\ due = [t \in Thread |-> 0]
    /\ backoff = [t \in Thread |-> Fresh]
    /\ throttled = 0
    /\ discovery \in {0, DiscoveryInterval}
    /\ gap = 0
    /\ activity = 0
    /\ activityFailures = 0
    /\ changed = Listed
    /\ primed = FALSE
    /\ watching = FALSE
    /\ wakeups = <<>>

-----------------------------------------------------------------------------
(* Sleeping and waking *)

\* A name ending in an underscore and a word is a deliberately wrong form of the
\* definition after it, against which the properties are tried.
TimeToGo_Unclamped(timer) == timer - elapsed
TimeToGo(timer) == IF timer > elapsed THEN timer - elapsed ELSE 0

\* pollPass returns w, when the loop should wake next.
EndPass(w) ==
    /\ pc' = "asleep"
    /\ todo' = {}
    /\ elapsed' = 0
    /\ wake' = TimeToGo(w)

\* The timers as they stand at the pass's end, given what the pass set.
Settle(d, thr, dis, g, act) ==
    /\ due' = [t \in Thread |-> TimeToGo(d[t])]
    /\ throttled' = TimeToGo(thr)
    /\ discovery' = TimeToGo(dis)
    /\ gap' = TimeToGo(g)
    /\ activity' = TimeToGo(act)

\* The loop goes round: while throttled it sleeps on, otherwise a pass runs.
GoRound ==
    IF throttled > 0
    THEN wake' = throttled /\ UNCHANGED pc
    ELSE pc' = "discovery" /\ UNCHANGED wake

\* The sleep is over.
StartPass ==
    /\ pc = "asleep"
    /\ wake = 0
    /\ GoRound
    /\ UNCHANGED <<teamsVars, known, todo, elapsed, threadVars, throttled, discovery, gap,
                   checkVars, wakeups>>

\* applyWakeup makes the threads of S that have a state due at once, at the
\* fastest cadence.
ApplyWakeup(S, d) == [t \in Thread |-> IF t \in S \cap states THEN 0 ELSE d[t]]
Hasten(S) == [t \in Thread |-> IF t \in S \cap states THEN OnSuccess(backoff[t]) ELSE backoff[t]]

\* The loop takes every queued wakeup, and goes round.
TakeWakeups ==
    LET S == {wakeups[i] : i \in 1 .. Len(wakeups)} IN
    /\ pc = "asleep"
    /\ wakeups # <<>>
    /\ wakeups' = <<>>
    /\ due' = ApplyWakeup(S, due)
    /\ backoff' = Hasten(S)
    /\ GoRound
    /\ UNCHANGED <<teamsVars, known, todo, elapsed, states, throttled, discovery, gap,
                   checkVars>>

\* requestPoll, after an own send or a long-poll notification: the wakeup is
\* dropped if the channel is full.
RequestPoll(t) ==
    /\ t \in known
    /\ wakeups' = IF Len(wakeups) < WakeQueueSize THEN Append(wakeups, t) ELSE wakeups
    /\ UNCHANGED <<teamsVars, known, pc, todo, elapsed, wake, threadVars, throttled,
                   discovery, gap, checkVars>>

-----------------------------------------------------------------------------
(* A pass's head: discovery and the recent-conversations check *)

\* throttle: a 429 asking for a pause of d pauses all polling, from the pass's
\* start; never for less than an earlier one.
Throttle(d) == throttled' = IF d > throttled THEN d ELSE throttled

\* refreshThreads lists the user's chats and stores them, fails, or is told to
\* wait; the next one is scheduled whatever the answer.
Discover ==
    /\ pc = "discovery"
    /\ discovery = 0
    /\ \/ known' = known \cup chats /\ UNCHANGED <<throttled>>
       \/ UNCHANGED <<known, throttled>>
       \/ \E d \in Pauses : Throttle(d) /\ UNCHANGED known
    /\ discovery' = DiscoveryInterval
    /\ gap' = DiscoveryGap
    /\ pc' = "activity"
    /\ UNCHANGED <<chats, unread, todo, elapsed, wake, threadVars, checkVars, wakeups>>

SkipDiscovery ==
    /\ pc = "discovery"
    /\ discovery > 0
    /\ pc' = "activity"
    /\ UNCHANGED <<teamsVars, known, todo, elapsed, wake, threadVars, throttled, discovery,
                   gap, checkVars, wakeups>>

\* activityRetryDelay.
ActivityRetryDelay(n) == Lesser(ActivityInterval * 2^Lesser(n, 6), ActivityMax)

\* checkActivity succeeds, listing the threads of seen (the page is limited).  The
\* first check only fills lastSeen; later, a listed thread that changed is woken,
\* and one without a state pulls discovery forward, though not within the gap.
CheckActivity ==
    /\ pc = "activity"
    /\ activity = 0
    /\ \E seen \in SUBSET chats :
          LET news == IF primed THEN seen \cap changed ELSE {} IN
          /\ due' = ApplyWakeup(news, due)
          /\ backoff' = Hasten(news)
          /\ discovery' = IF gap = 0 /\ ~(news \subseteq states) THEN 0 ELSE discovery
          /\ changed' = changed \ seen
          /\ primed' = (primed \/ seen # {})
          /\ watching' = (seen # {})
    /\ activityFailures' = 0
    /\ activity' = ActivityInterval
    /\ pc' = "list"
    /\ UNCHANGED <<teamsVars, known, todo, elapsed, wake, states, throttled, gap,
                   wakeups>>

\* The check fails, or is told to wait: it is spaced out.  Without a token nothing
\* is asked, and what was known of the watch stays.
ActivityFails ==
    /\ pc = "activity"
    /\ activity = 0
    /\ activityFailures' = Lesser(activityFailures + 1, MaxFailures)
    /\ activity' = ActivityRetryDelay(activityFailures')
    /\ watching' \in {FALSE, watching}
    /\ \/ UNCHANGED <<throttled>>
       \/ \E d \in Pauses : Throttle(d)
    /\ pc' = "list"
    /\ UNCHANGED <<chats, unread, known, todo, elapsed, wake, threadVars, discovery, gap,
                   changed, primed, wakeups>>

SkipActivity ==
    /\ pc = "activity"
    /\ activity > 0
    /\ pc' = "list"
    /\ UNCHANGED <<teamsVars, known, todo, elapsed, wake, threadVars, throttled, discovery,
                   gap, checkVars, wakeups>>

-----------------------------------------------------------------------------
(* A pass's threads *)

\* Polling is paused: the pass ends here.
PausePass ==
    /\ pc = "list"
    /\ throttled > 0
    /\ EndPass(throttled)
    /\ Settle(due, throttled, discovery, gap, activity)
    /\ UNCHANGED <<teamsVars, known, states, backoff, activityFailures, changed, primed,
                   watching, wakeups>>

ListThreads_AtStart ==
    /\ pc = "list"
    /\ throttled = 0
    /\ wake' = Lesser(MaxSleep, Lesser(activity, discovery))
    /\ todo' = states
    /\ pc' = "threads"
    /\ UNCHANGED <<teamsVars, known, elapsed, threadVars, throttled, discovery, gap,
                   checkVars, wakeups>>

\* ListForLogin: a listed thread without a state gets one, due now, when it is
\* looked at.
ListThreads ==
    /\ pc = "list"
    /\ throttled = 0
    /\ wake' = Lesser(MaxSleep, Lesser(activity, discovery))
    /\ todo' = known
    /\ pc' = "threads"
    /\ UNCHANGED <<teamsVars, known, elapsed, threadVars, throttled, discovery, gap,
                   checkVars, wakeups>>

NextWake_Unchanged(t, d) == wake

\* The thread's next poll may be when the loop must wake.
NextWake(t, d) == Lesser(wake, d)

\* The thread is not due.
SkipThread(t) ==
    /\ pc = "threads"
    /\ t \in todo
    /\ due[t] > 0
    /\ todo' = todo \ {t}
    /\ wake' = NextWake(t, due[t])
    /\ UNCHANGED <<teamsVars, known, pc, elapsed, threadVars, throttled, discovery, gap,
                   checkVars, wakeups>>

\* idleCapFor; whether the thread had an own send of late is left open.
IdleCaps == {ActiveCap, IF watching THEN BackstopCap ELSE IdleCap}

\* The thread's backoff after an answer, a watched idle thread skipping the ramp.
AfterPoll(t, answer, idleCap) ==
    LET b == ApplyPollBackoff(backoff[t], answer, idleCap) IN
    IF answer = "idle" /\ idleCap = BackstopCap THEN [b EXCEPT !.delay = BackstopCap] ELSE b

\* pollThread is answered, with messages, without, or with an error; the next
\* poll follows from the backoff.
PollThread(t, answer) ==
    /\ pc = "threads"
    /\ t \in todo
    /\ due[t] = 0
    /\ answer = "failure" => backoff[t].failures < MaxFailures
    /\ answer = "messages" => t \in unread
    /\ answer = "idle" => t \notin unread
    /\ unread' = IF answer = "messages" THEN unread \ {t} ELSE unread
    /\ todo' = todo \ {t}
    /\ \E idleCap \in IdleCaps :
          LET b == AfterPoll(t, answer, idleCap) IN
          /\ backoff' = [backoff EXCEPT ![t] = b]
          /\ due' = [due EXCEPT ![t] = IF b.delay > 0 THEN b.delay ELSE 0]
    /\ wake' = NextWake(t, due'[t])
    /\ states' = states \cup {t}
    /\ UNCHANGED <<chats, known, pc, elapsed, throttled, discovery, gap, checkVars,
                   wakeups>>

\* Teams says the thread is deleted: it is parked.
ThreadGone(t) ==
    /\ pc = "threads"
    /\ t \in todo
    /\ due[t] = 0
    /\ todo' = todo \ {t}
    /\ due' = [due EXCEPT ![t] = GoneRecheck]
    /\ states' = states \cup {t}
    /\ UNCHANGED <<teamsVars, known, pc, elapsed, wake, backoff, throttled, discovery,
                   gap, checkVars, wakeups>>

ThrottlePass_GoOn(t, d) ==
    /\ Throttle(d)
    /\ todo' = todo \ {t}
    /\ UNCHANGED <<pc, elapsed, wake, due, discovery, gap, activity>>

\* 429: the thread and the rest stay due, and the pass ends.
ThrottlePass(t, d) ==
    LET thr == IF d > throttled THEN d ELSE throttled IN
    EndPass(thr) /\ Settle(due, thr, discovery, gap, activity)

ThreadThrottled(t) ==
    /\ pc = "threads"
    /\ t \in todo
    /\ due[t] = 0
    /\ \E d \in Pauses : ThrottlePass(t, d)
    /\ states' = states \cup {t}
    /\ UNCHANGED <<chats, unread, known, backoff, activityFailures, changed,
                   primed, watching, wakeups>>

\* Every thread has been looked at.
PassDone ==
    /\ pc = "threads"
    /\ todo = {}
    /\ EndPass(wake)
    /\ Settle(due, throttled, discovery, gap, activity)
    /\ UNCHANGED <<teamsVars, known, states, backoff, activityFailures, changed, primed,
                   watching, wakeups>>

-----------------------------------------------------------------------------
(* Time and Teams *)

Down(x) == IF x > 0 THEN x - 1 ELSE 0

\* Time passes while the loop sleeps or waits for an answer.
Tick ==
    /\ \/ /\ pc = "asleep"
          /\ wake > 0
          /\ wake' = wake - 1
          /\ due' = [t \in Thread |-> Down(due[t])]
          /\ throttled' = Down(throttled)
          /\ discovery' = Down(discovery)
          /\ gap' = Down(gap)
          /\ activity' = Down(activity)
          /\ UNCHANGED elapsed
       \/ /\ pc # "asleep"
          /\ elapsed < MaxElapsed
          /\ elapsed' = elapsed + 1
          /\ UNCHANGED <<wake, due, throttled, discovery, gap, activity>>
    /\ UNCHANGED <<chats, unread, known, pc, todo, states, backoff, activityFailures,
                   changed, primed, watching, wakeups>>

\* Someone posts to a thread, perhaps a new one.
Post(t) ==
    /\ chats' = chats \cup {t}
    /\ unread' = unread \cup {t}
    /\ changed' = changed \cup {t}
    /\ UNCHANGED <<known, pc, todo, elapsed, wake, threadVars, throttled, discovery, gap,
                   activity, activityFailures, primed, watching, wakeups>>

Answers == {"messages", "idle", "client4xx", "failure"}

Loop ==
    \/ StartPass
    \/ TakeWakeups
    \/ Discover
    \/ SkipDiscovery
    \/ CheckActivity
    \/ ActivityFails
    \/ SkipActivity
    \/ PausePass
    \/ ListThreads
    \/ \E t \in Thread :
          \/ SkipThread(t)
          \/ \E a \in Answers : PollThread(t, a)
          \/ ThreadGone(t)
          \/ ThreadThrottled(t)
    \/ PassDone

Next ==
    \/ Loop
    \/ Tick
    \/ \E t \in Thread : RequestPoll(t) \/ Post(t)

Spec == Init /\ [][Next]_vars

\* The loop goes on and time passes; Teams, asked for a thread again and again,
\* answers for it, and so does discovery.
Fairness ==
    /\ WF_vars(Loop)
    /\ SF_vars(Tick)
    /\ SF_vars(Discover /\ throttled' = throttled /\ known' = known \cup chats)
    /\ SF_vars((CheckActivity \/ ActivityFails \/ SkipActivity) /\ throttled' = 0)
    /\ \A t \in Thread : SF_vars(PollThread(t, "messages"))

FairSpec == Spec /\ Fairness

-----------------------------------------------------------------------------
(* Properties *)

\* The timers never run below zero, the schedule and the wakeup queue hold threads
\* that exist, and the queue stays within its size (pollSchedule, pollState,
\* wakeChan).
TypeOK ==
    /\ chats \subseteq Thread /\ unread \subseteq Thread /\ known \subseteq Thread
    /\ pc \in {"asleep", "discovery", "activity", "list", "threads"}
    /\ todo \subseteq Thread /\ states \subseteq Thread /\ changed \subseteq Thread
    /\ elapsed \in Nat /\ wake \in Nat /\ throttled \in Nat /\ discovery \in Nat
    /\ gap \in Nat /\ activity \in Nat /\ activityFailures \in Nat
    /\ due \in [Thread -> Nat]
    /\ backoff \in [Thread -> Backoff]
    /\ primed \in BOOLEAN /\ watching \in BOOLEAN
    /\ wakeups \in Seq(Thread) /\ Len(wakeups) <= WakeQueueSize

\* No thread is polled while a pause is in force, though its end was computed
\* from the pass's start and a later part of the same pass may have asked for it
\* (pollPass's two checks of throttledUntil).
NoPollWhilePaused == pc = "threads" => throttled = 0

\* The loop never sleeps past a thread's next poll, a queued check or a thread
\* woken meanwhile, unless polling is paused (nextWake over a whole pass).
NeverSleepsPastDue ==
    pc = "asleep" /\ throttled = 0 =>
        /\ \A t \in states : wake <= due[t]
        /\ wake <= activity /\ wake <= discovery

\* A message is polled sooner or later, whatever fails, is parked or is paused in
\* between, also in a chat no one knew of.
UnreadPolled == \A t \in Thread : t \in unread ~> t \notin unread
=============================================================================
