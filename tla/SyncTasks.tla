------------------------------- MODULE SyncTasks -------------------------------
(***************************************************************************)
(* The goroutines of a login's clients: Connect starts a run of them,      *)
(* Disconnect cancels it, and a re-login gives the login another client    *)
(* (pkg/connector/sync_loop.go, client.go, connector.go).  Beside the poll *)
(* loop a run has a long-poll loop, which registers an endpoint with Teams,*)
(* loses it, and registers afresh (internal/teams/client/longpoll.go).     *)
(* sync_mode is longpoll here; without it a run has no such loop.          *)
(* Its third loop, for presence, ends as the poll loop does.               *)
(*                                                                         *)
(* What every specification has, Init to TypeOK, is named after the tasks  *)
(* here, so that this module and LoginState, the state the same client     *)
(* shows, can be extended together.                                        *)
(***************************************************************************)
EXTENDS Naturals

CONSTANTS
    ReregisterAfter, \* longPollReregisterAfter
    MaxLogins,       \* bound: clients, one for each login
    MaxReconnects,   \* bound: further calls of Connect
    MaxFaults        \* bound: requests of the long-poll loops that fail, and endpoints lost

ASSUME TasksAssumption ==
    /\ ReregisterAfter \in Nat \ {0}
    /\ MaxLogins \in Nat \ {0}
    /\ MaxReconnects \in Nat
    /\ MaxFaults \in Nat

Clients == 1 .. MaxLogins
Runs == 1 .. MaxReconnects + 1
Loops == {"seed", "poll", "longpoll"}
Endpoints == {"none", "good", "lost"}

VARIABLES
    current,  \* UserLogin.Client
    connect,  \* where Connect of each client is
    again,    \* further calls of it
    cancel,   \* syncCancel, as the run it cancels, or 0: every other run is cancelled
    started,  \* runs begun
    loops,    \* goroutines that run, each as its run and name
    up,       \* longPollUp
    endpoint, \* what the long-poll loop of a run has registered, and Teams knows of it
    lpFailures, \* its failures in a row
    faults

connectVars == <<connect, again>>
runVars == <<cancel, started>>
pollVars == <<up, endpoint, lpFailures, faults>>
tasksVars == <<current, connectVars, runVars, loops, pollVars>>

\* superseded
Superseded(c) == c # current

TasksInit ==
    /\ current = 1
    /\ connect = [c \in Clients |-> IF c = 1 THEN "asked" ELSE "idle"]
    /\ again = 0
    /\ cancel = [c \in Clients |-> 0]
    /\ started = [c \in Clients |-> 0]
    /\ loops = [c \in Clients |-> {}]
    /\ up = [c \in Clients |-> FALSE]
    /\ endpoint = [c \in Clients |-> [r \in Runs |-> "none"]]
    /\ lpFailures = [c \in Clients |-> [r \in Runs |-> 0]]
    /\ faults = 0

-----------------------------------------------------------------------------
(* Connect, Disconnect and a re-login *)

\* LoadUserLogin gives the login of a re-login its new client, which connects.  The
\* old one is disconnected in a goroutine.
LoadUserLogin ==
    /\ current < MaxLogins
    /\ current' = current + 1
    /\ connect' = [connect EXCEPT ![current + 1] = "asked"]
    /\ UNCHANGED <<again, runVars, loops, pollVars>>

\* bridgev2 calls Connect again.
Reconnect(c) ==
    /\ c = current
    /\ connect[c] = "idle"
    /\ again < MaxReconnects
    /\ connect' = [connect EXCEPT ![c] = "asked"]
    /\ again' = again + 1
    /\ UNCHANGED <<current, runVars, loops, pollVars>>

\* Connect checks the tokens: a replaced client and bad credentials end it, a Teams
\* that cannot be reached does not.
CheckTokens(c) ==
    /\ connect[c] = "asked"
    /\ \/ ~Superseded(c) /\ connect' = [connect EXCEPT ![c] = "checked"]
       \/ connect' = [connect EXCEPT ![c] = "idle"]
    /\ UNCHANGED <<current, again, runVars, loops, pollVars>>

\* startSyncTasks begins a run, unless there is one to cancel.  By now the client may
\* have been replaced, and disconnected.
StartSyncTasks(c) ==
    /\ connect[c] = "checked"
    /\ connect' = [connect EXCEPT ![c] = "idle"]
    /\ IF cancel[c] # 0
       THEN UNCHANGED <<runVars, loops>>
       ELSE /\ started' = [started EXCEPT ![c] = @ + 1]
            /\ cancel' = [cancel EXCEPT ![c] = started'[c]]
            /\ loops' = [loops EXCEPT ![c] = @ \cup {<<started'[c], "seed">>}]
    /\ UNCHANGED <<current, again, pollVars>>

\* stopSyncLoop forgets the run and cancels it.  It waits for the goroutines, five
\* seconds at most, and nothing follows here: a Connect may come before they end.
Disconnect(c) ==
    /\ cancel[c] # 0
    /\ cancel' = [cancel EXCEPT ![c] = 0]
    /\ UNCHANGED <<current, connectVars, started, loops, pollVars>>

-----------------------------------------------------------------------------
(* The goroutines of run r of client c *)

Told_Cancelled(c, r) == r # cancel[c]
Told(c, r) == r # cancel[c] \/ Superseded(c)

Ends(c, r, loop) == loops' = [loops EXCEPT ![c] = @ \ {<<r, loop>>}]

\* The full sync is over, done or failed or cancelled: syncLoop starts the others and
\* goes on as the poll loop.
SyncLoop(c, r) ==
    /\ <<r, "seed">> \in loops[c]
    /\ loops' = [loops EXCEPT ![c] = (@ \ {<<r, "seed">>}) \cup ({r} \X {"poll", "longpoll"})]
    /\ UNCHANGED <<current, connectVars, runVars, pollVars>>

\* The poll loop, and the presence loop likewise, goes round until it finds itself told
\* to end.
PollLoopEnds(c, r) ==
    /\ Told(c, r)
    /\ <<r, "poll">> \in loops[c]
    /\ Ends(c, r, "poll")
    /\ UNCHANGED <<current, connectVars, runVars, pollVars>>

\* The threads cannot be listed: the poll loop ends before its first pass.
PollLoopFails(c, r) ==
    /\ <<r, "poll">> \in loops[c]
    /\ Ends(c, r, "poll")
    /\ UNCHANGED <<current, connectVars, runVars, pollVars>>

Fault == faults < MaxFaults /\ faults' = faults + 1

\* RegisterEndpoint tries two addresses: it fails if both do.
RegisterEndpoint(c, r) ==
    \/ endpoint' = [endpoint EXCEPT ![c][r] = "good"] /\ UNCHANGED faults
    \/ Fault /\ UNCHANGED endpoint

\* The first registration: without it the loop ends.
LongPollBegins(c, r) ==
    /\ <<r, "longpoll">> \in loops[c]
    /\ endpoint[c][r] = "none"
    /\ RegisterEndpoint(c, r)
    /\ endpoint'[c][r] = "good"
    /\ UNCHANGED <<current, connectVars, runVars, loops, up, lpFailures>>

\* An answer, with events or without, while Teams knows the endpoint.
LongPoll(c, r) ==
    /\ <<r, "longpoll">> \in loops[c]
    /\ endpoint[c][r] = "good"
    /\ up' = [up EXCEPT ![c] = TRUE]
    /\ lpFailures' = [lpFailures EXCEPT ![c][r] = 0]
    /\ UNCHANGED <<current, connectVars, runVars, loops, endpoint, faults>>

\* A request that fails.  After every few in a row the endpoint is registered afresh.
LongPollFails_Once(c, r) ==
    /\ <<r, "longpoll">> \in loops[c]
    /\ endpoint[c][r] = "lost"
    /\ up' = [up EXCEPT ![c] = FALSE]
    /\ lpFailures' = [lpFailures EXCEPT ![c][r] = @ + 1]
    /\ IF lpFailures'[c][r] = ReregisterAfter
       THEN RegisterEndpoint(c, r)
       ELSE UNCHANGED <<endpoint, faults>>
    /\ UNCHANGED <<current, connectVars, runVars, loops>>
LongPollFails_GivesUp(c, r) ==
    /\ lpFailures[c][r] < ReregisterAfter
    /\ LongPollFails_Once(c, r)
LongPollFails(c, r) ==
    /\ <<r, "longpoll">> \in loops[c]
    /\ up' = [up EXCEPT ![c] = FALSE]
    /\ lpFailures' = [lpFailures EXCEPT ![c][r] = @ + 1]
    /\ LET whole == lpFailures'[c][r] % ReregisterAfter = 0
       IN \/ endpoint[c][r] = "lost" /\ whole /\ RegisterEndpoint(c, r)
          \/ endpoint[c][r] = "lost" /\ ~whole /\ UNCHANGED <<endpoint, faults>>
          \/ endpoint[c][r] = "good" /\ Fault /\ UNCHANGED endpoint
    /\ UNCHANGED <<current, connectVars, runVars, loops>>

\* The long-poll loop ends: told to, on a token that cannot be refreshed, or without
\* an endpoint.  The poll loop then polls alone.
Forgets(c, r) ==
    /\ endpoint' = [endpoint EXCEPT ![c][r] = "none"]
    /\ lpFailures' = [lpFailures EXCEPT ![c][r] = 0]
LongPollEnds(c, r) ==
    /\ <<r, "longpoll">> \in loops[c]
    /\ Ends(c, r, "longpoll") /\ Forgets(c, r)
    /\ up' = [up EXCEPT ![c] = FALSE]
    /\ UNCHANGED <<current, connectVars, runVars, faults>>

\* Teams forgets an endpoint: expired, or lost with the network.
LoseEndpoint(c, r) ==
    /\ endpoint[c][r] = "good"
    /\ endpoint' = [endpoint EXCEPT ![c][r] = "lost"]
    /\ Fault
    /\ UNCHANGED <<current, connectVars, runVars, loops, up, lpFailures>>

-----------------------------------------------------------------------------
TasksNext ==
    \/ LoadUserLogin
    \/ \E c \in Clients : Reconnect(c) \/ CheckTokens(c) \/ StartSyncTasks(c) \/ Disconnect(c)
    \/ \E c \in Clients, r \in Runs :
          \/ SyncLoop(c, r) \/ PollLoopEnds(c, r) \/ PollLoopFails(c, r)
          \/ LongPollBegins(c, r) \/ LongPoll(c, r) \/ LongPollFails(c, r) \/ LongPollEnds(c, r)
          \/ LoseEndpoint(c, r)

TasksSpec == TasksInit /\ [][TasksNext]_tasksVars

\* Goroutines run: Connect goes on, the loops go round and find that they were told to
\* end.  Their requests are made with their context, and limited in time.
FairTasksSpec ==
    /\ TasksSpec
    /\ \A c \in Clients : WF_tasksVars(CheckTokens(c)) /\ WF_tasksVars(StartSyncTasks(c))
    /\ \A c \in Clients : \A r \in Runs :
          /\ WF_tasksVars(SyncLoop(c, r))
          /\ WF_tasksVars(PollLoopEnds(c, r))
          /\ WF_tasksVars(Told(c, r) /\ LongPollEnds(c, r))
          /\ WF_tasksVars(LongPollBegins(c, r) \/ LongPoll(c, r) \/ LongPollFails(c, r))

-----------------------------------------------------------------------------
(* Properties *)

\* Types.  A lost endpoint is not asked more often than the faults leave room for.
TasksTypeOK ==
    /\ current \in Clients
    /\ connect \in [Clients -> {"idle", "asked", "checked"}]
    /\ again \in 0 .. MaxReconnects
    /\ started \in [Clients -> {0} \cup Runs]
    /\ cancel \in [Clients -> {0} \cup Runs]
    /\ loops \in [Clients -> SUBSET (Runs \X Loops)]
    /\ up \in [Clients -> BOOLEAN]
    /\ endpoint \in [Clients -> [Runs -> Endpoints]]
    /\ lpFailures \in [Clients -> [Runs -> 0 .. ReregisterAfter * (MaxFaults + 1)]]
    /\ faults \in 0 .. MaxFaults

\* What was cancelled or belongs to a replaced client stops for good, even if Connect
\* was on its way when disconnecting found nothing to stop, and the next Connect did
\* not wait for the run before (stopSyncLoop, superseded).
StaysStopped ==
    <>[](\A c \in Clients : \A loop \in loops[c] : c = current /\ loop[1] = cancel[c])

\* A long-poll loop that runs is heard again: an endpoint that failed or was lost is
\* registered afresh, also if the first attempts to do so fail.
HeardAgain == \A c \in Clients, r \in Runs : []<>(<<r, "longpoll">> \in loops[c] => up[c])

=============================================================================
