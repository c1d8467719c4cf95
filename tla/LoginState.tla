----------------------------- MODULE LoginState -----------------------------
(***************************************************************************)
(* The state a client shows for its login, and what it makes of failures:  *)
(* the Skype token's refresh with its backoff (sync_loop.go), the tracker   *)
(* of unanswered requests (reachability.go) and the outstanding credential  *)
(* failure (client_lifecycle.go), from Connect on.                          *)
(*                                                                          *)
(* A worker is a goroutine that checks the token and then sends a request:  *)
(* a loop (discovery, the activity check and the thread polls run in one    *)
(* goroutine) reports a failed check, a Matrix handler sends messages and   *)
(* only returns it.  Each tracker changes under its own lock and the state  *)
(* to report is sent after the unlock, so a Send is a step of its own.      *)
(* The refresh token is good, or the identity provider refuses it with one  *)
(* of the messages Refusal; "unanswered" is every isTeamsNetworkError.      *)
(***************************************************************************)
EXTENDS Integers

CONSTANTS
    Loop, Handler,   \* workers: the poll loop, the Matrix handlers
    Refusal,         \* the identity provider's refusals
    Permanent,       \* those isPermanentRefreshError recognises
    TripAfter,       \* teamsReachTrip
    MaxChanges       \* bound: how often the network or the grant changes

ASSUME LoginAssumption ==
    /\ Loop \cap Handler = {}
    /\ Permanent \subseteq Refusal
    /\ {"unanswered", "none", "valid"} \cap Refusal = {}
    /\ TripAfter \in Nat \ {0}
    /\ MaxChanges \in Nat

VARIABLES
    net,          \* requests are answered
    grant,        \* "valid", or the refusal a refresh gets
    changes,      \* changes of net and grant so far
    token,        \* the Skype token is valid
    cached,       \* skypeRefreshFail.err, or "none"
    suppressed,   \* its backoff window is open
    loggedIn,     \* TeamsClient.loggedIn
    failures,     \* teamsReach.failures, capped at TripAfter
    down,         \* teamsReach.down
    outstanding,  \* badCredentials.message, or "none"
    pc,           \* where each worker is
    err,          \* the error each worker holds
    outbox,       \* the state each worker is about to send, or NoState
    reported,     \* the last state the bridge was sent
    unannounced   \* a refresh was refused since the last BAD_CREDENTIALS

world == <<net, grant, changes>>
tokens == <<token, cached, suppressed, loggedIn>>
reach == <<failures, down>>
shown == <<reported, unannounced>>
vars == <<world, tokens, reach, outstanding, pc, err, outbox, shown>>

Worker == Loop \cup Handler
Error == Refusal \cup {"unanswered"}

NoState == [event |-> "none", message |-> "none"]
Connecting == [event |-> "CONNECTING", message |-> "none"]
Connected == [event |-> "CONNECTED", message |-> "none"]
Unreachable == [event |-> "TRANSIENT_DISCONNECT", message |-> "none"]
BadCredentials(m) == [event |-> "BAD_CREDENTIALS", message |-> m]
State == {NoState, Connecting, Connected, Unreachable}
            \cup {BadCredentials(m) : m \in Refusal}

Init ==
    /\ net \in BOOLEAN /\ grant \in Refusal \cup {"valid"} /\ changes = 0
    /\ token \in BOOLEAN /\ cached = "none" /\ suppressed = FALSE /\ loggedIn = FALSE
    /\ failures = 0 /\ down = FALSE /\ outstanding = "none"
    /\ pc = [w \in Worker |-> "off"] /\ err = [w \in Worker |-> "none"]
    /\ outbox = [w \in Worker |-> NoState]
    /\ reported = NoState /\ unannounced = FALSE

-----------------------------------------------------------------------------
(* What the trackers make of a result.                                      *)

(* teamsReach.note: count the failures in a row, and report the outage and *)
(* its end.                                                                 *)
Unanswered(w) ==
    /\ failures' = IF failures < TripAfter THEN failures + 1 ELSE failures
    /\ down' = (down \/ failures + 1 >= TripAfter)
    /\ outbox' = [outbox EXCEPT ![w] = IF down' /\ ~down THEN Unreachable ELSE NoState]

Answered_Silent(w) ==
    /\ failures' = 0
    /\ down' = FALSE
    /\ outbox' = [outbox EXCEPT ![w] = NoState]

Answered(w) ==
    /\ failures' = 0
    /\ down' = FALSE
    /\ outbox' = [outbox EXCEPT ![w] = IF down THEN Connected ELSE NoState]

NoteResult(w, unanswered) == IF unanswered THEN Unanswered(w) ELSE Answered(w)

(* badCredentials.note: the same failure is announced once.                 *)
NoteBadCredentials_Always(w, m) ==
    /\ outstanding' = m
    /\ outbox' = [outbox EXCEPT ![w] = BadCredentials(m)]
    /\ unannounced' = FALSE

NoteBadCredentials(w, m) ==
    /\ outstanding' = m
    /\ outbox' = [outbox EXCEPT ![w] = IF m # outstanding THEN BadCredentials(m) ELSE NoState]
    /\ unannounced' = (unannounced /\ m = outstanding)

(* ensureValidSkypeToken: what the check returns, "none" for no error.      *)
RefreshResult == IF ~net THEN "unanswered" ELSE IF grant = "valid" THEN "none" ELSE grant
CheckResult == IF token THEN "none" ELSE IF suppressed THEN cached ELSE RefreshResult

(* The refresh's part of it: what the check leaves behind.                  *)
Refreshed == ~token /\ ~suppressed /\ CheckResult = "none"
Refused == ~token /\ ~suppressed /\ CheckResult # "none"

TokenCheck ==
    /\ token' = (token \/ Refreshed)
    /\ cached' = IF Refreshed THEN "none" ELSE IF Refused THEN CheckResult ELSE cached
    /\ suppressed' = (suppressed \/ Refused)

(* tokenMu is held from the check until a CONNECTED it sends is sent.       *)
TokenFree == \A w \in Worker : pc[w] # "clearing"

-----------------------------------------------------------------------------
(* The network and the identity provider.                                   *)

NetChanges ==
    /\ changes < MaxChanges /\ changes' = changes + 1
    /\ net' = ~net
    /\ UNCHANGED <<grant, tokens, reach, outstanding, pc, err, outbox, shown>>

GrantChanges ==
    /\ changes < MaxChanges /\ changes' = changes + 1
    /\ grant' \in (Refusal \cup {"valid"}) \ {grant}
    /\ UNCHANGED <<net, tokens, reach, outstanding, pc, err, outbox, shown>>

TokenExpires ==
    /\ token /\ token' = FALSE
    /\ UNCHANGED <<world, cached, suppressed, loggedIn, reach, outstanding, pc, err, outbox, shown>>

WindowEnds ==
    /\ suppressed /\ suppressed' = FALSE
    /\ UNCHANGED <<world, token, cached, loggedIn, reach, outstanding, pc, err, outbox, shown>>

-----------------------------------------------------------------------------
(* Connect, which runs alone: its checks and Sends have nothing to race     *)
(* with before the workers start.                                           *)
Started == reported # NoState

Connect ==
    /\ ~Started
    /\ TokenCheck
    /\ \/ /\ CheckResult = "none"
          /\ reported' = Connected
          /\ UNCHANGED <<reach, outstanding>>
       \/ /\ CheckResult = "unanswered"
          /\ failures' = TripAfter /\ down' = TRUE
          /\ reported' = Unreachable
          /\ UNCHANGED outstanding
       \/ /\ CheckResult \in Refusal
          /\ outstanding' = CheckResult
          /\ reported' = BadCredentials(CheckResult)
          /\ UNCHANGED reach
    /\ loggedIn' = (CheckResult \notin Refusal)
    /\ pc' = [w \in Worker |-> IF CheckResult \in Refusal THEN "off" ELSE "idle"]
    /\ UNCHANGED <<world, err, outbox, unannounced>>

-----------------------------------------------------------------------------
(* A worker's round: check the token, report a failed check or send the     *)
(* request, and report what came of it.                                     *)
Ready(w, at) == pc[w] = at /\ outbox[w] = NoState
GoesTo(w, at) == pc' = [pc EXCEPT ![w] = at]

(* A handler turns a message down while the user is not logged in.          *)
IsLoggedIn == loggedIn \/ token

(* clearBadCredentials, inside the refresh.                                 *)
Clears == Refreshed /\ outstanding # "none"

CheckToken(w) ==
    /\ Ready(w, "idle") /\ TokenFree
    /\ w \in Handler => IsLoggedIn
    /\ TokenCheck
    /\ loggedIn' = (loggedIn /\ ~(Refused /\ CheckResult \in Permanent))
    /\ unannounced' = (unannounced \/ (Refused /\ CheckResult \in Refusal))
    /\ outstanding' = IF Refreshed THEN "none" ELSE outstanding
    /\ outbox' = [outbox EXCEPT ![w] = IF Clears THEN Connected ELSE NoState]
    /\ err' = [err EXCEPT ![w] = IF w \in Loop THEN CheckResult ELSE "none"]
    /\ GoesTo(w, IF Clears THEN "clearing"
                  ELSE IF CheckResult = "none" THEN "request"
                  ELSE IF w \in Loop THEN "failed" ELSE "idle")
    /\ UNCHANGED <<world, reach, reported>>

(* reportTokenError: first the reachability tracker ...                     *)
ReportTokenError_Unsorted(w) ==
    /\ Ready(w, "failed")
    /\ NoteResult(w, err[w] = "unanswered")
    /\ GoesTo(w, "refused")
    /\ UNCHANGED <<world, tokens, outstanding, err, shown>>

ReportTokenError(w) ==
    /\ Ready(w, "failed")
    /\ NoteResult(w, err[w] = "unanswered")
    /\ GoesTo(w, IF err[w] = "unanswered" THEN "idle" ELSE "refused")
    /\ UNCHANGED <<world, tokens, outstanding, err, shown>>

(* ... then, for an answer, the login's credentials.                        *)
ReportBadCredentials(w) ==
    /\ Ready(w, "refused")
    /\ NoteBadCredentials(w, err[w])
    /\ GoesTo(w, "idle")
    /\ UNCHANGED <<world, tokens, reach, err, reported>>

Request(w) ==
    /\ Ready(w, "request")
    /\ NoteResult(w, ~net)
    /\ GoesTo(w, "idle")
    /\ UNCHANGED <<world, tokens, outstanding, err, shown>>

Send(w) ==
    /\ outbox[w] # NoState
    /\ reported' = outbox[w]
    /\ outbox' = [outbox EXCEPT ![w] = NoState]
    /\ GoesTo(w, IF pc[w] = "clearing" THEN "request" ELSE pc[w])
    /\ UNCHANGED <<world, tokens, reach, outstanding, err, unannounced>>

Work(w) ==
    CheckToken(w) \/ ReportTokenError(w) \/ ReportBadCredentials(w) \/ Request(w) \/ Send(w)

Next ==
    \/ Connect
    \/ NetChanges \/ GrantChanges \/ TokenExpires \/ WindowEnds
    \/ \E w \in Worker : Work(w)

Spec == Init /\ [][Next]_vars

(* The workers run on and a backoff window ends.                            *)
Fairness == WF_vars(WindowEnds) /\ \A w \in Worker : WF_vars(Work(w))

FairSpec == Spec /\ Fairness

-----------------------------------------------------------------------------
(* Properties                                                               *)

(* A lost network is never shown as a failed login: BAD_CREDENTIALS carries *)
(* a refusal, and only a refusal is outstanding (reportTokenError).         *)
TypeOK ==
    /\ net \in BOOLEAN /\ grant \in Refusal \cup {"valid"} /\ changes \in Nat
    /\ token \in BOOLEAN /\ cached \in Error \cup {"none"}
    /\ suppressed \in BOOLEAN /\ loggedIn \in BOOLEAN
    /\ failures \in 0..TripAfter /\ down \in BOOLEAN
    /\ outstanding \in Refusal \cup {"none"}
    /\ pc \in [Worker -> {"off", "idle", "clearing", "request", "failed", "refused"}]
    /\ err \in [Worker -> Error \cup {"none"}]
    /\ outbox \in [Worker -> State] /\ reported \in State
    /\ unannounced \in BOOLEAN

(* "One failed token refresh is announced once rather than once per thread  *)
(* poll" (client_lifecycle.go:33): BAD_CREDENTIALS is reported only if a    *)
(* refresh was refused since it was last reported, however many polls the   *)
(* remembered failure answers.                                              *)
AnnouncedOnce ==
    [][\A w \in Worker :
        outbox'[w] # outbox[w] /\ outbox'[w].event = "BAD_CREDENTIALS" => unannounced]_vars

(* Whatever failed before, once the network is up and the refresh token is  *)
(* good for long enough the login is shown as connected, and stays so       *)
(* ("CONNECTED follows as soon as a request gets through again",            *)
(* reachability.go:17), unless Connect itself was refused.                  *)
Fine == net /\ grant = "valid" /\ \E w \in Worker : pc[w] # "off"
StateRecovers == <>[]Fine => <>[](reported = Connected)
=============================================================================
