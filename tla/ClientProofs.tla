------------------------------ MODULE ClientProofs ------------------------------
(***************************************************************************)
(* Theorems about the clients of a login.  LoginState: its state is well   *)
(* typed whatever the workers do, and with one worker a failed refresh is  *)
(* announced once and an error state on show is one that a tracker still   *)
(* holds.  SyncTasks: the types, that only the goroutines of one run may   *)
(* go on, and that those told to end are never untold.                     *)
(***************************************************************************)
EXTENDS LoginState, SyncTasks, TLAPS

(* The error a worker is about to report is one, and once past the          *)
(* reachability tracker it is a refusal.                                    *)
ErrorKnown ==
    \A w \in Worker : /\ pc[w] = "failed" => err[w] \in Error
                      /\ pc[w] = "refused" => err[w] \in Refusal

TypeInv == TypeOK /\ ErrorKnown

LEMMA StateTypes ==
    /\ NoState \in State /\ Connecting \in State /\ Connected \in State /\ Unreachable \in State
    /\ \A m \in Refusal : BadCredentials(m) \in State
    /\ \A s \in State : s.event = "BAD_CREDENTIALS" => \E m \in Refusal : s = BadCredentials(m)
<1>1. /\ NoState \in State /\ Connecting \in State /\ Connected \in State /\ Unreachable \in State
      /\ \A m \in Refusal : BadCredentials(m) \in State
  BY DEF State
<1>2. /\ NoState.event # "BAD_CREDENTIALS" /\ Connecting.event # "BAD_CREDENTIALS"
      /\ Connected.event # "BAD_CREDENTIALS" /\ Unreachable.event # "BAD_CREDENTIALS"
  BY DEF NoState, Connecting, Connected, Unreachable
<1> QED
  BY <1>1, <1>2 DEF State

LEMMA TripPositive == TripAfter \in Nat /\ TripAfter > 0 /\ 0 \in 0..TripAfter /\ TripAfter \in 0..TripAfter
BY LoginAssumption

LEMMA CheckTyped ==
    ASSUME TypeOK
    PROVE  CheckResult \in Error \cup {"none"}
BY DEF TypeOK, CheckResult, RefreshResult, Error

LEMMA NoteTyped ==
    ASSUME TypeOK, NEW w \in Worker, NEW u \in BOOLEAN, NoteResult(w, u)
    PROVE  /\ failures' \in 0..TripAfter /\ down' \in BOOLEAN
           /\ outbox' \in [Worker -> State]
<1>1. CASE u
  <2>1. Unanswered(w)
    BY <1>1 DEF NoteResult
  <2>2. failures' \in 0..TripAfter
    BY <2>1, TripPositive DEF Unanswered, TypeOK
  <2> QED
    BY <2>1, <2>2, StateTypes DEF Unanswered, TypeOK
<1>2. CASE ~u
  <2>1. Answered(w)
    BY <1>2 DEF NoteResult
  <2> QED
    BY <2>1, StateTypes, TripPositive DEF Answered, TypeOK
<1> QED
  BY <1>1, <1>2

LEMMA TypeStart ==
    ASSUME Init
    PROVE  TypeInv
<1>1. changes \in Nat /\ failures \in 0..TripAfter
  BY TripPositive DEF Init
<1>2. /\ pc \in [Worker -> {"off", "idle", "clearing", "request", "failed", "refused"}]
      /\ err \in [Worker -> Error \cup {"none"}]
      /\ outbox \in [Worker -> State] /\ reported \in State
  BY StateTypes DEF Init
<1>3. ErrorKnown
  BY DEF Init, ErrorKnown
<1> QED
  BY <1>1, <1>2, <1>3 DEF Init, TypeInv, TypeOK

LEMMA CheckTokenTyped ==
    ASSUME TypeInv, NEW w \in Worker, CheckToken(w)
    PROVE  TypeInv'
<1> USE DEF TypeInv
<1>1. CheckResult \in Error \cup {"none"}
  BY CheckTyped
<1>2. /\ token' \in BOOLEAN /\ cached' \in Error \cup {"none"} /\ suppressed' \in BOOLEAN
      /\ loggedIn' \in BOOLEAN
  BY <1>1 DEF CheckToken, TokenCheck, TypeOK, Refreshed, Refused
<1>3. outstanding' \in Refusal \cup {"none"} /\ unannounced' \in BOOLEAN
  BY DEF CheckToken, TypeOK
<1>4. outbox' \in [Worker -> State]
  BY StateTypes DEF CheckToken, TypeOK
<1>5. /\ pc' \in [Worker -> {"off", "idle", "clearing", "request", "failed", "refused"}]
      /\ err' \in [Worker -> Error \cup {"none"}]
  BY <1>1 DEF CheckToken, GoesTo, TypeOK
<1>6. ErrorKnown'
  BY <1>1 DEF CheckToken, GoesTo, TypeOK, ErrorKnown
<1>7. UNCHANGED <<world, reach, reported>>
  BY DEF CheckToken
<1> QED
  BY <1>2, <1>3, <1>4, <1>5, <1>6, <1>7 DEF TypeOK, world, reach

LEMMA ConnectTyped ==
    ASSUME TypeInv, Connect
    PROVE  TypeInv'
<1> USE DEF TypeInv
<1>1. CheckResult \in Error \cup {"none"}
  BY CheckTyped
<1>2. token' \in BOOLEAN /\ cached' \in Error \cup {"none"} /\ suppressed' \in BOOLEAN
  BY <1>1 DEF Connect, TokenCheck, TypeOK, Refreshed, Refused
<1>3. loggedIn' \in BOOLEAN /\ outstanding' \in Refusal \cup {"none"}
  BY DEF Connect, TypeOK
<1>4. reported' \in State
  BY StateTypes DEF Connect
<1>5. failures' \in 0..TripAfter /\ down' \in BOOLEAN
  BY TripPositive DEF Connect, TypeOK, reach
<1>6. /\ pc' \in [Worker -> {"off", "idle", "clearing", "request", "failed", "refused"}]
      /\ \A w \in Worker : pc'[w] \in {"off", "idle"}
  BY DEF Connect
<1>7. UNCHANGED <<world, err, outbox, unannounced>>
  BY DEF Connect
<1> QED
  BY <1>2, <1>3, <1>4, <1>5, <1>6, <1>7 DEF TypeOK, ErrorKnown, world

LEMMA TypeStep ==
    ASSUME TypeInv, [Next]_vars
    PROVE  TypeInv'
<1> USE DEF TypeInv
<1>1. CASE Connect
  BY <1>1, ConnectTyped
<1>2. CASE NetChanges
  BY <1>2 DEF NetChanges, TypeOK, ErrorKnown, tokens, reach, shown
<1>3. CASE GrantChanges
  BY <1>3 DEF GrantChanges, TypeOK, ErrorKnown, tokens, reach, shown
<1>4. CASE TokenExpires
  BY <1>4 DEF TokenExpires, TypeOK, ErrorKnown, world, reach, shown
<1>5. CASE WindowEnds
  BY <1>5 DEF WindowEnds, TypeOK, ErrorKnown, world, reach, shown
<1>6. ASSUME NEW w \in Worker, CheckToken(w)
      PROVE  TypeInv'
  BY <1>6, CheckTokenTyped
<1>7. ASSUME NEW w \in Worker, ReportTokenError(w)
      PROVE  TypeInv'
  <2>1. /\ failures' \in 0..TripAfter /\ down' \in BOOLEAN
        /\ outbox' \in [Worker -> State]
    BY <1>7, NoteTyped DEF ReportTokenError
  <2>2. pc' \in [Worker -> {"off", "idle", "clearing", "request", "failed", "refused"}]
    BY <1>7 DEF ReportTokenError, GoesTo, TypeOK
  <2>3. ErrorKnown'
    BY <1>7 DEF ReportTokenError, GoesTo, Ready, ErrorKnown, TypeOK, Error
  <2> QED
    BY <1>7, <2>1, <2>2, <2>3 DEF ReportTokenError, TypeOK, world, tokens, shown
<1>8. ASSUME NEW w \in Worker, ReportBadCredentials(w)
      PROVE  TypeInv'
  <2>1. err[w] \in Refusal
    BY <1>8 DEF ReportBadCredentials, Ready, ErrorKnown
  <2>2. /\ outstanding' \in Refusal /\ unannounced' \in BOOLEAN
        /\ outbox' \in [Worker -> State]
    BY <1>8, <2>1, StateTypes DEF ReportBadCredentials, NoteBadCredentials, TypeOK
  <2>3. /\ pc' \in [Worker -> {"off", "idle", "clearing", "request", "failed", "refused"}]
        /\ ErrorKnown'
    BY <1>8 DEF ReportBadCredentials, GoesTo, ErrorKnown, TypeOK
  <2> QED
    BY <1>8, <2>2, <2>3 DEF ReportBadCredentials, TypeOK, world, tokens, reach
<1>9. ASSUME NEW w \in Worker, Request(w)
      PROVE  TypeInv'
  <2>1. /\ failures' \in 0..TripAfter /\ down' \in BOOLEAN
        /\ outbox' \in [Worker -> State]
    BY <1>9, NoteTyped DEF Request, TypeOK
  <2>2. /\ pc' \in [Worker -> {"off", "idle", "clearing", "request", "failed", "refused"}]
        /\ ErrorKnown'
    BY <1>9 DEF Request, GoesTo, ErrorKnown, TypeOK
  <2> QED
    BY <1>9, <2>1, <2>2 DEF Request, TypeOK, world, tokens, shown
<1>10. ASSUME NEW w \in Worker, Send(w)
       PROVE  TypeInv'
  <2>1. reported' \in State /\ outbox' \in [Worker -> State]
    BY <1>10, StateTypes DEF Send, TypeOK
  <2>2. /\ pc' \in [Worker -> {"off", "idle", "clearing", "request", "failed", "refused"}]
        /\ ErrorKnown'
    BY <1>10 DEF Send, GoesTo, ErrorKnown, TypeOK
  <2> QED
    BY <1>10, <2>1, <2>2 DEF Send, TypeOK, world, tokens, reach
<1>11. CASE UNCHANGED vars
  BY <1>11 DEF vars, TypeOK, ErrorKnown, world, tokens, reach, shown
<1> QED
  BY <1>1, <1>2, <1>3, <1>4, <1>5, <1>6, <1>7, <1>8, <1>9, <1>10, <1>11 DEF Next, Work

(* Whatever the network, the identity provider and any number of loops and  *)
(* handlers do, only refusals are announced as BAD_CREDENTIALS              *)
(* (reportTokenError sorts the errors).                                     *)
THEOREM TypeCorrect == Spec => []TypeOK
<1>1. Init => TypeInv
  BY TypeStart
<1>2. TypeInv /\ [Next]_vars => TypeInv'
  BY TypeStep
<1>3. TypeInv => TypeOK
  BY DEF TypeInv
<1> QED
  BY <1>1, <1>2, <1>3, PTL DEF Spec

-----------------------------------------------------------------------------
(* One worker: the error it holds is the one the refresh remembers, and a   *)
(* refusal remembered but not outstanding has yet to be announced.          *)
HeldIsCached == \A w \in Worker : pc[w] \in {"failed", "refused"} => err[w] = cached
Owed == cached \in Refusal /\ cached # outstanding => unannounced
AnnounceInv == TypeInv /\ HeldIsCached /\ Owed

LEMMA AnnounceStart ==
    ASSUME Init
    PROVE  AnnounceInv
BY TypeStart, LoginAssumption DEF Init, AnnounceInv, HeldIsCached, Owed

LEMMA AnnounceStep ==
    ASSUME \A v, w \in Worker : v = w, AnnounceInv, [Next]_vars
    PROVE  AnnounceInv'
<1> USE DEF AnnounceInv, TypeInv
<1>1. TypeInv'
  BY TypeStep
<1>2. CASE Connect
  <2>1. CheckResult \in Error \cup {"none"}
    BY CheckTyped
  <2>2. Owed'
    BY <1>2, <2>1, LoginAssumption DEF Connect, TokenCheck, Refreshed, Refused, CheckResult,
       RefreshResult, Error, Owed
  <2>3. HeldIsCached'
    BY <1>2 DEF Connect, HeldIsCached
  <2> QED
    BY <1>1, <2>2, <2>3
<1>3. CASE NetChanges \/ GrantChanges \/ TokenExpires \/ WindowEnds \/ UNCHANGED vars
  BY <1>1, <1>3 DEF NetChanges, GrantChanges, TokenExpires, WindowEnds, vars, HeldIsCached, Owed,
     tokens, reach, shown, world
<1>4. ASSUME NEW w \in Worker, CheckToken(w)
      PROVE  AnnounceInv'
  <2>1. CheckResult \in Error \cup {"none"}
    BY CheckTyped
  <2>2. Owed'
    BY <1>4, <2>1, LoginAssumption DEF CheckToken, TokenCheck, Refreshed, Refused, Owed, Error
  <2>3. ASSUME pc'[w] = "failed"
        PROVE  err'[w] = cached'
    BY <1>4, <2>1, <2>3 DEF CheckToken, TokenCheck, Refreshed, Refused, GoesTo, CheckResult, TypeOK
  <2>4. pc'[w] # "refused"
    BY <1>4 DEF CheckToken, GoesTo, TypeOK
  <2>5. HeldIsCached'
    BY <2>3, <2>4 DEF HeldIsCached
  <2> QED
    BY <1>1, <2>2, <2>5
<1>5. ASSUME NEW w \in Worker, ReportTokenError(w)
      PROVE  AnnounceInv'
  BY <1>1, <1>5 DEF ReportTokenError, GoesTo, Ready, TypeOK, HeldIsCached, Owed, tokens, shown
<1>6. ASSUME NEW w \in Worker, ReportBadCredentials(w)
      PROVE  AnnounceInv'
  <2>1. err[w] = cached
    BY <1>6 DEF ReportBadCredentials, Ready, HeldIsCached
  <2>2. Owed'
    BY <1>6, <2>1 DEF ReportBadCredentials, NoteBadCredentials, tokens, Owed
  <2>3. HeldIsCached'
    BY <1>6 DEF ReportBadCredentials, GoesTo, TypeOK, HeldIsCached, tokens
  <2> QED
    BY <1>1, <2>2, <2>3
<1>7. ASSUME NEW w \in Worker, Request(w)
      PROVE  AnnounceInv'
  BY <1>1, <1>7 DEF Request, GoesTo, TypeOK, HeldIsCached, Owed, tokens, shown
<1>8. ASSUME NEW w \in Worker, Send(w)
      PROVE  AnnounceInv'
  BY <1>1, <1>8 DEF Send, GoesTo, TypeOK, HeldIsCached, Owed, tokens, reach
<1> QED
  BY <1>2, <1>3, <1>4, <1>5, <1>6, <1>7, <1>8 DEF Next, Work

LEMMA AnnouncedWhenOwed ==
    ASSUME AnnounceInv, [Next]_vars, NEW w \in Worker,
           outbox'[w] # outbox[w], outbox'[w].event = "BAD_CREDENTIALS"
    PROVE  unannounced
<1> USE DEF AnnounceInv, TypeInv
<1>0. /\ NoState.event # "BAD_CREDENTIALS" /\ Connected.event # "BAD_CREDENTIALS"
      /\ Unreachable.event # "BAD_CREDENTIALS"
  BY DEF NoState, Connected, Unreachable
<1>1. CASE Connect \/ NetChanges \/ GrantChanges \/ TokenExpires \/ WindowEnds \/ UNCHANGED vars
  BY <1>1 DEF Connect, NetChanges, GrantChanges, TokenExpires, WindowEnds, vars
<1>2. ASSUME NEW v \in Worker, CheckToken(v)
      PROVE  FALSE
  BY <1>0, <1>2 DEF CheckToken, TypeOK
<1>3. ASSUME NEW v \in Worker, NEW u \in BOOLEAN, NoteResult(v, u)
      PROVE  FALSE
  BY <1>0, <1>3 DEF NoteResult, Answered, Unanswered, TypeOK
<1>4. ASSUME NEW v \in Worker, Send(v)
      PROVE  FALSE
  BY <1>0, <1>4 DEF Send, TypeOK
<1>5. ASSUME NEW v \in Worker, ReportBadCredentials(v)
      PROVE  unannounced
  <2>1. err[v] \in Refusal /\ err[v] = cached
    BY <1>5 DEF ReportBadCredentials, Ready, HeldIsCached, ErrorKnown
  <2>2. err[v] # outstanding
    BY <1>0, <1>5 DEF ReportBadCredentials, NoteBadCredentials, TypeOK
  <2> QED
    BY <2>1, <2>2 DEF Owed
<1> QED
  BY <1>1, <1>2, <1>3, <1>4, <1>5 DEF Next, Work, ReportTokenError, Request, TypeOK

(* With one loop and no handler a failed refresh is announced once, however *)
(* often the remembered failure answers a poll (badCredentials.note,        *)
(* refreshFailure.blocked).                                                 *)
THEOREM FailureAnnouncedOnce ==
    ASSUME \A v, w \in Worker : v = w
    PROVE  Spec => AnnouncedOnce
<1>1. Init => AnnounceInv
  BY AnnounceStart
<1>2. AnnounceInv /\ [Next]_vars => AnnounceInv'
  BY AnnounceStep
<1>3. AnnounceInv /\ [Next]_vars =>
        [\A w \in Worker : outbox'[w] # outbox[w] /\ outbox'[w].event = "BAD_CREDENTIALS"
                              => unannounced]_vars
  BY AnnouncedWhenOwed
<1> QED
  BY <1>1, <1>2, <1>3, PTL DEF Spec, AnnouncedOnce

-----------------------------------------------------------------------------
(* What is shown is what fails                                              *)
(*                                                                          *)
(* These are the states StateRecovers passes through: an error state on     *)
(* show is one a tracker still holds, so that the tracker that sees the end *)
(* of it sends CONNECTED.                                                   *)

(* What the bridge is about to show, once the worker has sent its state. *)
Showing(w) == IF outbox[w] # NoState THEN outbox[w] ELSE reported

(* The workers start with Connect. *)
BeforeConnect == ~Started => \A w \in Worker : pc[w] = "off" /\ outbox[w] = NoState

(* A state to be shown, with what the trackers hold. *)
Explained(s, isDown, refusal) ==
    /\ s \notin {NoState, Connecting}
    /\ s = Unreachable => isDown
    /\ \A m \in Refusal : s = BadCredentials(m) => refusal = m

Tracked == Started => \A w \in Worker : Explained(Showing(w), down, outstanding)

ShowInv == TypeInv /\ BeforeConnect /\ Tracked

LEMMA StatesDiffer ==
    /\ NoState # Connected /\ NoState # Unreachable /\ NoState # Connecting
    /\ Connected # Connecting /\ Connected # Unreachable /\ Unreachable # Connecting
    /\ \A m \in Refusal : /\ BadCredentials(m) \notin {NoState, Connecting, Connected, Unreachable}
                          /\ BadCredentials(m).event = "BAD_CREDENTIALS" /\ BadCredentials(m).message = m
    /\ \A m, n \in Refusal : BadCredentials(m) = BadCredentials(n) => m = n
BY DEF NoState, Connected, Unreachable, Connecting, BadCredentials

LEMMA StatesExplained ==
    /\ \A d, o : Explained(Connected, d, o)
    /\ \A o : Explained(Unreachable, TRUE, o)
    /\ \A d : \A m \in Refusal : Explained(BadCredentials(m), d, m)
BY StatesDiffer DEF Explained

LEMMA ShowStart ==
    ASSUME Init
    PROVE  ShowInv
<1>1. TypeInv
  BY TypeStart
<1>2. reported = NoState /\ \A w \in Worker : pc[w] = "off" /\ outbox[w] = NoState
  BY DEF Init
<1> QED
  BY <1>1, <1>2 DEF ShowInv, BeforeConnect, Tracked, Started

LEMMA ConnectShown ==
    ASSUME ShowInv, TypeInv', Connect
    PROVE  ShowInv'
<1>1. \A w \in Worker : outbox'[w] = NoState
  BY DEF ShowInv, BeforeConnect, Connect
<1>2. CASE reported' = Connected
  <2>1. Explained(reported', down', outstanding')
    BY <1>2, StatesExplained
  <2> QED
    BY <1>1, <1>2, <2>1, StatesDiffer DEF ShowInv, Tracked, Showing, BeforeConnect, Started
<1>3. CASE reported' = Unreachable /\ down' = TRUE
  <2>1. Explained(reported', down', outstanding')
    BY <1>3, StatesExplained
  <2> QED
    BY <1>1, <1>3, <2>1, StatesDiffer DEF ShowInv, Tracked, Showing, BeforeConnect, Started
<1>4. CASE CheckResult \in Refusal /\ outstanding' = CheckResult /\ reported' = BadCredentials(CheckResult)
  <2>1. Explained(reported', down', outstanding')
    BY <1>4, StatesDiffer DEF Explained
  <2>2. reported' # NoState
    BY <2>1 DEF Explained
  <2> QED
    BY <1>1, <2>1, <2>2 DEF ShowInv, Tracked, Showing, BeforeConnect, Started
<1> QED
  BY <1>2, <1>3, <1>4 DEF Connect

(* A step of the one worker that leaves its state to be sent in the outbox. *)
LEMMA WorkerShown ==
    ASSUME ShowInv, TypeInv', NEW w \in Worker, \A v \in Worker : v = w,
           reported' = reported, pc[w] # "off", outbox[w] = NoState,
           \/ outbox'[w] # NoState /\ Explained(outbox'[w], down', outstanding')
           \/ /\ outbox'[w] = NoState
              /\ down => down'
              /\ outstanding' = outstanding \/ outstanding = "none"
    PROVE  ShowInv'
<1>1. Started
  BY DEF ShowInv, BeforeConnect
<1>2. BeforeConnect'
  BY <1>1 DEF BeforeConnect, Started
<1>3. Explained(reported, down, outstanding)
  BY <1>1 DEF ShowInv, Tracked, Showing
<1>4. CASE outbox'[w] = NoState
  <2>1. down => down'
    BY <1>4
  <2>2. outstanding' = outstanding \/ outstanding = "none"
    BY <1>4
  <2>3. Explained(reported, down', outstanding')
    BY <1>3, <2>1, <2>2, LoginAssumption DEF Explained
  <2>4. Tracked'
    BY <1>4, <2>3 DEF Tracked, Showing
  <2> QED
    BY <1>2, <2>4 DEF ShowInv
<1>5. CASE outbox'[w] # NoState /\ Explained(outbox'[w], down', outstanding')
  <2>1. Tracked'
    BY <1>5 DEF Tracked, Showing
  <2> QED
    BY <1>2, <2>1 DEF ShowInv
<1> QED
  BY <1>4, <1>5

LEMMA ShowStep ==
    ASSUME \A v, w \in Worker : v = w, ShowInv, [Next]_vars
    PROVE  ShowInv'
<1>0. TypeInv'
  BY TypeStep DEF ShowInv
<1>1. CASE Connect
  BY <1>0, <1>1, ConnectShown
<1>2. CASE NetChanges \/ GrantChanges \/ TokenExpires \/ WindowEnds \/ UNCHANGED vars
  <2>1. UNCHANGED <<pc, outbox, reported, down, outstanding>>
    BY <1>2 DEF NetChanges, GrantChanges, TokenExpires, WindowEnds, vars, reach, shown
  <2> QED
    BY <1>0, <2>1 DEF ShowInv, BeforeConnect, Tracked, Showing, Started
<1>3. ASSUME NEW w \in Worker, CheckToken(w)
      PROVE  ShowInv'
  <2>1. reported' = reported /\ pc[w] # "off" /\ outbox[w] = NoState /\ down' = down
    BY <1>3 DEF CheckToken, Ready, reach
  <2>2. outbox'[w] = IF Clears THEN Connected ELSE NoState
    BY <1>3 DEF CheckToken, ShowInv, TypeInv, TypeOK
  <2>3. ~Clears => outstanding' = outstanding \/ outstanding = "none"
    BY <1>3 DEF CheckToken, Clears
  <2>4. CASE Clears
    <3>1. outbox'[w] # NoState /\ Explained(outbox'[w], down', outstanding')
      BY <2>2, <2>4, StatesExplained, StatesDiffer
    <3> QED
      BY <1>0, <2>1, <3>1, WorkerShown
  <2>5. CASE ~Clears
    BY <1>0, <2>1, <2>2, <2>3, <2>5, WorkerShown
  <2> QED
    BY <2>4, <2>5
<1>4. ASSUME NEW w \in Worker, NEW u \in BOOLEAN, NoteResult(w, u), reported' = reported,
             outstanding' = outstanding, pc[w] # "off", outbox[w] = NoState
      PROVE  ShowInv'
  <2>1. down' \in BOOLEAN
    BY <1>0 DEF TypeInv, TypeOK
  <2>2. \/ outbox'[w] = Connected
        \/ outbox'[w] = Unreachable /\ down'
        \/ outbox'[w] = NoState /\ (down => down')
    <3>1. CASE u
      BY <1>4, <3>1 DEF NoteResult, Unanswered, ShowInv, TypeInv, TypeOK
    <3>2. CASE ~u
      BY <1>4, <3>2 DEF NoteResult, Answered, ShowInv, TypeInv, TypeOK
    <3> QED
      BY <3>1, <3>2
  <2>3. CASE outbox'[w] = NoState /\ (down => down')
    BY <1>0, <1>4, <2>3, WorkerShown
  <2>4. CASE outbox'[w] = Connected \/ (outbox'[w] = Unreachable /\ down')
    <3>1. Explained(outbox'[w], down', outstanding')
      BY <2>1, <2>4, StatesDiffer DEF Explained
    <3>2. outbox'[w] # NoState
      BY <3>1 DEF Explained
    <3> QED
      BY <1>0, <1>4, <3>1, <3>2, WorkerShown
  <2> QED
    BY <2>2, <2>3, <2>4
<1>5. ASSUME NEW w \in Worker, ReportTokenError(w) \/ Request(w)
      PROVE  ShowInv'
  BY <1>4, <1>5 DEF ReportTokenError, Request, Ready, shown, ShowInv, TypeInv, TypeOK
<1>6. ASSUME NEW w \in Worker, ReportBadCredentials(w)
      PROVE  ShowInv'
  <2>1. reported' = reported /\ pc[w] # "off" /\ outbox[w] = NoState /\ down' = down
    BY <1>6 DEF ReportBadCredentials, Ready, reach
  <2>2. err[w] \in Refusal /\ outstanding' = err[w]
    BY <1>6 DEF ReportBadCredentials, Ready, NoteBadCredentials, ShowInv, TypeInv, ErrorKnown
  <2>3. outbox'[w] = IF err[w] # outstanding THEN BadCredentials(err[w]) ELSE NoState
    BY <1>6 DEF ReportBadCredentials, NoteBadCredentials, ShowInv, TypeInv, TypeOK
  <2>4. CASE err[w] # outstanding
    <3>1. Explained(outbox'[w], down', outstanding')
      BY <2>2, <2>3, <2>4, StatesDiffer DEF Explained
    <3>2. outbox'[w] # NoState
      BY <3>1 DEF Explained
    <3> QED
      BY <1>0, <2>1, <3>1, <3>2, WorkerShown
  <2>5. CASE err[w] = outstanding
    <3>1. outbox'[w] = NoState /\ outstanding' = outstanding
      BY <2>2, <2>3, <2>5
    <3> QED
      BY <1>0, <2>1, <3>1, WorkerShown
  <2> QED
    BY <2>4, <2>5
<1>7. ASSUME NEW w \in Worker, Send(w)
      PROVE  ShowInv'
  <2>1. /\ outbox[w] # NoState /\ reported' = outbox[w] /\ UNCHANGED <<down, outstanding>>
        /\ outbox' = [outbox EXCEPT ![w] = NoState]
    BY <1>7 DEF Send, reach
  <2>2. \A v \in Worker : v = w /\ Showing(v)' = Showing(v)
    BY <1>7, <2>1 DEF Showing, ShowInv, TypeInv, TypeOK
  <2>3. Started /\ Started'
    BY <1>7, <2>1 DEF ShowInv, BeforeConnect, Started
  <2> QED
    BY <1>0, <2>1, <2>2, <2>3 DEF ShowInv, BeforeConnect, Tracked
<1> QED
  BY <1>1, <1>2, <1>3, <1>5, <1>6, <1>7 DEF Next, Work

(* With all sent, an outage or a refused login on show is one the trackers   *)
(* still hold, and with nothing held CONNECTED is on show.                   *)
ErrorsTracked ==
    \A w \in Worker : outbox[w] = NoState =>
        /\ reported = Unreachable => down
        /\ reported.event = "BAD_CREDENTIALS" => outstanding = reported.message
        /\ Started /\ ~down /\ outstanding = "none" => reported = Connected

LEMMA ShownTracked ==
    ASSUME ShowInv
    PROVE  ErrorsTracked
<1> SUFFICES ASSUME NEW w \in Worker, outbox[w] = NoState
             PROVE  /\ reported = Unreachable => down
                    /\ reported.event = "BAD_CREDENTIALS" => outstanding = reported.message
                    /\ Started /\ ~down /\ outstanding = "none" => reported = Connected
  BY DEF ErrorsTracked
<1>1. Started => Explained(reported, down, outstanding)
  BY DEF ShowInv, Tracked, Showing
<1>2. reported \in State /\ \A m \in Refusal : m # "none"
  BY LoginAssumption DEF ShowInv, TypeInv, TypeOK
<1>3. ~Started => reported # Unreachable /\ reported.event # "BAD_CREDENTIALS"
  BY StatesDiffer DEF Started, NoState
<1>4. Started => (reported.event = "BAD_CREDENTIALS" => outstanding = reported.message)
  BY <1>1, <1>2, StateTypes, StatesDiffer DEF Explained
<1>5. Started /\ ~down /\ outstanding = "none" => reported = Connected
  BY <1>1, <1>2 DEF State, Explained
<1> QED
  BY <1>1, <1>3, <1>4, <1>5 DEF Explained

(* With one loop and no handler no error state stays on show that neither    *)
(* tracker remembers: the end of an outage, or of a refusal, sends CONNECTED *)
(* (teamsReach.note, clearBadCredentials).  With a handler beside the loop   *)
(* two states may be sent in the other order.                                *)
THEOREM NoErrorStaysUntracked ==
    ASSUME \A v, w \in Worker : v = w
    PROVE  Spec => []ErrorsTracked
<1>1. Init => ShowInv
  BY ShowStart
<1>2. ShowInv /\ [Next]_vars => ShowInv'
  BY ShowStep
<1>3. ShowInv => ErrorsTracked
  BY ShownTracked
<1> QED
  BY <1>1, <1>2, <1>3, PTL DEF Spec

-----------------------------------------------------------------------------
(* The goroutines of the clients (SyncTasks)                                *)

\* The run that can still be cancelled is the last one begun, no loop is of a later
\* run, and a client begins no more runs than Connect is called.
RunsCounted ==
    \A c \in Clients :
        /\ cancel[c] \in {0, started[c]}
        /\ \A loop \in loops[c] : loop[1] <= started[c]
        /\ IF connect[c] = "idle" THEN started[c] <= again + 1 ELSE started[c] <= again
        /\ c > current => started[c] = 0 /\ connect[c] = "idle"

\* A run has one poll loop and one long-poll loop: neither is there yet when the full
\* sync ends and starts them.
SeededOnce ==
    \A c \in Clients : \A r \in Runs :
        <<r, "seed">> \in loops[c] => <<r, "poll">> \notin loops[c] /\ <<r, "longpoll">> \notin loops[c]

\* Each few failures in a row are paid for by a fault: the endpoint's loss, or a
\* registration that failed.
FailuresCounted ==
    \A c \in Clients : \A r \in Runs :
        /\ lpFailures[c][r] <= ReregisterAfter * faults
        /\ endpoint[c][r] = "lost" => lpFailures[c][r] < ReregisterAfter * faults
        /\ endpoint[c][r] = "none" => lpFailures[c][r] = 0

TasksInv == TasksTypeOK /\ RunsCounted /\ SeededOnce /\ FailuresCounted

\* The loops that may go on are all of one run: the last one of the login's client.
OneRunGoesOn ==
    \A c \in Clients : \A loop \in loops[c] :
        ~Told(c, loop[1]) => c = current /\ loop[1] = started[c]

\* A goroutine that was told to end is never untold.
ToldStays ==
    [][\A c \in Clients : \A loop \in loops[c] : Told(c, loop[1]) => Told(c, loop[1])']_tasksVars

LEMMA Multiples ==
    ASSUME NEW R \in Nat \ {0}, NEW f \in Nat
    PROVE  R * f \in Nat /\ (R * f) % R = 0 /\ R * (f + 1) = R * f + R
  OBVIOUS

LEMMA MultiplesGrow ==
    ASSUME NEW R \in Nat \ {0}, NEW f \in Nat, NEW g \in Nat, f <= g
    PROVE  R * f <= R * g
<1>1. PICK k \in Nat : g = f + k
  <2>1. g - f \in Nat /\ g = f + (g - f)
    OBVIOUS
  <2> QED
    BY <2>1
<1>2. R * g = R * f + R * k
  BY <1>1
<1>3. R * k \in Nat /\ R * f \in Nat /\ R * g \in Nat
  BY <1>1, Multiples
<1> QED
  BY <1>2, <1>3

\* A number that is below a bound and not at it is one lower.
LEMMA Below == \A n, b \in Nat : n < b /\ n + 1 # b => n + 1 < b
  OBVIOUS

LEMMA Grown == \A n, a, b \in Nat : a <= b => (n <= a => n <= b) /\ (n < a => n < b)
  OBVIOUS

LEMMA TasksTypes ==
    ASSUME TasksTypeOK
    PROVE  /\ current \in Nat /\ again \in Nat /\ faults \in Nat
           /\ \A c \in Clients : /\ c \in Nat /\ started[c] \in Nat /\ cancel[c] \in Nat
                                 /\ loops[c] \subseteq Runs \X Loops
                                 /\ \A r \in Runs : lpFailures[c][r] \in Nat
           /\ \A r \in Runs : r \in Nat /\ r > 0
           /\ ReregisterAfter * faults \in Nat
<1>1. current \in Nat /\ again \in Nat /\ faults \in Nat
  BY TasksAssumption DEF TasksTypeOK, Clients
<1>2. \A r \in Runs : r \in Nat /\ r > 0
  BY TasksAssumption DEF Runs
<1>3. \A c \in Clients : c \in Nat /\ started[c] \in Nat /\ cancel[c] \in Nat
  BY <1>2, TasksAssumption DEF TasksTypeOK, Clients
<1>4. \A c \in Clients : loops[c] \subseteq Runs \X Loops
  BY DEF TasksTypeOK
<1>5. \A c \in Clients : \A r \in Runs : lpFailures[c][r] \in Nat
  BY DEF TasksTypeOK
<1>6. ReregisterAfter * faults \in Nat
  BY <1>1, Multiples, TasksAssumption
<1> QED
  BY <1>1, <1>2, <1>3, <1>4, <1>5, <1>6

LEMMA TasksStart ==
    ASSUME TasksInit
    PROVE  TasksInv
<1>1. current \in Clients /\ again \in 0 .. MaxReconnects /\ faults \in 0 .. MaxFaults
  BY TasksAssumption DEF TasksInit, Clients
<1>2. 0 \in 0 .. ReregisterAfter * (MaxFaults + 1)
  <2>1. MaxFaults + 1 \in Nat
    BY TasksAssumption
  <2> QED
    BY <2>1, Multiples, TasksAssumption
<1>3. TasksTypeOK
  BY <1>1, <1>2 DEF TasksInit, TasksTypeOK, Endpoints
<1>4. RunsCounted
  BY <1>1 DEF TasksInit, RunsCounted
<1>5. SeededOnce
  BY DEF TasksInit, SeededOnce
<1>6. ReregisterAfter * faults \in Nat
  BY <1>3, TasksTypes
<1>7. FailuresCounted
  BY <1>6 DEF TasksInit, FailuresCounted
<1> QED
  BY <1>3, <1>4, <1>5, <1>7 DEF TasksInv

\* What a client's loops become when one of them ends.
LEMMA LoopsShrink ==
    ASSUME TasksInv, NEW c \in Clients, NEW r \in Runs, NEW loop, Ends(c, r, loop)
    PROVE  /\ loops' \in [Clients -> SUBSET (Runs \X Loops)]
           /\ \A d \in Clients : loops'[d] \subseteq loops[d]
  BY DEF TasksInv, TasksTypeOK, Ends

\* A step of the loops begins no run.
LEMMA RunsKept ==
    ASSUME TasksInv, UNCHANGED <<current, connect, again, cancel, started>>,
           \A c \in Clients : \A loop \in loops'[c] : loop[1] \in Runs /\ loop[1] <= started[c]
    PROVE  RunsCounted'
  BY DEF TasksInv, RunsCounted

\* Loops that only end leave the seeding as it was.
LEMMA SeedKept ==
    ASSUME TasksInv, \A c \in Clients : loops'[c] \subseteq loops[c]
    PROVE  SeededOnce'
  BY DEF TasksInv, SeededOnce

LEMMA FailuresStep ==
    ASSUME TasksInv, NEW c \in Clients, NEW r \in Runs, LongPollFails(c, r)
    PROVE  /\ FailuresCounted'
           /\ faults' \in 0 .. MaxFaults
           /\ endpoint' \in [Clients -> [Runs -> Endpoints]]
           /\ lpFailures' \in [Clients -> [Runs -> 0 .. ReregisterAfter * (MaxFaults + 1)]]
<1> DEFINE n == lpFailures[c][r]
           R == ReregisterAfter
<1>a. /\ endpoint \in [Clients -> [Runs -> Endpoints]]
      /\ lpFailures \in [Clients -> [Runs -> 0 .. R * (MaxFaults + 1)]]
      /\ faults \in 0 .. MaxFaults /\ faults \in Nat /\ MaxFaults \in Nat
      /\ n \in Nat /\ R \in Nat \ {0} /\ R * faults \in Nat
  BY TasksTypes, TasksAssumption DEF TasksInv, TasksTypeOK
<1>b. /\ lpFailures' = [lpFailures EXCEPT ![c] = [lpFailures[c] EXCEPT ![r] = n + 1]]
      /\ lpFailures'[c][r] = n + 1
      /\ \A d \in Clients : \A q \in Runs :
            d # c \/ q # r => lpFailures'[d][q] = lpFailures[d][q]
  BY <1>a DEF LongPollFails
<1>c. /\ \A d \in Clients : \A q \in Runs :
            /\ lpFailures[d][q] \in Nat /\ lpFailures[d][q] <= R * faults
            /\ endpoint[d][q] = "lost" => lpFailures[d][q] < R * faults
            /\ endpoint[d][q] = "none" => lpFailures[d][q] = 0
  BY TasksTypes DEF TasksInv, FailuresCounted
<1>d. R * (faults + 1) = R * faults + R /\ (R * faults) % R = 0
  BY <1>a, Multiples
\* The faults after the step, and what they allow.
<1>1. /\ faults' \in 0 .. MaxFaults /\ (faults' = faults \/ faults' = faults + 1)
      /\ R * faults' \in Nat /\ R * faults <= R * faults'
      /\ faults' = faults + 1 => R * faults < R * faults'
      /\ faults' = faults + 1 => n + 1 <= R * faults' /\ (n < R * faults => n + 1 < R * faults')
  <2>1. faults' = faults \/ (faults < MaxFaults /\ faults' = faults + 1)
    BY DEF LongPollFails, RegisterEndpoint, Fault
  <2>2. CASE faults' = faults
    BY <1>a, <2>2
  <2>3. CASE faults < MaxFaults /\ faults' = faults + 1
    <3>1. R * faults' = R * faults + R /\ n <= R * faults
      BY <1>c, <1>d, <2>3
    <3> QED
      BY <1>a, <2>3, <3>1
  <2> QED
    BY <2>1, <2>2, <2>3
\* The loop's own endpoint.
<1>2. /\ n + 1 <= R * faults'
      /\ endpoint'[c][r] = "lost" => n + 1 < R * faults'
      /\ endpoint'[c][r] # "none"
      /\ endpoint' \in [Clients -> [Runs -> Endpoints]]
      /\ \A d \in Clients : \A q \in Runs : d # c \/ q # r => endpoint'[d][q] = endpoint[d][q]
  <2>1. CASE endpoint[c][r] = "lost" /\ (n + 1) % R = 0 /\ RegisterEndpoint(c, r)
    <3>1. n < R * faults
      BY <1>c, <2>1
    <3>2. CASE endpoint' = [endpoint EXCEPT ![c][r] = "good"] /\ UNCHANGED faults
      <4>1. /\ endpoint' \in [Clients -> [Runs -> Endpoints]] /\ endpoint'[c][r] = "good"
            /\ \A d \in Clients : \A q \in Runs :
                  d # c \/ q # r => endpoint'[d][q] = endpoint[d][q]
        BY <1>a, <3>2 DEF Endpoints
      <4> QED
        BY <1>a, <3>1, <3>2, <4>1
    <3>3. CASE Fault /\ UNCHANGED endpoint
      <4>1. n + 1 < R * faults'
        BY <1>1, <3>1, <3>3 DEF Fault
      <4> QED
        BY <1>1, <1>a, <2>1, <3>3, <4>1
    <3> QED
      BY <2>1, <3>2, <3>3 DEF RegisterEndpoint
  <2>2. CASE endpoint[c][r] = "lost" /\ (n + 1) % R # 0 /\ UNCHANGED <<endpoint, faults>>
    <3>1. n + 1 <= R * faults
      BY <1>a, <1>c, <2>2
    <3>2. n + 1 # R * faults
      BY <1>d, <2>2
    <3>3. n + 1 < R * faults
      BY <1>a, <1>c, <2>2, <3>2, Below
    <3>4. n + 1 <= R * faults' /\ n + 1 < R * faults'
      BY <2>2, <3>1, <3>3
    <3> QED
      BY <1>a, <2>2, <3>4
  <2>3. CASE endpoint[c][r] = "good" /\ Fault /\ UNCHANGED endpoint
    <3>1. n + 1 <= R * faults'
      BY <1>1, <2>3 DEF Fault
    <3> QED
      BY <1>a, <2>3, <3>1
  <2> QED
    BY <1>b, <2>1, <2>2, <2>3 DEF LongPollFails
<1>3. FailuresCounted'
  <2>1. ASSUME NEW d \in Clients, NEW q \in Runs
        PROVE  /\ lpFailures'[d][q] <= R * faults'
               /\ endpoint'[d][q] = "lost" => lpFailures'[d][q] < R * faults'
               /\ endpoint'[d][q] = "none" => lpFailures'[d][q] = 0
    <3>1. CASE d = c /\ q = r
      BY <1>b, <1>2, <3>1
    <3>2. CASE d # c \/ q # r
      <4>1. lpFailures'[d][q] = lpFailures[d][q] /\ endpoint'[d][q] = endpoint[d][q]
        BY <1>b, <1>2, <3>2
      <4>2. lpFailures[d][q] \in Nat
        BY <1>c
      <4>3. R * faults \in Nat /\ R * faults' \in Nat /\ R * faults <= R * faults'
        BY <1>1, <1>a
      <4>4. /\ lpFailures[d][q] <= R * faults'
            /\ endpoint[d][q] = "lost" => lpFailures[d][q] < R * faults'
        BY <1>c, <4>2, <4>3, Grown
      <4> QED
        BY <1>c, <4>1, <4>4
    <3> QED
      BY <3>1, <3>2
  <2> QED
    BY <2>1 DEF FailuresCounted
<1>4. n + 1 \in 0 .. R * (MaxFaults + 1)
  <2>1. R * faults' <= R * MaxFaults
    <3>1. faults' \in Nat /\ faults' <= MaxFaults
      BY <1>1, <1>a
    <3> QED
      BY <1>a, <3>1, MultiplesGrow
  <2>2. R * (MaxFaults + 1) = R * MaxFaults + R /\ R * MaxFaults \in Nat
    BY <1>a, Multiples
  <2>3. n + 1 <= R * MaxFaults
    <3>1. n + 1 \in Nat
      BY <1>a
    <3>2. R * faults' \in Nat
      BY <1>1
    <3>3. n + 1 <= R * faults'
      BY <1>2
    <3> QED
      BY <2>1, <2>2, <3>1, <3>2, <3>3, Grown
  <2> QED
    BY <1>a, <2>2, <2>3
<1>5. lpFailures' \in [Clients -> [Runs -> 0 .. R * (MaxFaults + 1)]]
  BY <1>a, <1>b, <1>4
<1> QED
  BY <1>1, <1>2, <1>3, <1>5

LEMMA TasksStep == TasksInv /\ [TasksNext]_tasksVars => TasksInv'
<1> SUFFICES ASSUME TasksInv, [TasksNext]_tasksVars PROVE TasksInv'
  OBVIOUS
<1>t. TasksTypeOK /\ RunsCounted /\ SeededOnce /\ FailuresCounted
  BY DEF TasksInv
<1>n. /\ current \in Nat /\ again \in Nat /\ faults \in Nat
      /\ \A c \in Clients : c \in Nat /\ started[c] \in Nat /\ cancel[c] \in Nat
                            /\ loops[c] \subseteq Runs \X Loops
                            /\ \A r \in Runs : lpFailures[c][r] \in Nat
      /\ \A r \in Runs : r \in Nat /\ r > 0
      /\ ReregisterAfter * faults \in Nat
  BY <1>t, TasksTypes
<1>b. /\ MaxReconnects \in Nat /\ MaxFaults \in Nat /\ MaxLogins \in Nat
      /\ ReregisterAfter \in Nat \ {0}
  BY TasksAssumption
<1> USE DEF connectVars, runVars, pollVars
\* Loops that end, and nothing else of them.
<1>1. ASSUME UNCHANGED <<current, connect, again, cancel, started>>,
             loops' \in [Clients -> SUBSET (Runs \X Loops)],
             \A c \in Clients : loops'[c] \subseteq loops[c]
      PROVE  RunsCounted' /\ SeededOnce'
  <2>1. \A c \in Clients : \A loop \in loops'[c] : loop[1] \in Runs /\ loop[1] <= started[c]
    BY <1>1, <1>t, <1>n DEF RunsCounted
  <2> QED
    BY <1>1, <2>1, RunsKept, SeedKept
<1>l. /\ loops \in [Clients -> SUBSET (Runs \X Loops)]
      /\ \A c \in Clients : loops[c] \subseteq loops[c]
  BY <1>t DEF TasksTypeOK
<1>2. CASE LoadUserLogin
  <2>1. /\ current < MaxLogins /\ current' = current + 1 /\ current + 1 \in Clients
        /\ connect' = [connect EXCEPT ![current + 1] = "asked"]
        /\ UNCHANGED <<again, cancel, started, loops, up, endpoint, lpFailures, faults>>
    BY <1>2, <1>n, <1>b DEF LoadUserLogin, Clients
  <2>2. TasksTypeOK'
    BY <1>t, <2>1 DEF TasksTypeOK
  <2>3. RunsCounted'
    <3>1. ASSUME NEW c \in Clients, c = current + 1
          PROVE  started[c] <= again /\ connect'[c] = "asked" /\ ~(c > current')
      <4>1. connect'[c] = "asked"
        BY <1>t, <2>1, <3>1 DEF TasksTypeOK
      <4>2. started[c] = 0
        BY <1>t, <1>n, <3>1 DEF RunsCounted
      <4> QED
        BY <1>n, <2>1, <3>1, <4>1, <4>2
    <3>2. ASSUME NEW c \in Clients, c # current + 1
          PROVE  connect'[c] = connect[c] /\ (c > current' => c > current)
      BY <1>t, <1>n, <2>1, <3>2 DEF TasksTypeOK
    <3> QED
      BY <1>t, <2>1, <3>1, <3>2 DEF RunsCounted
  <2> QED
    BY <1>t, <2>1, <2>2, <2>3 DEF TasksInv, SeededOnce, FailuresCounted
<1>3. ASSUME NEW c \in Clients, Reconnect(c) PROVE TasksInv'
  <2>1. /\ c = current /\ connect[c] = "idle" /\ again < MaxReconnects /\ again' = again + 1
        /\ connect' = [connect EXCEPT ![c] = "asked"]
        /\ UNCHANGED <<current, cancel, started, loops, up, endpoint, lpFailures, faults>>
    BY <1>3 DEF Reconnect
  <2>2. TasksTypeOK'
    <3>1. again' \in 0 .. MaxReconnects
      BY <1>n, <1>b, <2>1
    <3> QED
      BY <1>t, <2>1, <3>1 DEF TasksTypeOK
  <2>3. RunsCounted'
    <3>1. connect'[c] = "asked" /\ started[c] <= again' /\ ~(c > current)
      BY <1>t, <1>n, <2>1 DEF TasksTypeOK, RunsCounted
    <3>2. ASSUME NEW d \in Clients, d # c
          PROVE  /\ connect'[d] = connect[d]
                 /\ IF connect[d] = "idle" THEN started[d] <= again' + 1 ELSE started[d] <= again'
      BY <1>t, <1>n, <2>1, <3>2 DEF TasksTypeOK, RunsCounted
    <3> QED
      BY <1>t, <2>1, <3>1, <3>2 DEF RunsCounted
  <2> QED
    BY <1>t, <2>1, <2>2, <2>3 DEF TasksInv, SeededOnce, FailuresCounted
<1>4. ASSUME NEW c \in Clients, CheckTokens(c) PROVE TasksInv'
  <2>1. /\ connect[c] = "asked"
        /\ \/ connect' = [connect EXCEPT ![c] = "checked"]
           \/ connect' = [connect EXCEPT ![c] = "idle"]
        /\ UNCHANGED <<current, again, cancel, started, loops, up, endpoint, lpFailures, faults>>
    BY <1>4 DEF CheckTokens
  <2>2. TasksTypeOK'
    BY <1>t, <2>1 DEF TasksTypeOK
  <2>3. RunsCounted'
    <3>1. connect'[c] \in {"checked", "idle"} /\ started[c] <= again /\ started[c] <= again + 1
          /\ ~(c > current)
      <4>1. connect'[c] \in {"checked", "idle"}
        BY <1>t, <2>1 DEF TasksTypeOK
      <4>2. started[c] <= again /\ ~(c > current)
        BY <1>t, <2>1 DEF RunsCounted
      <4> QED
        BY <1>n, <4>1, <4>2
    <3>2. \A d \in Clients : d # c => connect'[d] = connect[d]
      BY <1>t, <2>1 DEF TasksTypeOK
    <3> QED
      BY <1>t, <2>1, <3>1, <3>2 DEF RunsCounted
  <2> QED
    BY <1>t, <2>1, <2>2, <2>3 DEF TasksInv, SeededOnce, FailuresCounted
<1>5. ASSUME NEW c \in Clients, StartSyncTasks(c) PROVE TasksInv'
  <2>1. /\ connect[c] = "checked" /\ connect' = [connect EXCEPT ![c] = "idle"]
        /\ UNCHANGED <<current, again, up, endpoint, lpFailures, faults>>
    BY <1>5 DEF StartSyncTasks
  <2>2. /\ connect'[c] = "idle" /\ started[c] <= again /\ ~(c > current)
        /\ \A d \in Clients : d # c => connect'[d] = connect[d]
        /\ connect' \in [Clients -> {"idle", "asked", "checked"}]
    BY <1>t, <2>1 DEF TasksTypeOK, RunsCounted
  <2>3. CASE UNCHANGED <<cancel, started, loops>>
    <3>1. TasksTypeOK'
      BY <1>t, <2>1, <2>2, <2>3 DEF TasksTypeOK
    <3>2. started[c] <= again + 1
      BY <1>n, <2>2
    <3>3. RunsCounted'
      BY <1>t, <2>1, <2>2, <2>3, <3>2 DEF RunsCounted
    <3> QED
      BY <1>t, <2>1, <2>3, <3>1, <3>3 DEF TasksInv, SeededOnce, FailuresCounted
  <2>4. CASE /\ started' = [started EXCEPT ![c] = @ + 1]
             /\ cancel' = [cancel EXCEPT ![c] = started'[c]]
             /\ loops' = [loops EXCEPT ![c] = @ \cup {<<started'[c], "seed">>}]
    <3> DEFINE n == started[c] + 1
    <3>1. /\ n \in Runs /\ n \in Nat /\ n <= again + 1 /\ started[c] < n
          /\ started'[c] = n /\ cancel'[c] = n
          /\ loops' = [loops EXCEPT ![c] = loops[c] \cup {<<n, "seed">>}]
          /\ loops'[c] = loops[c] \cup {<<n, "seed">>}
      <4>1. again <= MaxReconnects
        BY <1>t, <1>b DEF TasksTypeOK
      <4>2. n \in Nat /\ n <= again + 1 /\ started[c] < n /\ n \in Runs
        BY <1>n, <1>b, <2>2, <4>1 DEF Runs
      <4>3. started'[c] = n
        BY <1>t, <2>4 DEF TasksTypeOK
      <4> QED
        BY <1>t, <2>4, <4>2, <4>3 DEF TasksTypeOK
    <3>2. /\ <<n, "seed">> \in Runs \X Loops
          /\ \A d \in Clients : d # c => /\ started'[d] = started[d] /\ cancel'[d] = cancel[d]
                                         /\ loops'[d] = loops[d]
      BY <1>t, <2>4, <3>1 DEF TasksTypeOK, Loops
    <3>3. TasksTypeOK'
      <4>1. /\ loops' \in [Clients -> SUBSET (Runs \X Loops)]
            /\ started' \in [Clients -> {0} \cup Runs] /\ cancel' \in [Clients -> {0} \cup Runs]
        BY <1>t, <2>4, <3>1, <3>2 DEF TasksTypeOK
      <4> QED
        BY <1>t, <2>1, <2>2, <4>1 DEF TasksTypeOK
    <3>4. RunsCounted'
      <4>1. \A loop \in loops'[c] : loop[1] <= n
        <5>1. \A loop \in loops[c] : loop[1] \in Nat /\ loop[1] <= started[c]
          BY <1>t, <1>n DEF RunsCounted
        <5> QED
          BY <1>n, <3>1, <5>1
      <4> QED
        BY <1>t, <2>1, <2>2, <3>1, <3>2, <4>1 DEF RunsCounted
    <3>5. SeededOnce'
      <4>1. \A loop \in Loops : <<n, loop>> \notin loops[c]
        <5>1. \A loop \in loops[c] : loop[1] <= started[c]
          BY <1>t DEF RunsCounted
        <5>2. ~(n <= started[c])
          BY <1>n, <3>1
        <5> QED
          BY <5>1, <5>2
      <4> QED
        BY <1>t, <3>1, <3>2, <4>1 DEF SeededOnce, Loops
    <3> QED
      BY <1>t, <2>1, <3>3, <3>4, <3>5 DEF TasksInv, FailuresCounted
  <2> QED
    BY <1>5, <2>3, <2>4 DEF StartSyncTasks
<1>6. ASSUME NEW c \in Clients, Disconnect(c) PROVE TasksInv'
  <2>1. /\ cancel' = [cancel EXCEPT ![c] = 0]
        /\ UNCHANGED <<current, connect, again, started, loops, up, endpoint, lpFailures, faults>>
    BY <1>6 DEF Disconnect
  <2>2. TasksTypeOK'
    BY <1>t, <2>1 DEF TasksTypeOK
  <2>3. \A d \in Clients : cancel'[d] = 0 \/ cancel'[d] = cancel[d]
    BY <1>t, <2>1 DEF TasksTypeOK
  <2>4. RunsCounted'
    BY <1>t, <2>1, <2>3 DEF RunsCounted
  <2> QED
    BY <1>t, <2>1, <2>2, <2>4 DEF TasksInv, SeededOnce, FailuresCounted
<1>7. ASSUME NEW c \in Clients, NEW r \in Runs, SyncLoop(c, r) PROVE TasksInv'
  <2>1. /\ <<r, "seed">> \in loops[c]
        /\ loops' = [loops EXCEPT ![c] = (loops[c] \ {<<r, "seed">>}) \cup ({r} \X {"poll", "longpoll"})]
        /\ UNCHANGED <<current, connect, again, cancel, started, up, endpoint, lpFailures, faults>>
    BY <1>7 DEF SyncLoop
  <2>2. /\ loops'[c] = (loops[c] \ {<<r, "seed">>}) \cup ({r} \X {"poll", "longpoll"})
        /\ \A d \in Clients : d # c => loops'[d] = loops[d]
        /\ loops' \in [Clients -> SUBSET (Runs \X Loops)]
    BY <1>t, <2>1 DEF TasksTypeOK, Loops
  <2>3. TasksTypeOK'
    BY <1>t, <2>1, <2>2 DEF TasksTypeOK
  <2>4. RunsCounted'
    <3>1. r <= started[c]
      BY <1>t, <2>1 DEF RunsCounted
    <3>2. \A d \in Clients : \A loop \in loops'[d] : loop[1] \in Runs /\ loop[1] <= started[d]
      BY <1>t, <1>n, <2>2, <3>1 DEF RunsCounted
    <3> QED
      BY <2>1, <3>2, RunsKept
  <2>5. SeededOnce'
    BY <1>t, <2>2 DEF SeededOnce
  <2> QED
    BY <1>t, <2>1, <2>3, <2>4, <2>5 DEF TasksInv, FailuresCounted
<1>8. ASSUME NEW c \in Clients, NEW r \in Runs, PollLoopEnds(c, r) \/ PollLoopFails(c, r)
      PROVE  TasksInv'
  <2>1. /\ Ends(c, r, "poll")
        /\ UNCHANGED <<current, connect, again, cancel, started, up, endpoint, lpFailures, faults>>
    BY <1>8 DEF PollLoopEnds, PollLoopFails
  <2>2. loops' \in [Clients -> SUBSET (Runs \X Loops)] /\ RunsCounted' /\ SeededOnce'
    BY <1>1, <2>1, LoopsShrink
  <2> QED
    BY <1>t, <2>1, <2>2 DEF TasksInv, TasksTypeOK, FailuresCounted
<1>9. ASSUME NEW c \in Clients, NEW r \in Runs, LongPollBegins(c, r) PROVE TasksInv'
  <2>1. /\ endpoint[c][r] = "none" /\ RegisterEndpoint(c, r) /\ endpoint'[c][r] = "good"
        /\ UNCHANGED <<current, connect, again, cancel, started, loops, up, lpFailures>>
    BY <1>9 DEF LongPollBegins
  <2>2. endpoint' = [endpoint EXCEPT ![c][r] = "good"] /\ UNCHANGED faults
    BY <2>1 DEF RegisterEndpoint
  <2>3. /\ endpoint' \in [Clients -> [Runs -> Endpoints]]
        /\ \A d \in Clients : \A q \in Runs :
              endpoint'[d][q] = "good" \/ endpoint'[d][q] = endpoint[d][q]
    BY <1>t, <2>2 DEF TasksTypeOK, Endpoints
  <2>4. TasksTypeOK'
    BY <1>t, <2>1, <2>2, <2>3 DEF TasksTypeOK
  <2>5. FailuresCounted'
    BY <1>t, <2>1, <2>2, <2>3 DEF FailuresCounted
  <2>6. RunsCounted' /\ SeededOnce'
    BY <1>1, <1>l, <2>1
  <2> QED
    BY <2>4, <2>5, <2>6 DEF TasksInv
<1>10. ASSUME NEW c \in Clients, NEW r \in Runs, LongPoll(c, r) PROVE TasksInv'
  <2>1. /\ up' = [up EXCEPT ![c] = TRUE] /\ lpFailures' = [lpFailures EXCEPT ![c][r] = 0]
        /\ endpoint[c][r] = "good"
        /\ UNCHANGED <<current, connect, again, cancel, started, loops, endpoint, faults>>
    BY <1>10 DEF LongPoll
  <2>2. 0 \in 0 .. ReregisterAfter * (MaxFaults + 1)
    <3>1. ReregisterAfter * (MaxFaults + 1) \in Nat
      BY <1>b, Multiples
    <3> QED
      BY <3>1
  <2>3. /\ lpFailures' \in [Clients -> [Runs -> 0 .. ReregisterAfter * (MaxFaults + 1)]]
        /\ lpFailures'[c][r] = 0
        /\ \A d \in Clients : \A q \in Runs :
              d # c \/ q # r => lpFailures'[d][q] = lpFailures[d][q]
    BY <1>t, <2>1, <2>2 DEF TasksTypeOK
  <2>4. TasksTypeOK'
    BY <1>t, <2>1, <2>3 DEF TasksTypeOK
  <2>5. FailuresCounted'
    BY <1>t, <1>n, <2>1, <2>3 DEF FailuresCounted
  <2>6. RunsCounted' /\ SeededOnce'
    BY <1>1, <1>l, <2>1
  <2> QED
    BY <2>4, <2>5, <2>6 DEF TasksInv
<1>11. ASSUME NEW c \in Clients, NEW r \in Runs, LongPollFails(c, r) PROVE TasksInv'
  <2>1. /\ up' = [up EXCEPT ![c] = FALSE]
        /\ UNCHANGED <<current, connect, again, cancel, started, loops>>
    BY <1>11 DEF LongPollFails
  <2>2. /\ FailuresCounted' /\ faults' \in 0 .. MaxFaults
        /\ endpoint' \in [Clients -> [Runs -> Endpoints]]
        /\ lpFailures' \in [Clients -> [Runs -> 0 .. ReregisterAfter * (MaxFaults + 1)]]
    BY <1>11, FailuresStep
  <2>3. TasksTypeOK'
    BY <1>t, <2>1, <2>2 DEF TasksTypeOK
  <2>4. RunsCounted' /\ SeededOnce'
    BY <1>1, <1>l, <2>1
  <2> QED
    BY <2>2, <2>3, <2>4 DEF TasksInv
<1>12. ASSUME NEW c \in Clients, NEW r \in Runs, LongPollEnds(c, r) PROVE TasksInv'
  <2>1. /\ Ends(c, r, "longpoll") /\ up' = [up EXCEPT ![c] = FALSE]
        /\ endpoint' = [endpoint EXCEPT ![c][r] = "none"]
        /\ lpFailures' = [lpFailures EXCEPT ![c][r] = 0]
        /\ UNCHANGED <<current, connect, again, cancel, started, faults>>
    BY <1>12 DEF LongPollEnds, Forgets
  <2>2. loops' \in [Clients -> SUBSET (Runs \X Loops)] /\ RunsCounted' /\ SeededOnce'
    BY <1>1, <2>1, LoopsShrink
  <2>3. 0 \in 0 .. ReregisterAfter * (MaxFaults + 1)
    <3>1. ReregisterAfter * (MaxFaults + 1) \in Nat
      BY <1>b, Multiples
    <3> QED
      BY <3>1
  <2>4. /\ lpFailures' \in [Clients -> [Runs -> 0 .. ReregisterAfter * (MaxFaults + 1)]]
        /\ endpoint' \in [Clients -> [Runs -> Endpoints]]
        /\ lpFailures'[c][r] = 0 /\ endpoint'[c][r] = "none"
        /\ \A d \in Clients : \A q \in Runs : d # c \/ q # r =>
              lpFailures'[d][q] = lpFailures[d][q] /\ endpoint'[d][q] = endpoint[d][q]
    BY <1>t, <2>1, <2>3 DEF TasksTypeOK, Endpoints
  <2>5. TasksTypeOK'
    BY <1>t, <2>1, <2>2, <2>4 DEF TasksTypeOK
  <2>6. FailuresCounted'
    BY <1>t, <1>n, <2>1, <2>4 DEF FailuresCounted
  <2> QED
    BY <2>2, <2>5, <2>6 DEF TasksInv
<1>13. ASSUME NEW c \in Clients, NEW r \in Runs, LoseEndpoint(c, r) PROVE TasksInv'
  <2>1. /\ endpoint[c][r] = "good" /\ endpoint' = [endpoint EXCEPT ![c][r] = "lost"]
        /\ faults < MaxFaults /\ faults' = faults + 1
        /\ UNCHANGED <<current, connect, again, cancel, started, loops, up, lpFailures>>
    BY <1>13 DEF LoseEndpoint, Fault
  <2>2. /\ endpoint' \in [Clients -> [Runs -> Endpoints]]
        /\ \A d \in Clients : \A q \in Runs :
              endpoint'[d][q] \in {"lost", endpoint[d][q]}
    BY <1>t, <2>1 DEF TasksTypeOK, Endpoints
  <2>3. TasksTypeOK'
    <3>1. faults' \in 0 .. MaxFaults
      BY <1>n, <1>b, <2>1
    <3> QED
      BY <1>t, <2>1, <2>2, <3>1 DEF TasksTypeOK
  <2>4. FailuresCounted'
    <3>1. ReregisterAfter * faults' = ReregisterAfter * faults + ReregisterAfter
      BY <1>n, <1>b, <2>1, Multiples
    <3>2. \A k \in Nat : k <= ReregisterAfter * faults => k < ReregisterAfter * faults'
      BY <1>n, <1>b, <3>1
    <3>3. \A k \in Nat : k <= ReregisterAfter * faults => k <= ReregisterAfter * faults'
      BY <1>n, <1>b, <3>1
    <3> QED
      BY <1>t, <1>n, <2>1, <2>2, <3>2, <3>3 DEF FailuresCounted
  <2>5. RunsCounted' /\ SeededOnce'
    BY <1>1, <1>l, <2>1
  <2> QED
    BY <2>3, <2>4, <2>5 DEF TasksInv
<1>14. CASE UNCHANGED tasksVars
  BY <1>t, <1>14 DEF tasksVars, TasksInv, TasksTypeOK, RunsCounted, SeededOnce, FailuresCounted
<1> QED
  BY <1>2, <1>3, <1>4, <1>5, <1>6, <1>7, <1>8, <1>9, <1>10, <1>11, <1>12, <1>13, <1>14
  DEF TasksNext

\* Every variable keeps its type, and a long-poll loop fails no more often in a row
\* than ReregisterAfter times for each fault: it comes back to the registration after
\* every few failures (longPollLoop), in every run.
THEOREM TasksTypeCorrect == TasksSpec => []TasksTypeOK
<1>1. TasksInit => TasksInv
  BY TasksStart
<1>2. TasksInv => TasksTypeOK
  BY DEF TasksInv
<1> QED
  BY <1>1, <1>2, TasksStep, PTL DEF TasksSpec

LEMMA OneRun == TasksInv => OneRunGoesOn
<1> SUFFICES ASSUME TasksInv, NEW c \in Clients, NEW loop \in loops[c], ~Told(c, loop[1])
             PROVE  c = current /\ loop[1] = started[c]
  BY DEF OneRunGoesOn
<1>1. loop[1] = cancel[c] /\ c = current
  BY DEF Told, Superseded
<1>2. loop[1] > 0 /\ cancel[c] \in {0, started[c]}
  BY TasksTypes DEF TasksInv, RunsCounted
<1> QED
  BY <1>1, <1>2

\* Whatever is connected, disconnected and replaced, and in whatever order, only the
\* run begun last for the login's present client may go on: no two sets of loops poll
\* and refresh tokens side by side (syncTasks, startSyncTasks), except until those
\* that were told to end find it out.
THEOREM LastRunOnly == TasksSpec => []OneRunGoesOn
<1>1. TasksInit => TasksInv
  BY TasksStart
<1> QED
  BY <1>1, OneRun, TasksStep, PTL DEF TasksSpec

LEMMA ToldStep ==
    ASSUME TasksInv, [TasksNext]_tasksVars, NEW c \in Clients, NEW loop \in loops[c],
           Told(c, loop[1])
    PROVE  Told(c, loop[1])'
<1> USE DEF connectVars, runVars, pollVars
<1>1. /\ loop[1] \in Nat /\ loop[1] > 0 /\ loop[1] <= started[c] /\ started[c] \in Nat
      /\ c \in Nat /\ current \in Nat /\ ~(c > current)
  <2>1. loop[1] \in Nat /\ loop[1] > 0 /\ started[c] \in Nat /\ c \in Nat /\ current \in Nat
    BY TasksTypes DEF TasksInv
  <2>2. loop[1] <= started[c] /\ (c > current => started[c] = 0)
    BY DEF TasksInv, RunsCounted
  <2> QED
    BY <2>1, <2>2
\* The login's client is replaced by another one only ...
<1>2. current' = current \/ (current' = current + 1 /\ cancel' = cancel)
  BY DEF TasksNext, tasksVars, LoadUserLogin, Reconnect, CheckTokens, StartSyncTasks, Disconnect,
         SyncLoop, PollLoopEnds, PollLoopFails, LongPollBegins, LongPoll, LongPollFails,
         LongPollEnds, LoseEndpoint
\* ... and a run to be cancelled by a new run, or none.
<1>3. cancel'[c] = cancel[c] \/ cancel'[c] = 0 \/ cancel'[c] = started[c] + 1
  <2>1. cancel \in [Clients -> {0} \cup Runs] /\ started \in [Clients -> {0} \cup Runs]
    BY DEF TasksInv, TasksTypeOK
  <2>2. ASSUME NEW d \in Clients, StartSyncTasks(d)
        PROVE  cancel'[c] = cancel[c] \/ cancel'[c] = started[c] + 1
    <3>1. \/ cancel' = cancel
          \/ /\ started' = [started EXCEPT ![d] = @ + 1]
             /\ cancel' = [cancel EXCEPT ![d] = started'[d]]
      BY <2>2 DEF StartSyncTasks
    <3> QED
      BY <2>1, <3>1
  <2>3. ASSUME NEW d \in Clients, Disconnect(d) PROVE cancel'[c] = cancel[c] \/ cancel'[c] = 0
    BY <2>1, <2>3 DEF Disconnect
  <2>4. \/ cancel' = cancel
        \/ \E d \in Clients : StartSyncTasks(d) \/ Disconnect(d)
    BY DEF TasksNext, tasksVars, LoadUserLogin, Reconnect, CheckTokens,
           SyncLoop, PollLoopEnds, PollLoopFails, LongPollBegins, LongPoll, LongPollFails,
           LongPollEnds, LoseEndpoint
  <2> QED
    BY <2>2, <2>3, <2>4
<1>4. CASE c # current
  <2>1. c # current'
    BY <1>1, <1>2, <1>4
  <2> QED
    BY <2>1 DEF Told, Superseded
<1>5. CASE loop[1] # cancel[c]
  <2>1. loop[1] # cancel'[c]
    BY <1>1, <1>3, <1>5
  <2> QED
    BY <2>1 DEF Told
<1> QED
  BY <1>4, <1>5 DEF Told, Superseded

\* A goroutine that was told to end, by a Disconnect or as its client was replaced, is
\* told so for as long as it runs: a later Connect begins a run of its own and gives an
\* older one no leave to go on (startSyncTasks, stopSyncLoop).  This is the part of
\* StaysStopped that is not about progress.
THEOREM StoppedForGood == TasksSpec => ToldStays
<1>1. TasksInit => TasksInv
  BY TasksStart
<1>2. TasksInv /\ [TasksNext]_tasksVars =>
          [\A c \in Clients : \A loop \in loops[c] : Told(c, loop[1]) => Told(c, loop[1])']_tasksVars
  BY ToldStep
<1> QED
  BY <1>1, <1>2, TasksStep, PTL DEF TasksSpec, ToldStays
=============================================================================
