----------------------------- MODULE ReadReceipts -----------------------------
(***************************************************************************)
(* Read positions of one chat, in both directions                          *)
(* (pkg/connector/receipt_sync.go; handlematrix.go,                        *)
(* HandleMatrixReadReceipt; pkg/teamsdb/consumption_horizon.go).           *)
(*                                                                         *)
(* Teams keeps a horizon per participant: the time they last read the      *)
(* chat.  A poll fetches them and sends each that advanced to Matrix as a  *)
(* receipt, the user's own through their double puppet.  When the user     *)
(* reads on Matrix, the handler marks the chat read on Teams, once per run *)
(* of incoming messages.  The horizon last seen or set is stored, so that  *)
(* neither side repeats the other's.                                       *)
(*                                                                         *)
(* A message is named by the time it was posted; 0 is no time.  The clock  *)
(* of Teams and that of the bridge are one, and no two stamped events fall *)
(* together while it runs.                                                 *)
(***************************************************************************)
EXTENDS Integers, Sequences

CONSTANTS
    Other,       \* the chat's other participants
    Self,        \* the user of the login
    Buffer,      \* bridgev2.PortalEventBuffer
    MaxTime,     \* bound: stamped events
    MaxRestarts  \* bound: restarts of the bridge

ASSUME ConstantsAssumption ==
    /\ Self \notin Other
    /\ Buffer \in Nat \ {0}
    /\ MaxTime \in Nat
    /\ MaxRestarts \in Nat

VARIABLES
    clock,
    posted,   \* Teams: the messages
    own,      \* Teams: those of them that the user sent
    horizon,  \* Teams: consumption horizon of each participant
    stored,   \* database: teams_consumption_horizon_state.last_read_ts
    puppet,   \* the user has a double puppet
    unread,   \* unreadSeen of the chat
    polled,   \* the poller's position among the messages
    poll,     \* progress of the poll pass
    handler,  \* progress of HandleMatrixReadReceipt
    portalq,  \* bridgev2: the portal's event channel
    bridged,  \* Matrix: the last message in the room
    shown,    \* Matrix: how far each participant is shown to have read
    inbox,    \* bridgev2: the user's Matrix receipts not handled yet
    restarts,
    \* History, not program state:
    readInTeams, \* when the user last read the chat in a Teams client
    recorded,    \* the last position the bridge set on Teams and stored
    forgotten,   \* messages up to here have lost their unread mark
    dropped      \* receipts up to here were lost with the portal's queue

teams == <<posted, own, horizon>>
matrix == <<bridged, shown, inbox>>
history == <<readInTeams, recorded, forgotten, dropped>>
vars == <<clock, teams, stored, puppet, unread, polled, poll, handler, portalq, matrix,
          restarts, history>>

Time == 0 .. MaxTime
User == Other \cup {Self}

Later(a, b) == IF a >= b THEN a ELSE b

Unpolled == {m \in posted : m > polled}

Event == [kind : {"message"}, at : Time] \cup [kind : {"receipt"}, of : User, at : Time]

\* The message just queued, or the horizons fetched and not gone through yet (0:
\* none, or gone through) and the one whose receipt was queued.
Poll == [pc : {"idle", "mark", "sync", "store"}, msg : Time, seen : [User -> Time],
         of : User]
Idle == [pc |-> "idle", msg |-> 0, seen |-> [u \in User |-> 0], of |-> Self]

Handler == [pc : {"idle", "sending", "recording"}, now : Time]
NoReceipt == [pc |-> "idle", now |-> 0]

Init ==
    /\ clock = 0
    /\ posted = {} /\ own = {}
    /\ horizon = [u \in User |-> 0]
    /\ stored = [u \in User |-> 0]
    /\ puppet = FALSE
    /\ unread = FALSE
    /\ polled = 0
    /\ poll = Idle
    /\ handler = NoReceipt
    /\ portalq = <<>>
    /\ bridged = 0
    /\ shown = [u \in User |-> 0]
    /\ inbox = {}
    /\ restarts = 0
    /\ readInTeams = 0
    /\ recorded = 0
    /\ forgotten = 0
    /\ dropped = [u \in User |-> 0]

-----------------------------------------------------------------------------
(* The poll pass (message_poller.go, receipt_sync.go) *)

\* queueUserMessage: the next message is put on the portal's queue ...
QueueMessage ==
    /\ poll.pc = "idle"
    /\ Len(portalq) < Buffer
    /\ \E m \in Unpolled :
          /\ \A x \in Unpolled : m <= x
          /\ portalq' = Append(portalq, [kind |-> "message", at |-> m])
          /\ polled' = m
          /\ poll' = [poll EXCEPT !.pc = "mark", !.msg = m]
    /\ UNCHANGED <<clock, teams, stored, puppet, unread, handler, matrix, restarts, history>>

\* ... and, unless the user sent it, the chat is marked unread afterwards.
MarkUnread(m) == unread' = (unread \/ m \notin own)

Mark ==
    /\ poll.pc = "mark"
    /\ MarkUnread(poll.msg)
    /\ poll' = [poll EXCEPT !.pc = "idle", !.msg = 0]
    /\ UNCHANGED <<clock, teams, stored, puppet, polled, handler, portalq, matrix, restarts,
                   history>>

\* pollConsumptionHorizons: when the check is due and the request succeeds, the
\* participants who have read at all are gone through.  (shouldPollReceipts
\* spaces the checks; how far apart, no property tells.)
FetchHorizons ==
    /\ poll.pc = "idle"
    /\ poll' = [poll EXCEPT !.pc = "sync", !.seen = horizon]
    /\ UNCHANGED <<clock, teams, stored, puppet, unread, polled, handler, portalq, matrix,
                   restarts, history>>

\* The other participants come first, then the user's own position.
MayCompare(u) ==
    /\ poll.pc = "sync"
    /\ poll.seen[u] > 0
    /\ u = Self => \A x \in Other : poll.seen[x] = 0

Advanced_AgainstOwn(u) == poll.seen[u] > stored[Self]
Advanced(u) == poll.seen[u] > stored[u]

\* syncParticipantHorizon, syncOwnHorizon: a horizon past the stored one is
\* queued as a receipt; the user's own only with a double puppet.
QueueReceipt(u) ==
    /\ MayCompare(u)
    /\ u = Self => puppet
    /\ Advanced(u)
    /\ Len(portalq) < Buffer
    /\ portalq' = Append(portalq, [kind |-> "receipt", of |-> u, at |-> poll.seen[u]])
    /\ poll' = [poll EXCEPT !.pc = "store", !.of = u]
    /\ UNCHANGED <<clock, teams, stored, puppet, unread, polled, handler, matrix, restarts,
                   history>>

PassOver_Stored(u) ==
    IF u = Self /\ ~puppet
    THEN stored' = [stored EXCEPT ![u] = Later(@, poll.seen[u])]
    ELSE UNCHANGED stored

\* What passing over a horizon does to the database: nothing, so that one the
\* double puppet was missing for is sent once there is one.
PassOver(u) == UNCHANGED stored

\* Nothing to send for u, or the stored horizon could not be read.
Skip(u) ==
    /\ MayCompare(u)
    /\ PassOver(u)
    /\ poll' = [poll EXCEPT !.seen[u] = 0]
    /\ UNCHANGED <<clock, teams, puppet, unread, polled, handler, portalq, matrix, restarts,
                   history>>

UpsertLastRead_Lost(u, t) == UNCHANGED stored

\* ConsumptionHorizonQuery.UpsertLastRead: the row is overwritten, whatever it
\* held.
UpsertLastRead(u, t) == stored' = [stored EXCEPT ![u] = t]

Store ==
    /\ poll.pc = "store"
    /\ UpsertLastRead(poll.of, poll.seen[poll.of])
    /\ poll' = [poll EXCEPT !.pc = "sync", !.seen[poll.of] = 0, !.of = Self]
    /\ UNCHANGED <<clock, teams, puppet, unread, polled, handler, portalq, matrix, restarts,
                   history>>

\* The database fails; the next check sends the receipt again.
StoreFail ==
    /\ poll.pc = "store"
    /\ poll' = [poll EXCEPT !.pc = "sync", !.seen[poll.of] = 0, !.of = Self]
    /\ UNCHANGED <<clock, teams, stored, puppet, unread, polled, handler, portalq, matrix,
                   restarts, history>>

EndSync ==
    /\ poll.pc = "sync"
    /\ \A u \in User : poll.seen[u] = 0
    /\ poll' = Idle
    /\ UNCHANGED <<clock, teams, stored, puppet, unread, polled, handler, portalq, matrix,
                   restarts, history>>

-----------------------------------------------------------------------------
(* A Matrix receipt (handlematrix.go, HandleMatrixReadReceipt) *)

\* The time now; at its bound the clock stands.
Stamp == IF clock < MaxTime THEN clock + 1 ELSE clock

\* shouldSendReceipt asked before ownHorizonCovers.
Answer_MarkFirst(r) ==
    /\ unread' = FALSE
    /\ IF unread /\ r > stored[Self]
       THEN clock' = Stamp /\ handler' = [pc |-> "sending", now |-> Stamp]
       ELSE UNCHANGED <<clock, handler>>

\* Is the position already on Teams, as for the echo of the user's own receipt
\* (ownHorizonCovers; unknown when the row cannot be read)?  Then nothing is
\* done.  Is anything unread (shouldSendReceipt)?  Then the mark is used up, and
\* the chat is about to be marked read as of now.
Answer(r) ==
    \/ /\ r <= stored[Self] \/ ~unread
       /\ UNCHANGED <<clock, unread, handler>>
    \/ /\ unread
       /\ unread' = FALSE
       /\ clock' = Stamp
       /\ handler' = [pc |-> "sending", now |-> Stamp]

Receive ==
    /\ handler.pc = "idle"
    /\ \E r \in inbox : inbox' = inbox \ {r} /\ Answer(r)
    /\ UNCHANGED <<teams, stored, puppet, polled, poll, portalq, bridged, shown, restarts,
                   history>>

\* No token: the receipt is refused before anything is looked at.
Refuse ==
    /\ handler.pc = "idle"
    /\ \E r \in inbox : inbox' = inbox \ {r}
    /\ UNCHANGED <<clock, teams, stored, puppet, unread, polled, poll, handler, portalq,
                   bridged, shown, restarts, history>>

\* SetConsumptionHorizon reaches Teams, and its answer the bridge, or not.
Set ==
    /\ handler.pc = "sending"
    /\ horizon' = [horizon EXCEPT ![Self] = Later(@, handler.now)]
    /\ handler' \in {[handler EXCEPT !.pc = "recording"], NoReceipt}
    /\ UNCHANGED <<clock, posted, own, stored, puppet, unread, polled, poll, portalq, matrix,
                   restarts, history>>

\* It does not reach Teams.  The mark is gone all the same.
SetFail ==
    /\ handler.pc = "sending"
    /\ handler' = NoReceipt
    /\ forgotten' = Later(forgotten, handler.now)
    /\ UNCHANGED <<clock, teams, stored, puppet, unread, polled, poll, portalq, matrix,
                   restarts, readInTeams, recorded, dropped>>

\* recordOwnHorizon, which may fail unnoticed.
Record ==
    /\ handler.pc = "recording"
    /\ \/ UpsertLastRead(Self, handler.now) /\ recorded' = Later(recorded, handler.now)
       \/ UNCHANGED <<stored, recorded>>
    /\ handler' = NoReceipt
    /\ UNCHANGED <<clock, teams, puppet, unread, polled, poll, portalq, matrix, restarts,
                   readInTeams, forgotten, dropped>>

-----------------------------------------------------------------------------
(* bridgev2's side: the portal's loop and Matrix *)

\* A message becomes visible in the room.
HandleMessage ==
    /\ portalq # <<>>
    /\ Head(portalq).kind = "message"
    /\ portalq' = Tail(portalq)
    /\ bridged' = Later(bridged, Head(portalq).at)
    /\ UNCHANGED <<clock, teams, stored, puppet, unread, polled, poll, handler, shown, inbox,
                   restarts, history>>

\* A receipt is shown.  The user's own, sent by the double puppet, may come back
\* as a Matrix receipt.
HandleReceipt ==
    /\ portalq # <<>>
    /\ Head(portalq).kind = "receipt"
    /\ portalq' = Tail(portalq)
    /\ LET u == Head(portalq).of
           t == Head(portalq).at
       IN  /\ shown' = [shown EXCEPT ![u] = Later(@, t)]
           /\ inbox' = inbox \/ (u = Self /\ inbox' = inbox \cup {t})
    /\ UNCHANGED <<clock, teams, stored, puppet, unread, polled, poll, handler, bridged,
                   restarts, history>>

\* The user reads the room up to its last message in a Matrix client.
ReadOnMatrix ==
    /\ bridged > shown[Self]
    /\ shown' = [shown EXCEPT ![Self] = bridged]
    /\ inbox' = inbox \cup {bridged}
    /\ UNCHANGED <<clock, teams, stored, puppet, unread, polled, poll, handler, portalq,
                   bridged, restarts, history>>

-----------------------------------------------------------------------------
(* The surroundings *)

Post ==
    /\ clock < MaxTime
    /\ clock' = clock + 1
    /\ posted' = posted \cup {clock'}
    /\ own' \in {own, own \cup {clock'}}
    /\ UNCHANGED <<horizon, stored, puppet, unread, polled, poll, handler, portalq, matrix,
                   restarts, history>>

\* Someone, the user perhaps, reads the chat in a Teams client.
ReadInTeams ==
    /\ clock < MaxTime
    /\ clock' = clock + 1
    /\ \E u \in User :
          /\ horizon' = [horizon EXCEPT ![u] = clock']
          /\ readInTeams' = IF u = Self THEN clock' ELSE readInTeams
    /\ UNCHANGED <<posted, own, stored, puppet, unread, polled, poll, handler, portalq, matrix,
                   restarts, recorded, forgotten, dropped>>

\* The user sets up double puppeting.
SetUpPuppet ==
    /\ ~puppet
    /\ puppet' = TRUE
    /\ UNCHANGED <<clock, teams, stored, unread, polled, poll, handler, portalq, matrix,
                   restarts, history>>

\* The receipts of u that are stored as sent but still wait.
Waiting(u) == {i \in 1 .. Len(portalq) :
    portalq[i].kind = "receipt" /\ portalq[i].of = u /\ portalq[i].at <= stored[u]}

ResumeAt_Start == 0

\* Polling resumes after the last message handled, as ThreadCursor shows.
ResumeAt == bridged

\* The bridge restarts: memory is lost, and the portal's queue with it.
Restart ==
    /\ restarts < MaxRestarts
    /\ restarts' = restarts + 1
    /\ unread' = FALSE
    /\ polled' = ResumeAt
    /\ poll' = Idle
    /\ handler' = NoReceipt
    /\ portalq' = <<>>
    /\ inbox' = {}
    /\ forgotten' = Later(forgotten, bridged)
    /\ dropped' = [u \in User |-> IF Waiting(u) = {} THEN dropped[u]
                                  ELSE Later(dropped[u], stored[u])]
    /\ UNCHANGED <<clock, teams, stored, puppet, bridged, shown, readInTeams, recorded>>

PollPass ==
    \/ QueueMessage \/ Mark \/ FetchHorizons \/ Store \/ StoreFail \/ EndSync
    \/ \E u \in User : QueueReceipt(u) \/ Skip(u)

MatrixReceipt == Receive \/ Refuse \/ Set \/ SetFail \/ Record

Portal == HandleMessage \/ HandleReceipt

Next ==
    \/ PollPass
    \/ MatrixReceipt
    \/ Portal
    \/ ReadOnMatrix
    \/ Post
    \/ ReadInTeams
    \/ SetUpPuppet
    \/ Restart

Spec == Init /\ [][Next]_vars

\* The poll loop and the portal's loop go on, a Matrix receipt is answered, and
\* requests, lookups and the database get through when tried for ever.
Fairness ==
    /\ WF_vars(PollPass)
    /\ \A u \in User : SF_vars(QueueReceipt(u))
    /\ SF_vars(Store)
    /\ WF_vars(MatrixReceipt)
    /\ WF_vars(Portal)

FairSpec == Spec /\ Fairness

-----------------------------------------------------------------------------
(* Properties *)

\* Types; a message is bridged after it was polled, polled after it was posted.
TypeOK ==
    /\ clock \in Time
    /\ posted \subseteq 1 .. clock /\ own \subseteq posted
    /\ horizon \in [User -> Time]
    /\ stored \in [User -> Time]
    /\ puppet \in BOOLEAN
    /\ unread \in BOOLEAN
    /\ polled \in Time
    /\ poll \in Poll
    /\ handler \in Handler
    /\ portalq \in Seq(Event) /\ Len(portalq) <= Buffer
    /\ bridged \in Time
    /\ shown \in [User -> Time]
    /\ inbox \subseteq Time
    /\ restarts \in 0 .. MaxRestarts
    /\ readInTeams \in Time /\ recorded \in Time /\ forgotten \in Time
    /\ dropped \in [User -> Time]
    /\ bridged <= polled /\ polled <= clock

\* The unread mark lasts until Teams has been told: a message from someone else
\* is read on Teams, or the mark is there, or a request under way will read it,
\* or the mark was lost for it by a restart or a failed request ("once per run of
\* incoming messages", handlematrix.go:281).  A receipt that is the echo of the
\* user's own does not use it up.
UnreadRemembered ==
    \A m \in posted \ own : m <= polled =>
        \/ m <= horizon[Self]
        \/ unread
        \/ handler.pc = "sending" /\ m <= handler.now
        \/ poll.pc = "mark" /\ poll.msg = m
        \/ m <= forgotten

\* What another participant has read in Teams is shown on Matrix, again and
\* again, failing lookups or not, unless a restart lost the receipt after it was
\* stored as sent (syncParticipantHorizon).
RemoteReadsShown ==
    \A u \in Other : []<>(shown[u] >= horizon[u] \/ dropped[u] >= horizon[u])

\* What the user has read in a Teams client shows as read on Matrix once they
\* have a double puppet ("not recorded, so it is sent once double puppeting
\* exists", receipt_sync.go:96), unless a restart lost the receipt or the bridge
\* has itself set and stored a later position before the next check.
OwnReadsShown ==
    []<>(puppet => \/ shown[Self] >= readInTeams
                   \/ dropped[Self] >= readInTeams
                   \/ recorded >= readInTeams)

\* The two directions do not answer each other for ever: once nobody reads or
\* posts, no receipt is sent either way (stored horizons, ownHorizonCovers, and
\* the mark used up by the first receipt).
EchoDiesOut ==
    <>[](portalq = <<>> /\ inbox = {} /\ handler.pc = "idle")
=============================================================================
