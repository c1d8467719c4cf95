----------------------------- MODULE ThreadCursor -----------------------------
(***************************************************************************)
(* The poll cursor of one Teams thread (pkg/connector/message_poller.go,   *)
(* cursor_commit.go; internal/teams/client/messages.go, ListMessages).     *)
(*                                                                         *)
(* A poller fetches the messages after the cursor, queues an event per     *)
(* message on the chat's portal queue and, when the whole page is queued,  *)
(* carries on from there in memory.  bridgev2 handles the events later and *)
(* calls each event's PostHandle hook; the hook of a page's last event     *)
(* saves the page's newest position as the thread's cursor in the          *)
(* database.  A restart loses every queue and every position in memory.    *)
(* A re-login replaces the client, memory and poller, of the same login;   *)
(* the old one may still be in the middle of a pass.                       *)
(*                                                                         *)
(* A message is its sequence ID, 1, 2, ...; 0 is the empty sequence ID.    *)
(***************************************************************************)
EXTENDS Integers, Sequences, FiniteSets

CONSTANTS
    Kinds,         \* kinds of message the thread carries, see AllKinds
    PageSize,      \* listMessagesPageSize
    MaxCatchup,    \* listMessagesMaxCatchupPages
    Buffer,        \* bridgev2.PortalEventBuffer; 0: events handled as queued
    AsyncEvents,   \* bridgev2's bridge.async_events
    LookupMayFail, \* bridgev2 may refuse an event (it cannot load the portal)
    MaxPages,      \* bound: pages (cursorCommit objects) open at a time
    MaxMsg,        \* bound: messages ever posted
    MaxClients,    \* bound: clients of the login within one process
    MaxRestarts    \* bound: restarts of the bridge

\* "message": an event that may create the chat's room (a message, a notice);
\* "amend": an edit or delete sent as a message of its own, which may not;
\* "bookkeeping": a Teams system message nothing is queued for.
AllKinds == {"message", "amend", "bookkeeping"}

ASSUME ConstantsAssumption ==
    /\ Kinds \subseteq AllKinds
    /\ PageSize \in Nat \ {0}
    /\ MaxCatchup \in Nat \ {0}
    /\ Buffer \in Nat
    /\ AsyncEvents \in BOOLEAN
    /\ LookupMayFail \in BOOLEAN
    /\ MaxPages \in Nat
    /\ MaxMsg \in Nat
    /\ MaxClients \in Nat \ {0}
    /\ MaxRestarts \in Nat

VARIABLES
    thread,    \* Teams: the kinds of the messages posted so far
    cursor,    \* database: teams_thread_state.last_sequence_id
    room,      \* database: the chat has a Matrix room
    client,    \* the login's current client
    queued,    \* threadCursors.queued of each client, 0 when absent
    saved,     \* threadCursors.saved of each client, 0 when absent
    poller,    \* each client's progress through pollThread
    page,      \* the pages whose cursor is not saved yet
    portalq,   \* bridgev2: the portal's event channel
    running,   \* bridgev2: events taken off the channel, not yet handled
    restarts,
    \* History, not program state:
    finished,  \* messages bridgev2 is done with: handled, dropped or refused
    history,   \* messages from before the first poll, left to backfill
    lost       \* messages after the cursor that a catch-up did not return

memory == <<client, queued, saved, poller, page, portalq, running>>
vars == <<thread, cursor, room, memory, restarts, finished, history, lost>>

Msg == 1 .. MaxMsg
Pos == 0 .. MaxMsg
Client == 1 .. MaxClients
Page == 1 .. MaxPages

\* A page's cursorCommit: the counts not given up yet, one per event (named by
\* its message) and the page's own, and the position to save, 0 until release.
\* With no count left it is finished with and its identity is free again.
Commit == [owner : Client, left : SUBSET Pos, pos : Pos]
OwnCount == 0
NoCommit == [owner |-> 1, left |-> {}, pos |-> 0]
Open(p) == page[p].left # {}

Event == [msg : Msg, page : Page]
PollState ==
    [pc : {"idle", "listed", "fetching", "queueing"}, th : Pos, next : 0 .. MaxMsg + 1,
     top : Pos, page : 0 .. MaxPages]

Later(a, b) == IF a >= b THEN a ELSE b

Idle == [pc |-> "idle", th |-> 0, next |-> 0, top |-> 0, page |-> 0]

Init ==
    /\ thread = <<>>
    /\ cursor = 0
    /\ room = FALSE
    /\ client = 1
    /\ queued = [c \in Client |-> 0]
    /\ saved = [c \in Client |-> 0]
    /\ poller = [c \in Client |-> Idle]
    /\ page = [p \in Page |-> NoCommit]
    /\ portalq = <<>>
    /\ running = {}
    /\ restarts = 0
    /\ finished = {}
    /\ history = {}
    /\ lost = {}

-----------------------------------------------------------------------------
(* Saving the cursor (cursor_commit.go) *)

\* A name ending in an underscore and a word is a deliberately wrong form of the
\* definition after it, against which the properties are tried.
NoteQueued_OffByOne(q, c, pos) == [q EXCEPT ![c] = Later(@, pos + 1)]

\* noteQueued: the newest position queued, never an older one.
NoteQueued(q, c, pos) == [q EXCEPT ![c] = Later(@, pos)]

NeedsSave_Always(c, pos) == TRUE

\* needsSave.
NeedsSave(c, pos) == pos > saved[c]

\* saveCursor, entered with the clients' queued positions at q: under saveMu
\* the position is written unless this client saved a newer one.  A failed
\* UPDATE leaves everything as it was.
SaveCursor(c, pos, q) ==
    \/ /\ NeedsSave(c, pos)
       /\ cursor' = pos
       /\ saved' = [saved EXCEPT ![c] = pos]
       /\ queued' = [q EXCEPT ![c] = IF @ > pos THEN @ ELSE 0]
    \/ queued' = q /\ UNCHANGED <<cursor, saved>>

\* cursorCommit.track: count one more event.
Track_Forgotten(p, m) == page
Track(p, m) == [page EXCEPT ![p].left = @ \cup {m}]

\* The release of a page saves it at once.
Done_EarlySave(p, count, pos, q) ==
    LET left == page[p].left \ {count} IN
    IF left = {} \/ count = OwnCount
    THEN page' = [page EXCEPT ![p].left = left] /\ SaveCursor(page[p].owner, pos, q)
    ELSE page' = [page EXCEPT ![p].left = left] /\ queued' = q /\ UNCHANGED <<cursor, saved>>

\* The last count but one saves.
Done_OffByOne(p, count, pos, q) ==
    LET left == page[p].left \ {count} IN
    IF Cardinality(left) <= 1 /\ pos > 0
    THEN page' = [page EXCEPT ![p] = NoCommit] /\ SaveCursor(page[p].owner, pos, q)
    ELSE page' = [page EXCEPT ![p].left = left, ![p].pos = pos] /\ queued' = q
         /\ UNCHANGED <<cursor, saved>>

\* cursorCommit.done: give up one count of page p, whose position is pos; the
\* count that reaches zero saves.
Done(p, count, pos, q) ==
    LET left == page[p].left \ {count} IN
    IF left = {}
    THEN /\ page' = [page EXCEPT ![p] = NoCommit]
         /\ SaveCursor(page[p].owner, pos, q)
    ELSE /\ page' = [page EXCEPT ![p].left = left, ![p].pos = pos]
         /\ queued' = q
         /\ UNCHANGED <<cursor, saved>>

-----------------------------------------------------------------------------
(* The poll loop's pass over the thread (message_poller.go) *)

\* The oldest message of the k-th page back from message hi.
OldestOfPage(hi, k) == Later(1, hi - k * PageSize + 1)

\* ListMessages after th: where the returned messages may begin.  Without a
\* cursor one page is enough; otherwise it pages back until it reaches th,
\* a page fetch other than the first fails, or it has fetched MaxCatchup.
OldestReturned(th, hi) ==
    IF th = 0
    THEN {OldestOfPage(hi, 1)}
    ELSE {Later(th + 1, OldestOfPage(hi, k)) : k \in 1 .. MaxCatchup}

\* pollPass: ListForLogin reads the thread's row, cursor included.  Only the
\* current client starts a pass: pollDueThreads ends a superseded client's loop.
List(c) ==
    /\ c = client
    /\ poller[c].pc = "idle"
    /\ poller' = [poller EXCEPT ![c] =
          [pc |-> "listed", th |-> cursor, next |-> 0, top |-> 0, page |-> 0]]
    /\ UNCHANGED <<thread, cursor, room, client, queued, saved, page, portalq, running,
                   restarts, finished, history, lost>>

\* fetchThreadPage: ensureValidSkypeToken refuses a superseded client; then the
\* poll carries on from the position in memory if that is newer than the row.
Fetch(c) ==
    /\ c = client
    /\ poller[c].pc = "listed"
    /\ poller' = [poller EXCEPT ![c].pc = "fetching", ![c].th = Later(@, queued[c])]
    /\ UNCHANGED <<thread, cursor, room, client, queued, saved, page, portalq, running,
                   restarts, finished, history, lost>>

\* No token, a superseded client, or the first page's request failed.
FetchFail(c) ==
    /\ poller[c].pc \in {"listed", "fetching"}
    /\ poller' = [poller EXCEPT ![c] = Idle]
    /\ UNCHANGED <<thread, cursor, room, client, queued, saved, page, portalq, running,
                   restarts, finished, history, lost>>

\* ListMessages answers with nothing after the cursor.
RespondEmpty(c) ==
    /\ poller[c].pc = "fetching"
    /\ Len(thread) <= poller[c].th
    /\ poller' = [poller EXCEPT ![c] = Idle]
    /\ UNCHANGED <<thread, cursor, room, client, queued, saved, page, portalq, running,
                   restarts, finished, history, lost>>

\* ListMessages answers with new messages: pollThread opens a cursorCommit and
\* starts queueing them.
Respond(c) ==
    LET th == poller[c].th
        hi == Len(thread)
        p == CHOOSE x \in Page : ~Open(x)
    IN  /\ poller[c].pc = "fetching"
        /\ hi > th
        /\ \E x \in Page : ~Open(x)
        /\ \E lo \in OldestReturned(th, hi) :
              /\ poller' = [poller EXCEPT ![c] =
                    [pc |-> "queueing", th |-> th, next |-> lo, top |-> hi, page |-> p]]
              /\ IF th = 0
                 THEN history' = history \cup (1 .. lo - 1) /\ UNCHANGED lost
                 ELSE lost' = lost \cup (th + 1 .. lo - 1) /\ UNCHANGED history
        /\ page' = [page EXCEPT ![p] = [owner |-> c, left |-> {OwnCount}, pos |-> 0]]
        /\ UNCHANGED <<thread, cursor, room, client, queued, saved, portalq, running,
                       restarts, finished>>

\* queueUserMessage, queueNonUserMessage and queueForCursor for the page's next
\* message: nothing is queued for bookkeeping; an event is put on the portal's
\* channel and counted (the poller blocks while the channel is full), or bridgev2
\* finishes with it on the spot, having no channel or no portal for it.
QueueNext(c) ==
    LET m == poller[c].next
        p == poller[c].page
    IN  /\ poller[c].pc = "queueing"
        /\ m <= poller[c].top
        /\ poller' = [poller EXCEPT ![c].next = m + 1]
        /\ \/ /\ thread[m] = "bookkeeping"
              /\ UNCHANGED <<room, page, portalq, finished>>
           \/ /\ thread[m] # "bookkeeping"
              /\ Len(portalq) < Buffer
              /\ portalq' = Append(portalq, [msg |-> m, page |-> p])
              /\ page' = Track(p, m)
              /\ UNCHANGED <<room, finished>>
           \/ /\ thread[m] # "bookkeeping"
              /\ Buffer = 0 \/ LookupMayFail
              /\ finished' = finished \cup {m}
              /\ room' = (room \/ (Buffer = 0 /\ thread[m] = "message"))
              /\ UNCHANGED <<page, portalq>>
        /\ UNCHANGED <<thread, cursor, client, queued, saved, running, restarts,
                       history, lost>>

\* advancePageCursor: everything is queued, so the client carries on from the
\* page's newest message, and the page gives up its own count.
Advance(c) ==
    LET s == poller[c] IN
    /\ s.pc = "queueing"
    /\ s.next > s.top
    /\ Done(s.page, OwnCount, s.top, NoteQueued(queued, c, s.top))
    /\ poller' = [poller EXCEPT ![c] = Idle]
    /\ UNCHANGED <<thread, room, client, portalq, running, restarts, finished, history, lost>>

-----------------------------------------------------------------------------
(* bridgev2's side: the portal's event loop, as cursor_commit.go relies on it *)

\* The loop takes the next event; unless events are asynchronous it has
\* finished with the one before.
Take ==
    /\ portalq # <<>>
    /\ AsyncEvents \/ running = {}
    /\ running' = running \cup {Head(portalq)}
    /\ portalq' = Tail(portalq)
    /\ UNCHANGED <<thread, cursor, room, client, queued, saved, poller, page, restarts,
                   finished, history, lost>>

\* An edit or delete for a chat without a room is dropped: no hook runs.
Drop(e) ==
    /\ thread[e.msg] = "amend"
    /\ ~room
    /\ running' = running \ {e}
    /\ finished' = finished \cup {e.msg}
    /\ UNCHANGED <<thread, cursor, room, client, queued, saved, poller, page, portalq,
                   restarts, history, lost>>

\* Any other event is handled, for good or ill, and its hook counts it.
Handle(e) ==
    /\ thread[e.msg] = "message" \/ room
    /\ room' = TRUE
    /\ running' = running \ {e}
    /\ finished' = finished \cup {e.msg}
    /\ Done(e.page, e.msg, page[e.page].pos, queued)
    /\ UNCHANGED <<thread, client, poller, portalq, restarts, history, lost>>

-----------------------------------------------------------------------------
(* The surroundings *)

\* Someone posts to the thread.
Arrive ==
    /\ Len(thread) < MaxMsg
    /\ \E k \in Kinds : thread' = Append(thread, k)
    /\ UNCHANGED <<cursor, room, memory, restarts, finished, history, lost>>

\* The user logs in again: LoadUserLogin gives the login a new client.
Relogin ==
    /\ client < MaxClients
    /\ client' = client + 1
    /\ UNCHANGED <<thread, cursor, room, queued, saved, poller, page, portalq, running,
                   restarts, finished, history, lost>>

\* The bridge crashes or is restarted: only the database survives.
Restart ==
    /\ restarts < MaxRestarts
    /\ restarts' = restarts + 1
    /\ client' = 1
    /\ queued' = [c \in Client |-> 0]
    /\ saved' = [c \in Client |-> 0]
    /\ poller' = [c \in Client |-> Idle]
    /\ page' = [p \in Page |-> NoCommit]
    /\ portalq' = <<>>
    /\ running' = {}
    /\ UNCHANGED <<thread, cursor, room, finished, history, lost>>

Poll(c) ==
    \/ List(c)
    \/ Fetch(c)
    \/ FetchFail(c)
    \/ RespondEmpty(c)
    \/ Respond(c)
    \/ QueueNext(c)
    \/ Advance(c)

Portal == Take \/ \E e \in running : Drop(e) \/ Handle(e)

Next ==
    \/ \E c \in Client : Poll(c)
    \/ Portal
    \/ Arrive
    \/ Relogin
    \/ Restart

Spec == Init /\ [][Next]_vars

\* The poll loop and the portal's event loop keep running, and Teams does not
\* refuse a client for ever: a request tried again and again gets through.
Fairness ==
    /\ \A c \in Client :
          /\ WF_vars(List(c))
          /\ SF_vars(Fetch(c))
          /\ SF_vars(Respond(c))
          /\ WF_vars(QueueNext(c))
          /\ WF_vars(Advance(c))
    /\ WF_vars(Portal)

FairSpec == Spec /\ Fairness

-----------------------------------------------------------------------------
(* Properties *)

Bookkeeping == {m \in 1 .. Len(thread) : thread[m] = "bookkeeping"}

\* Messages the bridge owes nothing more for.
Settled == finished \cup history \cup lost \cup Bookkeeping

\* Events queued but not yet handled.
Waiting == {portalq[i] : i \in 1 .. Len(portalq)} \cup running

\* Types, and the ranges a poller's counters keep while it queues a page.
TypeOK ==
    /\ thread \in Seq(Kinds) /\ Len(thread) \in Pos
    /\ cursor \in Pos
    /\ room \in BOOLEAN
    /\ client \in Client
    /\ queued \in [Client -> Pos]
    /\ saved \in [Client -> Pos]
    /\ poller \in [Client -> PollState]
    /\ \A c \in Client : poller[c].pc = "queueing" =>
          poller[c].next \in 1 .. poller[c].top + 1 /\ poller[c].page \in Page
    /\ page \in [Page -> Commit]
    /\ portalq \in Seq(Event)
    /\ running \subseteq Event
    /\ restarts \in 0 .. MaxRestarts
    /\ finished \subseteq Msg
    /\ history \subseteq Msg
    /\ lost \subseteq Msg

\* The saved cursor never covers a message still waiting to be handled, so a
\* restart, which resumes from it, loses nothing ("Saving a thread's poll cursor
\* only after bridgev2 has handled what the poll queued", cursor_commit.go:3).
CursorBehindHandling == 1 .. cursor \subseteq Settled

\* A page's cursor is not saved while one of its events waits to be handled,
\* in whatever order the events are handled (cursorCommit.done).
PageWaitsForItsEvents ==
    \A e \in Waiting : e.msg \in page[e.page].left

\* "A page whose handling finishes late (bridge.async_events) cannot move the
\* cursor back" (cursor_commit.go:55), as long as no re-login has replaced the
\* client: the new one has its own threadCursors.
CursorNeverMovesBack == [][client = 1 => cursor' >= cursor]_vars

\* A catch-up returns every message after the cursor ("so messages that arrived
\* between two polls are not lost", messages.go:75).
CatchUpComplete == lost \ finished = {}

\* Every message posted is settled in the end, restarts or not.
EveryMessageSettled ==
    \A m \in Msg : (m <= Len(thread)) ~> (m \in Settled)

\* The poller implements what polling promises.
Delivery == INSTANCE MessageDelivery WITH
    posted <- Len(thread), settled <- Settled, checkpoint <- cursor

DeliverySpec == Delivery!Spec
=============================================================================
