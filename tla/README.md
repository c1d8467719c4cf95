# Verification of mautrix-teams

TLA+ models, model-checking runs and machine-checked proofs for the
Matrix–Teams bridge in this repository. The code is the reference: each
definition translates code, and `PROJECT.json` ("map") gives its lines. Paths
below are relative to `pkg/connector/` unless they name another directory.

The bridge has to carry every message of every Teams chat to Matrix exactly
once, follow what happens to it afterwards, keep doing so through rate limits,
failures, expired tokens and restarts, and tell the user the truth about it.
The models are about that; wording, HTML and layout are left out.

## 1. The system and its parts

One process runs bridgev2 (a library outside this repository) and, for each
user's login, one `TeamsClient`. Its goroutines are the poll loop, the
long-poll loop, the presence loop and, for each Matrix event, a handler;
bridgev2 runs one loop per portal (room), which takes the events the connector
queued. They share the client's maps (each under a mutex), the tokens (under
`tokenMu`), the database and the Teams services.

| Part | State | Operations | What is hard |
|---|---|---|---|
| Thread cursor and page polling (`message_poller.go`, `cursor_commit.go`, `internal/teams/client/messages.go`, `pkg/teamsdb/thread_state.go`) | saved cursor (database); positions queued and saved (memory); one commit count per page | fetch and catch up, queue a page's events, count down in PostHandle hooks, save | events are handled later, elsewhere, in any order with `async_events`; restart; re-login; a failing page |
| In-place changes (`edit_sync.go`, `reaction_sync.go`) | last edit state and reaction signature seen, per message (memory); bridged parts and reactions (database) | compare with memory, then with the database; queue edit, delete, reactions | the database lags behind the queue; memory is lost in a restart; lookups fail |
| Poll loop (`message_poller.go`, `poll_wake.go`, `poll_limits.go`, `poll_backoff.go`) | a backoff and a next poll per thread, the pause, discovery and activity timers, wakeup queue | pass, discovery, activity check, wakeup, park, pause, sleep | one clock reading per pass; 429 anywhere in it; growing delays; chats found late |
| Login state (`client.go` Connect, `sync_loop.go` token refresh, `reachability.go`, `client_lifecycle.go`) | token and its expiry, remembered refresh failure, unanswered requests in a row, outstanding credential failure, state last sent | connect, check token, refresh, note a result, send a state | decisions under a lock, sends after it; one failure answers many polls; outage and refusal mixed |
| Read receipts (`receipt_sync.go`, `handlematrix.go`) | stored horizon per participant, unread mark | poll horizons, queue receipts, set own horizon | both sides write; echo; a failed request after the mark is used up |
| Outbound messages (`handlematrix.go`, `send_attachment.go`, `internal/teams/client/executor.go`, `internal/teams/graph`) | pending entries (memory), retries left, next range of an upload | download, upload, share, send, retry, give up, recognise the echo | a timed-out send that arrived; the echo before the answer; the server decides how an upload goes on |
| Outbound edits, redactions, reactions (`handlematrix.go`, `reactions.go`) | the message in Teams, the reaction's row | one request each, the row after it | the poller finds them before the row is there, or never |
| Login flows, Skype, Graph and resource tokens (`login*.go`, `internal/teams/auth`, `sync_loop.go`, `graph_token.go`, `resource_tokens.go`) | one refresh token for all (memory, database); the login's current client | sign in, exchange, refresh, rotate, save, replace the client | rotation by one path and a save by another; an old client that still refreshes; check, then act, on "superseded" |
| Sync tasks and long-poll loop (`sync_loop.go`, `connector.go`, `internal/teams/client/longpoll.go`) | cancel function, goroutines of each run; endpoint, failures in a row, `longPollUp` | start, stop with a time limit, replace; register, poll, register afresh | a Connect under way while a stop finds nothing to stop; an endpoint lost while the network is |
| Thread discovery, names, team spaces (`thread_discovery.go`, `team_spaces.go`, `ghost_names.go`, `client.go` GetChatInfo and GetUserInfo) | rows and profiles (database), chat-info signatures, name-lookup misses, the portal's name, parent and space | list conversations, store rows, announce, name groups and people, make and repair spaces | several passes name the same chat; what is remembered against what was announced; creation cut short |
| Chat state, pinned and saved messages (`chat_state.go`, `pinned_messages.go`, `saved_messages.go`, `handlematrix.go`, bot commands) | one "last seen" value per chat or list (memory) | observe, announce, set from Matrix or by command, publish | the echo of one side to the other; recorded before announced; two goroutines and one list |
| Presence, directory, caches, inbound attachments, conversion, configuration | — | requests, rendering, bounds on memory | not modelled, section 7 |

What makes each modelled part correct is the list of properties in section 3;
the hazards behind them, each at its line, are in `PROJECT.json`.

How they interact. Connect starts a run of goroutines, and a re-login another
client's (SyncTasks). One of them is the poll loop, which discovers the chats and
names them (ChatRooms), compares their marks and lists (ChatState), and decides when
a thread is polled (PollLoop). A poll fetches a page after the thread's cursor
(ThreadCursor), queues an event per new message and the changes of the messages it
has seen before (InPlaceSync), and the events' hooks save the cursor. What the user
sends comes back in such a page (Outbound), as do the user's edits and reactions
(InPlaceSync) and read positions (ReadReceipts). Before each request a token is
checked; what a refresh does to the one refresh token is TokenRotation, and what its
outcome does to the state the login shows is LoginState. The modules meet where the
code calls: `PollThread` of PollLoop is one run of `pollThread`, which is
ThreadCursor's `List` to `Advance`; SyncTasks' `poll` is the loop PollLoop models;
`Poll` of Outbound and `SaveCursor` of InPlaceSync are all those two need of
ThreadCursor (a message is polled some time after it was posted, and the cursor is
saved some time after it was handled); LoginState's `Request` is any of the requests
of the others, and its refresh one of TokenRotation's. The loop's wake-ups reach
PollLoop from SyncTasks' long-poll loop, and PollLoop does not rely on them: a
wake-up there comes at any time or never.

## 2. Modules

**MessageDelivery** is the promise, without tokens, pages or queues: messages
are numbered as they are posted, each is settled at some time, and the
checkpoint a restart resumes from only covers settled messages.

**ThreadCursor** is one thread of one login. `List`, `Fetch`, `FetchFail`,
`RespondEmpty`, `Respond`, `QueueNext` and `Advance` are the steps of
`pollThread` and `ListMessages`, split where the code sends a request or
queues an event, since events are handled meanwhile. `page` holds the
`cursorCommit` objects: the counts left, one per event and the page's own, and
the position to save. `Take`, `Drop` and `Handle` are bridgev2's portal loop;
`Relogin` replaces client, memory and poller while the old client is in the
middle of a pass; `Restart` keeps the database only. `finished`, `history` and
`lost` are history variables. The sequence ID is a number; typing controls,
which never move the cursor, are left out.

**InPlaceSync** is one message after it was posted. Teams users edit it,
delete it and react; the poller fetches it, compares with its memory, asks the
database, queues events; the portal handles them; lookups fail; a restart
loses memory and queue. A message's content is its edit time. The user of the
bridge, `Self`, is one of the users and does the same from Matrix: an edit or a
redaction is one request, whose result the poller finds as it finds any other
change; a reaction is a request (`HandleMatrixReaction`) and then a row
(`AddReaction`, once `asked`), with the poller free to come in between. It is
assumed of bridgev2 that the rows of a redacted message or reaction are there
until the poller's own event for them is handled, or that the two amount to the
same.

**PollBackoff** and **PollLoop** are the schedule. Timers are kept as time to go,
relative to the start of the last pass while one runs, because the code takes the time
once per pass. The delay of PollBackoff is written as `Odd * 2^Twos * BaseDelay` with
its real 64-bit overflow (section 4). The request tally, cache sweep and team sync take
no part in the schedule. A thread never leaves the list.

**LoginState** is the state one client shows. A worker checks the token and
sends a request; a loop reports a failed check, a Matrix handler only returns
it. Each tracker changes under its lock in one step and the resulting state is
sent in a later one, as in the code. Refusals are model values; an unanswered
request is one whatever was wrong on the way.

**ReadReceipts** is the read position of one chat, in both directions. The poll
pass is `QueueMessage` and `Mark` (two steps, as in `queueUserMessage`: the event
is queued before the chat is marked), then `FetchHorizons`, and for each
participant `QueueReceipt` and `Store`, or `Skip`. A Matrix receipt is `Receive`
(which uses the mark up), `Set` or `SetFail`, and `Record`; bridgev2 hands over a
user's receipts one at a time. Messages and positions are stamps of one clock,
since the code compares nothing but times. How far apart the checks are is left
open. When the portal handles a message before the poll loop has marked it, and
the user's receipt for it arrives in between, the mark stays and Teams is told
only by the next receipt: `UnreadRemembered` allows it.

**Outbound** is what the user sends from Matrix. Each send is a text or a file, with
a handler of its own: `Start` saves the pending entry, a file goes through
`Download`, a session with `PutChunk` for each piece or one `PutSmall`, and
`CreateShareLink`; `Post` is the request reaching Teams or not, and `Sent`,
`Refused` and `Unanswered` what the handler then learns, with the executor's
retries. Teams may or may not know a client message ID it is sent twice. `Poll` and
`HandleMessage` bring every message of the thread back: one with an entry is
confirmed, any other bridged. The server names the next piece of an upload as it
likes, one it holds and one past the end included. The code has no bound of its own on
how often it is asked for a piece again (`chunked_upload.go:100`); that the server stops
asking (`MaxRepeats`) is an assumption about it, which no property checks. `doubt` and `orphaned` are history.

**TokenRotation** is the refresh token, which the Skype, Graph and resource
refreshes share. `family` says which sign-in a token stems from, and `valid` which
tokens the identity provider accepts: an answer may bring the same token, or a new
one with or without the end of the old. The steps of the two sign-in flows are those
that may rotate or fail. A re-login saves first (`NewLogin`) and replaces the client
then (`LoadUserLogin`), and `saveLogin` is `BeginSave` (superseded?) and `EndSave`
(the write). `unsaved`, `lost` and `torn` are history.

**SyncTasks** is the goroutines of every run of every client of a login, with
`Connect` split where it asks for tokens, `cancel` the run that `syncCancel` can still
cancel, and `Superseded` read where the code reads it. A run is seeded by a full sync,
then it is the poll loop and, beside it, the long-poll loop with its endpoint. Its
presence loop ends as the poll loop does and is left out. Its `TasksInit`, `TasksSpec`
and `TasksTypeOK` carry the prefix so that the proofs about a client can extend it
beside LoginState; `CheckTokens` is what `Connect` does before it starts the run.

**ChatRooms** is the room of one chat of any kind (DM, group, meeting, channel, the
notes stream). The loop's passes come in the order of `syncLoop`: ghost names from
profiles, discovery (rows, names, signatures, a ChatResync), then, after the first
full sync, unnamed groups, the repair of a team's space, the team sync and the
channels' parents; afterwards discovery and the team sync by the clock. The portal
handles what was queued and may fail. A name is a title with a form (generic, plain,
structured), which is all `ChooseStoredName` and the signatures tell apart. A message
carries a name its sender had at some time (`FormerNames`), which is saved as it is and
given to the ghost; it may come while the full sync polls or later. The saves of a row
and a profile may fail, and so may the repair of a space. A lookup of a name, with its
read of the profile, its request and its save, is one step, except where the ghost is
named after it (`AskName`, `GetUserInfo`). A second message and a row not
saved after another failure are beyond the run.

**ChatState** is what the user keeps of a chat: marks (pinned, muted, unread), pinned
messages and saved messages. The three share no state, so a behaviour is about one of
them (`part`). Each is a tracker in memory between two sides that both write. A pass
reads the list and the pinned chats in two requests and then announces; a Matrix tag
is handled by the portal and written by a request; pinned messages are read, written
and remembered in steps, by a refresh and by handlers that run side by side; saved
messages are published by the loop and by a command from one tracker, with the
reading, collecting, linking, sending and recording as steps of their own. `missed`
is a history variable. bridgev2 is taken to apply tags and mutes to rooms that exist
(both `..._only_on_create` settings false).

Names ending in an underscore and a word (`Answered_Silent`) are wrong forms of
the definition after them. Each property is tried against one of these, and
fails there.

## 3. Runs

| Run | Instance | What it shows |
|---|---|---|
| `cursor_delivery` | 4 messages, pages of 1, 1 restart, events handled in order | the poller implements MessageDelivery (`DeliverySpec`, a refinement with the saved cursor as checkpoint); the saved cursor never passes a message still queued (`CursorBehindHandling`); every message is settled (`EveryMessageSettled`) |
| `cursor_async` | 3 messages, asynchronous and refused events, bookkeeping messages, 2 clients | a page waits for its own events (`PageWaitsForItsEvents`); a client never moves the cursor back (`CursorNeverMovesBack`) |
| `catch_up` | 4 messages, catch-up of up to 3 pages of 1 | **fails** (`CatchUpComplete`): when a later page of a catch-up cannot be fetched, the messages in between are never asked for again |
| `in_place_sync` | `Self` and one more user, 4 changes on either side, failing lookups, 1 restart | a bridged delete is final (`NeverResurrected`); changes and reactions, of Teams users and the user's own, end up bridged unless they were overlooked in one of the ways the code has (`ChangesBridgedUnlessOverlooked`, `ReactionsBridgedUnlessOverlooked`) |
| `poll_loop` | 2 threads, one unknown at start, passes that take time | no thread is polled during a pause (`NoPollWhilePaused`); the loop never sleeps past what is due (`NeverSleepsPastDue`); every message is polled in the end (`UnreadPolled`) |
| `login_state` | 1 loop, 2 refusals, 4 changes of network or grant | a failed refresh is announced once however many polls it answers (`AnnouncedOnce`); the login is shown as connected again once all is well (`StateRecovers`) |
| `read_receipts` | the user and one participant, 3 events, 1 restart | the unread mark lasts until Teams is told (`UnreadRemembered`); what is read in Teams is shown on Matrix (`RemoteReadsShown`, `OwnReadsShown`); the two sides do not answer each other for ever (`EchoDiesOut`) |
| `outbound` | a text and a file of 2 pieces sent at once, 1 retry, 1 piece asked for again, 1 restart | one's own message does not come back as a new event (`OwnMessagesOnce`); no message is posted before its file (`FileBeforeMessage`); every send gets a receipt or an error (`EverySendSettled`) |
| `token_rotation` | 3 logins, 4 tokens, 1 restart | the saved refresh token is one the identity provider accepts (`SavedTokenAccepted`); a replaced client does not save over the new login (`NewLoginStays`) |
| `sync_tasks` | 2 clients, 1 Connect more, 2 faults, an endpoint registered afresh after 2 failures | what was told to stop stops for good (`StaysStopped`); a long-poll loop that runs is heard again (`HeardAgain`) |
| `chat_rooms` | a chat of each kind and shape, 1 change in Teams, 1 message, 1 fault and before it 1 row not saved, 1 restart | a room is not renamed back, but to what its person's profile has (`NeverRenamedBack`); it comes to be named and filled as in Teams (`NamesSettle`) and placed in its team's space (`ChannelInSpace`) |
| `chat_state` | 2 messages, 1 bridged at the start, 2 changes, 1 fault, 1 restart | the room shows the marks the chat has (`MarksShown`), the same messages pinned (`PinsAgree`) and the saved list (`SavedPublished`) |

Each module's type invariant is checked in one run of it. Where the types say more than
types (a queue that stays short, a token that is never missing, retries within their
limit) the comment over `TypeOK` says so. The failing run checks what a comment of the
code says; `PROJECT.json` ("findings") quotes it.

**Named losses.** Where the code may lose something, a property says so by a history
variable, set in the step that loses it and only there, and owes nothing more
after it. These are, each with the weakness (section 4) it stands for:

| Module | Variable | Set when |
|---|---|---|
| InPlaceSync | `overlooked` | the database was asked before the portal had handled what was queued; the last reaction was removed before a poll saw it, or one made on Matrix was, so that the poll finds the state it saw last |
| ReadReceipts | `forgotten`, `dropped`, `recorded` | a failed request after the mark was used up; a restart before a queued receipt is handled; an older position hidden by one the bridge has set |
| Outbound | `doubt`, `orphaned` | an attempt without an answer; a restart with an entry pending |
| TokenRotation | `unsaved`, `lost`, `torn` | a save that failed; a rotated token whose answer did not arrive or was not kept; a save of the old client under way at the re-login |
| ChatRooms | `missed`, `unsaved` | a room event that failed, or a ghost renamed while its name was asked for or without its profile, whose save failed; a row that was not saved |
| ChatState | `missed` | a room event or request that failed and is not tried again; a mark off, or no pins, when first seen, which leaves the room's own; two writers crossing |

With any of them, or any one of the steps that set it in ChatState, left out, TLC finds
the property violated (for one step, a tag dropped that the room no longer has, it
takes four changes, with which `MarksShown` holds too). One of them, for pinned messages,
was too narrow at first: it asked whether the remembered list had changed since a refresh
read it, and missed a handler that had in between changed the room and remembered the same
list again. The attempt to prove `PinsAtRest` showed it and TLC confirmed it with three
changes; with the definition as it is, three changes of the pins pass (without the
restart).

**Bounds, and why they are enough.** In ThreadCursor a violation needs a page, the page
before it and a message beyond; four messages in pages of one give that, with a buffer
of two so that the queue is sometimes full and sometimes not. Two clients are an old and
a new one. In InPlaceSync four changes make two edits and a delete, or two people's
reactions and both their removals, whoever makes them (with three, one of the ways a
reaction is overlooked does not occur, as the proof of `SeenMeansBridged` showed); one
restart suffices as all memory is lost in it. In PollLoop two threads give a thread
before and after the one that meets a pause, a failure or a deletion; the intervals are
the smallest that keep the order of the real ones where the code depends on it
(`MaxSleep <= GoneRecheck`); a pass may take one unit, so that a timer can run out
during it. In LoginState four changes are an outage and a refusal, each with its end;
`TripAfter` is the real 3. `failures` is capped at it, which no comparison in the code
can tell. In ReadReceipts three stamps are a message and a position read on either side,
or two messages and a reading between them; at the bound the clock stands, so two
readings may fall together there. The events of a participant and of the user compete
for a queue of one. In Outbound two sends are two handlers side by side, and one of them
is a message posted twice when its retry arrives as well; a file of two pieces has a
piece in order, one out of order, one held and one past the end. In TokenRotation three
logins are a client that is replaced while it refreshes, the one that replaces it, and
another for the same again; the fourth token lets one of them rotate. In SyncTasks two
clients and a further Connect give a run that was cancelled and not waited for, its
successor, and a run begun after its client was replaced. Two faults are an endpoint
lost and a registration that fails. In ChatRooms one change renames the chat between any
two passes, and one message, polled after the directory was asked, brings the name of
before it. In ChatState two changes are one and its opposite, or one on either
side. Saved and pinned lists of two messages have an order, and one message is bridged
before it is linked and one after.

`CHECK_DEADLOCK FALSE` is used where the system really may stop: LoginState and
SyncTasks (after a Connect that was refused, or a Disconnect, the client has no loops
and waits for the user), Outbound (all is sent and handled), and TokenRotation,
ChatRooms and ChatState (the user has done all the bounds allow and
nothing is left to do).

**Fairness.** ThreadCursor: a poller goes on, the portal's loop goes on, and a
request repeated for ever succeeds at some time (strong fairness of `Fetch` and
`Respond` only; without it Teams may fail for ever, and nothing is owed then).
InPlaceSync: the poll loop, the portal and the handler of a reaction go on and the
database does not fail for ever. PollLoop: its steps are weakly fair (the loop never
returns while its context lives); time passes; and Teams, asked again and again, answers
for discovery, for a thread, and does not answer every check with a rate limit.
ReadReceipts: the poll loop, the portal and the handler of a receipt go on, and
a lookup or database write tried again in every check succeeds at some time
(strong fairness of `QueueReceipt` and `Store`; a full queue or a failing lookup
may only delay them).
LoginState: workers go on and a backoff window ends.
Outbound: a handler comes to an end, since every request has the time limit of the HTTP
client (`DefaultHTTPTimeout`) and the retries are counted; the poll loop and the portal
go on. SyncTasks: Connect goes on, and a loop goes round and finds that it was told to
end, since its requests carry its context. ChatRooms: the loop's steps come in turn;
discovery and the team sync are strongly fair, since either is due by the clock whatever
the other does; the portal goes on and a remembered lookup miss expires. ChatState: the
loop's steps of each part, the portal, each command and the handlers of pinned
messages go on. TokenRotation has no liveness property and states no fairness. No
fairness is assumed of users, crashes, re-logins, outages, refusals or faults.

## 4. Weaknesses

What follows is how the code behaves where a stronger property would not hold. The
properties are as weak as this makes them. Only the first is called a finding, as a
comment of the code says otherwise; of the others the code promises nothing to the
contrary.

Delivery and the schedule:
- A catch-up whose later page cannot be fetched returns the newest page alone, and the
  cursor then passes the messages in between (`internal/teams/client/messages.go:99`;
  run `catch_up`).
- A page of bookkeeping messages only has nothing to wait for and is saved at once, past
  the page before it if that still waits; a restart then loses what waited
  (`message_poller.go:583`, against what `cursor_commit.go:3` is for). Therefore
  `cursor_delivery` and the theorems under `Fifo` leave such messages out.
- A page the old client still has under way at a re-login may be queued, and its cursor
  saved, after the new client's (`cursor_commit.go:54`, `edit_sync.go:46`).
  `CursorNeverMovesBack` is about one client.
- An edit or delete polled while the message still waits in the portal queue finds no
  row and is recorded as seen (`edit_sync.go:103`). Likewise the last reaction, removed
  while the event that adds it waits, and a reaction made on Matrix and removed in Teams
  before a poll sees it, which leaves the reactions as the poller saw them last: both
  stay (`reaction_sync.go:41`).
- The doubled delay overflows before it is compared with the cap: with 34 failures in a
  row it is negative, and from 55 on zero (`poll_backoff.go:69`), and the thread is
  polled in every pass. PollBackoff computes it so, and PollLoop's theorems allow for
  it; the runs stay below that many failures, and no property excludes it.
- After a pause threads come in the list's order again, so those late in it may wait for
  ever if every pass meets a rate limit (`message_poller.go:238`). `UnreadPolled`
  assumes that Teams answers for a thread that is asked again and again.
- Sequence IDs that are partly numbers and partly text are not ordered transitively
  (`internal/teams/model/message.go:237`). The models take them for numbers.

Login and tokens:
- A state is decided under the tracker's lock and sent after it, so two goroutines may
  send theirs in the other order, and the outage stays on show after it is over
  (`reachability.go:88`). `StateRecovers` and `AnnouncedOnce` are claimed for one loop;
  with a handler beside it neither holds.
- After a refusal and an outage the end of the outage shows CONNECTED, and the refusal,
  still outstanding, is not announced again (`client_lifecycle.go:79`).
  `clearBadCredentials` sends CONNECTED without asking the tracker of outages
  (`client_lifecycle.go:104`).
- A remembered refresh that got no answer is counted once for each poll it answers, so
  one timeout can look like an outage (`reachability.go:41`).
- saveLogin asks whether the client was replaced, and then saves: a save under way at a
  re-login overwrites the new login's tokens (`client.go:732`; `torn`).
- A refresh that brings a new refresh token and no Graph token drops the new one
  (`graph_token.go:38`; `lost`).
- A sign-in canceled before Wait is waited for all the same: Cancel finds nothing to
  cancel.
- The long-poll loop ends with the first token check that fails and comes back only with
  the next Connect (`sync_loop.go:187`). Polling goes on without it. The first full sync
  is likewise not tried again when it fails.

Messages and read positions:
- A send without an answer may have arrived: a retry posts it again unless Teams knows
  its client message ID, and what arrives after the sender was told of a failure comes
  back as a new event (`internal/teams/client/executor.go:92`; `doubt`).
- The unread mark is used up before the request that needs it, so a failed request
  leaves the message unread in Teams (`forgotten`); a horizon is stored as sent when its
  receipt is queued, so a restart before the portal handles it loses the receipt
  (`dropped`); and a position the bridge has set itself hides an older one the user had
  read in Teams from the next check (`recorded`).

Rooms and chat state:
- A message's sender name is saved over whatever the profile has, in the order messages
  are polled (`message_poller.go:474`, `profile.go:48`). After the directory gave a newer
  name, an older message puts the profile and the ghost back, and discovery then renames
  a DM that the list gives no name to the earlier name, with every row saved
  (`BackWithProfile` in `NeverRenamedBack`). TLC shows it when that clause is left out:
  a message of before the renaming suffices. All three come to agree (`NamesSettle`).
- A ghost renamed while GetUserInfo asks for its name is given the older one, until its
  profile changes or a restart; one whose profile could not be saved has the new name
  until the next Connect (`message_poller.go:474`). A team's room that could not be
  detached stays as it is until the next start: its type is set before it is detached, so
  a Connect passes over it (`team_spaces.go:78`). What a failed RemoveMXID or Save of a
  channel leaves in the library's memory is not modelled. What was announced is remembered before it is handled,
  so an event the portal fails to handle is not sent again while the chat stays the
  same.
- A tag is not announced when the chat was pinned from Matrix and unpinned between two
  passes, as the signature is the same (`thread_discovery.go:136`). With slow passes a
  tag from Teams and its echo may answer each other for some time; echoes are counted
  among the changes.
- The pinned chats are one list in Teams, which is read, changed and written back: two
  writes at once lose one (`internal/teams/client/chat_state.go:56`; not in the module,
  which is about one chat).
- The power level that lets members pin is marked as set before the request; a failed
  SetPinnedItems is not tried again; pins of messages that are not bridged are removed
  from Teams when a handler writes the list it knows. A failed publication of a settled
  list of saved messages is not tried again.

## 5. Proofs

All are checked by TLAPS, from the ASSUMEs on the constants in each module (TLC
evaluates them too) and nothing else.

- `ThreadCursorProofs`: `TypeCorrect`, and `PageWaits`: the cursor of a page is never
  saved while an event of it waits, for any page size, buffer, order of handling, number
  of clients and restarts. The property is not inductive. The invariant adds that a page
  being queued still holds its own count (`QueueingPage`), that an event waiting in
  queue or hands is for a message its poller has already passed (`WaitingBehind`), and
  that it waits once only (`WaitingOnce`), so a hook cannot give up a count that stands
  for another event. Two more theorems assume `Fifo`: bridgev2 handles a portal's events
  one at a time (no `async_events`), accepts each event, and the thread carries no
  bookkeeping message, without which they are false (section 4). `CursorStaysBehind` is
  `CursorBehindHandling`, and `PollingDelivers` the refinement of MessageDelivery. Their
  invariant, `FifoInv`, is about order: every position a poller may carry on from covers
  only settled or waiting messages (`PollersCovered`); whatever is older than a queued
  event is settled or waits before it (`QueueInOrder`); and an unsaved page still counts
  its newest event, or has nothing older left (`NewestEventCounted`), so the count that
  reaches zero finds everything before the page's position settled. `CursorAdvances`
  (`CursorNeverMovesBack`, an action property) needs no `Fifo`: a client that has saved
  nothing only has pages past the cursor it read (`ResumedAhead`), afterwards the
  cursor is what it saved last (`SavedIsCursor`), and no later client polls or owns a
  page yet (`NobodyAhead`).
- `InPlaceSyncProofs`: `TypeCorrect`, and `DeleteIsFinal` (`NeverResurrected`). A
  restart may have the message polled as new, so the argument is about the queue: a
  delete is queued only for a message the position has passed, so no event for the
  message itself follows it (`OrderInv` with `PlaceInv`); Teams never takes a delete
  back (`DeletedInv`); so an event for the message queued after the delete was bridged
  says "deleted" and does not convert (`RemovedInv`). `SeenMeansBridged` is the safety
  half of both liveness properties: when a poll is over, no event waits and the memory
  holds the state the message has on Teams, Matrix shows that state or it was
  overlooked. Edits are handled in the order they were seen, after the message itself
  (`OrderedInv`); an edit or delete recorded as seen is bridged, waits or was overlooked
  (`ChangeInv`); and the reactions recorded last are those the last such event brings
  (`ReactInv`). The first attempt failed, and for a reason: `overlooked` did not cover a
  reaction made on Matrix and gone again when another person's was the one removed
  after it. TLC found that run with a fourth change; the variable and the bound were
  corrected.
- `PollLoopProofs`: `TypeCorrect` (also with an overflowed delay),
  `NothingPolledWhilePaused` and `NothingSleptPast`, for any number of threads and any
  intervals with `MaxSleep <= GoneRecheck`. The invariant says that a pass which met a
  pause goes straight to sleep (`SleepsThroughPause`), that the wake-up found so far
  bounds every thread already looked at (`WakeFoundSoFar`) and that a thread not yet
  looked at has no timer that could be missed (`StatesKnown`). `AlwaysDueAgain`
  (`NothingPutOff`) is what the schedule owes to `UnreadPolled`: whatever the answers, and
  with an overflowed delay too, a thread is due again within the longest cap, a new one
  at once; discovery, the activity check and a pause end within theirs; and outside a
  pause the loop never sleeps longer than `MaxSleep`. The delay that grows is shown to
  stay within the cap of its kind for each kind of answer (`DelayCapped`).
- `PollLoopProofs`, about ChatState: `ChatTypeCorrect`, for any messages, changes, queue
  and losses. The lists of pins are without repetition, which needs that the bridge's
  own filter (`Filter`) keeps that and the order; a filter runs over its list, so what it
  keeps is shown by a least length at which it would not. Three theorems say that what
  is done agrees, unless a named loss occurred; they are the safety half of the three
  liveness properties:
  - `MarksStayShown` (`MarksAtRest`): with the portal's queue and the tags worked off, the
    room shows every mark as it is tracked. The invariant says that the last event that
    waits for a mark has its tracked state (`Told`), that without one the room has it
    (`Settled`), and that the signature has the mute as tracked, so that a change of it
    is announced (`MuteSigned`). A pin has no `Told`: a tag's handler sets its tracker
    while older announcements wait, and it is at rest only when tags are handled too.
  - `PinsAtRest` (`PinsRemembered`): when no pin is being handled, the messages remembered
    as pinned, of those bridged, are the room's. A refresh has to send what it would
    still send (`SentCurrent`): a message bridged between its reading the list and its
    sending it is a loss. This proof corrected the model (section 3, named losses).
  - `SavedStaysPublished` (`SavedAtRest`): with the last version read and nobody
    publishing, the account data are the saved messages with their links. A list is as
    new as the version that goes with it, for either publisher (`VersionsTell`); a link
    is to an event that there is (`LinksBridged`); what was published is what the
    account has (`AccountKnown`) and, if complete, the tracker's list (`ListPublished`).
- `ClientProofs`, about LoginState: `TypeCorrect` for any number of loops and handlers
  (in particular an unanswered request is never announced as BAD_CREDENTIALS), and
  `FailureAnnouncedOnce` for one worker: the error a worker holds is the remembered one
  (`HeldIsCached`), and a refusal remembered but not outstanding is still owed (`Owed`).
  With a handler beside the loop the first of these is false: the handler may refresh
  while the loop holds the old error. `NoErrorStaysUntracked`, for one worker again, is
  the safety half of `StateRecovers`: what is shown, or about to be, is explained by
  what the trackers hold (`Tracked`).
- `ClientProofs`, about SyncTasks: `TasksTypeCorrect`, `LastRunOnly` and
  `StoppedForGood`, for any number of clients, calls of Connect and faults. The run that
  can be cancelled is the last one begun or none (`RunsCounted`), so a run once cancelled
  is not named again, and a client once replaced does not come back: a goroutine told to
  end stays told, and those not told are of one run. That a run has one poll loop and one
  long-poll loop, as the model's set of them takes for granted, is `SeededOnce`. The
  bound on failures in a row is an argument about multiples: a lost endpoint has fewer
  than `ReregisterAfter` for each fault so far, and passes such a multiple only in a
  registration that fails, which is a fault (`FailuresCounted`).
- `ReadReceiptsProofs`: `TypeCorrect` and `MarksSurvive` (`UnreadRemembered`), for any
  participants, queue and number of restarts. The types alone are not inductive: that a
  message is bridged after it was polled needs that what waits in the queue has been
  polled (`QueuedPolled`). With it `UnreadRemembered` is inductive: the step that uses
  the mark up takes the time now, later than every message polled, and the step that
  polls a message takes the oldest. `NothingShownAhead`: nothing stored, under way or
  waiting is later than the horizon Teams has (`HorizonInv`), so a later reading is
  always found to be new, and Matrix shows nobody further than they read in Teams.
  `StoredMeansShown`: a position stored as sent is shown or waits, was lost with the
  queue, or the bridge set it itself; the step before, when the receipt is queued and not
  yet stored, is in the invariant (`AboutToStore`). The two are the safety half of
  `RemoteReadsShown` and `OwnReadsShown`.
- `OutboundProofs`: `TypeCorrect`, `NoEcho` (`OwnMessagesOnce`) and `AttachmentReady`
  (`FileBeforeMessage`), for any sends, pieces, retries and restarts. `NoEcho` is about
  sends whose fate is certain, neither in doubt nor orphaned. Such a send is in the
  thread once at most (`PostedOnce`) and not before its request (`NotThereYet`); its
  entry is kept while it is under way (`EntryKept`); and, once there, it is either
  handled as an echo or still has its entry (`EchoAwaited`). `AttachmentReady` needs
  that the uploader is past the last piece only when the server holds all of them
  (`FileInv`), which is the server's word and not the uploader's count: one that names
  the range past the end fails the send.
  `AnswerLeadsToReceipt` and `SenderToldTruly` are the safety half of
  `EverySendSettled`: a send that was answered has its receipt, lost its entry in a
  restart, or still has it while its message is yet to be handled (`EntryFresh`,
  `LandedThere`); a receipt is given only for a message that is in the thread, and an
  error only if it is not there or some attempt went without an answer (`ReceiptsTrue`,
  `UnsentAway`).
- `TokenRotationProofs`: `TypeCorrect`, `NewLoginKept` (`NewLoginStays`) and
  `SavedTokenGood` (`SavedTokenAccepted`), for any number of sign-ins, tokens and
  restarts. A client refreshes only with tokens of its own login (`FamilyKnown`,
  `ClientInv`, and `SignInInv` for a sign-in under way); only the login's client writes,
  unless a save is torn; and what is saved is the token in its memory, unless that is
  about to be saved or could not be (`DbInv`).
- `ChatRoomsProofs`: `NamesOnlyAdvance` (`NeverRenamedBack`, an action property), for
  any number of changes, messages, faults and restarts. No title the bridge has is later
  than the one Teams has (`People`, `Known`), and the stored name, which each pass
  starts from, is the one last announced, with the signature's name no later, or of the
  same title where a profile names the room (`Told`, `Begun`); a pass only stores a name
  that is later, or the one the profile has (`Follows`). `TypeCorrect` includes the bound on the
  portal's queue, which says that naming comes to rest: the one title that may follow without a
  change in Teams or a message (`Given`) can still be announced three times and each form
  after it twice (`Weight`), a change or a message pays for the title it brings, and what waits together
  with what may still be announced only shrinks, but for a parent, which waits once
  (`CountInv`). The bound checked before was too small, which the proof showed and TLC
  confirmed; it is now the one proved. `RoomSettles` (`RoomAtRest`) is the safety half of
  `NamesSettle`: for a chat discovered, with no event waiting and no name being asked
  for, there is a room, with the name stored, the members last announced or later ones,
  and the ghost is named as the profile, unless an event failed, a row was not saved, or
  the ghost was renamed while being named or without its profile.
  The argument looks at the last event of the queue that brings a name: it brings the
  one announced last, an event that creates the room comes no later, and once no name
  waits the room has it (`NamesInv`); the same for members (`MembersInv`); and what is
  asked for of a ghost is what the profile has, if it has a name (`GhostInv`). `NeverInALostSpace`
  (`InTheSpace`) is a part of `ChannelInSpace`: a room is in its team's space only if the
  space is there and the room names the team as its parent, also after a space was
  repaired.

Every module with a next-state relation but MessageDelivery, which is what ThreadCursor is
proved to implement, has its types proved for every value of its constants, and every
state invariant that a run checks and that holds.

Model-checked only: the liveness properties themselves (liveness under fairness, and
ENABLED, are outside what TLAPS does here), of which the part that is safety is proved for
InPlaceSync, LoginState, ReadReceipts, Outbound, SyncTasks, ChatRooms, ChatState and the
schedule of PollLoop; `CatchUpComplete`, which fails; and that a channel with a team's
space comes to be in it.

## 6. Plan

Done: all modules above. Left, in order:

1. Compose LoginState and SyncTasks: the states an old and a new client show of one
   login, and TokenRotation's refresh as LoginState's.
2. Two chats in ChatState, for the whole-list write of the pinned chats.
3. An abstract module for "last seen, then announced", which the trackers of ChatState,
   the signatures of ChatRooms and the horizons of ReadReceipts all follow.
4. Sequence IDs as text, against a reference order.

## 7. Not modelled

- Presence and known users: what is pushed is pushed again every 20 seconds, so a lost
  update is mended by the next, and nothing else depends on it.
- Directory, contacts, photos, inbound attachments: requests and their rendering, cached
  for a time, with no state of their own.
- Conversion, the message previews, emoji tables, HTML: wording and layout. What decides
  state is in the modules.
- Caches and their sweep, diagnostics: bounds on memory.
- Configuration, schema, start-up: wiring.
- Of what is modelled: a room's name, topic, members and avatar set from Matrix, and
  topics and avatars as such; logging out, tokens' expiry, and one sign-in beside
  another; orphan twins of a team's portal; the order of the saved list; more than one
  chat in ChatState and ChatRooms.

`PROJECT.json` lists each part with its files and the reason.
