------------------------------- MODULE Outbound -------------------------------
(***************************************************************************)
(* Messages the user sends from Matrix (pkg/connector/handlematrix.go,     *)
(* HandleMatrixMessage): the pending entry, the upload of a file, the      *)
(* request that posts the message with the executor's retries, and the     *)
(* echo of the message that the poller finds later.                        *)
(*                                                                         *)
(* A handler runs for each send, beside the poll loop and the portal's     *)
(* event loop.  A request reaches Teams, or not, before its answer reaches *)
(* the handler, or not; so the echo may be handled while the handler still *)
(* waits, and a retry may post a message that is already there.            *)
(***************************************************************************)
EXTENDS Naturals, Sequences, FiniteSets

CONSTANTS
    Texts,       \* messages of one request
    Files,       \* messages with an attachment
    Chunks,      \* pieces a large file is uploaded in
    MaxRetries,  \* TeamsRequestExecutor.MaxRetries
    MaxRepeats,  \* bound: times the server asks for a piece it holds
    MaxRestarts  \* bound: restarts of the bridge

ASSUME OutboundAssumption ==
    /\ Texts \cap Files = {}
    /\ {MaxRetries, MaxRepeats, MaxRestarts} \subseteq Nat
    /\ Chunks \in Nat \ {0}

Sends == Texts \cup Files
Pieces == 0 .. Chunks - 1

VARIABLES
    pc,        \* where the handler of each send is
    tries,     \* the executor's retries of the request it makes
    pending,   \* bridgev2: sends with an entry waiting for its echo
    posted,    \* Teams: the thread, as the sends its messages came from
    polled,    \* messages of the thread the poller has queued
    handled,   \* and those the portal has handled
    bridged,   \* messages bridged to Matrix as new events
    confirmed, \* sends whose delivery receipt was sent
    offset,    \* start, the piece UploadFileInChunks sends next
    stored,    \* Graph: the pieces it holds
    linked,    \* files with a sharing link
    repeats,
    restarts,
    doubt,     \* history: sends with an attempt whose fate was not told
    orphaned   \* history: sends whose pending entry a restart lost

uploadVars == <<offset, stored, linked, repeats>>
echoVars == <<polled, handled, bridged, confirmed>>
vars == <<pc, tries, pending, posted, echoVars, uploadVars, restarts, doubt, orphaned>>

Asked == {"lost", "landed"}
Uploading == {"download", "session", "chunk", "put", "link"}
Running == Uploading \cup {"post"} \cup Asked
Places == Running \cup {"new", "sent", "failed", "gone"}

Init ==
    /\ pc = [s \in Sends |-> "new"]
    /\ tries = [s \in Sends |-> 0]
    /\ pending = {}
    /\ posted = <<>>
    /\ polled = 0
    /\ handled = 0
    /\ bridged = {}
    /\ confirmed = {}
    /\ offset = [s \in Sends |-> 0]
    /\ stored = [s \in Sends |-> {}]
    /\ linked = {}
    /\ repeats = 0
    /\ restarts = 0
    /\ doubt = {}
    /\ orphaned = {}

-----------------------------------------------------------------------------
(* The handler *)

Go(s, place) ==
    /\ pc' = [pc EXCEPT ![s] = place]
    /\ tries' = [tries EXCEPT ![s] = 0]

\* The handler gives up: its pending entry goes and the sender is told.
Fail(s) ==
    /\ Go(s, "failed")
    /\ pending' = pending \ {s}

\* The message is accepted: its entry is pending before any request is made.
\* A login without a token, an unsupported type or a portal without a thread
\* is refused, and leaves no entry.
\* A name ending in an underscore and a word is a deliberately wrong form of the
\* definition after it, against which the properties are tried.
Start_Unsaved(s) ==
    /\ pc[s] = "new"
    /\ \/ Go(s, IF s \in Files THEN "download" ELSE "post") /\ UNCHANGED pending
       \/ Go(s, "failed") /\ UNCHANGED pending
    /\ UNCHANGED <<posted, echoVars, uploadVars, restarts, doubt, orphaned>>
Start(s) ==
    /\ pc[s] = "new"
    /\ \/ /\ Go(s, IF s \in Files THEN "download" ELSE "post")
          /\ pending' = pending \cup {s}
       \/ Go(s, "failed") /\ UNCHANGED pending
    /\ UNCHANGED <<posted, echoVars, uploadVars, restarts, doubt, orphaned>>

\* The executor makes a request again after a timeout, a 429 or a 5xx.
Retry_OneMore(s, place) ==
    /\ tries[s] <= MaxRetries
    /\ tries' = [tries EXCEPT ![s] = @ + 1]
    /\ pc' = [pc EXCEPT ![s] = place]
Retry_Uncounted(s, place) ==
    /\ tries[s] < MaxRetries
    /\ pc' = [pc EXCEPT ![s] = place]
    /\ UNCHANGED tries
Retry(s, place) ==
    /\ tries[s] < MaxRetries
    /\ tries' = [tries EXCEPT ![s] = @ + 1]
    /\ pc' = [pc EXCEPT ![s] = place]

\* A request of the upload: it succeeds, is tried again, or fails the send.
Request(s, place) ==
    /\ \/ Go(s, place) /\ UNCHANGED pending
       \/ Retry(s, pc[s]) /\ UNCHANGED pending
       \/ Fail(s)
    /\ UNCHANGED <<posted, echoVars, restarts, doubt, orphaned>>

-----------------------------------------------------------------------------
(* The upload of a file *)

\* The file is fetched from Matrix, once.  One that is too large, a failure and a missing
\* token for Graph end the send; its size decides how it is uploaded.
Download(s) ==
    /\ pc[s] = "download"
    /\ \/ /\ \E place \in {"session", "put"} : Go(s, place)
          /\ UNCHANGED pending
       \/ Fail(s)
    /\ UNCHANGED <<posted, echoVars, uploadVars, restarts, doubt, orphaned>>

CreateUploadSession(s) ==
    /\ pc[s] = "session"
    /\ Request(s, "chunk")
    /\ UNCHANGED uploadVars

\* A small file goes up in one request.
PutSmall(s) ==
    /\ pc[s] = "put"
    /\ \/ /\ Request(s, "link")
          /\ pc'[s] = "link"
          /\ stored' = [stored EXCEPT ![s] = Pieces]
       \/ /\ Request(s, "link")
          /\ pc'[s] # "link"
          /\ stored' \in {stored, [stored EXCEPT ![s] = Pieces]}
    /\ UNCHANGED <<offset, linked, repeats>>

\* The server names the piece it expects next (202).  It may name one that it
\* holds.  One past the end ends the loop, and so the send.
NextRange_Done(s, held, next) ==
    /\ next \in held => repeats < MaxRepeats
    /\ repeats' = IF next \in held THEN repeats + 1 ELSE repeats
    /\ offset' = [offset EXCEPT ![s] = next]
    /\ IF next = Chunks
       THEN Go(s, "link") /\ UNCHANGED pending
       ELSE Go(s, "chunk") /\ UNCHANGED pending
NextRange(s, held, next) ==
    /\ next \in held => repeats < MaxRepeats
    /\ repeats' = IF next \in held THEN repeats + 1 ELSE repeats
    /\ offset' = [offset EXCEPT ![s] = next]
    /\ IF next = Chunks
       THEN Fail(s)
       ELSE Go(s, "chunk") /\ UNCHANGED pending

\* One request of the chunked upload.  The server answers with the file (200,
\* 201) when it holds all of it.
PutChunk(s) ==
    LET held == stored[s] \cup {offset[s]}
    IN /\ pc[s] = "chunk"
       /\ \/ /\ stored' = [stored EXCEPT ![s] = held]
             /\ \/ \E next \in 0 .. Chunks : NextRange(s, held, next)
                \/ /\ held = Pieces
                   /\ Go(s, "link")
                   /\ UNCHANGED <<pending, offset, repeats>>
          \/ /\ stored' \in {stored, [stored EXCEPT ![s] = held]}
             /\ \/ Retry(s, "chunk") /\ UNCHANGED pending
                \/ Fail(s)
             /\ UNCHANGED <<offset, repeats>>
       /\ UNCHANGED <<linked, posted, echoVars, restarts, doubt, orphaned>>

CreateShareLink(s) ==
    /\ pc[s] = "link"
    /\ Request(s, "post")
    /\ linked' = IF pc'[s] = "post" THEN linked \cup {s} ELSE linked
    /\ UNCHANGED <<offset, stored, repeats>>

-----------------------------------------------------------------------------
(* The message itself *)

\* The thread after a request that posts s: one more message, or the same if
\* Teams knows the message's client ID already.
Arrived(s) ==
    IF s \in {posted[i] : i \in 1 .. Len(posted)}
    THEN {posted, Append(posted, s)}
    ELSE {Append(posted, s)}

\* postRichTextMessage sends the request, and Teams gets it or not.
Post(s) ==
    /\ pc[s] = "post"
    /\ \/ /\ pc' = [pc EXCEPT ![s] = "landed"]
          /\ posted' \in Arrived(s)
       \/ /\ pc' = [pc EXCEPT ![s] = "lost"]
          /\ UNCHANGED posted
    /\ UNCHANGED <<tries, pending, echoVars, uploadVars, restarts, doubt, orphaned>>

\* Teams says it has the message: the handler returns, and the entry is left
\* to the echo.
Sent(s) ==
    /\ pc[s] = "landed"
    /\ Go(s, "sent")
    /\ UNCHANGED <<pending, posted, echoVars, uploadVars, restarts, doubt, orphaned>>

\* Teams refuses the message: for good, or with a 429 that is tried again until
\* the retries are used up.
Refused(s) ==
    /\ pc[s] = "lost"
    /\ \/ Fail(s)
       \/ Retry(s, "post") /\ UNCHANGED pending
    /\ UNCHANGED <<posted, echoVars, uploadVars, restarts, doubt, orphaned>>

\* No answer says what became of the request: a timeout and a 5xx are tried
\* again, a lost connection is not.
Unanswered(s) ==
    /\ pc[s] \in Asked
    /\ doubt' = doubt \cup {s}
    /\ \/ Retry(s, "post") /\ UNCHANGED pending
       \/ Fail(s)
    /\ UNCHANGED <<posted, echoVars, uploadVars, restarts, orphaned>>

-----------------------------------------------------------------------------
(* The echo *)

\* A poll queues the messages it has not seen.
Poll ==
    /\ polled < Len(posted)
    /\ polled' = Len(posted)
    /\ UNCHANGED <<pc, tries, pending, posted, handled, bridged, confirmed,
                   uploadVars, restarts, doubt, orphaned>>

\* The portal handles the next message.  One whose client ID has an entry is the
\* echo of a send: it is given its Teams ID and the sender a receipt.  Any other
\* is bridged.
HandleMessage ==
    LET i == handled + 1
        s == posted[i]
    IN /\ handled < polled
       /\ handled' = i
       /\ IF s \in pending
          THEN /\ pending' = pending \ {s}
               /\ confirmed' = confirmed \cup {s}
               /\ UNCHANGED bridged
          ELSE /\ bridged' = bridged \cup {i}
               /\ UNCHANGED <<pending, confirmed>>
       /\ UNCHANGED <<pc, tries, posted, polled, uploadVars, restarts, doubt, orphaned>>

\* A restart: the handlers and the entries, which are in memory, are gone.  What
\* the portal has not handled is polled again.
Restart ==
    /\ restarts < MaxRestarts
    /\ restarts' = restarts + 1
    /\ pc' = [s \in Sends |-> IF pc[s] \in Running THEN "gone" ELSE pc[s]]
    /\ pending' = {}
    /\ orphaned' = orphaned \cup pending
    /\ polled' = handled
    /\ UNCHANGED <<tries, posted, handled, bridged, confirmed, uploadVars, doubt>>

-----------------------------------------------------------------------------
Upload(s) ==
    Download(s) \/ CreateUploadSession(s) \/ PutSmall(s) \/ PutChunk(s) \/ CreateShareLink(s)

HandleMatrixMessage(s) == Upload(s) \/ Post(s) \/ Sent(s) \/ Refused(s) \/ Unanswered(s)

Next ==
    \/ \E s \in Sends : Start(s) \/ HandleMatrixMessage(s)
    \/ Poll
    \/ HandleMessage
    \/ Restart

Spec == Init /\ [][Next]_vars

\* A handler and its requests end: every request has a time limit or is given
\* up with the context.  The poll loop and the portal's event loop go on.
FairSpec ==
    /\ Spec
    /\ \A s \in Sends : WF_vars(HandleMatrixMessage(s))
    /\ WF_vars(Poll)
    /\ WF_vars(HandleMessage)

-----------------------------------------------------------------------------
(* Properties *)

OnTeams == {posted[i] : i \in 1 .. Len(posted)}

\* Types, and: entries and events only of what was sent.
TypeOK ==
    /\ pc \in [Sends -> Places]
    /\ tries \in [Sends -> 0 .. MaxRetries]
    /\ posted \in Seq(Sends)
    /\ polled \in 0 .. Len(posted)
    /\ handled \in 0 .. polled
    /\ pending \subseteq Sends
    /\ bridged \subseteq 1 .. handled
    /\ confirmed \subseteq Sends
    /\ offset \in [Sends -> 0 .. Chunks]
    /\ stored \in [Sends -> SUBSET Pieces]
    /\ linked \subseteq Files
    /\ {doubt, orphaned} \subseteq SUBSET Sends
    /\ repeats \in 0 .. MaxRepeats
    /\ restarts \in 0 .. MaxRestarts

\* What the user sent from Matrix does not come back as a new event, whatever
\* the order of the echo and the answer, unless some attempt had no answer or a
\* restart lost the pending entry.
OwnMessagesOnce == \A i \in bridged : posted[i] \in doubt \cup orphaned

\* A message with an attachment is posted only when Graph holds the whole file
\* and it is shared (UploadFileInChunks, SendAttachmentMessage).
FileBeforeMessage == \A s \in Files \cap OnTeams : stored[s] = Pieces /\ s \in linked

\* A send that was accepted comes to an end: the sender gets a receipt or an
\* error, unless a restart comes between.
EverySendSettled ==
    \A s \in Sends : pc[s] \in Running ~>
        pc[s] \in {"failed", "gone"} \/ (pc[s] = "sent" /\ (s \in confirmed \/ s \in orphaned))

=============================================================================
