------------------------------ MODULE InPlaceSync ------------------------------
(***************************************************************************)
(* What happens to one Teams message after it was posted: edits, a delete  *)
(* and reactions (pkg/connector/edit_sync.go, reaction_sync.go, and the    *)
(* part of message_poller.go that calls them).                             *)
(*                                                                         *)
(* Teams changes a message where it stands, under the same sequence ID, so *)
(* a poll that returns it again has to notice.  The poller remembers the   *)
(* last state it saw of the message, in memory; only for a new state does  *)
(* it ask the bridge's database what was bridged, and queue an event when  *)
(* the two differ.  The events wait in the portal's queue, behind the one  *)
(* for the message itself, while the database still shows what it did.     *)
(*                                                                         *)
(* What the user does on Matrix (handlematrix.go) changes the message on   *)
(* Teams too, and the poller finds it there like anyone's change.  Only a  *)
(* reaction also changes the database, once its request is answered.       *)
(***************************************************************************)
EXTENDS Integers, Sequences, FiniteSets

CONSTANTS
    User,           \* people who react
    Self,           \* the bridge's own user among them
    LookupMayFail,  \* a database lookup may fail
    MaxTime,        \* bound: changes Teams users make, which Teams timestamps
    MaxRestarts     \* bound: restarts of the bridge

ASSUME ConstantsAssumption ==
    /\ Self \in User
    /\ LookupMayFail \in BOOLEAN
    /\ MaxTime \in Nat
    /\ MaxRestarts \in Nat

VARIABLES
    now,          \* Teams' clock: number of changes so far
    teams,        \* Teams: the message as it stands
    passed,       \* the poller's position is past the message
    saved,        \* database: so is the thread's saved cursor
    poll,         \* the poller's progress and the message as it fetched it
    editTimes,    \* memory: the state last checked for a change, 0 when absent
    reactionSigs, \* memory: the reactions last seen, {} or a singleton
    reactionSeen, \* memory: the message was queued with reactions
    portalq,      \* bridgev2: the portal's event channel
    part,         \* database: the bridged message
    reacted,      \* database: users with a bridged reaction
    asked,        \* a Matrix reaction's request waits for its answer
    restarts,
    \* History, not program state:
    removed,      \* a delete of the message has been bridged
    overlooked    \* kinds of change seen but dropped as "not bridged (yet)"

memory == <<passed, poll, editTimes, reactionSigs, reactionSeen>>
database == <<saved, part, reacted>>
vars == <<now, teams, memory, database, portalq, asked, restarts, removed, overlooked>>

Time == 0 .. MaxTime

\* A message as Teams lists it: properties.edittime (0: never edited),
\* properties.deletetime, and when each user reacted (0: has not).
Message == [edit : Time, deleted : BOOLEAN, reactions : [User -> Time]]
Posted == [edit |-> 0, deleted |-> FALSE, reactions |-> [u \in User |-> 0]]
Reactors(m) == {u \in User : m.reactions[u] > 0}

Event == [type : {"message", "edit", "delete", "reactions"}, msg : Message]

\* The state messageStateChanged records: the edit time, or "deleted".  A name
\* ending in an underscore and a word is a deliberately wrong form of the
\* definition after it, against which the properties are tried.
Deleted == MaxTime + 1
Signature_OffByOne(m) == IF m.deleted THEN Deleted ELSE m.edit - 1
Signature(m) == IF m.deleted THEN Deleted ELSE m.edit

NotBridged == [there |-> FALSE, edit |-> 0]
Idle == [pc |-> "idle", msg |-> Posted]

Waits(type) == \E i \in 1 .. Len(portalq) : portalq[i].type = type
Queue(type, m) == portalq' = Append(portalq, [type |-> type, msg |-> m])

Init ==
    /\ now = 0
    /\ teams = Posted
    /\ passed = FALSE
    /\ saved = FALSE
    /\ poll = Idle
    /\ editTimes = 0
    /\ reactionSigs = {}
    /\ reactionSeen = FALSE
    /\ portalq = <<>>
    /\ part = NotBridged
    /\ reacted = {}
    /\ asked = FALSE
    /\ restarts = 0
    /\ removed = FALSE
    /\ overlooked = {}

-----------------------------------------------------------------------------
(* Teams users *)

Changed(m) ==
    /\ now < MaxTime
    /\ ~teams.deleted
    /\ now' = now + 1
    /\ teams' = m
    /\ UNCHANGED <<memory, database, portalq, restarts, removed>>

Change(m) == Changed(m) /\ UNCHANGED <<asked, overlooked>>

Edit == Change([teams EXCEPT !.edit = now + 1])
Delete == Change([teams EXCEPT !.deleted = TRUE])
React(u) == Change([teams EXCEPT !.reactions[u] = now + 1])

\* A reaction made on Matrix and taken back on Teams before any poll may leave the
\* state the poller saw last, at once or when a later reaction is gone as well:
\* the one on Matrix stays.
Unreact(u) ==
    LET m == [teams EXCEPT !.reactions[u] = 0]
    IN /\ teams.reactions[u] > 0
       /\ Changed(m)
       /\ overlooked' = IF /\ m.reactions \in reactionSigs
                           /\ Self \notin Reactors(m) /\ (asked \/ Self \in reacted)
                        THEN overlooked \cup {"reactions"} ELSE overlooked
       /\ UNCHANGED asked

-----------------------------------------------------------------------------
(* The user on Matrix.  The portal handles what they do in the same loop as  *)
(* its remote events.  A request that Teams refuses changes nothing.         *)

HandleMatrixEdit == ~asked /\ part.there /\ Edit

\* The message and the reaction stay in the database until the poller sees that
\* they are gone.
HandleMatrixMessageRemove == ~asked /\ part.there /\ Delete
HandleMatrixReactionRemove == ~asked /\ Self \in reacted /\ Unreact(Self)

\* AddReaction reaches Teams ...
HandleMatrixReaction ==
    /\ ~asked
    /\ part.there /\ Self \notin reacted
    /\ Changed([teams EXCEPT !.reactions[Self] = now + 1])
    /\ asked' = TRUE
    /\ UNCHANGED overlooked

\* ... and is answered, or taken for failed: then bridgev2 records nothing.
AddReaction ==
    /\ asked
    /\ asked' = FALSE
    /\ reacted' \in {reacted, reacted \cup {Self}}
    /\ UNCHANGED <<now, teams, memory, saved, part, portalq, restarts, removed, overlooked>>

-----------------------------------------------------------------------------
(* The poller *)

\* pollThread fetches the page the message is on; the message is new, or at or
\* below the position to poll from.
Fetch ==
    /\ poll.pc = "idle"
    /\ poll' = [pc |-> IF passed THEN "reactions" ELSE "message", msg |-> teams]
    /\ UNCHANGED <<now, teams, passed, editTimes, reactionSigs, reactionSeen, database,
                   portalq, asked, restarts, removed, overlooked>>

\* queueUserMessage queues a new message and marks one that carries reactions.
QueueMessage ==
    /\ poll.pc = "message"
    /\ Queue("message", poll.msg)
    /\ reactionSeen' = (reactionSeen \/ Reactors(poll.msg) # {})
    /\ poll' = [poll EXCEPT !.pc = "reactions"]
    /\ UNCHANGED <<now, teams, passed, editTimes, reactionSigs, database, asked, restarts,
                   removed, overlooked>>

ReactionStateChanged_FirstOnly(m) == reactionSigs = {}

\* reactionStateChanged.
ReactionStateChanged(m) == m.reactions \notin reactionSigs

\* shouldSendEmptyReactionSync, given what the database lookup answers; the
\* mark is used up.
ShouldSendEmpty(found) == reactionSeen \/ found

\* queueReactionSyncForMessage, for a new message and for an older one alike.  A
\* failed lookup finds nothing.
SyncReactions ==
    /\ poll.pc = "reactions"
    /\ poll' = [poll EXCEPT !.pc = IF passed THEN "change" ELSE "advance"]
    /\ reactionSigs' = {poll.msg.reactions}
    /\ \/ /\ ~ReactionStateChanged(poll.msg)
          /\ UNCHANGED <<reactionSeen, portalq, overlooked>>
       \/ /\ ReactionStateChanged(poll.msg)
          /\ Reactors(poll.msg) # {}
          /\ Queue("reactions", poll.msg)
          /\ overlooked' = overlooked \ {"reactions"}
          /\ UNCHANGED reactionSeen
       \/ /\ ReactionStateChanged(poll.msg)
          /\ Reactors(poll.msg) = {}
          /\ reactionSeen' = FALSE
          /\ \E found \in {reacted # {}} \cup (IF LookupMayFail THEN {FALSE} ELSE {}) :
                IF ShouldSendEmpty(found)
                THEN /\ Queue("reactions", poll.msg)
                     /\ overlooked' = overlooked \ {"reactions"}
                ELSE /\ overlooked' = IF reacted # {} \/ asked \/ Waits("reactions")
                                      THEN overlooked \cup {"reactions"} ELSE overlooked
                     /\ UNCHANGED portalq
    /\ UNCHANGED <<now, teams, passed, editTimes, database, asked, restarts, removed>>

\* messageStateChanged, for a message that was edited or deleted at all.
MessageStateChanged(m) == Signature(m) \notin {0, editTimes}

\* The database shows the message bridged, and not this change of it.
ChangeToBridge(m) == part.there /\ (m.deleted \/ part.edit < m.edit)

\* queueInPlaceChange when there is nothing to check.
SkipChange ==
    /\ poll.pc = "change"
    /\ ~MessageStateChanged(poll.msg)
    /\ poll' = Idle
    /\ UNCHANGED <<now, teams, passed, editTimes, reactionSigs, reactionSeen, database,
                   portalq, asked, restarts, removed, overlooked>>

\* queueInPlaceEdit and queueInPlaceDelete: the new state is recorded, and an
\* event queued if the database shows the message bridged without the change.
SyncChange ==
    /\ poll.pc = "change"
    /\ MessageStateChanged(poll.msg)
    /\ editTimes' = Signature(poll.msg)
    /\ IF ChangeToBridge(poll.msg)
       THEN /\ Queue(IF poll.msg.deleted THEN "delete" ELSE "edit", poll.msg)
            /\ overlooked' = overlooked \ {"change"}
       ELSE /\ overlooked' = IF ~part.there /\ Waits("message")
                             THEN overlooked \cup {"change"} ELSE overlooked
            /\ UNCHANGED portalq
    /\ poll' = Idle
    /\ UNCHANGED <<now, teams, passed, reactionSigs, reactionSeen, database, asked, restarts,
                   removed>>

Forget_Not == editTimes' = Signature(poll.msg)

\* forgetMessageState.
Forget == editTimes' = 0

\* The lookup fails: the state just recorded is forgotten again.
ChangeLookupFails ==
    /\ LookupMayFail
    /\ poll.pc = "change"
    /\ MessageStateChanged(poll.msg)
    /\ Forget
    /\ poll' = Idle
    /\ UNCHANGED <<now, teams, passed, reactionSigs, reactionSeen, database, portalq,
                   asked, restarts, removed, overlooked>>

\* advancePageCursor: the poller carries on after the new message.
Advance ==
    /\ poll.pc = "advance"
    /\ passed' = TRUE
    /\ poll' = Idle
    /\ UNCHANGED <<now, teams, editTimes, reactionSigs, reactionSeen, database, portalq,
                   asked, restarts, removed, overlooked>>

-----------------------------------------------------------------------------
(* bridgev2: the portal handles its events one at a time, in order *)

HandleMessage_Deleted(m) == ~part.there

\* A message already there is dropped, a deleted one does not convert; else it
\* is bridged with its edit time (convertTeamsMessage).
HandleMessage(m) == ~part.there /\ ~m.deleted

Handle ==
    /\ ~asked
    /\ portalq # <<>>
    /\ portalq' = Tail(portalq)
    /\ LET e == Head(portalq) IN
       \/ /\ e.type = "message"
          /\ part' = IF HandleMessage(e.msg) THEN [there |-> TRUE, edit |-> e.msg.edit] ELSE part
          /\ UNCHANGED <<reacted, removed>>
       \/ /\ e.type = "edit"
          /\ part' = IF part.there THEN [part EXCEPT !.edit = e.msg.edit] ELSE part
          /\ UNCHANGED <<reacted, removed>>
       \/ /\ e.type = "delete"
          /\ part' = NotBridged
          /\ reacted' = {}
          /\ removed' = (removed \/ part.there)
       \/ /\ e.type = "reactions"
          /\ reacted' = IF part.there THEN Reactors(e.msg) ELSE reacted
          /\ UNCHANGED <<part, removed>>
    /\ UNCHANGED <<now, teams, memory, saved, asked, restarts, overlooked>>

\* The page's cursor is saved (see ThreadCursor), some time after the message
\* was handled and the page left behind.
SaveCursor ==
    /\ passed
    /\ ~saved
    /\ ~Waits("message")
    /\ saved' = TRUE
    /\ UNCHANGED <<now, teams, memory, part, reacted, portalq, asked, restarts, removed, overlooked>>

\* The bridge crashes or is restarted: only the database survives.
Restart ==
    /\ restarts < MaxRestarts
    /\ restarts' = restarts + 1
    /\ asked' = FALSE
    /\ passed' = saved
    /\ poll' = Idle
    /\ editTimes' = 0
    /\ reactionSigs' = {}
    /\ reactionSeen' = FALSE
    /\ portalq' = <<>>
    /\ overlooked' = {}
    /\ UNCHANGED <<now, teams, database, removed>>

Teams == Edit \/ Delete \/ \E u \in User : React(u) \/ Unreact(u)

Matrix ==
    \/ HandleMatrixEdit
    \/ HandleMatrixMessageRemove
    \/ HandleMatrixReactionRemove
    \/ HandleMatrixReaction
    \/ AddReaction

Poll ==
    \/ Fetch
    \/ QueueMessage
    \/ SyncReactions
    \/ SkipChange
    \/ SyncChange
    \/ ChangeLookupFails
    \/ Advance

Next == Teams \/ Matrix \/ Poll \/ Handle \/ SaveCursor \/ Restart

Spec == Init /\ [][Next]_vars

\* The poll loop and the portal's loop keep running, requests come to an end, and
\* lookups do not fail for ever.
Fairness ==
    /\ WF_vars(Fetch)
    /\ WF_vars(QueueMessage)
    /\ WF_vars(SyncReactions)
    /\ WF_vars(SkipChange)
    /\ SF_vars(SyncChange)
    /\ WF_vars(Advance)
    /\ WF_vars(Handle)
    /\ WF_vars(AddReaction)

FairSpec == Spec /\ Fairness

-----------------------------------------------------------------------------
(* Properties *)

\* The poller's memory, the queue and the database hold what they may: the state
\* recorded for the message in particular is an edit time, "deleted" or absent
\* (messageStateChanged, forgetMessageState).
TypeOK ==
    /\ now \in Time
    /\ teams \in Message
    /\ passed \in BOOLEAN
    /\ saved \in BOOLEAN
    /\ poll \in [pc : {"idle", "message", "reactions", "change", "advance"}, msg : Message]
    /\ editTimes \in 0 .. MaxTime + 1
    /\ reactionSigs \subseteq [User -> Time]
    /\ reactionSeen \in BOOLEAN
    /\ portalq \in Seq(Event)
    /\ part \in [there : BOOLEAN, edit : Time]
    /\ reacted \subseteq User
    /\ asked \in BOOLEAN
    /\ restarts \in 0 .. MaxRestarts
    /\ removed \in BOOLEAN
    /\ overlooked \subseteq {"change", "reactions"}

\* A message whose delete was bridged is never bridged again, though a restart
\* may have it polled as new once more (convertTeamsMessageContent).
NeverResurrected == removed => ~part.there

ChangesInSync ==
    IF teams.deleted THEN ~part.there ELSE part.there /\ part.edit = teams.edit

ReactionsInSync == part.there => reacted = Reactors(teams)

\* Once Teams users leave the message alone, Matrix shows its last edit, or its
\* deletion, unless the change was overlooked: polled while the message
\* itself waited to be bridged, and recorded as seen (edit_sync.go:103).
ChangesBridgedUnlessOverlooked == <>[](ChangesInSync \/ "change" \in overlooked)

\* The same for its reactions, those made on Matrix too: the last reaction removed
\* may be overlooked while the reaction itself still waits to be bridged, when its
\* lookup fails, or when no poll came between (reaction_sync.go:41).
ReactionsBridgedUnlessOverlooked == <>[](ReactionsInSync \/ "reactions" \in overlooked)
=============================================================================
