------------------------------- MODULE ChatState -------------------------------
(***************************************************************************)
(* What a user keeps of a chat besides its messages: that it is pinned,    *)
(* muted or marked unread (pkg/connector/chat_state.go), the messages      *)
(* pinned in it (pinned_messages.go) and those the user saved              *)
(* (saved_messages.go).  Each has a tracker of what was last seen in       *)
(* Teams, which lives in memory, and each is written from both sides.      *)
(*                                                                         *)
(* The three share the loop's goroutine and no state, so a behaviour is    *)
(* about one of them.  The chat has its room and its row (ChatRooms), and  *)
(* bridgev2 applies tags and mutes to a room that exists (both             *)
(* ..._only_on_create settings are false).                                 *)
(***************************************************************************)
EXTENDS Integers, Sequences, SequencesExt

CONSTANTS
    Parts,      \* which of "marks", "pins" and "saved" a behaviour may be about
    Messages,   \* of the chat, of which Bridged have a Matrix event at the start
    Bridged,
    MaxChanges, \* bound: what the user does, in Teams, on Matrix or by a command
    MaxFaults,  \* bound: requests and room events that fail
    MaxRestarts \* bound: restarts

ASSUME ChatStateAssumption ==
    /\ Parts \subseteq {"marks", "pins", "saved"}
    /\ Bridged \subseteq Messages
    /\ MaxChanges \in Nat /\ MaxFaults \in Nat /\ MaxRestarts \in Nat

Marks == {"pin", "mute", "unread"}
Maybe(S) == {<<>>} \cup {<<x>> : x \in S}
Publishers == {"loop", "command"}
Lists == {list \in Seq(Messages) : IsInjective(list)}
Items == (SUBSET Messages) \X (SUBSET Messages) \* saved messages, and which have an event to link

VARIABLES
    part, changes, faults, restarts,
    missed,   \* history: something happened after which the two sides may stay apart
    bridged,  \* the messages that have a Matrix event
    (* marks *)
    marked,   \* marks of the chat in Teams
    shown,    \* marks of the room: m.favourite, its push rule, m.marked_unread
    tracked,  \* pins, mutes and unreads, the stateTrackers: Maybe(BOOLEAN) for each
    sig,      \* chatInfoSigs: the pin and mute last announced
    listed,   \* what the pass has read of the marks, pc of the pass
    pass,
    queue,    \* of the portal: marks to show, and tags set on Matrix
    tagging,  \* HandleRoomTag's request
    (* pinned messages *)
    pinned,   \* pinnedItems of the thread, newest first
    events,   \* m.room.pinned_events of the room, as message IDs
    pinSig,   \* pinnedMessages.sigs
    pinnable, \* pinnable: checked this run; and what it is for: members may pin
    may,
    refresh,  \* refreshPinnedMessages: where it is and the list it has
    pinning,  \* events of the user whose handlers run, in any order
    (* saved messages *)
    saved,    \* messages saved in Teams, and lastRcMetadataVersion, 0 if none
    version,
    knownSaved, \* savedTracker: saved, versions ("" is 0), pending, published, incomplete
    read,
    pending,
    published,
    incomplete,
    account,  \* account data fi.mau.teams.saved
    at,       \* where each publisher is, the messages or items it has, and its version
    holds,
    seen

marksVars == <<marked, shown, tracked, sig, listed, pass, queue, tagging>>
pinsVars == <<pinned, events, pinSig, pinnable, may, refresh, pinning>>
trackerVars == <<knownSaved, read, pending, published, incomplete>>
savedVars == <<saved, version, trackerVars, account, at, holds, seen>>
countVars == <<changes, faults, restarts>>
chatVars == <<part, countVars, missed, bridged, marksVars, pinsVars, savedVars>>

Fault == faults < MaxFaults /\ faults' = faults + 1
Change == changes < MaxChanges /\ changes' = changes + 1
Diverges(because) == missed' = (missed \/ because)

-----------------------------------------------------------------------------
(* Marks: pinned, muted, marked unread *)

MarksInit ==
    /\ marked \in IF part = "marks" THEN [Marks -> BOOLEAN] ELSE [Marks -> {FALSE}]
    /\ shown = [m \in Marks |-> FALSE]
    /\ tracked = [m \in Marks |-> <<>>]
    /\ sig = <<>>
    /\ listed = [m \in Marks |-> <<>>] /\ pass = "list"
    /\ queue = <<>> /\ tagging = <<>>

\* SetChatMuted, MarkChatUnread, SetChatPinned: each writes to Teams only.
SetMark(m, on) == marked' = [marked EXCEPT ![m] = on]

\* The user marks the chat in Teams, or asks the bot to (chatAction), which does the same.
MarkInTeams ==
    /\ Change
    /\ \E m \in Marks : SetMark(m, ~marked[m])
    /\ UNCHANGED <<faults, missed, shown, tracked, sig, listed, pass, queue, tagging>>

\* The conversation list has mutes and marks, a second request the pinned chats.
ListConversations ==
    /\ pass = "list"
    /\ pass' = "pinned"
    /\ listed' = [m \in Marks |-> IF m = "pin" THEN <<>> ELSE <<marked[m]>>]
    /\ UNCHANGED <<changes, faults, missed, marked, shown, tracked, sig, queue, tagging>>

FetchPinnedChats ==
    /\ pass = "pinned"
    /\ pass' = "apply"
    /\ \/ listed' = [listed EXCEPT !["pin"] = <<marked["pin"]>>] /\ UNCHANGED faults
       \/ Fault /\ UNCHANGED listed
    /\ UNCHANGED <<changes, missed, marked, shown, tracked, sig, queue, tagging>>

\* stateTracker.changed: whether a state read from Teams is to be announced.  The
\* variant forgets that a mark taken off is a change.
Changed_OnOnly(was, now) == now = <<TRUE>> /\ was # <<TRUE>>
Changed(was, now) == now # <<>> /\ (IF now = <<TRUE>> THEN was # <<TRUE>> ELSE was = <<TRUE>>)

\* chatPinState: a pin that could not be read counts as it was.
StateNow(m) == IF listed[m] = <<>> THEN tracked[m] ELSE listed[m]

\* chatMuteState, queueMarkedUnread and chatPinState: what has changed.
ToTell == {m \in Marks : Changed(tracked[m], listed[m])}

\* refreshThreads announces a changed mark as an event of its own, a pin and a mute with
\* the chat, if its signature changed.
Announce ==
    LET newSig == <<[m \in {"pin", "mute"} |-> StateNow(m) = <<TRUE>>]>>
        Told(S) == [kind |-> "show", marks |-> [m \in S |-> StateNow(m) = <<TRUE>>]]
        unread == IF "unread" \in ToTell THEN <<Told({"unread"})>> ELSE <<>>
        resync == IF newSig # sig THEN <<Told(ToTell \ {"unread"})>> ELSE <<>>
    IN  /\ pass = "apply"
        /\ pass' = "list"
        /\ tracked' = [m \in Marks |-> StateNow(m)]
        /\ sig' = newSig
        /\ queue' = queue \o unread \o resync
        \* A mark that is off when it is first seen is not told, on purpose; and a tag is
        \* not, when the chat is pinned from Matrix and unpinned between two passes.
        /\ Diverges(\/ \E m \in Marks : tracked[m] = <<>> /\ listed[m] = <<FALSE>> /\ shown[m]
                    \/ newSig = sig /\ "pin" \in ToTell)
        /\ UNCHANGED <<changes, faults, marked, shown, listed, tagging>>

\* The user sets or removes the tag.  It comes to the portal as an event.
TagRoom ==
    /\ Change
    /\ shown' = [shown EXCEPT !["pin"] = ~@]
    /\ queue' = Append(queue, [kind |-> "tag", on |-> ~shown["pin"]])
    /\ UNCHANGED <<faults, missed, marked, tracked, sig, listed, pass, tagging>>

AboutPin(event) == event.kind = "tag" \/ "pin" \in DOMAIN event.marks

\* bridgev2 shows what is announced.  A tag it sets may come back, as an echo; those are
\* counted, for with passes that are slow enough two of them can answer each other for
\* ever.
ShowMarks ==
    /\ queue # <<>> /\ tagging = <<>>
    /\ Head(queue).kind = "show"
    /\ LET told == Head(queue).marks IN
        \/ /\ shown' = [m \in Marks |-> IF m \in DOMAIN told THEN told[m] ELSE shown[m]]
           /\ \/ queue' = Tail(queue) /\ UNCHANGED changes
              \/ /\ shown'["pin"] # shown["pin"]
                 /\ Change
                 /\ queue' = Append(Tail(queue), [kind |-> "tag", on |-> told["pin"]])
           \* An announcement from before a tag that Teams got overwrites that tag.
           /\ Diverges(/\ "pin" \in DOMAIN told /\ tracked["pin"] # <<told["pin"]>>
                       /\ \A i \in 1 .. Len(queue') : ~AboutPin(queue'[i]))
           /\ UNCHANGED faults
        \/ /\ Fault
           /\ queue' = Tail(queue)
           /\ missed' = TRUE
           /\ UNCHANGED <<changes, shown>>
    /\ UNCHANGED <<marked, tracked, sig, listed, pass, tagging>>

\* Of a tag that is handled when the room has another by then, or the request for which
\* failed, nothing more is heard.
NoMoreTags(rest) == \A i \in 1 .. Len(rest) : rest[i].kind # "tag"

\* HandleRoomTag drops what Teams already has, as far as it is known: an echo.
HandleRoomTag ==
    /\ queue # <<>> /\ tagging = <<>>
    /\ Head(queue).kind = "tag"
    /\ queue' = Tail(queue)
    /\ LET on == Head(queue).on IN
        IF tracked["pin"] = <<on>>
        THEN tagging' = <<>> /\ Diverges(shown["pin"] # on /\ NoMoreTags(Tail(queue)))
        ELSE tagging' = <<on>> /\ UNCHANGED missed
    /\ UNCHANGED <<changes, faults, marked, shown, tracked, sig, listed, pass>>

\* SetChatPinned, which does nothing if the list already has it so.
SetChatPinned ==
    /\ tagging # <<>>
    /\ \/ /\ SetMark("pin", tagging[1])
          /\ tracked' = [tracked EXCEPT !["pin"] = tagging]
          /\ Diverges(shown["pin"] # tagging[1] /\ NoMoreTags(queue))
          /\ UNCHANGED faults
       \/ /\ Fault
          /\ missed' = TRUE
          /\ UNCHANGED <<marked, tracked>>
    /\ tagging' = <<>>
    /\ UNCHANGED <<changes, shown, sig, listed, pass, queue>>

MarksRestart ==
    /\ tracked' = [m \in Marks |-> <<>>] /\ sig' = <<>> /\ pass' = "list"
    /\ queue' = <<>> /\ tagging' = <<>>
    /\ UNCHANGED <<marked, shown, listed>>

MarksNext ==
    \/ MarkInTeams \/ ListConversations \/ FetchPinnedChats \/ Announce
    \/ TagRoom \/ ShowMarks \/ HandleRoomTag \/ SetChatPinned

-----------------------------------------------------------------------------
(* Pinned messages *)

PinsInit ==
    /\ pinned \in IF part = "pins" THEN Maybe(Messages) ELSE {<<>>}
    /\ events = <<>>
    /\ pinSig = <<>>
    /\ pinnable = FALSE /\ may = FALSE
    /\ refresh = [pc |-> "idle", list |-> <<>>, linked |-> <<>>]
    /\ pinning = <<>>

\* GetThreadPinnedItems: the thread's own list; the conversation list leaves it out.
GetThreadPinnedItems == pinned

\* The messages of a list that are in S.  SelectSeq is this, but nothing can be proved
\* about it.
Filter(list, S) ==
    LET first[n \in 0 .. Len(list)] ==
            IF n = 0 THEN <<>>
            ELSE IF list[n] \in S THEN Append(first[n - 1], list[n]) ELSE first[n - 1]
    IN  first[Len(list)]

\* Of the messages, those with an event.
Linked(list) == Filter(list, bridged)
Without(list, m) == Filter(list, Messages \ {m})

PinInTeams ==
    /\ Change
    /\ \E m \in Messages : pinned' = IF m \in ToSet(pinned) THEN Without(pinned, m) ELSE <<m>> \o pinned
    /\ UNCHANGED <<faults, missed, bridged, events, pinSig, pinnable, may, refresh, pinning>>

\* ensurePinnable, once a room and run, whatever comes of it.
EnsurePinnable ==
    /\ pinnable' = TRUE
    /\ \/ may' = TRUE /\ UNCHANGED faults
       \/ pinnable /\ UNCHANGED <<may, faults>>
       \/ Fault /\ UNCHANGED may

\* refreshPinnedMessages reads the list, after a PinnedItemsUpdate, at connect and every
\* hour.  One that fails leaves things as they are.
RefreshPinnedMessages ==
    /\ refresh.pc = "idle"
    /\ refresh' = [pc |-> "sync", list |-> GetThreadPinnedItems, linked |-> <<>>]
    /\ UNCHANGED <<changes, faults, missed, bridged, pinned, events, pinSig, pinnable, may, pinning>>

\* syncPinnedMessages, up to the event.  No pins at first sight are only recorded, so a
\* room with some keeps them.
SyncPinnedMessages ==
    /\ refresh.pc = "sync"
    /\ EnsurePinnable
    /\ \/ /\ pinSig = <<refresh.list>>
          /\ refresh' = [refresh EXCEPT !.pc = "idle"]
          /\ UNCHANGED <<pinSig, missed>>
       \/ /\ pinSig = <<>> /\ refresh.list = <<>>
          /\ pinSig' = <<<<>>>>
          /\ refresh' = [refresh EXCEPT !.pc = "idle"]
          /\ Diverges(events # <<>>)
       \/ /\ pinSig # <<refresh.list>> /\ (pinSig # <<>> \/ refresh.list # <<>>)
          /\ refresh' = [pc |-> "send", list |-> refresh.list, linked |-> Linked(refresh.list)]
          /\ UNCHANGED <<pinSig, missed>>
    /\ UNCHANGED <<changes, bridged, pinned, events, pinning>>

\* The bot sets the room's pinned events, and the list is remembered after that.  The
\* variant remembers it whether or not the room was told.
SendPinnedEvents_Recorded ==
    /\ refresh.pc = "send"
    /\ \/ /\ events' = refresh.linked
          /\ refresh' = [refresh EXCEPT !.pc = "record"]
          /\ UNCHANGED <<faults, pinSig>>
       \/ /\ Fault
          /\ pinSig' = <<refresh.list>>
          /\ refresh' = [refresh EXCEPT !.pc = "idle"]
          /\ UNCHANGED events
    /\ UNCHANGED <<changes, missed, bridged, pinned, pinnable, may, pinning>>
SendPinnedEvents ==
    /\ refresh.pc = "send"
    /\ \/ /\ events' = refresh.linked
          /\ refresh' = [refresh EXCEPT !.pc = "record"]
          /\ UNCHANGED faults
       \/ /\ Fault
          /\ refresh' = [refresh EXCEPT !.pc = "idle"]
          /\ UNCHANGED events
    /\ UNCHANGED <<changes, missed, bridged, pinned, pinSig, pinnable, may, pinning>>

RecordPinned ==
    /\ refresh.pc = "record"
    /\ pinSig' = <<refresh.list>>
    /\ refresh' = [refresh EXCEPT !.pc = "idle"]
    \* What was pinned in the room since, by a handler that is done, is taken for unseen;
    \* if Teams is set back before the next refresh, that finds nothing new.
    /\ Diverges(pinning = <<>> /\ ToSet(events) # ToSet(refresh.linked))
    /\ UNCHANGED <<changes, faults, bridged, pinned, events, pinnable, may, pinning>>

\* A message is bridged.  If it was pinned before, the list is not looked at again.
BridgeMessage ==
    /\ \E m \in Messages \ bridged :
        /\ bridged' = bridged \cup {m}
        /\ Diverges(m \in ToSet(refresh.list) \/ (pinSig # <<>> /\ m \in ToSet(pinSig[1])))
    /\ UNCHANGED <<countVars, pinned, events, pinSig, pinnable, may, refresh, pinning>>

\* The user pins or unpins a message in the room; clients add pins at the end.
PinInRoom ==
    /\ may
    /\ Change
    /\ \E m \in bridged :
        /\ events' = IF m \in ToSet(events) THEN Without(events, m) ELSE Append(events, m)
        /\ pinning' = Append(pinning, [pc |-> "merge", list |-> events'])
    /\ UNCHANGED <<faults, missed, bridged, pinned, pinSig, pinnable, may, refresh>>

\* mergePinnedItems: the messages newly pinned, the last first, and of those already
\* pinned, in Teams' order, the ones still wanted.  The variant adds what is there again.
MergePinnedItems_Again(current, wanted) ==
    Reverse(wanted) \o Filter(current, ToSet(wanted))
MergePinnedItems(current, wanted) ==
    Reverse(Filter(wanted, Messages \ ToSet(current))) \o Filter(current, ToSet(wanted))

\* handleMatrixPinnedEvents, for one event: merge with what was last seen, write it to
\* Teams, remember it.  The handlers of two events run side by side.
HandleMatrixPinnedEvents ==
    /\ \E i \in DOMAIN pinning : LET h == pinning[i] IN
        \/ /\ h.pc = "merge"
           /\ LET current == IF pinSig = <<>> THEN <<>> ELSE pinSig[1] IN
               pinning' = [pinning EXCEPT ![i] = [pc |-> "set", list |-> MergePinnedItems(current, h.list)]]
           /\ UNCHANGED <<pinned, pinSig, missed>>
        \/ /\ h.pc = "set"
           /\ pinned' = h.list
           /\ pinning' = [pinning EXCEPT ![i].pc = "record"]
           /\ UNCHANGED <<pinSig, missed>>
        \/ /\ h.pc = "record"
           /\ pinSig' = <<h.list>>
           /\ pinning' = RemoveAt(pinning, i)
           \* The room was set by the bot meanwhile, or two handlers crossed.
           /\ Diverges(Len(pinning) = 1 /\ ToSet(events) # ToSet(h.list))
           /\ UNCHANGED pinned
    /\ UNCHANGED <<changes, faults, bridged, events, pinnable, may, refresh>>

\* Teams is not told, and the user's change is not tried again.
SetPinnedItemsFails ==
    /\ Fault
    /\ \E i \in DOMAIN pinning :
        /\ pinning[i].pc = "set"
        /\ pinning' = RemoveAt(pinning, i)
    /\ missed' = TRUE
    /\ UNCHANGED <<changes, bridged, pinned, events, pinSig, pinnable, may, refresh>>

PinsRestart ==
    /\ pinSig' = <<>> /\ pinnable' = FALSE /\ pinning' = <<>>
    /\ refresh' = [pc |-> "idle", list |-> <<>>, linked |-> <<>>]
    /\ UNCHANGED <<pinned, events, may>>

PinsNext ==
    \/ PinInTeams \/ RefreshPinnedMessages \/ SyncPinnedMessages \/ SendPinnedEvents \/ RecordPinned
    \/ BridgeMessage \/ PinInRoom \/ HandleMatrixPinnedEvents \/ SetPinnedItemsFails

-----------------------------------------------------------------------------
(* Saved messages *)

SavedInit ==
    /\ saved \in IF part = "saved" THEN {{}, Bridged} ELSE {{}}
    /\ version = IF saved = {} THEN 0 ELSE 1
    /\ knownSaved = {} /\ read = 0 /\ pending = <<>> /\ published = <<>> /\ incomplete = FALSE
    /\ account = <<>>
    /\ at = [p \in Publishers |-> "idle"]
    /\ holds = [p \in Publishers |-> <<{}, {}>>]
    /\ seen = [p \in Publishers |-> 0]

Toggle(S, m) == IF m \in S THEN S \ {m} ELSE S \cup {m}
Go(p, pc) == at' = [at EXCEPT ![p] = pc]

\* SetMessageSaved, which changes the chat's metadata in any case.
SetMessageSaved(m) ==
    /\ saved' = Toggle(saved, m)
    /\ version' = version + 1

\* The user saves or unsaves a message in Teams.
SaveInTeams ==
    /\ Change
    /\ \E m \in Messages : SetMessageSaved(m)
    /\ UNCHANGED <<faults, missed, bridged, trackerVars, account, at, holds, seen>>

\* noteVersion, of the version a pass has listed; 0 says that nothing was ever saved.
ListVersion ==
    /\ at["loop"] = "idle"
    /\ Go("loop", "note")
    /\ seen' = [seen EXCEPT !["loop"] = version]
    /\ UNCHANGED <<changes, faults, missed, bridged, saved, version, trackerVars, account, holds>>

NoteVersion ==
    /\ at["loop"] = "note"
    /\ Go("loop", "take")
    /\ pending' = IF seen["loop"] \in {0, read} THEN pending ELSE <<seen["loop"]>>
    /\ UNCHANGED <<changes, faults, missed, bridged, saved, version, knownSaved, read, published, incomplete, account, holds, seen>>

\* syncSavedMessages: nothing to read and a list that was published complete is the end
\* of it, until a version changes.
TakePending ==
    /\ at["loop"] = "take"
    /\ pending' = <<>>
    /\ IF pending # <<>>
       THEN Go("loop", "read") /\ seen' = [seen EXCEPT !["loop"] = pending[1]]
       ELSE /\ Go("loop", IF published # <<>> /\ ~incomplete THEN "idle" ELSE "collect")
            /\ UNCHANGED seen
    /\ UNCHANGED <<changes, faults, missed, bridged, saved, version, knownSaved, read, published, incomplete, account, holds>>

\* fnSave, of a bridged message.  What follows reads the chat again.
Save ==
    /\ at["command"] = "idle"
    /\ Change
    /\ \E m \in bridged : SetMessageSaved(m)
    /\ Go("command", "read")
    \* No version, so that discovery reads the chat once more.
    /\ seen' = [seen EXCEPT !["command"] = 0]
    /\ UNCHANGED <<faults, missed, bridged, trackerVars, account, holds>>

\* GetSavedMessages.  If it fails the loop publishes what it has, and finds the chat
\* changed again in the next pass; the command does neither.
GetSavedMessages(p) ==
    /\ at[p] = "read"
    /\ \/ Go(p, "store") /\ holds' = [holds EXCEPT ![p] = <<saved, {}>>] /\ UNCHANGED faults
       \/ Fault /\ Go(p, IF p = "loop" THEN "collect" ELSE "idle") /\ UNCHANGED holds
    /\ UNCHANGED <<changes, missed, bridged, saved, version, trackerVars, account, seen>>

\* savedTracker.store.  The variant keeps the version that was there.
Store_Kept(p) ==
    /\ at[p] = "store"
    /\ Go(p, "collect")
    /\ knownSaved' = holds[p][1]
    /\ read' = IF seen[p] = 0 THEN read ELSE seen[p]
    /\ UNCHANGED <<changes, faults, missed, bridged, saved, version, pending, published, incomplete, account, holds, seen>>
Store(p) ==
    /\ at[p] = "store"
    /\ Go(p, "collect")
    /\ knownSaved' = holds[p][1]
    /\ read' = seen[p]
    /\ UNCHANGED <<changes, faults, missed, bridged, saved, version, pending, published, incomplete, account, holds, seen>>

\* publishSavedMessages: the list as it is, then with the events there are, is compared
\* with what was published last, published and remembered.
Collect(p) ==
    /\ at[p] = "collect"
    /\ Go(p, "link")
    /\ holds' = [holds EXCEPT ![p] = <<knownSaved, {}>>]
    /\ UNCHANGED <<changes, faults, missed, bridged, saved, version, trackerVars, account, seen>>

ItemsOf(messages) == <<messages, messages \cap bridged>>
Incomplete(items) == items[1] # items[2]

\* The list a publisher goes on with is not the tracker's any more: the other one has
\* read a newer one; or published it, or set incomplete for it, while this one published.
Overtaken(p) == holds[p][1] # knownSaved

Link(p) ==
    /\ at[p] = "link"
    /\ holds' = [holds EXCEPT ![p] = ItemsOf(@[1])]
    /\ incomplete' = Incomplete(holds'[p])
    /\ Go(p, IF published = <<holds'[p]>> THEN "idle" ELSE "put")
    /\ Diverges(Overtaken(p))
    /\ UNCHANGED <<changes, faults, bridged, saved, version, knownSaved, read, pending, published, account, seen>>

\* SetAccountData.  When it fails, a list that was published before, and that has events
\* for all it holds, is not published again.
Publish(p) ==
    /\ at[p] = "put"
    /\ \/ account' = <<holds[p]>> /\ Go(p, "record") /\ UNCHANGED <<faults, missed>>
       \/ /\ Fault
          /\ Go(p, "idle")
          /\ Diverges(published # <<>> /\ ~incomplete)
          /\ UNCHANGED account
    /\ UNCHANGED <<changes, bridged, saved, version, trackerVars, holds, seen>>

RecordPublished(p) ==
    /\ at[p] = "record"
    /\ Go(p, "idle")
    /\ published' = <<holds[p]>>
    /\ Diverges(Overtaken(p) \/ account # <<holds[p]>> \/ incomplete # Incomplete(holds[p]))
    /\ UNCHANGED <<changes, faults, bridged, saved, version, knownSaved, read, pending, incomplete, account, holds, seen>>

BridgeSaved ==
    /\ \E m \in Messages \ bridged : bridged' = bridged \cup {m}
    /\ UNCHANGED <<countVars, missed, savedVars>>

SavedRestart ==
    /\ knownSaved' = {} /\ read' = 0 /\ pending' = <<>> /\ published' = <<>> /\ incomplete' = FALSE
    /\ at' = [p \in Publishers |-> "idle"] /\ holds' = [p \in Publishers |-> <<{}, {}>>] /\ seen' = [p \in Publishers |-> 0]
    /\ UNCHANGED <<saved, version, account>>

SavedStep(p) == GetSavedMessages(p) \/ Store(p) \/ Collect(p) \/ Link(p) \/ Publish(p) \/ RecordPublished(p)

SavedNext ==
    \/ SaveInTeams \/ ListVersion \/ NoteVersion \/ TakePending \/ Save \/ BridgeSaved
    \/ \E p \in Publishers : SavedStep(p)

-----------------------------------------------------------------------------
ChatInit ==
    /\ part \in Parts
    /\ changes = 0 /\ faults = 0 /\ restarts = 0
    /\ missed = FALSE
    /\ bridged = Bridged
    /\ MarksInit /\ PinsInit /\ SavedInit

\* What is in memory is lost, and with it the portal's queue and all requests.
Restart ==
    /\ restarts < MaxRestarts
    /\ restarts' = restarts + 1
    /\ MarksRestart /\ PinsRestart /\ SavedRestart
    /\ UNCHANGED <<part, changes, faults, missed, bridged>>

ChatNext ==
    \/ /\ part = "marks"
       /\ MarksNext
       /\ UNCHANGED <<part, restarts, bridged, pinsVars, savedVars>>
    \/ /\ part = "pins"
       /\ PinsNext
       /\ UNCHANGED <<part, restarts, marksVars, savedVars>>
    \/ /\ part = "saved"
       /\ SavedNext
       /\ UNCHANGED <<part, restarts, marksVars, pinsVars>>
    \/ Restart

ChatSpec == ChatInit /\ [][ChatNext]_chatVars

\* What the code's goroutines do by themselves: discovery's steps and the pinned
\* messages' refresh come again and again by the clock, the portal's queue is worked off,
\* and requests and the command end.
MarksWork == ListConversations \/ FetchPinnedChats \/ Announce
PortalWork == ShowMarks \/ HandleRoomTag \/ SetChatPinned
PinsWork == RefreshPinnedMessages \/ SyncPinnedMessages \/ SendPinnedEvents \/ RecordPinned
SavedWork == ListVersion \/ NoteVersion \/ TakePending \/ SavedStep("loop")

InPart(p, A, others) == part = p /\ A /\ UNCHANGED <<part, restarts, others>>

FairChatSpec ==
    /\ ChatSpec
    /\ WF_chatVars(InPart("marks", MarksWork, <<bridged, pinsVars, savedVars>>))
    /\ WF_chatVars(InPart("marks", PortalWork, <<bridged, pinsVars, savedVars>>))
    /\ WF_chatVars(InPart("pins", PinsWork, <<marksVars, savedVars>>))
    /\ WF_chatVars(InPart("pins", HandleMatrixPinnedEvents, <<marksVars, savedVars>>))
    /\ WF_chatVars(InPart("saved", SavedWork, <<marksVars, pinsVars>>))
    /\ WF_chatVars(InPart("saved", SavedStep("command"), <<marksVars, pinsVars>>))

-----------------------------------------------------------------------------
(* Properties *)

\* Types.
ChatTypeOK ==
    /\ part \in Parts /\ missed \in BOOLEAN /\ bridged \in SUBSET Messages
    /\ changes \in 0 .. MaxChanges /\ faults \in 0 .. MaxFaults /\ restarts \in 0 .. MaxRestarts
    /\ marked \in [Marks -> BOOLEAN] /\ shown \in [Marks -> BOOLEAN]
    /\ tracked \in [Marks -> Maybe(BOOLEAN)] /\ listed \in [Marks -> Maybe(BOOLEAN)]
    /\ sig \in Maybe([{"pin", "mute"} -> BOOLEAN])
    /\ pass \in {"list", "pinned", "apply"} /\ tagging \in Maybe(BOOLEAN)
    /\ pinned \in Lists /\ events \in Lists /\ ToSet(events) \subseteq bridged
    /\ pinSig \in Seq(Lists) /\ Len(pinSig) <= 1 /\ pinnable \in BOOLEAN /\ may \in BOOLEAN
    /\ \A i \in DOMAIN pinning : pinning[i] \in [pc : {"merge", "set", "record"}, list : Lists]
    /\ saved \in SUBSET Messages /\ knownSaved \in SUBSET Messages
    /\ read <= version /\ pending \in Maybe(1 .. version) /\ incomplete \in BOOLEAN
    /\ published \in Maybe(Items) /\ account \in Maybe(Items)

\* The room comes to show the marks the chat has in Teams, whoever set them last, in
\* whatever order passes, tags and their echoes come ("so discovery can tell a change from
\* a repeat and HandleRoomTag can drop the echo", chat_state.go), unless one of the named
\* losses occurred.
MarksShown == <>[](part = "marks" => missed \/ shown = marked)

\* The room and the chat come to have the same messages pinned, of those that are bridged
\* (syncPinnedMessages, handleMatrixPinnedEvents), unless one of the named losses occurred.
PinsAgree == <>[](part = "pins" => missed \/ ToSet(events) = ToSet(pinned) \cap bridged)

\* The account data come to hold just the saved messages, with a link to each that is
\* bridged (syncSavedMessages, fnSave), unless one of the named losses occurred.
SavedPublished == <>[](part = "saved" => missed \/ account = <<ItemsOf(saved)>>)

=============================================================================
