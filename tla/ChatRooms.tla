------------------------------- MODULE ChatRooms -------------------------------
(***************************************************************************)
(* The room of one Teams chat: how discovery finds the chat and announces  *)
(* it, and how the passes that follow name the room, its members and the   *)
(* person behind a DM, and put a channel into its team's space             *)
(* (pkg/connector/thread_discovery.go, team_spaces.go, ghost_names.go,     *)
(* client.go).  The loop's discovery and naming are one goroutine, the     *)
(* portal's queue is another, and what a ghost is called a third.          *)
(*                                                                         *)
(* A name is a pair <<title, form>>.  Titles are numbered as Teams gives   *)
(* them, 0 is none; a form is 0 for the generic "Chat", 1 for a plain name *)
(* and 2 for one with its prefix or team: <<1, 1>> is "Budget", <<1, 2>>   *)
(* "Group: Budget".  <<0, 1>> is what is put together for a chat without a *)
(* title: its members, the "DM: unknown user 12ab" of a deleted account,   *)
(* or a channel's ID.                                                      *)
(***************************************************************************)
EXTENDS Integers, Sequences

CONSTANTS
    MaxChanges,  \* bound: renamings in Teams, and changes of a chat's members
    MaxMessages, \* bound: messages of other people
    MaxFaults,   \* bound: requests, room events and saves of a profile that fail
    MaxRestarts  \* bound: restarts

ASSUME ChatRoomsAssumption ==
    MaxChanges \in Nat /\ MaxMessages \in Nat /\ MaxFaults \in Nat /\ MaxRestarts \in Nat

Kinds == {"dm", "group", "meeting", "channel", "stream"}
Titles == 0 .. MaxChanges + 1
Names == Titles \X (0 .. 2)
NoName == <<0, 0>>
NoMembers == 0

\* What the conversation list says of a chat beside its ID: its name, or the name of
\* the other person of a DM, and its members, which enterprise chats leave out.
Shapes ==
    {s \in [kind : Kinds, named : BOOLEAN, listed : BOOLEAN] :
        /\ s.kind = "dm" => s.named = s.listed
        /\ s.kind \in {"group", "meeting"} => s.named
        /\ s.kind \in {"meeting", "channel", "stream"} => ~s.listed
        /\ s.kind = "stream" => ~s.named}

\* Room events: a ChatResync, with what it gives, or a message, which gives nothing.
Events == [create : BOOLEAN, name : Names, members : 0 .. MaxChanges + 1, parent : BOOLEAN, message : BOOLEAN]

VARIABLES
    shape,    \* of the chat, which stays
    title,    \* its title in Teams, a person's name in the directory
    members,  \* who is in it, as a number
    changes,
    pc,       \* where the loop is
    row,      \* name in teams_thread_state, <<>> without a row
    sig,      \* chatInfoSigs, <<>> if nothing was announced since startup
    profile,  \* display_name in teams_profile of the other person of a DM
    unknown,  \* nameLookupMiss
    ghost,    \* the name of their ghost, <<>> without one, <<0>> if it is their ID or none yet
    asking,   \* the name GetUserInfo found and has not returned yet
    queue,    \* of the portal
    room,     \* the Matrix room of the portal, <<>> without one
    spoken,   \* a message of somebody in a group is bridged
    space,    \* the room of the team's portal; "plain" is one of an earlier version
    messages, faults, restarts,
    last,     \* history: the last name announced
    unsaved,  \* history: a row was not saved
    missed    \* history: a room event failed, or a ghost was renamed while its name was asked for

teamsVars == <<shape, title, members, changes>>
personVars == <<profile, unknown, ghost, asking>>
roomVars == <<room, spoken, space>>
countVars == <<messages, restarts>>
historyVars == <<last, unsaved, missed>>
vars == <<teamsVars, pc, row, sig, personVars, queue, roomVars, countVars, faults, historyVars>>

Init ==
    /\ shape \in Shapes
    /\ title \in CASE shape.kind = "channel" -> {1} [] shape.kind = "stream" -> {0} [] OTHER -> {0, 1}
    /\ members = 1
    /\ changes = 0
    /\ pc = "connect"
    /\ row = <<>> /\ sig = <<>> /\ queue = <<>>
    /\ profile = 0 /\ unknown = FALSE /\ ghost = <<>> /\ asking = <<>>
    /\ room = <<>> /\ spoken = FALSE
    /\ space \in IF shape.kind = "channel" THEN {"none", "plain"} ELSE {"none"}
    /\ messages = 0 /\ faults = 0 /\ restarts = 0
    /\ last = NoName /\ unsaved = FALSE /\ missed = FALSE

Fault == faults < MaxFaults /\ faults' = faults + 1

-----------------------------------------------------------------------------
(* Names *)

Plain(t) == <<t, IF t = 0 THEN 0 ELSE 1>>

\* resolveRoomName, the name the conversation list gives.
ListedName == IF shape.named THEN Plain(title) ELSE NoName

\* isGenericChatName
IsGenericChatName(name) == name[2] = 0

\* hasTypePrefix.  A placeholder has one, a channel's name never.
HasTypePrefix(name) ==
    /\ shape.kind # "channel"
    /\ name[2] = 2 \/ (shape.kind = "dm" /\ name = <<0, 1>>)

\* What is stored of the name the conversation list reports and the one stored before.
ChooseStoredName_Reported(apiName, existing) == apiName
ChooseStoredName_Prefixed(apiName, existing) ==
    IF IsGenericChatName(apiName) \/ existing[2] = 2 THEN existing ELSE apiName
ChooseStoredName(apiName, existing) ==
    IF IsGenericChatName(apiName) \/ (existing[2] = 2 /\ apiName[1] = existing[1])
    THEN existing
    ELSE apiName

\* teams_profile keeps the name saved last, whenever the person had it.  A save may fail.
SaveProfile(name) ==
    \/ profile' = (IF name = 0 THEN profile ELSE name) /\ UNCHANGED faults
    \/ name \notin {0, profile} /\ Fault /\ UNCHANGED profile

\* lookupUserDisplayName: the other person's name from the profile table, else from the
\* directory, which stores it; a person the directory does not know is not asked about
\* again for a while.
LookupUserDisplayName(name) ==
    \/ /\ profile # 0 \/ unknown
       /\ name = profile
       /\ UNCHANGED <<profile, unknown, faults>>
    \/ /\ profile = 0 /\ ~unknown
       /\ name = title
       /\ SaveProfile(title) /\ unknown' = (title = 0)
    \/ /\ profile = 0 /\ ~unknown
       /\ name = 0
       /\ Fault
       /\ UNCHANGED <<profile, unknown>>

\* syncGhostName renames a ghost that exists, also if the profile could not be given the
\* name.  If its name is being asked for, the answer comes later and stays.
SyncGhostName(name) ==
    IF name # 0 /\ ghost # <<>>
    THEN /\ ghost' = <<name>>
         /\ missed' = (missed \/ profile' \notin {0, name} \/ asking \notin {<<>>, <<name>>})
    ELSE UNCHANGED <<ghost, missed>>

\* resolveUserDisplayName: a name from the directory is the ghost's, too.
ResolveUserDisplayName(name) ==
    /\ LookupUserDisplayName(name)
    /\ SyncGhostName(IF profile = 0 THEN name ELSE 0)
    /\ UNCHANGED asking

NobodyAsked == UNCHANGED <<personVars, missed>>

\* Upsert of the row, at its end a save that may fail (bound: one does, before MaxFaults
\* other failures).
Upsert(name) ==
    \/ row' = <<name>> /\ UNCHANGED unsaved
    \/ ~unsaved /\ faults < MaxFaults /\ unsaved' = TRUE /\ UNCHANGED row

\* What is announced of the chat: bridgev2 takes what an event gives of it.
Announce(event) ==
    /\ queue' = Append(queue, event)
    /\ last' = IF IsGenericChatName(event.name) THEN last ELSE event.name
Resync(create, name, who, parent) ==
    [create |-> create, name |-> name, members |-> who, parent |-> parent, message |-> FALSE]
AnnounceNothing == UNCHANGED <<queue, last>>

\* chatInfoChanged: what was announced last is not announced again.  The variant does
\* not compare, and has an event for the room there is beside the one that may create it.
AnnounceAlways(info) ==
    /\ sig' = <<info>>
    /\ queue' = queue \o <<[info EXCEPT !.create = FALSE], info>>
    /\ last' = IF IsGenericChatName(info.name) THEN last ELSE info.name
AnnounceIfChanged(info) ==
    /\ sig' = <<info>>
    /\ IF sig = <<info>> THEN AnnounceNothing ELSE Announce(info)

\* A name that is saved and announced.
Rename(name, who, parent) ==
    /\ Upsert(name)
    /\ Announce(Resync(FALSE, name, who, parent))
NoRename == UNCHANGED <<row, unsaved>> /\ AnnounceNothing

-----------------------------------------------------------------------------
(* The loop: what happens at Connect, the full sync it begins with, and passes *)

\* syncGhostNamesFromProfiles: a ghost is named after its profile, or else asked for.
SyncGhostNamesFromProfiles ==
    /\ pc = "connect"
    /\ pc' = "seed"
    /\ \/ /\ ghost # <<>> /\ profile # 0
          /\ UNCHANGED <<profile, unknown, asking, faults>>
          /\ SyncGhostName(profile)
       \/ /\ ghost = <<0>> /\ profile = 0
          /\ \E name \in Titles : ResolveUserDisplayName(name)
       \/ /\ ghost = <<>> \/ (profile = 0 /\ ghost # <<0>>)
          /\ NobodyAsked /\ UNCHANGED faults
    /\ UNCHANGED <<teamsVars, row, sig, queue, roomVars, countVars, last, unsaved>>

\* The members a ChatInfo gives: those of the conversation list, or of a DM those its ID
\* names.
DmMemberListFromThreadID == IF shape.kind = "dm" THEN members ELSE NoMembers
BuildChatMemberList == IF shape.listed THEN members ELSE DmMemberListFromThreadID

\* refreshThreads with the name the list gives, or the DM's other person has.
RefreshThreads(apiName) ==
    LET name == ChooseStoredName(apiName, IF row = <<>> THEN NoName ELSE row[1])
    IN /\ Upsert(name)
       /\ AnnounceIfChanged(Resync(TRUE, name, BuildChatMemberList, FALSE))

Discover ==
    /\ pc \in {"seed", "poll"}
    /\ pc' = IF pc = "seed" THEN "unnamed" ELSE "poll"
    /\ \/ /\ shape.kind # "dm" \/ shape.named
          /\ RefreshThreads(ListedName)
          /\ NobodyAsked /\ UNCHANGED faults
       \/ /\ shape.kind = "dm" /\ ~shape.named
          /\ \E name \in Titles : ResolveUserDisplayName(name) /\ RefreshThreads(Plain(name))
    /\ UNCHANGED <<teamsVars, roomVars, countVars>>

\* The full sync ends at its first error: no list, or a thread's poll.  It is not tried
\* again before the next Connect; the passes begin.
SyncOnceFails ==
    /\ pc \in {"seed", "unnamed"}
    /\ pc' = "poll"
    /\ Fault
    /\ UNCHANGED <<teamsVars, row, sig, personVars, queue, roomVars, countVars, historyVars>>

\* A group is named after those who have spoken, or else after those who the chat
\* service says are in it: that is a request, which gives the room its members, too.
BuildGroupChatName == spoken /\ Rename(<<0, 1>>, NoMembers, FALSE) /\ UNCHANGED faults
GroupChatNameAndMembers ==
    /\ ~spoken
    /\ \/ Rename(<<0, 1>>, members, FALSE) /\ UNCHANGED faults
       \/ NoRename /\ Fault
ResolveUnnamedGroupChats ==
    /\ pc = "unnamed"
    /\ pc' = "repair"
    /\ IF shape.kind = "group" /\ row = <<NoName>>
       THEN BuildGroupChatName \/ GroupChatNameAndMembers
       ELSE NoRename /\ UNCHANGED faults
    /\ UNCHANGED <<teamsVars, sig, personVars, roomVars, countVars, missed>>

\* repairTeamSpaces detaches a team's room that is no space.  Its channels have to be
\* put into the next one.  If the portals cannot be listed, or the room not be detached,
\* all stays as it is until the next start.
RepairTeamSpaces ==
    /\ pc = "repair"
    /\ pc' = "teams"
    /\ \/ /\ space = "plain"
          /\ space' = "none"
          /\ room' = IF room = <<>> THEN room ELSE <<[room[1] EXCEPT !.inSpace = FALSE]>>
          /\ UNCHANGED faults
       \/ space = "plain" /\ Fault /\ UNCHANGED <<space, room>>
       \/ space # "plain" /\ UNCHANGED <<space, room, faults>>
    /\ UNCHANGED <<teamsVars, row, sig, personVars, queue, spoken, countVars, historyVars>>

\* What Graph says of the channel: its name.  Its team has one that stays.
ChannelInfo == <<title, 2>>

\* structuredRoomName of a chat with the stored name, whose channel Graph knows or not,
\* and systemStreamName, "Notes".
StructuredRoomName(stored, mapped) ==
    CASE shape.kind = "dm" -> IF IsGenericChatName(stored) THEN <<0, 1>> ELSE <<stored[1], 2>>
      [] shape.kind = "group" -> IF IsGenericChatName(stored) THEN stored ELSE <<stored[1], 2>>
      [] shape.kind = "meeting" -> <<stored[1], 2>>
      [] shape.kind = "stream" -> <<0, 2>>
      [] shape.kind = "channel" ->
            IF mapped THEN ChannelInfo ELSE IF IsGenericChatName(stored) THEN <<0, 1>> ELSE stored

\* fetchTeamChannelMap: Graph knows every channel, if it answers.
FetchTeamChannelMap(mapped) ==
    IF mapped THEN UNCHANGED faults ELSE shape.kind = "channel" /\ Fault

\* applyStructuredRoomNames, which asks once more for the name of a DM without one.
ApplyStructuredRoomNames(mapped) ==
    LET nameless == shape.kind = "dm" /\ row = <<NoName>>
        renamed(stored) ==
            LET name == StructuredRoomName(stored, mapped)
            IN IF name = row[1] THEN NoRename ELSE Rename(name, NoMembers, shape.kind = "channel" /\ mapped)
    IN \/ /\ nameless /\ mapped
          /\ \E name \in Titles : ResolveUserDisplayName(name) /\ renamed(Plain(name))
       \/ /\ ~nameless
          /\ NobodyAsked /\ FetchTeamChannelMap(mapped)
          /\ IF row = <<>> THEN NoRename ELSE IF HasTypePrefix(row[1]) THEN NoRename ELSE renamed(row[1])

\* teamSpaceChatInfo makes every room of a team a space.
MakeSpace == IF space = "none" THEN "space" ELSE space

\* syncTeamSpaces announces the team to a queue of its own: its space is made now, later,
\* or not at all.
SyncTeamSpaces(mapped) ==
    IF mapped /\ shape.kind = "channel" THEN space' \in {space, MakeSpace} ELSE UNCHANGED space

\* syncTeams, in the full sync and hourly: a space for the team, the names, and if Graph
\* answered the parents.
SyncTeams ==
    /\ pc \in {"teams", "poll"}
    /\ \E mapped \in BOOLEAN :
          /\ ApplyStructuredRoomNames(mapped)
          /\ pc' = IF mapped /\ shape.kind = "channel" THEN "parents" ELSE "poll"
          /\ SyncTeamSpaces(mapped)
    /\ UNCHANGED <<teamsVars, sig, room, spoken, countVars>>

\* syncChannelParents: a channel's room is told of its parent, or if it has been is put
\* into the space, which is made if there is none.  That may fail.
SyncChannelParents_Told ==
    /\ pc = "parents"
    /\ pc' = "poll"
    /\ IF room # <<>> /\ ~room[1].parent /\ ~\E i \in 1 .. Len(queue) : queue[i].parent
       THEN Announce(Resync(FALSE, NoName, NoMembers, TRUE))
       ELSE AnnounceNothing
    /\ UNCHANGED <<teamsVars, row, sig, personVars, roomVars, countVars, faults, unsaved, missed>>
SyncChannelParents ==
    /\ pc = "parents"
    /\ pc' = "poll"
    /\ \/ /\ room # <<>> /\ ~room[1].parent
          /\ IF \E i \in 1 .. Len(queue) : queue[i].parent
             THEN AnnounceNothing \* bound: once is enough
             ELSE Announce(Resync(FALSE, NoName, NoMembers, TRUE))
          /\ UNCHANGED <<room, space, faults>>
       \/ /\ room # <<>> /\ room[1].parent /\ ~room[1].inSpace
          /\ \/ /\ room' = <<[room[1] EXCEPT !.inSpace = TRUE]>>
                /\ space' = MakeSpace
                /\ UNCHANGED faults
             \/ Fault /\ UNCHANGED <<room, space>>
          /\ AnnounceNothing
       \/ /\ room = <<>> \/ (room # <<>> /\ room[1].inSpace)
          /\ AnnounceNothing
          /\ UNCHANGED <<room, space, faults>>
    /\ UNCHANGED <<teamsVars, row, sig, personVars, spoken, countVars, unsaved, missed>>

\* The names the person has had, or none: what a message may carry, as it does the name
\* of when it was sent.
FormerNames == IF title = 0 THEN 0 .. changes + 1 ELSE 0 .. title

\* A message of the other person, or of somebody in the group, found by a poll, of the
\* full sync or later: the name it carries is saved, over a newer one too, and given to
\* their ghost (resolveSenderName).
QueueUserMessage ==
    /\ pc \in {"unnamed", "poll"}
    /\ row # <<>>
    /\ messages < MaxMessages
    /\ messages' = messages + 1
    /\ IF shape.kind = "dm"
       THEN \E name \in FormerNames : SaveProfile(name) /\ SyncGhostName(name)
       ELSE UNCHANGED <<profile, ghost, missed, faults>>
    /\ Announce([create |-> TRUE, name |-> NoName, members |-> NoMembers, parent |-> FALSE, message |-> TRUE])
    /\ UNCHANGED <<teamsVars, pc, row, sig, unknown, asking, roomVars, restarts, unsaved>>

-----------------------------------------------------------------------------
(* The portal's queue *)

\* A room is made of an event's info if that gives the members, or else of GetChatInfo,
\* which reads the row, and the list for the members.
CreateRoom(event) ==
    LET given == event.members # NoMembers
        stored == IF row = <<>> THEN NoName ELSE row[1]
    IN [name |-> IF given THEN event.name ELSE stored,
        members |-> IF given THEN event.members ELSE BuildChatMemberList,
        parent |-> FALSE, inSpace |-> FALSE]

\* What an event gives is taken over.
UpdateRoom(event) ==
    [room[1] EXCEPT
        !.name = IF IsGenericChatName(event.name) THEN @ ELSE event.name,
        !.members = IF event.members = NoMembers THEN @ ELSE event.members,
        !.parent = @ \/ event.parent,
        !.inSpace = @ \/ event.parent]

HandleEvent ==
    /\ queue # <<>>
    /\ queue' = Tail(queue)
    /\ LET event == Head(queue)
       IN /\ room' = IF room # <<>> THEN <<UpdateRoom(event)>>
                     ELSE IF event.create THEN <<CreateRoom(event)>> ELSE <<>>
          /\ space' = IF event.parent /\ room # <<>> THEN MakeSpace ELSE space
          /\ spoken' = (spoken \/ (shape.kind = "group" /\ event.message))
    /\ UNCHANGED <<teamsVars, pc, row, sig, personVars, countVars, faults, historyVars>>

\* The homeserver or the database fails: the event is gone.
HandlingFails ==
    /\ queue # <<>>
    /\ queue' = Tail(queue)
    /\ Fault
    /\ missed' = TRUE
    /\ UNCHANGED <<teamsVars, pc, row, sig, personVars, roomVars, countVars, last, unsaved>>

\* GetUserInfo: a ghost that is first needed is named, in two steps: its name is looked
\* up, which may be a request of seconds, and then given to it.
AskName ==
    /\ shape.kind = "dm" /\ room # <<>>
    /\ ghost = <<>>
    /\ ghost' = <<0>>
    /\ \E name \in Titles : LookupUserDisplayName(name) /\ asking' = <<name>>
    /\ UNCHANGED <<teamsVars, pc, row, sig, queue, roomVars, countVars, historyVars>>
GetUserInfo ==
    /\ asking # <<>>
    /\ ghost' = asking
    /\ asking' = <<>>
    /\ UNCHANGED <<teamsVars, pc, row, sig, profile, unknown, queue, roomVars, countVars, faults, historyVars>>

-----------------------------------------------------------------------------
(* Teams, time and restarts *)

\* A chat or a person is renamed, or the chat's title or the person's account removed.
RenamedInTeams ==
    /\ shape.kind # "stream"
    /\ changes < MaxChanges
    /\ changes' = changes + 1
    /\ title' \in {changes' + 1} \cup (IF shape.kind = "channel" THEN {} ELSE {0})
    /\ title' # title
    /\ UNCHANGED <<shape, members, pc, row, sig, personVars, queue, roomVars, countVars, faults, historyVars>>

MembersChange ==
    /\ shape.kind # "dm"
    /\ changes < MaxChanges
    /\ changes' = changes + 1
    /\ members' = members + 1
    /\ UNCHANGED <<shape, title, pc, row, sig, personVars, queue, roomVars, countVars, faults, historyVars>>

\* nameLookupMissTTL is over.
MissExpires ==
    /\ unknown
    /\ unknown' = FALSE
    /\ UNCHANGED <<teamsVars, pc, row, sig, profile, ghost, asking, queue, roomVars, countVars, faults, historyVars>>

\* What is in memory is lost.  Discovery announces the chat afresh.
Restart ==
    /\ restarts < MaxRestarts
    /\ restarts' = restarts + 1
    /\ pc' = "connect"
    /\ sig' = <<>> /\ queue' = <<>> /\ unknown' = FALSE /\ asking' = <<>>
    /\ UNCHANGED <<teamsVars, row, profile, ghost, roomVars, messages, faults, historyVars>>

-----------------------------------------------------------------------------
Next ==
    \/ SyncGhostNamesFromProfiles \/ Discover \/ SyncOnceFails \/ ResolveUnnamedGroupChats
    \/ RepairTeamSpaces \/ SyncTeams \/ SyncChannelParents \/ QueueUserMessage
    \/ HandleEvent \/ HandlingFails \/ AskName \/ GetUserInfo
    \/ RenamedInTeams \/ MembersChange \/ MissExpires \/ Restart

Spec == Init /\ [][Next]_vars

\* The loop's steps come in turn, discovery and the team sync again and again by the
\* clock; the portal's queue is worked off, requests end, and misses expire.
FairSpec ==
    /\ Spec
    /\ WF_vars(SyncGhostNamesFromProfiles) /\ WF_vars(ResolveUnnamedGroupChats)
    /\ WF_vars(RepairTeamSpaces) /\ WF_vars(SyncChannelParents)
    /\ SF_vars(Discover) /\ SF_vars(SyncTeams)
    /\ WF_vars(HandleEvent) /\ WF_vars(GetUserInfo) /\ WF_vars(MissExpires)

-----------------------------------------------------------------------------
(* Properties *)

\* Types.  A chat that stays as it is is not announced again and again ("otherwise
\* every pass floods each portal's event queue", refreshThreads).  No more events wait
\* than three for a title, or none (its name, that with a prefix, and by discovery once
\* more), also one that a message brings, one for the message, two for a placeholder that
\* gets a title, two for a save that failed, and a channel's parent.
MaxQueue == 3 * (MaxChanges + 2) + 4 * MaxMessages + 5
TypeOK ==
    /\ shape \in Shapes
    /\ title \in Titles
    /\ members \in 1 .. MaxChanges + 1
    /\ pc \in {"connect", "seed", "unnamed", "repair", "teams", "parents", "poll"}
    /\ row = <<>> \/ row[1] \in Names
    /\ sig = <<>> \/ sig[1] \in Events
    /\ profile \in Titles /\ unknown \in BOOLEAN
    /\ ghost \in {<<>>} \cup {<<t>> : t \in Titles}
    /\ asking \in {<<>>} \cup {<<t>> : t \in Titles}
    /\ Len(queue) <= MaxQueue /\ \A i \in 1 .. Len(queue) : queue[i] \in Events
    /\ room = <<>> \/ room[1] \in [name : Names, members : 0 .. MaxChanges + 1, parent : BOOLEAN, inSpace : BOOLEAN]
    /\ spoken \in BOOLEAN /\ space \in {"none", "plain", "space"}
    /\ last \in Names /\ unsaved \in BOOLEAN /\ missed \in BOOLEAN

\* A room that has a name is never renamed back, to the title alone, a placeholder or a
\* name from before, by discovery or a naming pass, also across restarts ("that made
\* every restart rename each channel three times", refreshThreads), if rows are saved.
\* Only a DM that the list gives no name is called what its person's profile has, also if
\* a message of before put an earlier name there (resolveSenderName).
NamedByProfile == shape.kind = "dm" /\ ~shape.named
Later(a, b) == a[1] > b[1] \/ (a[1] = b[1] /\ a[2] >= b[2])
BackWithProfile == NamedByProfile /\ last'[1] = profile' /\ last'[1] < last[1]
NeverRenamedBack == [][unsaved \/ Later(last', last) \/ BackWithProfile]_vars

\* A chat gets a room, named as structuredRoomName has it after what Teams calls the
\* chat or the person, with the members Teams lists, and the ghost is called what its
\* profile says; unless an event of the room failed, which is not queued again, or the
\* ghost was renamed while it was being named.  A group without a title is named by a
\* full sync only.
NamedAsInTeams ==
    LET known == IF NamedByProfile THEN profile ELSE IF shape.named \/ shape.kind = "channel" THEN title ELSE 0
    IN /\ room # <<>> /\ row # <<>>
       /\ room[1].name = row[1] \/ (unsaved /\ IsGenericChatName(row[1]))
       /\ known # 0 => row[1] = <<known, 2>>
       /\ shape.kind # "group" => ~IsGenericChatName(row[1])
       /\ shape.listed => room[1].members = members
       /\ ghost # <<>> /\ profile # 0 => ghost = <<profile>>
NamesSettle == <>[](missed \/ NamedAsInTeams)

\* A channel's room comes to be in its team's space, also if a restart, a failed event
\* or the repair of the space took it out of it or kept it from it
\* (syncChannelParents).
ChannelInSpace ==
    <>[](shape.kind = "channel" /\ room # <<>> => room[1].parent /\ room[1].inSpace /\ space # "none")

=============================================================================
