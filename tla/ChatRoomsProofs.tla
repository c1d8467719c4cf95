---------------------------- MODULE ChatRoomsProofs ----------------------------
(***************************************************************************)
(* Theorems about ChatRooms, for any number of renamings, messages, faults *)
(* and restarts: a room is not renamed back but to the name its person's   *)
(* profile has, no pass floods the portal's queue, and a queue that is     *)
(* worked off leaves the room named as stored.                             *)
(***************************************************************************)
EXTENDS ChatRooms, TLAPS

(* The name in the chat's row. *)
Stored == IF row = <<>> THEN NoName ELSE row[1]

(* A title that comes later is larger, but that one may be removed; the      *)
(* profile has one that was the person's, not always the latest it had.      *)
People ==
    /\ shape \in Shapes /\ changes \in Nat
    /\ title \in Nat /\ title <= changes + 1
    /\ profile \in Nat /\ profile <= changes + 1
    /\ title = 0 \/ profile <= title
    /\ shape.kind = "channel" => title # 0
    /\ shape.kind = "stream" => title = 0

IsName(name) == name \in Nat \X (0 .. 2) /\ (name[2] = 0 => name = NoName)

(* A name that the chat has, or had. *)
Known(name) ==
    /\ IsName(name)
    /\ name[1] <= changes + 1
    /\ title = 0 \/ name[1] <= title
    /\ shape.kind = "stream" => name[1] = 0

(* What discovery announced last is no later than what is stored, and if the *)
(* room is named by a profile, no other title.                               *)
Begun(name) ==
    /\ IsName(name) /\ Later(Stored, name)
    /\ NamedByProfile => name[1] \in {0, Stored[1]}

(* What was announced last is what is stored. *)
Told == unsaved \/ (last = Stored /\ (sig = <<>> \/ Begun(sig[1].name)))

Inv == People /\ Known(Stored) /\ Told

(* What each step has to do. *)
Kept == Inv' /\ (unsaved \/ Later(last', last) \/ BackWithProfile)

LEMMA NoNameKnown == IsName(NoName) /\ NoName[1] = 0 /\ NoName[2] = 0
BY DEF NoName, IsName

LEMMA LaterOrder ==
    ASSUME NEW a \in Nat \X (0 .. 2), NEW b \in Nat \X (0 .. 2), NEW c \in Nat \X (0 .. 2)
    PROVE  /\ Later(a, a) /\ Later(a, NoName)
           /\ Later(a, b) /\ Later(b, c) => Later(a, c)
           /\ Later(a, b) /\ Later(b, a) => a = b
<1>1. /\ a[1] \in Nat /\ a[2] \in 0 .. 2 /\ b[1] \in Nat /\ b[2] \in 0 .. 2 /\ c[1] \in Nat /\ c[2] \in 0 .. 2
      /\ a = <<a[1], a[2]>> /\ b = <<b[1], b[2]>>
  OBVIOUS
<1> QED
  BY <1>1, NoNameKnown DEF Later

LEMMA PlainName ==
    ASSUME NEW t \in Nat
    PROVE  /\ IsName(Plain(t)) /\ Plain(t)[1] = t /\ Plain(t)[2] = (IF t = 0 THEN 0 ELSE 1)
           /\ IsGenericChatName(Plain(t)) <=> t = 0
BY DEF Plain, IsName, NoName, IsGenericChatName

-----------------------------------------------------------------------------
(* Names of people, and steps that tell nothing *)

(* The title of the names a pass may take up: of the chat, or of a room that *)
(* is named by a profile what that has.                                      *)
Given == IF NamedByProfile /\ profile # 0 THEN profile ELSE title

(* The profile is left, or takes the person's name if it had none: what      *)
(* every step does but a message.                                            *)
ProfileGrows ==
    /\ UNCHANGED <<shape, changes, title>>
    /\ profile' = profile \/ (profile = 0 /\ profile' = title)

LEMMA ProfileSaved ==
    ASSUME UNCHANGED <<shape, changes, title>>,
           (profile = 0 /\ SaveProfile(title)) \/ profile' = profile
    PROVE  ProfileGrows
BY DEF ProfileGrows, SaveProfile

LEMMA LookedUp ==
    ASSUME People, NEW name, UNCHANGED <<shape, changes, title>>, LookupUserDisplayName(name)
    PROVE  /\ ProfileGrows /\ name \in Nat
           /\ name \in {0, title} \/ name = profile'
           /\ NamedByProfile => name \in {0, Given}
<1>1. CASE name = profile /\ UNCHANGED profile
  BY <1>1 DEF People, ProfileGrows, Given
<1>2. CASE profile = 0 /\ name = title /\ SaveProfile(title)
  BY <1>2, ProfileSaved DEF People, Given
<1>3. CASE profile = 0 /\ name = 0 /\ UNCHANGED profile
  BY <1>3 DEF ProfileGrows
<1> QED
  BY <1>1, <1>2, <1>3 DEF LookupUserDisplayName

LEMMA NamesStay ==
    ASSUME UNCHANGED <<shape, changes, title>>, NEW name, Known(name)
    PROVE  Known(name)'
BY DEF Known, IsName

LEMMA PeopleKept ==
    ASSUME Inv, ProfileGrows
    PROVE  /\ People' /\ UNCHANGED <<Given, shape, changes, title>>
           /\ \A name : Known(name) => Known(name)'
<1>1. People' /\ UNCHANGED <<shape, changes, title>>
  BY DEF Inv, People, ProfileGrows
<1>2. Given' = Given
  BY DEF ProfileGrows, Given, NamedByProfile
<1> QED
  BY <1>1, <1>2, NamesStay

LEMMA QuietStep ==
    ASSUME Inv, UNCHANGED <<shape, changes, title, row, sig, last, unsaved>>, People'
    PROVE  Kept
<1>1. Stored' = Stored
  BY DEF Stored
<1>2. Known(Stored)'
  BY <1>1, NamesStay DEF Inv
<1>3. Told'
  BY <1>1 DEF Inv, Told, Begun, IsName, NamedByProfile
<1>4. unsaved \/ Later(last', last)
  BY LaterOrder DEF Inv, Told, Known, IsName
<1> QED
  BY <1>2, <1>3, <1>4 DEF Inv, Kept

-----------------------------------------------------------------------------
(* A name that is saved and told *)

(* The new name is the one stored, or one that comes later, or what the      *)
(* profile of a room that is named by it has.                                *)
Forward(name) == name[2] # 0 /\ Later(name, Stored)
Back(name) == NamedByProfile /\ name[2] # 0 /\ name[1] = profile' /\ name[1] # 0 /\ name[1] < Stored[1]
Follows(name) == name = Stored \/ Forward(name) \/ Back(name)

(* The new name has the stored one's title, if a profile names the room. *)
Adorns(name) == Forward(name) /\ (NamedByProfile => name[1] = Stored[1] \/ Stored = NoName)

LEMMA NamedStep ==
    ASSUME Inv, ProfileGrows, NEW name, Known(name)', Follows(name),
           NEW event, event.name = name, Upsert(name),
           \/ AnnounceIfChanged(event)
           \/ Announce(event) /\ UNCHANGED sig /\ Adorns(name)
    PROVE  Kept
<1>1. /\ IsName(name) /\ name \in Nat \X (0 .. 2) /\ IsName(Stored) /\ Stored \in Nat \X (0 .. 2)
      /\ name[1] \in Nat /\ Stored[1] \in Nat /\ name[2] \in 0 .. 2
  BY DEF Inv, Known, IsName
<1>2. People'
  BY PeopleKept
<1>2a. PICK old : old = Stored /\ Known(old)'
  BY PeopleKept DEF Inv
<1>2b. NamedByProfile' = NamedByProfile
  BY DEF NamedByProfile, ProfileGrows
<1>3. Later(name, Stored) \/ Back(name)
  BY <1>1, LaterOrder DEF Follows, Forward
<1>4. IsGenericChatName(name) <=> name = NoName
  BY <1>1, NoNameKnown DEF IsName, IsGenericChatName
<1>5. IsGenericChatName(name) => name = Stored
  BY DEF Follows, Forward, Back, IsGenericChatName
<1>6. CASE unsaved
  <2>1. unsaved' /\ Stored' \in {Stored, name}
    BY <1>6 DEF Upsert, Stored
  <2>2. Known(Stored)'
    BY <1>2a, <2>1 DEF Known, IsName
  <2> QED
    BY <1>2, <1>6, <2>1, <2>2 DEF Kept, Inv, Told
<1>7. CASE ~unsaved
  <2>1. last = Stored /\ (sig = <<>> \/ Begun(sig[1].name))
    BY <1>7 DEF Inv, Told
  <2>2. (unsaved' /\ Stored' = Stored) \/ Stored' = name
    BY DEF Upsert, Stored
  <2>3. Known(Stored)'
    BY <1>2a, <2>2 DEF Known, IsName
  <2>4. CASE Announce(event)
    <3>1. last' = name
      BY <1>4, <1>5, <2>1, <2>4 DEF Announce
    <3>2. ASSUME Stored' = name, sig' # <<>>
          PROVE  Begun(sig[1].name)'
      <4>1. CASE sig' = <<event>>
        BY <1>1, <3>2, <4>1, LaterOrder DEF Begun, IsName
      <4>2. CASE UNCHANGED sig /\ Adorns(name)
        <5>1. Begun(sig[1].name)
          BY <2>1, <3>2, <4>2
        <5>2. sig[1].name \in Nat \X (0 .. 2)
          BY <5>1 DEF Begun, IsName
        <5>3. Later(name, sig[1].name)
          BY <1>1, <4>2, <5>1, <5>2, LaterOrder DEF Adorns, Forward, Begun
        <5>4. NamedByProfile => sig[1].name[1] \in {0, name[1]}
          <6>1. Stored = NoName => sig[1].name[1] = 0
            BY <5>1, <5>2, NoNameKnown DEF Begun, Later
          <6> QED
            BY <4>2, <5>1, <6>1 DEF Adorns, Begun
        <5> QED
          BY <1>2b, <3>2, <4>2, <5>1, <5>3, <5>4 DEF Begun, IsName
      <4> QED
        BY <4>1, <4>2 DEF AnnounceIfChanged
    <3>3. Later(last', last) \/ BackWithProfile
      BY <1>3, <2>1, <3>1 DEF Back, BackWithProfile
    <3> QED
      BY <1>2, <2>2, <2>3, <3>1, <3>2, <3>3 DEF Kept, Inv, Told
  <2>5. CASE ~Announce(event)
    <3>1. sig = <<event>> /\ sig' = sig /\ last' = last
      BY <2>5 DEF AnnounceIfChanged, AnnounceNothing
    <3>2. sig # <<>> /\ sig[1].name = name
      BY <3>1
    <3>3. Later(Stored, name) /\ (NamedByProfile => name[1] \in {0, Stored[1]})
      BY <2>1, <3>2 DEF Begun
    <3>4. name = Stored
      <4>1. ~Back(name)
        BY <1>1, <3>3 DEF Back
      <4> QED
        BY <1>1, <1>3, <3>3, <4>1, LaterOrder
    <3>5. Stored' = Stored /\ Later(last', last)
      BY <1>1, <2>1, <2>2, <3>1, <3>4, LaterOrder
    <3>6. Begun(sig[1].name)'
      BY <1>2b, <2>1, <3>1, <3>2, <3>5 DEF Begun, IsName
    <3> QED
      BY <1>2, <2>1, <2>3, <3>1, <3>5, <3>6 DEF Kept, Inv, Told
  <2> QED
    BY <2>4, <2>5
<1> QED
  BY <1>6, <1>7

-----------------------------------------------------------------------------
(* The steps that name the room *)

(* Discovery finds no name, or one that is no earlier than the stored one,   *)
(* or the one the profile has.                                               *)
Found(t) ==
    /\ t \in Nat /\ Known(Plain(t))'
    /\ t \in {0, Given}
    /\ t = 0 \/ Stored[1] <= t \/ (NamedByProfile /\ t = profile')

LEMMA ChosenFollows ==
    ASSUME Inv, ProfileGrows, NEW t, Found(t),
           NEW name, name = ChooseStoredName(Plain(t), Stored)
    PROVE  Known(name)' /\ Follows(name) /\ (name = Stored \/ name[1] = Given)
<1>1. PICK old : old = Stored /\ Known(old)'
  BY PeopleKept DEF Inv
<1>2. CASE name = Stored
  BY <1>1, <1>2 DEF Follows
<1>3. CASE name # Stored
  <2>0. t \in Nat
    BY DEF Found
  <2>1. name = Plain(t) /\ t # 0 /\ ~(Stored[2] = 2 /\ t = Stored[1])
    BY <1>3, <2>0, PlainName DEF ChooseStoredName
  <2>2. Stored[1] \in Nat /\ Stored[2] \in 0 .. 2 /\ name[1] = t /\ name[2] = 1
    BY <2>0, <2>1, PlainName DEF Inv, Known, IsName
  <2>3. CASE Stored[1] <= t
    BY <2>0, <2>1, <2>2, <2>3 DEF Forward, Follows, Later, Found
  <2>4. CASE ~(Stored[1] <= t)
    BY <2>0, <2>1, <2>2, <2>4 DEF Back, Follows, Found
  <2> QED
    BY <2>1, <2>2, <2>3, <2>4 DEF Found
<1> QED
  BY <1>2, <1>3

LEMMA RefreshKept ==
    ASSUME Inv, ProfileGrows, NEW t, Found(t), RefreshThreads(Plain(t))
    PROVE  Kept
<1>1. PICK name, event : /\ name = ChooseStoredName(Plain(t), Stored)
                         /\ event.name = name
                         /\ Upsert(name) /\ AnnounceIfChanged(event)
  BY DEF RefreshThreads, Stored, Resync
<1>2. Known(name)' /\ Follows(name)
  BY <1>1, ChosenFollows
<1> QED
  BY <1>1, <1>2, NamedStep

(* Discovery takes the name the list gives, or that of a DM's other person. *)
LEMMA DiscoverRefreshes ==
    ASSUME Inv, Discover
    PROVE  ProfileGrows /\ \E t : Found(t) /\ RefreshThreads(Plain(t))
<1>1. UNCHANGED <<shape, changes, title>>
  BY DEF Discover, teamsVars
<1>2. People
  BY DEF Inv
<1>3. CASE (shape.kind # "dm" \/ shape.named) /\ RefreshThreads(ListedName) /\ NobodyAsked
  <2>1. ProfileGrows
    BY <1>1, <1>3, ProfileSaved DEF NobodyAsked, personVars
  <2>2. PICK t \in {title, 0} : ListedName = Plain(t)
    BY DEF ListedName, NoName, Plain
  <2>3. t \in Nat /\ (t = 0 \/ Stored[1] <= t)
    BY <1>2 DEF People, Inv, Known
  <2>4. Known(Plain(t))
    BY <1>2, <1>3, <2>3, PlainName DEF Known, People
  <2>5. Known(Plain(t))'
    BY <2>1, <2>4, PeopleKept
  <2>6. t \in {0, Given}
    BY <1>3 DEF Given, NamedByProfile
  <2> QED
    BY <1>3, <2>1, <2>2, <2>3, <2>5, <2>6 DEF Found
<1>4. CASE /\ shape.kind = "dm" /\ ~shape.named
           /\ \E name \in Titles : ResolveUserDisplayName(name) /\ RefreshThreads(Plain(name))
  <2>1. PICK name \in Titles : LookupUserDisplayName(name) /\ RefreshThreads(Plain(name))
    BY <1>4 DEF ResolveUserDisplayName
  <2>2. /\ ProfileGrows /\ name \in Nat /\ name \in {0, Given}
        /\ name \in {0, title} \/ name = profile'
    BY <1>1, <1>2, <1>4, <2>1, LookedUp DEF NamedByProfile
  <2>3. name = 0 \/ Stored[1] <= name \/ (NamedByProfile /\ name = profile')
    BY <1>2, <1>4, <2>2 DEF Inv, Known, IsName, People, NamedByProfile
  <2>4. Known(Plain(name))
    BY <1>2, <1>4, <2>2, PlainName DEF Known, People, Given
  <2>5. Known(Plain(name))'
    BY <2>2, <2>4, PeopleKept
  <2> QED
    BY <2>1, <2>2, <2>3, <2>5 DEF Found
<1> QED
  BY <1>3, <1>4 DEF Discover

LEMMA DiscoverKept ==
    ASSUME Inv, Discover
    PROVE  Kept
BY DiscoverRefreshes, RefreshKept

LEMMA RenamedKept ==
    ASSUME Inv, ProfileGrows, NEW name, Known(name)', Adorns(name), UNCHANGED sig,
           NEW who, NEW parent, Rename(name, who, parent)
    PROVE  Kept
<1> DEFINE event == Resync(FALSE, name, who, parent)
<1>1. Upsert(name) /\ Announce(event) /\ event.name = name
  BY DEF Rename, Resync
<1>2. Follows(name)
  BY DEF Adorns, Follows
<1> QED
  BY <1>1, <1>2, NamedStep

(* A pass renames to another name, which is structured or the first of a     *)
(* chat without one.                                                         *)
Formed(name) ==
    /\ name # Stored
    /\ name[2] = 2 \/ (Stored = NoName /\ name = <<0, 1>>)
    /\ name[1] \in {Stored[1], Given} \/ Stored = NoName
RenamesTo(name) ==
    /\ Known(name)' /\ Adorns(name) /\ Formed(name)
    /\ \E who \in {NoMembers, members}, parent \in BOOLEAN : Rename(name, who, parent)
NamingPass ==
    /\ ProfileGrows
    /\ UNCHANGED sig
    /\ NoRename \/ (row # <<>> /\ \E name : RenamesTo(name))

LEMMA NamingKept ==
    ASSUME Inv, NamingPass
    PROVE  Kept
<1>1. CASE NoRename
  BY <1>1, PeopleKept, QuietStep DEF NoRename, AnnounceNothing, NamingPass
<1>2. CASE \E name : RenamesTo(name)
  BY <1>2, RenamedKept DEF RenamesTo, NamingPass
<1> QED
  BY <1>1, <1>2 DEF NamingPass

LEMMA UnnamedRenames ==
    ASSUME Inv, ResolveUnnamedGroupChats
    PROVE  NamingPass
<1>1. UNCHANGED <<shape, changes, title, profile, sig>>
  BY DEF ResolveUnnamedGroupChats, teamsVars, personVars
<1>2. ProfileGrows
  BY <1>1, ProfileSaved
<1>3. CASE NoRename
  BY <1>1, <1>2, <1>3 DEF NamingPass
<1>4. ASSUME NEW who \in {NoMembers, members}, row = <<NoName>>, Rename(<<0, 1>>, who, FALSE)
      PROVE  NamingPass
  <2>1. Stored = NoName
    BY <1>4 DEF Stored
  <2>2. Known(<<0, 1>>)'
    BY <1>1, <1>2 DEF Inv, People, Known, IsName, ProfileGrows
  <2>3. Adorns(<<0, 1>>) /\ Formed(<<0, 1>>)
    BY <2>1 DEF Adorns, Forward, Formed, Later, NoName
  <2> QED
    BY <1>1, <1>2, <1>4, <2>2, <2>3 DEF NamingPass, RenamesTo
<1> QED
  BY <1>3, <1>4 DEF ResolveUnnamedGroupChats, BuildGroupChatName, GroupChatNameAndMembers

(* The name by structuredRoomName of a chat whose name has no prefix yet *)
LEMMA StructuredFollows ==
    ASSUME Inv, NEW mapped \in BOOLEAN, ~HasTypePrefix(Stored),
           StructuredRoomName(Stored, mapped) # Stored
    PROVE  /\ Known(StructuredRoomName(Stored, mapped))
           /\ Adorns(StructuredRoomName(Stored, mapped))
           /\ Formed(StructuredRoomName(Stored, mapped))
<1> DEFINE name == StructuredRoomName(Stored, mapped)
<1>1. /\ Stored[1] \in Nat /\ Stored[2] \in 0 .. 2 /\ Stored = <<Stored[1], Stored[2]>>
      /\ Stored[2] = 0 => Stored = NoName /\ Stored[1] = 0
      /\ Stored[1] <= changes + 1 /\ (title = 0 \/ Stored[1] <= title)
      /\ shape.kind = "stream" => Stored[1] = 0
  BY NoNameKnown DEF Inv, Known, IsName
<1>2. title \in Nat /\ title <= changes + 1 /\ changes \in Nat /\ profile \in Nat
  BY DEF Inv, People
<1>3. \/ name = <<Stored[1], 2>>
      \/ name = <<0, 1>> /\ Stored[2] = 0
      \/ name = <<0, 2>> /\ Stored[1] = 0
      \/ name = <<title, 2>> /\ shape.kind = "channel"
  <2>1. shape.kind \in {"dm", "group", "meeting", "channel", "stream"}
    BY DEF Inv, People, Shapes, Kinds
  <2>2. CASE shape.kind \in {"dm", "group", "meeting"}
    BY <2>2 DEF StructuredRoomName, IsGenericChatName
  <2>3. CASE shape.kind = "channel"
    BY <2>3 DEF StructuredRoomName, IsGenericChatName, ChannelInfo
  <2>4. CASE shape.kind = "stream"
    BY <2>4, <1>1 DEF StructuredRoomName, Inv, Known
  <2> QED
    BY <2>1, <2>2, <2>3, <2>4
<1>4. CASE name = <<Stored[1], 2>>
  BY <1>1, <1>2, <1>4 DEF Known, IsName, Adorns, Forward, Later, Formed
<1>5. CASE name = <<0, 1>> /\ Stored[2] = 0
  BY <1>1, <1>2, <1>5 DEF Known, IsName, Adorns, Forward, Later, Formed
<1>6. CASE name = <<0, 2>> /\ Stored[1] = 0
  BY <1>1, <1>2, <1>6 DEF Known, IsName, Adorns, Forward, Later, Formed
<1>7. CASE name = <<title, 2>> /\ shape.kind = "channel"
  BY <1>1, <1>2, <1>7
     DEF Known, IsName, Adorns, Forward, Later, Formed, Inv, People, Given, NamedByProfile
<1> QED
  BY <1>3, <1>4, <1>5, <1>6, <1>7

LEMMA SyncTeamsRenames ==
    ASSUME Inv, SyncTeams
    PROVE  NamingPass
<1>1. UNCHANGED <<shape, changes, title, sig>>
  BY DEF SyncTeams, teamsVars
<1>2. PICK mapped \in BOOLEAN : ApplyStructuredRoomNames(mapped)
  BY DEF SyncTeams
<1>3. CASE /\ shape.kind = "dm" /\ row = <<NoName>>
           /\ \E t \in Titles :
                 /\ ResolveUserDisplayName(t)
                 /\ LET name == StructuredRoomName(Plain(t), mapped)
                    IN IF name = row[1] THEN NoRename ELSE Rename(name, NoMembers, FALSE)
  <2>1. PICK t \in Titles :
               /\ LookupUserDisplayName(t)
               /\ LET name == StructuredRoomName(Plain(t), mapped)
                  IN IF name = row[1] THEN NoRename ELSE Rename(name, NoMembers, FALSE)
    BY <1>3 DEF ResolveUserDisplayName
  <2>2. ProfileGrows /\ t \in Nat /\ (t \in {0, title} \/ t = profile')
    BY <1>1, <2>1, LookedUp DEF Inv
  <2>3. Stored = NoName /\ row[1] = Stored
    BY <1>3 DEF Stored
  <2>4. PICK name : name = (IF t = 0 THEN <<0, 1>> ELSE <<t, 2>>)
    OBVIOUS
  <2>5. StructuredRoomName(Plain(t), mapped) = name
    BY <1>3, <2>2, <2>4, PlainName DEF StructuredRoomName
  <2>6. Known(name)'
    <3>1. People'
      BY <2>2, PeopleKept
    <3> QED
      BY <1>3, <2>2, <2>3, <2>4, <3>1 DEF People, Known, IsName, ProfileGrows, NoName
  <2>6a. Adorns(name) /\ Formed(name)
    BY <2>2, <2>3, <2>4 DEF Adorns, Forward, Formed, Later, NoName
  <2>7. CASE NoRename
    BY <1>1, <2>2, <2>7 DEF NamingPass
  <2>8. CASE Rename(name, NoMembers, FALSE)
    BY <1>1, <1>3, <2>2, <2>6, <2>6a, <2>8 DEF NamingPass, RenamesTo
  <2> QED
    BY <2>1, <2>5, <2>7, <2>8
<1>4. CASE /\ NobodyAsked
           /\ row # <<>> => /\ ~HasTypePrefix(Stored) \/ NoRename
                            /\ \/ NoRename
                               \/ /\ StructuredRoomName(Stored, mapped) # Stored
                                  /\ ~HasTypePrefix(Stored)
                                  /\ Rename(StructuredRoomName(Stored, mapped), NoMembers,
                                            shape.kind = "channel" /\ mapped)
           /\ row = <<>> => NoRename
  <2>1. ProfileGrows
    BY <1>1, <1>4, ProfileSaved DEF NobodyAsked, personVars
  <2>2. CASE NoRename
    BY <1>1, <2>1, <2>2 DEF NamingPass
  <2>3. CASE ~NoRename
    <3>1. PICK name :
                 /\ name = StructuredRoomName(Stored, mapped) /\ name # Stored
                 /\ ~HasTypePrefix(Stored)
                 /\ \E parent \in BOOLEAN : Rename(name, NoMembers, parent)
      BY <1>4, <2>3
    <3>2. Known(name) /\ Adorns(name) /\ Formed(name)
      BY <3>1, StructuredFollows
    <3>3. Known(name)'
      BY <2>1, <3>2, PeopleKept
    <3> QED
      BY <1>1, <1>4, <2>1, <2>3, <3>1, <3>2, <3>3 DEF NamingPass, RenamesTo
  <2> QED
    BY <2>2, <2>3
<1>5. row # <<>> => row[1] = Stored
  BY DEF Stored
<1> QED
  BY <1>2, <1>3, <1>4, <1>5 DEF ApplyStructuredRoomNames

LEMMA GhostsKept ==
    ASSUME Inv, SyncGhostNamesFromProfiles
    PROVE  Kept
<1>1. UNCHANGED <<shape, changes, title, row, sig, last, unsaved>>
  BY DEF SyncGhostNamesFromProfiles, teamsVars
<1>2. CASE UNCHANGED profile
  BY <1>1, <1>2, ProfileSaved, PeopleKept, QuietStep
<1>3. ASSUME NEW name \in Titles, ResolveUserDisplayName(name)
      PROVE  Kept
  BY <1>1, <1>3, LookedUp, PeopleKept, QuietStep DEF ResolveUserDisplayName, Inv
<1> QED
  BY <1>2, <1>3 DEF SyncGhostNamesFromProfiles, NobodyAsked, personVars

-----------------------------------------------------------------------------
(* The other steps *)

(* A message brings one of the names the person had. *)
LEMMA MessageKept ==
    ASSUME Inv, QueueUserMessage
    PROVE  Kept
<1>1. UNCHANGED <<shape, changes, title, row, sig, unsaved>>
  BY DEF QueueUserMessage, teamsVars
<1>2. last' = last
  BY NoNameKnown DEF QueueUserMessage, Announce, IsGenericChatName
<1>3. profile' = profile \/ profile' \in FormerNames
  BY DEF QueueUserMessage, SaveProfile
<1>4. People'
  BY <1>1, <1>3 DEF Inv, People, FormerNames
<1> QED
  BY <1>1, <1>2, <1>4, QuietStep

LEMMA ParentsKept ==
    ASSUME Inv, SyncChannelParents
    PROVE  Kept
<1>1. UNCHANGED <<shape, changes, title, row, sig, unsaved, profile>>
  BY DEF SyncChannelParents, teamsVars, personVars
<1>2. Announce(Resync(FALSE, NoName, NoMembers, TRUE)) \/ AnnounceNothing
  BY DEF SyncChannelParents
<1>3. last' = last
  BY <1>2, NoNameKnown DEF Announce, AnnounceNothing, Resync, IsGenericChatName
<1>4. People'
  BY <1>1, ProfileSaved, PeopleKept
<1> QED
  BY <1>1, <1>3, <1>4, QuietStep

LEMMA AskKept ==
    ASSUME Inv, AskName
    PROVE  Kept
<1>1. UNCHANGED <<shape, changes, title, row, sig, last, unsaved>>
  BY DEF AskName, teamsVars, historyVars
<1>2. PICK name : LookupUserDisplayName(name)
  BY DEF AskName
<1> QED
  BY <1>1, <1>2, LookedUp, PeopleKept, QuietStep DEF Inv

LEMMA StillKept ==
    ASSUME Inv,
           \/ SyncOnceFails \/ RepairTeamSpaces \/ HandleEvent \/ HandlingFails
           \/ GetUserInfo \/ MissExpires \/ UNCHANGED vars
    PROVE  Kept
<1>1. UNCHANGED <<shape, changes, title, row, sig, last, unsaved, profile>>
  BY DEF SyncOnceFails, RepairTeamSpaces, HandleEvent, HandlingFails, GetUserInfo, MissExpires, vars,
         teamsVars, personVars, historyVars
<1> QED
  BY <1>1, ProfileSaved, PeopleKept, QuietStep

(* A title that is given is newer than every one before. *)
LEMMA TeamsKept ==
    ASSUME Inv, RenamedInTeams \/ MembersChange
    PROVE  Kept
<1>1. /\ UNCHANGED <<shape, row, sig, last, unsaved, profile>> /\ changes' = changes + 1
      /\ \/ title' = title
         \/ title' = changes + 2 /\ shape.kind # "stream"
         \/ title' = 0 /\ shape.kind # "channel"
  BY DEF RenamedInTeams, MembersChange, personVars, historyVars, Inv, People
<1>2. Stored' = Stored
  BY <1>1 DEF Stored
<1>3. People'
  BY <1>1 DEF Inv, People
<1>4. Known(Stored)'
  BY <1>1, <1>2 DEF Inv, People, Known, IsName
<1>5. Told' /\ (unsaved \/ Later(last', last))
  BY <1>1, <1>2, LaterOrder DEF Inv, Told, Begun, Known, IsName, NamedByProfile
<1> QED
  BY <1>3, <1>4, <1>5 DEF Inv, Kept

LEMMA RestartKept ==
    ASSUME Inv, Restart
    PROVE  Kept
<1>1. UNCHANGED <<shape, changes, title, row, last, unsaved, profile>> /\ sig' = <<>>
  BY DEF Restart, teamsVars, historyVars
<1>2. Stored' = Stored
  BY <1>1 DEF Stored
<1>3. People' /\ Known(Stored)'
  BY <1>1, <1>2 DEF Inv, People, Known, IsName
<1>4. Told' /\ (unsaved \/ Later(last', last))
  BY <1>1, <1>2, LaterOrder DEF Inv, Told, Known, IsName
<1> QED
  BY <1>3, <1>4 DEF Inv, Kept

LEMMA Step ==
    ASSUME Inv, [Next]_vars
    PROVE  Kept
BY DiscoverKept, UnnamedRenames, SyncTeamsRenames, NamingKept, GhostsKept, MessageKept, ParentsKept,
   AskKept, StillKept, TeamsKept, RestartKept DEF Next

LEMMA Start ==
    ASSUME Init
    PROVE  Inv
<1>1. /\ shape \in Shapes /\ changes = 0 /\ profile = 0 /\ row = <<>> /\ sig = <<>> /\ last = NoName
      /\ shape.kind \in {"dm", "group", "meeting", "channel", "stream"}
  BY DEF Init, Shapes, Kinds
<1>2. CASE shape.kind = "channel"
  <2>1. title = 1
    BY <1>2 DEF Init
  <2> QED
    BY <1>1, <1>2, <2>1, NoNameKnown DEF Inv, People, Known, Told, Stored
<1>3. CASE shape.kind = "stream"
  <2>1. title = 0
    BY <1>3 DEF Init
  <2> QED
    BY <1>1, <1>3, <2>1, NoNameKnown DEF Inv, People, Known, Told, Stored
<1>4. CASE shape.kind \in {"dm", "group", "meeting"}
  <2>1. title \in {0, 1}
    BY <1>4 DEF Init
  <2> QED
    BY <1>1, <1>4, <2>1, NoNameKnown DEF Inv, People, Known, Told, Stored
<1> QED
  BY <1>1, <1>2, <1>3, <1>4

(* A room that has a name is never renamed back, to the title alone, a      *)
(* placeholder or a name from before, by discovery, a naming pass or after  *)
(* a restart, if rows are saved (refreshThreads, chooseStoredName,          *)
(* applyStructuredRoomNames); except that a DM that the list gives no name  *)
(* is called what its person's profile has, where a message that was sent   *)
(* under an earlier name may have put that (resolveSenderName).             *)
THEOREM NamesOnlyAdvance == Spec => NeverRenamedBack
<1>1. Init => Inv
  BY Start
<1>2. Inv /\ [Next]_vars => Inv'
  BY Step DEF Kept
<1>3. Inv /\ [Next]_vars => [unsaved \/ Later(last', last) \/ BackWithProfile]_vars
  BY Step DEF Kept
<1> QED
  BY <1>1, <1>2, <1>3, PTL DEF Spec, NeverRenamedBack

-----------------------------------------------------------------------------
(* Types, and how many events may wait *)

Sizes == changes \in 0 .. MaxChanges /\ messages \in 0 .. MaxMessages /\ members \in 1 .. changes + 1

ToldTypes ==
    /\ row \in {<<>>} \cup {<<name>> : name \in Names}
    /\ sig \in {<<>>} \cup {<<event>> : event \in Events}
    /\ queue \in Seq(Events)
    /\ last \in Names /\ unsaved \in BOOLEAN

PersonTypes ==
    /\ unknown \in BOOLEAN
    /\ ghost \in {<<>>} \cup {<<t>> : t \in Titles}
    /\ asking \in {<<>>} \cup {<<t>> : t \in Titles}
    /\ missed \in BOOLEAN

Rooms == [name : Names, members : 0 .. MaxChanges + 1, parent : BOOLEAN, inSpace : BOOLEAN]
PlaceTypes ==
    /\ pc \in {"connect", "seed", "unnamed", "repair", "teams", "parents", "poll"}
    /\ room \in {<<>>} \cup {<<r>> : r \in Rooms}
    /\ spoken \in BOOLEAN /\ space \in {"none", "plain", "space"}

(* Whether a title may follow a name without a change in Teams or a message. *)
Ahead(name) == IF Given \in {0, name[1]} THEN 0 ELSE 1

(* What passes may still announce once a name is stored: the title that may  *)
(* follow three times, and each form that follows twice.                     *)
Weight(name) == 3 * Ahead(name) + 2 * (2 - name[2])

(* What discovery announced last is what it would announce now. *)
Now == Resync(TRUE, Stored, BuildChatMemberList, FALSE)
Unsynced == IF sig = <<Now>> THEN 0 ELSE 1
Spare == IF unsaved THEN 0 ELSE 2
Rest == 4 * (MaxMessages - messages) + 3 * (MaxChanges - changes) + Weight(Stored) + Unsynced + Spare
ParentWaits == IF \E i \in 1 .. Len(queue) : queue[i].parent THEN 1 ELSE 0

(* What waits and what may still be announced is bounded. *)
CountInv == Len(queue) + Rest <= MaxQueue - 1 + ParentWaits

TypeInv == Inv /\ Sizes /\ ToldTypes /\ PersonTypes /\ PlaceTypes /\ CountInv

LEMMA Quantities ==
    ASSUME Inv, Sizes, ToldTypes
    PROVE  /\ Weight(Stored) \in Nat /\ Unsynced \in 0 .. 1 /\ Spare \in 0 .. 2 /\ ParentWaits \in 0 .. 1
           /\ Len(queue) \in Nat /\ Rest \in Nat
           /\ Rest <= MaxQueue - 1
           /\ MaxMessages \in Nat /\ MaxChanges \in Nat /\ messages \in Nat /\ changes \in Nat
           /\ MaxQueue \in Nat /\ MaxQueue = 3 * MaxChanges + 4 * MaxMessages + 11
<1>1. MaxMessages \in Nat /\ MaxChanges \in Nat /\ messages \in 0 .. MaxMessages /\ changes \in 0 .. MaxChanges
  BY ChatRoomsAssumption DEF Sizes
<1>2. Stored[1] \in 0 .. changes + 1 /\ Stored[2] \in 0 .. 2
  BY DEF Inv, Known, IsName
<1>3. Ahead(Stored) \in 0 .. 1
  BY DEF Ahead
<1>4. Weight(Stored) \in 0 .. 7
  BY <1>1, <1>2, <1>3 DEF Weight
<1>5. Unsynced \in 0 .. 1 /\ Spare \in 0 .. 2 /\ ParentWaits \in 0 .. 1 /\ Len(queue) \in Nat
  BY DEF Unsynced, Spare, ParentWaits, ToldTypes
<1>6. MaxQueue = 3 * MaxChanges + 4 * MaxMessages + 11
  BY <1>1 DEF MaxQueue
<1>7. MaxMessages - messages \in 0 .. MaxMessages /\ MaxChanges - changes \in 0 .. MaxChanges
  BY <1>1
<1>8. Rest \in Nat /\ Rest <= 4 * MaxMessages + 3 * MaxChanges + 10
  <2>1. PICK m, c, w, u, s :
              /\ m = MaxMessages - messages /\ c = MaxChanges - changes
              /\ w = Weight(Stored) /\ u = Unsynced /\ s = Spare
    OBVIOUS
  <2>2. /\ m \in Nat /\ m <= MaxMessages /\ c \in Nat /\ c <= MaxChanges
        /\ w \in Nat /\ w <= 7 /\ u \in Nat /\ u <= 1 /\ s \in Nat /\ s <= 2
    BY <1>1, <1>4, <1>5, <1>7, <2>1
  <2>3. Rest = 4 * m + 3 * c + w + u + s
    BY <2>1 DEF Rest
  <2> QED
    BY <1>1, <2>2, <2>3
<1> QED
  BY <1>1, <1>4, <1>5, <1>6, <1>8

LEMMA TypesHold ==
    ASSUME TypeInv
    PROVE  TypeOK
<1>1. Len(queue) <= MaxQueue /\ \A i \in 1 .. Len(queue) : queue[i] \in Events
  BY Quantities DEF TypeInv, CountInv, ToldTypes
<1>2. title \in Titles /\ profile \in Titles /\ members \in 1 .. MaxChanges + 1 /\ shape \in Shapes
  BY ChatRoomsAssumption DEF TypeInv, Inv, People, Sizes, Titles
<1>3. room = <<>> \/ room[1] \in Rooms
  BY DEF TypeInv, PlaceTypes
<1> QED
  BY <1>1, <1>2, <1>3 DEF TypeInv, ToldTypes, PersonTypes, PlaceTypes, Rooms, TypeOK

LEMMA KnownName ==
    ASSUME NEW name, Inv, Sizes, Known(name)
    PROVE  name \in Names
<1>1. name \in Nat \X (0 .. 2) /\ name[1] <= MaxChanges + 1
  BY ChatRoomsAssumption DEF Known, IsName, Sizes
<1> QED
  BY <1>1 DEF Names, Titles

(* The next name is worth less than the stored one. *)
LEMMA NextWeighsLess ==
    ASSUME Inv, NEW name, IsName(name), name # Stored, Follows(name),
           name[1] \in {Stored[1], Given} \/ Stored = NoName
    PROVE  /\ Weight(name) \in Nat
           /\ Weight(name) + 1 <= Weight(Stored)
           /\ name[2] = 2 \/ (Stored = NoName /\ name = <<0, 1>>) => Weight(name) + 2 <= Weight(Stored)
<1>1. /\ Stored[1] \in Nat /\ Stored[2] \in 0 .. 2 /\ Stored = <<Stored[1], Stored[2]>>
      /\ name[1] \in Nat /\ name[2] \in 1 .. 2 /\ name = <<name[1], name[2]>>
  BY DEF Inv, Known, IsName, Follows, Forward, Back
<1>2. Ahead(name) \in 0 .. 1 /\ Ahead(Stored) \in 0 .. 1
  BY DEF Ahead
<1>3. CASE name[1] = Stored[1]
  <2>1. name[2] > Stored[2]
    BY <1>1, <1>3 DEF Follows, Forward, Back, Later
  <2>2. Ahead(name) = Ahead(Stored)
    BY <1>3 DEF Ahead
  <2> QED
    BY <1>1, <1>2, <2>1, <2>2 DEF Weight
<1>4. CASE name[1] # Stored[1] /\ name[1] = Given
  <2>1. Given # 0
    BY <1>1, <1>4 DEF Follows, Forward, Back, Later
  <2>2. Ahead(name) = 0 /\ Ahead(Stored) = 1
    BY <1>4, <2>1 DEF Ahead
  <2>3. NoName[1] = 0 /\ NoName[2] = 0
    BY NoNameKnown
  <2> QED
    BY <1>1, <1>4, <2>2, <2>3 DEF Weight
<1>5. CASE name[1] # Stored[1] /\ Stored = NoName
  <2>1. Stored[1] = 0 /\ Stored[2] = 0
    BY <1>5, NoNameKnown
  <2>2. Ahead(name) <= Ahead(Stored)
    BY <2>1 DEF Ahead
  <2>3. Weight(Stored) = 3 * Ahead(Stored) + 4
    BY <1>2, <2>1 DEF Weight
  <2>4. Weight(name) \in Nat /\ Weight(name) <= 3 * Ahead(name) + 2
    BY <1>1, <1>2 DEF Weight
  <2> QED
    BY <1>2, <2>2, <2>3, <2>4
<1> QED
  BY <1>3, <1>4, <1>5

-----------------------------------------------------------------------------
(* The steps that announce *)

(* If an event is announced, there is one less that may be.                 *)
LEMMA RestTyped ==
    ASSUME Inv', Sizes'
    PROVE  Rest' \in Int /\ Rest' <= MaxQueue - 1
<1>1. /\ Stored'[1] \in 0 .. changes' + 1 /\ Stored'[2] \in 0 .. 2
      /\ changes' \in 0 .. MaxChanges /\ messages' \in 0 .. MaxMessages
      /\ MaxMessages \in Nat /\ MaxChanges \in Nat
  BY ChatRoomsAssumption DEF Inv, Known, IsName, Sizes
<1>2. Ahead(Stored)' \in 0 .. 1
  BY DEF Ahead
<1>3. Weight(Stored)' \in 0 .. 7
  BY <1>1, <1>2 DEF Weight
<1>4. Unsynced' \in 0 .. 1 /\ Spare' \in 0 .. 2
  BY DEF Unsynced, Spare
<1> QED
  BY <1>1, <1>3, <1>4 DEF Rest, MaxQueue

LEMMA CountedTold ==
    ASSUME Inv, Sizes, ToldTypes, CountInv, Inv', Sizes',
           NEW event \in Events, queue' = Append(queue, event), Rest' <= Rest - 1
    PROVE  CountInv'
<1>1. Rest \in Nat /\ Len(queue) \in Nat /\ ParentWaits \in 0 .. 1 /\ MaxQueue \in Nat
  BY Quantities
<1>2. Rest' \in Int
  BY RestTyped
<1>3. Len(queue') = Len(queue) + 1 /\ \A i \in 1 .. Len(queue) : queue'[i] = queue[i]
  BY DEF ToldTypes
<1>4. ParentWaits' \in 0 .. 1 /\ ParentWaits' >= ParentWaits
  BY <1>1, <1>3 DEF ParentWaits
<1>5. Len(queue) + Rest <= MaxQueue - 1 + ParentWaits
  BY DEF CountInv
<1>6. Len(queue') + Rest' <= MaxQueue - 1 + ParentWaits'
  BY <1>1, <1>2, <1>3, <1>4, <1>5
<1> QED
  BY <1>6 DEF CountInv, MaxQueue

LEMMA CountedSilent ==
    ASSUME Inv, Sizes, ToldTypes, CountInv, Inv', Sizes', UNCHANGED queue, Rest' <= Rest
    PROVE  CountInv'
<1>1. Rest \in Nat /\ Len(queue) \in Nat /\ ParentWaits \in 0 .. 1 /\ MaxQueue \in Nat
  BY Quantities
<1>2. Rest' \in Int /\ ParentWaits' = ParentWaits
  BY RestTyped DEF ParentWaits
<1>3. Len(queue) + Rest <= MaxQueue - 1 + ParentWaits
  BY DEF CountInv
<1>4. Len(queue') + Rest' <= MaxQueue - 1 + ParentWaits'
  BY <1>1, <1>2, <1>3
<1> QED
  BY <1>4 DEF CountInv, MaxQueue

LEMMA TellTypes ==
    ASSUME Sizes, ToldTypes, NEW name \in Names, Upsert(name),
           NEW event \in Events, event.name = name,
           AnnounceIfChanged(event) \/ (Announce(event) /\ UNCHANGED sig)
    PROVE  ToldTypes'
<1>1. row' \in {<<>>} \cup {<<x>> : x \in Names} /\ unsaved' \in BOOLEAN
  BY DEF ToldTypes, Upsert
<1>2. sig' \in {<<>>} \cup {<<x>> : x \in Events}
  BY DEF ToldTypes, AnnounceIfChanged
<1>3. queue' \in Seq(Events) /\ last' \in Names
  <2>1. CASE Announce(event)
    BY <2>1 DEF ToldTypes, Announce
  <2>2. CASE AnnounceNothing
    BY <2>2 DEF ToldTypes, AnnounceNothing
  <2> QED
    BY <2>1, <2>2 DEF AnnounceIfChanged
<1> QED
  BY <1>1, <1>2, <1>3 DEF ToldTypes

LEMMA ResyncTyped ==
    ASSUME Sizes, NEW create \in BOOLEAN, NEW name \in Names, NEW parent \in BOOLEAN,
           NEW who \in {NoMembers, members}
    PROVE  Resync(create, name, who, parent) \in Events
BY ChatRoomsAssumption DEF Sizes, Resync, Events, NoMembers

LEMMA ListTyped == BuildChatMemberList \in {NoMembers, members}
BY DEF BuildChatMemberList, DmMemberListFromThreadID

LEMMA RefreshCounted ==
    ASSUME Inv, Sizes, ToldTypes, CountInv, ProfileGrows, UNCHANGED <<messages, members>>, Inv',
           NEW t, Found(t), RefreshThreads(Plain(t))
    PROVE  ToldTypes' /\ CountInv'
<1>1. PICK name : name = ChooseStoredName(Plain(t), Stored)
  OBVIOUS
<1> DEFINE event == Resync(TRUE, name, BuildChatMemberList, FALSE)
<1>2. event.name = name /\ Upsert(name) /\ AnnounceIfChanged(event)
  BY <1>1 DEF RefreshThreads, Stored, Resync
<1>3. Known(name)' /\ Follows(name) /\ (name = Stored \/ name[1] = Given)
  BY <1>1, ChosenFollows
<1>4. Sizes' /\ UNCHANGED <<shape, changes, title, Given>>
  BY PeopleKept DEF Sizes
<1>5. name \in Names
  <2>1. IsName(name) /\ name[1] <= MaxChanges + 1
    BY <1>3, <1>4, ChatRoomsAssumption DEF Known, IsName, Sizes
  <2> QED
    BY <2>1 DEF IsName, Names, Titles
<1>6. event \in Events
  BY <1>5, ResyncTyped, ListTyped
<1>7. ToldTypes'
  BY <1>2, <1>5, <1>6, TellTypes
<1>8. /\ Weight(name) \in Nat
      /\ name = Stored \/ Weight(name) + 1 <= Weight(Stored)
  <2>1. CASE name = Stored
    BY <2>1, Quantities
  <2>2. CASE name # Stored
    <3>1. IsName(name)
      BY <1>3 DEF Known, IsName
    <3> QED
      BY <1>3, <2>2, <3>1, NextWeighsLess
  <2> QED
    BY <2>1, <2>2
<1>9. sig = <<event>> \/ queue' = Append(queue, event)
  BY <1>2 DEF AnnounceIfChanged, Announce
<1>9a. sig = <<event>> => UNCHANGED queue
  BY <1>2 DEF AnnounceIfChanged, AnnounceNothing
<1>10. sig' = <<event>>
  BY <1>2 DEF AnnounceIfChanged
<1>11. /\ Weight(Stored) \in Nat /\ Unsynced \in 0 .. 1 /\ Spare \in 0 .. 2
       /\ messages \in Nat /\ changes \in Nat /\ MaxMessages \in Nat /\ MaxChanges \in Nat
  BY Quantities
<1>12. UNCHANGED <<BuildChatMemberList, messages, changes>>
  BY <1>4 DEF BuildChatMemberList, DmMemberListFromThreadID
<1>13. Rest' <= Rest /\ (sig # <<event>> => Rest' <= Rest - 1)
  <2>1. CASE row' = <<name>> /\ UNCHANGED unsaved
    <3>1. Stored' = name
      BY <2>1 DEF Stored
    <3>2. Now' = event
      BY <3>1, <1>12 DEF Now, Resync
    <3>3. Unsynced' = 0 /\ Spare' = Spare /\ Weight(Stored)' = Weight(name)
      BY <1>4, <1>10, <2>1, <3>1, <3>2 DEF Unsynced, Spare, Weight, Ahead
    <3>4. CASE name = Stored
      <4>1. event = Now
        BY <3>4 DEF Now
      <4>2. sig # <<event>> => Unsynced = 1
        BY <4>1 DEF Unsynced
      <4>3. Rest' <= Rest /\ (Unsynced = 1 => Rest' <= Rest - 1)
        BY <1>8, <1>11, <1>12, <3>3, <3>4 DEF Rest
      <4> QED
        BY <4>2, <4>3
    <3>5. CASE name # Stored
      <4>1. Rest' <= Rest /\ Rest' <= Rest - 1
        BY <1>8, <1>11, <1>12, <3>3, <3>5 DEF Rest
      <4> QED
        BY <4>1
    <3> QED
      BY <3>4, <3>5
  <2>2. CASE ~unsaved /\ unsaved' = TRUE /\ UNCHANGED row
    <3>1. Spare = 2 /\ Spare' = 0 /\ Weight(Stored)' = Weight(Stored) /\ Unsynced' \in 0 .. 1
      BY <1>4, <2>2 DEF Spare, Stored, Weight, Ahead, Unsynced
    <3>2. Rest' <= Rest /\ Rest' <= Rest - 1
      BY <1>11, <1>12, <3>1 DEF Rest
    <3> QED
      BY <3>2
  <2> QED
    BY <1>2, <2>1, <2>2 DEF Upsert
<1>14. CASE sig = <<event>>
  BY <1>4, <1>7, <1>9a, <1>13, <1>14, CountedSilent
<1>15. CASE sig # <<event>>
  BY <1>4, <1>6, <1>7, <1>9, <1>13, <1>15, CountedTold
<1> QED
  BY <1>14, <1>15

LEMMA RenameCounted ==
    ASSUME Inv, Sizes, ToldTypes, CountInv, ProfileGrows, UNCHANGED <<messages, members, sig>>, Inv',
           NEW name, RenamesTo(name)
    PROVE  ToldTypes' /\ CountInv'
<1>1. PICK who \in {NoMembers, members}, parent \in BOOLEAN : Rename(name, who, parent)
  BY DEF RenamesTo
<1> DEFINE event == Resync(FALSE, name, who, parent)
<1>2. event.name = name /\ Upsert(name) /\ Announce(event)
  BY <1>1 DEF Rename, Resync
<1>3. Known(name)' /\ Follows(name) /\ Formed(name)
  BY DEF RenamesTo, Adorns, Follows
<1>4. Sizes' /\ UNCHANGED <<shape, changes, title, Given>>
  BY PeopleKept DEF Sizes
<1>5. name \in Names
  <2>1. IsName(name) /\ name[1] <= MaxChanges + 1
    BY <1>3, <1>4, ChatRoomsAssumption DEF Known, IsName, Sizes
  <2> QED
    BY <2>1 DEF IsName, Names, Titles
<1>6. event \in Events
  BY <1>5, ResyncTyped
<1>7. ToldTypes'
  BY <1>2, <1>5, <1>6, TellTypes
<1>8. Weight(name) \in Nat /\ Weight(name) + 2 <= Weight(Stored)
  <2>1. IsName(name)
    BY <1>3 DEF Known, IsName
  <2> QED
    BY <1>3, <2>1, NextWeighsLess DEF Formed
<1>9. queue' = Append(queue, event)
  BY <1>2 DEF Announce
<1>10. /\ Weight(Stored) \in Nat /\ Unsynced \in 0 .. 1 /\ Spare \in 0 .. 2
       /\ messages \in Nat /\ changes \in Nat /\ MaxMessages \in Nat /\ MaxChanges \in Nat
  BY Quantities
<1>11. UNCHANGED <<BuildChatMemberList, messages, changes>>
  BY <1>4 DEF BuildChatMemberList, DmMemberListFromThreadID
<1>12. Rest' <= Rest - 1
  <2>1. CASE row' = <<name>> /\ UNCHANGED unsaved
    <3>1. Stored' = name
      BY <2>1 DEF Stored
    <3>2. Unsynced' \in 0 .. 1 /\ Spare' = Spare /\ Weight(Stored)' = Weight(name)
      BY <1>4, <2>1, <3>1 DEF Unsynced, Spare, Weight, Ahead
    <3> QED
      BY <1>8, <1>10, <1>11, <3>2 DEF Rest
  <2>2. CASE ~unsaved /\ unsaved' = TRUE /\ UNCHANGED row
    <3>1. Stored' = Stored
      BY <2>2 DEF Stored
    <3>2. Now' = Now
      BY <1>11, <3>1 DEF Now, Resync
    <3>3. Spare = 2 /\ Spare' = 0 /\ Weight(Stored)' = Weight(Stored) /\ Unsynced' = Unsynced
      BY <1>4, <2>2, <3>1, <3>2 DEF Spare, Weight, Ahead, Unsynced
    <3> QED
      BY <1>10, <1>11, <3>3 DEF Rest
  <2> QED
    BY <1>2, <2>1, <2>2 DEF Upsert
<1> QED
  BY <1>4, <1>6, <1>7, <1>9, <1>12, CountedTold

(* A step that announces nothing, and changes nothing of what decides what  *)
(* will be.                                                                 *)
LEMMA StillCounted ==
    ASSUME Inv, Sizes, ToldTypes, CountInv, Inv', ProfileGrows,
           UNCHANGED <<shape, title, changes, members, messages, row, sig, queue, last, unsaved>>
    PROVE  Sizes' /\ ToldTypes' /\ CountInv'
<1>1. Sizes' /\ ToldTypes'
  BY DEF Sizes, ToldTypes
<1>2. Stored' = Stored /\ UNCHANGED BuildChatMemberList
  BY DEF Stored, BuildChatMemberList, DmMemberListFromThreadID
<1>3. Rest' = Rest /\ ParentWaits' = ParentWaits
  BY <1>2, PeopleKept DEF Rest, Weight, Ahead, Unsynced, Now, Resync, Spare, ParentWaits
<1> QED
  BY <1>1, <1>3 DEF CountInv, MaxQueue

-----------------------------------------------------------------------------
(* Every step *)

LEMMA ResolveTyped ==
    ASSUME PersonTypes, NEW name \in Titles, ResolveUserDisplayName(name)
    PROVE  PersonTypes'
<1>1. unknown' \in BOOLEAN
  BY DEF PersonTypes, ResolveUserDisplayName, LookupUserDisplayName
<1>2. PICK given \in Titles : SyncGhostName(given)
  BY ChatRoomsAssumption DEF ResolveUserDisplayName, Titles
<1>3. ghost' \in {<<>>} \cup {<<t>> : t \in Titles} /\ missed' \in BOOLEAN
  BY <1>2 DEF SyncGhostName, PersonTypes
<1> QED
  BY <1>1, <1>3 DEF PersonTypes, ResolveUserDisplayName

LEMMA NobodyTyped ==
    ASSUME PersonTypes, NobodyAsked
    PROVE  PersonTypes'
BY DEF PersonTypes, NobodyAsked, personVars

LEMMA DiscoverTyped ==
    ASSUME TypeInv, Discover
    PROVE  TypeInv'
<1>1. Inv'
  BY DiscoverKept DEF Kept, TypeInv
<1>2. ProfileGrows /\ \E t : Found(t) /\ RefreshThreads(Plain(t))
  BY DiscoverRefreshes DEF TypeInv
<1>3. UNCHANGED <<messages, members, changes>>
  BY DEF Discover, teamsVars, countVars
<1>4. Sizes' /\ ToldTypes' /\ CountInv'
  BY <1>1, <1>2, <1>3, RefreshCounted DEF TypeInv, Sizes
<1>5. PersonTypes'
  BY ResolveTyped, NobodyTyped DEF Discover, TypeInv
<1>6. PlaceTypes'
  BY DEF Discover, roomVars, PlaceTypes, TypeInv
<1> QED
  BY <1>1, <1>4, <1>5, <1>6 DEF TypeInv

LEMMA NamingTyped ==
    ASSUME TypeInv, NamingPass, UNCHANGED <<messages, members, changes>>
    PROVE  Inv' /\ Sizes' /\ ToldTypes' /\ CountInv'
<1>1. Inv'
  BY NamingKept DEF Kept, TypeInv
<1>2. CASE NoRename
  <2>1. UNCHANGED <<shape, title, changes, members, messages, row, sig, queue, last, unsaved>>
    BY <1>2 DEF NoRename, AnnounceNothing, NamingPass, ProfileGrows
  <2> QED
    BY <1>1, <2>1, StillCounted DEF TypeInv, NamingPass
<1>3. ASSUME NEW name, RenamesTo(name)
      PROVE  Inv' /\ Sizes' /\ ToldTypes' /\ CountInv'
  BY <1>1, <1>3, RenameCounted DEF TypeInv, NamingPass, Sizes
<1> QED
  BY <1>2, <1>3 DEF NamingPass

LEMMA UnnamedTyped ==
    ASSUME TypeInv, ResolveUnnamedGroupChats
    PROVE  TypeInv'
<1>1. Inv' /\ Sizes' /\ ToldTypes' /\ CountInv'
  BY UnnamedRenames, NamingTyped DEF TypeInv, ResolveUnnamedGroupChats, teamsVars, countVars
<1>2. PersonTypes' /\ PlaceTypes'
  BY DEF TypeInv, ResolveUnnamedGroupChats, PersonTypes, PlaceTypes, personVars, roomVars
<1> QED
  BY <1>1, <1>2 DEF TypeInv

LEMMA SyncTeamsTyped ==
    ASSUME TypeInv, SyncTeams
    PROVE  TypeInv'
<1>1. Inv' /\ Sizes' /\ ToldTypes' /\ CountInv'
  BY SyncTeamsRenames, NamingTyped DEF TypeInv, SyncTeams, teamsVars, countVars
<1>2. PersonTypes'
  BY ResolveTyped, NobodyTyped DEF TypeInv, SyncTeams, ApplyStructuredRoomNames
<1>3. PlaceTypes'
  BY DEF TypeInv, SyncTeams, SyncTeamSpaces, MakeSpace, PlaceTypes
<1> QED
  BY <1>1, <1>2, <1>3 DEF TypeInv

LEMMA GhostsTyped ==
    ASSUME TypeInv, SyncGhostNamesFromProfiles
    PROVE  TypeInv'
<1>1. Inv'
  BY GhostsKept DEF Kept, TypeInv
<1>1a. ProfileGrows
  <2>1. UNCHANGED <<shape, changes, title>>
    BY DEF SyncGhostNamesFromProfiles, teamsVars
  <2>2. CASE UNCHANGED profile
    BY <2>1, <2>2, ProfileSaved
  <2>3. ASSUME NEW name \in Titles, ResolveUserDisplayName(name)
        PROVE  ProfileGrows
    BY <2>1, <2>3, LookedUp DEF ResolveUserDisplayName, TypeInv, Inv
  <2> QED
    BY <2>2, <2>3 DEF SyncGhostNamesFromProfiles, NobodyAsked, personVars
<1>2. Sizes' /\ ToldTypes' /\ CountInv'
  BY <1>1, <1>1a, StillCounted DEF TypeInv, SyncGhostNamesFromProfiles, teamsVars, countVars
<1>3. profile \in Titles
  BY ChatRoomsAssumption DEF TypeInv, Inv, People, Sizes, Titles
<1>4. PersonTypes'
  BY <1>3, ResolveTyped, NobodyTyped DEF TypeInv, SyncGhostNamesFromProfiles, SyncGhostName, PersonTypes
<1>5. PlaceTypes'
  BY DEF TypeInv, SyncGhostNamesFromProfiles, PlaceTypes, roomVars
<1> QED
  BY <1>1, <1>2, <1>4, <1>5 DEF TypeInv

LEMMA MovedRoom ==
    ASSUME PlaceTypes, room # <<>>, NEW b \in BOOLEAN
    PROVE  <<[room[1] EXCEPT !.inSpace = b]>> \in {<<>>} \cup {<<x>> : x \in Rooms}
<1>1. room[1] \in Rooms
  BY DEF PlaceTypes
<1>2. [room[1] EXCEPT !.inSpace = b] \in Rooms
  BY <1>1 DEF Rooms
<1> QED
  BY <1>2

LEMMA QuietTyped ==
    ASSUME TypeInv,
           \/ SyncOnceFails \/ RepairTeamSpaces \/ AskName \/ GetUserInfo \/ MissExpires
           \/ UNCHANGED vars
    PROVE  TypeInv'
<1>1. Inv'
  BY StillKept, AskKept DEF Kept, TypeInv
<1>2. UNCHANGED <<shape, title, changes, members, messages, row, sig, queue, last, unsaved>>
  BY DEF SyncOnceFails, RepairTeamSpaces, AskName, GetUserInfo, MissExpires, vars,
         teamsVars, personVars, countVars, historyVars
<1>2a. ProfileGrows
  <2>1. CASE AskName
    BY <1>2, <2>1, LookedUp DEF AskName, TypeInv, Inv
  <2>2. CASE ~AskName
    BY <1>2, <2>2, ProfileSaved
       DEF SyncOnceFails, RepairTeamSpaces, GetUserInfo, MissExpires, vars, personVars
  <2> QED
    BY <2>1, <2>2
<1>3. Sizes' /\ ToldTypes' /\ CountInv'
  BY <1>1, <1>2, <1>2a, StillCounted DEF TypeInv
<1>4. PersonTypes'
  <2>1. CASE AskName
    <3>1. PICK name \in Titles : LookupUserDisplayName(name) /\ asking' = <<name>>
      BY <2>1 DEF AskName
    <3>2. ghost' = <<0>> /\ UNCHANGED missed
      BY <2>1 DEF AskName, historyVars
    <3>3. unknown' \in BOOLEAN
      BY <3>1 DEF LookupUserDisplayName, PersonTypes, TypeInv
    <3>4. 0 \in Titles
      BY ChatRoomsAssumption DEF Titles
    <3> QED
      BY <3>1, <3>2, <3>3, <3>4 DEF PersonTypes, TypeInv
  <2>2. CASE GetUserInfo
    BY <2>2 DEF GetUserInfo, PersonTypes, TypeInv, historyVars
  <2>3. CASE SyncOnceFails \/ RepairTeamSpaces \/ MissExpires \/ UNCHANGED vars
    BY <2>3 DEF SyncOnceFails, RepairTeamSpaces, MissExpires, vars, PersonTypes, TypeInv, personVars, historyVars
  <2> QED
    BY <2>1, <2>2, <2>3
<1>5. PlaceTypes'
  <2>1. CASE RepairTeamSpaces
    <3>1. room' \in {<<>>} \cup {<<r>> : r \in Rooms}
      <4>1. room' = room \/ (room # <<>> /\ room' = <<[room[1] EXCEPT !.inSpace = FALSE]>>)
        BY <2>1 DEF RepairTeamSpaces
      <4> QED
        BY <4>1, MovedRoom DEF PlaceTypes, TypeInv
    <3> QED
      BY <2>1, <3>1 DEF RepairTeamSpaces, PlaceTypes, TypeInv
  <2>2. CASE ~RepairTeamSpaces
    BY <2>2 DEF SyncOnceFails, AskName, GetUserInfo, MissExpires, vars, PlaceTypes, TypeInv, roomVars
  <2> QED
    BY <2>1, <2>2
<1> QED
  BY <1>1, <1>3, <1>4, <1>5 DEF TypeInv

LEMMA ParentsTyped ==
    ASSUME TypeInv, SyncChannelParents
    PROVE  TypeInv'
<1>0. PICK event : event = Resync(FALSE, NoName, NoMembers, TRUE)
  OBVIOUS
<1>1. Inv'
  BY ParentsKept DEF Kept, TypeInv
<1>2. /\ UNCHANGED <<shape, title, changes, members, messages, row, sig, unsaved, missed, spoken>>
      /\ UNCHANGED personVars /\ pc' = "poll"
  BY DEF SyncChannelParents, teamsVars, countVars
<1>3. Sizes' /\ PersonTypes' /\ ProfileGrows
  BY <1>2, ProfileSaved DEF Sizes, PersonTypes, personVars, TypeInv
<1>4. PlaceTypes'
  <2>1. room' = room \/ (room # <<>> /\ room' = <<[room[1] EXCEPT !.inSpace = TRUE]>>)
    BY DEF SyncChannelParents
  <2>3. room' \in {<<>>} \cup {<<x>> : x \in Rooms}
    BY <2>1, MovedRoom DEF PlaceTypes, TypeInv
  <2> QED
    BY <1>2, <2>3 DEF SyncChannelParents, MakeSpace, PlaceTypes, TypeInv
<1>5. CASE AnnounceNothing
  BY <1>1, <1>2, <1>3, <1>4, <1>5, StillCounted DEF AnnounceNothing, TypeInv
<1>6. CASE Announce(event) /\ ~\E i \in 1 .. Len(queue) : queue[i].parent
  <2>1. event \in Events /\ event.parent
    <3>1. NoName \in Names
      BY ChatRoomsAssumption DEF NoName, Names, Titles
    <3> QED
      BY <1>0, <3>1, ResyncTyped DEF TypeInv, Resync
  <2>2. queue' = Append(queue, event) /\ last' = last
    BY <1>0, <1>6, NoNameKnown DEF Announce, Resync, IsGenericChatName
  <2>3. ToldTypes'
    BY <1>2, <2>1, <2>2 DEF ToldTypes, TypeInv
  <2>4. Stored' = Stored /\ UNCHANGED BuildChatMemberList
    BY <1>2 DEF Stored, BuildChatMemberList, DmMemberListFromThreadID
  <2>5. Rest' = Rest
    BY <1>2, <1>3, <2>4, PeopleKept DEF Rest, Weight, Ahead, Unsynced, Now, Resync, Spare, TypeInv
  <2>6. Len(queue') = Len(queue) + 1 /\ Len(queue') \in Nat /\ queue'[Len(queue')] = event
    BY <2>1, <2>2 DEF ToldTypes, TypeInv
  <2>7. ParentWaits = 0 /\ ParentWaits' = 1
    BY <1>6, <2>1, <2>6 DEF ParentWaits
  <2>8. CountInv'
    <3>1. Len(queue) + Rest <= MaxQueue - 1 + ParentWaits /\ Rest \in Nat /\ MaxQueue \in Nat /\ Len(queue) \in Nat
      BY Quantities DEF CountInv, TypeInv
    <3>2. Len(queue') + Rest' <= MaxQueue - 1 + ParentWaits'
      BY <2>5, <2>6, <2>7, <3>1
    <3> QED
      BY <3>2 DEF CountInv, MaxQueue
  <2> QED
    BY <1>1, <1>3, <1>4, <2>3, <2>8 DEF TypeInv
<1> QED
  BY <1>0, <1>5, <1>6 DEF SyncChannelParents

(* A message makes up for the title it may bring, three times. *)
LEMMA MessageTyped ==
    ASSUME TypeInv, QueueUserMessage
    PROVE  TypeInv'
<1>1. Inv'
  BY MessageKept DEF Kept, TypeInv
<1>2. UNCHANGED <<shape, title, changes, members, row, sig, unsaved, pc, asking, unknown, room, spoken, space>>
  BY DEF QueueUserMessage, teamsVars, roomVars
<1>3. messages' = messages + 1 /\ messages < MaxMessages
  BY DEF QueueUserMessage
<1>4. Sizes'
  BY <1>2, <1>3, ChatRoomsAssumption DEF Sizes, TypeInv
<1>5. FormerNames \subseteq Titles
  BY ChatRoomsAssumption DEF TypeInv, Inv, People, Sizes, Titles, FormerNames
<1>6. PersonTypes' /\ PlaceTypes'
  BY <1>2, <1>5 DEF QueueUserMessage, SyncGhostName, PersonTypes, PlaceTypes, TypeInv
<1>7. PICK event \in Events : queue' = Append(queue, event) /\ last' = last
  <2> DEFINE event == [create |-> TRUE, name |-> NoName, members |-> NoMembers, parent |-> FALSE, message |-> TRUE]
  <2>1. event \in Events
    BY ChatRoomsAssumption DEF Events, NoName, NoMembers, Names, Titles
  <2>2. queue' = Append(queue, event) /\ last' = last
    BY NoNameKnown DEF QueueUserMessage, Announce, IsGenericChatName
  <2> QED
    BY <2>1, <2>2
<1>8. ToldTypes'
  BY <1>2, <1>7 DEF ToldTypes, TypeInv
<1>9. Stored' = Stored /\ UNCHANGED BuildChatMemberList
  BY <1>2 DEF Stored, BuildChatMemberList, DmMemberListFromThreadID
<1>10. Unsynced' = Unsynced /\ Spare' = Spare
  BY <1>2, <1>9 DEF Unsynced, Now, Resync, Spare
<1>10a. Weight(Stored)' <= Weight(Stored) + 3 /\ Weight(Stored)' \in Int
  <2>1. Ahead(Stored)' \in 0 .. 1 /\ Ahead(Stored) \in 0 .. 1
    BY DEF Ahead
  <2>2. Stored[2] \in Nat
    BY DEF TypeInv, Inv, Known, IsName
  <2> QED
    BY <1>9, <2>1, <2>2 DEF Weight
<1>11. Rest' <= Rest - 1
  <2>1. /\ Weight(Stored) \in Nat /\ Unsynced \in 0 .. 1 /\ Spare \in 0 .. 2
        /\ messages \in Nat /\ changes \in Nat /\ MaxMessages \in Nat /\ MaxChanges \in Nat
    BY Quantities DEF TypeInv
  <2> QED
    BY <1>2, <1>3, <1>10, <1>10a, <2>1 DEF Rest
<1>12. CountInv'
  BY <1>1, <1>4, <1>7, <1>11, CountedTold DEF TypeInv
<1> QED
  BY <1>1, <1>4, <1>6, <1>8, <1>12 DEF TypeInv

(* An event leaves the queue. *)
LEMMA TakenCounted ==
    ASSUME TypeInv, queue # <<>>, queue' = Tail(queue), Rest' = Rest
    PROVE  CountInv' /\ queue' \in Seq(Events) /\ Head(queue) \in Events
<1>1. queue' \in Seq(Events) /\ Len(queue') = Len(queue) - 1 /\ Head(queue) \in Events
  BY DEF TypeInv, ToldTypes
<1>2. /\ Len(queue) + Rest <= MaxQueue - 1 + ParentWaits /\ Rest \in Nat /\ MaxQueue \in Nat
      /\ Len(queue) \in Nat /\ ParentWaits \in 0 .. 1
  BY Quantities DEF CountInv, TypeInv
<1>3. ParentWaits' \in 0 .. 1
  BY DEF ParentWaits
<1>4. Len(queue') + Rest' <= MaxQueue - 1 + ParentWaits'
  BY <1>1, <1>2, <1>3
<1> QED
  BY <1>1, <1>4 DEF CountInv, MaxQueue

LEMMA HandleTyped ==
    ASSUME TypeInv, HandleEvent \/ HandlingFails
    PROVE  TypeInv'
<1>1. Inv'
  BY StillKept DEF Kept, TypeInv
<1>2. /\ UNCHANGED <<shape, title, changes, members, messages, row, sig, unsaved, last, pc>>
      /\ UNCHANGED personVars /\ missed' \in BOOLEAN
      /\ queue # <<>> /\ queue' = Tail(queue)
  BY DEF HandleEvent, HandlingFails, TypeInv, PersonTypes, teamsVars, countVars, historyVars
<1>3. Stored' = Stored /\ UNCHANGED BuildChatMemberList
  BY <1>2 DEF Stored, BuildChatMemberList, DmMemberListFromThreadID
<1>4. Rest' = Rest
  BY <1>2, <1>3 DEF Rest, Weight, Ahead, Given, NamedByProfile, Unsynced, Now, Resync, Spare, personVars
<1>5. CountInv' /\ queue' \in Seq(Events) /\ Head(queue) \in Events
  BY <1>2, <1>4, TakenCounted
<1>6. Sizes' /\ ToldTypes' /\ PersonTypes'
  BY <1>2, <1>5 DEF TypeInv, Sizes, ToldTypes, PersonTypes, personVars
<1>7. PlaceTypes'
  <2>1. CASE HandleEvent
    <3>1. PICK event \in Events : event = Head(queue)
      BY <1>5
    <3>2. /\ room' = IF room # <<>> THEN <<UpdateRoom(event)>>
                      ELSE IF event.create THEN <<CreateRoom(event)>> ELSE <<>>
          /\ space' \in {MakeSpace, space} /\ spoken' \in BOOLEAN
      BY <2>1, <3>1 DEF HandleEvent
    <3>3. /\ event.name \in Names /\ event.members \in 0 .. MaxChanges + 1
          /\ event.parent \in BOOLEAN /\ event.message \in BOOLEAN
      BY DEF Events
    <3>4. Stored \in Names
      BY KnownName DEF TypeInv, Inv
    <3>5. BuildChatMemberList \in 0 .. MaxChanges + 1
      BY ListTyped, ChatRoomsAssumption DEF TypeInv, Sizes, NoMembers
    <3>6. CreateRoom(event) \in Rooms
      BY <3>3, <3>4, <3>5 DEF CreateRoom, Stored, Rooms
    <3>7. room # <<>> => UpdateRoom(event) \in Rooms
      <4>1. room # <<>> => room[1] \in Rooms
        BY DEF TypeInv, PlaceTypes
      <4>2. PICK r \in {room[1]} : r = room[1]
        OBVIOUS
      <4> QED
        BY <3>3, <4>1, <4>2 DEF UpdateRoom, Rooms
    <3>8. room' \in {<<>>} \cup {<<x>> : x \in Rooms}
      BY <3>2, <3>6, <3>7
    <3> QED
      BY <1>2, <3>2, <3>3, <3>8 DEF MakeSpace, TypeInv, PlaceTypes
  <2>2. CASE HandlingFails
    BY <1>2, <2>2 DEF HandlingFails, roomVars, TypeInv, PlaceTypes
  <2> QED
    BY <2>1, <2>2
<1> QED
  BY <1>1, <1>5, <1>6, <1>7 DEF TypeInv

(* A change in Teams makes up for what it lets passes announce: a title,    *)
(* three times, or who the members are, once.                               *)
LEMMA TeamsTyped ==
    ASSUME TypeInv, RenamedInTeams \/ MembersChange
    PROVE  TypeInv'
<1>1. Inv'
  BY TeamsKept DEF Kept, TypeInv
<1>2. /\ UNCHANGED <<shape, messages, row, sig, unsaved, last, pc, queue, missed>>
      /\ UNCHANGED personVars /\ UNCHANGED roomVars
      /\ changes < MaxChanges /\ changes' = changes + 1
      /\ members' = members \/ (members' = members + 1 /\ shape.kind # "dm" /\ title' = title)
      /\ members' = members \/ title' = title
  BY DEF RenamedInTeams, MembersChange, countVars, historyVars
<1>3. Sizes'
  BY <1>2, ChatRoomsAssumption DEF Sizes, TypeInv
<1>4. ToldTypes' /\ PersonTypes' /\ PlaceTypes'
  BY <1>2 DEF ToldTypes, PersonTypes, PlaceTypes, TypeInv, personVars, roomVars
<1>5. Stored' = Stored /\ Spare' = Spare
  BY <1>2 DEF Stored, Spare
<1>6. /\ Weight(Stored) \in Nat /\ Unsynced \in 0 .. 1 /\ Spare \in 0 .. 2
      /\ messages \in Nat /\ changes \in Nat /\ MaxMessages \in Nat /\ MaxChanges \in Nat
  BY Quantities DEF TypeInv
<1>7. Weight(Stored)' + Unsynced' <= Weight(Stored) + Unsynced + 3
  <2>1. Stored[1] \in Nat /\ Stored[2] \in Nat
    BY DEF TypeInv, Inv, Known, IsName
  <2>2. CASE members' = members
    <3>1. Now' = Now
      BY <1>2, <1>5, <2>2 DEF Now, Resync, BuildChatMemberList, DmMemberListFromThreadID
    <3>2. Unsynced' = Unsynced
      BY <1>2, <3>1 DEF Unsynced
    <3>3. Ahead(Stored)' <= Ahead(Stored) + 1 /\ Ahead(Stored)' \in Int /\ Ahead(Stored) \in Int
      BY DEF Ahead
    <3> QED
      BY <1>5, <1>6, <2>1, <3>2, <3>3 DEF Weight
  <2>3. CASE members' # members
    <3>1. Ahead(Stored)' = Ahead(Stored) /\ Ahead(Stored) \in Int
      BY <1>2, <1>5, <2>3 DEF Ahead, Given, NamedByProfile, personVars
    <3>2. Weight(Stored)' = Weight(Stored)
      BY <1>5, <3>1 DEF Weight
    <3>3. Unsynced' \in 0 .. 1
      BY DEF Unsynced
    <3> QED
      BY <1>6, <3>2, <3>3
  <2> QED
    BY <2>2, <2>3
<1>8. Rest' <= Rest
  <2>1. Weight(Stored)' \in Int /\ Unsynced' \in 0 .. 1
    <3>1. Stored'[1] \in Nat /\ Stored'[2] \in Nat /\ changes' \in Nat
      BY <1>1, <1>2, <1>6 DEF Inv, Known, IsName
    <3>2. Ahead(Stored)' \in Int
      BY DEF Ahead
    <3> QED
      BY <3>1, <3>2 DEF Weight, Unsynced
  <2> QED
    BY <1>2, <1>5, <1>6, <1>7, <2>1 DEF Rest
<1>9. CountInv'
  BY <1>1, <1>2, <1>3, <1>8, CountedSilent DEF TypeInv
<1> QED
  BY <1>1, <1>3, <1>4, <1>9 DEF TypeInv

LEMMA RestartTyped ==
    ASSUME TypeInv, Restart
    PROVE  TypeInv'
<1>1. Inv'
  BY RestartKept DEF Kept, TypeInv
<1>2. /\ UNCHANGED <<shape, title, changes, members, messages, row, unsaved, last, ghost, missed>>
      /\ UNCHANGED roomVars
      /\ pc' = "connect" /\ sig' = <<>> /\ queue' = <<>> /\ unknown' = FALSE /\ asking' = <<>>
  BY DEF Restart, teamsVars, historyVars
<1>3. Sizes' /\ ToldTypes' /\ PersonTypes' /\ PlaceTypes'
  <2>1. queue' \in Seq(Events)
    BY <1>2
  <2>2. Sizes' /\ PersonTypes' /\ PlaceTypes'
    BY <1>2 DEF Sizes, PersonTypes, PlaceTypes, TypeInv, roomVars
  <2>3. ToldTypes'
    BY <1>2, <2>1 DEF ToldTypes, TypeInv
  <2> QED
    BY <2>2, <2>3
<1>4. Rest' \in Int /\ Rest' <= MaxQueue - 1 /\ MaxQueue \in Nat
  BY <1>1, <1>3, RestTyped, Quantities DEF TypeInv
<1>5. ParentWaits' = 0 /\ Len(queue') = 0
  BY <1>2 DEF ParentWaits
<1>6. Len(queue') + Rest' <= MaxQueue - 1 + ParentWaits'
  BY <1>4, <1>5, Quantities DEF TypeInv
<1>7. CountInv'
  BY <1>5, <1>6 DEF CountInv, MaxQueue
<1> QED
  BY <1>1, <1>3, <1>7 DEF TypeInv

LEMMA TypesStart ==
    ASSUME Init
    PROVE  TypeInv
<1>1. Inv
  BY Start
<1>2. /\ members = 1 /\ changes = 0 /\ messages = 0 /\ pc = "connect" /\ row = <<>> /\ sig = <<>>
      /\ queue = <<>> /\ unknown = FALSE /\ ghost = <<>> /\ asking = <<>> /\ room = <<>> /\ spoken = FALSE
      /\ space \in {"none", "plain"} /\ last = NoName /\ unsaved = FALSE /\ missed = FALSE
  BY DEF Init
<1>3. NoName \in Names
  BY ChatRoomsAssumption DEF NoName, Names, Titles
<1>4. Sizes /\ ToldTypes /\ PersonTypes /\ PlaceTypes
  <2>1. queue \in Seq(Events)
    BY <1>2
  <2>2. ToldTypes
    BY <1>2, <1>3, <2>1 DEF ToldTypes
  <2>3. Sizes
    BY <1>2, ChatRoomsAssumption DEF Sizes
  <2>4. PersonTypes
    BY <1>2 DEF PersonTypes
  <2>5. PlaceTypes
    BY <1>2 DEF PlaceTypes
  <2> QED
    BY <2>2, <2>3, <2>4, <2>5
<1>5. Rest \in Nat /\ Rest <= MaxQueue - 1 /\ MaxQueue \in Nat
  BY <1>1, <1>4, Quantities
<1>6. Len(queue) = 0 /\ ParentWaits = 0
  BY <1>2 DEF ParentWaits
<1>7. CountInv
  BY <1>5, <1>6 DEF CountInv
<1> QED
  BY <1>1, <1>4, <1>7 DEF TypeInv

LEMMA TypesStep ==
    ASSUME TypeInv, [Next]_vars
    PROVE  TypeInv'
BY DiscoverTyped, UnnamedTyped, SyncTeamsTyped, GhostsTyped, QuietTyped, ParentsTyped, MessageTyped,
   HandleTyped, TeamsTyped, RestartTyped DEF Next

(* The types of every variable, with a bound of what waits for the portal:  *)
(* a chat that stays as it is is not announced again and again              *)
(* (chatInfoChanged, refreshThreads), for any number of renamings, changes  *)
(* of members, messages, failed requests and saves, and restarts.           *)
THEOREM TypeCorrect == Spec => []TypeOK
<1>1. Init => TypeInv
  BY TypesStart
<1>2. TypeInv /\ [Next]_vars => TypeInv'
  BY TypesStep
<1>3. TypeInv => TypeOK
  BY TypesHold
<1> QED
  BY <1>1, <1>2, <1>3, PTL DEF Spec

-----------------------------------------------------------------------------
(* What the portal's queue still has to say *)

QueueNamed == {i \in 1 .. Len(queue) : ~IsGenericChatName(queue[i].name)}
QueuePeopled == {i \in 1 .. Len(queue) : queue[i].members # NoMembers}
QueueCreates == {i \in 1 .. Len(queue) : queue[i].create}
Latest(S) == {i \in S : \A j \in S : j <= i}

(* The last name that waits is the one announced last, an event that makes   *)
(* the room comes no later than that, and once no name waits the room has it. *)
NamesInv ==
    /\ \A i \in 1 .. Len(queue) : IsName(queue[i].name)
    /\ \A i \in Latest(QueueNamed) : queue[i].name = last
    /\ unsaved \/ last # NoName \/ (QueueNamed = {} /\ (room # <<>> => room[1].name = NoName))
    /\ missed \/ sig = <<>> \/
          /\ room = <<>> => QueueCreates # {}
          /\ unsaved \/
                /\ QueueNamed = {} => last = IF room = <<>> THEN NoName ELSE room[1].name
                /\ room = <<>> => \A i \in Latest(QueueNamed) : \E j \in QueueCreates : j <= i

(* The same of the members, which are those of the last announcement or      *)
(* later ones.                                                               *)
MembersInv ==
    missed \/ sig = <<>> \/ ~shape.listed \/
       /\ sig[1].members \in 1 .. members
       /\ QueuePeopled = {} /\ room # <<>> => room[1].members \in sig[1].members .. members
       /\ \A i \in Latest(QueuePeopled) : queue[i].members \in sig[1].members .. members

(* Once the first of some numbers from 1 on is taken, the latest is the same. *)
LEMMA LatestShifts ==
    ASSUME NEW S, NEW T, \A i \in S \cup T : i \in Nat /\ i >= 1,
           \A i \in Int : i \in T <=> i >= 1 /\ i + 1 \in S
    PROVE  /\ \A i \in Latest(T) : i \in Nat /\ i + 1 \in Latest(S)
           /\ T = {} <=> S \subseteq {1}
<1>1. ASSUME NEW j \in S
      PROVE  j = 1 \/ (j - 1 \in T /\ j \in Nat)
  <2>1. j \in Nat /\ j >= 1
    OBVIOUS
  <2>2. j = 1 \/ (j - 1 \in Int /\ j - 1 >= 1 /\ (j - 1) + 1 = j)
    BY <2>1
  <2> QED
    BY <2>1, <2>2
<1>2. T = {} => S \subseteq {1}
  BY <1>1
<1>3. S \subseteq {1} => T = {}
  <2> SUFFICES ASSUME S \subseteq {1}, NEW i \in T
               PROVE  FALSE
    OBVIOUS
  <2>1. i \in Nat /\ i >= 1
    OBVIOUS
  <2>2. i + 1 \in S
    BY <2>1
  <2>3. i + 1 # 1
    BY <2>1
  <2> QED
    BY <2>2, <2>3
<1>4. ASSUME NEW i \in Latest(T)
      PROVE  i \in Nat /\ i + 1 \in Latest(S)
  <2>1. i \in T /\ i \in Nat /\ i >= 1 /\ \A j \in T : j <= i
    BY DEF Latest
  <2>2. i + 1 \in S
    BY <2>1
  <2>3. ASSUME NEW j \in S
        PROVE  j <= i + 1
    BY <1>1, <2>1
  <2> QED
    BY <2>1, <2>2, <2>3 DEF Latest
<1> QED
  BY <1>2, <1>3, <1>4

LEMMA LatestAdded ==
    ASSUME NEW n \in Nat, NEW S, S \subseteq 1 .. n
    PROVE  \A i \in Latest(S \cup {n + 1}) : i = n + 1
<1> SUFFICES ASSUME NEW i \in Latest(S \cup {n + 1}), i # n + 1
             PROVE  FALSE
  OBVIOUS
<1>1. i \in S /\ n + 1 <= i
  BY DEF Latest
<1>2. i \in Nat /\ i <= n
  BY <1>1
<1> QED
  BY <1>1, <1>2

LEMMA QueueGrows ==
    ASSUME ToldTypes, NEW event \in Events, queue' = Append(queue, event), NEW n, n = Len(queue)
    PROVE  /\ n \in Nat /\ Len(queue') = n + 1 /\ queue'[n + 1] = event
           /\ \A i \in 1 .. n : queue'[i] = queue[i]
           /\ QueueNamed \subseteq 1 .. n /\ QueuePeopled \subseteq 1 .. n /\ QueueCreates \subseteq 1 .. n
           /\ QueueNamed' = QueueNamed \cup (IF IsGenericChatName(event.name) THEN {} ELSE {n + 1})
           /\ QueuePeopled' = QueuePeopled \cup (IF event.members = NoMembers THEN {} ELSE {n + 1})
           /\ QueueCreates' = QueueCreates \cup (IF event.create THEN {n + 1} ELSE {})
<1>1. /\ n \in Nat /\ Len(queue') = n + 1 /\ queue'[n + 1] = event
      /\ \A i \in 1 .. n : queue'[i] = queue[i]
  BY DEF ToldTypes
<1>2. \A i : i \in 1 .. n + 1 <=> i \in 1 .. n \/ i = n + 1
  BY <1>1
<1>3. n + 1 \notin 1 .. n
  BY <1>1
<1>4. QueueNamed' = QueueNamed \cup (IF IsGenericChatName(event.name) THEN {} ELSE {n + 1})
  BY <1>1, <1>2, <1>3 DEF QueueNamed, IsGenericChatName
<1>5. QueuePeopled' = QueuePeopled \cup (IF event.members = NoMembers THEN {} ELSE {n + 1})
  BY <1>1, <1>2, <1>3 DEF QueuePeopled
<1>6. QueueCreates' = QueueCreates \cup (IF event.create THEN {n + 1} ELSE {})
  BY <1>1, <1>2, <1>3 DEF QueueCreates
<1> QED
  BY <1>1, <1>4, <1>5, <1>6 DEF QueueNamed, QueuePeopled, QueueCreates

LEMMA QueueTaken ==
    ASSUME ToldTypes, queue # <<>>, queue' = Tail(queue)
    PROVE  /\ Head(queue) = queue[1] /\ queue[1] \in Events /\ 1 \in 1 .. Len(queue)
           /\ \A i \in 1 .. Len(queue') : i + 1 \in 1 .. Len(queue) /\ queue'[i] = queue[i + 1]
           /\ \A i \in 1 .. Len(queue) : i = 1 \/ (i - 1 \in 1 .. Len(queue') /\ queue'[i - 1] = queue[i])
           /\ \A i \in Int : i \in QueueNamed' <=> i >= 1 /\ i + 1 \in QueueNamed
           /\ \A i \in Int : i \in QueuePeopled' <=> i >= 1 /\ i + 1 \in QueuePeopled
           /\ \A i \in Int : i \in QueueCreates' <=> i >= 1 /\ i + 1 \in QueueCreates
           /\ \A i \in QueueNamed \cup QueuePeopled \cup QueueCreates : i \in Nat /\ i >= 1
           /\ \A i \in QueueNamed' \cup QueuePeopled' \cup QueueCreates' : i \in Nat /\ i >= 1
<1>1. PICK n : n = Len(queue)
  OBVIOUS
<1>2. /\ n \in Nat /\ n >= 1 /\ Len(queue') = n - 1 /\ Head(queue) = queue[1] /\ queue[1] \in Events
      /\ \A i \in 1 .. n - 1 : queue'[i] = queue[i + 1]
  BY <1>1 DEF ToldTypes
<1>3. \A i \in 1 .. n : i = 1 \/ (i - 1 \in 1 .. n - 1 /\ queue'[i - 1] = queue[i])
  <2>1. \A i \in 1 .. n : i = 1 \/ (i - 1 \in 1 .. n - 1 /\ (i - 1) + 1 = i)
    BY <1>2
  <2> QED
    BY <1>2, <2>1
<1>4. \A i \in Int : i \in 1 .. n - 1 <=> i >= 1 /\ i + 1 \in 1 .. n
  BY <1>2
<1>5. \A i \in Int : i \in QueueNamed' <=> i >= 1 /\ i + 1 \in QueueNamed
  BY <1>1, <1>2, <1>4 DEF QueueNamed, IsGenericChatName
<1>6. \A i \in Int : i \in QueuePeopled' <=> i >= 1 /\ i + 1 \in QueuePeopled
  BY <1>1, <1>2, <1>4 DEF QueuePeopled
<1>7. \A i \in Int : i \in QueueCreates' <=> i >= 1 /\ i + 1 \in QueueCreates
  BY <1>1, <1>2, <1>4 DEF QueueCreates
<1>8. \A i \in QueueNamed \cup QueuePeopled \cup QueueCreates : i \in Nat /\ i >= 1
  BY <1>1, <1>2 DEF QueueNamed, QueuePeopled, QueueCreates
<1>9. \A i \in QueueNamed' \cup QueuePeopled' \cup QueueCreates' : i \in Nat /\ i >= 1
  BY <1>2 DEF QueueNamed, QueuePeopled, QueueCreates
<1>10. \A i \in 1 .. Len(queue') : i + 1 \in 1 .. Len(queue) /\ queue'[i] = queue[i + 1]
  BY <1>1, <1>2, <1>4
<1>11. 1 \in 1 .. Len(queue)
  BY <1>1, <1>2
<1> QED
  BY <1>1, <1>2, <1>3, <1>5, <1>6, <1>7, <1>8, <1>9, <1>10, <1>11

-----------------------------------------------------------------------------
(* The steps of the loop, which may announce *)

RoomKept ==
    /\ room = <<>> <=> room' = <<>>
    /\ room # <<>> => room'[1].name = room[1].name /\ room'[1].members = room[1].members

Says(event) ==
    /\ event \in Events /\ IsName(event.name) /\ event.members \in {NoMembers, members}
    /\ Announce(event)
    /\ UNCHANGED members
Refreshes(event) ==
    /\ sig' = <<event>>
    /\ event.create /\ event.members = BuildChatMemberList
    /\ unsaved' \/ ~IsGenericChatName(event.name) \/ last = NoName
Passing ==
    /\ RoomKept
    /\ missed => missed'
    /\ unsaved => unsaved'
    /\ shape' = shape
    /\ members' \in {members, members + 1}
    /\ \/ UNCHANGED <<queue, last, sig>>
       \/ \E event : Says(event) /\ (UNCHANGED sig \/ Refreshes(event))

LEMMA SilentHeard ==
    ASSUME TypeInv, NamesInv, MembersInv, Passing, UNCHANGED <<queue, last, sig>>
    PROVE  NamesInv' /\ MembersInv'
<1>1. UNCHANGED <<QueueNamed, QueuePeopled, QueueCreates>>
  BY DEF QueueNamed, QueuePeopled, QueueCreates, IsGenericChatName
<1>2. NamesInv'
  BY <1>1 DEF NamesInv, Passing, RoomKept, Latest
<1>3. members \in Nat
  BY ChatRoomsAssumption DEF TypeInv, Sizes
<1>4. sig # <<>> => sig[1] \in Events
  BY DEF TypeInv, ToldTypes
<1>5. sig # <<>> => sig[1].members \in Nat
  BY <1>4, ChatRoomsAssumption DEF Events
<1>6. sig = <<>> \/ \A m : m \in sig[1].members .. members => m \in sig[1].members .. members'
  BY <1>3, <1>5 DEF Passing
<1>7. sig = <<>> \/ (sig[1].members \in 1 .. members => sig[1].members \in 1 .. members')
  BY <1>3, <1>5 DEF Passing
<1>8. MembersInv'
  BY <1>1, <1>6, <1>7 DEF MembersInv, Passing, RoomKept, Latest
<1> QED
  BY <1>2, <1>8

LEMMA SaidNames ==
    ASSUME TypeInv, NamesInv, Passing, NEW event, Says(event), UNCHANGED sig \/ Refreshes(event)
    PROVE  NamesInv'
<1>1. PICK n : n = Len(queue)
  OBVIOUS
<1>2. /\ n \in Nat /\ Len(queue') = n + 1 /\ queue'[n + 1] = event
      /\ \A i \in 1 .. n : queue'[i] = queue[i]
      /\ QueueNamed \subseteq 1 .. n /\ QueueCreates \subseteq 1 .. n
      /\ QueueNamed' = QueueNamed \cup (IF IsGenericChatName(event.name) THEN {} ELSE {n + 1})
      /\ QueueCreates' = QueueCreates \cup (IF event.create THEN {n + 1} ELSE {})
  BY <1>1, QueueGrows DEF Says, Announce, TypeInv
<1>3. last' = IF IsGenericChatName(event.name) THEN last ELSE event.name
  BY DEF Says, Announce
<1>4. IsGenericChatName(event.name) <=> event.name = NoName
  BY NoNameKnown DEF Says, IsName, IsGenericChatName
<1>5. \A i \in 1 .. Len(queue') : IsName(queue'[i].name)
  <2>1. \A i \in 1 .. n + 1 : i \in 1 .. n \/ i = n + 1
    BY <1>2
  <2> QED
    BY <1>1, <1>2, <2>1 DEF NamesInv, Says
<1>6. CASE ~IsGenericChatName(event.name)
  <2>1. QueueNamed' = QueueNamed \cup {n + 1}
    BY <1>2, <1>6
  <2>2. \A i \in Latest(QueueNamed') : i = n + 1
    BY <1>2, <2>1, LatestAdded
  <2>3. QueueNamed' # {} /\ last' = event.name /\ last' # NoName
    BY <1>3, <1>4, <1>6, <2>1
  <2>4. \A i \in Latest(QueueNamed') : queue'[i].name = last'
    BY <1>2, <2>2, <2>3
  <2>5. missed' \/ sig' = <<>> \/ (room' = <<>> => QueueCreates' # {})
    BY <1>2 DEF NamesInv, Passing, RoomKept, Refreshes
  <2>6. ASSUME ~missed', sig' # <<>>, room' = <<>>, NEW i \in Latest(QueueNamed')
        PROVE  \E j \in QueueCreates' : j <= i
    <3>1. i = n + 1
      BY <2>2, <2>6
    <3>2. PICK j : j \in QueueCreates'
      BY <2>5, <2>6
    <3>3. j <= n + 1
      BY <1>2, <3>2
    <3> QED
      BY <3>1, <3>2, <3>3
  <2> QED
    BY <1>5, <2>3, <2>4, <2>5, <2>6 DEF NamesInv
<1>7. CASE IsGenericChatName(event.name)
  <2>1. QueueNamed' = QueueNamed /\ last' = last
    BY <1>2, <1>3, <1>7
  <2>2. \A i \in Latest(QueueNamed') : queue'[i].name = last'
    BY <1>2, <2>1 DEF NamesInv, Latest
  <2>3. unsaved' \/ last' # NoName \/ (QueueNamed' = {} /\ (room' # <<>> => room'[1].name = NoName))
    BY <2>1 DEF NamesInv, Passing, RoomKept
  <2>4. missed' \/ sig' = <<>> \/ (room' = <<>> => QueueCreates' # {})
    BY <1>2 DEF NamesInv, Passing, RoomKept, Refreshes
  <2>5. CASE UNCHANGED sig
    <3>1. QueueCreates \subseteq QueueCreates'
      BY <1>2
    <3>2. missed' \/ unsaved' \/ sig' = <<>> \/ (QueueNamed' = {} => last' = IF room' = <<>> THEN NoName ELSE room'[1].name)
      BY <2>1, <2>5 DEF NamesInv, Passing, RoomKept
    <3>3. missed' \/ unsaved' \/ sig' = <<>> \/ (room' = <<>> => \A i \in Latest(QueueNamed') : \E j \in QueueCreates' : j <= i)
      BY <2>1, <2>5, <3>1 DEF NamesInv, Passing, RoomKept
    <3> QED
      BY <1>5, <2>2, <2>3, <2>4, <3>2, <3>3 DEF NamesInv
  <2>6. CASE Refreshes(event)
    <3>1. unsaved' \/ last' = NoName
      BY <1>7, <2>1, <2>6 DEF Refreshes
    <3>2. unsaved' \/ (QueueNamed' = {} /\ (room' # <<>> => room'[1].name = NoName))
      BY <2>3, <3>1
    <3>3. Latest({}) = {}
      BY DEF Latest
    <3> QED
      BY <1>5, <2>2, <2>3, <2>4, <3>1, <3>2, <3>3 DEF NamesInv
  <2> QED
    BY <2>5, <2>6
<1> QED
  BY <1>6, <1>7

LEMMA SaidMembers ==
    ASSUME TypeInv, MembersInv, Passing, NEW event, Says(event), UNCHANGED sig \/ Refreshes(event)
    PROVE  MembersInv'
<1>1. PICK n : n = Len(queue)
  OBVIOUS
<1>2. /\ n \in Nat /\ Len(queue') = n + 1 /\ queue'[n + 1] = event
      /\ \A i \in 1 .. n : queue'[i] = queue[i]
      /\ QueuePeopled \subseteq 1 .. n
      /\ QueuePeopled' = QueuePeopled \cup (IF event.members = NoMembers THEN {} ELSE {n + 1})
  BY <1>1, QueueGrows DEF Says, Announce, TypeInv
<1>3. members \in Nat /\ members >= 1 /\ members' = members
  BY ChatRoomsAssumption DEF TypeInv, Sizes, Says
<1> SUFFICES ASSUME ~missed', sig' # <<>>, shape'.listed
             PROVE  /\ sig'[1].members \in 1 .. members'
                    /\ QueuePeopled' = {} /\ room' # <<>> => room'[1].members \in sig'[1].members .. members'
                    /\ \A i \in Latest(QueuePeopled') : queue'[i].members \in sig'[1].members .. members'
  BY DEF MembersInv
<1>4. ~missed /\ shape.listed
  BY DEF Passing
<1>5. sig'[1].members \in 1 .. members'
  <2>1. CASE UNCHANGED sig
    BY <1>3, <1>4, <2>1 DEF MembersInv
  <2>2. CASE Refreshes(event)
    <3>1. sig'[1].members = members
      BY <1>4, <2>2 DEF Refreshes, BuildChatMemberList
    <3> QED
      BY <1>3, <3>1
  <2> QED
    BY <2>1, <2>2
<1>6. CASE event.members # NoMembers
  <2>1. event.members = members /\ QueuePeopled' = QueuePeopled \cup {n + 1}
    BY <1>2, <1>6 DEF Says
  <2>2. \A i \in Latest(QueuePeopled') : i = n + 1
    BY <1>2, <2>1, LatestAdded
  <2>3. members \in sig'[1].members .. members'
    BY <1>3, <1>5
  <2> QED
    BY <1>2, <1>5, <2>1, <2>2, <2>3
<1>7. CASE event.members = NoMembers
  <2>1. QueuePeopled' = QueuePeopled
    BY <1>2, <1>7
  <2>2. UNCHANGED sig
    BY <1>3, <1>4, <1>7 DEF Refreshes, BuildChatMemberList, NoMembers
  <2>3. /\ QueuePeopled = {} /\ room # <<>> => room[1].members \in sig[1].members .. members
        /\ \A i \in Latest(QueuePeopled) : queue[i].members \in sig[1].members .. members
    BY <1>4, <2>2 DEF MembersInv
  <2>4. QueuePeopled' = {} /\ room' # <<>> => room'[1].members \in sig'[1].members .. members'
    BY <1>3, <2>1, <2>2, <2>3 DEF Passing, RoomKept
  <2>5. \A i \in Latest(QueuePeopled') : queue'[i].members \in sig'[1].members .. members'
    BY <1>2, <1>3, <2>1, <2>2, <2>3 DEF Latest
  <2> QED
    BY <1>5, <2>4, <2>5
<1> QED
  BY <1>6, <1>7

LEMMA PassingHeard ==
    ASSUME TypeInv, NamesInv, MembersInv, Passing
    PROVE  NamesInv' /\ MembersInv'
BY SilentHeard, SaidNames, SaidMembers DEF Passing

-----------------------------------------------------------------------------
(* The portal takes an event *)

LEMMA TakenNames ==
    ASSUME TypeInv, NamesInv, HandleEvent
    PROVE  NamesInv'
<1>1. PICK event \in Events : event = Head(queue)
  BY QueueTaken DEF HandleEvent, TypeInv
<1>2. /\ UNCHANGED <<sig, row, last, unsaved, missed>>
      /\ room' = IF room # <<>> THEN <<UpdateRoom(event)>>
                 ELSE IF event.create THEN <<CreateRoom(event)>> ELSE <<>>
  BY <1>1 DEF HandleEvent, historyVars
<1>3. /\ event = queue[1] /\ 1 \in 1 .. Len(queue)
      /\ \A i \in 1 .. Len(queue') : i + 1 \in 1 .. Len(queue) /\ queue'[i] = queue[i + 1]
      /\ \A i \in Int : i \in QueueNamed' <=> i >= 1 /\ i + 1 \in QueueNamed
      /\ \A i \in Int : i \in QueueCreates' <=> i >= 1 /\ i + 1 \in QueueCreates
      /\ \A i \in QueueNamed \cup QueueCreates : i \in Nat /\ i >= 1
      /\ \A i \in QueueNamed' \cup QueueCreates' : i \in Nat /\ i >= 1
  BY <1>1, QueueTaken DEF HandleEvent, TypeInv
<1>4. 1 \in QueueNamed <=> ~IsGenericChatName(event.name)
  BY <1>3 DEF QueueNamed
<1>5. 1 \in QueueCreates <=> event.create
  BY <1>3 DEF QueueCreates
<1>6. IsName(event.name) /\ (IsGenericChatName(event.name) <=> event.name = NoName)
  BY <1>3, NoNameKnown DEF NamesInv, IsName, IsGenericChatName
<1>7. \A i \in 1 .. Len(queue') : IsName(queue'[i].name)
  BY <1>3 DEF NamesInv
<1>8. /\ \A i \in Latest(QueueNamed') : i \in Nat /\ i + 1 \in Latest(QueueNamed)
      /\ QueueNamed' = {} <=> QueueNamed \subseteq {1}
  BY <1>3, LatestShifts
<1>9. \A i \in Latest(QueueNamed') : queue'[i].name = last'
  <2>1. \A i \in Latest(QueueNamed') : i \in 1 .. Len(queue')
    BY DEF Latest, QueueNamed
  <2> QED
    BY <1>2, <1>3, <1>8, <2>1 DEF NamesInv
<1>10. 1 \notin QueueNamed => event.name = NoName
  BY <1>4, <1>6
<1>11. ASSUME QueueNamed' = {}
       PROVE  \/ QueueNamed = {} /\ event.name = NoName
              \/ event.name = last /\ event.name # NoName /\ 1 \in Latest(QueueNamed)
  <2>1. CASE 1 \in QueueNamed
    <3>1. 1 \in Latest(QueueNamed)
      BY <1>8, <1>11, <2>1 DEF Latest
    <3> QED
      BY <1>3, <1>4, <1>6, <2>1, <3>1 DEF NamesInv
  <2>2. CASE 1 \notin QueueNamed
    <3>1. QueueNamed = {}
      BY <1>8, <1>11, <2>2
    <3> QED
      BY <1>10, <2>2, <3>1
  <2> QED
    BY <2>1, <2>2
<1>12. unsaved \/ last = Stored
  BY DEF TypeInv, Inv, Told
<1>13. room # <<>> => room'[1].name = IF event.name = NoName THEN room[1].name ELSE event.name
  <2>1. room # <<>> => room[1] \in Rooms
    BY DEF TypeInv, PlaceTypes
  <2>2. PICK r \in {room[1]} : r = room[1]
    OBVIOUS
  <2> QED
    BY <1>2, <1>6, <2>1, <2>2 DEF UpdateRoom, Rooms
<1>14. room = <<>> /\ room' # <<>> => event.create /\ room'[1].name \in {event.name, Stored}
  BY <1>2 DEF CreateRoom, Stored
<1>15. unsaved \/ last # NoName \/ (QueueNamed' = {} /\ (room' # <<>> => room'[1].name = NoName))
  <2> SUFFICES ASSUME ~unsaved, last = NoName
               PROVE  QueueNamed' = {} /\ (room' # <<>> => room'[1].name = NoName)
    OBVIOUS
  <2>1. QueueNamed = {} /\ (room # <<>> => room[1].name = NoName)
    BY DEF NamesInv
  <2>2. QueueNamed' = {}
    BY <1>8, <2>1
  <2>3. event.name = NoName /\ Stored = NoName
    BY <1>4, <1>6, <1>12, <2>1
  <2> QED
    BY <1>13, <1>14, <2>1, <2>2, <2>3
<1>16. room = <<>> /\ room' = <<>> => ~event.create
  BY <1>2
<1>17. room' = <<>> => room = <<>>
  BY <1>2
<1>18. ASSUME ~missed, sig # <<>>
       PROVE  room' = <<>> => QueueCreates' # {}
  <2> SUFFICES ASSUME room' = <<>>
               PROVE  QueueCreates' # {}
    OBVIOUS
  <2>1. PICK j : j \in QueueCreates
    BY <1>17, <1>18 DEF NamesInv
  <2>2. j # 1
    BY <1>5, <1>16, <1>17, <2>1
  <2>3. j - 1 \in Int /\ j - 1 >= 1 /\ (j - 1) + 1 = j
    BY <1>3, <2>1, <2>2
  <2> QED
    BY <1>3, <2>1, <2>3
<1>19. ASSUME ~missed, sig # <<>>, ~unsaved, QueueNamed' = {}
       PROVE  last = IF room' = <<>> THEN NoName ELSE room'[1].name
  <2>1. QueueNamed = {} => last = IF room = <<>> THEN NoName ELSE room[1].name
    BY <1>19 DEF NamesInv
  <2>2. room = <<>> => \A i \in Latest(QueueNamed) : \E j \in QueueCreates : j <= i
    BY <1>19 DEF NamesInv
  <2>3. CASE QueueNamed = {} /\ event.name = NoName
    <3>1. room' # <<>> /\ room = <<>> => room'[1].name = NoName
      BY <1>12, <1>14, <1>19, <2>1, <2>3
    <3> QED
      BY <1>13, <1>17, <2>1, <2>3, <3>1
  <2>4. CASE event.name = last /\ event.name # NoName /\ 1 \in Latest(QueueNamed)
    <3>1. room' # <<>>
      <4> SUFFICES ASSUME room' = <<>>
                   PROVE  FALSE
        OBVIOUS
      <4>1. PICK j \in QueueCreates : j <= 1
        BY <1>17, <2>2, <2>4
      <4>2. j = 1
        BY <1>3, <4>1
      <4> QED
        BY <1>5, <1>16, <1>17, <4>1, <4>2
    <3>2. room'[1].name = last
      BY <1>12, <1>13, <1>14, <1>19, <2>4, <3>1
    <3> QED
      BY <3>1, <3>2
  <2> QED
    BY <1>11, <1>19, <2>3, <2>4
<1>20. ASSUME ~missed, sig # <<>>, ~unsaved, room' = <<>>, NEW i \in Latest(QueueNamed')
       PROVE  \E j \in QueueCreates' : j <= i
  <2>1. i \in Nat /\ i + 1 \in Latest(QueueNamed)
    BY <1>8, <1>20
  <2>2. PICK j \in QueueCreates : j <= i + 1
    BY <1>17, <1>20, <2>1 DEF NamesInv
  <2>3. j # 1
    BY <1>5, <1>16, <1>17, <1>20, <2>2
  <2>4. j - 1 \in Int /\ j - 1 >= 1 /\ (j - 1) + 1 = j /\ j - 1 <= i
    BY <1>3, <2>1, <2>2, <2>3
  <2>5. j - 1 \in QueueCreates'
    BY <1>3, <2>2, <2>4
  <2> QED
    BY <2>4, <2>5
<1> QED
  BY <1>2, <1>7, <1>9, <1>15, <1>18, <1>19, <1>20 DEF NamesInv

LEMMA TakenMembers ==
    ASSUME TypeInv, MembersInv, HandleEvent
    PROVE  MembersInv'
<1>1. PICK event \in Events : event = Head(queue)
  BY QueueTaken DEF HandleEvent, TypeInv
<1>2. /\ UNCHANGED <<sig, shape, members, missed>>
      /\ room' = IF room # <<>> THEN <<UpdateRoom(event)>>
                 ELSE IF event.create THEN <<CreateRoom(event)>> ELSE <<>>
  BY <1>1 DEF HandleEvent, historyVars, teamsVars
<1>3. /\ event = queue[1] /\ 1 \in 1 .. Len(queue)
      /\ \A i \in 1 .. Len(queue') : i + 1 \in 1 .. Len(queue) /\ queue'[i] = queue[i + 1]
      /\ \A i \in Int : i \in QueuePeopled' <=> i >= 1 /\ i + 1 \in QueuePeopled
      /\ \A i \in QueuePeopled : i \in Nat /\ i >= 1
      /\ \A i \in QueuePeopled' : i \in Nat /\ i >= 1
  BY <1>1, QueueTaken DEF HandleEvent, TypeInv
<1>4. 1 \in QueuePeopled <=> event.members # NoMembers
  BY <1>3 DEF QueuePeopled
<1> SUFFICES ASSUME ~missed, sig # <<>>, shape.listed
             PROVE  /\ sig[1].members \in 1 .. members
                    /\ QueuePeopled' = {} /\ room' # <<>> => room'[1].members \in sig[1].members .. members
                    /\ \A i \in Latest(QueuePeopled') : queue'[i].members \in sig[1].members .. members
  BY <1>2 DEF MembersInv
<1>5. /\ sig[1].members \in 1 .. members
      /\ QueuePeopled = {} /\ room # <<>> => room[1].members \in sig[1].members .. members
      /\ \A i \in Latest(QueuePeopled) : queue[i].members \in sig[1].members .. members
  BY DEF MembersInv
<1>6. /\ \A i \in Latest(QueuePeopled') : i + 1 \in Latest(QueuePeopled)
      /\ QueuePeopled' = {} <=> QueuePeopled \subseteq {1}
  BY <1>3, LatestShifts
<1>7. \A i \in Latest(QueuePeopled') : queue'[i].members \in sig[1].members .. members
  <2>1. \A i \in Latest(QueuePeopled') : i \in 1 .. Len(queue')
    BY DEF Latest, QueuePeopled
  <2> QED
    BY <1>3, <1>5, <1>6, <2>1
<1>8. ASSUME QueuePeopled' = {}, room' # <<>>
      PROVE  room'[1].members \in sig[1].members .. members
  <2>1. QueuePeopled \subseteq {1}
    BY <1>6, <1>8
  <2>2. event.members # NoMembers => event.members \in sig[1].members .. members
    <3>1. event.members # NoMembers => 1 \in Latest(QueuePeopled)
      BY <1>4, <2>1 DEF Latest
    <3> QED
      BY <1>3, <1>5, <3>1
  <2>3. event.members = NoMembers => QueuePeopled = {}
    BY <1>4, <2>1
  <2>4. CASE room # <<>>
    <3>1. room[1] \in Rooms
      BY <2>4 DEF TypeInv, PlaceTypes
    <3>2. PICK r \in {room[1]} : r = room[1]
      OBVIOUS
    <3>3. room'[1].members = IF event.members = NoMembers THEN room[1].members ELSE event.members
      BY <1>2, <2>4, <3>1, <3>2 DEF UpdateRoom, Rooms
    <3> QED
      BY <1>5, <2>2, <2>3, <2>4, <3>3
  <2>5. CASE room = <<>>
    <3>1. room'[1].members = IF event.members = NoMembers THEN members ELSE event.members
      BY <1>2, <1>8, <2>5 DEF CreateRoom, BuildChatMemberList
    <3>2. members \in Nat
      BY ChatRoomsAssumption DEF TypeInv, Sizes
    <3>3. members \in sig[1].members .. members
      BY <1>5, <3>2
    <3> QED
      BY <2>2, <3>1, <3>3
  <2> QED
    BY <2>4, <2>5
<1> QED
  BY <1>5, <1>7, <1>8

(* An event that is lost leaves the names that wait. *)
LEMMA LostNames ==
    ASSUME TypeInv, NamesInv, HandlingFails
    PROVE  NamesInv' /\ MembersInv'
<1>1. UNCHANGED <<room, last, unsaved>> /\ missed' /\ queue # <<>> /\ queue' = Tail(queue)
  BY DEF HandlingFails, roomVars
<1>2. /\ \A i \in 1 .. Len(queue') : i + 1 \in 1 .. Len(queue) /\ queue'[i] = queue[i + 1]
      /\ \A i \in Int : i \in QueueNamed' <=> i >= 1 /\ i + 1 \in QueueNamed
      /\ \A i \in QueueNamed : i \in Nat /\ i >= 1
      /\ \A i \in QueueNamed' : i \in Nat /\ i >= 1
  BY <1>1, QueueTaken DEF TypeInv
<1>3. /\ \A i \in Latest(QueueNamed') : i + 1 \in Latest(QueueNamed)
      /\ QueueNamed' = {} <=> QueueNamed \subseteq {1}
  BY <1>2, LatestShifts
<1>4. \A i \in Latest(QueueNamed') : queue'[i].name = last'
  <2>1. \A i \in Latest(QueueNamed') : i \in 1 .. Len(queue')
    BY DEF Latest, QueueNamed
  <2> QED
    BY <1>1, <1>2, <1>3, <2>1 DEF NamesInv
<1>5. QueueNamed = {} => QueueNamed' = {}
  BY <1>3
<1>6. \A i \in 1 .. Len(queue') : IsName(queue'[i].name)
  BY <1>2 DEF NamesInv
<1>7. unsaved' \/ last' # NoName \/ (QueueNamed' = {} /\ (room' # <<>> => room'[1].name = NoName))
  BY <1>1, <1>5 DEF NamesInv
<1> QED
  BY <1>1, <1>4, <1>6, <1>7 DEF NamesInv, MembersInv

-----------------------------------------------------------------------------
(* Every step *)

LEMMA MissedStays ==
    ASSUME NEW name, ResolveUserDisplayName(name) \/ SyncGhostName(name) \/ NobodyAsked
    PROVE  missed => missed'
BY DEF ResolveUserDisplayName, SyncGhostName, NobodyAsked

LEMMA DiscoverPasses ==
    ASSUME TypeInv, Discover
    PROVE  Passing
<1>1. UNCHANGED <<shape, members, room>>
  BY DEF Discover, teamsVars, roomVars
<1>2. missed => missed'
  BY MissedStays DEF Discover
<1>3. PICK t : ProfileGrows /\ Found(t) /\ RefreshThreads(Plain(t))
  BY DiscoverRefreshes DEF TypeInv
<1>4. PICK name : name = ChooseStoredName(Plain(t), Stored)
  OBVIOUS
<1> DEFINE event == Resync(TRUE, name, BuildChatMemberList, FALSE)
<1>5. /\ event.name = name /\ event.create /\ event.members = BuildChatMemberList
      /\ Upsert(name) /\ AnnounceIfChanged(event)
  BY <1>3, <1>4 DEF RefreshThreads, Stored, Resync
<1>6. Known(name)' /\ Follows(name)
  BY <1>3, <1>4, ChosenFollows DEF TypeInv
<1>7. IsName(name) /\ (unsaved => unsaved')
  BY <1>5, <1>6 DEF Known, Upsert
<1>8. event \in Events
  <2>1. name[1] <= MaxChanges + 1
    BY <1>3, <1>6, <1>7, ChatRoomsAssumption DEF Known, IsName, TypeInv, Sizes, ProfileGrows
  <2>2. name \in Names
    BY <1>7, <2>1 DEF IsName, Names, Titles
  <2> QED
    BY <2>2, ResyncTyped, ListTyped DEF TypeInv
<1>9. CASE sig = <<event>>
  BY <1>1, <1>2, <1>5, <1>7, <1>9 DEF AnnounceIfChanged, AnnounceNothing, Passing, RoomKept
<1>10. CASE sig # <<event>>
  <2>1. Says(event)
    BY <1>1, <1>5, <1>7, <1>8, <1>10, ListTyped DEF AnnounceIfChanged, Says
  <2>2. unsaved \/ ~IsGenericChatName(name) \/ last = NoName
    BY <1>6, <1>7 DEF Follows, Forward, Back, IsGenericChatName, IsName, TypeInv, Inv, Told
  <2>3. Refreshes(event)
    BY <1>5, <1>7, <2>2 DEF AnnounceIfChanged, Refreshes
  <2> QED
    BY <1>1, <1>2, <1>7, <2>1, <2>3 DEF Passing, RoomKept
<1> QED
  BY <1>9, <1>10

LEMMA NamingPasses ==
    ASSUME TypeInv, NamingPass, UNCHANGED <<members, room>>, missed => missed'
    PROVE  Passing
<1>1. shape' = shape
  BY DEF NamingPass, ProfileGrows
<1>2. CASE NoRename
  BY <1>1, <1>2 DEF NoRename, AnnounceNothing, NamingPass, Passing, RoomKept
<1>3. ASSUME NEW name, RenamesTo(name)
      PROVE  Passing
  <2>1. PICK who \in {NoMembers, members}, parent \in BOOLEAN : Rename(name, who, parent)
    BY <1>3 DEF RenamesTo
  <2> DEFINE event == Resync(FALSE, name, who, parent)
  <2>2. event.name = name /\ event.members = who /\ Upsert(name) /\ Announce(event)
    BY <2>1 DEF Rename, Resync
  <2>3. IsName(name)
    BY <1>3 DEF RenamesTo, Known
  <2>4. name[1] <= MaxChanges + 1
    BY <1>3, <2>3, ChatRoomsAssumption DEF RenamesTo, Known, IsName, TypeInv, Sizes, NamingPass, ProfileGrows
  <2>5. name \in Names
    BY <2>3, <2>4 DEF IsName, Names, Titles
  <2>6. event \in Events
    BY <2>5, ResyncTyped DEF TypeInv
  <2>7. Says(event)
    BY <2>2, <2>3, <2>6 DEF Says
  <2>8. unsaved => unsaved'
    BY <2>2 DEF Upsert
  <2> QED
    BY <1>1, <2>7, <2>8 DEF NamingPass, Passing, RoomKept
<1> QED
  BY <1>2, <1>3 DEF NamingPass

LEMMA MoveKeeps ==
    ASSUME PlaceTypes, room # <<>>, NEW b \in BOOLEAN, room' = <<[room[1] EXCEPT !.inSpace = b]>>
    PROVE  RoomKept
<1>1. room[1] \in Rooms
  BY DEF PlaceTypes
<1> QED
  BY <1>1 DEF RoomKept, Rooms

LEMMA NoNameSaid ==
    ASSUME TypeInv, NEW create \in BOOLEAN, NEW parent \in BOOLEAN, NEW message \in BOOLEAN, NEW event,
           event = [create |-> create, name |-> NoName, members |-> NoMembers, parent |-> parent, message |-> message],
           Announce(event), UNCHANGED members
    PROVE  Says(event)
BY NoNameKnown, ChatRoomsAssumption DEF Says, Events, NoName, NoMembers, Names, Titles

LEMMA StepPasses ==
    ASSUME TypeInv, [Next]_vars, ~HandleEvent, ~HandlingFails, ~Restart
    PROVE  Passing
<1>1. CASE ResolveUnnamedGroupChats
  BY <1>1, UnnamedRenames, NamingPasses DEF ResolveUnnamedGroupChats, teamsVars, roomVars, TypeInv
<1>2. CASE SyncTeams
  <2>1. missed => missed'
    BY <1>2, MissedStays DEF SyncTeams, ApplyStructuredRoomNames
  <2> QED
    BY <1>2, <2>1, SyncTeamsRenames, NamingPasses DEF SyncTeams, teamsVars, TypeInv
<1>3. CASE SyncGhostNamesFromProfiles
  <2>1. missed => missed'
    BY <1>3, MissedStays DEF SyncGhostNamesFromProfiles
  <2>2. UNCHANGED <<queue, last, sig, unsaved, shape, members, room>>
    BY <1>3 DEF SyncGhostNamesFromProfiles, teamsVars, roomVars
  <2> QED
    BY <2>1, <2>2 DEF Passing, RoomKept
<1>4. CASE QueueUserMessage
  <2> DEFINE event == [create |-> TRUE, name |-> NoName, members |-> NoMembers, parent |-> FALSE, message |-> TRUE]
  <2>1. UNCHANGED <<sig, unsaved, shape, members, room>> /\ Announce(event)
    BY <1>4 DEF QueueUserMessage, teamsVars, roomVars
  <2>2. missed => missed'
    BY <1>4, MissedStays DEF QueueUserMessage
  <2>3. Says(event)
    BY <2>1, NoNameSaid
  <2> QED
    BY <2>1, <2>2, <2>3 DEF Passing, RoomKept
<1>5. CASE SyncChannelParents
  <2>1. UNCHANGED <<sig, unsaved, missed, shape, members>>
    BY <1>5 DEF SyncChannelParents, teamsVars
  <2>2. RoomKept
    <3>1. room' = room \/ (room # <<>> /\ room' = <<[room[1] EXCEPT !.inSpace = TRUE]>>)
      BY <1>5 DEF SyncChannelParents
    <3> QED
      BY <3>1, MoveKeeps DEF TypeInv, RoomKept
  <2>3. CASE AnnounceNothing
    BY <2>1, <2>2, <2>3 DEF Passing, AnnounceNothing
  <2>4. ASSUME NEW event, event = Resync(FALSE, NoName, NoMembers, TRUE), Announce(event)
        PROVE  Passing
    <3>1. Says(event)
      BY <2>1, <2>4, NoNameSaid DEF Resync
    <3> QED
      BY <2>1, <2>2, <3>1 DEF Passing
  <2> QED
    BY <1>5, <2>3, <2>4 DEF SyncChannelParents
<1>6. CASE RepairTeamSpaces
  <2>1. UNCHANGED <<queue, last, sig, unsaved, missed, shape, members>>
    BY <1>6 DEF RepairTeamSpaces, teamsVars, historyVars
  <2>2. room' = room \/ (room # <<>> /\ room' = <<[room[1] EXCEPT !.inSpace = FALSE]>>)
    BY <1>6 DEF RepairTeamSpaces
  <2>3. RoomKept
    BY <2>2, MoveKeeps DEF TypeInv, RoomKept
  <2> QED
    BY <2>1, <2>3 DEF Passing
<1>7. CASE \/ SyncOnceFails \/ AskName \/ GetUserInfo \/ RenamedInTeams \/ MembersChange \/ MissExpires
          \/ UNCHANGED vars
  <2>1. UNCHANGED <<queue, last, sig, unsaved, missed, shape, room>>
    BY <1>7 DEF SyncOnceFails, AskName, GetUserInfo, RenamedInTeams, MembersChange, MissExpires, vars,
                teamsVars, roomVars, historyVars
  <2>2. members' \in {members, members + 1}
    BY <1>7 DEF SyncOnceFails, AskName, GetUserInfo, RenamedInTeams, MembersChange, MissExpires, vars, teamsVars
  <2> QED
    BY <2>1, <2>2 DEF Passing, RoomKept
<1> QED
  BY <1>1, <1>2, <1>3, <1>4, <1>5, <1>6, <1>7, DiscoverPasses DEF Next

LEMMA RestartHeard ==
    ASSUME TypeInv, NamesInv, Restart
    PROVE  NamesInv' /\ MembersInv'
<1>1. UNCHANGED <<room, last, unsaved>> /\ sig' = <<>> /\ Len(queue') = 0
  BY DEF Restart, roomVars, historyVars
<1>2. QueueNamed' = {} /\ \A i \in 1 .. Len(queue') : FALSE
  BY <1>1 DEF QueueNamed
<1>3. Latest(QueueNamed') = {}
  BY <1>2 DEF Latest
<1> QED
  BY <1>1, <1>2, <1>3 DEF NamesInv, MembersInv

LEMMA HeardStep ==
    ASSUME TypeInv, NamesInv, MembersInv, [Next]_vars
    PROVE  NamesInv' /\ MembersInv'
BY PassingHeard, StepPasses, RestartHeard, LostNames, TakenNames, TakenMembers

-----------------------------------------------------------------------------
(* The ghost of a DM's other person *)

(* What is asked for is the name the profile has, if it has one, and the     *)
(* ghost has that, once the names of the ghosts were brought up to date at   *)
(* Connect.                                                                  *)
GhostInv ==
    /\ asking # <<>> => ghost # <<>>
    /\ sig # <<>> => pc # "connect"
    /\ missed \/
          /\ profile = 0 \/ asking \in {<<>>, <<profile>>}
          /\ pc = "connect" \/ asking # <<>> \/ ghost = <<>> \/ profile = 0 \/ ghost = <<profile>>

(* A ghost that is renamed to what the profile has then, while its name is   *)
(* not asked for or the answer is the new name, has it.                      *)
LEMMA NamedGhost ==
    ASSUME PersonTypes, NEW name, name # 0, ghost # <<>>, SyncGhostName(name), UNCHANGED asking
    PROVE  /\ ghost' = <<name>> /\ (missed => missed')
           /\ missed' \/ (profile' \in {0, name} /\ asking' \in {<<>>, <<name>>})
<1>1. ghost' = <<name>> /\ missed' = (missed \/ profile' \notin {0, name} \/ asking \notin {<<>>, <<name>>})
  BY DEF SyncGhostName
<1>2. missed \in BOOLEAN
  BY DEF PersonTypes
<1> QED
  BY <1>1, <1>2

LEMMA ResolvedGhost ==
    ASSUME PersonTypes, GhostInv, NEW name \in Titles, ResolveUserDisplayName(name)
    PROVE  /\ asking' = asking /\ (ghost = <<>> <=> ghost' = <<>>)
           /\ missed' \/ /\ profile' = 0 \/ asking' \in {<<>>, <<profile'>>}
                         /\ asking' # <<>> \/ ghost' = <<>> \/ profile' = 0
                               \/ (profile' = profile /\ ghost' = ghost) \/ ghost' = <<profile'>>
<1>1. asking' = asking
  BY DEF ResolveUserDisplayName
<1>2. CASE profile # 0 \/ name = 0
  <2>1. UNCHANGED <<profile, ghost, missed>>
    BY <1>2 DEF ResolveUserDisplayName, LookupUserDisplayName, SaveProfile, SyncGhostName
  <2> QED
    BY <1>1, <2>1 DEF GhostInv
<1>3. CASE profile = 0 /\ name # 0
  <2>1. profile' \in {0, name} /\ SyncGhostName(name)
    BY <1>3 DEF ResolveUserDisplayName, LookupUserDisplayName, SaveProfile
  <2>2. CASE ghost = <<>>
    BY <1>1, <2>1, <2>2 DEF SyncGhostName, GhostInv
  <2>3. CASE ghost # <<>>
    <3>1. ghost' = <<name>> /\ (missed' \/ asking' \in {<<>>, <<name>>})
      BY <1>1, <1>3, <2>1, <2>3, NamedGhost
    <3> QED
      BY <1>1, <2>1, <2>3, <3>1
  <2> QED
    BY <2>2, <2>3
<1> QED
  BY <1>2, <1>3

LEMMA GhostStep ==
    ASSUME TypeInv, GhostInv, [Next]_vars
    PROVE  GhostInv'
<1> USE DEF TypeInv, Inv
<1>1. CASE SyncGhostNamesFromProfiles
  <2>1. pc' = "seed" /\ sig' = sig
    BY <1>1 DEF SyncGhostNamesFromProfiles
  <2>2. CASE ghost # <<>> /\ profile # 0 /\ SyncGhostName(profile) /\ UNCHANGED <<profile, asking>>
    <3>1. ghost' = <<profile>> /\ (missed' \/ asking' \in {<<>>, <<profile>>})
      BY <2>2, NamedGhost
    <3> QED
      BY <2>1, <2>2, <3>1 DEF GhostInv
  <2>3. ASSUME profile = 0, NEW name \in Titles, ResolveUserDisplayName(name)
        PROVE  GhostInv'
    BY <2>1, <2>3, ResolvedGhost DEF GhostInv
  <2>4. CASE (ghost = <<>> \/ (profile = 0 /\ ghost # <<0>>)) /\ NobodyAsked
    BY <2>1, <2>4 DEF GhostInv, NobodyAsked, personVars
  <2> QED
    BY <1>1, <2>2, <2>3, <2>4 DEF SyncGhostNamesFromProfiles
<1>2. CASE Discover \/ SyncTeams
  <2>1. pc # "connect" /\ pc' # "connect"
    BY <1>2 DEF Discover, SyncTeams
  <2>2. CASE NobodyAsked
    BY <2>1, <2>2 DEF GhostInv, NobodyAsked, personVars
  <2>3. ASSUME NEW name \in Titles, ResolveUserDisplayName(name)
        PROVE  GhostInv'
    <3>1. /\ asking' = asking /\ (ghost = <<>> <=> ghost' = <<>>)
          /\ missed' \/ /\ profile' = 0 \/ asking' \in {<<>>, <<profile'>>}
                        /\ asking' # <<>> \/ ghost' = <<>> \/ profile' = 0
                              \/ (profile' = profile /\ ghost' = ghost) \/ ghost' = <<profile'>>
      BY <2>3, ResolvedGhost
    <3>2. missed => missed'
      BY <2>3, MissedStays
    <3> QED
      BY <2>1, <3>1, <3>2 DEF GhostInv
  <2> QED
    BY <1>2, <2>2, <2>3 DEF Discover, SyncTeams, ApplyStructuredRoomNames
<1>3. CASE QueueUserMessage
  <2>1. UNCHANGED <<pc, sig, asking>>
    BY <1>3 DEF QueueUserMessage
  <2>2. CASE UNCHANGED <<profile, ghost, missed>>
    BY <2>1, <2>2 DEF GhostInv
  <2>3. ASSUME NEW name \in FormerNames, SaveProfile(name), SyncGhostName(name)
        PROVE  GhostInv'
    <3>1. CASE name = 0
      BY <2>1, <2>3, <3>1 DEF GhostInv, SaveProfile, SyncGhostName
    <3>2. CASE name # 0 /\ ghost = <<>>
      BY <2>1, <2>3, <3>2 DEF GhostInv, SyncGhostName
    <3>3. CASE name # 0 /\ ghost # <<>>
      <4>1. /\ ghost' = <<name>>
            /\ missed' \/ (profile' \in {0, name} /\ asking' \in {<<>>, <<name>>})
        BY <2>1, <2>3, <3>3, NamedGhost
      <4> QED
        BY <2>1, <3>3, <4>1 DEF GhostInv
    <3> QED
      BY <3>1, <3>2, <3>3
  <2> QED
    BY <1>3, <2>2, <2>3 DEF QueueUserMessage
<1>4. CASE AskName
  <2>1. UNCHANGED <<pc, sig, missed>> /\ ghost' = <<0>>
    BY <1>4 DEF AskName, historyVars
  <2>2. PICK name \in Titles : LookupUserDisplayName(name) /\ asking' = <<name>>
    BY <1>4 DEF AskName
  <2>3. profile' \in {0, name}
    BY <2>2 DEF LookupUserDisplayName, SaveProfile
  <2> QED
    BY <2>1, <2>2, <2>3 DEF GhostInv
<1>5. CASE GetUserInfo
  BY <1>5 DEF GetUserInfo, GhostInv, historyVars
<1>6. CASE Restart
  BY <1>6 DEF Restart, GhostInv, historyVars
<1>7. CASE \/ SyncOnceFails \/ ResolveUnnamedGroupChats \/ RepairTeamSpaces \/ SyncChannelParents \/ HandleEvent
          \/ HandlingFails \/ RenamedInTeams \/ MembersChange \/ MissExpires \/ UNCHANGED vars
  <2>1. UNCHANGED <<sig, profile, ghost, asking>>
    BY <1>7 DEF SyncOnceFails, ResolveUnnamedGroupChats, RepairTeamSpaces, SyncChannelParents, HandleEvent,
                HandlingFails, RenamedInTeams, MembersChange, MissExpires, vars, personVars
  <2>1a. missed => missed'
    BY <1>7 DEF SyncOnceFails, ResolveUnnamedGroupChats, RepairTeamSpaces, SyncChannelParents, HandleEvent,
                HandlingFails, RenamedInTeams, MembersChange, MissExpires, vars, historyVars
  <2>2. pc' = pc \/ (pc # "connect" /\ pc' # "connect")
    BY <1>7 DEF SyncOnceFails, ResolveUnnamedGroupChats, RepairTeamSpaces, SyncChannelParents, HandleEvent,
                HandlingFails, RenamedInTeams, MembersChange, MissExpires, vars
  <2> QED
    BY <2>1, <2>1a, <2>2 DEF GhostInv
<1> QED
  BY <1>1, <1>2, <1>3, <1>4, <1>5, <1>6, <1>7 DEF Next

-----------------------------------------------------------------------------
(* What a chat that was discovered has come to once nothing waits for its    *)
(* portal and no name is being asked for: a room with the name that is       *)
(* stored, with the members of the last announcement or later ones (who      *)
(* joined since is only missing until the next pass), and a ghost with the   *)
(* name the profile has.                                                     *)
RoomAtRest ==
    (~missed /\ sig # <<>> /\ queue = <<>> /\ asking = <<>>) =>
       /\ room # <<>>
       /\ ~unsaved => room[1].name = Stored
       /\ shape.listed => room[1].members \in sig[1].members .. members
       /\ ghost # <<>> /\ profile # 0 => ghost = <<profile>>

LEMMA AtRest ==
    ASSUME TypeInv, NamesInv, MembersInv, GhostInv
    PROVE  RoomAtRest
<1> SUFFICES ASSUME ~missed, sig # <<>>, queue = <<>>, asking = <<>>
             PROVE  /\ room # <<>>
                    /\ ~unsaved => room[1].name = Stored
                    /\ shape.listed => room[1].members \in sig[1].members .. members
                    /\ ghost # <<>> /\ profile # 0 => ghost = <<profile>>
  BY DEF RoomAtRest
<1>1. QueueNamed = {} /\ QueuePeopled = {} /\ QueueCreates = {}
  <2>1. Len(queue) = 0
    OBVIOUS
  <2> QED
    BY <2>1 DEF QueueNamed, QueuePeopled, QueueCreates
<1>2. room # <<>>
  BY <1>1 DEF NamesInv
<1>3. ~unsaved => room[1].name = Stored
  BY <1>1, <1>2 DEF NamesInv, TypeInv, Inv, Told
<1>4. shape.listed => room[1].members \in sig[1].members .. members
  BY <1>1, <1>2 DEF MembersInv
<1>5. ghost # <<>> /\ profile # 0 => ghost = <<profile>>
  BY DEF GhostInv
<1> QED
  BY <1>2, <1>3, <1>4, <1>5

RoomInv == TypeInv /\ NamesInv /\ MembersInv /\ GhostInv

(* The portal's queue works off what discovery and the naming passes tell it *)
(* in any order with them, with messages and restarts between, and the room  *)
(* ends with what was stored and announced (refreshThreads, chatInfoChanged, *)
(* applyStructuredRoomNames, GetChatInfo, GetUserInfo, syncGhostName), as    *)
(* long as no event of the room failed and no ghost was renamed while its    *)
(* name was asked for or its profile could not be saved.                     *)
THEOREM RoomSettles == Spec => []RoomAtRest
<1>1. Init => RoomInv
  <2> SUFFICES ASSUME Init
               PROVE  RoomInv
    OBVIOUS
  <2>1. TypeInv
    BY TypesStart
  <2>2. /\ Len(queue) = 0 /\ room = <<>> /\ sig = <<>> /\ asking = <<>> /\ pc = "connect" /\ ghost = <<>>
    BY DEF Init
  <2>3. QueueNamed = {} /\ \A i \in 1 .. Len(queue) : FALSE
    BY <2>2 DEF QueueNamed
  <2>4. Latest(QueueNamed) = {}
    BY <2>3 DEF Latest
  <2>5. NamesInv /\ MembersInv /\ GhostInv
    BY <2>2, <2>3, <2>4 DEF NamesInv, MembersInv, GhostInv
  <2> QED
    BY <2>1, <2>5 DEF RoomInv
<1>2. RoomInv /\ [Next]_vars => RoomInv'
  BY TypesStep, HeardStep, GhostStep DEF RoomInv
<1>3. RoomInv => RoomAtRest
  BY AtRest DEF RoomInv
<1> QED
  BY <1>1, <1>2, <1>3, PTL DEF Spec

-----------------------------------------------------------------------------
(* The team's space *)

(* A room is only in a space that there is, and it has the team for parent.  *)
InTheSpace == room # <<>> /\ room[1].inSpace => room[1].parent /\ space # "none"

LEMMA SpaceStep ==
    ASSUME TypeInv, InTheSpace, [Next]_vars
    PROVE  InTheSpace'
<1>1. room # <<>> => room[1] \in Rooms
  BY DEF TypeInv, PlaceTypes
<1>2. CASE RepairTeamSpaces
  <2>1. CASE room # <<>> /\ room' = <<[room[1] EXCEPT !.inSpace = FALSE]>>
    <3>1. ~room'[1].inSpace
      BY <1>1, <2>1 DEF Rooms
    <3> QED
      BY <3>1 DEF InTheSpace
  <2>2. CASE room' = <<>> \/ UNCHANGED <<space, room>>
    BY <2>2 DEF InTheSpace
  <2> QED
    BY <1>2, <2>1, <2>2 DEF RepairTeamSpaces
<1>3. CASE SyncChannelParents
  <2>1. CASE UNCHANGED <<room, space>>
    BY <2>1 DEF InTheSpace
  <2>2. CASE /\ room # <<>> /\ room[1].parent
             /\ room' = <<[room[1] EXCEPT !.inSpace = TRUE]>> /\ space' = MakeSpace
    <3>1. room'[1].parent = room[1].parent
      BY <1>1, <2>2 DEF Rooms
    <3> QED
      BY <2>2, <3>1 DEF InTheSpace, MakeSpace
  <2> QED
    BY <1>3, <2>1, <2>2 DEF SyncChannelParents
<1>4. CASE HandleEvent
  <2>1. PICK event \in Events : event = Head(queue)
    BY <1>4, QueueTaken DEF HandleEvent, TypeInv
  <2>2. /\ room' = IF room # <<>> THEN <<UpdateRoom(event)>>
                   ELSE IF event.create THEN <<CreateRoom(event)>> ELSE <<>>
        /\ space' = IF event.parent /\ room # <<>> THEN MakeSpace ELSE space
    BY <1>4, <2>1 DEF HandleEvent
  <2>3. CASE room = <<>>
    BY <2>2, <2>3 DEF CreateRoom, InTheSpace
  <2>4. CASE room # <<>>
    <3>1. PICK r \in Rooms : r = room[1]
      BY <1>1, <2>4
    <3>2. room'[1].inSpace = (r.inSpace \/ event.parent) /\ room'[1].parent = (r.parent \/ event.parent)
      BY <2>2, <2>4, <3>1 DEF UpdateRoom, Rooms
    <3> QED
      BY <2>2, <2>4, <3>1, <3>2 DEF InTheSpace, MakeSpace
  <2> QED
    BY <2>3, <2>4
<1>5. CASE ~RepairTeamSpaces /\ ~SyncChannelParents /\ ~HandleEvent
  <2>1. room' = room
    BY <1>5 DEF Next, SyncGhostNamesFromProfiles, Discover, SyncOnceFails, ResolveUnnamedGroupChats, SyncTeams,
         QueueUserMessage, HandlingFails, AskName, GetUserInfo, RenamedInTeams, MembersChange, MissExpires,
         Restart, vars, roomVars
  <2>2. space' = space \/ (SyncTeams /\ space' = MakeSpace)
    BY <1>5 DEF Next, SyncGhostNamesFromProfiles, Discover, SyncOnceFails, ResolveUnnamedGroupChats, SyncTeams,
         QueueUserMessage, HandlingFails, AskName, GetUserInfo, RenamedInTeams, MembersChange, MissExpires,
         Restart, vars, roomVars, SyncTeamSpaces
  <2>3. space # "none" => space' # "none"
    BY <2>2 DEF MakeSpace
  <2> QED
    BY <2>1, <2>3 DEF InTheSpace
<1> QED
  BY <1>2, <1>3, <1>4, <1>5

(* A channel's room is never in a space that is gone or was never made, also *)
(* after the repair of a team's room that is no space, or a restart between  *)
(* the repair and the pass that puts the channels back (repairTeamSpaces,    *)
(* syncChannelParents).                                                      *)
THEOREM NeverInALostSpace == Spec => []InTheSpace
<1>1. Init => TypeInv /\ InTheSpace
  BY TypesStart DEF Init, InTheSpace
<1>2. TypeInv /\ InTheSpace /\ [Next]_vars => (TypeInv /\ InTheSpace)'
  BY TypesStep, SpaceStep
<1> QED
  BY <1>1, <1>2, PTL DEF Spec

=============================================================================
