--------------------------- MODULE InPlaceSyncProofs ---------------------------
(***************************************************************************)
(* Theorems about InPlaceSync: its state is well typed, a message whose    *)
(* delete was bridged stays deleted, and what the poller remembers as seen *)
(* is bridged once nothing waits, for any users, changes and restarts.     *)
(*                                                                         *)
(* A restart may have the message polled as new again, so the argument is  *)
(* about what may wait in the portal's queue: no event for the message     *)
(* follows its delete there, and one queued after the delete was bridged   *)
(* says that it is deleted.  What is seen is bridged or the last of its    *)
(* kind that waits there.                                                  *)
(***************************************************************************)
EXTENDS InPlaceSync, TLAPS

LEMMA TimeFacts ==
    /\ Time \subseteq Nat /\ 0 \in Time /\ Deleted \in 0 .. MaxTime + 1
    /\ \A t \in Time : t \in 0 .. MaxTime + 1
    /\ \A t \in Time : t < MaxTime => t + 1 \in Time
BY ConstantsAssumption DEF Time, Deleted

LEMMA PostedTyped == Posted \in Message
BY TimeFacts DEF Posted, Message

LEMMA SignatureTyped ==
    ASSUME NEW m \in Message
    PROVE  Signature(m) \in 0 .. MaxTime + 1
BY TimeFacts DEF Signature, Message

LEMMA QueueTyped ==
    ASSUME portalq \in Seq(Event), NEW m \in Message,
           NEW type \in {"message", "edit", "delete", "reactions"}, Queue(type, m)
    PROVE  portalq' \in Seq(Event)
<1>1. [type |-> type, msg |-> m] \in Event
  BY DEF Event
<1> QED
  BY <1>1 DEF Queue

LEMMA TypeStart ==
    ASSUME Init
    PROVE  TypeOK
<1>1. reactionSigs \subseteq [User -> Time] /\ portalq \in Seq(Event) /\ reacted \subseteq User
  BY DEF Init
<1>2. poll \in [pc : {"idle", "message", "reactions", "change", "advance"}, msg : Message]
  BY PostedTyped DEF Init, Idle
<1>3. part \in [there : BOOLEAN, edit : Time] /\ editTimes \in 0 .. MaxTime + 1
  BY TimeFacts, ConstantsAssumption DEF Init, NotBridged
<1>4. now \in Time /\ restarts \in 0 .. MaxRestarts
  BY TimeFacts, ConstantsAssumption DEF Init
<1>5. /\ teams \in Message /\ overlooked \subseteq {"change", "reactions"}
      /\ passed \in BOOLEAN /\ saved \in BOOLEAN /\ reactionSeen \in BOOLEAN
      /\ removed \in BOOLEAN /\ asked \in BOOLEAN
  BY PostedTyped DEF Init
<1> QED
  BY <1>1, <1>2, <1>3, <1>4, <1>5 DEF TypeOK

LEMMA ChangedTyped ==
    ASSUME TypeOK, NEW m \in Message, Changed(m),
           asked' \in BOOLEAN, overlooked' \subseteq {"change", "reactions"}
    PROVE  TypeOK'
BY TimeFacts DEF Changed, TypeOK, memory, database

LEMMA ChangeTyped ==
    ASSUME TypeOK, NEW m \in Message, Change(m)
    PROVE  TypeOK'
BY ChangedTyped DEF Change, TypeOK

LEMMA EditTyped ==
    ASSUME TypeOK, Edit
    PROVE  TypeOK'
<1>1. now < MaxTime /\ Change([teams EXCEPT !.edit = now + 1])
  BY DEF Edit, Change, Changed
<1>2. [teams EXCEPT !.edit = now + 1] \in Message
  BY <1>1, TimeFacts DEF TypeOK, Message
<1> QED
  BY <1>1, <1>2, ChangeTyped

LEMMA DeleteTyped ==
    ASSUME TypeOK, Delete
    PROVE  TypeOK'
<1>1. [teams EXCEPT !.deleted = TRUE] \in Message
  BY DEF TypeOK, Message
<1> QED
  BY <1>1, ChangeTyped DEF Delete

LEMMA UnreactTyped ==
    ASSUME TypeOK, NEW u \in User, Unreact(u)
    PROVE  TypeOK'
<1>1. [teams EXCEPT !.reactions[u] = 0] \in Message
  BY TimeFacts DEF TypeOK, Message
<1>2. Changed([teams EXCEPT !.reactions[u] = 0]) /\ asked' = asked
  BY DEF Unreact
<1>3. overlooked' \subseteq {"change", "reactions"}
  BY DEF Unreact, TypeOK
<1> QED
  BY <1>1, <1>2, <1>3, ChangedTyped DEF TypeOK

\* A reaction, made on Teams or on Matrix.
LEMMA ReactionTyped ==
    ASSUME TypeOK, NEW u \in User, now < MaxTime
    PROVE  [teams EXCEPT !.reactions[u] = now + 1] \in Message
BY TimeFacts DEF TypeOK, Message

LEMMA MatrixTyped ==
    ASSUME TypeOK, Matrix
    PROVE  TypeOK'
<1>1. CASE HandleMatrixEdit
  BY <1>1, EditTyped DEF HandleMatrixEdit
<1>2. CASE HandleMatrixMessageRemove
  BY <1>2, DeleteTyped DEF HandleMatrixMessageRemove
<1>3. CASE HandleMatrixReactionRemove
  BY <1>3, UnreactTyped, ConstantsAssumption DEF HandleMatrixReactionRemove
<1>4. CASE HandleMatrixReaction
  <2>1. now < MaxTime /\ Changed([teams EXCEPT !.reactions[Self] = now + 1])
    BY <1>4 DEF HandleMatrixReaction, Changed
  <2>2. [teams EXCEPT !.reactions[Self] = now + 1] \in Message
    BY <2>1, ReactionTyped, ConstantsAssumption
  <2>3. asked' \in BOOLEAN /\ overlooked' \subseteq {"change", "reactions"}
    BY <1>4 DEF HandleMatrixReaction, TypeOK
  <2> QED
    BY <2>1, <2>2, <2>3, ChangedTyped
<1>5. CASE AddReaction
  BY <1>5, ConstantsAssumption DEF AddReaction, TypeOK, memory
<1> QED
  BY <1>1, <1>2, <1>3, <1>4, <1>5 DEF Matrix

LEMMA SyncReactionsTyped ==
    ASSUME TypeOK, SyncReactions
    PROVE  TypeOK'
<1>1. poll.msg \in Message
  BY DEF TypeOK
<1>2. poll' \in [pc : {"idle", "message", "reactions", "change", "advance"}, msg : Message]
  BY DEF SyncReactions, TypeOK
<1>3. reactionSigs' \subseteq [User -> Time]
  BY <1>1 DEF SyncReactions, Message
<1>4. portalq' \in Seq(Event)
  <2>1. Queue("reactions", poll.msg) \/ portalq' = portalq
    BY DEF SyncReactions
  <2> QED
    BY <1>1, <2>1, QueueTyped DEF TypeOK
<1>5. reactionSeen' \in BOOLEAN /\ overlooked' \subseteq {"change", "reactions"}
  BY DEF SyncReactions, TypeOK
<1>6. UNCHANGED <<now, teams, passed, editTimes, database, asked, restarts, removed>>
  BY DEF SyncReactions
<1> QED
  BY <1>2, <1>3, <1>4, <1>5, <1>6 DEF TypeOK, database

LEMMA SyncChangeTyped ==
    ASSUME TypeOK, SyncChange
    PROVE  TypeOK'
<1>1. poll.msg \in Message
  BY DEF TypeOK
<1>2. poll' \in [pc : {"idle", "message", "reactions", "change", "advance"}, msg : Message]
  BY PostedTyped DEF SyncChange, Idle
<1>3. editTimes' \in 0 .. MaxTime + 1
  BY <1>1, SignatureTyped DEF SyncChange
<1>4. portalq' \in Seq(Event)
  <2>1. Queue("delete", poll.msg) \/ Queue("edit", poll.msg) \/ portalq' = portalq
    BY DEF SyncChange
  <2> QED
    BY <1>1, <2>1, QueueTyped DEF TypeOK
<1>5. overlooked' \subseteq {"change", "reactions"}
  BY DEF SyncChange, TypeOK
<1>6. UNCHANGED <<now, teams, passed, reactionSigs, reactionSeen, database, asked, restarts, removed>>
  BY DEF SyncChange
<1> QED
  BY <1>2, <1>3, <1>4, <1>5, <1>6 DEF TypeOK, database

LEMMA HandleTyped ==
    ASSUME TypeOK, Handle
    PROVE  TypeOK'
<1>1. Head(portalq) \in Event /\ portalq' \in Seq(Event)
  BY DEF TypeOK, Handle
<1>2. Head(portalq).msg \in Message
  BY <1>1 DEF Event
<1>3. Head(portalq).msg.edit \in Time
  BY <1>2 DEF Message
<1>4. part' \in [there : BOOLEAN, edit : Time]
  <2> DEFINE e == Head(portalq)
  <2>1. [there |-> TRUE, edit |-> e.msg.edit] \in [there : BOOLEAN, edit : Time]
    BY <1>3
  <2>2. [part EXCEPT !.edit = e.msg.edit] \in [there : BOOLEAN, edit : Time]
    BY <1>3 DEF TypeOK
  <2>3. NotBridged \in [there : BOOLEAN, edit : Time]
    BY TimeFacts DEF NotBridged
  <2>4. part' \in {part, NotBridged, [there |-> TRUE, edit |-> e.msg.edit],
                   [part EXCEPT !.edit = e.msg.edit]}
    BY DEF Handle
  <2> QED
    BY <2>1, <2>2, <2>3, <2>4 DEF TypeOK
<1>5. reacted' \subseteq User /\ removed' \in BOOLEAN
  BY DEF TypeOK, Handle, Reactors
<1>6. UNCHANGED <<now, teams, memory, saved, asked, restarts, overlooked>>
  BY DEF Handle
<1> QED
  BY <1>1, <1>4, <1>5, <1>6 DEF TypeOK, memory

LEMMA TypeStep ==
    ASSUME TypeOK, [Next]_vars
    PROVE  TypeOK'
<1>1. CASE Teams
  <2>1. ASSUME NEW u \in User, React(u)
        PROVE  TypeOK'
    <3>1. now < MaxTime /\ Change([teams EXCEPT !.reactions[u] = now + 1])
      BY <2>1 DEF React, Change, Changed
    <3> QED
      BY <3>1, ReactionTyped, ChangeTyped
  <2> QED
    BY <1>1, <2>1, EditTyped, DeleteTyped, UnreactTyped DEF Teams
<1>2. CASE Fetch
  BY <1>2 DEF Fetch, TypeOK, database
<1>3. CASE QueueMessage
  <2>1. poll.msg \in Message
    BY DEF TypeOK
  <2>2. portalq' \in Seq(Event)
    BY <1>3, <2>1, QueueTyped DEF QueueMessage, TypeOK
  <2> QED
    BY <1>3, <2>2 DEF QueueMessage, TypeOK, database
<1>4. CASE SyncReactions
  BY <1>4, SyncReactionsTyped
<1>5. CASE SkipChange
  BY <1>5, PostedTyped DEF SkipChange, Idle, TypeOK, database
<1>6. CASE SyncChange
  BY <1>6, SyncChangeTyped
<1>7. CASE ChangeLookupFails
  <2>1. editTimes' \in 0 .. MaxTime + 1
    BY <1>7, ConstantsAssumption DEF ChangeLookupFails, Forget
  <2> QED
    BY <1>7, <2>1, PostedTyped DEF ChangeLookupFails, Idle, TypeOK, database
<1>8. CASE Advance
  BY <1>8, PostedTyped DEF Advance, Idle, TypeOK, database
<1>9. CASE Handle
  BY <1>9, HandleTyped
<1>10. CASE SaveCursor
  BY <1>10 DEF SaveCursor, TypeOK, memory
<1>11. CASE Restart
  <2>1. restarts' \in 0 .. MaxRestarts /\ editTimes' \in 0 .. MaxTime + 1
    BY <1>11, ConstantsAssumption DEF Restart, TypeOK
  <2>2. reactionSigs' \subseteq [User -> Time] /\ portalq' \in Seq(Event)
    BY <1>11 DEF Restart
  <2> QED
    BY <1>11, <2>1, <2>2, PostedTyped DEF Restart, Idle, TypeOK, database
<1>12. CASE Matrix
  BY <1>12, MatrixTyped
<1>13. CASE UNCHANGED vars
  BY <1>13 DEF vars, TypeOK, memory, database
<1> QED
  BY <1>1, <1>2, <1>3, <1>4, <1>5, <1>6, <1>7, <1>8, <1>9, <1>10, <1>11, <1>12, <1>13
     DEF Next, Poll

\* The poller's memory, the queue and the database hold what they may, for any
\* users, changes and restarts (messageStateChanged, queueReactionSyncForMessage).
THEOREM TypeCorrect == Spec => []TypeOK
<1>1. Init => TypeOK
  BY TypeStart
<1>2. TypeOK /\ [Next]_vars => TypeOK'
  BY TypeStep
<1> QED
  BY <1>1, <1>2, PTL DEF Spec

-----------------------------------------------------------------------------
(* A bridged delete is final *)

\* Where the poller is: a new message before its position moves on, an older one
\* after.
PlaceInv ==
    /\ poll.pc \in {"message", "advance"} => ~passed
    /\ poll.pc = "change" => passed

\* Teams never takes a delete back, so whatever says "deleted" is still right.
DeletedInv ==
    /\ poll.msg.deleted => teams.deleted
    /\ \A i \in 1 .. Len(portalq) : portalq[i].type = "delete" => teams.deleted

\* A delete is queued only for an older message, and no event for the message
\* itself comes after it.
OrderInv ==
    \A i \in 1 .. Len(portalq) : portalq[i].type = "delete" =>
        /\ passed
        /\ \A j \in i + 1 .. Len(portalq) : portalq[j].type # "message"

\* Once the delete is bridged, an event for the message, or a poll about to queue
\* one, shows it deleted.
RemovedInv ==
    removed =>
        /\ ~part.there /\ teams.deleted
        /\ poll.pc = "message" => poll.msg.deleted
        /\ \A i \in 1 .. Len(portalq) : portalq[i].type = "message" => portalq[i].msg.deleted

DeleteInv == TypeOK /\ PlaceInv /\ DeletedInv /\ OrderInv /\ RemovedInv

LEMMA DeleteStart ==
    ASSUME Init
    PROVE  DeleteInv
<1>1. TypeOK
  BY TypeStart
<1>2. /\ poll.pc = "idle" /\ ~poll.msg.deleted /\ ~removed
      /\ \A i \in 1 .. Len(portalq) : FALSE
  BY DEF Init, Idle, Posted
<1> QED
  BY <1>1, <1>2 DEF DeleteInv, PlaceInv, DeletedInv, OrderInv, RemovedInv

LEMMA Appended ==
    ASSUME portalq \in Seq(Event), NEW m, NEW type, Queue(type, m)
    PROVE  /\ Len(portalq) \in Nat /\ Len(portalq') = Len(portalq) + 1
           /\ \A i \in 1 .. Len(portalq) : portalq'[i] = portalq[i]
           /\ portalq'[Len(portalq) + 1].type = type
           /\ portalq'[Len(portalq) + 1].msg = m
BY DEF Queue

\* An event that is neither the message's nor its delete changes nothing here.
LEMMA OtherQueued ==
    ASSUME DeleteInv, NEW m, NEW type, type \notin {"message", "delete"}, Queue(type, m),
           passed' = passed, teams' = teams, removed' = removed, part' = part,
           poll'.msg = poll.msg, poll'.pc # "message"
    PROVE  /\ OrderInv' /\ RemovedInv'
           /\ \A i \in 1 .. Len(portalq') : portalq'[i].type = "delete" => teams'.deleted
<1>1. portalq \in Seq(Event)
  BY DEF DeleteInv, TypeOK
<1>2. /\ Len(portalq) \in Nat /\ Len(portalq') = Len(portalq) + 1
      /\ \A i \in 1 .. Len(portalq) : portalq'[i] = portalq[i]
      /\ portalq'[Len(portalq) + 1].type = type
  BY <1>1, Appended
<1>3. \A i \in 1 .. Len(portalq') : i \in 1 .. Len(portalq) \/ portalq'[i].type = type
  BY <1>2
<1>4. OrderInv'
  BY <1>2, <1>3 DEF DeleteInv, OrderInv
<1>5. RemovedInv'
  BY <1>2, <1>3 DEF DeleteInv, RemovedInv
<1>6. \A i \in 1 .. Len(portalq') : portalq'[i].type = "delete" => teams'.deleted
  BY <1>2, <1>3 DEF DeleteInv, DeletedInv
<1> QED
  BY <1>4, <1>5, <1>6

\* A change on Teams, by whomever, leaves the delete where it is.
LEMMA ChangedDelete ==
    ASSUME DeleteInv, NEW m, Changed(m), TypeOK'
    PROVE  DeleteInv'
BY DEF DeleteInv, Changed, memory, database, PlaceInv, DeletedInv, OrderInv, RemovedInv

LEMMA TeamsChange ==
    ASSUME \/ Edit \/ Delete \/ \E u \in User : React(u) \/ Unreact(u)
    PROVE  \E m : Changed(m)
BY DEF Edit, Delete, React, Unreact, Change

LEMMA DeleteStep ==
    ASSUME DeleteInv, [Next]_vars
    PROVE  DeleteInv'
<1> USE DEF DeleteInv
<1>0. TypeOK'
  BY TypeStep
<1>1. CASE Teams
  BY <1>0, <1>1, TeamsChange, ChangedDelete DEF Teams
<1>2. CASE Fetch
  <2>1. poll'.msg = teams /\ poll'.pc = IF passed THEN "reactions" ELSE "message"
    BY <1>2 DEF Fetch
  <2> QED
    BY <1>0, <1>2, <2>1 DEF Fetch, database, PlaceInv, DeletedInv, OrderInv, RemovedInv
<1>3. CASE QueueMessage
  <2>1. poll'.pc = "reactions" /\ poll'.msg = poll.msg /\ poll.pc = "message"
    BY <1>3 DEF QueueMessage, TypeOK
  <2>2. /\ Len(portalq) \in Nat /\ Len(portalq') = Len(portalq) + 1
        /\ \A i \in 1 .. Len(portalq) : portalq'[i] = portalq[i]
        /\ portalq'[Len(portalq) + 1].type = "message"
        /\ portalq'[Len(portalq) + 1].msg = poll.msg
    BY <1>3, Appended DEF QueueMessage, TypeOK
  <2>3. \A i \in 1 .. Len(portalq') : i \in 1 .. Len(portalq) \/ i = Len(portalq) + 1
    BY <2>2
  <2>4. ~passed
    BY <2>1 DEF PlaceInv
  <2>5. \A i \in 1 .. Len(portalq') : portalq'[i].type # "delete"
    BY <2>2, <2>3, <2>4 DEF OrderInv
  <2>6. UNCHANGED <<teams, passed, part, removed>>
    BY <1>3 DEF QueueMessage, database
  <2>7. RemovedInv'
    BY <2>1, <2>2, <2>3, <2>6 DEF RemovedInv
  <2> QED
    BY <1>0, <2>1, <2>5, <2>6, <2>7 DEF PlaceInv, DeletedInv, OrderInv
<1>4. CASE SyncReactions
  <2>1. poll'.msg = poll.msg /\ poll'.pc = IF passed THEN "change" ELSE "advance"
    BY <1>4 DEF SyncReactions, TypeOK
  <2>2. UNCHANGED <<teams, passed, part, removed>>
    BY <1>4 DEF SyncReactions, database
  <2>3. CASE Queue("reactions", poll.msg)
    BY <1>0, <2>1, <2>2, <2>3, OtherQueued DEF PlaceInv, DeletedInv
  <2>4. CASE portalq' = portalq
    BY <1>0, <2>1, <2>2, <2>4 DEF PlaceInv, DeletedInv, OrderInv, RemovedInv
  <2> QED
    BY <1>4, <2>3, <2>4 DEF SyncReactions
<1>5. CASE SkipChange \/ ChangeLookupFails
  <2>1. UNCHANGED <<teams, passed, part, removed, portalq>> /\ poll' = Idle
    BY <1>5 DEF SkipChange, ChangeLookupFails, database
  <2> QED
    BY <1>0, <2>1 DEF Idle, Posted, PlaceInv, DeletedInv, OrderInv, RemovedInv
<1>6. CASE SyncChange
  <2>1. passed /\ poll' = Idle /\ UNCHANGED <<teams, passed, part, removed>>
    BY <1>6 DEF SyncChange, PlaceInv, database
  <2>2. poll'.pc = "idle" /\ ~poll'.msg.deleted
    BY <2>1 DEF Idle, Posted
  <2>3. CASE portalq' = portalq
    BY <1>0, <2>1, <2>2, <2>3 DEF PlaceInv, DeletedInv, OrderInv, RemovedInv
  <2>4. CASE Queue("edit", poll.msg) \/ (poll.msg.deleted /\ Queue("delete", poll.msg))
    <3>1. PICK type \in {"edit", "delete"} :
             Queue(type, poll.msg) /\ (type = "delete" => teams.deleted)
      BY <2>4 DEF DeletedInv
    <3>2. /\ Len(portalq) \in Nat /\ Len(portalq') = Len(portalq) + 1
          /\ \A i \in 1 .. Len(portalq) : portalq'[i] = portalq[i]
          /\ portalq'[Len(portalq) + 1].type = type
      BY <3>1, Appended DEF TypeOK
    <3>3. \A i \in 1 .. Len(portalq') :
             i \in 1 .. Len(portalq) \/ (i = Len(portalq) + 1 /\ portalq'[i].type = type)
      BY <3>2
    <3>4. DeletedInv'
      BY <2>1, <2>2, <3>1, <3>2, <3>3 DEF DeletedInv
    <3>5. OrderInv'
      BY <2>1, <3>1, <3>2, <3>3 DEF OrderInv
    <3>6. RemovedInv'
      BY <2>1, <2>2, <3>1, <3>2, <3>3 DEF RemovedInv
    <3> QED
      BY <1>0, <2>2, <3>4, <3>5, <3>6 DEF PlaceInv
  <2> QED
    BY <1>6, <2>3, <2>4 DEF SyncChange
<1>7. CASE Advance
  <2>1. passed' /\ poll' = Idle /\ UNCHANGED <<teams, part, removed, portalq>>
    BY <1>7 DEF Advance, database
  <2> QED
    BY <1>0, <2>1 DEF Idle, Posted, PlaceInv, DeletedInv, OrderInv, RemovedInv
<1>8. CASE Handle
  <2> DEFINE e == Head(portalq)
  <2>1. /\ Len(portalq) \in Nat \ {0} /\ Len(portalq') = Len(portalq) - 1 /\ e = portalq[1]
        /\ \A i \in 1 .. Len(portalq') : portalq'[i] = portalq[i + 1]
    BY <1>8 DEF Handle, TypeOK
  <2>2. UNCHANGED <<teams, passed, poll>>
    BY <1>8 DEF Handle, memory
  <2>3. DeletedInv' /\ PlaceInv'
    BY <2>1, <2>2 DEF DeletedInv, PlaceInv
  <2>4. OrderInv'
    BY <2>1, <2>2 DEF OrderInv
  <2>5. CASE e.type = "delete"
    <3>1. ~part'.there
      BY <1>8, <2>5 DEF Handle, NotBridged
    <3>2. passed /\ teams.deleted /\ \A j \in 2 .. Len(portalq) : portalq[j].type # "message"
      BY <2>1, <2>5 DEF OrderInv, DeletedInv
    <3>3. poll.pc # "message"
      BY <3>2 DEF PlaceInv
    <3> QED
      BY <1>0, <2>1, <2>2, <2>3, <2>4, <3>1, <3>2, <3>3 DEF RemovedInv
  <2>6. CASE e.type # "delete"
    <3>1. removed' = removed
      BY <1>8, <2>6 DEF Handle
    <3>2. removed => ~part'.there
      <4>1. part.there \in BOOLEAN /\ (removed => ~part.there)
        BY DEF TypeOK, RemovedInv
      <4>2. removed /\ e.type = "message" => e.msg.deleted
        BY <2>1 DEF RemovedInv
      <4>3. CASE e.type = "message"
        <5>1. part' = IF HandleMessage(e.msg) THEN [there |-> TRUE, edit |-> e.msg.edit] ELSE part
          BY <1>8, <4>3 DEF Handle
        <5> QED
          BY <4>1, <4>2, <4>3, <5>1 DEF HandleMessage
      <4>4. CASE e.type # "message"
        <5>1. part' = part \/ (part.there /\ part' = [part EXCEPT !.edit = e.msg.edit])
          BY <1>8, <2>6, <4>4 DEF Handle
        <5> QED
          BY <4>1, <5>1
      <4> QED
        BY <4>3, <4>4
    <3> QED
      BY <1>0, <2>1, <2>2, <2>3, <2>4, <3>1, <3>2 DEF RemovedInv
  <2> QED
    BY <2>5, <2>6
<1>9. CASE SaveCursor
  BY <1>0, <1>9 DEF SaveCursor, memory, PlaceInv, DeletedInv, OrderInv, RemovedInv
<1>10. CASE Restart
  <2>1. /\ poll' = Idle /\ Len(portalq') = 0
        /\ UNCHANGED <<teams, part, removed>>
    BY <1>10 DEF Restart, database
  <2> QED
    BY <1>0, <2>1 DEF Idle, Posted, PlaceInv, DeletedInv, OrderInv, RemovedInv
<1>11. CASE Matrix
  <2>1. CASE AddReaction
    BY <1>0, <2>1 DEF AddReaction, memory, PlaceInv, DeletedInv, OrderInv, RemovedInv
  <2>2. CASE HandleMatrixReaction
    BY <1>0, <2>2, ChangedDelete DEF HandleMatrixReaction
  <2>3. CASE HandleMatrixEdit \/ HandleMatrixMessageRemove \/ HandleMatrixReactionRemove
    <3>1. Edit \/ Delete \/ Unreact(Self)
      BY <2>3 DEF HandleMatrixEdit, HandleMatrixMessageRemove, HandleMatrixReactionRemove
    <3> QED
      BY <1>0, <3>1, TeamsChange, ChangedDelete, ConstantsAssumption
  <2> QED
    BY <1>11, <2>1, <2>2, <2>3 DEF Matrix
<1>12. CASE UNCHANGED vars
  BY <1>0, <1>12 DEF vars, memory, database, PlaceInv, DeletedInv, OrderInv, RemovedInv
<1> QED
  BY <1>1, <1>2, <1>3, <1>4, <1>5, <1>6, <1>7, <1>8, <1>9, <1>10, <1>11, <1>12 DEF Next, Poll

\* A message whose delete was bridged is never bridged again, after any number of
\* restarts that poll it as new once more (convertTeamsMessageContent).
THEOREM DeleteIsFinal == Spec => []NeverResurrected
<1>1. Init => DeleteInv
  BY DeleteStart
<1>2. DeleteInv /\ [Next]_vars => DeleteInv'
  BY DeleteStep
<1>3. DeleteInv => NeverResurrected
  BY DEF DeleteInv, RemovedInv, NeverResurrected
<1> QED
  BY <1>1, <1>2, <1>3, PTL DEF Spec

-----------------------------------------------------------------------------
(* What the poller recorded is bridged, or on its way                       *)
(*                                                                          *)
(* These are the states the two liveness properties pass through: the       *)
(* memory may say "seen" only of a state the database shows, or is sure to  *)
(* show when the events that wait have been handled.                        *)

(* A poll is under way, with the message it fetched; the poller is past the *)
(* event for the message itself; that event was handled, in vain.           *)
Reading == poll.pc # "idle"
Queued == passed \/ poll.pc \in {"reactions", "advance"}
Lost == /\ ~part.there
        /\ \A i \in 1 .. Len(portalq) : portalq[i].type = "message" => portalq[i].msg.deleted

(* Edits are bridged in the order Teams made them. *)
EditsOrdered ==
    /\ teams.edit <= now
    /\ part.edit <= teams.edit
    /\ Reading => poll.msg.edit <= teams.edit /\ part.edit <= poll.msg.edit
    /\ \A i \in 1 .. Len(portalq) :
          /\ part.edit <= portalq[i].msg.edit /\ portalq[i].msg.edit <= teams.edit
          /\ Reading => portalq[i].msg.edit <= poll.msg.edit
          /\ \A j \in i .. Len(portalq) : portalq[i].msg.edit <= portalq[j].msg.edit

(* The event for the message comes before all others. *)
MessageFirst ==
    /\ ~Queued => Len(portalq) = 0
    /\ \A i \in 2 .. Len(portalq) : portalq[i].type # "message"

(* What was once polled deleted is deleted in every later poll. *)
DeletesSeen ==
    \A i \in 1 .. Len(portalq) : portalq[i].type = "delete" \/ portalq[i].msg.deleted =>
        teams.deleted /\ (Reading => poll.msg.deleted)

(* A message that is not bridged, and will not be, is a deleted one. *)
LostInv ==
    /\ Queued /\ Lost => teams.deleted /\ (Reading => poll.msg.deleted)
    /\ saved => part.there \/ teams.deleted

OrderedInv == EditsOrdered /\ MessageFirst /\ DeletesSeen /\ LostInv

LEMMA SyncTypes ==
    ASSUME TypeOK
    PROVE  /\ now \in Nat /\ teams.edit \in Nat /\ poll.msg.edit \in Nat /\ part.edit \in Nat
           /\ teams.deleted \in BOOLEAN /\ poll.msg.deleted \in BOOLEAN /\ part.there \in BOOLEAN
           /\ portalq \in Seq(Event) /\ Len(portalq) \in Nat
           /\ \A i \in 1 .. Len(portalq) :
                 /\ portalq[i].msg.edit \in Nat /\ portalq[i].msg.deleted \in BOOLEAN
                 /\ portalq[i].type \in {"message", "edit", "delete", "reactions"}
<1>1. \A t \in Time : t \in Nat
  BY ConstantsAssumption DEF Time
<1>2. \A m \in Message : m.edit \in Nat /\ m.deleted \in BOOLEAN
  BY <1>1 DEF Message
<1>3. \A e \in Event : e.msg \in Message /\ e.type \in {"message", "edit", "delete", "reactions"}
  BY DEF Event
<1>4. \A i \in 1 .. Len(portalq) : portalq[i] \in Event
  BY DEF TypeOK
<1>5. now \in Nat /\ part.edit \in Nat
  BY <1>1 DEF TypeOK
<1>6. teams \in Message /\ poll.msg \in Message /\ part.there \in BOOLEAN
  BY DEF TypeOK
<1>7. portalq \in Seq(Event) /\ Len(portalq) \in Nat
  BY DEF TypeOK
<1> QED
  BY <1>2, <1>3, <1>4, <1>5, <1>6, <1>7

LEMMA OrderedStart ==
    ASSUME Init
    PROVE  OrderedInv
<1>1. /\ now = 0 /\ teams.edit = 0 /\ part.edit = 0 /\ ~teams.deleted
      /\ poll.pc = "idle" /\ Len(portalq) = 0 /\ ~passed /\ ~saved
  BY DEF Init, Posted, Idle, NotBridged
<1> QED
  BY <1>1 DEF OrderedInv, EditsOrdered, MessageFirst, DeletesSeen, LostInv, Reading, Queued

(* A change on Teams: edits only grow, and a delete is not taken back. *)
LEMMA OrderedChanged ==
    ASSUME DeleteInv, OrderedInv, TypeOK', NEW m, Changed(m),
           m.edit \in {teams.edit, now + 1}
    PROVE  OrderedInv'
<1>1. teams' = m /\ now' = now + 1 /\ UNCHANGED <<poll, portalq, part, passed, saved>> /\ ~teams.deleted
  BY DEF Changed, memory, database
<1>2. teams.edit <= m.edit /\ m.edit <= now + 1 /\ m.edit \in Nat /\ now' \in Nat
  BY <1>1, SyncTypes DEF DeleteInv, OrderedInv, EditsOrdered
<1>3. EditsOrdered'
  <2>1. teams'.edit <= now' /\ part'.edit <= teams'.edit
    BY <1>1, <1>2, SyncTypes DEF DeleteInv, OrderedInv, EditsOrdered
  <2>2. Reading' => poll'.msg.edit <= teams'.edit /\ part'.edit <= poll'.msg.edit
    BY <1>1, <1>2, SyncTypes DEF DeleteInv, OrderedInv, EditsOrdered, Reading
  <2>3. \A i \in 1 .. Len(portalq) : portalq[i].msg.edit <= teams'.edit
    BY <1>1, <1>2, SyncTypes DEF DeleteInv, OrderedInv, EditsOrdered
  <2> QED
    BY <1>1, <2>1, <2>2, <2>3 DEF OrderedInv, EditsOrdered, Reading
<1>4. MessageFirst'
  BY <1>1 DEF OrderedInv, MessageFirst, Queued
<1>5. DeletesSeen' /\ LostInv'
  BY <1>1 DEF OrderedInv, DeletesSeen, LostInv, Reading, Queued, Lost
<1> QED
  BY <1>3, <1>4, <1>5 DEF OrderedInv

LEMMA OrderedTeams ==
    ASSUME DeleteInv, OrderedInv, TypeOK',
           \/ Edit \/ Delete \/ HandleMatrixReaction
           \/ \E u \in User : React(u) \/ Unreact(u)
    PROVE  OrderedInv'
<1>1. teams \in Message
  BY DEF DeleteInv, TypeOK
<1>2. CASE Edit \/ Delete
  BY <1>1, <1>2, OrderedChanged DEF Edit, Delete, Change, Message
<1>3. CASE HandleMatrixReaction
  BY <1>1, <1>3, OrderedChanged DEF HandleMatrixReaction, Message
<1>4. ASSUME NEW u \in User, React(u) \/ Unreact(u)
      PROVE  OrderedInv'
  BY <1>1, <1>4, OrderedChanged DEF React, Unreact, Change, Message
<1> QED
  BY <1>2, <1>3, <1>4

(* A step of the poller that queues nothing, or one of the database. *)
LEMMA OrderedFetch ==
    ASSUME DeleteInv, OrderedInv, Fetch
    PROVE  OrderedInv'
<1>1. /\ poll'.msg = teams /\ poll.pc = "idle"
      /\ poll'.pc = IF passed THEN "reactions" ELSE "message"
      /\ UNCHANGED <<now, teams, part, portalq, passed, saved>>
  BY DEF Fetch, database
<1>2. ~Queued => ~Queued'
  BY <1>1 DEF Queued
<1>3. Queued' <=> Queued
  BY <1>1 DEF Queued
<1>4. EditsOrdered'
  BY <1>1, SyncTypes DEF DeleteInv, OrderedInv, EditsOrdered
<1>5. MessageFirst' /\ DeletesSeen' /\ LostInv'
  BY <1>1, <1>3 DEF OrderedInv, MessageFirst, DeletesSeen, LostInv, Lost
<1> QED
  BY <1>4, <1>5 DEF OrderedInv

LEMMA OrderedMoves ==
    ASSUME DeleteInv, OrderedInv,
           UNCHANGED <<now, teams, part, portalq, saved>>, Reading' => Reading /\ poll'.msg = poll.msg,
           Queued' <=> Queued
    PROVE  OrderedInv'
<1>1. EditsOrdered'
  BY DEF OrderedInv, EditsOrdered, Reading
<1>2. MessageFirst' /\ DeletesSeen' /\ LostInv'
  BY DEF OrderedInv, MessageFirst, DeletesSeen, LostInv, Lost
<1> QED
  BY <1>1, <1>2 DEF OrderedInv

(* A step of the poller that queues an event with the message it fetched. *)
LEMMA OrderedQueued ==
    ASSUME DeleteInv, OrderedInv, NEW type, Queue(type, poll.msg), Reading,
           UNCHANGED <<now, teams, part, passed, saved>>,
           Reading' => poll'.msg = poll.msg, Queued',
           type = "message" <=> ~Queued,
           type = "delete" => poll.msg.deleted
    PROVE  OrderedInv'
<1> DEFINE n == Len(portalq) + 1
<1>1. /\ Len(portalq) \in Nat /\ Len(portalq') = n
      /\ \A i \in 1 .. Len(portalq) : portalq'[i] = portalq[i]
      /\ portalq'[n].type = type /\ portalq'[n].msg = poll.msg
  BY Appended, SyncTypes DEF DeleteInv
<1>2. \A i \in 1 .. n : i \in 1 .. Len(portalq) \/ i = n
  BY <1>1
<1>3. /\ teams.edit \in Nat /\ poll.msg.edit \in Nat /\ part.edit \in Nat
      /\ \A i \in 1 .. Len(portalq) : portalq[i].msg.edit \in Nat
  BY SyncTypes DEF DeleteInv
<1>4. EditsOrdered'
  <2>1. teams.edit <= now /\ part.edit <= teams.edit /\ poll.msg.edit <= teams.edit
        /\ part.edit <= poll.msg.edit
    BY DEF OrderedInv, EditsOrdered
  <2>2. \A i \in 1 .. Len(portalq) :
           /\ part.edit <= portalq[i].msg.edit /\ portalq[i].msg.edit <= teams.edit
           /\ portalq[i].msg.edit <= poll.msg.edit
           /\ \A j \in i .. Len(portalq) : portalq[i].msg.edit <= portalq[j].msg.edit
    BY DEF OrderedInv, EditsOrdered
  <2>3. \A i \in 1 .. n :
           /\ part.edit <= portalq'[i].msg.edit /\ portalq'[i].msg.edit <= teams.edit
           /\ portalq'[i].msg.edit <= poll.msg.edit
    BY <1>1, <1>2, <2>1, <2>2, <1>3
  <2>4. ASSUME NEW i \in 1 .. n, NEW j \in i .. n
        PROVE  portalq'[i].msg.edit <= portalq'[j].msg.edit
    <3>1. CASE j = n
      BY <1>1, <2>3, <3>1
    <3>2. CASE j # n
      <4>1. i \in 1 .. Len(portalq) /\ j \in i .. Len(portalq) /\ j \in 1 .. Len(portalq)
        BY <1>1, <3>2
      <4> QED
        BY <1>1, <2>2, <4>1
    <3> QED
      BY <3>1, <3>2
  <2> QED
    BY <1>1, <2>1, <2>3, <2>4 DEF EditsOrdered
<1>5. MessageFirst'
  <2>1. ASSUME NEW i \in 2 .. n
        PROVE  portalq'[i].type # "message"
    <3>1. CASE i = n
      BY <1>1, <3>1 DEF OrderedInv, MessageFirst
    <3>2. CASE i # n
      <4>1. i \in 1 .. Len(portalq) /\ i \in 2 .. Len(portalq)
        BY <1>1, <3>2
      <4> QED
        BY <1>1, <4>1 DEF OrderedInv, MessageFirst
    <3> QED
      BY <3>1, <3>2
  <2> QED
    BY <1>1, <2>1 DEF MessageFirst
<1>6. DeletesSeen'
  <2>1. poll.msg.deleted => teams.deleted
    BY DEF DeleteInv, DeletedInv
  <2>2. ASSUME NEW i \in 1 .. n, portalq'[i].type = "delete" \/ portalq'[i].msg.deleted
        PROVE  teams.deleted /\ poll.msg.deleted
    BY <1>1, <1>2, <2>1, <2>2 DEF OrderedInv, DeletesSeen
  <2> QED
    BY <1>1, <2>2 DEF DeletesSeen
<1>7. LostInv'
  <2>1. saved => part.there \/ teams.deleted
    BY DEF OrderedInv, LostInv
  <2>2. ASSUME Lost'
        PROVE  teams.deleted /\ poll.msg.deleted
    <3>1. Lost
      BY <1>1, <1>2, <2>2 DEF Lost
    <3>2. CASE Queued
      BY <3>1, <3>2 DEF OrderedInv, LostInv
    <3>3. CASE ~Queued
      BY <1>1, <2>2, <3>3 DEF Lost, DeleteInv, DeletedInv
    <3> QED
      BY <3>2, <3>3
  <2> QED
    BY <2>1, <2>2 DEF LostInv
<1> QED
  BY <1>4, <1>5, <1>6, <1>7 DEF OrderedInv

(* The queue after its head is handled. *)
LEMMA Handled ==
    ASSUME portalq \in Seq(Event), Handle
    PROVE  /\ Len(portalq) \in Nat \ {0} /\ Len(portalq') = Len(portalq) - 1
           /\ Head(portalq) = portalq[1]
           /\ \A i \in 1 .. Len(portalq') : portalq'[i] = portalq[i + 1] /\ i + 1 \in 2 .. Len(portalq)
           /\ UNCHANGED <<now, teams, passed, poll, editTimes, reactionSigs, saved, overlooked, asked>>
           /\ ~asked
BY DEF Handle, memory

(* What handling an event makes of the message in the database. *)
LEMMA HandledPart ==
    ASSUME TypeOK, Handle, NEW e, e = portalq[1]
    PROVE  \/ /\ e.type = "delete" /\ part' = NotBridged
           \/ /\ e.type = "message" /\ ~part.there /\ ~e.msg.deleted
              /\ part' = [there |-> TRUE, edit |-> e.msg.edit]
           \/ /\ e.type = "edit" /\ part.there
              /\ part'.there /\ part'.edit = e.msg.edit
           \/ /\ part' = part /\ e.type # "delete"
              /\ e.type = "message" => part.there \/ e.msg.deleted
              /\ e.type = "edit" => ~part.there
<1>1. e = Head(portalq) /\ e.type \in {"message", "edit", "delete", "reactions"}
  BY Handled, SyncTypes DEF TypeOK
<1>2. CASE e.type = "message"
  BY <1>1, <1>2 DEF Handle, HandleMessage
<1>3. CASE e.type = "edit"
  <2>1. part' = IF part.there THEN [part EXCEPT !.edit = e.msg.edit] ELSE part
    BY <1>1, <1>3 DEF Handle
  <2>2. part \in [there : BOOLEAN, edit : Time]
    BY DEF TypeOK
  <2> QED
    BY <2>1, <2>2, <1>3
<1>4. CASE e.type = "delete"
  BY <1>1, <1>4 DEF Handle
<1>5. CASE e.type = "reactions"
  BY <1>1, <1>5 DEF Handle
<1> QED
  BY <1>1, <1>2, <1>3, <1>4, <1>5

LEMMA OrderedHandle ==
    ASSUME DeleteInv, OrderedInv, Handle
    PROVE  OrderedInv'
<1> DEFINE e == portalq[1]
<1>0. TypeOK /\ portalq \in Seq(Event)
  BY DEF DeleteInv, TypeOK
<1>1. /\ Len(portalq) \in Nat \ {0} /\ Len(portalq') = Len(portalq) - 1
      /\ \A i \in 1 .. Len(portalq') : portalq'[i] = portalq[i + 1] /\ i + 1 \in 2 .. Len(portalq)
      /\ UNCHANGED <<now, teams, passed, poll, saved>>
  BY <1>0, Handled
<1>2. \/ /\ e.type = "delete" /\ part' = NotBridged
      \/ /\ e.type = "message" /\ ~part.there /\ ~e.msg.deleted
         /\ part' = [there |-> TRUE, edit |-> e.msg.edit]
      \/ /\ e.type = "edit" /\ part.there
         /\ part'.there /\ part'.edit = e.msg.edit
      \/ /\ part' = part /\ e.type # "delete"
         /\ e.type = "message" => part.there \/ e.msg.deleted
  BY <1>0, HandledPart
<1>3. part'.edit \in {0, e.msg.edit, part.edit}
  BY <1>2 DEF NotBridged
<1>4. EditsOrdered'
  <2>1. /\ teams.edit \in Nat /\ poll.msg.edit \in Nat /\ part.edit \in Nat
        /\ \A i \in 1 .. Len(portalq) : portalq[i].msg.edit \in Nat
    BY <1>0, SyncTypes
  <2>2. /\ e.msg.edit <= teams.edit /\ part.edit <= teams.edit
        /\ Reading => e.msg.edit <= poll.msg.edit /\ part.edit <= poll.msg.edit
        /\ e.msg.edit \in Nat
        /\ \A i \in 2 .. Len(portalq) : e.msg.edit <= portalq[i].msg.edit /\ part.edit <= portalq[i].msg.edit
                                        /\ portalq[i].msg.edit \in Nat
    BY <1>1, <2>1 DEF OrderedInv, EditsOrdered
  <2>3. /\ part'.edit <= teams.edit
        /\ Reading => part'.edit <= poll.msg.edit
        /\ \A i \in 2 .. Len(portalq) : part'.edit <= portalq[i].msg.edit
    BY <1>3, <2>1, <2>2
  <2>4. ASSUME NEW i \in 1 .. Len(portalq')
        PROVE  /\ portalq'[i].msg.edit <= teams.edit
               /\ Reading => portalq'[i].msg.edit <= poll.msg.edit
               /\ \A j \in i .. Len(portalq') : portalq'[i].msg.edit <= portalq'[j].msg.edit
    <3>1. i + 1 \in 1 .. Len(portalq) /\ portalq'[i] = portalq[i + 1]
      BY <1>1
    <3>2. \A j \in i .. Len(portalq') : j \in 1 .. Len(portalq') /\ j + 1 \in i + 1 .. Len(portalq)
      BY <1>1
    <3> QED
      BY <1>1, <3>1, <3>2 DEF OrderedInv, EditsOrdered
  <2> QED
    BY <1>1, <2>3, <2>4 DEF OrderedInv, EditsOrdered, Reading
<1>5. MessageFirst'
  <2>1. Queued' /\ Queued
    BY <1>1 DEF OrderedInv, MessageFirst, Queued
  <2>2. \A i \in 2 .. Len(portalq') : i \in 1 .. Len(portalq')
    OBVIOUS
  <2> QED
    BY <1>1, <2>1, <2>2 DEF OrderedInv, MessageFirst
<1>6. DeletesSeen'
  <2>1. \A i \in 1 .. Len(portalq') : i + 1 \in 1 .. Len(portalq)
    BY <1>1
  <2> QED
    BY <1>1, <2>1 DEF OrderedInv, DeletesSeen, Reading
<1>7. LostInv'
  <2>1. Queued /\ (Queued' <=> Queued) /\ (Reading' <=> Reading) /\ 1 \in 1 .. Len(portalq)
    BY <1>1 DEF OrderedInv, MessageFirst, Queued, Reading
  <2>2. CASE part'.there
    BY <1>1, <2>2 DEF OrderedInv, LostInv, Lost
  <2>3. CASE e.type = "delete"
    BY <1>1, <2>1, <2>3 DEF OrderedInv, DeletesSeen, LostInv
  <2>4. CASE ~part'.there /\ e.type # "delete"
    <3>1. part' = part /\ (e.type = "message" => e.msg.deleted)
      BY <1>2, <2>4
    <3>2. Lost
      <4>1. \A i \in 1 .. Len(portalq) : i = 1 \/ i \in 2 .. Len(portalq)
        OBVIOUS
      <4> QED
        BY <2>4, <3>1, <4>1 DEF OrderedInv, MessageFirst, Lost
    <3> QED
      BY <1>1, <2>1, <3>1, <3>2 DEF OrderedInv, LostInv
  <2> QED
    BY <2>2, <2>3, <2>4
<1> QED
  BY <1>4, <1>5, <1>6, <1>7 DEF OrderedInv

LEMMA OrderedStep ==
    ASSUME DeleteInv, DeleteInv', OrderedInv, [Next]_vars
    PROVE  OrderedInv'
<1>0. TypeOK' /\ TypeOK /\ PlaceInv
  BY DEF DeleteInv
<1>1. CASE Teams \/ HandleMatrixReaction \/ HandleMatrixEdit \/ HandleMatrixMessageRemove
           \/ HandleMatrixReactionRemove
  <2>1. \/ Edit \/ Delete \/ HandleMatrixReaction
        \/ \E u \in User : React(u) \/ Unreact(u)
    BY <1>1, ConstantsAssumption
    DEF Teams, HandleMatrixEdit, HandleMatrixMessageRemove, HandleMatrixReactionRemove
  <2> QED
    BY <1>0, <2>1, OrderedTeams
<1>2. CASE Fetch
  BY <1>2, OrderedFetch
<1>3. CASE QueueMessage
  <2>1. /\ poll.pc = "message" /\ poll'.pc = "reactions" /\ poll'.msg = poll.msg
        /\ Queue("message", poll.msg) /\ UNCHANGED <<now, teams, part, passed, saved>>
    BY <1>0, <1>3 DEF QueueMessage, database, TypeOK
  <2>2. Reading /\ ~Queued /\ Queued'
    BY <1>0, <2>1 DEF Reading, Queued, PlaceInv
  <2> QED
    BY <2>1, <2>2, OrderedQueued
<1>4. CASE SyncReactions
  <2>1. /\ poll.pc = "reactions" /\ poll'.msg = poll.msg
        /\ poll'.pc = IF passed THEN "change" ELSE "advance"
        /\ UNCHANGED <<now, teams, part, passed, saved>>
        /\ portalq' = portalq \/ Queue("reactions", poll.msg)
    BY <1>0, <1>4 DEF SyncReactions, database, TypeOK
  <2>2. Reading /\ Queued /\ Queued'
    BY <2>1 DEF Reading, Queued
  <2>3. CASE portalq' = portalq
    BY <2>1, <2>2, <2>3, OrderedMoves
  <2>4. CASE Queue("reactions", poll.msg)
    BY <2>1, <2>2, <2>4, OrderedQueued
  <2> QED
    BY <2>1, <2>3, <2>4
<1>5. CASE SkipChange \/ ChangeLookupFails \/ SyncChange
  <2>1. /\ poll.pc = "change" /\ poll'.pc = "idle" /\ passed
        /\ UNCHANGED <<now, teams, part, passed, saved>>
        /\ \/ portalq' = portalq \/ Queue("edit", poll.msg)
           \/ poll.msg.deleted /\ Queue("delete", poll.msg)
    BY <1>0, <1>5 DEF SkipChange, ChangeLookupFails, SyncChange, database, PlaceInv, Idle
  <2>2. Reading /\ ~Reading' /\ Queued /\ Queued'
    BY <2>1 DEF Reading, Queued
  <2>3. CASE portalq' = portalq
    BY <2>1, <2>2, <2>3, OrderedMoves
  <2>4. CASE Queue("edit", poll.msg)
    BY <2>1, <2>2, <2>4, OrderedQueued
  <2>5. CASE poll.msg.deleted /\ Queue("delete", poll.msg)
    BY <2>1, <2>2, <2>5, OrderedQueued
  <2> QED
    BY <2>1, <2>3, <2>4, <2>5
<1>6. CASE Advance
  <2>1. poll.pc = "advance" /\ poll'.pc = "idle" /\ passed' /\ UNCHANGED <<now, teams, part, portalq, saved>>
    BY <1>6 DEF Advance, database, Idle
  <2>2. ~Reading' /\ Queued /\ Queued'
    BY <2>1 DEF Reading, Queued
  <2> QED
    BY <2>1, <2>2, OrderedMoves
<1>7. CASE Handle
  BY <1>7, OrderedHandle
<1>8. CASE SaveCursor
  <2>1. /\ passed /\ ~Waits("message")
        /\ UNCHANGED <<now, teams, part, portalq, passed, poll>>
    BY <1>8 DEF SaveCursor, memory
  <2>2. part.there \/ teams.deleted
    BY <2>1 DEF OrderedInv, LostInv, Lost, Waits, Queued
  <2> QED
    BY <2>1, <2>2 DEF OrderedInv, EditsOrdered, MessageFirst, DeletesSeen, LostInv, Lost, Queued, Reading
<1>9. CASE Restart
  <2>1. /\ passed' = saved /\ poll'.pc = "idle" /\ Len(portalq') = 0
        /\ UNCHANGED <<now, teams, part, saved>>
    BY <1>9 DEF Restart, database, Idle
  <2>2. ~Reading' /\ (Queued' <=> saved) /\ \A i \in 1 .. Len(portalq') : FALSE
    BY <2>1 DEF Reading, Queued
  <2>3. EditsOrdered'
    BY <2>1, <2>2 DEF OrderedInv, EditsOrdered
  <2>4. MessageFirst' /\ DeletesSeen' /\ LostInv'
    BY <2>1, <2>2 DEF OrderedInv, MessageFirst, DeletesSeen, LostInv, Lost
  <2> QED
    BY <2>3, <2>4 DEF OrderedInv
<1>10. CASE AddReaction \/ UNCHANGED vars
  <2>1. UNCHANGED <<now, teams, part, portalq, saved, passed, poll>>
    BY <1>10 DEF AddReaction, memory, vars, database
  <2> QED
    BY <2>1, OrderedMoves DEF Reading, Queued
<1> QED
  BY <1>1, <1>2, <1>3, <1>4, <1>5, <1>6, <1>7, <1>8, <1>9, <1>10 DEF Next, Poll, Matrix

(* An edit recorded as seen is the last one bridged or among the events that  *)
(* wait, none of which goes past it, unless it was overlooked.                *)
EditNoted ==
    editTimes \in 1 .. MaxTime =>
        /\ editTimes <= teams.edit
        /\ Reading => editTimes <= poll.msg.edit
        /\ \A i \in 1 .. Len(portalq) :
              portalq[i].type # "delete" /\ (portalq[i].type = "edit" => portalq[i].msg.edit <= editTimes)
        /\ \/ "change" \in overlooked
           \/ part.there /\ part.edit = editTimes
           \/ part.there /\ \E i \in 1 .. Len(portalq) :
                 portalq[i].type = "edit" /\ portalq[i].msg.edit = editTimes

(* A delete recorded as seen is bridged or waits, unless it was overlooked. *)
DeleteNoted ==
    editTimes = Deleted => "change" \in overlooked \/ Lost \/ Waits("delete")

ChangeInv ==
    /\ editTimes # 0 => passed
    /\ EditNoted /\ DeleteNoted

LEMMA EditTimesTyped ==
    ASSUME TypeOK
    PROVE  /\ editTimes \in 0 .. MaxTime + 1 /\ MaxTime \in Nat /\ Deleted = MaxTime + 1
           /\ Deleted # 0 /\ ~(Deleted \in 1 .. MaxTime) /\ ~(0 \in 1 .. MaxTime)
BY ConstantsAssumption DEF TypeOK, Deleted

(* Nothing recorded, nothing claimed. *)
LEMMA ChangeUnnoted ==
    ASSUME TypeOK, editTimes = 0
    PROVE  ChangeInv
BY EditTimesTyped DEF ChangeInv, EditNoted, DeleteNoted

(* A step that leaves what is recorded, the events and the database alone. *)
LEMMA ChangeKept ==
    ASSUME DeleteInv, OrderedInv, DeleteInv', OrderedInv', ChangeInv,
           UNCHANGED <<editTimes, portalq, part>>, passed => passed',
           "change" \in overlooked => "change" \in overlooked',
           teams.edit <= teams'.edit,
           Reading' => (Reading /\ poll'.msg = poll.msg) \/ poll'.msg = teams
    PROVE  ChangeInv'
<1>1. DeleteNoted'
  BY DEF ChangeInv, DeleteNoted, Lost, Waits
<1>2. ASSUME editTimes \in 1 .. MaxTime
      PROVE  editTimes <= teams'.edit /\ (Reading' => editTimes <= poll'.msg.edit)
  <2>1. teams.edit \in Nat /\ editTimes \in Nat
    BY <1>2, SyncTypes, EditTimesTyped DEF DeleteInv
  <2>2. teams'.edit \in Nat
    <3>1. teams' \in Message
      BY DEF DeleteInv, TypeOK
    <3> QED
      BY <3>1, ConstantsAssumption DEF Message, Time
  <2> QED
    BY <1>2, <2>1, <2>2 DEF ChangeInv, EditNoted
<1>3. EditNoted'
  BY <1>2 DEF ChangeInv, EditNoted
<1> QED
  BY <1>1, <1>3 DEF ChangeInv

(* An event that is not about a change of an older message is queued. *)
LEMMA ChangeQueued ==
    ASSUME DeleteInv, ChangeInv, NEW type, Queue(type, poll.msg), type \in {"message", "reactions"},
           type = "message" => ~passed,
           UNCHANGED <<editTimes, part, passed, teams>>,
           "change" \in overlooked => "change" \in overlooked',
           Reading, poll'.msg = poll.msg
    PROVE  ChangeInv'
<1>1. /\ Len(portalq) \in Nat /\ Len(portalq') = Len(portalq) + 1
      /\ \A i \in 1 .. Len(portalq) : portalq'[i] = portalq[i]
      /\ portalq'[Len(portalq) + 1].type = type
  BY Appended, SyncTypes DEF DeleteInv
<1>2. \A i \in 1 .. Len(portalq') : i \in 1 .. Len(portalq) \/ portalq'[i].type = type
  BY <1>1
<1>3. \A i \in 1 .. Len(portalq) : i \in 1 .. Len(portalq')
  BY <1>1
<1>4. EditNoted'
  BY <1>1, <1>2, <1>3 DEF ChangeInv, EditNoted
<1>5. DeleteNoted'
  <2>1. Waits("delete") => Waits("delete")'
    BY <1>1, <1>3 DEF Waits
  <2>2. ASSUME editTimes = Deleted, Lost
        PROVE  Lost'
    <3>1. type # "message"
      BY <2>2, EditTimesTyped DEF ChangeInv, DeleteInv
    <3> QED
      BY <1>1, <1>2, <2>2, <3>1 DEF Lost
  <2> QED
    BY <2>1, <2>2 DEF ChangeInv, DeleteNoted
<1> QED
  BY <1>4, <1>5 DEF ChangeInv

(* The poller records the state of the message it fetched. *)
LEMMA ChangeSynced ==
    ASSUME DeleteInv, OrderedInv, DeleteInv', SyncChange
    PROVE  ChangeInv'
<1> DEFINE sig == Signature(poll.msg)
<1>0. /\ poll.msg.edit \in Nat /\ part.edit \in Nat /\ poll.msg.deleted \in BOOLEAN
      /\ part.there \in BOOLEAN /\ portalq \in Seq(Event) /\ TypeOK
      /\ teams.edit \in Nat /\ TypeOK'
  BY SyncTypes DEF DeleteInv, TypeOK
<1>1. /\ poll.pc = "change" /\ passed /\ Reading /\ Queued /\ sig # 0
      /\ editTimes' = sig /\ poll'.pc = "idle" /\ UNCHANGED <<teams, part, passed>>
  BY DEF SyncChange, MessageStateChanged, Reading, Queued, DeleteInv, PlaceInv, database, Idle
<1>2. ~Reading'
  BY <1>1 DEF Reading
<1>3. \/ ChangeToBridge(poll.msg) /\ Queue(IF poll.msg.deleted THEN "delete" ELSE "edit", poll.msg)
      \/ /\ ~ChangeToBridge(poll.msg) /\ portalq' = portalq
         /\ part.there \/ ~Waits("message") \/ "change" \in overlooked'
  BY DEF SyncChange
<1>4. poll.msg.edit <= teams.edit /\ part.edit <= poll.msg.edit
      /\ \A i \in 1 .. Len(portalq) : portalq[i].msg.edit <= poll.msg.edit
  BY <1>1 DEF OrderedInv, EditsOrdered
<1>5. CASE poll.msg.deleted
  <2>1. sig = Deleted
    BY <1>5 DEF Signature
  <2>2. CASE ChangeToBridge(poll.msg)
    <3>1. Waits("delete")'
      <4>1. Queue("delete", poll.msg)
        BY <1>3, <1>5, <2>2
      <4>2. Len(portalq) \in Nat /\ Len(portalq') = Len(portalq) + 1 /\ portalq'[Len(portalq) + 1].type = "delete"
        BY <1>0, <4>1, Appended
      <4>3. Len(portalq) + 1 \in 1 .. Len(portalq')
        BY <4>2
      <4> QED
        BY <4>2, <4>3 DEF Waits
    <3> QED
      BY <1>0, <1>1, <2>1, <3>1, EditTimesTyped DEF ChangeInv, EditNoted, DeleteNoted
  <2>3. CASE ~ChangeToBridge(poll.msg)
    <3>1. ~part.there /\ portalq' = portalq
      BY <1>3, <1>5, <2>3 DEF ChangeToBridge
    <3>2. "change" \in overlooked' \/ Lost'
      BY <1>1, <1>3, <2>3, <3>1 DEF Lost, Waits
    <3>3. editTimes' = Deleted /\ ~(editTimes' \in 1 .. MaxTime)
      BY <1>0, <1>1, <2>1, EditTimesTyped
    <3> QED
      BY <1>1, <3>2, <3>3 DEF ChangeInv, EditNoted, DeleteNoted
  <2> QED
    BY <2>2, <2>3
<1>6. CASE ~poll.msg.deleted
  <2>1. sig = poll.msg.edit
    BY <1>6 DEF Signature
  <2>2. \A i \in 1 .. Len(portalq) : portalq[i].type # "delete"
    BY <1>1, <1>6 DEF OrderedInv, DeletesSeen
  <2>3. editTimes' # Deleted
    <3>1. poll.msg.edit \in 0 .. MaxTime
      BY <1>0 DEF TypeOK, Message, Time
    <3> QED
      BY <1>0, <1>1, <2>1, <3>1, EditTimesTyped
  <2>4. CASE ChangeToBridge(poll.msg)
    <3>1. Queue("edit", poll.msg) /\ part.there
      BY <1>3, <1>6, <2>4 DEF ChangeToBridge
    <3>2. /\ Len(portalq) \in Nat /\ Len(portalq') = Len(portalq) + 1
          /\ \A i \in 1 .. Len(portalq) : portalq'[i] = portalq[i]
          /\ portalq'[Len(portalq) + 1].type = "edit" /\ portalq'[Len(portalq) + 1].msg = poll.msg
      BY <1>0, <3>1, Appended
    <3>3. Len(portalq) + 1 \in 1 .. Len(portalq')
      BY <3>2
    <3>4. \A i \in 1 .. Len(portalq') : i \in 1 .. Len(portalq) \/ i = Len(portalq) + 1
      BY <3>2
    <3>5. \A i \in 1 .. Len(portalq') :
             portalq'[i].type # "delete" /\ portalq'[i].msg.edit <= poll.msg.edit
      BY <1>0, <1>4, <2>2, <3>2, <3>4
    <3>6. \E i \in 1 .. Len(portalq') : portalq'[i].type = "edit" /\ portalq'[i].msg.edit = poll.msg.edit
      BY <3>2, <3>3
    <3>7. EditNoted'
      BY <1>1, <1>2, <1>4, <2>1, <3>1, <3>5, <3>6 DEF EditNoted
    <3> QED
      BY <1>1, <2>3, <3>7 DEF ChangeInv, DeleteNoted
  <2>5. CASE ~ChangeToBridge(poll.msg)
    <3>1. portalq' = portalq
      BY <1>3, <2>5
    <3>2. part.there \/ "change" \in overlooked'
      <4>1. part.there \/ ~Lost
        BY <1>1, <1>6 DEF OrderedInv, LostInv
      <4>2. part.there \/ Waits("message")
        BY <4>1 DEF Lost, Waits
      <4> QED
        BY <1>3, <2>5, <4>2
    <3>3. part.there => part.edit = poll.msg.edit
      BY <1>0, <1>4, <1>6, <2>5 DEF ChangeToBridge
    <3>4. EditNoted'
      BY <1>1, <1>2, <1>4, <2>1, <2>2, <3>1, <3>2, <3>3 DEF EditNoted
    <3> QED
      BY <1>1, <2>3, <3>4 DEF ChangeInv, DeleteNoted
  <2> QED
    BY <2>4, <2>5
<1> QED
  BY <1>0, <1>5, <1>6

LEMMA ChangeHandle ==
    ASSUME DeleteInv, OrderedInv, DeleteInv', ChangeInv, Handle
    PROVE  ChangeInv'
<1> DEFINE e == portalq[1]
<1>0. TypeOK /\ portalq \in Seq(Event)
  BY DEF DeleteInv, TypeOK
<1>1. /\ Len(portalq) \in Nat \ {0} /\ Len(portalq') = Len(portalq) - 1
      /\ \A i \in 1 .. Len(portalq') : portalq'[i] = portalq[i + 1] /\ i + 1 \in 2 .. Len(portalq)
      /\ UNCHANGED <<teams, passed, poll, editTimes, overlooked>>
  BY <1>0, Handled
<1>2. \/ /\ e.type = "delete" /\ part' = NotBridged
      \/ /\ e.type = "message" /\ ~part.there /\ ~e.msg.deleted
         /\ part' = [there |-> TRUE, edit |-> e.msg.edit]
      \/ /\ e.type = "edit" /\ part.there
         /\ part'.there /\ part'.edit = e.msg.edit
      \/ /\ part' = part /\ e.type # "delete"
         /\ e.type = "message" => part.there \/ e.msg.deleted
         /\ e.type = "edit" => ~part.there
  BY <1>0, HandledPart
<1>3. 1 \in 1 .. Len(portalq) /\ \A i \in 1 .. Len(portalq') : i + 1 \in 1 .. Len(portalq)
  BY <1>1
<1>4. \A i \in 1 .. Len(portalq) : i = 1 \/ (i - 1 \in 1 .. Len(portalq') /\ portalq'[i - 1] = portalq[i])
  <2>1. \A i \in 2 .. Len(portalq) : i - 1 \in 1 .. Len(portalq') /\ (i - 1) + 1 = i
    BY <1>1
  <2> QED
    BY <1>1, <2>1
<1>5. EditNoted'
  <2> SUFFICES ASSUME editTimes \in 1 .. MaxTime
               PROVE  EditNoted'
    BY <1>1 DEF EditNoted
  <2>1. /\ editTimes <= teams'.edit
        /\ Reading' => editTimes <= poll'.msg.edit
        /\ \A i \in 1 .. Len(portalq') :
              portalq'[i].type # "delete" /\ (portalq'[i].type = "edit" => portalq'[i].msg.edit <= editTimes)
    BY <1>1, <1>3 DEF ChangeInv, EditNoted, Reading
  <2>2. e.type # "delete" /\ (e.type = "edit" => e.msg.edit <= editTimes)
    BY <1>3 DEF ChangeInv, EditNoted
  <2>3. \/ "change" \in overlooked
        \/ part.there /\ part.edit = editTimes
        \/ part.there /\ \E i \in 1 .. Len(portalq) :
              portalq[i].type = "edit" /\ portalq[i].msg.edit = editTimes
    BY DEF ChangeInv, EditNoted
  <2>4. CASE part.there /\ part.edit = editTimes
    <3>1. part'.there /\ part'.edit = editTimes
      <4>1. part.edit <= e.msg.edit /\ part.edit \in Nat /\ e.msg.edit \in Nat
        BY <1>0, <1>3, SyncTypes DEF OrderedInv, EditsOrdered
      <4>2. e.type = "edit" => e.msg.edit = editTimes
        BY <2>2, <2>4, <4>1
      <4> QED
        BY <1>2, <2>2, <2>4, <4>2
    <3> QED
      BY <1>1, <2>1, <3>1 DEF EditNoted
  <2>5. ASSUME part.there, NEW i \in 1 .. Len(portalq),
               portalq[i].type = "edit", portalq[i].msg.edit = editTimes
        PROVE  EditNoted'
    <3>1. CASE i = 1
      <4>1. part'.there /\ part'.edit = editTimes
        BY <1>2, <2>5, <3>1
      <4> QED
        BY <1>1, <2>1, <4>1 DEF EditNoted
    <3>2. CASE i # 1
      <4>1. part'.there
        BY <1>2, <2>2, <2>5
      <4>2. \E j \in 1 .. Len(portalq') : portalq'[j].type = "edit" /\ portalq'[j].msg.edit = editTimes
        BY <1>4, <2>5, <3>2
      <4> QED
        BY <1>1, <2>1, <4>1, <4>2 DEF EditNoted
    <3> QED
      BY <3>1, <3>2
  <2>6. CASE "change" \in overlooked
    BY <1>1, <2>1, <2>6 DEF EditNoted
  <2> QED
    BY <2>3, <2>4, <2>5, <2>6
<1>6. DeleteNoted'
  <2> SUFFICES ASSUME Lost \/ Waits("delete")
               PROVE  Lost' \/ Waits("delete")'
    BY <1>1 DEF ChangeInv, DeleteNoted
  <2>1. CASE e.type = "delete"
    <3>1. ~part'.there
      BY <1>2, <2>1 DEF NotBridged
    <3>2. \A i \in 1 .. Len(portalq') : portalq'[i].type # "message"
      BY <1>1 DEF OrderedInv, MessageFirst
    <3> QED
      BY <3>1, <3>2 DEF Lost
  <2>2. CASE e.type # "delete" /\ Waits("delete")
    BY <1>4, <2>2 DEF Waits
  <2>3. CASE e.type # "delete" /\ Lost
    <3>1. part' = part
      BY <1>2, <1>3, <2>3 DEF Lost
    <3> QED
      BY <1>1, <1>3, <2>3, <3>1 DEF Lost
  <2> QED
    BY <2>1, <2>2, <2>3
<1> QED
  BY <1>1, <1>5, <1>6 DEF ChangeInv

LEMMA ChangeTeams ==
    ASSUME DeleteInv, OrderedInv, DeleteInv', OrderedInv', ChangeInv,
           \/ Edit \/ Delete \/ HandleMatrixReaction
           \/ \E u \in User : React(u) \/ Unreact(u)
    PROVE  ChangeInv'
<1>1. teams \in Message /\ now \in Nat /\ teams.edit \in Nat /\ teams.edit <= now
  BY SyncTypes DEF DeleteInv, TypeOK, OrderedInv, EditsOrdered
<1>2. /\ UNCHANGED <<editTimes, portalq, part, passed, poll>>
      /\ "change" \in overlooked => "change" \in overlooked'
  BY DEF Edit, Delete, React, Unreact, HandleMatrixReaction, Change, Changed, memory, database
<1>3. teams'.edit \in {teams.edit, now + 1}
  BY <1>1 DEF Edit, Delete, React, Unreact, HandleMatrixReaction, Change, Changed, Message
<1>4. teams.edit <= teams'.edit
  BY <1>1, <1>3
<1> QED
  BY <1>2, <1>4, ChangeKept DEF Reading

LEMMA ChangeStep ==
    ASSUME DeleteInv, OrderedInv, DeleteInv', OrderedInv', ChangeInv, [Next]_vars
    PROVE  ChangeInv'
<1>0. TypeOK' /\ TypeOK /\ PlaceInv /\ teams.edit \in Nat /\ teams.edit <= teams.edit
  BY SyncTypes DEF DeleteInv
<1>1. CASE Teams \/ HandleMatrixReaction \/ HandleMatrixEdit \/ HandleMatrixMessageRemove
           \/ HandleMatrixReactionRemove
  <2>1. \/ Edit \/ Delete \/ HandleMatrixReaction
        \/ \E u \in User : React(u) \/ Unreact(u)
    BY <1>1, ConstantsAssumption
    DEF Teams, HandleMatrixEdit, HandleMatrixMessageRemove, HandleMatrixReactionRemove
  <2> QED
    BY <2>1, ChangeTeams
<1>2. CASE Fetch \/ SkipChange \/ Advance \/ AddReaction \/ SaveCursor \/ UNCHANGED vars
  <2>1. /\ UNCHANGED <<editTimes, portalq, part, teams, overlooked>>
        /\ passed => passed'
        /\ \/ poll' = poll \/ poll' = Idle \/ poll'.msg = teams
    BY <1>2 DEF Fetch, SkipChange, Advance, AddReaction, SaveCursor, vars, memory, database
  <2>2. Reading' => (Reading /\ poll'.msg = poll.msg) \/ poll'.msg = teams
    BY <2>1 DEF Reading, Idle
  <2>3. teams' = teams /\ overlooked' = overlooked
    BY <2>1
  <2>4. teams.edit <= teams'.edit
    BY <1>0, <2>3
  <2> QED
    BY <2>1, <2>2, <2>3, <2>4, ChangeKept
<1>3. CASE QueueMessage
  <2>1. /\ poll.pc = "message" /\ poll'.msg = poll.msg /\ Reading
        /\ Queue("message", poll.msg) /\ UNCHANGED <<editTimes, part, passed, teams, overlooked>>
    BY <1>0, <1>3 DEF QueueMessage, database, TypeOK, Reading
  <2> QED
    BY <1>0, <2>1, ChangeQueued DEF PlaceInv
<1>4. CASE SyncReactions
  <2>1. /\ poll.pc = "reactions" /\ poll'.msg = poll.msg /\ Reading
        /\ UNCHANGED <<editTimes, part, passed, teams>>
        /\ "change" \in overlooked => "change" \in overlooked'
        /\ portalq' = portalq \/ Queue("reactions", poll.msg)
    BY <1>0, <1>4 DEF SyncReactions, database, TypeOK, Reading
  <2>2. CASE portalq' = portalq
    BY <1>0, <2>1, <2>2, ChangeKept
  <2>3. CASE Queue("reactions", poll.msg)
    BY <2>1, <2>3, ChangeQueued
  <2> QED
    BY <2>1, <2>2, <2>3
<1>5. CASE SyncChange
  BY <1>5, ChangeSynced
<1>6. CASE ChangeLookupFails \/ Restart
  <2>1. editTimes' = 0
    BY <1>6 DEF ChangeLookupFails, Forget, Restart
  <2>2. /\ MaxTime \in Nat /\ Deleted = MaxTime + 1
    BY ConstantsAssumption DEF Deleted
  <2>3. editTimes' # Deleted /\ ~(editTimes' \in 1 .. MaxTime)
    BY <2>1, <2>2
  <2> QED
    BY <2>1, <2>3 DEF ChangeInv, EditNoted, DeleteNoted
<1>7. CASE Handle
  BY <1>7, ChangeHandle
<1> QED
  BY <1>1, <1>2, <1>3, <1>4, <1>5, <1>6, <1>7 DEF Next, Poll, Matrix

(* The last event with reactions that waits has the reactions r. *)
Last(r) ==
    \E i \in 1 .. Len(portalq) :
        /\ portalq[i].type = "reactions" /\ portalq[i].msg.reactions = r
        /\ \A j \in i + 1 .. Len(portalq) : portalq[j].type # "reactions"

(* The database shows r, and perhaps the user's own reaction from Matrix; then *)
(* Teams has gone on from r, and the next poll finds a new state.              *)
Shown(r) ==
    /\ ~Waits("reactions")
    /\ {u \in User : r[u] > 0} \subseteq reacted
    /\ reacted \subseteq {u \in User : r[u] > 0} \cup {Self}
    /\ r[Self] = 0 /\ (asked \/ Self \in reacted) => teams.reactions # r

Gone == ~Waits("reactions") /\ Lost

ReactInv ==
    /\ reactionSigs # {} => passed \/ poll.pc = "advance"
    /\ asked => part.there
    /\ ~part.there => reacted = {}
    /\ \A u \in User : poll.msg.reactions[u] <= now /\ teams.reactions[u] <= now
    /\ \A r \in reactionSigs :
        /\ \A u \in User : r[u] <= now
        /\ "reactions" \in overlooked \/ Last(r) \/ Shown(r) \/ Gone

LEMMA ReactTypes ==
    ASSUME TypeOK
    PROVE  /\ now \in Nat /\ teams.reactions \in [User -> Nat] /\ poll.msg.reactions \in [User -> Nat]
           /\ reactionSigs \subseteq [User -> Nat] /\ reacted \subseteq User
           /\ part.there \in BOOLEAN /\ Self \in User /\ portalq \in Seq(Event)
           /\ \A i \in 1 .. Len(portalq) : portalq[i].msg.reactions \in [User -> Nat]
<1>1. \A t \in Time : t \in Nat
  BY ConstantsAssumption DEF Time
<1>2. \A m \in Message : m.reactions \in [User -> Nat]
  BY <1>1 DEF Message
<1>3. \A i \in 1 .. Len(portalq) : portalq[i].msg \in Message
  <2>1. \A i \in 1 .. Len(portalq) : portalq[i] \in Event
    BY DEF TypeOK
  <2> QED
    BY <2>1 DEF Event
<1>4. teams \in Message /\ poll.msg \in Message /\ part.there \in BOOLEAN /\ now \in Nat
  BY <1>1 DEF TypeOK
<1>5. reactionSigs \subseteq [User -> Nat]
  BY <1>1 DEF TypeOK
<1> QED
  BY <1>2, <1>3, <1>4, <1>5, ConstantsAssumption DEF TypeOK

LEMMA ReactStart ==
    ASSUME Init
    PROVE  ChangeInv /\ ReactInv
<1>1. editTimes = 0 /\ reactionSigs = {} /\ ~asked /\ reacted = {} /\ TypeOK
  BY TypeStart DEF Init
<1>2. \A u \in User : poll.msg.reactions[u] <= now /\ teams.reactions[u] <= now
  BY DEF Init, Posted, Idle
<1> QED
  BY <1>1, <1>2, ChangeUnnoted DEF ReactInv

(* A step that leaves the events, the message and what is recorded alone. *)
LEMMA ReactKept ==
    ASSUME DeleteInv, ReactInv, UNCHANGED <<portalq, part, reactionSigs>>,
           now' \in {now, now + 1},
           (passed \/ poll.pc = "advance") => (passed' \/ poll'.pc = "advance"),
           asked' => part.there,
           reacted' = reacted \/ (part.there /\ reacted' = reacted \cup {Self}),
           \A u \in User : poll'.msg.reactions[u] <= now' /\ teams'.reactions[u] <= now',
           "reactions" \in overlooked => "reactions" \in overlooked',
           \A r \in reactionSigs :
              \/ "reactions" \in overlooked'
              \/ teams'.reactions # r
              \/ r[Self] # 0
              \/ (asked' \/ Self \in reacted') => teams'.reactions = teams.reactions /\ (asked \/ Self \in reacted)
    PROVE  ReactInv'
<1>1. reactionSigs \subseteq [User -> Nat] /\ now \in Nat /\ Self \in User
  BY ReactTypes DEF DeleteInv
<1>2. ASSUME NEW r \in reactionSigs, NEW u \in User
      PROVE  r[u] <= now'
  <2>1. r[u] <= now /\ r[u] \in Nat
    BY <1>1 DEF ReactInv
  <2> QED
    BY <1>1, <2>1
<1>3. ASSUME NEW r \in reactionSigs
      PROVE  "reactions" \in overlooked' \/ Last(r)' \/ Shown(r)' \/ Gone'
  <2>1. "reactions" \in overlooked \/ Last(r) \/ Shown(r) \/ Gone
    BY DEF ReactInv
  <2>2. CASE Last(r)
    BY <2>2 DEF Last
  <2>3. CASE Gone
    BY <2>3 DEF Gone, Lost, Waits
  <2>4. CASE Shown(r)
    BY <2>4 DEF Shown, Waits
  <2> QED
    BY <2>1, <2>2, <2>3, <2>4
<1> QED
  BY <1>2, <1>3 DEF ReactInv

(* An event that brings no reactions is queued. *)
LEMMA ReactQueued ==
    ASSUME DeleteInv, ReactInv, NEW type, Queue(type, poll.msg), type # "reactions",
           type = "message" => reactionSigs = {},
           UNCHANGED <<now, teams, part, reactionSigs, passed, asked, reacted>>,
           "reactions" \in overlooked => "reactions" \in overlooked',
           poll.pc # "advance",
           \A u \in User : poll'.msg.reactions[u] <= now'
    PROVE  ReactInv'
<1>1. /\ Len(portalq) \in Nat /\ Len(portalq') = Len(portalq) + 1
      /\ \A i \in 1 .. Len(portalq) : portalq'[i] = portalq[i]
      /\ portalq'[Len(portalq) + 1].type = type
  BY Appended, ReactTypes DEF DeleteInv
<1>2. \A i \in 1 .. Len(portalq') : i \in 1 .. Len(portalq) \/ portalq'[i].type = type
  BY <1>1
<1>3. \A i \in 1 .. Len(portalq) : i \in 1 .. Len(portalq')
  BY <1>1
<1>4. Waits("reactions")' => Waits("reactions")
  BY <1>1, <1>2 DEF Waits
<1>5. ASSUME NEW r \in reactionSigs
      PROVE  "reactions" \in overlooked' \/ Last(r)' \/ Shown(r)' \/ Gone'
  <2>1. "reactions" \in overlooked \/ Last(r) \/ Shown(r) \/ Gone
    BY DEF ReactInv
  <2>2. ASSUME Last(r)
        PROVE  Last(r)'
    <3>1. PICK i \in 1 .. Len(portalq) :
             /\ portalq[i].type = "reactions" /\ portalq[i].msg.reactions = r
             /\ \A j \in i + 1 .. Len(portalq) : portalq[j].type # "reactions"
      BY <2>2 DEF Last
    <3>2. ASSUME NEW j \in i + 1 .. Len(portalq')
          PROVE  portalq'[j].type # "reactions"
      <4>1. j \in 1 .. Len(portalq')
        BY <1>1
      <4>2. CASE j \in 1 .. Len(portalq)
        <5>1. j \in i + 1 .. Len(portalq)
          BY <1>1, <4>2
        <5> QED
          BY <1>1, <3>1, <4>2, <5>1
      <4> QED
        BY <1>2, <4>1, <4>2
    <3> QED
      BY <1>1, <1>3, <3>1, <3>2 DEF Last
  <2>3. CASE Gone
    <3>1. Lost'
      BY <1>1, <1>2, <2>3 DEF Gone, Lost
    <3> QED
      BY <1>4, <2>3, <3>1 DEF Gone
  <2>4. CASE Shown(r)
    BY <1>4, <2>4 DEF Shown
  <2> QED
    BY <2>1, <2>2, <2>3, <2>4
<1> QED
  BY <1>5 DEF ReactInv

(* The poller records the reactions it fetched. *)
LEMMA ReactSynced ==
    ASSUME DeleteInv, ReactInv, SyncReactions
    PROVE  ReactInv'
<1> DEFINE r == poll.msg.reactions
<1>0. /\ r \in [User -> Nat] /\ reacted \subseteq User /\ portalq \in Seq(Event) /\ Self \in User
      /\ \A u \in User : r[u] <= now
  BY ReactTypes DEF DeleteInv, ReactInv
<1>1. /\ reactionSigs' = {r} /\ poll'.msg = poll.msg
      /\ poll.pc = "reactions" /\ poll'.pc = IF passed THEN "change" ELSE "advance"
      /\ UNCHANGED <<now, teams, part, passed, asked, reacted>>
  BY DEF SyncReactions, DeleteInv, TypeOK, database
<1>2. "reactions" \in overlooked' \/ Last(r)' \/ Shown(r)' \/ Gone'
  <2>1. CASE Queue("reactions", poll.msg)
    <3>1. /\ Len(portalq) \in Nat /\ Len(portalq') = Len(portalq) + 1
          /\ portalq'[Len(portalq) + 1].type = "reactions" /\ portalq'[Len(portalq) + 1].msg = poll.msg
      BY <1>0, <2>1, Appended
    <3>2. /\ Len(portalq) + 1 \in 1 .. Len(portalq')
          /\ \A j \in Len(portalq) + 1 + 1 .. Len(portalq') : FALSE
      BY <3>1
    <3> QED
      BY <1>1, <3>1, <3>2 DEF Last
  <2>2. CASE ~ReactionStateChanged(poll.msg)
    <3>1. r \in reactionSigs /\ portalq' = portalq /\ overlooked' = overlooked
      BY <2>2 DEF ReactionStateChanged, SyncReactions
    <3>2. "reactions" \in overlooked \/ Last(r) \/ Shown(r) \/ Gone
      BY <3>1 DEF ReactInv
    <3>3. CASE Last(r)
      BY <1>1, <3>1, <3>3 DEF Last
    <3>4. CASE Shown(r)
      BY <1>1, <3>1, <3>4 DEF Shown, Waits
    <3>5. CASE Gone
      BY <1>1, <3>1, <3>5 DEF Gone, Lost, Waits
    <3> QED
      BY <3>1, <3>2, <3>3, <3>4, <3>5
  <2>3. CASE /\ Reactors(poll.msg) = {} /\ portalq' = portalq
             /\ reacted = {} /\ ~asked /\ ~Waits("reactions")
    <3>1. {u \in User : r[u] > 0} = {}
      BY <2>3 DEF Reactors
    <3> QED
      BY <1>1, <2>3, <3>1 DEF Shown, Waits
  <2>4. \/ Queue("reactions", poll.msg)
        \/ ~ReactionStateChanged(poll.msg)
        \/ "reactions" \in overlooked'
        \/ /\ Reactors(poll.msg) = {} /\ portalq' = portalq
           /\ reacted = {} /\ ~asked /\ ~Waits("reactions")
    BY DEF SyncReactions
  <2> QED
    BY <2>1, <2>2, <2>3, <2>4
<1> QED
  BY <1>0, <1>1, <1>2 DEF ReactInv

LEMMA ReactHandle ==
    ASSUME DeleteInv, OrderedInv, ReactInv, Handle
    PROVE  ReactInv'
<1> DEFINE e == portalq[1]
<1>0. TypeOK /\ portalq \in Seq(Event) /\ reacted \subseteq User
  BY DEF DeleteInv, TypeOK
<1>1. /\ Len(portalq) \in Nat \ {0} /\ Len(portalq') = Len(portalq) - 1 /\ e = Head(portalq)
      /\ \A i \in 1 .. Len(portalq') : portalq'[i] = portalq[i + 1] /\ i + 1 \in 2 .. Len(portalq)
      /\ UNCHANGED <<now, teams, passed, poll, reactionSigs, asked, overlooked>> /\ ~asked
  BY <1>0, Handled
<1>2. \/ /\ e.type = "delete" /\ part' = NotBridged
      \/ /\ e.type = "message" /\ ~part.there /\ ~e.msg.deleted /\ part'.there
      \/ /\ e.type = "edit" /\ part.there /\ part'.there
      \/ /\ part' = part /\ e.type # "delete"
         /\ e.type = "message" => part.there \/ e.msg.deleted
  BY <1>0, HandledPart
<1>3. reacted' = IF e.type = "delete" THEN {}
                 ELSE IF e.type = "reactions" /\ part.there THEN Reactors(e.msg) ELSE reacted
  BY <1>1 DEF Handle
<1>4. 1 \in 1 .. Len(portalq) /\ \A i \in 1 .. Len(portalq') : i + 1 \in 1 .. Len(portalq)
  BY <1>1
<1>5. \A i \in 1 .. Len(portalq) : i = 1 \/ (i - 1 \in 1 .. Len(portalq') /\ portalq'[i - 1] = portalq[i])
  <2>1. \A i \in 2 .. Len(portalq) : i - 1 \in 1 .. Len(portalq') /\ (i - 1) + 1 = i
    BY <1>1
  <2> QED
    BY <1>1, <2>1
<1>6. \A i \in 1 .. Len(portalq') : portalq'[i].type # "message"
  BY <1>1 DEF OrderedInv, MessageFirst
<1>7. Waits("reactions")' => Waits("reactions")
  BY <1>1, <1>4 DEF Waits
<1>8. ~part'.there => reacted' = {}
  <2>1. ~part'.there => ~part.there \/ e.type = "delete"
    BY <1>2
  <2> QED
    BY <1>3, <2>1 DEF ReactInv
<1>9. ~part'.there => Lost'
  BY <1>6 DEF Lost
<1>10. ASSUME NEW r \in reactionSigs
       PROVE  "reactions" \in overlooked \/ Last(r)' \/ Shown(r)' \/ Gone'
  <2>1. "reactions" \in overlooked \/ Last(r) \/ Shown(r) \/ Gone
    BY DEF ReactInv
  <2>2. ASSUME NEW i \in 1 .. Len(portalq), portalq[i].type = "reactions", portalq[i].msg.reactions = r,
               \A j \in i + 1 .. Len(portalq) : portalq[j].type # "reactions"
        PROVE  Last(r)' \/ Shown(r)' \/ Gone'
    <3>1. CASE i = 1
      <4>1. ~Waits("reactions")'
        BY <1>1, <2>2, <3>1 DEF Waits
      <4>2. CASE part'.there
        <5>1. part.there /\ reacted' = {u \in User : r[u] > 0}
          BY <1>2, <1>3, <2>2, <3>1, <4>2 DEF Reactors
        <5>2. r[Self] = 0 => Self \notin reacted'
          BY <5>1
        <5> QED
          BY <1>1, <4>1, <5>1, <5>2 DEF Shown
      <4>3. CASE ~part'.there
        BY <1>9, <4>1, <4>3 DEF Gone
      <4> QED
        BY <4>2, <4>3
    <3>2. CASE i # 1
      <4>1. i - 1 \in 1 .. Len(portalq') /\ portalq'[i - 1] = portalq[i]
        BY <1>5, <3>2
      <4>2. ASSUME NEW j \in (i - 1) + 1 .. Len(portalq')
            PROVE  portalq'[j].type # "reactions"
        <5>1. j \in 1 .. Len(portalq') /\ j + 1 \in i + 1 .. Len(portalq)
          BY <1>1, <4>1
        <5> QED
          BY <1>1, <2>2, <5>1
      <4> QED
        BY <2>2, <4>1, <4>2 DEF Last
    <3> QED
      BY <3>1, <3>2
  <2>3. CASE Shown(r)
    <3>1. e.type # "reactions" /\ ~Waits("reactions")'
      BY <1>4, <1>7, <2>3 DEF Shown, Waits
    <3>2. CASE part'.there
      <4>1. reacted' = reacted
        BY <1>2, <1>3, <3>1, <3>2 DEF NotBridged
      <4> QED
        BY <1>1, <2>3, <3>1, <4>1 DEF Shown
    <3>3. CASE ~part'.there
      BY <1>9, <3>1, <3>3 DEF Gone
    <3> QED
      BY <3>2, <3>3
  <2>4. CASE Gone
    <3>1. ~part'.there
      BY <1>2, <1>4, <2>4 DEF Gone, Lost, NotBridged
    <3> QED
      BY <1>7, <1>9, <2>4, <3>1 DEF Gone
  <2> QED
    BY <2>1, <2>2, <2>3, <2>4 DEF Last
<1>11. /\ reactionSigs' # {} => passed' \/ poll'.pc = "advance"
       /\ asked' => part'.there
       /\ \A u \in User : poll'.msg.reactions[u] <= now' /\ teams'.reactions[u] <= now'
       /\ \A r \in reactionSigs' : \A u \in User : r[u] <= now'
  BY <1>1 DEF ReactInv
<1> QED
  BY <1>1, <1>8, <1>10, <1>11 DEF ReactInv

(* What people do on Teams, or the user on Matrix. *)
LEMMA ReactTeams ==
    ASSUME DeleteInv, ReactInv,
           \/ Edit \/ Delete \/ HandleMatrixReaction
           \/ \E u \in User : React(u) \/ Unreact(u)
    PROVE  ReactInv'
<1>1. /\ teams \in Message /\ now \in Nat /\ teams.reactions \in [User -> Nat]
      /\ poll.msg.reactions \in [User -> Nat] /\ Self \in User /\ reactionSigs \subseteq [User -> Nat]
  BY ReactTypes DEF DeleteInv, TypeOK
<1>2. /\ UNCHANGED <<portalq, part, reactionSigs, passed, poll, reacted>> /\ now' = now + 1
      /\ "reactions" \in overlooked => "reactions" \in overlooked'
  BY DEF Edit, Delete, React, Unreact, HandleMatrixReaction, Change, Changed, memory, database
<1>3. asked' => part.there
  BY DEF Edit, Delete, React, Unreact, HandleMatrixReaction, Change, ReactInv
<1>4. \A u \in User : /\ poll.msg.reactions[u] \in Nat /\ poll.msg.reactions[u] <= now
                      /\ teams.reactions[u] \in Nat /\ teams.reactions[u] <= now
  BY <1>1 DEF ReactInv
<1>5. \A r \in reactionSigs : \A u \in User : r[u] \in Nat /\ r[u] <= now
  BY <1>1 DEF ReactInv
<1>6. CASE Edit \/ Delete
  <2>1. teams'.reactions = teams.reactions /\ asked' = asked
    BY <1>1, <1>6 DEF Edit, Delete, Change, Changed, Message
  <2>2. \A u \in User : poll'.msg.reactions[u] <= now' /\ teams'.reactions[u] <= now'
    BY <1>1, <1>2, <1>4, <2>1
  <2> QED
    BY <1>2, <1>3, <2>1, <2>2, ReactKept
<1>7. ASSUME NEW u \in User, teams'.reactions = [teams.reactions EXCEPT ![u] = now + 1]
      PROVE  ReactInv'
  <2>1. teams'.reactions[u] = now + 1 /\ \A v \in User : v # u => teams'.reactions[v] = teams.reactions[v]
    BY <1>1, <1>7
  <2>2. \A v \in User : poll'.msg.reactions[v] <= now' /\ teams'.reactions[v] <= now'
    BY <1>1, <1>2, <1>4, <2>1
  <2>3. \A r \in reactionSigs : teams'.reactions # r
    BY <1>1, <1>5, <2>1
  <2> QED
    BY <1>2, <1>3, <2>2, <2>3, ReactKept
<1>8. ASSUME NEW u \in User, Unreact(u)
      PROVE  ReactInv'
  <2>1. teams'.reactions = [teams.reactions EXCEPT ![u] = 0] /\ asked' = asked
    BY <1>1, <1>8 DEF Unreact, Changed, Message
  <2>2. \A v \in User : teams'.reactions[v] = 0 \/ teams'.reactions[v] = teams.reactions[v]
    BY <1>1, <2>1
  <2>3. \A v \in User : poll'.msg.reactions[v] <= now' /\ teams'.reactions[v] <= now'
    BY <1>1, <1>2, <1>4, <2>2
  <2>4. /\ teams'.reactions \in reactionSigs
        /\ teams'.reactions[Self] = 0
        /\ asked \/ Self \in reacted
        => "reactions" \in overlooked'
    BY <1>1, <1>8 DEF Unreact, Changed, Reactors
  <2> QED
    BY <1>2, <1>3, <2>1, <2>3, <2>4, ReactKept
<1>9. CASE HandleMatrixReaction
  <2>1. teams'.reactions = [teams.reactions EXCEPT ![Self] = now + 1]
    BY <1>1, <1>9 DEF HandleMatrixReaction, Changed, Message
  <2> QED
    BY <1>1, <1>7, <2>1
<1>10. ASSUME NEW u \in User, React(u)
       PROVE  ReactInv'
  <2>1. teams'.reactions = [teams.reactions EXCEPT ![u] = now + 1]
    BY <1>1, <1>10 DEF React, Change, Changed, Message
  <2> QED
    BY <1>7, <2>1
<1> QED
  BY <1>6, <1>8, <1>9, <1>10

LEMMA ReactStep ==
    ASSUME DeleteInv, OrderedInv, ChangeInv, ReactInv, [Next]_vars
    PROVE  ReactInv'
<1>0. /\ TypeOK /\ PlaceInv /\ now \in Nat
      /\ \A u \in User : poll.msg.reactions[u] <= now /\ teams.reactions[u] <= now
  BY ReactTypes DEF DeleteInv, ReactInv
<1>1. CASE Teams \/ HandleMatrixReaction \/ HandleMatrixEdit \/ HandleMatrixMessageRemove
           \/ HandleMatrixReactionRemove
  <2>1. \/ Edit \/ Delete \/ HandleMatrixReaction
        \/ \E u \in User : React(u) \/ Unreact(u)
    BY <1>1, ConstantsAssumption
    DEF Teams, HandleMatrixEdit, HandleMatrixMessageRemove, HandleMatrixReactionRemove
  <2> QED
    BY <2>1, ReactTeams
<1>2. CASE Fetch \/ SkipChange \/ ChangeLookupFails \/ Advance \/ SaveCursor \/ UNCHANGED vars
  <2>1. /\ UNCHANGED <<now, portalq, part, reactionSigs, reacted, teams, overlooked, asked>>
        /\ \/ poll' = poll \/ poll' = Idle \/ poll'.msg = teams
    BY <1>2 DEF Fetch, SkipChange, ChangeLookupFails, Advance, SaveCursor, vars, memory, database
  <2>2. passed \/ poll.pc = "advance" => passed' \/ poll'.pc = "advance"
    BY <1>2 DEF Fetch, SkipChange, ChangeLookupFails, Advance, SaveCursor, vars, memory, database
  <2>3. \A u \in User : Idle.msg.reactions[u] = 0
    BY DEF Idle, Posted
  <2>4. \A u \in User : poll'.msg.reactions[u] <= now' /\ teams'.reactions[u] <= now'
    BY <1>0, <2>1, <2>3
  <2> QED
    BY <2>1, <2>2, <2>4, ReactKept DEF ReactInv
<1>3. CASE AddReaction
  <2>1. /\ UNCHANGED <<now, portalq, part, reactionSigs, teams, overlooked, passed, poll>>
        /\ asked /\ ~asked' /\ reacted' \in {reacted, reacted \cup {Self}}
    BY <1>3 DEF AddReaction, memory
  <2> QED
    BY <1>0, <2>1, ReactKept DEF ReactInv
<1>4. CASE QueueMessage
  <2>1. /\ poll.pc = "message" /\ poll'.msg = poll.msg
        /\ Queue("message", poll.msg)
        /\ UNCHANGED <<now, teams, part, reactionSigs, passed, asked, reacted, overlooked>>
    BY <1>0, <1>4 DEF QueueMessage, database, TypeOK
  <2>2. reactionSigs = {}
    BY <1>0, <2>1 DEF ReactInv, PlaceInv
  <2> QED
    BY <1>0, <2>1, <2>2, ReactQueued
<1>5. CASE SyncReactions
  BY <1>5, ReactSynced
<1>6. CASE SyncChange
  <2>1. /\ UNCHANGED <<now, teams, part, reactionSigs, passed, asked, reacted>>
        /\ poll.pc = "change" /\ passed /\ poll' = Idle
        /\ "reactions" \in overlooked => "reactions" \in overlooked'
    BY <1>0, <1>6 DEF SyncChange, database, PlaceInv
  <2>2. \A u \in User : poll'.msg.reactions[u] <= now'
    BY <1>0, <2>1 DEF Idle, Posted
  <2>3. CASE portalq' = portalq
    BY <1>0, <2>1, <2>2, <2>3, ReactKept DEF ReactInv
  <2>4. CASE Queue("edit", poll.msg)
    BY <2>1, <2>2, <2>4, ReactQueued
  <2>5. CASE Queue("delete", poll.msg)
    BY <2>1, <2>2, <2>5, ReactQueued
  <2> QED
    BY <1>6, <2>3, <2>4, <2>5 DEF SyncChange
<1>7. CASE Restart
  <2>1. /\ UNCHANGED <<now, teams, part, reacted>> /\ reactionSigs' = {} /\ ~asked' /\ poll' = Idle
    BY <1>7 DEF Restart, database
  <2>2. \A u \in User : poll'.msg.reactions[u] <= now'
    BY <1>0, <2>1 DEF Idle, Posted
  <2> QED
    BY <1>0, <2>1, <2>2 DEF ReactInv
<1>8. CASE Handle
  BY <1>8, ReactHandle
<1> QED
  BY <1>1, <1>2, <1>3, <1>4, <1>5, <1>6, <1>7, <1>8 DEF Next, Poll, Matrix

(* When a poll is over, no event waits, and the memory holds the state the     *)
(* message has on Teams, Matrix shows that state, or it was overlooked: the    *)
(* memory says "seen" of nothing that is still to be bridged                   *)
(* (messageStateChanged, reactionStateChanged, forgetMessageState).            *)
SeenIsBridged ==
    passed /\ ~Reading /\ portalq = <<>> =>
        /\ Signature(teams) \in {0, editTimes} => ChangesInSync \/ "change" \in overlooked
        /\ teams.reactions \in reactionSigs => ReactionsInSync \/ "reactions" \in overlooked

SyncInv == DeleteInv /\ OrderedInv /\ ChangeInv /\ ReactInv

LEMMA SyncSeen ==
    ASSUME SyncInv
    PROVE  SeenIsBridged
<1> SUFFICES ASSUME passed, portalq = <<>>
             PROVE  /\ Signature(teams) \in {0, editTimes} => ChangesInSync \/ "change" \in overlooked
                    /\ teams.reactions \in reactionSigs => ReactionsInSync \/ "reactions" \in overlooked
  BY DEF SeenIsBridged
<1> USE DEF SyncInv
<1>1. Len(portalq) = 0 /\ \A i \in 1 .. Len(portalq) : FALSE
  OBVIOUS
<1>2. Lost <=> ~part.there
  BY <1>1 DEF Lost
<1>3. /\ teams.edit \in Nat /\ part.edit \in Nat /\ part.edit <= teams.edit /\ part.there \in BOOLEAN
      /\ Queued /\ (~part.there => teams.deleted) /\ TypeOK
  BY <1>2, SyncTypes DEF DeleteInv, OrderedInv, EditsOrdered, LostInv, Queued
<1>4. ASSUME Signature(teams) \in {0, editTimes}, "change" \notin overlooked
      PROVE  ChangesInSync
  <2>1. CASE teams.deleted
    <3>1. editTimes = Deleted
      BY <1>3, <1>4, <2>1, EditTimesTyped DEF Signature
    <3> QED
      BY <1>1, <1>2, <1>4, <2>1, <3>1 DEF ChangeInv, DeleteNoted, Waits, ChangesInSync
  <2>2. CASE ~teams.deleted /\ teams.edit = 0
    BY <1>3, <2>2 DEF ChangesInSync
  <2>3. CASE ~teams.deleted /\ teams.edit # 0
    <3>1. editTimes = teams.edit
      BY <1>4, <2>3 DEF Signature
    <3>2. editTimes \in 1 .. MaxTime
      BY <1>3, <2>3, <3>1, ConstantsAssumption DEF TypeOK, Message, Time
    <3> QED
      BY <1>1, <1>4, <2>3, <3>1, <3>2 DEF ChangeInv, EditNoted, ChangesInSync
  <2> QED
    BY <2>1, <2>2, <2>3
<1>5. ASSUME teams.reactions \in reactionSigs, "reactions" \notin overlooked
      PROVE  ReactionsInSync
  <2>1. Shown(teams.reactions) \/ ~part.there
    BY <1>1, <1>2, <1>5 DEF ReactInv, Last, Gone
  <2>2. teams.reactions[Self] \in Nat
    BY <1>3, ReactTypes
  <2> SUFFICES ASSUME part.there
               PROVE  reacted = Reactors(teams)
    BY DEF ReactionsInSync
  <2>3. Shown(teams.reactions)
    BY <2>1
  <2>4. Self \in reacted => teams.reactions[Self] > 0
    BY <2>2, <2>3 DEF Shown
  <2>5. reacted \subseteq User /\ Self \in User
    BY <1>3, ReactTypes
  <2>6. Reactors(teams) \subseteq reacted
    BY <2>3 DEF Shown, Reactors
  <2>7. reacted \subseteq Reactors(teams)
    BY <2>3, <2>4, <2>5 DEF Shown, Reactors
  <2> QED
    BY <2>6, <2>7
<1> QED
  BY <1>4, <1>5

(* Every state between two polls in which all has been handled is as the       *)
(* liveness properties want it, whatever order changes, polls, answers,        *)
(* handlings and restarts come in.                                             *)
THEOREM SeenMeansBridged == Spec => []SeenIsBridged
<1>1. Init => SyncInv
  BY DeleteStart, OrderedStart, ReactStart DEF SyncInv
<1>2. SyncInv /\ [Next]_vars => SyncInv'
  BY DeleteStep, OrderedStep, ChangeStep, ReactStep DEF SyncInv
<1>3. SyncInv => SeenIsBridged
  BY SyncSeen
<1> QED
  BY <1>1, <1>2, <1>3, PTL DEF Spec
=============================================================================
