-------------------------- MODULE ReadReceiptsProofs --------------------------
(***************************************************************************)
(* Proofs about ReadReceipts, for every value of its constants: the types, *)
(* that the unread mark lasts until Teams has been told, that nothing runs *)
(* ahead of Teams, and that what is stored as sent is shown on Matrix.     *)
(***************************************************************************)
EXTENDS ReadReceipts, TLAPS

-----------------------------------------------------------------------------
(* The inductive invariant *)

\* What waits to be bridged has been polled.
QueuedPolled ==
    \A i \in 1 .. Len(portalq) : portalq[i].kind = "message" => portalq[i].at <= polled

ReceiptInv ==
    /\ TypeOK
    /\ QueuedPolled
    /\ UnreadRemembered

-----------------------------------------------------------------------------
(* Types *)

LEMMA Numbers ==
    ASSUME TypeOK
    PROVE  /\ Time \subseteq Nat /\ 0 \in Time /\ Self \in User /\ Other \subseteq User
           /\ clock \in Nat /\ polled \in Nat /\ bridged \in Nat /\ forgotten \in Nat
           /\ handler.now \in Nat /\ horizon[Self] \in Nat
           /\ posted \subseteq Nat
  <1>1. Time \subseteq Nat /\ 0 \in Time /\ Self \in User /\ Other \subseteq User
    BY ConstantsAssumption DEF Time, User
  <1>2. clock \in Time /\ polled \in Time /\ bridged \in Time /\ forgotten \in Time
        /\ handler \in Handler /\ horizon \in [User -> Time] /\ posted \subseteq 1 .. clock
    BY DEF TypeOK
  <1>3. handler.now \in Time /\ horizon[Self] \in Time
    BY <1>1, <1>2 DEF Handler
  <1>4. 1 .. clock \subseteq Nat
    BY <1>1, <1>2
  <1> QED
    BY <1>1, <1>2, <1>3, <1>4

LEMMA LaterType == \A a, b \in Time : Later(a, b) \in Time
  BY DEF Later

LEMMA IdleType == Idle \in Poll /\ Idle.pc = "idle" /\ NoReceipt \in Handler /\ NoReceipt.pc = "idle"
  BY ConstantsAssumption DEF Idle, Poll, NoReceipt, Handler, User, Time

LEMMA StampType ==
    ASSUME clock \in Time
    PROVE  Stamp \in Time /\ clock <= Stamp
  BY ConstantsAssumption DEF Stamp, Time

LEMMA TypeInit == Init => TypeOK /\ QueuedPolled
  <1> SUFFICES ASSUME Init PROVE TypeOK /\ QueuedPolled
    OBVIOUS
  <1> USE ConstantsAssumption
  <1>1. /\ clock \in Time /\ polled \in Time /\ bridged \in Time /\ inbox \subseteq Time
        /\ readInTeams \in Time /\ recorded \in Time /\ forgotten \in Time
        /\ bridged <= polled /\ polled <= clock /\ restarts \in 0 .. MaxRestarts
    BY DEF Init, Time
  <1>2. /\ horizon \in [User -> Time] /\ stored \in [User -> Time] /\ shown \in [User -> Time]
        /\ dropped \in [User -> Time]
    BY DEF Init, Time
  <1>3. poll \in Poll /\ handler \in Handler
    BY IdleType DEF Init
  <1>4. portalq = <<>> /\ portalq \in Seq(Event) /\ Len(portalq) = 0 /\ Len(portalq) <= Buffer
    BY DEF Init
  <1>5. posted \subseteq 1 .. clock /\ own \subseteq posted /\ puppet \in BOOLEAN /\ unread \in BOOLEAN
    BY DEF Init
  <1> QED
    BY <1>1, <1>2, <1>3, <1>4, <1>5 DEF TypeOK, QueuedPolled

\* What the poll pass does to its own record.
LEMMA PollTypes ==
    ASSUME TypeOK, NEW u \in User, NEW t \in Time
    PROVE  /\ \A pc \in {"idle", "mark", "sync", "store"} :
                [poll EXCEPT !.pc = pc, !.msg = t] \in Poll
           /\ [poll EXCEPT !.pc = "sync", !.seen = horizon] \in Poll
           /\ [poll EXCEPT !.pc = "store", !.of = u] \in Poll
           /\ [poll EXCEPT !.seen[u] = 0] \in Poll
           /\ [poll EXCEPT !.pc = "sync", !.seen[poll.of] = 0, !.of = Self] \in Poll
           /\ poll.seen[u] \in Time /\ poll.of \in User
  <1>1. poll \in Poll /\ horizon \in [User -> Time] /\ 0 \in Time /\ Self \in User
    BY Numbers DEF TypeOK
  <1>2. poll.seen \in [User -> Time] /\ poll.of \in User
    BY <1>1 DEF Poll
  <1>3. [poll.seen EXCEPT ![u] = 0] \in [User -> Time]
        /\ [poll.seen EXCEPT ![poll.of] = 0] \in [User -> Time]
    BY <1>1, <1>2
  <1>4. [poll EXCEPT !.seen[u] = 0] = [poll EXCEPT !.seen = [poll.seen EXCEPT ![u] = 0]]
    BY <1>1 DEF Poll
  <1>5. [poll EXCEPT !.pc = "sync", !.seen[poll.of] = 0, !.of = Self] =
            [poll EXCEPT !.pc = "sync", !.seen = [poll.seen EXCEPT ![poll.of] = 0], !.of = Self]
    BY <1>1 DEF Poll
  <1>6. /\ \A pc \in {"idle", "mark", "sync", "store"} :
                [poll EXCEPT !.pc = pc, !.msg = t] \in Poll
        /\ [poll EXCEPT !.pc = "sync", !.seen = horizon] \in Poll
        /\ [poll EXCEPT !.pc = "store", !.of = u] \in Poll
    BY <1>1 DEF Poll
  <1>7. [poll EXCEPT !.seen[u] = 0] \in Poll
    BY <1>1, <1>3, <1>4 DEF Poll
  <1>8. [poll EXCEPT !.pc = "sync", !.seen[poll.of] = 0, !.of = Self] \in Poll
    BY <1>1, <1>3, <1>5 DEF Poll
  <1> QED
    BY <1>2, <1>6, <1>7, <1>8

\* The portal's queue gains an event at its end.
LEMMA Queued ==
    ASSUME TypeOK, QueuedPolled, NEW e \in Event, portalq' = Append(portalq, e),
           Len(portalq) < Buffer, polled' >= polled, polled' \in Nat,
           e.kind = "message" => e.at <= polled'
    PROVE  portalq' \in Seq(Event) /\ Len(portalq') <= Buffer /\ QueuedPolled'
  <1>1. portalq \in Seq(Event) /\ Len(portalq) \in Nat /\ polled \in Nat
    BY Numbers DEF TypeOK
  <1>2. /\ portalq' \in Seq(Event) /\ Len(portalq') = Len(portalq) + 1
        /\ portalq'[Len(portalq) + 1] = e
        /\ \A i \in 1 .. Len(portalq) : portalq'[i] = portalq[i]
    BY <1>1
  <1>3. \A i \in 1 .. Len(portalq') : i \in 1 .. Len(portalq) \/ i = Len(portalq) + 1
    BY <1>1, <1>2
  <1>4. \A i \in 1 .. Len(portalq) : portalq[i] \in Event /\ portalq[i].at \in Nat
    <2>1. \A x \in Event : x.at \in Nat
      BY Numbers DEF Event
    <2> QED
      BY <1>1, <2>1
  <1>5. QueuedPolled'
    BY <1>1, <1>2, <1>3, <1>4 DEF QueuedPolled
  <1> QED
    BY <1>1, <1>2, <1>5, ConstantsAssumption

\* ... and loses its first one.
LEMMA Taken ==
    ASSUME TypeOK, QueuedPolled, portalq # <<>>, portalq' = Tail(portalq), polled' = polled
    PROVE  /\ portalq' \in Seq(Event) /\ Len(portalq') <= Buffer /\ QueuedPolled'
           /\ Head(portalq) \in Event
           /\ Head(portalq).kind = "message" => Head(portalq).at <= polled
  <1>1. portalq \in Seq(Event) /\ Len(portalq) \in Nat \ {0} /\ Len(portalq) <= Buffer
    BY DEF TypeOK
  <1>2. /\ portalq' \in Seq(Event) /\ Len(portalq') = Len(portalq) - 1
        /\ \A i \in 1 .. Len(portalq') : portalq'[i] = portalq[i + 1] /\ i + 1 \in 1 .. Len(portalq)
        /\ Head(portalq) = portalq[1] /\ 1 \in 1 .. Len(portalq)
    BY <1>1
  <1>3. QueuedPolled'
    BY <1>2 DEF QueuedPolled
  <1>4. Len(portalq') <= Buffer
    BY <1>1, <1>2, ConstantsAssumption
  <1> QED
    BY <1>1, <1>2, <1>3, <1>4 DEF QueuedPolled

LEMMA TypeNext == TypeOK /\ QueuedPolled /\ [Next]_vars => TypeOK' /\ QueuedPolled'
  <1> SUFFICES ASSUME TypeOK, QueuedPolled, [Next]_vars PROVE TypeOK' /\ QueuedPolled'
    OBVIOUS
  <1> USE DEF teams, matrix, history
  <1>1. CASE QueueMessage
    <2>1. PICK m \in Unpolled :
              /\ portalq' = Append(portalq, [kind |-> "message", at |-> m])
              /\ polled' = m
              /\ poll' = [poll EXCEPT !.pc = "mark", !.msg = m]
      BY <1>1 DEF QueueMessage
    <2>2. m \in Time /\ m \in Nat /\ m > polled /\ m <= clock /\ bridged <= m
      <3>1. m \in 1 .. clock /\ m > polled /\ clock \in Time /\ bridged <= polled
        BY DEF Unpolled, TypeOK
      <3> QED
        BY <3>1, Numbers, ConstantsAssumption DEF Time
    <2>3. [kind |-> "message", at |-> m] \in Event
      BY <2>2 DEF Event
    <2>4. portalq' \in Seq(Event) /\ Len(portalq') <= Buffer /\ QueuedPolled'
      <3>1. polled' >= polled /\ polled' \in Nat
        BY <2>1, <2>2, Numbers
      <3> QED
        BY <1>1, <2>1, <2>2, <2>3, <3>1, Queued DEF QueueMessage
    <2>5. poll' \in Poll
      BY <2>1, <2>2, PollTypes, Numbers
    <2> QED
      BY <1>1, <2>1, <2>2, <2>4, <2>5 DEF QueueMessage, TypeOK
  <1>2. CASE Mark
    <2>1. poll' = [poll EXCEPT !.pc = "idle", !.msg = 0] /\ unread' = (unread \/ poll.msg \notin own)
      BY <1>2 DEF Mark, MarkUnread
    <2>2. poll' \in Poll
      BY <2>1, PollTypes, Numbers
    <2>3. unread' \in BOOLEAN
      BY <2>1
    <2> QED
      BY <1>2, <2>2, <2>3 DEF Mark, TypeOK, QueuedPolled
  <1>3. CASE FetchHorizons
    <2>1. poll' \in Poll
      BY <1>3, PollTypes, Numbers DEF FetchHorizons
    <2> QED
      BY <1>3, <2>1 DEF FetchHorizons, TypeOK, QueuedPolled
  <1>4. ASSUME NEW u \in User, QueueReceipt(u) PROVE TypeOK' /\ QueuedPolled'
    <2>1. poll' \in Poll /\ poll.seen[u] \in Time
      BY <1>4, PollTypes, Numbers DEF QueueReceipt
    <2>2. [kind |-> "receipt", of |-> u, at |-> poll.seen[u]] \in Event
      BY <2>1 DEF Event
    <2>3. portalq' \in Seq(Event) /\ Len(portalq') <= Buffer /\ QueuedPolled'
      <3>1. polled' >= polled /\ polled' \in Nat
        BY <1>4, Numbers DEF QueueReceipt
      <3> QED
        BY <1>4, <2>2, <3>1, Queued DEF QueueReceipt
    <2> QED
      BY <1>4, <2>1, <2>3 DEF QueueReceipt, TypeOK
  <1>5. ASSUME NEW u \in User, Skip(u) PROVE TypeOK' /\ QueuedPolled'
    <2>1. poll' \in Poll
      BY <1>5, PollTypes, Numbers DEF Skip
    <2> QED
      BY <1>5, <2>1 DEF Skip, PassOver, TypeOK, QueuedPolled
  <1>6. CASE Store \/ StoreFail
    <2>1. poll' \in Poll /\ poll.of \in User
      BY <1>6, PollTypes, Numbers DEF Store, StoreFail
    <2>2. poll.seen[poll.of] \in Time
      BY <2>1, PollTypes, Numbers
    <2>3. stored' \in [User -> Time]
      BY <1>6, <2>1, <2>2 DEF Store, StoreFail, UpsertLastRead, TypeOK
    <2> QED
      BY <1>6, <2>1, <2>3 DEF Store, StoreFail, TypeOK, QueuedPolled
  <1>7. CASE EndSync
    BY <1>7, IdleType DEF EndSync, TypeOK, QueuedPolled
  <1>8. CASE Receive
    <2>1. PICK r \in inbox : inbox' = inbox \ {r} /\ Answer(r)
      BY <1>8 DEF Receive
    <2>2. clock \in Time /\ Stamp \in Time /\ clock <= Stamp
      BY StampType DEF TypeOK
    <2>3. clock' \in {clock, Stamp} /\ unread' \in BOOLEAN /\ handler' \in Handler
      <3>1. unread \in BOOLEAN /\ handler \in Handler
        BY DEF TypeOK
      <3>2. [pc |-> "sending", now |-> Stamp] \in Handler
        BY <2>2 DEF Handler
      <3>3. CASE UNCHANGED <<clock, unread, handler>>
        BY <3>1, <3>3
      <3>4. CASE unread' = FALSE /\ clock' = Stamp /\ handler' = [pc |-> "sending", now |-> Stamp]
        BY <3>2, <3>4
      <3> QED
        BY <2>1, <3>3, <3>4 DEF Answer
    <2>4. clock' \in Time /\ polled <= clock' /\ posted \subseteq 1 .. clock'
      BY <2>2, <2>3, Numbers DEF TypeOK
    <2> QED
      BY <1>8, <2>1, <2>3, <2>4 DEF Receive, TypeOK, QueuedPolled
  <1>9. CASE Refuse
    BY <1>9 DEF Refuse, TypeOK, QueuedPolled
  <1>10. CASE Set
    <2>1. handler.now \in Time /\ horizon[Self] \in Time
      BY Numbers DEF TypeOK, Handler
    <2>2. horizon' \in [User -> Time]
      BY <1>10, <2>1, LaterType DEF Set, TypeOK
    <2>3. handler' \in Handler
      BY <1>10, IdleType DEF Set, TypeOK, Handler
    <2> QED
      BY <1>10, <2>2, <2>3 DEF Set, TypeOK, QueuedPolled
  <1>11. CASE SetFail
    <2>1. forgotten' \in Time
      BY <1>11, LaterType DEF SetFail, TypeOK, Handler
    <2> QED
      BY <1>11, <2>1, IdleType DEF SetFail, TypeOK, QueuedPolled
  <1>12. CASE Record
    <2>1. stored' \in [User -> Time] /\ recorded' \in Time
      BY <1>12, LaterType DEF Record, UpsertLastRead, TypeOK, Handler
    <2> QED
      BY <1>12, <2>1, IdleType DEF Record, TypeOK, QueuedPolled
  <1>13. CASE HandleMessage
    <2>1. /\ portalq' \in Seq(Event) /\ Len(portalq') <= Buffer /\ QueuedPolled'
          /\ Head(portalq) \in Event /\ Head(portalq).at <= polled
      BY <1>13, Taken DEF HandleMessage
    <2>2. Head(portalq).at \in Time
      BY <2>1 DEF Event
    <2>3. bridged' \in Time /\ bridged' <= polled
      BY <1>13, <2>1, <2>2, LaterType DEF HandleMessage, TypeOK, Later
    <2> QED
      BY <1>13, <2>1, <2>3 DEF HandleMessage, TypeOK
  <1>14. CASE HandleReceipt
    <2> DEFINE u == Head(portalq).of
               t == Head(portalq).at
    <2>1. /\ portalq' \in Seq(Event) /\ Len(portalq') <= Buffer /\ QueuedPolled'
          /\ Head(portalq) \in Event
      BY <1>14, Taken DEF HandleReceipt
    <2>2. u \in User /\ t \in Time
      BY <1>14, <2>1 DEF HandleReceipt, Event
    <2>3. shown' = [shown EXCEPT ![u] = Later(shown[u], t)]
          /\ (inbox' = inbox \/ inbox' = inbox \cup {t})
      BY <1>14 DEF HandleReceipt
    <2>4. shown' \in [User -> Time] /\ inbox' \subseteq Time
      BY <2>2, <2>3, LaterType DEF TypeOK
    <2> QED
      BY <1>14, <2>1, <2>4 DEF HandleReceipt, TypeOK
  <1>15. CASE ReadOnMatrix
    BY <1>15, Numbers DEF ReadOnMatrix, TypeOK, QueuedPolled
  <1>16. CASE Post
    <2>1. clock' \in Time /\ clock' = clock + 1 /\ polled <= clock'
      BY <1>16, Numbers, ConstantsAssumption DEF Post, TypeOK, Time
    <2>2. posted' \subseteq 1 .. clock' /\ own' \subseteq posted'
      BY <1>16, <2>1, Numbers DEF Post, TypeOK
    <2> QED
      BY <1>16, <2>1, <2>2 DEF Post, TypeOK, QueuedPolled
  <1>17. CASE ReadInTeams
    <2>1. clock' \in Time /\ clock' = clock + 1 /\ polled <= clock'
      BY <1>17, Numbers, ConstantsAssumption DEF ReadInTeams, TypeOK, Time
    <2>2. horizon' \in [User -> Time] /\ readInTeams' \in Time
      BY <1>17, <2>1 DEF ReadInTeams, TypeOK
    <2>3. posted \subseteq 1 .. clock'
      BY <2>1, Numbers DEF TypeOK
    <2> QED
      BY <1>17, <2>1, <2>2, <2>3 DEF ReadInTeams, TypeOK, QueuedPolled
  <1>18. CASE SetUpPuppet
    BY <1>18 DEF SetUpPuppet, TypeOK, QueuedPolled
  <1>19. CASE Restart
    <2>1. polled' = bridged /\ forgotten' \in Time /\ restarts' \in 0 .. MaxRestarts
      BY <1>19, LaterType, ConstantsAssumption DEF Restart, ResumeAt, TypeOK
    <2>2. dropped' \in [User -> Time]
      BY <1>19, LaterType DEF Restart, TypeOK
    <2>3. portalq' = <<>> /\ portalq' \in Seq(Event) /\ Len(portalq') <= Buffer /\ QueuedPolled'
      BY <1>19, ConstantsAssumption DEF Restart, QueuedPolled
    <2>4. polled' \in Time /\ bridged <= polled' /\ polled' <= clock
      BY <2>1, Numbers DEF TypeOK
    <2>5. unread' \in BOOLEAN /\ inbox' \subseteq Time
      BY <1>19 DEF Restart
    <2> QED
      BY <1>19, <2>1, <2>2, <2>3, <2>4, <2>5, IdleType DEF Restart, TypeOK
  <1>20. CASE UNCHANGED vars
    BY <1>20 DEF vars, TypeOK, QueuedPolled
  <1> QED
    BY <1>1, <1>2, <1>3, <1>4, <1>5, <1>6, <1>7, <1>8, <1>9, <1>10, <1>11, <1>12, <1>13,
       <1>14, <1>15, <1>16, <1>17, <1>18, <1>19, <1>20
    DEF Next, PollPass, MatrixReceipt, Portal

\* Every variable keeps its type, and a message is posted, polled and bridged in
\* that order, in every run.
THEOREM TypeCorrect == Spec => []TypeOK
  BY TypeInit, TypeNext, PTL DEF Spec

-----------------------------------------------------------------------------
(* The unread mark *)

\* Why a polled message of someone else is not forgotten.
Kept(m) ==
    \/ m <= horizon[Self]
    \/ unread
    \/ handler.pc = "sending" /\ m <= handler.now
    \/ poll.pc = "mark" /\ poll.msg = m
    \/ m <= forgotten

LEMMA KeptMeans == UnreadRemembered <=> \A m \in posted \ own : m <= polled => Kept(m)
  BY DEF UnreadRemembered, Kept

LEMMA LaterBounds == \A a, b \in Nat : Later(a, b) >= a /\ Later(a, b) >= b
  BY DEF Later

\* A step that adds no message and polls none is asked only about old messages.
LEMMA MarkNext ==
    TypeOK /\ QueuedPolled /\ UnreadRemembered /\ [Next]_vars => UnreadRemembered'
  <1> SUFFICES ASSUME TypeOK, QueuedPolled, UnreadRemembered, [Next]_vars,
                      NEW m \in posted' \ own', m <= polled'
               PROVE  Kept(m)'
    BY DEF UnreadRemembered, Kept
  <1> USE DEF teams, matrix, history
  <1>n. /\ clock \in Nat /\ polled \in Nat /\ bridged \in Nat /\ forgotten \in Nat
        /\ handler.now \in Nat /\ horizon[Self] \in Nat /\ posted \subseteq 1 .. clock
        /\ polled <= clock /\ Self \in User /\ Time \subseteq Nat
        /\ handler \in Handler /\ poll \in Poll /\ horizon \in [User -> Time]
    BY Numbers DEF TypeOK
  <1>old. ASSUME posted' = posted, own' = own, polled' = polled
          PROVE  Kept(m) /\ m \in Nat /\ m <= polled /\ m <= clock /\ m \in posted \ own
    BY <1>n, <1>old, KeptMeans
  <1>1. CASE QueueMessage
    <2>1. PICK n \in Unpolled :
              /\ \A x \in Unpolled : n <= x
              /\ polled' = n
              /\ poll' = [poll EXCEPT !.pc = "mark", !.msg = n]
      BY <1>1 DEF QueueMessage
    <2>2. /\ poll.pc = "idle" /\ posted' = posted /\ own' = own
          /\ UNCHANGED <<horizon, unread, handler, forgotten>>
      BY <1>1 DEF QueueMessage
    <2>3. m \in posted \ own /\ m \in Nat /\ n \in Nat
      BY <1>n, <2>2, Numbers DEF Unpolled
    <2>4. CASE m <= polled
      BY <2>2, <2>3, <2>4, KeptMeans DEF Kept
    <2>5. CASE m > polled
      <3>1. m \in Unpolled
        BY <2>3, <2>5 DEF Unpolled
      <3>2. m = n
        BY <2>1, <2>3, <3>1
      <3>3. poll'.pc = "mark" /\ poll'.msg = m
        BY <1>n, <2>1, <3>2 DEF Poll
      <3> QED
        BY <3>3 DEF Kept
    <2> QED
      BY <1>n, <2>3, <2>4, <2>5
  <1>2. CASE Mark
    <2>1. Kept(m) /\ m \in posted \ own
      BY <1>2, <1>old DEF Mark
    <2>2. UNCHANGED <<horizon, handler, forgotten>> /\ unread' = (unread \/ poll.msg \notin own)
      BY <1>2 DEF Mark, MarkUnread
    <2>3. CASE poll.msg = m
      <3>1. unread' = TRUE
        BY <2>1, <2>2, <2>3
      <3> QED
        BY <3>1 DEF Kept
    <2>4. CASE unread
      BY <2>2, <2>4 DEF Kept
    <2>5. CASE poll.msg # m /\ ~unread
      BY <2>1, <2>2, <2>5 DEF Kept
    <2> QED
      BY <2>3, <2>4, <2>5
  <1>3. CASE \/ FetchHorizons \/ Store \/ StoreFail \/ EndSync
             \/ \E u \in User : QueueReceipt(u) \/ Skip(u)
    <2>1. /\ poll.pc # "mark"
          /\ UNCHANGED <<posted, own, polled, horizon, unread, handler, forgotten>>
      BY <1>3 DEF FetchHorizons, Store, StoreFail, EndSync, QueueReceipt, Skip, MayCompare
    <2> QED
      BY <1>old, <2>1 DEF Kept
  <1>4. CASE Receive
    <2>1. Kept(m) /\ m \in Nat /\ m <= clock
      BY <1>4, <1>old DEF Receive
    <2>2. PICK r \in inbox : Answer(r)
      BY <1>4 DEF Receive
    <2>3. handler.pc = "idle" /\ UNCHANGED <<horizon, poll, forgotten>>
      BY <1>4 DEF Receive
    <2>4. CASE UNCHANGED <<clock, unread, handler>>
      BY <2>1, <2>3, <2>4 DEF Kept
    <2>5. CASE handler' = [pc |-> "sending", now |-> Stamp]
      <3>1. m <= Stamp
        BY <1>n, <2>1, ConstantsAssumption DEF Stamp
      <3>2. handler'.pc = "sending" /\ handler'.now = Stamp
        BY <2>5
      <3> QED
        BY <3>1, <3>2 DEF Kept
    <2> QED
      BY <2>2, <2>4, <2>5 DEF Answer
  <1>5. CASE Set
    <2>1. Kept(m) /\ m \in Nat
      BY <1>5, <1>old DEF Set
    <2>2. horizon'[Self] >= horizon[Self] /\ horizon'[Self] >= handler.now /\ horizon'[Self] \in Nat
      <3>1. horizon'[Self] = Later(horizon[Self], handler.now)
        BY <1>5, <1>n DEF Set
      <3> QED
        BY <3>1, <1>n, LaterBounds DEF Later
    <2>3. UNCHANGED <<poll, forgotten, unread>>
      BY <1>5 DEF Set
    <2> QED
      BY <1>n, <2>1, <2>2, <2>3 DEF Kept
  <1>6. CASE SetFail
    <2>1. Kept(m) /\ m \in Nat
      BY <1>6, <1>old DEF SetFail
    <2>2. forgotten' >= forgotten /\ forgotten' >= handler.now /\ forgotten' \in Nat
      BY <1>6, <1>n, LaterBounds DEF SetFail, Later
    <2>3. UNCHANGED <<poll, horizon, unread>>
      BY <1>6 DEF SetFail
    <2> QED
      BY <1>n, <2>1, <2>2, <2>3 DEF Kept
  <1>7. CASE Refuse \/ Record
    <2>1. /\ handler.pc # "sending"
          /\ UNCHANGED <<posted, own, polled, poll, horizon, unread, forgotten>>
      BY <1>7 DEF Refuse, Record
    <2> QED
      BY <1>old, <2>1 DEF Kept
  <1>8. CASE Portal \/ ReadOnMatrix \/ SetUpPuppet \/ UNCHANGED vars
    <2>1. UNCHANGED <<posted, own, polled, poll, horizon, unread, handler, forgotten>>
      BY <1>8 DEF Portal, HandleMessage, HandleReceipt, ReadOnMatrix, SetUpPuppet, vars
    <2> QED
      BY <1>old, <2>1 DEF Kept
  <1>9. CASE Post
    <2>1. /\ posted' = posted \cup {clock + 1} /\ own \subseteq own'
          /\ UNCHANGED <<polled, poll, horizon, unread, handler, forgotten>>
      BY <1>9 DEF Post
    <2>2. m \in posted \ own
      BY <1>n, <2>1
    <2> QED
      BY <2>1, <2>2, KeptMeans DEF Kept
  <1>10. CASE ReadInTeams
    <2>1. /\ Kept(m) /\ m \in Nat /\ m <= clock
          /\ UNCHANGED <<poll, unread, handler, forgotten>>
      BY <1>10, <1>old DEF ReadInTeams
    <2>2. horizon'[Self] \in {horizon[Self], clock + 1}
      BY <1>10, <1>n DEF ReadInTeams
    <2>3. horizon'[Self] \in Nat /\ (m <= horizon[Self] => m <= horizon'[Self])
      BY <1>n, <2>1, <2>2
    <2> QED
      BY <2>1, <2>3 DEF Kept
  <1>11. CASE Restart
    <2>1. polled' = bridged /\ forgotten' = Later(forgotten, bridged) /\ posted' = posted
      BY <1>11 DEF Restart, ResumeAt
    <2>2. m <= forgotten'
      BY <1>n, <2>1, LaterBounds DEF Later
    <2> QED
      BY <2>2 DEF Kept
  <1> QED
    BY <1>1, <1>2, <1>3, <1>4, <1>5, <1>6, <1>7, <1>8, <1>9, <1>10, <1>11
    DEF Next, PollPass, MatrixReceipt

\* In every run, a message polled from someone else is read on Teams, marked as
\* unread, covered by a request under way, about to be marked, or has lost its
\* mark to a restart or a failed request: neither the echo of the user's own
\* receipt nor any order of the poll loop and the Matrix handler loses it.
THEOREM MarksSurvive == Spec => []UnreadRemembered
  <1>1. Init => ReceiptInv
    BY TypeInit DEF ReceiptInv, Init, UnreadRemembered
  <1>2. ReceiptInv /\ [Next]_vars => ReceiptInv'
    BY TypeNext, MarkNext DEF ReceiptInv
  <1>3. ReceiptInv => UnreadRemembered
    BY DEF ReceiptInv
  <1> QED
    BY <1>1, <1>2, <1>3, PTL DEF Spec

-----------------------------------------------------------------------------
(* What was stored is shown, and nothing else                               *)
(*                                                                          *)
(* These are the states RemoteReadsShown and OwnReadsShown pass through.    *)

\* A receipt for u at time t waits in the portal's queue.
WaitsFor(u, t) ==
    \E i \in 1 .. Len(portalq) :
        portalq[i].kind = "receipt" /\ portalq[i].of = u /\ portalq[i].at = t

\* A horizon about to be stored is shown or waits.
AboutToStore ==
    poll.pc = "store" =>
        poll.seen[poll.of] <= shown[poll.of] \/ WaitsFor(poll.of, poll.seen[poll.of])

\* A stored horizon, which no check sends again, is shown on Matrix or waits, was
\* lost with the queue, or the bridge set it itself (syncParticipantHorizon,
\* syncOwnHorizon, recordOwnHorizon).
StoredShown ==
    \A u \in User :
        \/ stored[u] <= shown[u]
        \/ stored[u] <= dropped[u]
        \/ u = Self /\ stored[u] <= recorded
        \/ WaitsFor(u, stored[u])

\* The bridge never stores a position that Teams does not have, so that every
\* later one is found to be new; and it shows nobody as having read more than they
\* read in Teams.
NotAhead ==
    /\ \A u \in User : stored[u] <= horizon[u]
    /\ \A u \in Other : shown[u] <= horizon[u]

\* The same of what is under way.
UnderWay ==
    /\ \A u \in User : poll.seen[u] <= horizon[u] /\ horizon[u] <= clock
    /\ \A i \in 1 .. Len(portalq) :
          portalq[i].kind = "receipt" => portalq[i].at <= horizon[portalq[i].of]
    /\ handler.now <= clock
    /\ handler.pc = "recording" => handler.now <= horizon[Self]

HorizonInv == TypeOK /\ QueuedPolled /\ NotAhead /\ UnderWay
StoredInv == HorizonInv /\ StoredShown /\ AboutToStore

LEMMA HorizonTypes ==
    ASSUME TypeOK
    PROVE  /\ clock \in Nat /\ recorded \in Nat /\ handler.now \in Nat
           /\ horizon \in [User -> Nat] /\ stored \in [User -> Nat] /\ shown \in [User -> Nat]
           /\ dropped \in [User -> Nat] /\ poll.seen \in [User -> Nat]
           /\ poll.of \in User /\ Self \in User /\ Self \notin Other /\ Other \subseteq User
           /\ portalq \in Seq(Event) /\ Len(portalq) \in Nat
           /\ \A e \in Event : /\ e.at \in Nat /\ e.kind \in {"message", "receipt"}
                               /\ e.kind = "receipt" => e.of \in User
           /\ \A i \in 1 .. Len(portalq) : portalq[i] \in Event
<1>1. \A t \in Time : t \in Nat
  BY Numbers
<1>2. /\ horizon \in [User -> Nat] /\ stored \in [User -> Nat] /\ shown \in [User -> Nat]
      /\ dropped \in [User -> Nat] /\ recorded \in Nat
  BY <1>1 DEF TypeOK
<1>3. poll.seen \in [User -> Nat] /\ poll.of \in User
  BY <1>1 DEF TypeOK, Poll
<1>4. portalq \in Seq(Event) /\ Len(portalq) \in Nat /\ \A i \in 1 .. Len(portalq) : portalq[i] \in Event
  BY DEF TypeOK
<1>5. \A e \in Event : /\ e.at \in Nat /\ e.kind \in {"message", "receipt"}
                       /\ e.kind = "receipt" => e.of \in User
  BY <1>1 DEF Event
<1> QED
  BY <1>2, <1>3, <1>4, <1>5, Numbers, ConstantsAssumption

LEMMA HorizonStart ==
    ASSUME Init
    PROVE  StoredInv
<1>1. TypeOK /\ QueuedPolled
  BY TypeInit
<1>2. Len(portalq) = 0 /\ \A u \in User : stored[u] = 0 /\ horizon[u] = 0 /\ shown[u] = 0 /\ poll.seen[u] = 0
  BY DEF Init, Idle
<1>3. clock = 0 /\ handler.now = 0 /\ handler.pc = "idle" /\ poll.pc = "idle"
  BY DEF Init, Idle, NoReceipt
<1>4. NotAhead /\ UnderWay
  BY <1>2, <1>3, Numbers, <1>1 DEF NotAhead, UnderWay
<1>5. StoredShown /\ AboutToStore
  BY <1>2, <1>3 DEF StoredShown, AboutToStore
<1> QED
  BY <1>1, <1>4, <1>5 DEF StoredInv, HorizonInv

\* Horizons only grow, so what did not go past them still does not.
LEMMA HorizonKept ==
    ASSUME HorizonInv, TypeOK', QueuedPolled',
           \A u \in User : horizon[u] <= horizon'[u] /\ horizon'[u] <= clock',
           \A u \in User : stored'[u] <= horizon[u] /\ poll'.seen[u] <= horizon[u],
           \A u \in Other : shown'[u] <= horizon[u],
           \A i \in 1 .. Len(portalq') : portalq'[i].kind = "receipt" =>
               portalq'[i].of \in User /\ portalq'[i].at \in Nat
               /\ portalq'[i].at <= horizon[portalq'[i].of],
           handler'.now <= clock',
           handler'.pc = "recording" => handler'.now <= horizon'[Self]
    PROVE  HorizonInv'
<1>1. /\ \A u \in User : horizon[u] \in Nat /\ horizon'[u] \in Nat /\ stored'[u] \in Nat
                         /\ shown'[u] \in Nat
      /\ Other \subseteq User
  <2>1. \A t \in Time : t \in Nat
    BY ConstantsAssumption DEF Time
  <2>2. /\ horizon \in [User -> Time] /\ horizon' \in [User -> Time]
        /\ stored' \in [User -> Time] /\ shown' \in [User -> Time]
    BY DEF HorizonInv, TypeOK
  <2> QED
    BY <2>1, <2>2 DEF User
<1>2. \A u \in User : poll'.seen[u] \in Nat
  <2>1. poll'.seen \in [User -> Time]
    BY DEF TypeOK, Poll
  <2> QED
    BY <2>1, ConstantsAssumption DEF Time
<1>3. NotAhead'
  BY <1>1 DEF NotAhead
<1>4. \A u \in User : poll'.seen[u] <= horizon'[u] /\ horizon'[u] <= clock'
  BY <1>1, <1>2
<1>5. \A i \in 1 .. Len(portalq') :
         portalq'[i].kind = "receipt" => portalq'[i].at <= horizon'[portalq'[i].of]
  BY <1>1
<1> QED
  BY <1>3, <1>4, <1>5 DEF HorizonInv, UnderWay

\* What HorizonKept asks of the queue, as it is ...
LEMMA HorizonQueue ==
    ASSUME HorizonInv
    PROVE  \A i \in 1 .. Len(portalq) : portalq[i].kind = "receipt" =>
               portalq[i].of \in User /\ portalq[i].at \in Nat
               /\ portalq[i].at <= horizon[portalq[i].of]
  BY HorizonTypes DEF HorizonInv, UnderWay

\* ... and of its last event and its tail.
LEMMA QueueEnds ==
    ASSUME TypeOK
    PROVE  /\ \A e : portalq' = Append(portalq, e) =>
                 /\ Len(portalq') = Len(portalq) + 1 /\ portalq'[Len(portalq) + 1] = e
                 /\ \A i \in 1 .. Len(portalq) : portalq'[i] = portalq[i]
                 /\ \A i \in 1 .. Len(portalq') :
                       i \in 1 .. Len(portalq) \/ i = Len(portalq) + 1
           /\ portalq # <<>> /\ portalq' = Tail(portalq) =>
                 /\ Len(portalq') = Len(portalq) - 1
                 /\ 1 \in 1 .. Len(portalq) /\ Head(portalq) = portalq[1]
                 /\ \A i \in 1 .. Len(portalq') :
                       i + 1 \in 1 .. Len(portalq) /\ portalq'[i] = portalq[i + 1]
                 /\ \A i \in 1 .. Len(portalq) :
                       i = 1 \/ (i - 1 \in 1 .. Len(portalq') /\ portalq'[i - 1] = portalq[i])
<1>1. portalq \in Seq(Event) /\ Len(portalq) \in Nat
  BY DEF TypeOK
<1>2. ASSUME NEW e, portalq' = Append(portalq, e)
      PROVE  /\ Len(portalq') = Len(portalq) + 1 /\ portalq'[Len(portalq) + 1] = e
             /\ \A i \in 1 .. Len(portalq) : portalq'[i] = portalq[i]
             /\ \A i \in 1 .. Len(portalq') : i \in 1 .. Len(portalq) \/ i = Len(portalq) + 1
  BY <1>1, <1>2
<1>3. ASSUME portalq # <<>>, portalq' = Tail(portalq)
      PROVE  /\ Len(portalq') = Len(portalq) - 1
             /\ 1 \in 1 .. Len(portalq) /\ Head(portalq) = portalq[1]
             /\ \A i \in 1 .. Len(portalq') :
                   i + 1 \in 1 .. Len(portalq) /\ portalq'[i] = portalq[i + 1]
             /\ \A i \in 1 .. Len(portalq) :
                   i = 1 \/ (i - 1 \in 1 .. Len(portalq') /\ portalq'[i - 1] = portalq[i])
  <2>1. Len(portalq) \in Nat \ {0} /\ Len(portalq') = Len(portalq) - 1
    BY <1>1, <1>3
  <2>2. \A i \in 1 .. Len(portalq') :
            i + 1 \in 1 .. Len(portalq) /\ portalq'[i] = portalq[i + 1]
    BY <1>1, <1>3, <2>1
  <2>3. \A i \in 1 .. Len(portalq) : i = 1 \/ i - 1 \in 1 .. Len(portalq')
    BY <2>1
  <2>4. \A i \in 1 .. Len(portalq) : i = 1 \/ portalq'[i - 1] = portalq[i]
    BY <2>2, <2>3
  <2> QED
    BY <1>1, <1>3, <2>1, <2>2, <2>3, <2>4
<1> QED
  BY <1>2, <1>3

LEMMA HorizonStep == HorizonInv /\ [Next]_vars => HorizonInv'
<1> SUFFICES ASSUME HorizonInv, [Next]_vars PROVE HorizonInv'
  OBVIOUS
<1>t. TypeOK /\ TypeOK' /\ QueuedPolled'
  BY TypeNext DEF HorizonInv
<1>n. /\ clock \in Nat /\ handler.now \in Nat
      /\ horizon \in [User -> Nat] /\ stored \in [User -> Nat] /\ shown \in [User -> Nat]
      /\ poll.seen \in [User -> Nat] /\ poll.of \in User
      /\ Self \in User /\ Self \notin Other /\ Other \subseteq User
  BY <1>t, HorizonTypes
<1>q. \A i \in 1 .. Len(portalq) : portalq[i].kind = "receipt" =>
          portalq[i].of \in User /\ portalq[i].at \in Nat
          /\ portalq[i].at <= horizon[portalq[i].of]
  BY HorizonQueue
<1>u. /\ \A u \in User : stored[u] <= horizon[u] /\ poll.seen[u] <= horizon[u]
                         /\ horizon[u] <= clock
      /\ \A u \in Other : shown[u] <= horizon[u]
      /\ handler.now <= clock
      /\ handler.pc = "recording" => handler.now <= horizon[Self]
  BY DEF HorizonInv, NotAhead, UnderWay
<1>p. poll \in Poll /\ handler \in Handler
  BY <1>t DEF TypeOK
<1>h. \A u \in User : horizon[u] \in Nat /\ horizon[u] <= horizon[u]
  BY <1>n
<1> USE DEF teams, matrix, history
<1>1. ASSUME UNCHANGED <<horizon, clock, stored, shown, handler>>,
             \A u \in User : poll'.seen[u] <= horizon[u],
             \A i \in 1 .. Len(portalq') : portalq'[i].kind = "receipt" =>
                 portalq'[i].of \in User /\ portalq'[i].at \in Nat
                 /\ portalq'[i].at <= horizon[portalq'[i].of]
      PROVE  HorizonInv'
  BY <1>1, <1>t, <1>u, <1>h, HorizonKept
<1>2. ASSUME UNCHANGED <<horizon, clock, stored, shown, handler, portalq>>,
             \A u \in User : poll'.seen[u] <= horizon[u]
      PROVE  HorizonInv'
  BY <1>1, <1>2, <1>q
<1>3. CASE QueueMessage
  <2>1. PICK m \in Unpolled :
            /\ portalq' = Append(portalq, [kind |-> "message", at |-> m])
            /\ poll' = [poll EXCEPT !.pc = "mark", !.msg = m]
    BY <1>3 DEF QueueMessage
  <2>2. poll'.seen = poll.seen
    BY <2>1, <1>p DEF Poll
  <2>3. \A i \in 1 .. Len(portalq') : portalq'[i].kind = "receipt" =>
            portalq'[i].of \in User /\ portalq'[i].at \in Nat
            /\ portalq'[i].at <= horizon[portalq'[i].of]
    BY <2>1, <1>q, <1>t, QueueEnds
  <2> QED
    BY <1>1, <1>3, <1>u, <2>2, <2>3 DEF QueueMessage
<1>4. CASE Mark
  <2>1. poll'.seen = poll.seen
    BY <1>4, <1>p DEF Mark, Poll
  <2> QED
    BY <1>2, <1>4, <1>u, <2>1 DEF Mark
<1>5. CASE FetchHorizons
  <2>1. poll'.seen = horizon
    BY <1>5, <1>p DEF FetchHorizons, Poll
  <2> QED
    BY <1>2, <1>5, <1>h, <2>1 DEF FetchHorizons
<1>6. ASSUME NEW u \in User, QueueReceipt(u) PROVE HorizonInv'
  <2>1. poll'.seen = poll.seen
    BY <1>6, <1>p DEF QueueReceipt, Poll
  <2>2. portalq' = Append(portalq, [kind |-> "receipt", of |-> u, at |-> poll.seen[u]])
    BY <1>6 DEF QueueReceipt
  <2>3. poll.seen[u] \in Nat
    BY <1>n
  <2>4. \A i \in 1 .. Len(portalq') : portalq'[i].kind = "receipt" =>
            portalq'[i].of \in User /\ portalq'[i].at \in Nat
            /\ portalq'[i].at <= horizon[portalq'[i].of]
    BY <2>2, <2>3, <1>q, <1>t, <1>u, QueueEnds
  <2> QED
    BY <1>1, <1>6, <1>u, <2>1, <2>4 DEF QueueReceipt
<1>7. ASSUME NEW u \in User, Skip(u) PROVE HorizonInv'
  <2>1. poll'.seen = [poll.seen EXCEPT ![u] = 0]
    BY <1>7, <1>p DEF Skip, Poll
  <2>2. \A x \in User : poll'.seen[x] <= horizon[x]
    BY <2>1, <1>n, <1>u, <1>h
  <2> QED
    BY <1>2, <1>7, <2>2 DEF Skip, PassOver
<1>8. CASE Store \/ StoreFail
  <2>1. poll'.seen = [poll.seen EXCEPT ![poll.of] = 0]
    BY <1>8, <1>p DEF Store, StoreFail, Poll
  <2>2. \A x \in User : poll'.seen[x] <= horizon[x]
    BY <2>1, <1>n, <1>u, <1>h
  <2>3. stored' \in {stored, [stored EXCEPT ![poll.of] = poll.seen[poll.of]]}
    BY <1>8 DEF Store, StoreFail, UpsertLastRead
  <2>4. \A x \in User : stored'[x] <= horizon[x]
    BY <2>3, <1>n, <1>u
  <2>5. UNCHANGED <<horizon, clock, shown, handler, portalq>>
    BY <1>8 DEF Store, StoreFail
  <2> QED
    BY <1>t, <1>u, <1>h, <1>q, <2>2, <2>4, <2>5, HorizonKept
<1>9. CASE EndSync
  <2>1. \A x \in User : poll'.seen[x] = 0
    BY <1>9 DEF EndSync, Idle
  <2> QED
    BY <1>2, <1>9, <1>h, <2>1 DEF EndSync
<1>10. CASE Receive
  <2>1. UNCHANGED <<horizon, stored, shown, poll, portalq>>
    BY <1>10 DEF Receive
  <2>2. Stamp \in Nat /\ clock <= Stamp
    BY <1>n DEF Stamp
  <2>3. \/ UNCHANGED <<clock, handler>>
        \/ clock' = Stamp /\ handler' = [pc |-> "sending", now |-> Stamp]
    BY <1>10 DEF Receive, Answer
  <2>4. CASE UNCHANGED <<clock, handler>>
    BY <1>2, <1>u, <2>1, <2>4
  <2>5. CASE clock' = Stamp /\ handler' = [pc |-> "sending", now |-> Stamp]
    <3>1. handler'.now <= clock' /\ handler'.pc = "sending"
      BY <2>2, <2>5
    <3>2. \A u \in User : horizon[u] <= horizon'[u] /\ horizon'[u] <= clock'
      BY <1>n, <1>u, <2>1, <2>2, <2>5
    <3> QED
      BY <1>t, <1>u, <1>q, <2>1, <3>1, <3>2, HorizonKept
  <2> QED
    BY <2>3, <2>4, <2>5
<1>11. CASE Refuse
  BY <1>2, <1>11, <1>u DEF Refuse
<1>12. CASE Set
  <2>1. UNCHANGED <<clock, stored, shown, poll, portalq>>
    BY <1>12 DEF Set
  <2>2. horizon' = [horizon EXCEPT ![Self] = Later(horizon[Self], handler.now)]
    BY <1>12 DEF Set
  <2>3. \A u \in User : horizon[u] <= horizon'[u] /\ horizon'[u] <= clock'
    BY <1>n, <1>u, <2>1, <2>2 DEF Later
  <2>4. horizon'[Self] >= handler.now
    BY <1>n, <2>2 DEF Later
  <2>5. handler' = NoReceipt \/ handler'.now = handler.now
    BY <1>12, <1>p DEF Set, Handler
  <2>6. handler'.now <= clock' /\ (handler'.pc = "recording" => handler'.now <= horizon'[Self])
    <3>1. CASE handler' = NoReceipt
      BY <1>n, <2>1, <3>1 DEF NoReceipt
    <3>2. CASE handler'.now = handler.now
      BY <1>n, <1>u, <2>1, <2>4, <2>3, <3>2
    <3> QED
      BY <2>5, <3>1, <3>2
  <2> QED
    BY <1>t, <1>u, <1>q, <2>1, <2>3, <2>6, HorizonKept
<1>13. CASE SetFail \/ Record
  <2>1. UNCHANGED <<horizon, clock, shown, poll, portalq>> /\ handler' = NoReceipt
    BY <1>13 DEF SetFail, Record
  <2>2. stored' = stored \/ (handler.pc = "recording" /\ stored' = [stored EXCEPT ![Self] = handler.now])
    BY <1>13 DEF SetFail, Record, UpsertLastRead
  <2>3. \A u \in User : stored'[u] <= horizon[u]
    BY <2>2, <1>n, <1>u
  <2>4. handler'.now <= clock' /\ handler'.pc # "recording"
    BY <2>1, <1>n DEF NoReceipt
  <2> QED
    BY <1>t, <1>u, <1>h, <1>q, <2>1, <2>3, <2>4, HorizonKept
<1>14. CASE HandleMessage \/ HandleReceipt
  <2>1. portalq # <<>> /\ portalq' = Tail(portalq)
    BY <1>14 DEF HandleMessage, HandleReceipt
  <2>2. \A i \in 1 .. Len(portalq') : portalq'[i].kind = "receipt" =>
            portalq'[i].of \in User /\ portalq'[i].at \in Nat
            /\ portalq'[i].at <= horizon[portalq'[i].of]
    <3>1. \A i \in 1 .. Len(portalq') :
              i + 1 \in 1 .. Len(portalq) /\ portalq'[i] = portalq[i + 1]
      BY <2>1, <1>t, QueueEnds
    <3> QED
      BY <3>1, <1>q
  <2>3. CASE HandleMessage
    BY <1>1, <1>u, <2>2, <2>3 DEF HandleMessage
  <2>4. CASE HandleReceipt
    <3> DEFINE u == Head(portalq).of
               t == Head(portalq).at
    <3>1. u \in User /\ t \in Nat /\ t <= horizon[u]
      BY <1>q, <1>t, <2>1, <2>4, QueueEnds DEF HandleReceipt
    <3>2. shown' = [shown EXCEPT ![u] = Later(shown[u], t)]
      BY <2>4 DEF HandleReceipt
    <3>3. \A x \in Other : shown'[x] <= horizon[x]
      BY <1>n, <1>u, <3>1, <3>2 DEF Later
    <3>4. UNCHANGED <<horizon, clock, stored, handler, poll>>
      BY <2>4 DEF HandleReceipt
    <3> QED
      BY <1>t, <1>u, <1>h, <2>2, <3>3, <3>4, HorizonKept
  <2> QED
    BY <1>14, <2>3, <2>4
<1>15. CASE ReadOnMatrix
  <2>1. UNCHANGED <<horizon, clock, stored, handler, poll, portalq>>
        /\ shown' = [shown EXCEPT ![Self] = bridged]
    BY <1>15 DEF ReadOnMatrix
  <2>2. \A x \in Other : shown'[x] <= horizon[x]
    BY <1>n, <1>u, <2>1
  <2> QED
    BY <1>t, <1>u, <1>h, <1>q, <2>1, <2>2, HorizonKept
<1>16. CASE Post
  <2>1. UNCHANGED <<horizon, stored, handler, poll, portalq, shown>> /\ clock' = clock + 1
    BY <1>16 DEF Post
  <2>2. /\ \A u \in User : horizon[u] <= horizon'[u] /\ horizon'[u] <= clock'
        /\ handler'.now <= clock'
    BY <1>n, <1>u, <2>1
  <2> QED
    BY <1>t, <1>u, <1>q, <2>1, <2>2, HorizonKept
<1>17. CASE ReadInTeams
  <2>1. UNCHANGED <<stored, handler, poll, portalq, shown>> /\ clock' = clock + 1
    BY <1>17 DEF ReadInTeams
  <2>2. PICK u \in User : horizon' = [horizon EXCEPT ![u] = clock']
    BY <1>17 DEF ReadInTeams
  <2>3. \A x \in User : horizon[x] <= horizon'[x] /\ horizon'[x] <= clock'
    BY <1>n, <1>u, <2>1, <2>2
  <2>4. handler'.now <= clock' /\ (handler'.pc = "recording" => handler'.now <= horizon'[Self])
    <3>1. horizon[Self] <= horizon'[Self] /\ horizon'[Self] \in Nat
      BY <1>n, <2>1, <2>2, <2>3
    <3> QED
      BY <1>n, <1>u, <2>1, <3>1
  <2> QED
    BY <1>t, <1>u, <1>q, <2>1, <2>3, <2>4, HorizonKept
<1>18. CASE SetUpPuppet
  BY <1>2, <1>18, <1>u DEF SetUpPuppet
<1>19. CASE Restart
  <2>1. UNCHANGED <<horizon, clock, stored, shown>> /\ portalq' = <<>>
        /\ poll' = Idle /\ handler' = NoReceipt
    BY <1>19 DEF Restart
  <2>2. \A x \in User : poll'.seen[x] <= horizon[x]
    BY <1>h, <2>1 DEF Idle
  <2>3. handler'.now <= clock' /\ handler'.pc # "recording"
    BY <2>1, <1>n DEF NoReceipt
  <2>4. Len(portalq') = 0
    BY <2>1
  <2> QED
    BY <1>t, <1>u, <1>h, <2>1, <2>2, <2>3, <2>4, HorizonKept
<1>20. CASE UNCHANGED vars
  BY <1>2, <1>20, <1>u DEF vars
<1> QED
  BY <1>3, <1>4, <1>5, <1>6, <1>7, <1>8, <1>9, <1>10, <1>11, <1>12, <1>13, <1>14, <1>15,
     <1>16, <1>17, <1>18, <1>19, <1>20
  DEF Next, PollPass, MatrixReceipt, Portal

\* Teams knows of every position the bridge has stored, and Matrix shows nobody
\* further than they have read in Teams, in every run (pollConsumptionHorizons,
\* HandleMatrixReadReceipt).
THEOREM NothingShownAhead == Spec => []NotAhead
<1>1. Init => HorizonInv
  BY HorizonStart DEF StoredInv
<1>2. HorizonInv => NotAhead
  BY DEF HorizonInv
<1> QED
  BY <1>1, <1>2, HorizonStep, PTL DEF Spec

\* A receipt waits until it is shown.
LEMMA WaitsKept ==
    ASSUME TypeOK, TypeOK',
           \/ portalq' = portalq /\ \A u \in User : shown[u] <= shown'[u]
           \/ /\ \E e : portalq' = Append(portalq, e)
              /\ shown' = shown
           \/ HandleMessage
           \/ HandleReceipt
    PROVE  /\ \A u \in User : shown[u] <= shown'[u]
           /\ \A u \in User, t \in Nat : WaitsFor(u, t) => WaitsFor(u, t)' \/ t <= shown'[u]
<1>1. \A u \in User : shown[u] \in Nat /\ shown'[u] \in Nat /\ shown[u] <= shown[u]
  BY ConstantsAssumption DEF TypeOK, Time
<1>2. CASE portalq' = portalq /\ \A u \in User : shown[u] <= shown'[u]
  BY <1>2 DEF WaitsFor
<1>3. CASE /\ \E e : portalq' = Append(portalq, e)
           /\ shown' = shown
  <2>1. \A i \in 1 .. Len(portalq) : portalq'[i] = portalq[i] /\ i \in 1 .. Len(portalq')
    <3>1. Len(portalq) \in Nat
      BY DEF TypeOK
    <3> QED
      BY <1>3, <3>1, QueueEnds
  <2>2. \A u \in User, t \in Nat : WaitsFor(u, t) => WaitsFor(u, t)'
    BY <2>1 DEF WaitsFor
  <2> QED
    BY <1>1, <1>3, <2>2
<1>4. CASE HandleMessage
  <2>1. portalq # <<>> /\ portalq' = Tail(portalq) /\ shown' = shown
        /\ Head(portalq).kind = "message"
    BY <1>4 DEF HandleMessage
  <2>2. /\ Head(portalq) = portalq[1]
        /\ \A i \in 1 .. Len(portalq) :
              i = 1 \/ (i - 1 \in 1 .. Len(portalq') /\ portalq'[i - 1] = portalq[i])
    BY <2>1, QueueEnds
  <2>3. \A u \in User, t \in Nat : WaitsFor(u, t) => WaitsFor(u, t)'
    BY <2>1, <2>2 DEF WaitsFor
  <2> QED
    BY <1>1, <2>1, <2>3
<1>5. CASE HandleReceipt
  <2> DEFINE v == Head(portalq).of
             s == Head(portalq).at
  <2>1. /\ portalq # <<>> /\ portalq' = Tail(portalq) /\ Head(portalq).kind = "receipt"
        /\ shown' = [shown EXCEPT ![v] = Later(shown[v], s)]
    BY <1>5 DEF HandleReceipt
  <2>2. /\ Head(portalq) = portalq[1] /\ 1 \in 1 .. Len(portalq)
        /\ \A i \in 1 .. Len(portalq) :
              i = 1 \/ (i - 1 \in 1 .. Len(portalq') /\ portalq'[i - 1] = portalq[i])
    BY <2>1, QueueEnds
  <2>3. v \in User /\ s \in Nat /\ shown \in [User -> Nat]
    BY <2>1, <2>2, HorizonTypes
  <2>4. shown'[v] >= s /\ \A u \in User : shown[u] <= shown'[u]
    BY <1>1, <2>1, <2>3 DEF Later
  <2>5. ASSUME NEW u \in User, NEW t \in Nat, WaitsFor(u, t)
        PROVE  WaitsFor(u, t)' \/ t <= shown'[u]
    <3>1. PICK i \in 1 .. Len(portalq) :
              portalq[i].kind = "receipt" /\ portalq[i].of = u /\ portalq[i].at = t
      BY <2>5 DEF WaitsFor
    <3>2. CASE i = 1
      <4>1. u = v /\ t = s
        BY <2>2, <3>1, <3>2
      <4> QED
        BY <2>4, <4>1
    <3>3. CASE i - 1 \in 1 .. Len(portalq') /\ portalq'[i - 1] = portalq[i]
      BY <3>1, <3>3 DEF WaitsFor
    <3> QED
      BY <2>2, <3>2, <3>3
  <2> QED
    BY <2>4, <2>5
<1> QED
  BY <1>2, <1>3, <1>4, <1>5

\* A step that stores nothing keeps what waits or is shown.
LEMMA StoredKept ==
    ASSUME StoredInv, TypeOK',
           UNCHANGED <<stored, dropped, recorded>>,
           \A u \in User : shown[u] <= shown'[u],
           \A u \in User, t \in Nat : WaitsFor(u, t) => WaitsFor(u, t)' \/ t <= shown'[u]
    PROVE  /\ StoredShown'
           /\ (poll'.pc = "store" => UNCHANGED poll) => AboutToStore'
<1>t. TypeOK
  BY DEF StoredInv, HorizonInv
<1>1. /\ \A u \in User : stored[u] \in Nat /\ shown[u] \in Nat
      /\ \A u \in User : WaitsFor(u, stored[u]) => WaitsFor(u, stored[u])' \/ stored[u] <= shown'[u]
  BY <1>t, HorizonTypes
<1>2. \A u \in User : shown'[u] \in Nat
  BY ConstantsAssumption DEF TypeOK, Time
<1>3. StoredShown'
  BY <1>1, <1>2 DEF StoredInv, StoredShown
<1>4. ASSUME UNCHANGED poll PROVE AboutToStore'
  <2>1. poll.of \in User /\ poll.seen[poll.of] \in Nat /\ shown[poll.of] \in Nat
        /\ shown'[poll.of] \in Nat
    BY <1>t, <1>2, HorizonTypes
  <2>2. WaitsFor(poll.of, poll.seen[poll.of])
            => WaitsFor(poll.of, poll.seen[poll.of])' \/ poll.seen[poll.of] <= shown'[poll.of]
    BY <1>4, <2>1
  <2> QED
    BY <1>4, <2>1, <2>2 DEF StoredInv, AboutToStore
<1> QED
  BY <1>3, <1>4 DEF AboutToStore

LEMMA StoredStep == StoredInv /\ [Next]_vars => StoredInv'
<1> SUFFICES ASSUME StoredInv, [Next]_vars PROVE StoredInv'
  OBVIOUS
<1>h. HorizonInv /\ HorizonInv'
  BY HorizonStep DEF StoredInv
<1>t. TypeOK /\ TypeOK'
  BY <1>h DEF HorizonInv
<1>n. /\ handler.now \in Nat /\ recorded \in Nat
      /\ stored \in [User -> Nat] /\ shown \in [User -> Nat] /\ dropped \in [User -> Nat]
      /\ poll.seen \in [User -> Nat] /\ poll.of \in User /\ Self \in User
      /\ Len(portalq) \in Nat
  BY <1>t, HorizonTypes
<1>p. poll \in Poll
  BY <1>t DEF TypeOK
<1>s. \A u \in User : shown[u] <= shown[u]
  BY <1>n
<1> USE DEF teams, matrix, history
<1>1. ASSUME UNCHANGED <<stored, dropped, recorded>>,
             poll'.pc = "store" => UNCHANGED poll,
             \/ portalq' = portalq /\ \A u \in User : shown[u] <= shown'[u]
             \/ (\E e : portalq' = Append(portalq, e)) /\ shown' = shown
             \/ HandleMessage
             \/ HandleReceipt
      PROVE  StoredInv'
  <2>1. /\ \A u \in User : shown[u] <= shown'[u]
        /\ \A u \in User, t \in Nat : WaitsFor(u, t) => WaitsFor(u, t)' \/ t <= shown'[u]
    BY <1>1, <1>t, WaitsKept
  <2>2. StoredShown' /\ AboutToStore'
    BY <1>1, <1>t, <2>1, StoredKept
  <2> QED
    BY <1>h, <2>2 DEF StoredInv
<1>2. CASE QueueMessage
  <2>1. poll'.pc = "mark"
    BY <1>2, <1>p DEF QueueMessage, Poll
  <2> QED
    BY <1>1, <1>2, <2>1 DEF QueueMessage
<1>3. CASE Mark \/ FetchHorizons \/ StoreFail \/ EndSync
  <2>1. poll'.pc # "store"
    <3>1. CASE Mark
      BY <3>1, <1>p DEF Mark, Poll
    <3>2. CASE FetchHorizons
      BY <3>2, <1>p DEF FetchHorizons, Poll
    <3>3. CASE StoreFail
      BY <3>3, <1>p DEF StoreFail, Poll
    <3>4. CASE EndSync
      BY <3>4 DEF EndSync, Idle
    <3> QED
      BY <1>3, <3>1, <3>2, <3>3, <3>4
  <2> QED
    BY <1>1, <1>3, <1>s, <2>1 DEF Mark, FetchHorizons, StoreFail, EndSync
<1>4. ASSUME NEW u \in User, QueueReceipt(u) PROVE StoredInv'
  <2> DEFINE e == [kind |-> "receipt", of |-> u, at |-> poll.seen[u]]
  <2>1. portalq' = Append(portalq, e) /\ UNCHANGED <<stored, dropped, recorded, shown>>
    BY <1>4 DEF QueueReceipt
  <2>2. poll'.seen = poll.seen /\ poll'.of = u
    BY <1>4, <1>p DEF QueueReceipt, Poll
  <2>3. /\ \A x \in User : shown[x] <= shown'[x]
        /\ \A x \in User, t \in Nat : WaitsFor(x, t) => WaitsFor(x, t)' \/ t <= shown'[x]
    BY <1>t, <2>1, WaitsKept
  <2>4. StoredShown'
    BY <1>t, <2>1, <2>3, StoredKept
  <2>5. WaitsFor(u, poll.seen[u])'
    <3>1. portalq'[Len(portalq) + 1] = e /\ Len(portalq') = Len(portalq) + 1
      BY <1>t, <2>1, QueueEnds
    <3>2. Len(portalq) + 1 \in 1 .. Len(portalq')
      BY <1>n, <3>1
    <3>3. poll'.seen[u] = poll.seen[u]
      BY <2>2
    <3> QED
      BY <3>1, <3>2, <3>3 DEF WaitsFor
  <2>6. AboutToStore'
    BY <2>2, <2>5 DEF AboutToStore
  <2> QED
    BY <1>h, <2>4, <2>6 DEF StoredInv
<1>5. ASSUME NEW u \in User, Skip(u) PROVE StoredInv'
  <2>1. poll'.pc = "sync"
    BY <1>5, <1>p DEF Skip, MayCompare, Poll
  <2> QED
    BY <1>1, <1>5, <1>s, <2>1 DEF Skip, PassOver
<1>6. CASE Store
  <2> DEFINE w == poll.of
  <2>1. /\ stored' = [stored EXCEPT ![w] = poll.seen[w]] /\ poll.pc = "store"
        /\ UNCHANGED <<portalq, shown, dropped, recorded>>
    BY <1>6 DEF Store, UpsertLastRead
  <2>2. poll'.pc = "sync"
    BY <1>6, <1>p DEF Store, Poll
  <2>3. poll.seen[w] <= shown[w] \/ WaitsFor(w, poll.seen[w])
    BY <2>1 DEF StoredInv, AboutToStore
  <2>4. ASSUME NEW u \in User
        PROVE  \/ stored'[u] <= shown'[u]
               \/ stored'[u] <= dropped'[u]
               \/ u = Self /\ stored'[u] <= recorded'
               \/ WaitsFor(u, stored[u])'
    <3>1. CASE u = w
      <4>1. stored'[u] = poll.seen[w]
        BY <1>n, <2>1, <3>1
      <4> QED
        BY <2>1, <2>3, <3>1, <4>1 DEF WaitsFor
    <3>2. CASE u # w
      <4>1. stored'[u] = stored[u]
        BY <1>n, <2>1, <3>2
      <4> QED
        BY <2>1, <4>1 DEF StoredInv, StoredShown, WaitsFor
    <3> QED
      BY <3>1, <3>2
  <2>5. StoredShown'
    BY <2>4 DEF StoredShown
  <2> QED
    BY <1>h, <2>2, <2>5 DEF StoredInv, AboutToStore
<1>7. CASE Receive \/ Refuse \/ Set \/ SetFail
  BY <1>1, <1>7, <1>s DEF Receive, Refuse, Set, SetFail
<1>8. CASE Record
  <2>1. UNCHANGED <<portalq, shown, dropped, poll>>
    BY <1>8 DEF Record
  <2>2. CASE UNCHANGED <<stored, recorded>>
    BY <1>1, <1>s, <2>1, <2>2
  <2>3. CASE stored' = [stored EXCEPT ![Self] = handler.now] /\ recorded' = Later(recorded, handler.now)
    <3>1. stored'[Self] <= recorded'
      BY <1>n, <2>3 DEF Later
    <3>2. \A u \in User \ {Self} : stored'[u] = stored[u]
      BY <1>n, <2>3
    <3>3. StoredShown'
      BY <2>1, <3>1, <3>2 DEF StoredInv, StoredShown, WaitsFor
    <3>4. AboutToStore'
      BY <2>1 DEF StoredInv, AboutToStore, WaitsFor
    <3> QED
      BY <1>h, <3>3, <3>4 DEF StoredInv
  <2> QED
    BY <1>8, <2>2, <2>3 DEF Record, UpsertLastRead
<1>9. CASE HandleMessage \/ HandleReceipt
  <2>1. UNCHANGED <<stored, dropped, recorded, poll>>
    BY <1>9 DEF HandleMessage, HandleReceipt
  <2> QED
    BY <1>1, <1>9, <2>1
<1>10. CASE ReadOnMatrix
  <2>1. UNCHANGED <<stored, dropped, recorded, poll, portalq>>
        /\ bridged > shown[Self] /\ shown' = [shown EXCEPT ![Self] = bridged]
    BY <1>10 DEF ReadOnMatrix
  <2>2. bridged \in Nat
    BY <1>t, Numbers
  <2>3. \A u \in User : shown[u] <= shown'[u]
    BY <1>n, <2>1, <2>2
  <2> QED
    BY <1>1, <2>1, <2>3
<1>11. CASE Post \/ ReadInTeams \/ SetUpPuppet
  BY <1>1, <1>11, <1>s DEF Post, ReadInTeams, SetUpPuppet
<1>12. CASE Restart
  <2>1. /\ UNCHANGED <<stored, shown, recorded>> /\ poll' = Idle
        /\ dropped' = [u \in User |-> IF Waiting(u) = {} THEN dropped[u]
                                       ELSE Later(dropped[u], stored[u])]
    BY <1>12 DEF Restart
  <2>2. ASSUME NEW u \in User, WaitsFor(u, stored[u]) PROVE Waiting(u) # {}
    <3>1. stored[u] <= stored[u]
      BY <1>n
    <3> QED
      BY <2>2, <3>1 DEF WaitsFor, Waiting
  <2>3. \A u \in User : Waiting(u) # {} => stored[u] <= dropped'[u]
    BY <1>n, <2>1 DEF Later
  <2>4. \A u \in User : stored[u] <= dropped[u] => stored[u] <= dropped'[u]
    BY <1>n, <2>1 DEF Later
  <2>5. StoredShown'
    BY <2>1, <2>2, <2>3, <2>4 DEF StoredInv, StoredShown
  <2>6. AboutToStore'
    BY <2>1 DEF AboutToStore, Idle
  <2> QED
    BY <1>h, <2>5, <2>6 DEF StoredInv
<1>13. CASE UNCHANGED vars
  BY <1>1, <1>13, <1>s DEF vars
<1> QED
  BY <1>2, <1>3, <1>4, <1>5, <1>6, <1>7, <1>8, <1>9, <1>10, <1>11, <1>12, <1>13
  DEF Next, PollPass, MatrixReceipt, Portal

\* A position that is stored, and that no later check sends again, is shown on
\* Matrix or waits for the portal, was lost with its queue, or the bridge set it
\* itself (syncParticipantHorizon, syncOwnHorizon: queued first, stored after).
\* This is the part of RemoteReadsShown and OwnReadsShown that is not about
\* progress.
THEOREM StoredMeansShown == Spec => []StoredShown
<1>1. StoredInv => StoredShown
  BY DEF StoredInv
<1> QED
  BY <1>1, HorizonStart, StoredStep, PTL DEF Spec
=============================================================================
