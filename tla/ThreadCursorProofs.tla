-------------------------- MODULE ThreadCursorProofs --------------------------
(***************************************************************************)
(* Proofs about ThreadCursor, for every value of its constants.            *)
(*                                                                         *)
(* In whatever order events are handled, a page is saved only after its    *)
(* own events (PageInv).  When the portal handles them one at a time and   *)
(* every message of the thread is queued (Fifo), the saved cursor never    *)
(* covers a message still waiting (FifoInv), which is what the abstract    *)
(* MessageDelivery promises.  Nor does a client ever move it back          *)
(* (BackInv).                                                              *)
(***************************************************************************)
EXTENDS ThreadCursor, TLAPS

-----------------------------------------------------------------------------
(* The inductive invariants *)

\* What a poller queues is posted, and its page is open, its own, and still
\* holds its own count.
QueueingPage ==
    \A c \in Client : poller[c].pc = "queueing" =>
        /\ poller[c].top <= Len(thread)
        /\ page[poller[c].page].owner = c
        /\ page[poller[c].page].pos = 0
        /\ OwnCount \in page[poller[c].page].left

\* Events wait for posted messages only, and a page being queued has none
\* for the messages its poller has yet to queue.
WaitingBehind ==
    /\ \A e \in Waiting : e.msg <= Len(thread)
    /\ \A c \in Client : \A e \in Waiting :
          (poller[c].pc = "queueing" /\ e.page = poller[c].page) => e.msg < poller[c].next

\* No event waits twice.
WaitingOnce ==
    /\ \A i, j \in 1 .. Len(portalq) : portalq[i] = portalq[j] => i = j
    /\ \A i \in 1 .. Len(portalq) : portalq[i] \notin running

PageInv ==
    /\ TypeOK
    /\ QueueingPage
    /\ WaitingBehind
    /\ WaitingOnce
    /\ PageWaitsForItsEvents

\* The portal handles one event at a time, in order, accepts every event, and
\* the thread carries no message for which nothing is queued.
Fifo ==
    /\ AsyncEvents = FALSE
    /\ LookupMayFail = FALSE
    /\ "bookkeeping" \notin Kinds

\* Messages that are settled or wait to be.
Covered == Settled \cup {e.msg : e \in Waiting}

\* History sets hold posted messages.
PostedOnly == finished \cup history \cup lost \subseteq 1 .. Len(thread)

OneRunning ==
    /\ \A e, f \in running : e = f
    /\ Buffer = 0 => Waiting = {}

\* Every position a poller may carry on from is covered.
PollersCovered ==
    \A c \in Client :
        /\ 1 .. queued[c] \subseteq Covered
        /\ poller[c].pc \in {"listed", "fetching"} => 1 .. poller[c].th \subseteq Covered
        /\ poller[c].pc = "queueing" => 1 .. poller[c].next - 1 \subseteq Covered

\* What is settled when the i-th event of the queue has been handled.
SettledBy(i) ==
    Settled \cup {e.msg : e \in running} \cup {portalq[j].msg : j \in 1 .. i}

\* The queue is in message order, but for messages queued again: whatever is
\* older than an event is settled or waits before it.
QueueInOrder ==
    /\ \A e \in running : 1 .. e.msg - 1 \subseteq Settled
    /\ \A i \in 1 .. Len(portalq) : 1 .. portalq[i].msg \subseteq SettledBy(i)

\* A page not saved yet still counts its newest event, or has nothing older
\* left to wait for.
NewestEventCounted ==
    /\ \A p \in Page : Open(p) =>
          IF page[p].pos = 0
          THEN OwnCount \in page[p].left
          ELSE page[p].pos \in page[p].left \/ 1 .. page[p].pos \subseteq Settled
    /\ \A c \in Client : poller[c].pc = "queueing" =>
          /\ poller[c].top > 0
          /\ poller[c].next = poller[c].top + 1 =>
                \/ poller[c].top \in page[poller[c].page].left
                \/ 1 .. poller[c].top \subseteq Settled

FifoInv ==
    /\ PageInv
    /\ PostedOnly
    /\ CursorBehindHandling
    /\ OneRunning
    /\ PollersCovered
    /\ QueueInOrder
    /\ NewestEventCounted

-----------------------------------------------------------------------------
(* Types *)

\* What done does to the commits, whatever it saves.
LEMMA DoneCommits ==
    ASSUME TypeOK, NEW p \in Page, NEW count \in Pos, NEW pos \in Pos,
           NEW q \in [Client -> Pos], Done(p, count, pos, q)
    PROVE  /\ page' \in [Page -> Commit]
           /\ queued' \in [Client -> Pos]
           /\ saved' \in [Client -> Pos]
           /\ cursor' \in Pos
           /\ \A x \in Page \ {p} : page'[x] = page[x]
           /\ page'[p].left = page[p].left \ {count}
           /\ page'[p].left # {} => page'[p].owner = page[p].owner /\ page'[p].pos = pos
           /\ cursor' # cursor => page'[p].left = {} /\ cursor' = pos
           /\ \A c \in Client : queued'[c] \in {0, q[c]}
  <1> DEFINE left == page[p].left \ {count}
  <1>1. page[p] \in Commit /\ page[p].owner \in Client
    BY DEF TypeOK, Commit
  <1>2. left \in SUBSET Pos
    BY <1>1 DEF Commit
  <1>a. NoCommit \in Commit
    BY ConstantsAssumption DEF NoCommit, Commit, Pos, Client
  <1>3. CASE left = {}
    <2>1. page' = [page EXCEPT ![p] = NoCommit] /\ SaveCursor(page[p].owner, pos, q)
      BY <1>3 DEF Done
    <2>2. page' \in [Page -> Commit] /\ page'[p].left = {}
          /\ \A x \in Page \ {p} : page'[x] = page[x]
      BY <2>1, <1>a DEF NoCommit, TypeOK
    <2>3. /\ cursor' \in {cursor, pos}
          /\ saved' \in [Client -> Pos] /\ queued' \in [Client -> Pos]
          /\ \A c \in Client : queued'[c] \in {0, q[c]}
      <3>1. 0 \in Pos /\ cursor \in Pos /\ saved \in [Client -> Pos]
        BY ConstantsAssumption DEF TypeOK, Pos
      <3>2. CASE queued' = q /\ UNCHANGED <<cursor, saved>>
        BY <3>1, <3>2
      <3>3. CASE ~(queued' = q /\ UNCHANGED <<cursor, saved>>)
        <4> DEFINE o == page[p].owner
        <4>1. /\ cursor' = pos /\ saved' = [saved EXCEPT ![o] = pos]
              /\ queued' = [q EXCEPT ![o] = IF q[o] > pos THEN q[o] ELSE 0]
          BY <2>1, <3>3 DEF SaveCursor
        <4> QED
          BY <4>1, <3>1, <1>1
      <3> QED
        BY <3>2, <3>3
    <2> QED
      BY <1>3, <2>2, <2>3 DEF TypeOK
  <1>4. CASE left # {}
    <2>1. /\ page' = [page EXCEPT ![p].left = left, ![p].pos = pos]
          /\ queued' = q /\ UNCHANGED <<cursor, saved>>
      BY <1>4 DEF Done
    <2>2. page'[p] = [page[p] EXCEPT !.left = left, !.pos = pos]
      BY <2>1 DEF TypeOK
    <2>3. page'[p] \in Commit /\ page'[p].left = left /\ page'[p].pos = pos
          /\ page'[p].owner = page[p].owner
      BY <2>2, <1>1, <1>2 DEF Commit
    <2> QED
      BY <2>1, <2>3 DEF TypeOK
  <1> QED
    BY <1>3, <1>4

LEMMA TypeInit == Init => TypeOK
  <1> SUFFICES ASSUME Init PROVE TypeOK
    OBVIOUS
  <1> USE ConstantsAssumption DEF Init
  <1>1. /\ thread \in Seq(Kinds) /\ Len(thread) \in Pos
        /\ portalq \in Seq(Event)
    BY DEF Pos
  <1>2. poller \in [Client -> PollState] /\ \A c \in Client : poller[c].pc # "queueing"
    BY DEF Idle, PollState, Pos, Page
  <1>3. page \in [Page -> Commit]
    BY DEF NoCommit, Commit, Client, Pos
  <1>4. cursor \in Pos /\ client \in Client /\ queued \in [Client -> Pos]
        /\ saved \in [Client -> Pos]
    BY DEF Pos, Client
  <1> QED
    <2>1. portalq = <<>> /\ running = {} /\ restarts \in 0 .. MaxRestarts
      OBVIOUS
    <2>2. room \in BOOLEAN
      OBVIOUS
    <2>3. finished \subseteq Msg /\ history \subseteq Msg /\ lost \subseteq Msg
      OBVIOUS
    <2> QED
      BY <2>1, <2>2, <2>3, <1>1, <1>2, <1>3, <1>4 DEF TypeOK

LEMMA TypeNext == TypeOK /\ [Next]_vars => TypeOK'
  <1> SUFFICES ASSUME TypeOK, [Next]_vars PROVE TypeOK'
    OBVIOUS
  <1> USE ConstantsAssumption
  <1>1. ASSUME NEW c \in Client, List(c) PROVE TypeOK'
    <2>1. poller' = [poller EXCEPT ![c] =
              [pc |-> "listed", th |-> cursor, next |-> 0, top |-> 0, page |-> 0]]
      BY <1>1 DEF List
    <2>2. [pc |-> "listed", th |-> cursor, next |-> 0, top |-> 0, page |-> 0] \in PollState
      BY DEF TypeOK, PollState, Pos
    <2> QED
      BY <1>1, <2>1, <2>2 DEF List, TypeOK
  <1>2. ASSUME NEW c \in Client, Fetch(c) PROVE TypeOK'
    <2>1. queued[c] \in Pos /\ poller[c] \in PollState
      BY DEF TypeOK
    <2>2. Later(poller[c].th, queued[c]) \in Pos
      BY <2>1 DEF PollState, Later
    <2>3. poller' \in [Client -> PollState] /\ poller'[c].pc = "fetching"
          /\ \A d \in Client \ {c} : poller'[d] = poller[d]
      BY <1>2, <2>1, <2>2 DEF Fetch, TypeOK, PollState
    <2> QED
      BY <1>2, <2>3 DEF Fetch, TypeOK
  <1>i. ASSUME NEW c \in Client, poller' = [poller EXCEPT ![c] = Idle]
        PROVE  /\ poller' \in [Client -> PollState]
               /\ \A d \in Client : poller'[d].pc = "queueing" =>
                     /\ poller'[d].next \in 1 .. poller'[d].top + 1
                     /\ poller'[d].page \in Page
    <2>1. Idle \in PollState /\ Idle.pc # "queueing"
      BY DEF Idle, PollState, Pos
    <2>2. poller \in [Client -> PollState]
          /\ \A d \in Client : poller[d].pc = "queueing" =>
                /\ poller[d].next \in 1 .. poller[d].top + 1
                /\ poller[d].page \in Page
      BY DEF TypeOK
    <2>3. poller'[c] = Idle /\ \A d \in Client \ {c} : poller'[d] = poller[d]
      BY <1>i, <2>2
    <2>4. poller' \in [Client -> PollState]
      BY <1>i, <2>1, <2>2
    <2> QED
      BY <2>1, <2>2, <2>3, <2>4
  <1>3. ASSUME NEW c \in Client, FetchFail(c) PROVE TypeOK'
    <2>1. /\ poller' = [poller EXCEPT ![c] = Idle]
          /\ UNCHANGED <<thread, cursor, room, client, queued, saved, page, portalq,
                         running, restarts, finished, history, lost>>
      BY <1>3 DEF FetchFail
    <2> QED
      BY <2>1, <1>i DEF TypeOK
  <1>4. ASSUME NEW c \in Client, RespondEmpty(c) PROVE TypeOK'
    <2>1. /\ poller' = [poller EXCEPT ![c] = Idle]
          /\ UNCHANGED <<thread, cursor, room, client, queued, saved, page, portalq,
                         running, restarts, finished, history, lost>>
      BY <1>4 DEF RespondEmpty
    <2> QED
      BY <2>1, <1>i DEF TypeOK
  <1>5. ASSUME NEW c \in Client, Respond(c) PROVE TypeOK'
    <2> DEFINE th == poller[c].th
               hi == Len(thread)
               p == CHOOSE x \in Page : ~Open(x)
    <2>1. p \in Page
      BY <1>5 DEF Respond
    <2>2. th \in Pos /\ hi \in Pos /\ hi > th
      BY <1>5 DEF Respond, TypeOK, PollState
    <2>3. PICK lo \in OldestReturned(th, hi) :
            /\ poller' = [poller EXCEPT ![c] =
                  [pc |-> "queueing", th |-> th, next |-> lo, top |-> hi, page |-> p]]
            /\ IF th = 0
               THEN history' = history \cup (1 .. lo - 1) /\ UNCHANGED lost
               ELSE lost' = lost \cup (th + 1 .. lo - 1) /\ UNCHANGED history
      BY <1>5 DEF Respond
    <2>4. lo \in 1 .. hi
      <3>1. CASE th = 0
        BY <3>1, <2>2 DEF OldestReturned, OldestOfPage, Later, Pos
      <3>2. CASE th # 0
        <4>1. PICK k \in 1 .. MaxCatchup : lo = Later(th + 1, OldestOfPage(hi, k))
          BY <3>2 DEF OldestReturned
        <4>2. k * PageSize \in Nat /\ k * PageSize >= 1
          BY <4>1
        <4>3. OldestOfPage(hi, k) \in 1 .. hi
          BY <4>2, <2>2 DEF OldestOfPage, Later, Pos
        <4> QED
          BY <4>1, <4>3, <2>2 DEF Later, Pos
      <3> QED
        BY <3>1, <3>2
    <2>5. /\ poller' \in [Client -> PollState]
          /\ poller'[c].next \in 1 .. poller'[c].top + 1 /\ poller'[c].page \in Page
          /\ \A d \in Client \ {c} : poller'[d] = poller[d]
      <3> DEFINE r == [pc |-> "queueing", th |-> th, next |-> lo, top |-> hi, page |-> p]
      <3>1. r \in PollState
        BY <2>1, <2>2, <2>4 DEF PollState, Pos, Page
      <3>2. poller' = [poller EXCEPT ![c] = r]
        BY <2>3
      <3>3. r.next \in 1 .. r.top + 1 /\ r.page \in Page
        BY <2>1, <2>2, <2>4 DEF Pos
      <3> QED
        BY <3>1, <3>2, <3>3 DEF TypeOK
    <2>6. page' \in [Page -> Commit]
      BY <1>5, <2>1 DEF Respond, TypeOK, Commit, OwnCount, Pos
    <2>7. history' \subseteq Msg /\ lost' \subseteq Msg
      <3>1. 1 .. lo - 1 \subseteq Msg /\ th + 1 .. lo - 1 \subseteq Msg
        BY <2>2, <2>4 DEF Pos, Msg
      <3> QED
        BY <2>3, <3>1 DEF TypeOK
    <2> QED
      BY <1>5, <2>5, <2>6, <2>7 DEF Respond, TypeOK
  <1>6. ASSUME NEW c \in Client, QueueNext(c) PROVE TypeOK'
    <2> DEFINE m == poller[c].next
               p == poller[c].page
    <2>1. m \in Msg /\ p \in Page /\ m <= poller[c].top
      <3>1. poller[c].pc = "queueing" /\ m <= poller[c].top
        BY <1>6 DEF QueueNext
      <3>2. m \in 1 .. poller[c].top + 1 /\ p \in Page /\ poller[c].top \in Pos
        BY <3>1 DEF TypeOK, PollState
      <3> QED
        BY <3>1, <3>2 DEF Pos, Msg
    <2>2. /\ poller' \in [Client -> PollState]
          /\ poller'[c] = [poller[c] EXCEPT !.next = m + 1]
          /\ \A d \in Client \ {c} : poller'[d] = poller[d]
      <3>1. poller' = [poller EXCEPT ![c].next = m + 1]
        BY <1>6 DEF QueueNext
      <3>2. poller[c] \in PollState /\ m + 1 \in 0 .. MaxMsg + 1
        BY <2>1 DEF TypeOK, Msg
      <3>3. [poller[c] EXCEPT !.next = m + 1] \in PollState
        BY <3>2 DEF PollState
      <3> QED
        BY <3>1, <3>3 DEF TypeOK
    <2>3. \A d \in Client : poller'[d].pc = "queueing" =>
              poller'[d].next \in 1 .. poller'[d].top + 1 /\ poller'[d].page \in Page
      <3>1. poller[c] \in PollState /\ poller[c].top \in Pos
        BY DEF TypeOK, PollState
      <3>2. poller'[c].next = m + 1 /\ poller'[c].top = poller[c].top /\ poller'[c].page = p
        BY <2>2, <3>1 DEF PollState
      <3>3. poller'[c].next \in 1 .. poller'[c].top + 1
        BY <3>1, <3>2, <2>1 DEF Msg, Pos
      <3> QED
        BY <2>1, <2>2, <3>2, <3>3 DEF TypeOK
    <2>4. page' \in [Page -> Commit]
      <3>1. page' = page \/ page' = Track(p, m)
        BY <1>6 DEF QueueNext
      <3>2. page[p] \in Commit /\ m \in Pos
        BY <2>1 DEF TypeOK, Msg, Pos
      <3>3. [page[p] EXCEPT !.left = page[p].left \cup {m}] \in Commit
        BY <3>2 DEF Commit
      <3> QED
        BY <3>1, <3>3 DEF Track, TypeOK
    <2>5. portalq' \in Seq(Event)
      <3>1. [msg |-> m, page |-> p] \in Event
        BY <2>1 DEF Event
      <3>2. portalq' = portalq \/ portalq' = Append(portalq, [msg |-> m, page |-> p])
        BY <1>6 DEF QueueNext
      <3> QED
        BY <3>1, <3>2 DEF TypeOK
    <2>6. finished' \subseteq Msg /\ room' \in BOOLEAN
      BY <1>6, <2>1 DEF QueueNext, TypeOK
    <2> QED
      BY <1>6, <2>2, <2>3, <2>4, <2>5, <2>6 DEF QueueNext, TypeOK
  <1>7. ASSUME NEW c \in Client, Advance(c) PROVE TypeOK'
    <2>1. poller[c].page \in Page /\ poller[c].top \in Pos
      BY <1>7 DEF Advance, TypeOK, PollState
    <2>2. NoteQueued(queued, c, poller[c].top) \in [Client -> Pos]
      BY <2>1 DEF NoteQueued, TypeOK, Later
    <2>3. OwnCount \in Pos
      BY DEF OwnCount, Pos
    <2>4. /\ page' \in [Page -> Commit] /\ queued' \in [Client -> Pos]
          /\ saved' \in [Client -> Pos] /\ cursor' \in Pos
      BY <1>7, <2>1, <2>2, <2>3, DoneCommits DEF Advance
    <2>5. poller' \in [Client -> PollState]
          /\ \A d \in Client : poller'[d] = poller[d] \/ poller'[d].pc = "idle"
      BY <1>7 DEF Advance, TypeOK, Idle, PollState, Pos
    <2> QED
      BY <1>7, <2>4, <2>5 DEF Advance, TypeOK
  <1>8. ASSUME Take PROVE TypeOK'
    <2>1. Head(portalq) \in Event /\ Tail(portalq) \in Seq(Event)
      BY <1>8 DEF Take, TypeOK
    <2> QED
      BY <1>8, <2>1 DEF Take, TypeOK
  <1>9. ASSUME NEW e \in running, Drop(e) PROVE TypeOK'
    <2>1. e.msg \in Msg
      BY DEF TypeOK, Event
    <2> QED
      BY <1>9, <2>1 DEF Drop, TypeOK
  <1>10. ASSUME NEW e \in running, Handle(e) PROVE TypeOK'
    <2>1. e.msg \in Msg /\ e.page \in Page /\ e.msg \in Pos
      BY DEF TypeOK, Event, Msg, Pos
    <2>2. page[e.page].pos \in Pos
      BY <2>1 DEF TypeOK, Commit
    <2>3. queued \in [Client -> Pos]
      BY DEF TypeOK
    <2>4. /\ page' \in [Page -> Commit] /\ queued' \in [Client -> Pos]
          /\ saved' \in [Client -> Pos] /\ cursor' \in Pos
      BY <1>10, <2>1, <2>2, <2>3, DoneCommits DEF Handle
    <2> QED
      BY <1>10, <2>1, <2>4 DEF Handle, TypeOK
  <1>11. ASSUME Arrive PROVE TypeOK'
    <2>1. PICK k \in Kinds : thread' = Append(thread, k)
      BY <1>11 DEF Arrive
    <2>2. thread' \in Seq(Kinds) /\ Len(thread') \in Pos
      BY <1>11, <2>1 DEF Arrive, TypeOK, Pos
    <2> QED
      BY <1>11, <2>2 DEF Arrive, TypeOK, memory
  <1>12. ASSUME Relogin PROVE TypeOK'
    BY <1>12 DEF Relogin, TypeOK, Client
  <1>13. ASSUME Restart PROVE TypeOK'
    <2>1. poller' \in [Client -> PollState] /\ \A c \in Client : poller'[c].pc # "queueing"
      BY <1>13 DEF Restart, Idle, PollState, Pos, Page
    <2>2. page' \in [Page -> Commit]
      BY <1>13 DEF Restart, NoCommit, Commit, Client, Pos
    <2> QED
      <3>1. /\ queued' \in [Client -> Pos] /\ saved' \in [Client -> Pos] /\ client' \in Client
            /\ portalq' \in Seq(Event) /\ running' \subseteq Event
            /\ restarts' \in 0 .. MaxRestarts
        BY <1>13 DEF Restart, TypeOK, Client, Pos
      <3>2. UNCHANGED <<thread, cursor, room, finished, history, lost>>
        BY <1>13 DEF Restart
      <3> QED
        BY <2>1, <2>2, <3>1, <3>2 DEF TypeOK
  <1>14. CASE UNCHANGED vars
    BY <1>14 DEF vars, memory, TypeOK
  <1> QED
    BY <1>1, <1>2, <1>3, <1>4, <1>5, <1>6, <1>7, <1>8, <1>9, <1>10, <1>11, <1>12, <1>13,
       <1>14 DEF Next, Poll, Portal

\* Every variable keeps its type, and a poller's counters their range, in
\* every run of the poller, the portal and their surroundings.
THEOREM TypeCorrect == Spec => []TypeOK
  BY TypeInit, TypeNext, PTL DEF Spec

-----------------------------------------------------------------------------
(* The events that wait *)

LEMMA WaitingTyped ==
    ASSUME TypeOK
    PROVE  /\ Waiting \subseteq Event
           /\ \A e \in Waiting :
                 e.msg \in Msg /\ e.page \in Page /\ e.msg # OwnCount /\ e.msg \in Nat
  <1>1. portalq \in Seq(Event) /\ running \subseteq Event
    BY DEF TypeOK
  <1>2. Waiting \subseteq Event
    BY <1>1 DEF Waiting
  <1>3. \A e \in Event : e.msg \in Msg /\ e.page \in Page
    BY DEF Event
  <1>4. \A m \in Msg : m # OwnCount /\ m \in Nat
    BY ConstantsAssumption DEF Msg, OwnCount
  <1> QED
    BY <1>2, <1>3, <1>4

LEMMA WaitingAppend ==
    ASSUME TypeOK, NEW x \in Event, portalq' = Append(portalq, x), running' = running
    PROVE  Waiting' = Waiting \cup {x}
  <1>1. portalq \in Seq(Event) /\ Len(portalq) \in Nat
    BY DEF TypeOK
  <1>2. Len(portalq') = Len(portalq) + 1 /\ portalq'[Len(portalq) + 1] = x
        /\ \A i \in 1 .. Len(portalq) : portalq'[i] = portalq[i]
    BY <1>1
  <1> QED
    BY <1>1, <1>2 DEF Waiting

LEMMA TakeShifts ==
    ASSUME TypeOK, Take
    PROVE  /\ Len(portalq) \in Nat \ {0}
           /\ Len(portalq') = Len(portalq) - 1
           /\ \A i \in 1 .. Len(portalq') : portalq'[i] = portalq[i + 1]
           /\ running' = running \cup {portalq[1]}
  BY DEF TypeOK, Take

LEMMA TakeWaiting ==
    ASSUME TypeOK, Take
    PROVE  Waiting' = Waiting
  <1>1. \A i \in 2 .. Len(portalq) : portalq[i] = portalq'[i - 1] /\ i - 1 \in 1 .. Len(portalq')
    BY TakeShifts
  <1>2. \A i \in 1 .. Len(portalq) : i = 1 \/ i \in 2 .. Len(portalq)
    BY TakeShifts
  <1>3. Waiting \subseteq Waiting'
    BY <1>1, <1>2, TakeShifts DEF Waiting
  <1>4. Waiting' \subseteq Waiting
    BY TakeShifts DEF Waiting
  <1> QED
    BY <1>3, <1>4

\* Finishing an event leaves the others waiting.
LEMMA DoneWaiting ==
    ASSUME TypeOK, WaitingOnce, NEW e \in running, running' = running \ {e},
           portalq' = portalq
    PROVE  Waiting' = Waiting \ {e} /\ e \in Waiting
  BY DEF Waiting, WaitingOnce

-----------------------------------------------------------------------------
(* A page waits for its own events *)

LEMMA PageInit == Init => PageInv
  <1> SUFFICES ASSUME Init PROVE PageInv
    OBVIOUS
  <1>1. portalq = <<>> /\ running = {} /\ Waiting = {}
    BY DEF Init, Waiting
  <1>2. \A c \in Client : poller[c].pc # "queueing"
    BY DEF Init, Idle
  <1> QED
    BY <1>1, <1>2, TypeInit
    DEF PageInv, QueueingPage, WaitingBehind, WaitingOnce, PageWaitsForItsEvents

\* A step that neither touches pages or events nor lets a poller start to queue.
LEMMA PageFrame ==
    ASSUME PageInv, TypeOK', UNCHANGED <<page, portalq, running>>,
           Len(thread') >= Len(thread),
           \A c \in Client : poller'[c] = poller[c] \/ poller'[c].pc # "queueing"
    PROVE  PageInv'
  <1>1. Waiting' = Waiting
    BY DEF Waiting
  <1>2. Len(thread) \in Nat /\ Len(thread') \in Nat
    BY DEF PageInv, TypeOK, Pos
  <1>3. QueueingPage'
    <2> SUFFICES ASSUME NEW c \in Client, poller'[c].pc = "queueing"
                 PROVE  /\ poller'[c].top <= Len(thread')
                        /\ page'[poller'[c].page].owner = c
                        /\ page'[poller'[c].page].pos = 0
                        /\ OwnCount \in page'[poller'[c].page].left
      BY DEF QueueingPage
    <2>1. poller'[c] = poller[c] /\ page' = page
      OBVIOUS
    <2>2. /\ poller[c].top <= Len(thread) /\ page[poller[c].page].owner = c
          /\ page[poller[c].page].pos = 0 /\ OwnCount \in page[poller[c].page].left
      BY <2>1 DEF PageInv, QueueingPage
    <2>3. poller[c].top \in Nat
      BY ConstantsAssumption DEF PageInv, TypeOK, PollState, Pos
    <2> QED
      BY <1>2, <2>1, <2>2, <2>3
  <1>4. WaitingBehind'
    BY <1>1, <1>2, WaitingTyped DEF PageInv, WaitingBehind, Msg
  <1> QED
    BY <1>1, <1>3, <1>4 DEF PageInv, WaitingOnce, PageWaitsForItsEvents

LEMMA PageRespond ==
    ASSUME PageInv, TypeOK', NEW c \in Client, Respond(c)
    PROVE  PageInv'
  <1> DEFINE p == CHOOSE x \in Page : ~Open(x)
  <1>1. p \in Page /\ ~Open(p)
    BY DEF Respond
  <1>2. /\ page' = [page EXCEPT ![p] = [owner |-> c, left |-> {OwnCount}, pos |-> 0]]
        /\ UNCHANGED <<thread, portalq, running>>
    BY DEF Respond
  <1>3. PICK lo : poller' = [poller EXCEPT ![c] =
            [pc |-> "queueing", th |-> poller[c].th, next |-> lo, top |-> Len(thread),
             page |-> p]]
    BY DEF Respond
  <1>4. /\ poller'[c].page = p /\ poller'[c].top = Len(thread)
        /\ \A d \in Client \ {c} : poller'[d] = poller[d]
    BY <1>3 DEF PageInv, TypeOK
  <1>5. /\ page'[p] = [owner |-> c, left |-> {OwnCount}, pos |-> 0]
        /\ \A x \in Page \ {p} : page'[x] = page[x]
    BY <1>1, <1>2 DEF PageInv, TypeOK
  <1>6. Waiting' = Waiting /\ \A e \in Waiting : e.page # p
    BY <1>1, <1>2 DEF Waiting, PageInv, PageWaitsForItsEvents, Open
  <1>7. \A d \in Client \ {c} : poller[d].pc = "queueing" =>
            poller[d].page \in Page \ {p}
    BY <1>1 DEF PageInv, TypeOK, QueueingPage, Open
  <1>a. Len(thread) \in Nat
    BY DEF PageInv, TypeOK, Pos
  <1>8. QueueingPage'
    <2> SUFFICES ASSUME NEW d \in Client, poller'[d].pc = "queueing"
                 PROVE  /\ poller'[d].top <= Len(thread')
                        /\ page'[poller'[d].page].owner = d
                        /\ page'[poller'[d].page].pos = 0
                        /\ OwnCount \in page'[poller'[d].page].left
      BY DEF QueueingPage
    <2>1. CASE d = c
      BY <2>1, <1>2, <1>4, <1>5, <1>a
    <2>2. CASE d # c
      <3>1. poller'[d] = poller[d] /\ page'[poller[d].page] = page[poller[d].page]
        BY <2>2, <1>4, <1>5, <1>7
      <3>2. poller[d].pc = "queueing" /\ thread' = thread
        BY <3>1, <1>2
      <3> QED
        BY <3>1, <3>2 DEF PageInv, QueueingPage
    <2> QED
      BY <2>1, <2>2
  <1>9. WaitingBehind'
    BY <1>2, <1>4, <1>6 DEF PageInv, WaitingBehind
  <1>10. PageWaitsForItsEvents'
    BY <1>5, <1>6, WaitingTyped DEF PageInv, PageWaitsForItsEvents
  <1> QED
    BY <1>2, <1>8, <1>9, <1>10 DEF PageInv, WaitingOnce

LEMMA PageQueueNext ==
    ASSUME PageInv, TypeOK', NEW c \in Client, QueueNext(c)
    PROVE  PageInv'
  <1> DEFINE m == poller[c].next
             p == poller[c].page
             x == [msg |-> m, page |-> p]
  <1>1. /\ poller[c].pc = "queueing" /\ m <= poller[c].top
        /\ poller' = [poller EXCEPT ![c].next = m + 1]
        /\ UNCHANGED <<thread, running>>
    BY DEF QueueNext
  <1>2. m \in Msg /\ p \in Page /\ x \in Event
    <2>1. m \in 1 .. poller[c].top + 1 /\ p \in Page /\ poller[c].top \in Pos
      BY <1>1 DEF PageInv, TypeOK, PollState
    <2> QED
      BY <1>1, <2>1, ConstantsAssumption DEF Msg, Pos, Event
  <1>3. /\ poller'[c].page = p /\ poller'[c].top = poller[c].top /\ poller'[c].next = m + 1
        /\ \A d \in Client \ {c} : poller'[d] = poller[d]
    BY <1>1 DEF PageInv, TypeOK, PollState
  <1>4. /\ poller[c].top <= Len(thread) /\ page[p].owner = c
        /\ page[p].pos = 0 /\ OwnCount \in page[p].left
    BY <1>1 DEF PageInv, QueueingPage
  <1>a. /\ Len(thread) \in Nat /\ poller[c].top \in Nat
        /\ \A e \in Waiting : e.msg \in Nat
    <2>1. Len(thread) \in Pos /\ poller[c].top \in Pos
      BY DEF PageInv, TypeOK, PollState
    <2> QED
      BY <2>1, WaitingTyped, ConstantsAssumption DEF PageInv, Pos
  <1>b. \A d \in Client \ {c} : poller[d].pc = "queueing" => poller[d].page \in Page \ {p}
    BY <1>4 DEF PageInv, TypeOK, QueueingPage
  <1>5. CASE UNCHANGED <<page, portalq>>
    <2>1. Waiting' = Waiting
      BY <1>1, <1>5 DEF Waiting
    <2>2. QueueingPage'
      BY <1>1, <1>3, <1>4, <1>5 DEF PageInv, QueueingPage
    <2>3. \A e \in Waiting : e.page = p => e.msg < m
      BY <1>1 DEF PageInv, WaitingBehind
    <2>4. \A e \in Waiting : e.page = p => e.msg < m + 1
      BY <2>3, <1>2, <1>a DEF Msg
    <2>5. WaitingBehind'
      BY <1>1, <1>3, <1>5, <2>1, <2>4 DEF PageInv, WaitingBehind
    <2> QED
      BY <1>1, <1>5, <2>1, <2>2, <2>5 DEF PageInv, WaitingOnce, PageWaitsForItsEvents
  <1>6. CASE portalq' = Append(portalq, x) /\ page' = Track(p, m)
    <2>1. Waiting' = Waiting \cup {x}
      BY <1>1, <1>2, <1>6, WaitingAppend DEF PageInv
    <2>2. /\ page'[p] = [page[p] EXCEPT !.left = page[p].left \cup {m}]
          /\ \A y \in Page \ {p} : page'[y] = page[y]
      BY <1>2, <1>6 DEF Track, PageInv, TypeOK
    <2>3. /\ page'[p].left = page[p].left \cup {m}
          /\ page'[p].owner = page[p].owner /\ page'[p].pos = page[p].pos
      BY <1>2, <2>2 DEF PageInv, TypeOK, Commit
    <2>4. QueueingPage'
      <3> SUFFICES ASSUME NEW d \in Client, poller'[d].pc = "queueing"
                   PROVE  /\ poller'[d].top <= Len(thread')
                          /\ page'[poller'[d].page].owner = d
                          /\ page'[poller'[d].page].pos = 0
                          /\ OwnCount \in page'[poller'[d].page].left
        BY DEF QueueingPage
      <3>1. CASE d = c
        BY <3>1, <1>1, <1>3, <1>4, <2>3
      <3>2. CASE d # c
        BY <3>2, <1>1, <1>3, <1>b, <2>2 DEF PageInv, QueueingPage
      <3> QED
        BY <3>1, <3>2
    <2>5. \A e \in Waiting : e.page = p => e.msg < m
      BY <1>1 DEF PageInv, WaitingBehind
    <2>6. WaitingBehind'
      <3>1. \A e \in Waiting' : e.msg <= Len(thread')
        BY <1>1, <1>2, <1>4, <1>a, <2>1 DEF PageInv, WaitingBehind, Msg
      <3> SUFFICES ASSUME NEW d \in Client, NEW e \in Waiting', poller'[d].pc = "queueing",
                          e.page = poller'[d].page
                   PROVE  e.msg < poller'[d].next
        BY <3>1 DEF WaitingBehind
      <3>2. CASE d = c
        BY <3>2, <1>2, <1>3, <1>a, <2>1, <2>5 DEF Msg
      <3>3. CASE d # c
        <4>1. e # x
          BY <3>3, <1>3, <1>b
        <4> QED
          BY <3>3, <4>1, <1>3, <2>1 DEF PageInv, WaitingBehind
      <3> QED
        BY <3>2, <3>3
    <2>7. x \notin Waiting
      BY <1>2, <2>5, <1>a DEF Msg
    <2>8. WaitingOnce'
      <3>1. portalq \in Seq(Event) /\ Len(portalq) \in Nat
        BY DEF PageInv, TypeOK
      <3>2. Len(portalq') = Len(portalq) + 1 /\ portalq'[Len(portalq) + 1] = x
            /\ \A i \in 1 .. Len(portalq) : portalq'[i] = portalq[i]
        BY <1>6, <3>1
      <3>3. \A i \in 1 .. Len(portalq) : portalq[i] # x
        BY <2>7 DEF Waiting
      <3>4. x \notin running
        BY <2>7 DEF Waiting
      <3>5. \A i \in 1 .. Len(portalq') : i \in 1 .. Len(portalq) \/ i = Len(portalq) + 1
        BY <3>1, <3>2
      <3>6. \A i \in 1 .. Len(portalq') : portalq'[i] \notin running'
        BY <1>1, <3>2, <3>4, <3>5 DEF PageInv, WaitingOnce
      <3>7. \A i, j \in 1 .. Len(portalq') : portalq'[i] = portalq'[j] => i = j
        BY <3>2, <3>3, <3>5 DEF PageInv, WaitingOnce
      <3> QED
        BY <3>6, <3>7 DEF WaitingOnce
    <2>9. PageWaitsForItsEvents'
      <3> SUFFICES ASSUME NEW e \in Waiting' PROVE e.msg \in page'[e.page].left
        BY DEF PageWaitsForItsEvents
      <3>1. CASE e = x
        BY <3>1, <2>3
      <3>2. CASE e # x
        <4>1. e \in Waiting /\ e.page \in Page /\ e.msg \in page[e.page].left
          BY <3>2, <2>1, WaitingTyped DEF PageInv, PageWaitsForItsEvents
        <4> QED
          BY <4>1, <2>2, <2>3
      <3> QED
        BY <3>1, <3>2
    <2> QED
      BY <2>4, <2>6, <2>8, <2>9 DEF PageInv
  <1> QED
    BY <1>5, <1>6 DEF QueueNext

\* What finishing an event or a page leaves of the page's commit.
LEMMA PageDone ==
    ASSUME PageInv, TypeOK', NEW c \in Client, Advance(c)
    PROVE  PageInv'
  <1> DEFINE p == poller[c].page
  <1>1. /\ poller[c].pc = "queueing" /\ poller' = [poller EXCEPT ![c] = Idle]
        /\ Done(p, OwnCount, poller[c].top, NoteQueued(queued, c, poller[c].top))
        /\ UNCHANGED <<thread, portalq, running>>
    BY DEF Advance
  <1>2. p \in Page /\ OwnCount \in Pos /\ poller[c].top \in Pos /\ page[p].owner = c
    <2>1. p \in Page /\ poller[c].top \in Pos
      BY <1>1 DEF PageInv, TypeOK, PollState
    <2>2. OwnCount \in Pos
      BY ConstantsAssumption DEF OwnCount, Pos
    <2> QED
      BY <1>1, <2>1, <2>2 DEF PageInv, QueueingPage
  <1>3. NoteQueued(queued, c, poller[c].top) \in [Client -> Pos]
    BY <1>2 DEF NoteQueued, PageInv, TypeOK, Later
  <1>4. /\ \A x \in Page \ {p} : page'[x] = page[x]
        /\ page'[p].left = page[p].left \ {OwnCount}
    BY <1>1, <1>2, <1>3, DoneCommits DEF PageInv
  <1>5. Waiting' = Waiting
    BY <1>1 DEF Waiting
  <1>6. \A d \in Client : poller'[d].pc = "queueing" =>
            d # c /\ poller'[d] = poller[d] /\ poller[d].page \in Page \ {p}
    BY <1>1, <1>2 DEF Idle, PageInv, TypeOK, QueueingPage
  <1>7. QueueingPage'
    BY <1>1, <1>4, <1>6 DEF PageInv, QueueingPage
  <1>8. WaitingBehind'
    BY <1>1, <1>5, <1>6 DEF PageInv, WaitingBehind
  <1>9. PageWaitsForItsEvents'
    BY <1>4, <1>5, WaitingTyped DEF PageInv, PageWaitsForItsEvents
  <1> QED
    BY <1>1, <1>7, <1>8, <1>9 DEF PageInv, WaitingOnce

LEMMA PageTake ==
    ASSUME PageInv, TypeOK', Take
    PROVE  PageInv'
  <1>1. UNCHANGED <<thread, poller, page>> /\ Waiting' = Waiting
    BY TakeWaiting DEF Take, PageInv
  <1>2. QueueingPage' /\ WaitingBehind' /\ PageWaitsForItsEvents'
    BY <1>1 DEF PageInv, QueueingPage, WaitingBehind, PageWaitsForItsEvents
  <1>3. /\ \A i \in 1 .. Len(portalq') : portalq'[i] = portalq[i + 1] /\ i + 1 \in 1 .. Len(portalq)
        /\ 1 \in 1 .. Len(portalq)
        /\ running' = running \cup {portalq[1]}
    BY TakeShifts DEF PageInv
  <1>4. \A i, j \in 1 .. Len(portalq') : portalq'[i] = portalq'[j] => i = j
    BY <1>3 DEF PageInv, WaitingOnce
  <1>5. \A i \in 1 .. Len(portalq') : portalq'[i] \notin running'
    <2> SUFFICES ASSUME NEW i \in 1 .. Len(portalq') PROVE portalq'[i] \notin running'
      OBVIOUS
    <2>1. portalq[i + 1] \notin running /\ i + 1 # 1
      BY <1>3 DEF PageInv, WaitingOnce
    <2> QED
      BY <1>3, <2>1 DEF PageInv, WaitingOnce
  <1> QED
    BY <1>2, <1>4, <1>5 DEF PageInv, WaitingOnce

LEMMA PageDrop ==
    ASSUME PageInv, TypeOK', NEW e \in running, Drop(e)
    PROVE  PageInv'
  <1>1. UNCHANGED <<thread, poller, page, portalq>> /\ running' = running \ {e}
    BY DEF Drop
  <1>2. Waiting' \subseteq Waiting
    BY <1>1 DEF Waiting
  <1> QED
    BY <1>1, <1>2
    DEF PageInv, QueueingPage, WaitingBehind, WaitingOnce, PageWaitsForItsEvents

LEMMA PageHandle ==
    ASSUME PageInv, TypeOK', NEW e \in running, Handle(e)
    PROVE  PageInv'
  <1> DEFINE p == e.page
  <1>1. /\ running' = running \ {e} /\ UNCHANGED <<thread, poller, portalq>>
        /\ Done(p, e.msg, page[p].pos, queued)
    BY DEF Handle
  <1>2. Waiting' = Waiting \ {e} /\ e \in Waiting
    BY <1>1, DoneWaiting DEF PageInv
  <1>3. /\ p \in Page /\ e.msg \in Pos /\ e.msg # OwnCount /\ page[p].pos \in Pos
        /\ queued \in [Client -> Pos]
    <2>1. e.msg \in Msg /\ p \in Page /\ e.msg # OwnCount
      BY <1>2, WaitingTyped DEF PageInv
    <2>2. e.msg \in Pos
      BY <2>1, ConstantsAssumption DEF Msg, Pos
    <2>3. page[p] \in Commit /\ queued \in [Client -> Pos]
      BY <2>1 DEF PageInv, TypeOK
    <2> QED
      BY <2>1, <2>2, <2>3 DEF Commit
  <1>4. /\ \A x \in Page \ {p} : page'[x] = page[x]
        /\ page'[p].left = page[p].left \ {e.msg}
        /\ page'[p].left # {} => page'[p].owner = page[p].owner /\ page'[p].pos = page[p].pos
    BY <1>1, <1>3, DoneCommits DEF PageInv
  <1>5. QueueingPage'
    <2> SUFFICES ASSUME NEW d \in Client, poller[d].pc = "queueing"
                 PROVE  /\ poller[d].top <= Len(thread)
                        /\ page'[poller[d].page].owner = d
                        /\ page'[poller[d].page].pos = 0
                        /\ OwnCount \in page'[poller[d].page].left
      BY <1>1 DEF QueueingPage
    <2>1. poller[d].page \in Page
      BY DEF PageInv, TypeOK
    <2> QED
      BY <1>3, <1>4, <2>1 DEF PageInv, QueueingPage
  <1>6. WaitingBehind'
    BY <1>1, <1>2 DEF PageInv, WaitingBehind
  <1>7. PageWaitsForItsEvents'
    <2> SUFFICES ASSUME NEW f \in Waiting, f # e
                 PROVE  f.msg \in page'[f.page].left
      BY <1>2 DEF PageWaitsForItsEvents
    <2>1. f \in Event /\ e \in Event /\ f.page \in Page /\ f.msg \in page[f.page].left
      BY <1>2, WaitingTyped DEF PageInv, PageWaitsForItsEvents
    <2>2. f.page = p => f.msg # e.msg
      BY <2>1 DEF Event
    <2> QED
      BY <1>4, <2>1, <2>2
  <1> QED
    BY <1>1, <1>5, <1>6, <1>7 DEF PageInv, WaitingOnce

LEMMA PageNext == PageInv /\ [Next]_vars => PageInv'
  <1> SUFFICES ASSUME PageInv, [Next]_vars PROVE PageInv'
    OBVIOUS
  <1>1. TypeOK'
    BY TypeNext DEF PageInv
  <1>2. ASSUME NEW c \in Client, List(c) \/ Fetch(c) \/ FetchFail(c) \/ RespondEmpty(c)
        PROVE  PageInv'
    <2>1. UNCHANGED <<thread, page, portalq, running>>
      BY <1>2 DEF List, Fetch, FetchFail, RespondEmpty
    <2>2. /\ \A d \in Client \ {c} : poller'[d] = poller[d]
          /\ poller'[c].pc # "queueing"
      BY <1>2 DEF List, Fetch, FetchFail, RespondEmpty, Idle, PageInv, TypeOK, PollState
    <2>3. Len(thread') >= Len(thread)
      BY <2>1 DEF PageInv, TypeOK, Pos
    <2> QED
      BY <1>1, <2>1, <2>2, <2>3, PageFrame
  <1>3. ASSUME Arrive PROVE PageInv'
    <2>1. Len(thread') >= Len(thread)
      <3>1. PICK k \in Kinds : thread' = Append(thread, k)
        BY <1>3 DEF Arrive
      <3> QED
        BY <3>1 DEF PageInv, TypeOK
    <2>2. UNCHANGED <<page, portalq, running, poller>>
      BY <1>3 DEF Arrive, memory
    <2> QED
      BY <1>1, <2>1, <2>2, PageFrame
  <1>4. ASSUME Relogin \/ UNCHANGED vars PROVE PageInv'
    <2>1. UNCHANGED <<thread, page, portalq, running, poller>>
      BY <1>4 DEF Relogin, vars, memory
    <2>2. Len(thread') >= Len(thread)
      BY <2>1 DEF PageInv, TypeOK, Pos
    <2> QED
      BY <1>1, <2>1, <2>2, PageFrame
  <1>5. ASSUME Restart PROVE PageInv'
    <2>1. portalq' = <<>> /\ running' = {}
      BY <1>5 DEF Restart
    <2>2. Waiting' = {}
      BY <2>1 DEF Waiting
    <2>3. \A c \in Client : poller'[c].pc # "queueing"
      BY <1>5 DEF Restart, Idle
    <2> QED
      BY <1>1, <2>1, <2>2, <2>3
      DEF PageInv, QueueingPage, WaitingBehind, WaitingOnce, PageWaitsForItsEvents
  <1> QED
    BY <1>1, <1>2, <1>3, <1>4, <1>5, PageRespond, PageQueueNext, PageDone, PageTake,
       PageDrop, PageHandle DEF Next, Poll, Portal

\* A page's cursor is never saved while one of its events waits to be handled:
\* for any portal buffer, any order of handling, any number of re-logins and
\* restarts.
THEOREM PageWaits == Spec => []PageWaitsForItsEvents
  <1>1. PageInv => PageWaitsForItsEvents
    BY DEF PageInv
  <1> QED
    BY <1>1, PageInit, PageNext, PTL DEF Spec

-----------------------------------------------------------------------------
(* Events handled in order: the saved cursor stays behind the handling *)

LEMMA SettledParts ==
    ASSUME Fifo, TypeOK, TypeOK'
    PROVE  /\ Settled = finished \cup history \cup lost
           /\ Settled' = finished' \cup history' \cup lost'
  <1>1. \A m \in 1 .. Len(thread) : thread[m] # "bookkeeping"
    BY DEF Fifo, TypeOK
  <1>2. \A m \in 1 .. Len(thread') : thread'[m] # "bookkeeping"
    BY DEF Fifo, TypeOK
  <1>3. Bookkeeping = {} /\ Bookkeeping' = {}
    BY <1>1, <1>2 DEF Bookkeeping
  <1> QED
    BY <1>3 DEF Settled

\* What is settled stays so, and so does what is covered, as long as an event
\* that stops waiting has its message settled.
LEMMA CoveredGrows ==
    ASSUME Settled \subseteq Settled',
           \A e \in Waiting : e \in Waiting' \/ e.msg \in Settled'
    PROVE  Covered \subseteq Covered'
  BY DEF Covered

\* A poller's numbers.
LEMMA PollerNumbers ==
    ASSUME TypeOK, NEW c \in Client
    PROVE  /\ queued[c] \in Nat /\ poller[c].th \in Nat
           /\ poller[c].next \in Nat /\ poller[c].top \in Nat
  <1>1. poller[c] \in PollState /\ queued[c] \in Pos
    BY DEF TypeOK
  <1> QED
    BY <1>1, ConstantsAssumption DEF PollState, Pos

\* Nothing waits at all when bridgev2 handles an event as it is queued.
LEMMA NoneWait ==
    ASSUME OneRunning, Buffer = 0
    PROVE  Covered = Settled /\ running = {}
  BY DEF OneRunning, Covered, Waiting

LEMMA FifoInit == ASSUME Fifo PROVE Init => FifoInv
  <1> SUFFICES ASSUME Init PROVE FifoInv
    OBVIOUS
  <1>1. /\ portalq = <<>> /\ running = {} /\ Waiting = {} /\ cursor = 0
        /\ finished = {} /\ history = {} /\ lost = {}
        /\ \A c \in Client : queued[c] = 0 /\ poller[c].pc = "idle"
        /\ \A p \in Page : ~Open(p)
    BY DEF Init, Waiting, Idle, Open, NoCommit
  <1>2. PageInv
    BY PageInit
  <1>3. PostedOnly /\ CursorBehindHandling
    BY <1>1 DEF PostedOnly, CursorBehindHandling
  <1>4. OneRunning /\ PollersCovered /\ QueueInOrder /\ NewestEventCounted
    BY <1>1 DEF OneRunning, PollersCovered, QueueInOrder, NewestEventCounted
  <1> QED
    BY <1>2, <1>3, <1>4 DEF FifoInv

\* A step that leaves pages, events and saved positions alone and gives no
\* poller an uncovered position.
LEMMA FifoFrame ==
    ASSUME FifoInv, PageInv', UNCHANGED <<page, portalq, running, cursor, queued>>,
           Settled' = Settled, PostedOnly',
           \A c \in Client :
              \/ poller'[c] = poller[c]
              \/ /\ poller'[c].pc # "queueing"
                 /\ poller'[c].pc \in {"listed", "fetching"} => 1 .. poller'[c].th \subseteq Covered
    PROVE  FifoInv'
  <1>1. Waiting' = Waiting /\ Covered' = Covered
    BY DEF Waiting, Covered
  <1>2. CursorBehindHandling' /\ OneRunning'
    BY <1>1 DEF FifoInv, CursorBehindHandling, OneRunning
  <1>3. PollersCovered'
    BY <1>1 DEF FifoInv, PollersCovered
  <1>4. QueueInOrder'
    BY DEF FifoInv, QueueInOrder, SettledBy
  <1>5. NewestEventCounted'
    <2>1. \A p \in Page : Open(p)' = Open(p)
      BY DEF Open
    <2>2. \A c \in Client : poller'[c].pc = "queueing" => poller'[c] = poller[c]
      OBVIOUS
    <2> QED
      BY <2>1, <2>2 DEF FifoInv, NewestEventCounted
  <1> QED
    BY <1>2, <1>3, <1>4, <1>5 DEF FifoInv

LEMMA FifoRespond ==
    ASSUME Fifo, FifoInv, PageInv', NEW c \in Client, Respond(c)
    PROVE  FifoInv'
  <1> DEFINE p == CHOOSE x \in Page : ~Open(x)
             th == poller[c].th
             hi == Len(thread)
  <1>a. TypeOK /\ TypeOK' /\ Len(thread) \in Nat /\ th \in Nat
    <2>1. TypeOK /\ TypeOK'
      BY DEF FifoInv, PageInv
    <2> QED
      BY <2>1, PollerNumbers DEF TypeOK
  <1>1. /\ p \in Page /\ ~Open(p) /\ hi > th /\ poller[c].pc = "fetching"
        /\ page' = [page EXCEPT ![p] = [owner |-> c, left |-> {OwnCount}, pos |-> 0]]
        /\ UNCHANGED <<thread, portalq, running, cursor, queued, finished>>
    BY DEF Respond
  <1>2. PICK lo \in OldestReturned(th, hi) :
            /\ poller' = [poller EXCEPT ![c] =
                  [pc |-> "queueing", th |-> th, next |-> lo, top |-> hi, page |-> p]]
            /\ IF th = 0
               THEN history' = history \cup (1 .. lo - 1) /\ UNCHANGED lost
               ELSE lost' = lost \cup (th + 1 .. lo - 1) /\ UNCHANGED history
    BY DEF Respond
  <1>3. /\ poller'[c] = [pc |-> "queueing", th |-> th, next |-> lo, top |-> hi, page |-> p]
        /\ \A d \in Client \ {c} : poller'[d] = poller[d]
    BY <1>2, <1>a DEF TypeOK
  <1>4. lo \in 1 .. hi
    <2>1. lo \in 1 .. hi + 1 /\ poller'[c].pc = "queueing" /\ poller'[c].top = hi
      BY <1>3, <1>a DEF TypeOK
    <2>2. lo # hi + 1
      <3>1. CASE th = 0
        BY <3>1, <1>1, <1>a, ConstantsAssumption DEF OldestReturned, OldestOfPage, Later
      <3>2. CASE th # 0
        <4>1. PICK k \in 1 .. MaxCatchup : lo = Later(th + 1, OldestOfPage(hi, k))
          BY <3>2 DEF OldestReturned
        <4>2. k * PageSize \in Nat /\ k * PageSize >= 1
          BY <4>1, ConstantsAssumption
        <4> QED
          BY <4>1, <4>2, <1>1, <1>a DEF OldestOfPage, Later
      <3> QED
        BY <3>1, <3>2
    <2> QED
      BY <2>1, <2>2, <1>a
  <1>5. /\ Settled' = Settled \cup (IF th = 0 THEN 1 .. lo - 1 ELSE th + 1 .. lo - 1)
        /\ PostedOnly'
    <2>1. Settled' = Settled \cup (IF th = 0 THEN 1 .. lo - 1 ELSE th + 1 .. lo - 1)
      BY <1>1, <1>2, <1>a, SettledParts
    <2>2. (IF th = 0 THEN 1 .. lo - 1 ELSE th + 1 .. lo - 1) \subseteq 1 .. Len(thread)
      BY <1>4, <1>a
    <2> QED
      BY <1>1, <2>1, <2>2, <1>a, SettledParts DEF FifoInv, PostedOnly
  <1>6. Waiting' = Waiting /\ Covered \subseteq Covered' /\ Settled' \subseteq Covered'
    BY <1>1, <1>5 DEF Waiting, Covered
  <1>7. CursorBehindHandling' /\ OneRunning'
    BY <1>1, <1>5, <1>6 DEF FifoInv, CursorBehindHandling, OneRunning
  <1>8. PollersCovered'
    <2>1. 1 .. lo - 1 \subseteq Covered'
      <3>1. 1 .. th \subseteq Covered
        BY <1>1 DEF FifoInv, PollersCovered
      <3>2. \A m \in 1 .. lo - 1 : m \in 1 .. th \/ m \in Settled'
        BY <1>4, <1>5, <1>a
      <3> QED
        BY <3>1, <3>2, <1>6
    <2> QED
      BY <2>1, <1>1, <1>3, <1>6 DEF FifoInv, PollersCovered
  <1>9. QueueInOrder'
    BY <1>1, <1>5 DEF FifoInv, QueueInOrder, SettledBy
  <1>10. NewestEventCounted'
    <2>1. /\ page'[p] = [owner |-> c, left |-> {OwnCount}, pos |-> 0]
          /\ \A x \in Page \ {p} : page'[x] = page[x]
      BY <1>1, <1>a DEF TypeOK
    <2>2. \A d \in Client \ {c} : poller[d].pc = "queueing" => poller[d].page \in Page \ {p}
      BY <1>1 DEF FifoInv, PageInv, TypeOK, QueueingPage, Open
    <2>3. \A x \in Page : Open(x)' =>
              IF page'[x].pos = 0
              THEN OwnCount \in page'[x].left
              ELSE page'[x].pos \in page'[x].left \/ 1 .. page'[x].pos \subseteq Settled'
      <3> SUFFICES ASSUME NEW x \in Page, Open(x)'
                   PROVE  IF page'[x].pos = 0
                          THEN OwnCount \in page'[x].left
                          ELSE page'[x].pos \in page'[x].left \/ 1 .. page'[x].pos \subseteq Settled'
        OBVIOUS
      <3>1. CASE x = p
        BY <3>1, <2>1
      <3>2. CASE x # p
        <4>1. page'[x] = page[x] /\ Open(x)
          BY <3>2, <2>1 DEF Open
        <4> QED
          BY <4>1, <1>5 DEF FifoInv, NewestEventCounted
      <3> QED
        BY <3>1, <3>2
    <2>4. poller'[c].top > 0 /\ poller'[c].next # poller'[c].top + 1
      BY <1>3, <1>4, <1>a
    <2> QED
      BY <2>1, <2>2, <2>3, <2>4, <1>3, <1>5 DEF FifoInv, NewestEventCounted
  <1> QED
    BY <1>5, <1>7, <1>8, <1>9, <1>10 DEF FifoInv

LEMMA FifoQueueNext ==
    ASSUME Fifo, FifoInv, PageInv', NEW c \in Client, QueueNext(c)
    PROVE  FifoInv'
  <1> DEFINE m == poller[c].next
             p == poller[c].page
             x == [msg |-> m, page |-> p]
  <1>a. TypeOK /\ TypeOK' /\ PageInv
    BY DEF FifoInv, PageInv
  <1>1. /\ poller[c].pc = "queueing" /\ m <= poller[c].top
        /\ poller' = [poller EXCEPT ![c].next = m + 1]
        /\ UNCHANGED <<thread, running, cursor, queued, history, lost>>
    BY DEF QueueNext
  <1>2. /\ poller'[c].pc = "queueing" /\ poller'[c].page = p
        /\ poller'[c].top = poller[c].top /\ poller'[c].next = m + 1
        /\ \A d \in Client \ {c} : poller'[d] = poller[d]
    BY <1>1, <1>a DEF TypeOK, PollState
  <1>3. m \in Nat \ {0} /\ poller[c].top \in Nat /\ Len(thread) \in Nat /\ p \in Page
    <2>1. poller[c].top \in Nat /\ Len(thread) \in Nat
      BY <1>a, PollerNumbers DEF TypeOK
    <2>2. m \in 1 .. poller[c].top + 1 /\ p \in Page
      BY <1>1, <1>a DEF TypeOK
    <2> QED
      BY <2>1, <2>2
  <1>4. /\ poller[c].top <= Len(thread) /\ page[p].owner = c
        /\ page[p].pos = 0 /\ OwnCount \in page[p].left
    BY <1>1, <1>a DEF PageInv, QueueingPage
  <1>5. \A d \in Client \ {c} : poller[d].pc = "queueing" => poller[d].page \in Page \ {p}
    BY <1>4, <1>a DEF PageInv, TypeOK, QueueingPage
  <1>6. 1 .. m - 1 \subseteq Covered
    BY <1>1 DEF FifoInv, PollersCovered
  <1>b. 1 .. m = (1 .. m - 1) \cup {m}
    BY <1>3
  <1>c. (m + 1) - 1 = m
    BY <1>3
  <1>7. CASE /\ portalq' = Append(portalq, x) /\ page' = Track(p, m)
             /\ UNCHANGED finished /\ Len(portalq) < Buffer
    <2>1. Settled' = Settled /\ PostedOnly'
      BY <1>1, <1>7, <1>a, SettledParts DEF FifoInv, PostedOnly
    <2>a. x \in Event
      <3>1. Len(thread) <= MaxMsg
        BY <1>a, ConstantsAssumption DEF TypeOK, Pos
      <3>2. m \in Msg
        BY <1>1, <1>3, <1>4, <3>1, ConstantsAssumption DEF Msg
      <3> QED
        BY <3>2, <1>3 DEF Event
    <2>2. Waiting' = Waiting \cup {x}
      BY <1>1, <1>7, <1>a, <2>a, WaitingAppend
    <2>3. Covered' = Covered \cup {m}
      <3>1. x.msg = m
        OBVIOUS
      <3>2. {e.msg : e \in Waiting'} = {e.msg : e \in Waiting} \cup {x.msg}
        BY <2>2
      <3> QED
        BY <2>1, <3>1, <3>2 DEF Covered
    <2>4. portalq \in Seq(Event) /\ Len(portalq) \in Nat
          /\ Len(portalq') = Len(portalq) + 1 /\ portalq'[Len(portalq) + 1] = x
          /\ \A i \in 1 .. Len(portalq) : portalq'[i] = portalq[i]
      BY <1>7, <1>a, <2>a DEF TypeOK
    <2>5. CursorBehindHandling' /\ OneRunning'
      BY <1>1, <1>7, <2>1, <2>4 DEF FifoInv, CursorBehindHandling, OneRunning
    <2>6. PollersCovered'
      <3>1. 1 .. poller'[c].next - 1 \subseteq Covered'
        BY <1>2, <1>6, <1>b, <1>c, <2>3
      <3> QED
        BY <3>1, <1>1, <1>2, <2>3 DEF FifoInv, PollersCovered
    <2>7. QueueInOrder'
      <3>1. \A e \in running' : 1 .. e.msg - 1 \subseteq Settled'
        BY <1>1, <2>1 DEF FifoInv, QueueInOrder
      <3>2. ASSUME NEW i \in 1 .. Len(portalq)
            PROVE  1 .. portalq'[i].msg \subseteq SettledBy(i)'
        <4>1. \A j \in 1 .. i : portalq'[j] = portalq[j]
          BY <2>4
        <4>2. SettledBy(i) \subseteq SettledBy(i)'
          BY <4>1, <1>1, <2>1 DEF SettledBy
        <4> QED
          BY <4>1, <4>2, <2>4 DEF FifoInv, QueueInOrder
      <3>3. ASSUME NEW n \in 1 .. Len(portalq'), n = Len(portalq) + 1
            PROVE  1 .. portalq'[n].msg \subseteq SettledBy(n)'
        <4>1. portalq'[n].msg = m
          BY <3>3, <2>4
        <4>2. \A j \in 1 .. Len(portalq) : j \in 1 .. n /\ portalq'[j] = portalq[j]
          BY <3>3, <2>4
        <4>3. Settled \subseteq SettledBy(n)' /\ \A e \in running : e.msg \in SettledBy(n)'
          BY <1>1, <2>1 DEF SettledBy
        <4>4. \A j \in 1 .. Len(portalq) : portalq[j].msg \in SettledBy(n)'
          BY <4>2 DEF SettledBy
        <4>5. m \in SettledBy(n)'
          <5>1. n \in 1 .. n
            BY <3>3, <2>4
          <5> QED
            BY <4>1, <5>1 DEF SettledBy
        <4>6. Covered \subseteq SettledBy(n)'
          BY <4>3, <4>4 DEF Covered, Waiting
        <4> QED
          BY <4>1, <4>5, <4>6, <1>6, <1>b
      <3>4. \A i \in 1 .. Len(portalq') : i \in 1 .. Len(portalq) \/ i = Len(portalq) + 1
        BY <2>4
      <3> QED
        BY <3>1, <3>2, <3>3, <3>4 DEF QueueInOrder
    <2>8. NewestEventCounted'
      <3>1. /\ page'[p] = [page[p] EXCEPT !.left = page[p].left \cup {m}]
            /\ \A y \in Page \ {p} : page'[y] = page[y]
        BY <1>3, <1>7, <1>a DEF Track, TypeOK
      <3>2. page'[p].left = page[p].left \cup {m} /\ page'[p].pos = 0
        BY <1>3, <1>4, <1>a, <3>1 DEF TypeOK, Commit
      <3>3. ASSUME NEW y \in Page, Open(y)'
            PROVE  IF page'[y].pos = 0
                   THEN OwnCount \in page'[y].left
                   ELSE page'[y].pos \in page'[y].left \/ 1 .. page'[y].pos \subseteq Settled'
        <4>1. CASE y = p
          BY <4>1, <3>2, <1>4
        <4>2. CASE y # p
          <5>1. page'[y] = page[y] /\ Open(y)
            BY <4>2, <3>1, <3>3 DEF Open
          <5> QED
            BY <5>1, <2>1 DEF FifoInv, NewestEventCounted
        <4> QED
          BY <4>1, <4>2
      <3>4. /\ poller'[c].top > 0
            /\ poller'[c].next = poller'[c].top + 1 => poller'[c].top \in page'[p].left
        BY <1>1, <1>2, <1>3, <3>2
      <3>5. \A d \in Client \ {c} : poller[d].pc = "queueing" =>
                page'[poller[d].page] = page[poller[d].page]
        BY <1>5, <3>1
      <3> QED
        BY <3>3, <3>4, <3>5, <1>2, <2>1 DEF FifoInv, NewestEventCounted
    <2> QED
      BY <2>1, <2>5, <2>6, <2>7, <2>8 DEF FifoInv
  <1>8. CASE /\ Buffer = 0 /\ finished' = finished \cup {m} /\ UNCHANGED <<page, portalq>>
    <2>1. Settled' = Settled \cup {m} /\ PostedOnly'
      <3>1. m \in 1 .. Len(thread)
        BY <1>1, <1>3, <1>4
      <3> QED
        BY <3>1, <1>1, <1>8, <1>a, SettledParts DEF FifoInv, PostedOnly
    <2>2. Waiting' = Waiting /\ Covered' = Covered \cup {m}
      BY <1>1, <1>8, <2>1 DEF Waiting, Covered
    <2>3. CursorBehindHandling' /\ OneRunning'
      BY <1>1, <2>1, <2>2 DEF FifoInv, CursorBehindHandling, OneRunning
    <2>4. PollersCovered'
      <3>1. 1 .. poller'[c].next - 1 \subseteq Covered'
        BY <1>2, <1>6, <1>b, <1>c, <2>2
      <3> QED
        BY <3>1, <1>1, <1>2, <2>2 DEF FifoInv, PollersCovered
    <2>5. QueueInOrder'
      <3>1. \A i \in 1 .. Len(portalq) : SettledBy(i) \subseteq SettledBy(i)'
        BY <1>1, <1>8, <2>1 DEF SettledBy
      <3> QED
        BY <3>1, <1>1, <1>8, <2>1 DEF FifoInv, QueueInOrder
    <2>6. NewestEventCounted'
      <3>1. 1 .. m \subseteq Settled'
        BY <1>6, <1>8, <1>b, <2>1, NoneWait DEF FifoInv
      <3>2. \A y \in Page : Open(y)' = Open(y)
        BY <1>8 DEF Open
      <3>3. poller'[c].top > 0 /\ (poller'[c].next = poller'[c].top + 1 => m = poller'[c].top)
        BY <1>1, <1>2, <1>3
      <3> QED
        BY <3>1, <3>2, <3>3, <1>2, <1>8, <2>1 DEF FifoInv, NewestEventCounted
    <2> QED
      BY <2>1, <2>3, <2>4, <2>5, <2>6 DEF FifoInv
  <1>9. thread[m] # "bookkeeping"
    <2>1. m \in 1 .. Len(thread)
      BY <1>1, <1>3, <1>4
    <2> QED
      BY <2>1, <1>a DEF Fifo, TypeOK
  <1> QED
    BY <1>7, <1>8, <1>9 DEF QueueNext, Fifo

LEMMA FifoAdvance ==
    ASSUME Fifo, FifoInv, PageInv', NEW c \in Client, Advance(c)
    PROVE  FifoInv'
  <1> DEFINE p == poller[c].page
             top == poller[c].top
             q == NoteQueued(queued, c, top)
  <1>a. TypeOK /\ TypeOK' /\ PageInv
    BY DEF FifoInv, PageInv
  <1>1. /\ poller[c].pc = "queueing" /\ poller[c].next > top
        /\ poller' = [poller EXCEPT ![c] = Idle]
        /\ Done(p, OwnCount, top, q)
        /\ UNCHANGED <<thread, portalq, running, finished, history, lost>>
    BY DEF Advance
  <1>2. /\ poller'[c].pc = "idle" /\ \A d \in Client \ {c} : poller'[d] = poller[d]
    BY <1>1, <1>a DEF TypeOK, Idle
  <1>3. /\ p \in Page /\ top \in Nat /\ poller[c].next = top + 1 /\ top \in Pos
        /\ OwnCount \in Pos
    <2>1. top \in Nat
      BY <1>a, PollerNumbers
    <2>2. poller[c].next \in 1 .. top + 1 /\ p \in Page /\ top \in Pos
      BY <1>1, <1>a DEF TypeOK, PollState
    <2>3. OwnCount \in Pos
      BY ConstantsAssumption DEF OwnCount, Pos
    <2> QED
      BY <1>1, <2>1, <2>2, <2>3
  <1>4. top > 0 /\ (top \in page[p].left \/ 1 .. top \subseteq Settled)
    BY <1>1, <1>3 DEF FifoInv, NewestEventCounted
  <1>5. q \in [Client -> Pos] /\ \A d \in Client : q[d] \in {queued[d], top}
        /\ (d # c => q[d] = queued[d])
    BY <1>3, <1>a DEF NoteQueued, Later, TypeOK
  <1>6. /\ \A x \in Page \ {p} : page'[x] = page[x]
        /\ page'[p].left = page[p].left \ {OwnCount}
        /\ page'[p].left # {} => page'[p].pos = top
        /\ cursor' # cursor => page'[p].left = {} /\ cursor' = top
        /\ \A d \in Client : queued'[d] \in {0, q[d]}
    BY <1>1, <1>3, <1>5, <1>a, DoneCommits
  <1>7. /\ Settled' = Settled /\ Waiting' = Waiting /\ Covered' = Covered /\ PostedOnly'
        /\ \A i \in 1 .. Len(portalq) : SettledBy(i)' = SettledBy(i)
    <2>1. Settled' = Settled /\ PostedOnly'
      BY <1>1, <1>a, SettledParts DEF FifoInv, PostedOnly
    <2> QED
      BY <1>1, <2>1 DEF Waiting, Covered, SettledBy
  <1>8. CursorBehindHandling'
    <2>1. CASE cursor' = cursor
      BY <2>1, <1>7 DEF FifoInv, CursorBehindHandling
    <2>2. CASE cursor' # cursor
      <3>1. top \notin page[p].left
        BY <2>2, <1>4, <1>6 DEF OwnCount
      <3> QED
        BY <2>2, <3>1, <1>4, <1>6, <1>7 DEF CursorBehindHandling
    <2> QED
      BY <2>1, <2>2
  <1>9. PollersCovered'
    <2>1. 1 .. top \subseteq Covered
      <3>1. poller[c].next - 1 = top
        BY <1>3
      <3> QED
        BY <3>1, <1>1 DEF FifoInv, PollersCovered
    <2>2. \A d \in Client : 1 .. queued'[d] \subseteq Covered'
      <3> SUFFICES ASSUME NEW d \in Client PROVE 1 .. queued'[d] \subseteq Covered
        BY <1>7
      <3>1. queued'[d] \in {0, queued[d], top}
        BY <1>5, <1>6
      <3>2. 1 .. queued[d] \subseteq Covered /\ 1 .. 0 = {}
        BY DEF FifoInv, PollersCovered
      <3> QED
        BY <2>1, <3>1, <3>2
    <2> QED
      BY <2>2, <1>2, <1>7 DEF FifoInv, PollersCovered
  <1>10. OneRunning' /\ QueueInOrder'
    BY <1>1, <1>7 DEF FifoInv, OneRunning, QueueInOrder
  <1>11. NewestEventCounted'
    <2>1. ASSUME NEW x \in Page, Open(x)'
          PROVE  IF page'[x].pos = 0
                 THEN OwnCount \in page'[x].left
                 ELSE page'[x].pos \in page'[x].left \/ 1 .. page'[x].pos \subseteq Settled'
      <3>1. CASE x = p
        <4>1. page'[p].pos = top
          BY <2>1, <3>1, <1>6 DEF Open
        <4> QED
          BY <3>1, <4>1, <1>3, <1>4, <1>6, <1>7 DEF OwnCount
      <3>2. CASE x # p
        <4>1. page'[x] = page[x] /\ Open(x)
          BY <2>1, <3>2, <1>6 DEF Open
        <4> QED
          BY <4>1, <1>7 DEF FifoInv, NewestEventCounted
      <3> QED
        BY <3>1, <3>2
    <2>2. \A d \in Client : poller'[d].pc = "queueing" =>
              /\ poller'[d] = poller[d]
              /\ page'[poller[d].page] = page[poller[d].page]
      <3>1. \A d \in Client \ {c} : poller[d].pc = "queueing" => poller[d].page \in Page \ {p}
        BY <1>1, <1>a DEF PageInv, TypeOK, QueueingPage
      <3> QED
        BY <3>1, <1>2, <1>6
    <2> QED
      BY <2>1, <2>2, <1>7 DEF FifoInv, NewestEventCounted
  <1> QED
    BY <1>7, <1>8, <1>9, <1>10, <1>11 DEF FifoInv

LEMMA FifoTake ==
    ASSUME Fifo, FifoInv, PageInv', Take
    PROVE  FifoInv'
  <1>a. TypeOK /\ TypeOK'
    BY DEF FifoInv, PageInv
  <1>1. /\ running = {} /\ Len(portalq) \in Nat \ {0}
        /\ UNCHANGED <<thread, cursor, queued, poller, page, finished, history, lost>>
        /\ Waiting' = Waiting
    BY <1>a, TakeShifts, TakeWaiting DEF Take, Fifo
  <1>2. /\ Settled' = Settled /\ Covered' = Covered /\ PostedOnly'
    <2>1. Settled' = Settled
      BY <1>1, <1>a, SettledParts
    <2> QED
      BY <1>1, <2>1 DEF Covered, FifoInv, PostedOnly
  <1>3. /\ running' = {portalq[1]} /\ 1 \in 1 .. Len(portalq)
        /\ \A i \in 1 .. Len(portalq') : portalq'[i] = portalq[i + 1] /\ i + 1 \in 1 .. Len(portalq)
    BY <1>1, <1>a, TakeShifts
  <1>4. CursorBehindHandling' /\ OneRunning' /\ PollersCovered'
    BY <1>1, <1>2, <1>3 DEF FifoInv, CursorBehindHandling, OneRunning, PollersCovered
  <1>5. QueueInOrder'
    <2>1. 1 .. portalq[1].msg - 1 \subseteq Settled
      <3>1. 1 .. portalq[1].msg \subseteq Settled \cup {portalq[1].msg}
        BY <1>1, <1>3 DEF FifoInv, QueueInOrder, SettledBy
      <3>2. portalq[1].msg \in Nat
        BY <1>3, <1>a, WaitingTyped DEF Waiting
      <3> QED
        BY <3>1, <3>2
    <2>2. ASSUME NEW i \in 1 .. Len(portalq')
          PROVE  1 .. portalq'[i].msg \subseteq SettledBy(i)'
      <3>1. 1 .. portalq'[i].msg \subseteq SettledBy(i + 1)
        BY <1>3 DEF FifoInv, QueueInOrder
      <3>2. ASSUME NEW j \in 1 .. i + 1 PROVE portalq[j].msg \in SettledBy(i)'
        <4>1. CASE j = 1
          BY <4>1, <1>3 DEF SettledBy
        <4>2. CASE j # 1
          <5>1. j - 1 \in 1 .. i /\ j - 1 \in 1 .. Len(portalq') /\ (j - 1) + 1 = j
            BY <4>2, <1>1, <1>a, TakeShifts
          <5>2. portalq'[j - 1] = portalq[j]
            BY <5>1, <1>3
          <5> QED
            BY <5>1, <5>2 DEF SettledBy
        <4> QED
          BY <4>1, <4>2
      <3>3. Settled \subseteq SettledBy(i)'
        BY <1>2 DEF SettledBy
      <3>4. SettledBy(i + 1) \subseteq SettledBy(i)'
        BY <3>2, <3>3, <1>1 DEF SettledBy
      <3> QED
        BY <3>1, <3>4
    <2> QED
      BY <2>1, <2>2, <1>2, <1>3 DEF QueueInOrder
  <1>6. NewestEventCounted'
    <2>1. \A x \in Page : Open(x)' = Open(x)
      BY <1>1 DEF Open
    <2> QED
      BY <2>1, <1>1, <1>2 DEF FifoInv, NewestEventCounted
  <1> QED
    BY <1>2, <1>4, <1>5, <1>6 DEF FifoInv

\* What settling a running event's message does to what waits and is covered.
LEMMA EventSettled ==
    ASSUME Fifo, FifoInv, TypeOK', NEW e \in running, running' = running \ {e},
           finished' = finished \cup {e.msg}, UNCHANGED <<thread, portalq, history, lost>>
    PROVE  /\ Settled' = Settled \cup {e.msg} /\ 1 .. e.msg \subseteq Settled'
           /\ Waiting' \subseteq Waiting /\ Covered \subseteq Covered'
           /\ running = {e} /\ e.msg # OwnCount
           /\ PostedOnly' /\ OneRunning' /\ QueueInOrder'
  <1>a. TypeOK /\ PageInv
    BY DEF FifoInv, PageInv
  <1>1. Settled' = Settled \cup {e.msg}
    BY <1>a, SettledParts
  <1>2. running = {e} /\ running' = {}
    BY DEF FifoInv, OneRunning
  <1>3. e \in Waiting /\ Waiting' = Waiting \ {e}
    BY <1>a, DoneWaiting DEF PageInv
  <1>4. e.msg \in Nat \ {0} /\ e.msg # OwnCount /\ e.msg <= Len(thread) /\ Len(thread) \in Nat
    <2>1. e.msg \in Msg /\ e.msg \in Nat /\ e.msg # OwnCount
      BY <1>3, <1>a, WaitingTyped
    <2>2. e.msg <= Len(thread)
      BY <1>3 DEF FifoInv, PageInv, WaitingBehind
    <2>3. Len(thread) \in Nat
      BY <1>a DEF TypeOK
    <2> QED
      BY <2>1, <2>2, <2>3 DEF OwnCount
  <1>5. 1 .. e.msg \subseteq Settled'
    <2>1. 1 .. e.msg - 1 \subseteq Settled
      BY DEF FifoInv, QueueInOrder
    <2>2. 1 .. e.msg = (1 .. e.msg - 1) \cup {e.msg}
      BY <1>4
    <2> QED
      BY <2>1, <2>2, <1>1
  <1>6. Covered \subseteq Covered'
    <2>1. \A f \in Waiting : f \in Waiting' \/ f.msg \in Settled'
      BY <1>1, <1>3
    <2> QED
      BY <2>1, <1>1, CoveredGrows
  <1>7. PostedOnly' /\ OneRunning'
    BY <1>2, <1>3, <1>4 DEF FifoInv, PostedOnly, OneRunning
  <1>8. QueueInOrder'
    <2>1. ASSUME NEW i \in 1 .. Len(portalq)
          PROVE  1 .. portalq[i].msg \subseteq SettledBy(i)'
      <3>1. SettledBy(i) \subseteq SettledBy(i)'
        BY <1>1, <1>2 DEF SettledBy
      <3> QED
        BY <3>1 DEF FifoInv, QueueInOrder
    <2> QED
      BY <2>1, <1>2 DEF QueueInOrder
  <1> QED
    BY <1>1, <1>2, <1>3, <1>4, <1>5, <1>6, <1>7, <1>8

LEMMA FifoDrop ==
    ASSUME Fifo, FifoInv, PageInv', NEW e \in running, Drop(e)
    PROVE  FifoInv'
  <1>a. TypeOK /\ TypeOK'
    BY DEF FifoInv, PageInv
  <1>1. /\ running' = running \ {e} /\ finished' = finished \cup {e.msg}
        /\ UNCHANGED <<thread, portalq, history, lost, cursor, queued, poller, page>>
    BY DEF Drop
  <1>2. /\ Settled \subseteq Settled' /\ Covered \subseteq Covered'
        /\ PostedOnly' /\ OneRunning' /\ QueueInOrder'
    BY <1>1, <1>a, EventSettled
  <1>3. CursorBehindHandling' /\ PollersCovered'
    BY <1>1, <1>2 DEF FifoInv, CursorBehindHandling, PollersCovered
  <1>4. NewestEventCounted'
    <2>1. \A p \in Page : Open(p)' = Open(p)
      BY <1>1 DEF Open
    <2> QED
      BY <2>1, <1>1, <1>2 DEF FifoInv, NewestEventCounted
  <1> QED
    BY <1>2, <1>3, <1>4 DEF FifoInv

LEMMA FifoHandle ==
    ASSUME Fifo, FifoInv, PageInv', NEW e \in running, Handle(e)
    PROVE  FifoInv'
  <1> DEFINE p == e.page
             pos == page[p].pos
  <1>a. TypeOK /\ TypeOK' /\ PageInv
    BY DEF FifoInv, PageInv
  <1>1. /\ running' = running \ {e} /\ finished' = finished \cup {e.msg}
        /\ UNCHANGED <<thread, portalq, history, lost, poller>>
        /\ Done(p, e.msg, pos, queued)
    BY DEF Handle
  <1>2. /\ Settled' = Settled \cup {e.msg} /\ 1 .. e.msg \subseteq Settled'
        /\ Covered \subseteq Covered' /\ e.msg # OwnCount
        /\ PostedOnly' /\ OneRunning' /\ QueueInOrder'
    BY <1>1, <1>a, EventSettled
  <1>3. e \in Waiting /\ p \in Page /\ e.msg \in Pos /\ pos \in Pos /\ queued \in [Client -> Pos]
    <2>1. e \in Waiting
      BY DEF Waiting
    <2>2. e.msg \in Msg /\ p \in Page
      BY <2>1, <1>a, WaitingTyped
    <2>3. e.msg \in Pos
      BY <2>2, ConstantsAssumption DEF Msg, Pos
    <2> QED
      BY <2>1, <2>2, <2>3, <1>a DEF TypeOK, Commit
  <1>4. e.msg \in page[p].left /\ Open(p)
    BY <1>3 DEF FifoInv, PageInv, PageWaitsForItsEvents, Open
  <1>5. IF pos = 0 THEN OwnCount \in page[p].left
                   ELSE pos \in page[p].left \/ 1 .. pos \subseteq Settled
    BY <1>3, <1>4 DEF FifoInv, NewestEventCounted
  <1>6. /\ \A x \in Page \ {p} : page'[x] = page[x]
        /\ page'[p].left = page[p].left \ {e.msg}
        /\ page'[p].left # {} => page'[p].pos = pos
        /\ cursor' # cursor => page'[p].left = {} /\ cursor' = pos
        /\ \A d \in Client : queued'[d] \in {0, queued[d]}
    BY <1>1, <1>3, <1>a, DoneCommits
  <1>7. CursorBehindHandling'
    <2>1. CASE cursor' = cursor
      BY <2>1, <1>2 DEF FifoInv, CursorBehindHandling
    <2>2. CASE cursor' # cursor
      <3>1. page[p].left \subseteq {e.msg} /\ cursor' = pos
        BY <2>2, <1>6
      <3>2. pos = e.msg \/ 1 .. pos \subseteq Settled
        BY <3>1, <1>2, <1>5
      <3> QED
        BY <3>1, <3>2, <1>2 DEF CursorBehindHandling
    <2> QED
      BY <2>1, <2>2
  <1>8. PollersCovered'
    <2>1. \A d \in Client : 1 .. queued'[d] \subseteq Covered'
      <3> SUFFICES ASSUME NEW d \in Client PROVE 1 .. queued'[d] \subseteq Covered'
        OBVIOUS
      <3>1. queued'[d] \in {0, queued[d]} /\ 1 .. queued[d] \subseteq Covered /\ 1 .. 0 = {}
        BY <1>6 DEF FifoInv, PollersCovered
      <3> QED
        BY <3>1, <1>2
    <2> QED
      BY <2>1, <1>1, <1>2 DEF FifoInv, PollersCovered
  <1>9. NewestEventCounted'
    <2>1. ASSUME NEW x \in Page, Open(x)'
          PROVE  IF page'[x].pos = 0
                 THEN OwnCount \in page'[x].left
                 ELSE page'[x].pos \in page'[x].left \/ 1 .. page'[x].pos \subseteq Settled'
      <3>1. CASE x = p
        <4>1. page'[p].pos = pos
          BY <2>1, <3>1, <1>6 DEF Open
        <4> QED
          BY <3>1, <4>1, <1>2, <1>5, <1>6
      <3>2. CASE x # p
        <4>1. page'[x] = page[x] /\ Open(x)
          BY <2>1, <3>2, <1>6 DEF Open
        <4> QED
          BY <4>1, <1>2 DEF FifoInv, NewestEventCounted
      <3> QED
        BY <3>1, <3>2
    <2>2. ASSUME NEW d \in Client, poller[d].pc = "queueing",
                 poller[d].next = poller[d].top + 1
          PROVE  \/ poller[d].top \in page'[poller[d].page].left
                 \/ 1 .. poller[d].top \subseteq Settled'
      <3>1. poller[d].page \in Page
        BY <2>2, <1>a DEF TypeOK
      <3>2. \/ poller[d].top \in page[poller[d].page].left
            \/ 1 .. poller[d].top \subseteq Settled
        BY <2>2 DEF FifoInv, NewestEventCounted
      <3>3. CASE poller[d].page = p
        BY <3>2, <3>3, <1>2, <1>6
      <3>4. CASE poller[d].page # p
        BY <3>1, <3>2, <3>4, <1>2, <1>6
      <3> QED
        BY <3>3, <3>4
    <2>3. \A d \in Client : poller[d].pc = "queueing" => poller[d].top > 0
      BY DEF FifoInv, NewestEventCounted
    <2> QED
      BY <2>1, <2>2, <2>3, <1>1 DEF NewestEventCounted
  <1> QED
    BY <1>2, <1>7, <1>8, <1>9 DEF FifoInv

LEMMA FifoRestart ==
    ASSUME Fifo, FifoInv, PageInv', Restart
    PROVE  FifoInv'
  <1>a. TypeOK /\ TypeOK'
    BY DEF FifoInv, PageInv
  <1>1. /\ portalq' = <<>> /\ running' = {} /\ Waiting' = {}
        /\ UNCHANGED <<thread, cursor, finished, history, lost>>
        /\ \A c \in Client : queued'[c] = 0 /\ poller'[c].pc = "idle"
        /\ \A p \in Page : page'[p].left = {}
    BY DEF Restart, Waiting, Idle, NoCommit
  <1>2. Settled' = Settled
    BY <1>1, <1>a, SettledParts
  <1>3. PostedOnly' /\ CursorBehindHandling'
    BY <1>1, <1>2 DEF FifoInv, PostedOnly, CursorBehindHandling
  <1>4. OneRunning' /\ QueueInOrder'
    BY <1>1 DEF OneRunning, QueueInOrder
  <1>5. PollersCovered' /\ NewestEventCounted'
    BY <1>1 DEF PollersCovered, NewestEventCounted, Open
  <1> QED
    BY <1>3, <1>4, <1>5 DEF FifoInv

LEMMA FifoNext == ASSUME Fifo PROVE FifoInv /\ [Next]_vars => FifoInv'
  <1> SUFFICES ASSUME FifoInv, [Next]_vars PROVE FifoInv'
    OBVIOUS
  <1>1. PageInv' /\ TypeOK /\ TypeOK'
    BY PageNext DEF FifoInv, PageInv
  <1>2. ASSUME NEW c \in Client, List(c) PROVE FifoInv'
    <2>1. /\ UNCHANGED <<thread, page, portalq, running, cursor, queued, finished, history, lost>>
          /\ poller' = [poller EXCEPT ![c] =
                [pc |-> "listed", th |-> cursor, next |-> 0, top |-> 0, page |-> 0]]
      BY <1>2 DEF List
    <2>2. /\ poller'[c] = [pc |-> "listed", th |-> cursor, next |-> 0, top |-> 0, page |-> 0]
          /\ \A d \in Client \ {c} : poller'[d] = poller[d]
      BY <2>1, <1>1 DEF TypeOK
    <2>3. 1 .. poller'[c].th \subseteq Covered
      BY <2>2 DEF FifoInv, CursorBehindHandling, Covered
    <2>4. Settled' = Settled /\ PostedOnly'
      BY <2>1, <1>1, SettledParts DEF FifoInv, PostedOnly
    <2>5. poller'[c].pc # "queueing"
      BY <2>2
    <2> QED
      BY <1>1, <2>1, <2>2, <2>3, <2>4, <2>5, FifoFrame
  <1>3. ASSUME NEW c \in Client, Fetch(c) PROVE FifoInv'
    <2>1. /\ UNCHANGED <<thread, page, portalq, running, cursor, queued, finished, history, lost>>
          /\ poller[c].pc = "listed"
          /\ poller' = [poller EXCEPT ![c].pc = "fetching", ![c].th = Later(@, queued[c])]
      BY <1>3 DEF Fetch
    <2>2. /\ poller'[c].pc = "fetching" /\ poller'[c].th = Later(poller[c].th, queued[c])
          /\ \A d \in Client \ {c} : poller'[d] = poller[d]
      BY <2>1, <1>1 DEF TypeOK, PollState
    <2>3. 1 .. poller'[c].th \subseteq Covered
      BY <2>1, <2>2 DEF FifoInv, PollersCovered, Later
    <2>4. Settled' = Settled /\ PostedOnly'
      BY <2>1, <1>1, SettledParts DEF FifoInv, PostedOnly
    <2>5. poller'[c].pc # "queueing"
      BY <2>2
    <2> QED
      BY <1>1, <2>1, <2>2, <2>3, <2>4, <2>5, FifoFrame
  <1>4. ASSUME NEW c \in Client, FetchFail(c) \/ RespondEmpty(c) PROVE FifoInv'
    <2>1. /\ UNCHANGED <<thread, page, portalq, running, cursor, queued, finished, history, lost>>
          /\ poller' = [poller EXCEPT ![c] = Idle]
      BY <1>4 DEF FetchFail, RespondEmpty
    <2>2. poller'[c].pc = "idle" /\ \A d \in Client \ {c} : poller'[d] = poller[d]
      BY <2>1, <1>1 DEF TypeOK, Idle
    <2>3. Settled' = Settled /\ PostedOnly'
      BY <2>1, <1>1, SettledParts DEF FifoInv, PostedOnly
    <2>4. poller'[c].pc # "queueing" /\ poller'[c].pc \notin {"listed", "fetching"}
      BY <2>2
    <2> QED
      BY <1>1, <2>1, <2>2, <2>3, <2>4, FifoFrame
  <1>5. ASSUME Arrive \/ Relogin \/ UNCHANGED vars PROVE FifoInv'
    <2>1. UNCHANGED <<page, portalq, running, cursor, queued, poller, finished, history, lost>>
      BY <1>5 DEF Arrive, Relogin, vars, memory
    <2>2. Settled' = Settled
      BY <2>1, <1>1, SettledParts
    <2>3. Len(thread') >= Len(thread) /\ Len(thread) \in Nat /\ Len(thread') \in Nat
      <3>1. CASE Arrive
        <4>1. PICK k \in Kinds : thread' = Append(thread, k)
          BY <3>1 DEF Arrive
        <4> QED
          BY <4>1, <1>1 DEF TypeOK
      <3>2. CASE thread' = thread
        BY <3>2, <1>1 DEF TypeOK
      <3> QED
        BY <1>5, <3>1, <3>2 DEF Relogin, vars
    <2>4. PostedOnly'
      <3>1. 1 .. Len(thread) \subseteq 1 .. Len(thread')
        BY <2>3
      <3> QED
        BY <2>1, <3>1 DEF FifoInv, PostedOnly
    <2> QED
      BY <1>1, <2>1, <2>2, <2>4, FifoFrame
  <1> QED
    BY <1>1, <1>2, <1>3, <1>4, <1>5, FifoRespond, FifoQueueNext, FifoAdvance, FifoTake,
       FifoDrop, FifoHandle, FifoRestart DEF Next, Poll, Portal

\* A restart loses nothing: where bridgev2 handles a portal's events one at a
\* time and in order, the saved cursor covers no message that still waits to be
\* handled, for any page size, buffer, number of re-logins and restarts.
THEOREM CursorStaysBehind == ASSUME Fifo PROVE Spec => []CursorBehindHandling
  <1>1. Init => FifoInv
    BY FifoInit
  <1>2. FifoInv /\ [Next]_vars => FifoInv'
    BY FifoNext
  <1>3. FifoInv => CursorBehindHandling
    BY DEF FifoInv
  <1> QED
    BY <1>1, <1>2, <1>3, PTL DEF Spec

-----------------------------------------------------------------------------
(* The poller implements MessageDelivery *)

\* Only an arrival changes the thread, and what is settled stays settled.
LEMMA HistoryGrows ==
    ASSUME [Next]_vars, ~Arrive
    PROVE  /\ thread' = thread
           /\ finished \subseteq finished' /\ history \subseteq history' /\ lost \subseteq lost'
  <1>1. ASSUME NEW c \in Client, Poll(c)
        PROVE  /\ thread' = thread
               /\ finished \subseteq finished' /\ history \subseteq history' /\ lost \subseteq lost'
    <2>1. CASE List(c) \/ Fetch(c) \/ FetchFail(c) \/ RespondEmpty(c)
      BY <2>1 DEF List, Fetch, FetchFail, RespondEmpty
    <2>2. CASE Respond(c)
      BY <2>2 DEF Respond
    <2>3. CASE QueueNext(c)
      BY <2>3 DEF QueueNext
    <2>4. CASE Advance(c)
      BY <2>4 DEF Advance
    <2> QED
      BY <1>1, <2>1, <2>2, <2>3, <2>4 DEF Poll
  <1>2. ASSUME Portal
        PROVE  /\ thread' = thread
               /\ finished \subseteq finished' /\ history \subseteq history' /\ lost \subseteq lost'
    BY <1>2 DEF Portal, Take, Drop, Handle
  <1>3. CASE Relogin \/ Restart \/ UNCHANGED vars
    BY <1>3 DEF Relogin, Restart, vars
  <1> QED
    BY <1>1, <1>2, <1>3 DEF Next

LEMMA DeliveryInit == ASSUME Fifo PROVE Init => Delivery!Init
  <1> SUFFICES ASSUME Init PROVE Delivery!Init
    OBVIOUS
  <1>1. /\ thread = <<>> /\ cursor = 0 /\ finished = {} /\ history = {} /\ lost = {}
    BY DEF Init
  <1>2. Settled = {}
    BY <1>1 DEF Settled, Bookkeeping
  <1> QED
    BY <1>1, <1>2 DEF Delivery!Init

LEMMA DeliveryStep ==
    ASSUME Fifo
    PROVE  FifoInv /\ FifoInv' /\ [Next]_vars => [Delivery!Next]_(Delivery!vars)
  <1> SUFFICES ASSUME FifoInv, FifoInv', [Next]_vars PROVE Delivery!Next
    OBVIOUS
  <1>1. TypeOK /\ TypeOK' /\ Len(thread) \in Nat
    BY DEF FifoInv, PageInv, TypeOK
  <1>2. CASE Arrive
    <2>1. PICK k \in Kinds : thread' = Append(thread, k)
      BY <1>2 DEF Arrive
    <2>2. Len(thread') = Len(thread) + 1
      BY <2>1, <1>1 DEF TypeOK
    <2>3. Settled' = Settled /\ cursor' = cursor
      BY <1>1, <1>2, SettledParts DEF Arrive
    <2> QED
      BY <2>2, <2>3 DEF Delivery!Next, Delivery!Post
  <1>3. CASE ~Arrive
    <2>1. thread' = thread /\ Settled \subseteq Settled'
      BY <1>1, <1>3, HistoryGrows, SettledParts
    <2>2. Settled' \subseteq 1 .. Len(thread)
      BY <2>1, <1>1, SettledParts DEF FifoInv, PostedOnly
    <2>3. cursor' \in 0 .. Len(thread) /\ 1 .. cursor' \subseteq Settled'
      <3>1. 1 .. cursor' \subseteq Settled'
        BY DEF FifoInv, CursorBehindHandling
      <3>2. cursor' \in Nat
        BY <1>1, ConstantsAssumption DEF TypeOK, Pos
      <3>3. cursor' = 0 \/ cursor' \in 1 .. cursor'
        BY <3>2
      <3> QED
        BY <3>1, <3>2, <3>3, <2>2, <1>1
    <2> QED
      BY <2>1, <2>2, <2>3 DEF Delivery!Next, Delivery!Settle
  <1> QED
    BY <1>2, <1>3

\* Polling a thread keeps the promise of MessageDelivery, whose checkpoint is
\* the cursor saved in the database: every step of the poller, of the portal's
\* loop and of a restart posts a message, settles some, or moves the checkpoint
\* over settled ones.
THEOREM PollingDelivers == ASSUME Fifo PROVE Spec => DeliverySpec
  <1>1. Init => FifoInv /\ Delivery!Init
    BY FifoInit, DeliveryInit
  <1>2. FifoInv /\ [Next]_vars => FifoInv'
    BY FifoNext
  <1>3. FifoInv /\ FifoInv' /\ [Next]_vars => [Delivery!Next]_(Delivery!vars)
    BY DeliveryStep
  <1> QED
    BY <1>1, <1>2, <1>3, PTL DEF Spec, DeliverySpec, Delivery!Spec

-----------------------------------------------------------------------------
(* The cursor never moves back                                              *)
(*                                                                          *)
(* Of one client only: saved is then the cursor it wrote last.  Before it   *)
(* wrote any, what it queues comes after the cursor it read.                *)

\* Only clients the login has had poll or own a page.
NobodyAhead ==
    /\ \A c \in Client : poller[c].pc # "idle" => c <= client
    /\ \A p \in Page : page[p].owner <= client

SavedIsCursor == client = 1 => saved[1] \in {0, cursor}

ResumedAhead ==
    client = 1 /\ saved[1] = 0 =>
        /\ \A p \in Page : page[p].pos # 0 => page[p].pos > cursor
        /\ poller[1].pc \in {"listed", "fetching"} => poller[1].th >= cursor
        /\ poller[1].pc = "queueing" => poller[1].top > cursor

BackInv == TypeOK /\ NobodyAhead /\ SavedIsCursor /\ ResumedAhead

\* What done does to the cursor and to saved.
LEMMA DoneSaves ==
    ASSUME TypeOK, NEW p \in Page, NEW count \in Pos, NEW pos \in Pos,
           NEW q \in [Client -> Pos], Done(p, count, pos, q)
    PROVE  \/ /\ pos > saved[page[p].owner]
              /\ cursor' = pos
              /\ saved' = [saved EXCEPT ![page[p].owner] = pos]
           \/ UNCHANGED <<cursor, saved>>
  BY DEF Done, SaveCursor, NeedsSave

\* A page given up to done, whose position is after the cursor if nothing was saved
\* before, moves the cursor forward if at all.
LEMMA DoneForward ==
    ASSUME BackInv, NEW p \in Page, NEW count \in Pos, NEW pos \in Pos,
           NEW q \in [Client -> Pos], Done(p, count, pos, q), client' = client,
           client = 1 /\ saved[1] = 0 /\ pos # 0 => pos > cursor
    PROVE  /\ client = 1 => cursor' >= cursor
           /\ SavedIsCursor'
           /\ \A x \in Page : page'[x].owner <= client
           /\ client = 1 /\ saved'[1] = 0 =>
                 /\ saved[1] = 0 /\ cursor' = cursor
                 /\ \A x \in Page : page'[x].pos # 0 => page'[x].pos > cursor
  <1>1. /\ page[p].owner \in Client /\ page[p].owner <= client
        /\ saved \in [Client -> Pos] /\ cursor \in Pos /\ client \in Client /\ 1 \in Client
    BY ConstantsAssumption DEF BackInv, TypeOK, NobodyAhead, Commit, Client
  <1>2. client = 1 => page[p].owner = 1
    BY <1>1 DEF Client
  <1>3. /\ client = 1 => cursor' >= cursor
        /\ SavedIsCursor'
        /\ client = 1 /\ saved'[1] = 0 => saved[1] = 0 /\ cursor' = cursor
    <2>1. CASE UNCHANGED <<cursor, saved>>
      BY <2>1, <1>1 DEF BackInv, SavedIsCursor, Pos
    <2>2. CASE /\ pos > saved[page[p].owner]
               /\ cursor' = pos
               /\ saved' = [saved EXCEPT ![page[p].owner] = pos]
      <3>1. pos # 0 /\ pos > saved[page[p].owner]
        BY <2>2, <1>1 DEF Pos
      <3> SUFFICES ASSUME client = 1
                   PROVE  cursor' >= cursor /\ saved'[1] = cursor' /\ saved'[1] # 0
        BY DEF SavedIsCursor
      <3>2. saved[1] \in {0, cursor} /\ pos > saved[1] /\ saved'[1] = pos
        BY <2>2, <3>1, <1>1, <1>2 DEF BackInv, SavedIsCursor
      <3> QED
        BY <2>2, <3>1, <3>2, <1>1 DEF Pos
    <2> QED
      BY <2>1, <2>2, DoneSaves DEF BackInv
  <1>4. \A x \in Page \ {p} : page'[x] = page[x]
    BY DoneCommits DEF BackInv
  <1>5. page'[p].owner <= client /\ page'[p].pos \in {0, pos}
    <2>1. CASE page'[p].left # {}
      BY <2>1, <1>1, DoneCommits DEF BackInv
    <2>2. CASE page'[p].left = {}
      <3>1. page[p].left \ {count} = {}
        BY <2>2, DoneCommits DEF BackInv
      <3>2. page' = [page EXCEPT ![p] = NoCommit]
        BY <3>1 DEF Done
      <3>3. page'[p] = NoCommit
        BY <3>2 DEF BackInv, TypeOK
      <3> QED
        BY <3>3, <1>1 DEF NoCommit, Client
    <2> QED
      BY <2>1, <2>2
  <1>6. \A x \in Page : page'[x].owner <= client
    BY <1>4, <1>5 DEF BackInv, NobodyAhead
  <1>7. ASSUME client = 1, saved'[1] = 0, NEW x \in Page, page'[x].pos # 0
        PROVE  page'[x].pos > cursor
    BY <1>3, <1>4, <1>5, <1>7 DEF BackInv, ResumedAhead
  <1> QED
    BY <1>3, <1>6, <1>7

\* Steps of a poller that save nothing.
LEMMA BackPoll ==
    ASSUME BackInv, TypeOK', NEW c \in Client,
           List(c) \/ Fetch(c) \/ FetchFail(c) \/ RespondEmpty(c) \/ Respond(c) \/ QueueNext(c)
    PROVE  BackInv' /\ cursor' = cursor
  <1>0. /\ cursor' = cursor /\ saved' = saved /\ client' = client
        /\ \A d \in Client \ {c} : poller'[d] = poller[d]
    BY DEF BackInv, TypeOK, List, Fetch, FetchFail, RespondEmpty, Respond, QueueNext
  <1>t. /\ cursor \in Pos /\ queued \in [Client -> Pos] /\ 1 \in Client /\ client \in Client
        /\ poller \in [Client -> PollState] /\ poller[c] \in PollState
        /\ Len(thread) \in Pos
    BY ConstantsAssumption DEF BackInv, TypeOK, Client
  <1>1. poller'[c].pc # "idle" => c <= client
    <2>1. CASE poller[c].pc # "idle"
      BY <2>1 DEF BackInv, NobodyAhead
    <2>2. CASE List(c) \/ poller'[c] = Idle
      BY <2>2, <1>t DEF List, Idle, Client
    <2>3. poller[c].pc = "idle" => List(c)
      BY DEF Fetch, FetchFail, RespondEmpty, Respond, QueueNext
    <2> QED
      BY <2>1, <2>2, <2>3
  <1>2. \A p \in Page : page'[p].owner <= client /\ page'[p].pos \in {0, page[p].pos}
    <2>1. CASE Respond(c)
      <3> DEFINE p == CHOOSE x \in Page : ~Open(x)
      <3>1. page' = [page EXCEPT ![p] = [owner |-> c, left |-> {OwnCount}, pos |-> 0]]
            /\ poller[c].pc = "fetching"
        BY <2>1 DEF Respond
      <3>2. c <= client
        BY <3>1 DEF BackInv, NobodyAhead
      <3> QED
        BY <3>1, <3>2 DEF BackInv, NobodyAhead, TypeOK
    <2>2. CASE QueueNext(c)
      <3>1. page' = page \/ \E p, m : page' = [page EXCEPT ![p].left = @ \cup {m}]
        BY <2>2 DEF QueueNext, Track
      <3> QED
        BY <3>1 DEF BackInv, NobodyAhead, TypeOK, Commit
    <2>3. CASE page' = page
      BY <2>3 DEF BackInv, NobodyAhead
    <2> QED
      BY <2>1, <2>2, <2>3 DEF List, Fetch, FetchFail, RespondEmpty
  <1>3. ASSUME client = 1, saved[1] = 0
        PROVE  /\ poller'[1].pc \in {"listed", "fetching"} => poller'[1].th >= cursor
               /\ poller'[1].pc = "queueing" => poller'[1].top > cursor
    <2>0. /\ poller[1].pc \in {"listed", "fetching"} => poller[1].th >= cursor
          /\ poller[1].pc = "queueing" => poller[1].top > cursor
      BY <1>3 DEF BackInv, ResumedAhead
    <2>1. CASE c # 1
      BY <2>0, <2>1, <1>0, <1>t
    <2>2. CASE c = 1
      <3>1. CASE List(c)
        BY <3>1, <2>2, <1>t DEF List, Pos
      <3>2. CASE Fetch(c)
        <4>1. /\ poller[c].pc = "listed"
              /\ poller'[c].pc = "fetching" /\ poller'[c].th = Later(poller[c].th, queued[c])
          BY <3>2, <1>t DEF Fetch, PollState
        <4>2. poller[c].th \in Pos /\ queued[c] \in Pos
          BY <1>t DEF PollState
        <4> QED
          BY <4>1, <4>2, <2>0, <2>2, <1>t DEF Later, Pos
      <3>3. CASE FetchFail(c) \/ RespondEmpty(c)
        BY <3>3, <2>2, <1>t DEF FetchFail, RespondEmpty, Idle
      <3>4. CASE Respond(c)
        <4>1. poller[c].pc = "fetching" /\ Len(thread) > poller[c].th
          BY <3>4 DEF Respond
        <4>2. poller'[c].pc = "queueing" /\ poller'[c].top = Len(thread)
          BY <3>4, <1>t DEF Respond
        <4>3. poller[c].th \in Pos
          BY <1>t DEF PollState
        <4> QED
          BY <4>1, <4>2, <4>3, <2>0, <2>2, <1>t DEF Pos
      <3>5. CASE QueueNext(c)
        <4>1. poller' = [poller EXCEPT ![c].next = poller[c].next + 1]
          BY <3>5 DEF QueueNext
        <4>2. poller'[c].pc = poller[c].pc /\ poller'[c].top = poller[c].top
              /\ poller'[c].th = poller[c].th
          BY <4>1, <1>t DEF PollState
        <4> QED
          BY <4>2, <2>0, <2>2
      <3> QED
        BY <3>1, <3>2, <3>3, <3>4, <3>5
    <2> QED
      BY <2>1, <2>2
  <1>4. NobodyAhead'
    BY <1>0, <1>1, <1>2 DEF BackInv, NobodyAhead
  <1>5. SavedIsCursor'
    BY <1>0 DEF BackInv, SavedIsCursor
  <1>6. ResumedAhead'
    <2> SUFFICES ASSUME client = 1, saved[1] = 0 PROVE ResumedAhead'
      BY <1>0 DEF ResumedAhead
    <2>1. \A p \in Page : page'[p].pos # 0 => page'[p].pos > cursor
      BY <1>2 DEF BackInv, ResumedAhead
    <2> QED
      BY <2>1, <1>3, <1>0 DEF ResumedAhead
  <1> QED
    BY <1>0, <1>4, <1>5, <1>6 DEF BackInv

LEMMA BackAdvance ==
    ASSUME BackInv, TypeOK', NEW c \in Client, Advance(c)
    PROVE  BackInv' /\ (client = 1 => cursor' >= cursor)
  <1> DEFINE p == poller[c].page
             pos == poller[c].top
             q == NoteQueued(queued, c, pos)
  <1>1. /\ poller[c].pc = "queueing" /\ p \in Page /\ pos \in Pos /\ OwnCount \in Pos
        /\ c <= client /\ client \in Client
        /\ q \in [Client -> Pos] /\ Done(p, OwnCount, pos, q) /\ client' = client
        /\ poller' = [poller EXCEPT ![c] = Idle] /\ poller \in [Client -> PollState]
    <2>0. poller[c].pc = "queueing" /\ poller[c] \in PollState
      BY DEF Advance, BackInv, TypeOK
    <2>7. p \in Page
      BY <2>0 DEF BackInv, TypeOK
    <2>8. pos \in Pos
      BY <2>0 DEF PollState
    <2>9. OwnCount \in Pos
      BY ConstantsAssumption DEF OwnCount, Pos
    <2>1. poller[c].pc = "queueing" /\ p \in Page /\ pos \in Pos /\ OwnCount \in Pos
      BY <2>0, <2>7, <2>9, <2>8
    <2>2. c <= client
      BY <2>1 DEF BackInv, NobodyAhead
    <2>3. q \in [Client -> Pos]
      BY <2>1 DEF NoteQueued, Later, BackInv, TypeOK
    <2> QED
      BY <2>1, <2>2, <2>3 DEF Advance, BackInv, TypeOK
  <1>2. client = 1 => c = 1
    BY <1>1 DEF Client
  <1>3. client = 1 /\ saved[1] = 0 => pos > cursor
    BY <1>1, <1>2 DEF BackInv, ResumedAhead
  <1>4. /\ client = 1 => cursor' >= cursor
        /\ SavedIsCursor'
        /\ \A x \in Page : page'[x].owner <= client
        /\ client = 1 /\ saved'[1] = 0 =>
              /\ saved[1] = 0 /\ cursor' = cursor
              /\ \A x \in Page : page'[x].pos # 0 => page'[x].pos > cursor
    BY <1>1, <1>3, DoneForward
  <1>5. NobodyAhead'
    BY <1>1, <1>4 DEF BackInv, NobodyAhead, Idle
  <1>6. ResumedAhead'
    BY <1>1, <1>2, <1>4 DEF ResumedAhead, Idle
  <1> QED
    BY <1>4, <1>5, <1>6 DEF BackInv

LEMMA BackHandle ==
    ASSUME BackInv, TypeOK', NEW e \in running, Handle(e)
    PROVE  BackInv' /\ (client = 1 => cursor' >= cursor)
  <1> DEFINE pos == page[e.page].pos
  <1>1. /\ e.page \in Page /\ e.msg \in Pos /\ pos \in Pos /\ queued \in [Client -> Pos]
        /\ Done(e.page, e.msg, pos, queued) /\ client' = client /\ poller' = poller
    <2>1. e.page \in Page /\ e.msg \in Pos
      BY DEF BackInv, TypeOK, Event, Msg, Pos
    <2> QED
      BY <2>1 DEF Handle, BackInv, TypeOK, Commit
  <1>2. client = 1 /\ saved[1] = 0 /\ pos # 0 => pos > cursor
    BY <1>1 DEF BackInv, ResumedAhead
  <1>3. /\ client = 1 => cursor' >= cursor
        /\ SavedIsCursor'
        /\ \A x \in Page : page'[x].owner <= client
        /\ client = 1 /\ saved'[1] = 0 =>
              /\ saved[1] = 0 /\ cursor' = cursor
              /\ \A x \in Page : page'[x].pos # 0 => page'[x].pos > cursor
    BY <1>1, <1>2, DoneForward
  <1>4. NobodyAhead' /\ ResumedAhead'
    BY <1>1, <1>3 DEF BackInv, NobodyAhead, ResumedAhead
  <1> QED
    BY <1>3, <1>4 DEF BackInv

LEMMA BackNext == BackInv /\ [Next]_vars => BackInv' /\ (client = 1 => cursor' >= cursor)
  <1> SUFFICES ASSUME BackInv, [Next]_vars
               PROVE  BackInv' /\ (client = 1 => cursor' >= cursor)
    OBVIOUS
  <1>t. TypeOK' /\ cursor \in Pos /\ client \in Client /\ 1 \in Client
    BY TypeNext, ConstantsAssumption DEF BackInv, TypeOK, Client
  <1>1. ASSUME NEW c \in Client, Poll(c) PROVE BackInv' /\ (client = 1 => cursor' >= cursor)
    BY <1>1, <1>t, BackPoll, BackAdvance DEF Poll, Pos
  <1>2. ASSUME NEW e \in running, Handle(e)
        PROVE  BackInv' /\ (client = 1 => cursor' >= cursor)
    BY <1>2, <1>t, BackHandle
  <1>3. CASE Take \/ Arrive \/ UNCHANGED vars \/ \E e \in running : Drop(e)
    <2>1. UNCHANGED <<cursor, client, saved, poller, page>>
      BY <1>3 DEF Take, Drop, Arrive, vars, memory
    <2> QED
      BY <2>1, <1>t DEF BackInv, NobodyAhead, SavedIsCursor, ResumedAhead, Pos
  <1>4. CASE Relogin
    <2>1. UNCHANGED <<cursor, saved, poller, page>> /\ client' = client + 1
      BY <1>4 DEF Relogin
    <2>2. client' # 1 /\ \A n \in Nat : n <= client => n <= client'
      BY <2>1, <1>t DEF Client
    <2>3. NobodyAhead'
      BY <2>1, <2>2 DEF BackInv, NobodyAhead, TypeOK, Commit, Client
    <2> QED
      BY <2>1, <2>2, <2>3, <1>t DEF BackInv, SavedIsCursor, ResumedAhead, Pos
  <1>5. CASE Restart
    <2>1. /\ cursor' = cursor /\ client' = 1
          /\ \A c \in Client : saved'[c] = 0 /\ poller'[c].pc = "idle"
          /\ \A p \in Page : page'[p].owner = 1 /\ page'[p].pos = 0
      BY <1>5 DEF Restart, NoCommit, Idle
    <2> QED
      BY <2>1, <1>t DEF BackInv, NobodyAhead, SavedIsCursor, ResumedAhead, Pos
  <1> QED
    BY <1>1, <1>2, <1>3, <1>4, <1>5 DEF Next, Portal

\* A client never moves the saved cursor back, however late a page of it is
\* handled and whatever was saved before a restart (needsSave, saveCursor).
THEOREM CursorAdvances == Spec => CursorNeverMovesBack
  <1>1. Init => BackInv
    <2> SUFFICES ASSUME Init PROVE BackInv
      OBVIOUS
    <2>1. TypeOK
      BY TypeInit
    <2>2. /\ 1 \in Client /\ client = 1 /\ \A c \in Client : saved[c] = 0 /\ poller[c].pc = "idle"
          /\ \A p \in Page : page[p].owner = 1 /\ page[p].pos = 0
      BY ConstantsAssumption DEF Init, Idle, NoCommit, Client
    <2> QED
      BY <2>1, <2>2 DEF BackInv, NobodyAhead, SavedIsCursor, ResumedAhead
  <1>2. BackInv /\ [Next]_vars => [client = 1 => cursor' >= cursor]_vars
    BY BackNext
  <1> QED
    BY <1>1, <1>2, BackNext, PTL DEF Spec, CursorNeverMovesBack

=============================================================================
