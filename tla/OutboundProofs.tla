---------------------------- MODULE OutboundProofs ----------------------------
(***************************************************************************)
(* Theorems about Outbound, for any number of sends, pieces, retries and   *)
(* restarts: its state is well typed; a message sent from Matrix comes     *)
(* back as a new event only if some attempt had no answer or a restart     *)
(* lost its entry; a message with an attachment is posted only when the    *)
(* whole file is stored and shared; a send that was answered has its       *)
(* receipt or is sure to meet its echo; and what the sender is told is so. *)
(***************************************************************************)
EXTENDS Outbound, TLAPS

(* Only files are uploaded, and the loop over the pieces stays within them. *)
UploadKnown ==
    \A s \in Sends : /\ pc[s] \in Uploading => s \in Files
                     /\ pc[s] \in {"new", "download", "session", "chunk"} => offset[s] \in Pieces

TypeInv == TypeOK /\ UploadKnown

(* The places of a handler whose message is not on Teams yet, and those of  *)
(* one that is on its way to the answer.                                    *)
Before == {"new", "post", "lost", "failed"} \cup Uploading
OnItsWay == {"post", "lost"} \cup Uploading

(* Sends of which the bridge knows at every moment what became of them. *)
Certain == Sends \ (doubt \cup orphaned)

PostedOnce ==
    \A s \in Certain : \A i, j \in 1 .. Len(posted) : posted[i] = s /\ posted[j] = s => i = j
EchoAwaited ==
    \A i \in 1 .. Len(posted) : handled < i /\ posted[i] \in Certain => posted[i] \in pending
NotThereYet ==
    \A s \in Certain : pc[s] \in Before => \A i \in 1 .. Len(posted) : posted[i] # s
EntryKept ==
    \A s \in Certain : pc[s] \in OnItsWay => s \in pending

EchoInv == PostedOnce /\ EchoAwaited /\ NotThereYet /\ EntryKept /\ OwnMessagesOnce

(* The file is complete before its link is asked for, and shared before the *)
(* message is posted.                                                       *)
FileInv ==
    \A s \in Files :
        /\ pc[s] = "link" => stored[s] = Pieces
        /\ pc[s] \in {"post"} \cup Asked => stored[s] = Pieces /\ s \in linked
        /\ s \in OnTeams => stored[s] = Pieces /\ s \in linked

-----------------------------------------------------------------------------
(* Places, pieces and the thread *)

LEMMA PlacesKnown ==
    /\ Places = {"download", "session", "chunk", "put", "link", "post", "lost", "landed",
                 "new", "sent", "failed", "gone"}
    /\ Uploading \subseteq Places /\ Asked \subseteq Places
    /\ Before \subseteq Places /\ OnItsWay \subseteq Before
BY DEF Places, Running, Uploading, Asked, Before, OnItsWay

LEMMA FirstPiece == Chunks \in Nat /\ Pieces \subseteq 0 .. Chunks /\ 0 \in Pieces
BY OutboundAssumption DEF Pieces

(* A request that lands leaves the thread as it is or makes it longer by one. *)
LEMMA ThreadGrows ==
    ASSUME NEW s \in Sends, posted \in Seq(Sends), posted' \in Arrived(s)
    PROVE  /\ posted' \in Seq(Sends)
           /\ \/ posted' = posted
              \/ /\ Len(posted') = Len(posted) + 1
                 /\ \A i \in 1 .. Len(posted) : posted'[i] = posted[i]
                 /\ posted'[Len(posted) + 1] = s
           /\ s \notin {posted[i] : i \in 1 .. Len(posted)} => posted' = Append(posted, s)
<1>1. posted' = posted \/ posted' = Append(posted, s)
  BY DEF Arrived
<1>2. /\ Append(posted, s) \in Seq(Sends)
      /\ Len(Append(posted, s)) = Len(posted) + 1
      /\ \A i \in 1 .. Len(posted) : Append(posted, s)[i] = posted[i]
      /\ Append(posted, s)[Len(posted) + 1] = s
  OBVIOUS
<1>3. s \notin {posted[i] : i \in 1 .. Len(posted)} => posted' = Append(posted, s)
  BY DEF Arrived
<1> QED
  BY <1>1, <1>2, <1>3

-----------------------------------------------------------------------------
(* Types *)

LEMMA GoTyped ==
    ASSUME TypeOK, NEW s \in Sends, NEW place \in Places, Go(s, place)
    PROVE  /\ pc' \in [Sends -> Places] /\ tries' \in [Sends -> 0 .. MaxRetries]
           /\ pc' = [pc EXCEPT ![s] = place]
BY OutboundAssumption DEF Go, TypeOK

LEMMA RetryTyped ==
    ASSUME TypeOK, NEW s \in Sends, NEW place \in Places, Retry(s, place)
    PROVE  /\ pc' \in [Sends -> Places] /\ tries' \in [Sends -> 0 .. MaxRetries]
           /\ pc' = [pc EXCEPT ![s] = place]
BY OutboundAssumption DEF Retry, TypeOK

(* A step of an upload moves one handler, within the upload, to the post or *)
(* to its failure, and drops the entry exactly when it fails.               *)
MovesOn(s, to) ==
    \E place \in to :
        /\ pc' = [pc EXCEPT ![s] = place]
        /\ pc' \in [Sends -> Places] /\ tries' \in [Sends -> 0 .. MaxRetries]
        /\ pending' = IF place = "failed" THEN pending \ {s} ELSE pending

LEMMA GoMoves ==
    ASSUME TypeOK, NEW s \in Sends, NEW place \in Places, place # "failed",
           Go(s, place) \/ Retry(s, place), UNCHANGED pending
    PROVE  MovesOn(s, {place})
BY GoTyped, RetryTyped DEF MovesOn

LEMMA FailMoves ==
    ASSUME TypeOK, NEW s \in Sends, Fail(s)
    PROVE  MovesOn(s, {"failed"})
<1>1. "failed" \in Places
  BY PlacesKnown
<1>2. Go(s, "failed") /\ pending' = pending \ {s}
  BY DEF Fail
<1> QED
  BY <1>1, <1>2, GoTyped DEF MovesOn

LEMMA RequestMoves ==
    ASSUME TypeOK, NEW s \in Sends, NEW place \in Places, place # "failed",
           pc[s] # "failed", Request(s, place)
    PROVE  MovesOn(s, {place, pc[s], "failed"})
<1>1. pc[s] \in Places
  BY DEF TypeOK
<1>2. CASE Go(s, place) /\ UNCHANGED pending
  BY <1>2, GoMoves DEF MovesOn
<1>3. CASE Retry(s, pc[s]) /\ UNCHANGED pending
  BY <1>1, <1>3, GoMoves DEF MovesOn
<1>4. CASE Fail(s)
  BY <1>4, FailMoves DEF MovesOn
<1> QED
  BY <1>2, <1>3, <1>4 DEF Request

-----------------------------------------------------------------------------
(* The upload *)

FileTypeInv == TypeInv /\ FileInv

(* What a step of the upload of s does: it moves the handler on, loses no    *)
(* piece and no link, and leaves the thread, its echoes and the history.     *)
UploadStep(s) ==
    /\ s \in Files /\ pc[s] \in Uploading
    /\ MovesOn(s, Uploading \cup {"post", "failed"})
    /\ offset' \in [Sends -> 0 .. Chunks]
    /\ \A t \in Sends \ {s} : offset'[t] = offset[t]
    /\ pc'[s] \in {"download", "session", "chunk"} => offset'[s] \in Pieces
    /\ stored' \in [Sends -> SUBSET Pieces]
    /\ \A t \in Sends : stored[t] \subseteq stored'[t]
    /\ linked' \subseteq Files /\ linked \subseteq linked'
    /\ repeats' \in 0 .. MaxRepeats
    /\ pc'[s] = "link" => stored'[s] = Pieces
    /\ pc'[s] = "post" => stored'[s] = Pieces /\ s \in linked'
    /\ UNCHANGED <<posted, echoVars, restarts, doubt, orphaned>>

LEMMA MovedTo ==
    ASSUME TypeOK, NEW s \in Sends, NEW to, MovesOn(s, to)
    PROVE  pc'[s] \in to
BY DEF MovesOn, TypeOK

LEMMA MovesFurther ==
    ASSUME NEW s \in Sends, NEW to, NEW further, to \subseteq further, MovesOn(s, to)
    PROVE  MovesOn(s, further)
BY DEF MovesOn

LEMMA DownloadStep ==
    ASSUME FileTypeInv, NEW s \in Sends, Download(s)
    PROVE  UploadStep(s)
<1> USE DEF FileTypeInv, TypeInv
<1>1. pc[s] = "download" /\ s \in Files /\ offset[s] \in Pieces
  BY DEF Download, UploadKnown, Uploading
<1>2. MovesOn(s, {"session", "put", "failed"})
  <2>1. ASSUME NEW place \in {"session", "put"}, Go(s, place), UNCHANGED pending
        PROVE  MovesOn(s, {"session", "put", "failed"})
    BY <2>1, PlacesKnown, GoMoves DEF MovesOn
  <2>2. ASSUME Fail(s)
        PROVE  MovesOn(s, {"session", "put", "failed"})
    BY <2>2, FailMoves DEF MovesOn
  <2> QED
    BY <2>1, <2>2 DEF Download
<1>3. MovesOn(s, Uploading \cup {"post", "failed"})
  BY <1>2, MovesFurther DEF Uploading
<1>4. pc'[s] \in {"session", "put", "failed"}
  BY <1>2, MovedTo
<1>5. UNCHANGED uploadVars /\ UNCHANGED <<posted, echoVars, restarts, doubt, orphaned>>
  BY DEF Download
<1> QED
  BY <1>1, <1>3, <1>4, <1>5 DEF UploadStep, uploadVars, TypeOK, Uploading

LEMMA SessionStep ==
    ASSUME FileTypeInv, NEW s \in Sends, CreateUploadSession(s)
    PROVE  UploadStep(s)
<1> USE DEF FileTypeInv, TypeInv
<1>1. pc[s] = "session" /\ s \in Files /\ offset[s] \in Pieces
  BY DEF CreateUploadSession, UploadKnown, Uploading
<1>2. MovesOn(s, {"chunk", "session", "failed"})
  BY <1>1, PlacesKnown, RequestMoves DEF CreateUploadSession
<1>3. MovesOn(s, Uploading \cup {"post", "failed"})
  BY <1>2, MovesFurther DEF Uploading
<1>4. pc'[s] \in {"chunk", "session", "failed"}
  BY <1>2, MovedTo
<1>5. UNCHANGED uploadVars /\ UNCHANGED <<posted, echoVars, restarts, doubt, orphaned>>
  BY DEF CreateUploadSession, Request
<1> QED
  BY <1>1, <1>3, <1>4, <1>5 DEF UploadStep, uploadVars, TypeOK, Uploading

LEMMA PutSmallStep ==
    ASSUME FileTypeInv, NEW s \in Sends, PutSmall(s)
    PROVE  UploadStep(s)
<1> USE DEF FileTypeInv, TypeInv
<1>1. pc[s] = "put" /\ s \in Files
  BY DEF PutSmall, UploadKnown, Uploading
<1>2. Request(s, "link")
  BY DEF PutSmall
<1>3. MovesOn(s, {"link", "put", "failed"})
  BY <1>1, <1>2, PlacesKnown, RequestMoves
<1>4. MovesOn(s, Uploading \cup {"post", "failed"})
  BY <1>3, MovesFurther DEF Uploading
<1>5. pc'[s] \in {"link", "put", "failed"}
  BY <1>3, MovedTo
<1>6. /\ stored' \in {stored, [stored EXCEPT ![s] = Pieces]}
      /\ pc'[s] = "link" => stored' = [stored EXCEPT ![s] = Pieces]
  BY DEF PutSmall
<1>7. /\ stored' \in [Sends -> SUBSET Pieces]
      /\ \A t \in Sends : stored[t] \subseteq stored'[t]
      /\ pc'[s] = "link" => stored'[s] = Pieces
  BY <1>6 DEF TypeOK
<1>8. UNCHANGED <<offset, linked, repeats>> /\ UNCHANGED <<posted, echoVars, restarts, doubt, orphaned>>
  BY <1>2 DEF PutSmall, Request
<1> QED
  BY <1>1, <1>4, <1>5, <1>7, <1>8 DEF UploadStep, TypeOK, Uploading

LEMMA PutChunkStep ==
    ASSUME FileTypeInv, NEW s \in Sends, PutChunk(s)
    PROVE  UploadStep(s)
<1> USE DEF FileTypeInv, TypeInv
<1> DEFINE held == stored[s] \cup {offset[s]}
<1>1. pc[s] = "chunk" /\ s \in Files /\ offset[s] \in Pieces
  BY DEF PutChunk, UploadKnown, Uploading
<1>2. UNCHANGED <<linked, posted, echoVars, restarts, doubt, orphaned>>
  BY DEF PutChunk
<1>3. held \in SUBSET Pieces
  BY <1>1 DEF TypeOK
<1>4. stored' \in {stored, [stored EXCEPT ![s] = held]}
  BY DEF PutChunk
<1>5. /\ stored' \in [Sends -> SUBSET Pieces]
      /\ \A t \in Sends : stored[t] \subseteq stored'[t]
  BY <1>3, <1>4 DEF TypeOK
<1>6. ASSUME NEW next \in 0 .. Chunks, NextRange(s, held, next)
      PROVE  /\ MovesOn(s, {"chunk", "failed"})
             /\ pc'[s] = "chunk" => next \in Pieces
             /\ offset' = [offset EXCEPT ![s] = next]
             /\ repeats' \in 0 .. MaxRepeats
  <2>1. repeats' \in 0 .. MaxRepeats
    BY <1>6, OutboundAssumption DEF NextRange, TypeOK
  <2>2. CASE next = Chunks
    <3>1. MovesOn(s, {"failed"})
      BY <1>6, <2>2, FailMoves DEF NextRange
    <3>2. pc'[s] \in {"failed"}
      BY <3>1, MovedTo
    <3> QED
      BY <1>6, <2>1, <3>1, <3>2 DEF NextRange, MovesOn
  <2>3. CASE next # Chunks
    <3>1. next \in Pieces
      BY <2>3, FirstPiece DEF Pieces
    <3>2. Go(s, "chunk") /\ UNCHANGED pending
      BY <1>6, <2>3 DEF NextRange
    <3>3. MovesOn(s, {"chunk"})
      BY <3>2, PlacesKnown, GoMoves
    <3> QED
      BY <1>6, <2>1, <3>1, <3>3 DEF NextRange, MovesOn
  <2> QED
    BY <2>2, <2>3
<1>7. CASE \E next \in 0 .. Chunks : NextRange(s, held, next)
  <2>1. PICK next \in 0 .. Chunks : NextRange(s, held, next)
    BY <1>7
  <2>2. /\ MovesOn(s, {"chunk", "failed"})
        /\ pc'[s] = "chunk" => next \in Pieces
        /\ offset' = [offset EXCEPT ![s] = next]
        /\ repeats' \in 0 .. MaxRepeats
    BY <2>1, <1>6
  <2>3. pc'[s] \in {"chunk", "failed"} /\ MovesOn(s, Uploading \cup {"post", "failed"})
    BY <2>2, MovedTo, MovesFurther DEF Uploading
  <2> QED
    BY <1>1, <1>2, <1>5, <2>2, <2>3 DEF UploadStep, TypeOK, Uploading
<1>8. CASE /\ stored' = [stored EXCEPT ![s] = held]
           /\ held = Pieces
           /\ Go(s, "link")
           /\ UNCHANGED <<pending, offset, repeats>>
  <2>1. MovesOn(s, {"link"})
    BY <1>8, PlacesKnown, GoMoves
  <2>2. pc'[s] \in {"link"} /\ MovesOn(s, Uploading \cup {"post", "failed"})
    BY <2>1, MovedTo, MovesFurther DEF Uploading
  <2>3. stored'[s] = Pieces
    BY <1>8 DEF TypeOK
  <2> QED
    BY <1>1, <1>2, <1>5, <1>8, <2>2, <2>3 DEF UploadStep, TypeOK, Uploading
<1>9. CASE /\ (Retry(s, "chunk") /\ UNCHANGED pending) \/ Fail(s)
           /\ UNCHANGED <<offset, repeats>>
  <2>1. MovesOn(s, {"chunk", "failed"})
    BY <1>9, PlacesKnown, GoMoves, FailMoves DEF MovesOn
  <2>2. pc'[s] \in {"chunk", "failed"} /\ MovesOn(s, Uploading \cup {"post", "failed"})
    BY <2>1, MovedTo, MovesFurther DEF Uploading
  <2> QED
    BY <1>1, <1>2, <1>5, <1>9, <2>2 DEF UploadStep, TypeOK, Uploading
<1> QED
  BY <1>7, <1>8, <1>9 DEF PutChunk

LEMMA ShareStep ==
    ASSUME FileTypeInv, NEW s \in Sends, CreateShareLink(s)
    PROVE  UploadStep(s)
<1> USE DEF FileTypeInv, TypeInv
<1>1. pc[s] = "link" /\ s \in Files
  BY DEF CreateShareLink, UploadKnown, Uploading
<1>2. stored[s] = Pieces
  BY <1>1 DEF FileInv
<1>3. MovesOn(s, {"post", "link", "failed"})
  BY <1>1, PlacesKnown, RequestMoves DEF CreateShareLink
<1>4. MovesOn(s, Uploading \cup {"post", "failed"})
  BY <1>3, MovesFurther DEF Uploading
<1>5. pc'[s] \in {"post", "link", "failed"}
  BY <1>3, MovedTo
<1>6. /\ linked' = IF pc'[s] = "post" THEN linked \cup {s} ELSE linked
      /\ UNCHANGED <<offset, stored, repeats>>
      /\ UNCHANGED <<posted, echoVars, restarts, doubt, orphaned>>
  BY DEF CreateShareLink, Request
<1> QED
  BY <1>1, <1>2, <1>4, <1>5, <1>6 DEF UploadStep, TypeOK, Uploading

LEMMA UploadSteps ==
    ASSUME FileTypeInv, NEW s \in Sends, Upload(s)
    PROVE  UploadStep(s)
BY DownloadStep, SessionStep, PutSmallStep, PutChunkStep, ShareStep DEF Upload

-----------------------------------------------------------------------------
(* Types and files, together *)

LEMMA FileTypeStart ==
    ASSUME Init
    PROVE  FileTypeInv
<1>1. TypeOK
  BY FirstPiece, PlacesKnown, OutboundAssumption DEF Init, TypeOK
<1>2. UploadKnown
  BY FirstPiece DEF Init, UploadKnown, Uploading
<1>3. FileInv
  <2>1. posted = <<>> /\ Len(posted) = 0 /\ 1 .. Len(posted) = {}
    BY DEF Init
  <2>2. OnTeams = {}
    BY <2>1 DEF OnTeams
  <2> QED
    BY <2>2 DEF Init, FileInv, Asked, Sends
<1> QED
  BY <1>1, <1>2, <1>3 DEF FileTypeInv, TypeInv

LEMMA FileTypeUpload ==
    ASSUME FileTypeInv, NEW s \in Sends, UploadStep(s)
    PROVE  FileTypeInv'
<1> USE DEF FileTypeInv, TypeInv
<1>1. PICK place \in Uploading \cup {"post", "failed"} :
            /\ pc' = [pc EXCEPT ![s] = place]
            /\ pc' \in [Sends -> Places] /\ tries' \in [Sends -> 0 .. MaxRetries]
            /\ pending' = IF place = "failed" THEN pending \ {s} ELSE pending
  BY DEF UploadStep, MovesOn
<1>2. TypeOK'
  BY <1>1 DEF UploadStep, TypeOK, echoVars
<1>3. UploadKnown'
  BY <1>1 DEF UploadStep, UploadKnown, TypeOK, Uploading
<1>4. FileInv'
  <2> SUFFICES ASSUME NEW f \in Files
               PROVE  /\ pc'[f] = "link" => stored'[f] = Pieces
                      /\ pc'[f] \in {"post"} \cup Asked => stored'[f] = Pieces /\ f \in linked'
                      /\ f \in OnTeams' => stored'[f] = Pieces /\ f \in linked'
    BY DEF FileInv
  <2>1. f \in Sends /\ stored[f] \subseteq stored'[f] /\ stored'[f] \subseteq Pieces /\ linked \subseteq linked'
    BY DEF UploadStep, Sends
  <2>2. OnTeams' = OnTeams
    BY DEF UploadStep, OnTeams
  <2>3. f # s => pc'[f] = pc[f]
    BY <1>1, <2>1 DEF TypeOK
  <2>4. pc'[s] = place /\ place \notin Asked
    BY <1>1 DEF TypeOK, Uploading, Asked
  <2> QED
    BY <2>1, <2>2, <2>3, <2>4 DEF FileInv, UploadStep
<1> QED
  BY <1>2, <1>3, <1>4

(* A step of one handler outside the upload, which is not a post. *)
LEMMA FileTypeAsks ==
    ASSUME FileTypeInv, NEW s \in Sends, NEW place \in Places, NEW entries \in SUBSET Sends,
           pc' = [pc EXCEPT ![s] = place], tries' \in [Sends -> 0 .. MaxRetries],
           pending' = entries,
           \/ pc[s] = "new" /\ ((place = "download" /\ s \in Files) \/ (place = "post" /\ s \notin Files))
           \/ place = "failed"
           \/ pc[s] \in {"post"} \cup Asked /\ place \in {"sent", "post", "lost"},
           UNCHANGED <<posted, echoVars, uploadVars, restarts, orphaned>>,
           doubt' \subseteq Sends
    PROVE  FileTypeInv'
<1> USE DEF FileTypeInv, TypeInv
<1>1. TypeOK'
  BY DEF TypeOK, echoVars, uploadVars
<1>2. UploadKnown'
  BY DEF UploadKnown, TypeOK, Uploading, uploadVars
<1>3. FileInv'
  BY DEF FileInv, TypeOK, Asked, OnTeams, uploadVars, Sends
<1> QED
  BY <1>1, <1>2, <1>3

LEMMA FileTypePost ==
    ASSUME FileTypeInv, NEW s \in Sends, Post(s)
    PROVE  FileTypeInv'
<1> USE DEF FileTypeInv, TypeInv
<1>1. CASE pc' = [pc EXCEPT ![s] = "lost"] /\ UNCHANGED posted
  BY <1>1, PlacesKnown, FileTypeAsks DEF Post, TypeOK
<1>2. CASE pc' = [pc EXCEPT ![s] = "landed"] /\ posted' \in Arrived(s)
  <2>1. pc[s] = "post" /\ UNCHANGED <<tries, pending, echoVars, uploadVars, restarts, doubt, orphaned>>
    BY DEF Post
  <2>2. posted \in Seq(Sends)
    BY DEF TypeOK
  <2>3. /\ posted' \in Seq(Sends)
        /\ \/ posted' = posted
           \/ /\ Len(posted') = Len(posted) + 1
              /\ \A i \in 1 .. Len(posted) : posted'[i] = posted[i]
              /\ posted'[Len(posted) + 1] = s
    BY <1>2, <2>2, ThreadGrows
  <2>4. polled' \in 0 .. Len(posted')
    BY <2>1, <2>2, <2>3 DEF TypeOK, echoVars
  <2>5. TypeOK'
    BY <1>2, <2>1, <2>3, <2>4, PlacesKnown DEF TypeOK, echoVars, uploadVars, Asked
  <2>6. UploadKnown'
    BY <1>2, <2>1 DEF UploadKnown, TypeOK, Uploading, uploadVars
  <2>7. OnTeams' \subseteq OnTeams \cup {s}
    BY <2>2, <2>3 DEF OnTeams
  <2>8. FileInv'
    BY <1>2, <2>1, <2>7 DEF FileInv, TypeOK, Asked, uploadVars, Sends
  <2> QED
    BY <2>5, <2>6, <2>8
<1> QED
  BY <1>1, <1>2 DEF Post

LEMMA FileTypeHandler ==
    ASSUME FileTypeInv, NEW s \in Sends, Start(s) \/ Sent(s) \/ Refused(s) \/ Unanswered(s)
    PROVE  FileTypeInv'
<1> USE DEF FileTypeInv, TypeInv
<1>1. {"post", "failed", "sent", "download"} \subseteq Places
  BY PlacesKnown
<1>2. pending \in SUBSET Sends /\ pending \cup {s} \in SUBSET Sends /\ pending \ {s} \in SUBSET Sends
      /\ doubt \in SUBSET Sends
  BY DEF TypeOK
<1>3. CASE Start(s)
  <2>1. pc[s] = "new" /\ UNCHANGED <<posted, echoVars, uploadVars, restarts, doubt, orphaned>>
    BY <1>3 DEF Start
  <2>2. CASE Go(s, IF s \in Files THEN "download" ELSE "post") /\ pending' = pending \cup {s}
    <3>1. CASE s \in Files
      <4>1. Go(s, "download")
        BY <2>2, <3>1
      <4>2. pc' = [pc EXCEPT ![s] = "download"] /\ tries' \in [Sends -> 0 .. MaxRetries]
        BY <1>1, <4>1, GoTyped
      <4>3. pending' = pending \cup {s} /\ pending \cup {s} \in SUBSET Sends /\ "download" \in Places
        BY <1>1, <1>2, <2>2
      <4>4. UNCHANGED <<posted, echoVars, uploadVars, restarts, orphaned>> /\ doubt' \subseteq Sends
        BY <1>2, <2>1
      <4> QED
        BY <2>1, <3>1, <4>2, <4>3, <4>4, FileTypeAsks
    <3>2. CASE s \notin Files
      BY <1>1, <1>2, <2>1, <2>2, <3>2, GoTyped, FileTypeAsks
    <3> QED
      BY <3>1, <3>2
  <2>3. CASE Go(s, "failed") /\ UNCHANGED pending
    BY <1>1, <1>2, <2>1, <2>3, GoTyped, FileTypeAsks
  <2> QED
    BY <1>3, <2>2, <2>3 DEF Start
<1>4. CASE Sent(s)
  <2>1. pc[s] \in Asked /\ Go(s, "sent")
        /\ UNCHANGED <<pending, posted, echoVars, uploadVars, restarts, doubt, orphaned>>
    BY <1>4 DEF Sent, Asked
  <2> QED
    BY <1>1, <1>2, <2>1, GoTyped, FileTypeAsks
<1>5. CASE Refused(s) \/ Unanswered(s)
  <2>1. /\ pc[s] \in Asked /\ doubt' \in SUBSET Sends
        /\ Fail(s) \/ (Retry(s, "post") /\ UNCHANGED pending)
        /\ UNCHANGED <<posted, echoVars, uploadVars, restarts, orphaned>>
    BY <1>2, <1>5 DEF Refused, Unanswered, Asked
  <2>2. CASE Fail(s)
    <3>1. Go(s, "failed") /\ pending' = pending \ {s}
      BY <2>2 DEF Fail
    <3> QED
      BY <1>1, <1>2, <2>1, <3>1, GoTyped, FileTypeAsks
  <2>3. CASE Retry(s, "post") /\ UNCHANGED pending
    BY <1>1, <1>2, <2>1, <2>3, RetryTyped, FileTypeAsks
  <2> QED
    BY <2>1, <2>2, <2>3
<1> QED
  BY <1>3, <1>4, <1>5

LEMMA FileTypeEcho ==
    ASSUME FileTypeInv, Poll \/ HandleMessage \/ Restart \/ UNCHANGED vars
    PROVE  FileTypeInv'
<1> USE DEF FileTypeInv, TypeInv
<1>1. CASE Poll
  BY <1>1 DEF Poll, TypeOK, UploadKnown, FileInv, OnTeams, uploadVars
<1>2. CASE HandleMessage
  <2>1. handled + 1 \in 1 .. Len(posted) /\ handled' = handled + 1 /\ handled' \in 0 .. polled
        /\ bridged' \subseteq bridged \cup {handled'}
        /\ pending' \subseteq Sends
    BY <1>2 DEF HandleMessage, TypeOK
  <2>2. posted[handled + 1] \in Sends
    BY <2>1 DEF TypeOK
  <2>3. bridged' \subseteq 1 .. handled' /\ confirmed' \subseteq Sends
    BY <1>2, <2>1, <2>2 DEF HandleMessage, TypeOK
  <2>4. UNCHANGED <<pc, tries, posted, polled, uploadVars, restarts, doubt, orphaned>>
    BY <1>2 DEF HandleMessage
  <2> QED
    BY <2>1, <2>3, <2>4 DEF TypeOK, UploadKnown, FileInv, OnTeams, uploadVars
<1>3. CASE Restart
  <2>1. \A s \in Sends : pc'[s] = IF pc[s] \in Running THEN "gone" ELSE pc[s]
    BY <1>3 DEF Restart
  <2>2. UNCHANGED <<posted, uploadVars>>
    BY <1>3 DEF Restart
  <2>3. TypeOK'
    BY <1>3, PlacesKnown, OutboundAssumption DEF Restart, TypeOK, uploadVars
  <2>4. UploadKnown'
    BY <2>1, <2>2 DEF UploadKnown, uploadVars, Running, Uploading
  <2>5. FileInv'
    BY <2>1, <2>2 DEF FileInv, uploadVars, Running, Uploading, Asked, OnTeams, Sends
  <2> QED
    BY <2>3, <2>4, <2>5
<1>4. CASE UNCHANGED vars
  BY <1>4 DEF vars, uploadVars, echoVars, TypeOK, UploadKnown, FileInv, OnTeams
<1> QED
  BY <1>1, <1>2, <1>3, <1>4

LEMMA FileTypeStep ==
    ASSUME FileTypeInv, [Next]_vars
    PROVE  FileTypeInv'
<1>1. ASSUME NEW s \in Sends, Start(s) \/ HandleMatrixMessage(s)
      PROVE  FileTypeInv'
  BY <1>1, UploadSteps, FileTypeUpload, FileTypePost, FileTypeHandler DEF HandleMatrixMessage
<1> QED
  BY <1>1, FileTypeEcho DEF Next

LEMMA FileTypeInvariant == Spec => []FileTypeInv
<1>1. Init => FileTypeInv
  BY FileTypeStart
<1>2. FileTypeInv /\ [Next]_vars => FileTypeInv'
  BY FileTypeStep
<1> QED
  BY <1>1, <1>2, PTL DEF Spec

(* The state has its types: the retries stay within MaxRetries, and the     *)
(* portal handles what the poller has queued, once (executor.go,            *)
(* handlematrix.go, message_poller.go).                                     *)
THEOREM TypeCorrect == Spec => []TypeOK
<1>1. FileTypeInv => TypeOK
  BY DEF FileTypeInv, TypeInv
<1> QED
  BY <1>1, FileTypeInvariant, PTL

(* A message with an attachment is never posted before the whole file is    *)
(* stored and shared, whatever the server asks for again and however often  *)
(* requests are repeated (UploadFileInChunks, SendAttachmentMessage).       *)
THEOREM AttachmentReady == Spec => []FileBeforeMessage
<1>1. FileTypeInv => FileBeforeMessage
  BY DEF FileTypeInv, FileInv, FileBeforeMessage
<1> QED
  BY <1>1, FileTypeInvariant, PTL

-----------------------------------------------------------------------------
(* Echoes *)

Inv == FileTypeInv /\ EchoInv

LEMMA CertainSends == Certain \subseteq Sends
BY DEF Certain

LEMMA EchoStart ==
    ASSUME Init
    PROVE  EchoInv
<1>1. posted = <<>> /\ Len(posted) = 0 /\ 1 .. Len(posted) = {}
  BY DEF Init
<1>2. \A s \in Sends : pc[s] = "new"
  BY DEF Init
<1>3. EntryKept
  BY <1>2 DEF EntryKept, OnItsWay, Uploading, Certain
<1> QED
  BY <1>1, <1>3 DEF Init, EchoInv, PostedOnce, EchoAwaited, NotThereYet, OwnMessagesOnce

(* A handler that is on its way to the post, or gives up before it, drops   *)
(* only its own entry, and Teams has no message of it.                      *)
LEMMA EchoMoves ==
    ASSUME Inv, NEW s \in Sends, NEW place \in Before,
           pc[s] \in OnItsWay \ {"post"},
           pc' = [pc EXCEPT ![s] = place],
           pending' = IF place = "failed" THEN pending \ {s} ELSE pending,
           place # "new",
           UNCHANGED <<posted, echoVars, doubt, orphaned>>
    PROVE  EchoInv'
<1> USE DEF Inv, FileTypeInv, TypeInv
<1>1. Certain' = Certain
  BY DEF Certain
<1>2. pc[s] \in Before
  BY PlacesKnown
<1>3. \A t \in Sends : pc'[t] = IF t = s THEN place ELSE pc[t]
  BY DEF TypeOK
<1>4. PostedOnce' /\ OwnMessagesOnce'
  BY <1>1 DEF EchoInv, PostedOnce, OwnMessagesOnce, echoVars
<1>5. EchoAwaited'
  BY <1>1, <1>2 DEF EchoInv, EchoAwaited, NotThereYet, echoVars
<1>6. NotThereYet'
  BY <1>1, <1>2, <1>3 DEF EchoInv, NotThereYet
<1>7. EntryKept'
  BY <1>1, <1>3 DEF EchoInv, EntryKept, OnItsWay, Before, Uploading, Certain
<1> QED
  BY <1>4, <1>5, <1>6, <1>7 DEF EchoInv

LEMMA EchoUpload ==
    ASSUME Inv, NEW s \in Sends, UploadStep(s)
    PROVE  EchoInv'
<1>1. pc[s] \in OnItsWay \ {"post"}
  BY DEF UploadStep, OnItsWay, Uploading
<1>2. PICK place \in Uploading \cup {"post", "failed"} :
            /\ pc' = [pc EXCEPT ![s] = place]
            /\ pending' = IF place = "failed" THEN pending \ {s} ELSE pending
  BY DEF UploadStep, MovesOn
<1>3. place \in Before /\ place # "new"
  BY DEF Before, Uploading
<1>4. UNCHANGED <<posted, echoVars, doubt, orphaned>>
  BY DEF UploadStep
<1> QED
  BY <1>1, <1>2, <1>3, <1>4, EchoMoves

LEMMA EchoRefused ==
    ASSUME Inv, NEW s \in Sends, Refused(s)
    PROVE  EchoInv'
<1>1. pc[s] \in OnItsWay \ {"post"} /\ UNCHANGED <<posted, echoVars, doubt, orphaned>>
  BY DEF Refused, OnItsWay
<1>2. {"post", "failed"} \subseteq Before /\ {"post", "failed"} \subseteq Places /\ TypeOK
  BY PlacesKnown DEF Before, Inv, FileTypeInv, TypeInv
<1>3. CASE Fail(s)
  BY <1>1, <1>2, <1>3, GoTyped, EchoMoves DEF Fail
<1>4. CASE Retry(s, "post") /\ UNCHANGED pending
  BY <1>1, <1>2, <1>4, RetryTyped, EchoMoves
<1> QED
  BY <1>3, <1>4 DEF Refused

LEMMA EchoStarts ==
    ASSUME Inv, NEW s \in Sends, Start(s)
    PROVE  EchoInv'
<1> USE DEF Inv, FileTypeInv, TypeInv
<1>1. /\ pc[s] = "new" /\ "new" \in Before
      /\ UNCHANGED <<posted, echoVars, doubt, orphaned>>
  BY DEF Start, Before
<1>2. Certain' = Certain
  BY <1>1 DEF Certain
<1>3. PICK place \in {"download", "post", "failed"} :
            /\ pc' = [pc EXCEPT ![s] = place]
            /\ pending' = IF place = "failed" THEN pending ELSE pending \cup {s}
  BY DEF Start, Go
<1>4. \A t \in Sends : pc'[t] = IF t = s THEN place ELSE pc[t]
  BY <1>3 DEF TypeOK
<1>5. PostedOnce' /\ OwnMessagesOnce'
  BY <1>1, <1>2 DEF EchoInv, PostedOnce, OwnMessagesOnce, echoVars
<1>6. EchoAwaited'
  BY <1>1, <1>2, <1>3 DEF EchoInv, EchoAwaited, echoVars
<1>7. NotThereYet'
  BY <1>1, <1>2, <1>4, CertainSends DEF EchoInv, NotThereYet
<1>8. EntryKept'
  BY <1>2, <1>3, <1>4 DEF EchoInv, EntryKept, OnItsWay, Uploading, Certain
<1> QED
  BY <1>5, <1>6, <1>7, <1>8 DEF EchoInv

(* The post: a message of which Teams has none yet is there once, and its   *)
(* entry waits for it.                                                      *)
LEMMA EchoPost ==
    ASSUME Inv, NEW s \in Sends, Post(s)
    PROVE  EchoInv'
<1> USE DEF Inv, FileTypeInv, TypeInv
<1>1. /\ pc[s] = "post" /\ "post" \in Before /\ "post" \in OnItsWay
      /\ UNCHANGED <<pending, echoVars, doubt, orphaned>>
  BY DEF Post, Before, OnItsWay
<1>2. Certain' = Certain
  BY <1>1 DEF Certain
<1>3. CASE pc' = [pc EXCEPT ![s] = "lost"] /\ UNCHANGED posted
  <2>1. \A t \in Sends : pc'[t] = IF t = s THEN "lost" ELSE pc[t]
    BY <1>3 DEF TypeOK
  <2>2. PostedOnce' /\ OwnMessagesOnce' /\ EchoAwaited'
    BY <1>1, <1>2, <1>3 DEF EchoInv, PostedOnce, OwnMessagesOnce, EchoAwaited, echoVars
  <2>3. NotThereYet'
    BY <1>1, <1>2, <1>3, <2>1 DEF EchoInv, NotThereYet
  <2>4. EntryKept'
    BY <1>1, <1>2, <2>1 DEF EchoInv, EntryKept, Certain
  <2> QED
    BY <2>2, <2>3, <2>4 DEF EchoInv
<1>4. CASE pc' = [pc EXCEPT ![s] = "landed"] /\ posted' \in Arrived(s)
  <2>1. posted \in Seq(Sends) /\ Len(posted) \in Nat /\ handled \in Nat /\ bridged \subseteq 1 .. Len(posted)
    BY DEF TypeOK
  <2>2. /\ \/ posted' = posted
           \/ /\ Len(posted') = Len(posted) + 1
              /\ \A i \in 1 .. Len(posted) : posted'[i] = posted[i]
              /\ posted'[Len(posted) + 1] = s
        /\ s \notin {posted[i] : i \in 1 .. Len(posted)} => posted' = Append(posted, s)
    BY <1>4, <2>1, ThreadGrows
  <2>3. s \in Certain => \A i \in 1 .. Len(posted) : posted[i] # s
    BY <1>1 DEF EchoInv, NotThereYet
  <2>4. \A t \in Sends : pc'[t] = IF t = s THEN "landed" ELSE pc[t]
    BY <1>4 DEF TypeOK
  <2>5. "landed" \notin Before
    BY DEF Before, Uploading
  <2>6. PostedOnce'
    <3> SUFFICES ASSUME NEW t \in Certain, NEW i \in 1 .. Len(posted'), NEW j \in 1 .. Len(posted'),
                        posted'[i] = t, posted'[j] = t
                 PROVE  i = j
      BY <1>2 DEF PostedOnce
    <3>1. CASE posted' = posted
      BY <3>1 DEF EchoInv, PostedOnce
    <3>2. CASE posted' # posted
      <4>1. \A k \in 1 .. Len(posted') : \/ k \in 1 .. Len(posted) /\ posted'[k] = posted[k]
                                         \/ k = Len(posted) + 1 /\ posted'[k] = s
        <5>1. /\ Len(posted') = Len(posted) + 1
              /\ \A k \in 1 .. Len(posted) : posted'[k] = posted[k]
              /\ posted'[Len(posted) + 1] = s
          BY <2>2, <3>2
        <5>2. \A k \in 1 .. Len(posted) + 1 : k \in 1 .. Len(posted) \/ k = Len(posted) + 1
          BY <2>1
        <5> QED
          BY <5>1, <5>2
      <4> QED
        BY <2>3, <4>1 DEF EchoInv, PostedOnce
    <3> QED
      BY <3>1, <3>2
  <2>7. EchoAwaited'
    <3> SUFFICES ASSUME NEW i \in 1 .. Len(posted'), handled < i, posted'[i] \in Certain
                 PROVE  posted'[i] \in pending
      BY <1>1, <1>2 DEF EchoAwaited, echoVars
    <3>1. (i \in 1 .. Len(posted) /\ posted'[i] = posted[i]) \/ posted'[i] = s
      BY <2>1, <2>2
    <3> QED
      BY <1>1, <3>1 DEF EchoInv, EchoAwaited, EntryKept
  <2>8. NotThereYet'
    <3> SUFFICES ASSUME NEW t \in Certain, pc'[t] \in Before, NEW i \in 1 .. Len(posted')
                 PROVE  posted'[i] # t
      BY <1>2 DEF NotThereYet
    <3>1. t # s /\ pc[t] \in Before
      BY <2>4, <2>5 DEF Certain
    <3>2. (i \in 1 .. Len(posted) /\ posted'[i] = posted[i]) \/ posted'[i] = s
      BY <2>1, <2>2
    <3> QED
      BY <3>1, <3>2 DEF EchoInv, NotThereYet
  <2>9. EntryKept'
    BY <1>1, <1>2, <2>4 DEF EchoInv, EntryKept, OnItsWay, Uploading, Certain
  <2>10. OwnMessagesOnce'
    BY <1>1, <2>1, <2>2 DEF EchoInv, OwnMessagesOnce, echoVars
  <2> QED
    BY <2>6, <2>7, <2>8, <2>9, <2>10 DEF EchoInv
<1> QED
  BY <1>3, <1>4 DEF Post

(* An answer: the send is done, or nobody knows what became of it. *)
LEMMA EchoAnswered ==
    ASSUME Inv, NEW s \in Sends, Sent(s) \/ Unanswered(s)
    PROVE  EchoInv'
<1> USE DEF Inv, FileTypeInv, TypeInv
<1>1. PICK place \in {"sent", "post", "failed"} : pc' = [pc EXCEPT ![s] = place]
  BY DEF Sent, Unanswered, Go, Retry, Fail
<1>2. /\ UNCHANGED <<posted, echoVars, orphaned>>
      /\ pending \ {s} \subseteq pending'
      /\ \/ place = "sent" /\ pending' = pending /\ doubt' = doubt
         \/ doubt' = doubt \cup {s}
  <2>1. CASE Sent(s)
    <3>1. pc'[s] = "sent"
      BY <2>1 DEF Sent, Go, TypeOK
    <3>2. pc'[s] = place
      BY <1>1 DEF TypeOK
    <3> QED
      BY <2>1, <3>1, <3>2 DEF Sent
  <2>2. CASE Unanswered(s)
    BY <2>2 DEF Unanswered, Fail
  <2> QED
    BY <2>1, <2>2
<1>3. Certain' \subseteq Certain /\ (s \in Certain' => place = "sent" /\ pending' = pending)
  BY <1>2 DEF Certain
<1>4. \A t \in Sends : pc'[t] = IF t = s THEN place ELSE pc[t]
  BY <1>1 DEF TypeOK
<1>5. "sent" \notin Before /\ "sent" \notin OnItsWay
  BY DEF Before, OnItsWay, Uploading
<1>6. PostedOnce'
  BY <1>2, <1>3 DEF EchoInv, PostedOnce
<1>7. EchoAwaited'
  BY <1>2, <1>3 DEF EchoInv, EchoAwaited, echoVars
<1>8. NotThereYet'
  BY <1>2, <1>3, <1>4, <1>5 DEF EchoInv, NotThereYet, Certain
<1>9. EntryKept'
  BY <1>2, <1>3, <1>4, <1>5 DEF EchoInv, EntryKept, Certain
<1>10. OwnMessagesOnce'
  BY <1>2 DEF EchoInv, OwnMessagesOnce, echoVars
<1> QED
  BY <1>6, <1>7, <1>8, <1>9, <1>10 DEF EchoInv

(* The echo of a send of which Teams has one message takes its entry, which *)
(* nothing else waits for.                                                  *)
LEMMA EchoHandled ==
    ASSUME Inv, HandleMessage
    PROVE  EchoInv'
<1> USE DEF Inv, FileTypeInv, TypeInv
<1> DEFINE i == handled + 1
           s == posted[i]
<1>1. i \in 1 .. Len(posted) /\ handled < i /\ handled \in Nat /\ s \in Sends
  BY DEF HandleMessage, TypeOK
<1>2. /\ UNCHANGED <<pc, posted, doubt, orphaned>> /\ handled' = i
      /\ \/ s \in pending /\ pending' = pending \ {s} /\ bridged' = bridged
         \/ s \notin pending /\ pending' = pending /\ bridged' = bridged \cup {i}
  BY DEF HandleMessage
<1>3. Certain' = Certain
  BY <1>2 DEF Certain
<1>4. PostedOnce' /\ NotThereYet'
  BY <1>2, <1>3 DEF EchoInv, PostedOnce, NotThereYet
<1>5. EchoAwaited'
  <2> SUFFICES ASSUME NEW j \in 1 .. Len(posted), i < j, posted[j] \in Certain
               PROVE  posted[j] \in pending'
    BY <1>2, <1>3 DEF EchoAwaited
  <2>1. posted[j] \in pending
    BY <1>1 DEF EchoInv, EchoAwaited
  <2>2. posted[j] # s
    BY <1>1 DEF EchoInv, PostedOnce
  <2> QED
    BY <1>2, <2>1, <2>2
<1>6. EntryKept'
  BY <1>1, <1>2, <1>3, PlacesKnown DEF EchoInv, EntryKept, NotThereYet
<1>7. OwnMessagesOnce'
  BY <1>1, <1>2 DEF EchoInv, OwnMessagesOnce, EchoAwaited, Certain
<1> QED
  BY <1>4, <1>5, <1>6, <1>7 DEF EchoInv

LEMMA EchoRest ==
    ASSUME Inv, Poll \/ Restart \/ UNCHANGED vars
    PROVE  EchoInv'
<1> USE DEF Inv, FileTypeInv, TypeInv
<1>1. CASE Poll \/ UNCHANGED vars
  <2>1. UNCHANGED <<pc, pending, posted, handled, bridged, doubt, orphaned>>
    BY <1>1 DEF Poll, vars, echoVars
  <2> QED
    BY <2>1 DEF EchoInv, PostedOnce, EchoAwaited, NotThereYet, EntryKept, OwnMessagesOnce, Certain
<1>2. CASE Restart
  <2>1. /\ UNCHANGED <<posted, handled, bridged, doubt>>
        /\ pending' = {} /\ orphaned' = orphaned \cup pending
        /\ \A s \in Sends : pc'[s] = IF pc[s] \in Running THEN "gone" ELSE pc[s]
    BY <1>2 DEF Restart
  <2>2. Certain' = Certain \ pending
    BY <2>1 DEF Certain
  <2>3. \A s \in Sends : /\ pc'[s] \notin OnItsWay
                         /\ pc'[s] \in Before => pc[s] \in Before
    BY <2>1 DEF OnItsWay, Before, Running, Uploading, Asked
  <2>4. PostedOnce' /\ NotThereYet' /\ EntryKept'
    BY <2>1, <2>2, <2>3 DEF EchoInv, PostedOnce, NotThereYet, EntryKept, Certain
  <2>5. EchoAwaited' /\ OwnMessagesOnce'
    BY <2>1, <2>2 DEF EchoInv, EchoAwaited, OwnMessagesOnce
  <2> QED
    BY <2>4, <2>5 DEF EchoInv
<1> QED
  BY <1>1, <1>2

LEMMA InvStep ==
    ASSUME Inv, [Next]_vars
    PROVE  Inv'
<1>1. FileTypeInv'
  BY FileTypeStep DEF Inv
<1>2. EchoInv'
  <2>1. ASSUME NEW s \in Sends, Start(s) \/ HandleMatrixMessage(s)
        PROVE  EchoInv'
    <3>1. CASE Upload(s)
      BY <3>1, UploadSteps, EchoUpload DEF Inv
    <3> QED
      BY <2>1, <3>1, EchoStarts, EchoPost, EchoRefused, EchoAnswered DEF HandleMatrixMessage
  <2> QED
    BY <2>1, EchoHandled, EchoRest DEF Next
<1> QED
  BY <1>1, <1>2 DEF Inv

(* What was sent from Matrix does not come back as a new event, in whatever *)
(* order Teams, the poller, the portal and the handler take their steps,    *)
(* unless some attempt had no answer or a restart lost the pending entry    *)
(* (HandleMatrixMessage, AddPendingToSave, HandleRemoteMessage).            *)
THEOREM NoEcho == Spec => []OwnMessagesOnce
<1>1. Init => Inv
  BY FileTypeStart, EchoStart DEF Inv
<1>2. Inv /\ [Next]_vars => Inv'
  BY InvStep
<1>3. Inv => OwnMessagesOnce
  BY DEF Inv, EchoInv
<1> QED
  BY <1>1, <1>2, <1>3, PTL DEF Spec

-----------------------------------------------------------------------------
(* What the sender is told                                                  *)
(*                                                                          *)
(* These are the states EverySendSettled passes through: a send that was    *)
(* answered has its receipt or is sure to meet its echo, and what the       *)
(* sender was told is so.                                                   *)

(* A send that Teams accepted has its receipt, or an entry that the portal  *)
(* is yet to meet the message of; a restart may have lost the entry.        *)
SentAwaited ==
    \A s \in Sends : pc[s] = "sent" =>
        \/ s \in confirmed \cup orphaned
        \/ s \in pending /\ \E i \in 1 .. Len(posted) : handled < i /\ posted[i] = s

(* A send with an error is not in the thread, unless some attempt had no    *)
(* answer; one with a receipt is.                                           *)
ToldTruly ==
    \A s \in Sends : /\ pc[s] = "failed" => s \notin OnTeams \/ s \in doubt
                     /\ s \in confirmed => s \in OnTeams

LandedThere == \A s \in Sends : pc[s] \in {"landed", "sent"} => s \in OnTeams
EntryFresh ==
    \A s \in pending : /\ pc[s] \in Running \cup {"sent"}
                       /\ \A i \in 1 .. handled : posted[i] # s
EntryOrReceipt ==
    \A s \in Sends : pc[s] \in Running \cup {"sent"} => s \in pending \cup confirmed \cup orphaned
UnsentAway == \A s \in Sends : pc[s] \in Before => s \notin OnTeams \/ s \in doubt
NewAway == \A s \in Sends : pc[s] = "new" => s \notin OnTeams
ReceiptsTrue == confirmed \subseteq OnTeams

SettleInv ==
    /\ FileTypeInv
    /\ LandedThere /\ EntryFresh /\ EntryOrReceipt /\ UnsentAway /\ NewAway /\ ReceiptsTrue

LEMMA SettleTold ==
    ASSUME SettleInv
    PROVE  SentAwaited /\ ToldTruly
<1>1. posted \in Seq(Sends) /\ Len(posted) \in Nat /\ handled \in Nat
  BY DEF SettleInv, FileTypeInv, TypeInv, TypeOK
<1>2. ASSUME NEW s \in Sends, pc[s] = "sent", s \notin confirmed \cup orphaned
      PROVE  s \in pending /\ \E i \in 1 .. Len(posted) : handled < i /\ posted[i] = s
  <2>1. s \in pending
    BY <1>2 DEF SettleInv, EntryOrReceipt
  <2>2. PICK i \in 1 .. Len(posted) : posted[i] = s
    BY <1>2 DEF SettleInv, LandedThere, OnTeams
  <2>3. ~(i \in 1 .. handled)
    BY <2>1, <2>2 DEF SettleInv, EntryFresh
  <2> QED
    BY <1>1, <2>1, <2>2, <2>3
<1>3. SentAwaited
  BY <1>2 DEF SentAwaited
<1>4. ToldTruly
  BY DEF SettleInv, UnsentAway, ReceiptsTrue, ToldTruly, Before
<1> QED
  BY <1>3, <1>4

(* A step of a handler that posts nothing. *)
LEMMA SettleMoves ==
    ASSUME SettleInv, NEW s \in Sends, NEW place \in Uploading \cup {"post", "sent", "failed"},
           pc[s] \in Running \cup {"new"},
           pc' = [pc EXCEPT ![s] = place],
           UNCHANGED <<posted, echoVars, orphaned>>, doubt \subseteq doubt',
           place = "sent" => pc[s] = "landed",
           place # "sent" => pc[s] \in Before \/ s \in doubt',
           pending' = IF place = "failed" THEN pending \ {s}
                      ELSE IF pc[s] = "new" THEN pending \cup {s} ELSE pending,
           FileTypeInv'
    PROVE  SettleInv'
<1>1. \A t \in Sends : pc'[t] = IF t = s THEN place ELSE pc[t]
  BY DEF SettleInv, FileTypeInv, TypeInv, TypeOK
<1>2. OnTeams' = OnTeams
  BY DEF OnTeams
<1>3. place \in Running \cup {"sent", "failed"} /\ place \notin {"new", "landed"}
  BY DEF Running, Asked, Uploading
<1>4. LandedThere'
  BY <1>1, <1>2, <1>3 DEF SettleInv, LandedThere
<1>5. EntryFresh'
  <2> SUFFICES ASSUME NEW t \in pending'
               PROVE  /\ pc'[t] \in Running \cup {"sent"}
                      /\ \A i \in 1 .. handled : posted[i] # t
    BY DEF EntryFresh, echoVars
  <2>1. CASE t = s
    <3>1. place # "failed"
      BY <2>1
    <3>2. s \in pending \/ pc[s] = "new"
      BY <2>1
    <3>3. \A i \in 1 .. handled : posted[i] # s
      <4>1. 1 .. handled \subseteq 1 .. Len(posted)
        BY DEF SettleInv, FileTypeInv, TypeInv, TypeOK
      <4> QED
        BY <3>2, <4>1 DEF SettleInv, EntryFresh, NewAway, OnTeams
    <3> QED
      BY <1>1, <1>3, <2>1, <3>1, <3>3
  <2>2. CASE t # s
    <3>1. t \in pending /\ t \in Sends
      BY <2>2 DEF SettleInv, FileTypeInv, TypeInv, TypeOK
    <3> QED
      BY <1>1, <2>2, <3>1 DEF SettleInv, EntryFresh
  <2> QED
    BY <2>1, <2>2
<1>6. EntryOrReceipt'
  <2>1. place # "failed" => s \in pending' \cup confirmed \cup orphaned
    BY DEF SettleInv, EntryOrReceipt
  <2>2. "failed" \notin Running \cup {"sent"}
    BY DEF Running, Asked, Uploading
  <2> QED
    BY <1>1, <2>1, <2>2 DEF SettleInv, EntryOrReceipt, echoVars
<1>7. UnsentAway'
  <2>1. "sent" \notin Before
    BY DEF Before, Uploading
  <2> QED
    BY <1>1, <1>2, <2>1 DEF SettleInv, UnsentAway
<1>8. NewAway' /\ ReceiptsTrue'
  BY <1>1, <1>2, <1>3 DEF SettleInv, NewAway, ReceiptsTrue, echoVars
<1> QED
  BY <1>4, <1>5, <1>6, <1>7, <1>8 DEF SettleInv

LEMMA SettleHandler ==
    ASSUME SettleInv, NEW s \in Sends, FileTypeInv',
           Start(s) \/ UploadStep(s) \/ Sent(s) \/ Refused(s) \/ Unanswered(s)
    PROVE  SettleInv'
<1>1. TypeOK
  BY DEF SettleInv, FileTypeInv, TypeInv
<1>2. {"post", "sent", "failed", "download"} \subseteq Places
  BY PlacesKnown
<1>3. CASE Start(s)
  <2>1. PICK place \in {"download", "post", "failed"} :
              /\ pc' = [pc EXCEPT ![s] = place]
              /\ pending' = IF place = "failed" THEN pending ELSE pending \cup {s}
    BY <1>3 DEF Start, Go
  <2>2. /\ pc[s] = "new" /\ "new" \in Before /\ "new" \notin Running \cup {"sent"}
        /\ UNCHANGED <<posted, echoVars, doubt, orphaned>>
    BY <1>3 DEF Start, Before, Running, Asked, Uploading
  <2>3. pending \ {s} = pending
    BY <2>2 DEF SettleInv, EntryFresh
  <2> QED
    BY <2>1, <2>2, <2>3, SettleMoves DEF Uploading
<1>4. CASE UploadStep(s)
  <2>1. PICK place \in Uploading \cup {"post", "failed"} :
              /\ pc' = [pc EXCEPT ![s] = place]
              /\ pending' = IF place = "failed" THEN pending \ {s} ELSE pending
    BY <1>4 DEF UploadStep, MovesOn
  <2>2. /\ pc[s] \in Uploading /\ pc[s] \in Before /\ pc[s] \in Running /\ pc[s] # "new" /\ place # "sent"
        /\ UNCHANGED <<posted, echoVars, doubt, orphaned>>
    BY <1>4, <2>1 DEF UploadStep, Before, Running, Uploading
  <2> QED
    BY <2>1, <2>2, SettleMoves
<1>5. CASE Sent(s)
  <2>1. pc' = [pc EXCEPT ![s] = "sent"] /\ pc[s] = "landed" /\ pc[s] \in Running
        /\ UNCHANGED <<pending, posted, echoVars, doubt, orphaned>>
    BY <1>5 DEF Sent, Go, Running, Asked
  <2> QED
    BY <2>1, SettleMoves
<1>6. CASE Refused(s) \/ Unanswered(s)
  <2>1. /\ pc[s] \in Asked /\ doubt \subseteq doubt'
        /\ pc[s] = "lost" \/ s \in doubt'
        /\ Fail(s) \/ (Retry(s, "post") /\ UNCHANGED pending)
        /\ UNCHANGED <<posted, echoVars, orphaned>>
    BY <1>6 DEF Refused, Unanswered, Asked
  <2>2. PICK place \in {"post", "failed"} :
              /\ pc' = [pc EXCEPT ![s] = place]
              /\ pending' = IF place = "failed" THEN pending \ {s} ELSE pending
    BY <1>1, <1>2, <2>1, GoTyped, RetryTyped DEF Fail
  <2>3. pc[s] \in Running /\ pc[s] # "new" /\ (pc[s] = "lost" => pc[s] \in Before)
    BY <2>1 DEF Running, Asked, Before
  <2> QED
    BY <2>1, <2>2, <2>3, SettleMoves
<1> QED
  BY <1>3, <1>4, <1>5, <1>6

LEMMA SettlePost ==
    ASSUME SettleInv, NEW s \in Sends, FileTypeInv', Post(s)
    PROVE  SettleInv'
<1>1. /\ pc[s] = "post" /\ UNCHANGED <<pending, echoVars, doubt, orphaned>>
      /\ pc[s] \in Running /\ pc[s] \in Before
  BY DEF Post, Running, Before
<1>2. posted \in Seq(Sends) /\ Len(posted) \in Nat /\ handled \in 0 .. Len(posted)
  BY DEF SettleInv, FileTypeInv, TypeInv, TypeOK
<1>3. PICK place \in {"landed", "lost"} :
            /\ pc' = [pc EXCEPT ![s] = place]
            /\ place = "landed" => posted' \in Arrived(s)
            /\ place = "lost" => posted' = posted
  BY DEF Post
<1>4. \A t \in Sends : pc'[t] = IF t = s THEN place ELSE pc[t]
  BY <1>3 DEF SettleInv, FileTypeInv, TypeInv, TypeOK
<1>5. \/ posted' = posted
      \/ /\ place = "landed"
         /\ Len(posted') = Len(posted) + 1
         /\ \A i \in 1 .. Len(posted) : posted'[i] = posted[i]
         /\ posted'[Len(posted) + 1] = s
  BY <1>2, <1>3, ThreadGrows
<1>6. /\ OnTeams \subseteq OnTeams' /\ OnTeams' \subseteq OnTeams \cup {s}
      /\ place = "landed" => s \in OnTeams'
      /\ place = "lost" => OnTeams' = OnTeams
      /\ \A i \in 1 .. handled : posted'[i] = posted[i]
  <2>1. place = "lost" => OnTeams' = OnTeams
    BY <1>3 DEF OnTeams
  <2>2. CASE posted' = posted
    <3>1. place = "landed" => s \in OnTeams
      <4> SUFFICES ASSUME place = "landed", s \notin OnTeams
                   PROVE  FALSE
        OBVIOUS
      <4>1. posted' = Append(posted, s)
        BY <1>2, <1>3, ThreadGrows DEF OnTeams
      <4>2. Len(posted') = Len(posted) + 1
        BY <1>2, <4>1
      <4> QED
        BY <1>2, <2>2, <4>2
    <3> QED
      BY <2>1, <2>2, <3>1 DEF OnTeams
  <2>3. CASE posted' # posted
    <3>1. /\ place = "landed"
          /\ Len(posted') = Len(posted) + 1
          /\ \A i \in 1 .. Len(posted) : posted'[i] = posted[i]
          /\ posted'[Len(posted) + 1] = s
      BY <1>5, <2>3
    <3>2. 1 .. Len(posted') = (1 .. Len(posted)) \cup {Len(posted) + 1}
      BY <1>2, <3>1
    <3>3. 1 .. handled \subseteq 1 .. Len(posted)
      BY <1>2
    <3> QED
      BY <3>1, <3>2, <3>3 DEF OnTeams
  <2> QED
    BY <2>2, <2>3
<1>7. place \in Running /\ place \notin {"new", "sent"} /\ (place = "landed" => place \notin Before)
  BY DEF Running, Asked, Before, Uploading
<1>8. LandedThere'
  BY <1>4, <1>6, <1>7 DEF SettleInv, LandedThere
<1>9. EntryFresh'
  BY <1>1, <1>4, <1>6, <1>7 DEF SettleInv, EntryFresh, echoVars, FileTypeInv, TypeInv, TypeOK
<1>10. EntryOrReceipt'
  BY <1>1, <1>4 DEF SettleInv, EntryOrReceipt, echoVars
<1>11. UnsentAway'
  BY <1>1, <1>4, <1>6, <1>7 DEF SettleInv, UnsentAway
<1>12. NewAway' /\ ReceiptsTrue'
  BY <1>1, <1>4, <1>6, <1>7 DEF SettleInv, NewAway, ReceiptsTrue, echoVars
<1> QED
  BY <1>8, <1>9, <1>10, <1>11, <1>12 DEF SettleInv

LEMMA SettleRest ==
    ASSUME SettleInv, FileTypeInv', Poll \/ HandleMessage \/ Restart \/ UNCHANGED vars
    PROVE  SettleInv'
<1>1. CASE Poll \/ UNCHANGED vars
  <2>1. UNCHANGED <<pc, pending, posted, handled, confirmed, doubt, orphaned>>
    BY <1>1 DEF Poll, vars, echoVars
  <2> QED
    BY <2>1 DEF SettleInv, LandedThere, EntryFresh, EntryOrReceipt, UnsentAway, NewAway, ReceiptsTrue, OnTeams
<1>2. CASE HandleMessage
  <2> DEFINE i == handled + 1
             s == posted[i]
  <2>1. /\ i \in 1 .. Len(posted) /\ handled \in Nat /\ s \in Sends
        /\ UNCHANGED <<pc, posted, doubt, orphaned>> /\ handled' = i
        /\ \/ s \in pending /\ pending' = pending \ {s} /\ confirmed' = confirmed \cup {s}
           \/ s \notin pending /\ UNCHANGED <<pending, confirmed>>
    <3>1. posted \in Seq(Sends) /\ polled \in 0 .. Len(posted) /\ handled \in 0 .. polled
      BY DEF SettleInv, FileTypeInv, TypeInv, TypeOK
    <3>2. i \in 1 .. Len(posted) /\ handled' = i /\ UNCHANGED <<pc, posted, doubt, orphaned>>
      BY <1>2, <3>1 DEF HandleMessage
    <3>3. s \in Sends
      BY <3>1, <3>2
    <3>4. \/ s \in pending /\ pending' = pending \ {s} /\ confirmed' = confirmed \cup {s}
          \/ s \notin pending /\ UNCHANGED <<pending, confirmed>>
      BY <1>2 DEF HandleMessage
    <3> QED
      BY <3>1, <3>2, <3>3, <3>4
  <2>2. OnTeams' = OnTeams /\ s \in OnTeams
    BY <2>1 DEF OnTeams
  <2>3. LandedThere' /\ UnsentAway' /\ NewAway' /\ ReceiptsTrue' /\ EntryOrReceipt'
    BY <2>1, <2>2 DEF SettleInv, LandedThere, UnsentAway, NewAway, ReceiptsTrue, EntryOrReceipt
  <2>4. EntryFresh'
    <3> SUFFICES ASSUME NEW t \in pending', NEW j \in 1 .. i
                 PROVE  pc[t] \in Running \cup {"sent"} /\ posted[j] # t
      BY <2>1 DEF EntryFresh
    <3>1. t \in pending /\ t # s
      BY <2>1
    <3>2. j \in 1 .. handled \/ j = i
      BY <2>1
    <3> QED
      BY <3>1, <3>2 DEF SettleInv, EntryFresh
  <2> QED
    BY <2>3, <2>4 DEF SettleInv
<1>3. CASE Restart
  <2>1. /\ UNCHANGED <<posted, handled, confirmed, doubt>>
        /\ pending' = {} /\ orphaned' = orphaned \cup pending
        /\ \A s \in Sends : pc'[s] = IF pc[s] \in Running THEN "gone" ELSE pc[s]
    BY <1>3 DEF Restart
  <2>2. "gone" \notin Running \cup {"landed", "sent", "new"} \cup Before
    BY DEF Running, Asked, Before, Uploading
  <2>3. OnTeams' = OnTeams
    BY <2>1 DEF OnTeams
  <2>4. LandedThere' /\ EntryFresh' /\ UnsentAway' /\ NewAway' /\ ReceiptsTrue'
    BY <2>1, <2>2, <2>3 DEF SettleInv, LandedThere, EntryFresh, UnsentAway, NewAway, ReceiptsTrue
  <2>5. EntryOrReceipt'
    BY <2>1, <2>2 DEF SettleInv, EntryOrReceipt
  <2> QED
    BY <2>4, <2>5 DEF SettleInv
<1> QED
  BY <1>1, <1>2, <1>3

LEMMA SettleStep ==
    ASSUME SettleInv, [Next]_vars
    PROVE  SettleInv'
<1>1. FileTypeInv'
  BY FileTypeStep DEF SettleInv
<1>2. ASSUME NEW s \in Sends, Start(s) \/ HandleMatrixMessage(s)
      PROVE  SettleInv'
  <2>1. Upload(s) => UploadStep(s)
    BY UploadSteps DEF SettleInv
  <2> QED
    BY <1>1, <1>2, <2>1, SettleHandler, SettlePost DEF HandleMatrixMessage
<1> QED
  BY <1>1, <1>2, SettleRest DEF Next

LEMMA SettleStart ==
    ASSUME Init
    PROVE  SettleInv
<1>1. FileTypeInv
  BY FileTypeStart
<1>2. posted = <<>> /\ Len(posted) = 0 /\ 1 .. Len(posted) = {}
  BY DEF Init
<1>3. OnTeams = {} /\ pending = {} /\ confirmed = {} /\ \A s \in Sends : pc[s] = "new"
  BY <1>2 DEF Init, OnTeams
<1> QED
  BY <1>1, <1>3 DEF SettleInv, LandedThere, EntryFresh, EntryOrReceipt, UnsentAway, NewAway, ReceiptsTrue,
                    Running, Asked, Uploading

LEMMA SettleInvariant == Spec => []SettleInv
<1>1. Init => SettleInv
  BY SettleStart
<1>2. SettleInv /\ [Next]_vars => SettleInv'
  BY SettleStep
<1> QED
  BY <1>1, <1>2, PTL DEF Spec

(* An answered send has its receipt or is sure to meet its echo, in         *)
(* whatever order the answer, the poll and the portal come, unless a        *)
(* restart lost its entry (HandleMatrixMessage, HandleRemoteMessage).       *)
THEOREM AnswerLeadsToReceipt == Spec => []SentAwaited
<1>1. SettleInv => SentAwaited
  BY SettleTold
<1> QED
  BY <1>1, SettleInvariant, PTL

(* No error is shown for a message that is in the thread, unless some       *)
(* attempt had no answer, and no receipt for one that is not                *)
(* (HandleMatrixMessage, postRichTextMessage).                              *)
THEOREM SenderToldTruly == Spec => []ToldTruly
<1>1. SettleInv => ToldTruly
  BY SettleTold
<1> QED
  BY <1>1, SettleInvariant, PTL

=============================================================================
