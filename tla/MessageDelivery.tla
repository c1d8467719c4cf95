--------------------------- MODULE MessageDelivery ---------------------------
(***************************************************************************)
(* What polling a Teams thread promises, without tokens, pages or queues:  *)
(* the messages of one thread are numbered 1, 2, ... as they are posted,   *)
(* each is settled at some time (bridged, or knowingly not bridged), and   *)
(* the checkpoint that survives a restart only ever covers settled         *)
(* messages, so that a restart can never lose one.                         *)
(***************************************************************************)
EXTENDS Integers

VARIABLES
    posted,     \* number of messages posted to the thread
    settled,    \* messages the bridge is done with
    checkpoint  \* the position polling resumes from after a restart

vars == <<posted, settled, checkpoint>>

Init == posted = 0 /\ settled = {} /\ checkpoint = 0

\* A message is posted to the thread.
Post == posted' = posted + 1 /\ UNCHANGED <<settled, checkpoint>>

\* Some posted messages are settled, and the checkpoint may be put anywhere
\* the settled messages reach without a gap.
Settle ==
    /\ settled \subseteq settled'
    /\ settled' \subseteq 1 .. posted
    /\ \/ checkpoint' = checkpoint
       \/ checkpoint' \in 0 .. posted /\ 1 .. checkpoint' \subseteq settled'
    /\ UNCHANGED posted

Next == Post \/ Settle

Spec == Init /\ [][Next]_vars

\* The checkpoint covers settled messages only: a restart loses nothing.
NothingLost == 1 .. checkpoint \subseteq settled
=============================================================================
