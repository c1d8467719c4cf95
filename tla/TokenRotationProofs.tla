------------------------- MODULE TokenRotationProofs -------------------------
(***************************************************************************)
(* Theorems about TokenRotation, for any number of re-logins, tokens and   *)
(* restarts: its state is well typed and the login's client always has a   *)
(* refresh token; a client that was replaced does not save over the new    *)
(* login; and the saved token is one the identity provider accepts, but    *)
(* for the cases the property names.                                       *)
(***************************************************************************)
EXTENDS TokenRotation, TLAPS

(* Where a sign-in has a refresh token, and where a client's refresh has    *)
(* not changed the one it keeps.                                            *)
SignedIn == {"skype", "graph", "exchange", "built"}
Unchanged == {"idle", "exchange"} \cup Kinds

FamilyKnown == \A t \in 1 .. issued : family[t] \in Clients

(* A token that is the newest of the login x, or the login is known lost. *)
Newest(t, x) == /\ t \in 1 .. issued
                /\ family[t] = x
                /\ t \in valid \/ x \in lost

(* Only a flow out of the browser's storage refreshes for Skype. *)
SignInInv ==
    /\ signin.at = "skype" => signin.flow = "storage"
    /\ signin.at # "none" => arriving = None
    /\ signin.at # "none" \/ arriving # None => current < MaxLogins
    /\ signin.at \in SignedIn => Newest(signin.token, Following)
    /\ arriving # None => Newest(arriving, Following)

(* A client refreshes with a token of its own login; only the login's       *)
(* client is saving, unless a save ended too late once.                     *)
ClientInv ==
    \A c \in Clients :
        /\ memory[c] # None => memory[c] \in 1 .. issued /\ family[memory[c]] = c
        /\ refresh[c] # "idle" => memory[c] # None /\ c <= current
        /\ refresh[c] = "saving" => saving[c] = memory[c]
        /\ refresh[c] = "saving" => torn \/ c = current

(* What is saved is the login's, and the token in memory unless that is     *)
(* about to be saved or could not be.                                       *)
DbInv ==
    /\ memory[current] \in valid \/ current \in lost
    /\ torn \/ family[db] = current \/ (arriving # None /\ db = arriving)
    /\ \/ torn \/ current \in unsaved \/ refresh[current] \notin Unchanged
       \/ db = memory[current] \/ (arriving # None /\ db = arriving)

Inv == TypeOK /\ FamilyKnown /\ SignInInv /\ ClientInv /\ DbInv

-----------------------------------------------------------------------------
(* The identity provider *)

(* Tokens are added, and of those it accepted all but t are accepted still. *)
Grows(t) ==
    /\ issued' \in Tokens /\ issued <= issued'
    /\ family' \in [Tokens -> {None} \cup Clients]
    /\ \A x \in 1 .. issued : family'[x] = family[x]
    /\ \A x \in 1 .. issued' : family'[x] \in Clients
    /\ valid' \subseteq 1 .. issued'
    /\ valid \ {t} \subseteq valid'

LEMMA Sizes ==
    /\ MaxLogins \in Nat \ {0} /\ MaxTokens \in Nat \ {0} /\ MaxRestarts \in Nat
    /\ None \notin Tokens /\ None \notin Clients
    /\ \A i \in Tokens : 1 .. i \subseteq Tokens
BY RotationAssumption DEF None, Tokens, Clients

LEMMA ProviderTyped ==
    ASSUME TypeOK
    PROVE  /\ issued \in Tokens /\ issued \in Nat /\ current \in Nat /\ current \in 1 .. MaxLogins
           /\ family \in [Tokens -> {None} \cup Clients]
           /\ valid \subseteq 1 .. issued /\ db \in 1 .. issued
           /\ 1 .. issued \subseteq Tokens
<1>1. /\ issued \in Tokens /\ current \in Clients
      /\ family \in [Tokens -> {None} \cup Clients]
      /\ valid \subseteq 1 .. issued /\ db \in 1 .. issued
  BY DEF TypeOK
<1> QED
  BY <1>1, Sizes DEF Tokens, Clients

LEMMA RotatesGrows ==
    ASSUME TypeOK, FamilyKnown, NEW t, NEW u \in Tokens, Rotates(t, u)
    PROVE  /\ Grows(t) /\ t \in valid
           /\ u \in 1 .. issued' /\ family'[u] = family[t] /\ u \in valid'
<1>1. t \in valid /\ t \in 1 .. issued /\ issued \in Nat /\ valid \subseteq 1 .. issued
  BY ProviderTyped DEF Rotates
<1>2. CASE u = t /\ UNCHANGED provider
  BY <1>1, <1>2, ProviderTyped DEF Grows, provider, FamilyKnown
<1>3. CASE /\ u = issued + 1 /\ issued' = u
           /\ family' = [family EXCEPT ![u] = family[t]]
           /\ valid' \in {valid \cup {u}, (valid \ {t}) \cup {u}}
  <2>1. family[t] \in Clients /\ family' \in [Tokens -> {None} \cup Clients] /\ family'[u] = family[t]
    BY <1>1, <1>3, ProviderTyped DEF FamilyKnown
  <2>2. \A x \in 1 .. issued : x \in Tokens /\ x # u /\ family'[x] = family[x]
    BY <1>1, <1>3, ProviderTyped
  <2>3. \A x \in 1 .. issued' : x = u \/ x \in 1 .. issued
    BY <1>1, <1>3
  <2>4. \A x \in 1 .. issued' : family'[x] \in Clients
    BY <2>1, <2>2, <2>3 DEF FamilyKnown
  <2>5. valid' \subseteq 1 .. issued' /\ valid \ {t} \subseteq valid' /\ u \in valid'
    BY <1>1, <1>3
  <2> QED
    BY <1>1, <1>3, <2>1, <2>2, <2>4, <2>5 DEF Grows
<1> QED
  BY <1>2, <1>3 DEF Rotates

LEMMA GrantedGrows ==
    ASSUME TypeOK, FamilyKnown, current < MaxLogins, NEW flow \in Flows, NEW at, Granted(flow, at)
    PROVE  /\ Grows(None) /\ issued' \in valid' /\ family'[issued'] = Following
           /\ signin' = [flow |-> flow, at |-> at, token |-> issued']
           /\ lost' = lost \ {Following} /\ Following \in Clients
<1>1. Following \in Clients /\ issued \in Nat /\ issued + 1 \in Tokens /\ issued' = issued + 1
  BY ProviderTyped, Sizes DEF Granted, Clients, Tokens, Following
<1>2. family' = [family EXCEPT ![issued + 1] = Following] /\ valid' = valid \cup {issued + 1}
  BY DEF Granted
<1>3. family' \in [Tokens -> {None} \cup Clients] /\ family'[issued'] = Following
  BY <1>1, <1>2, ProviderTyped
<1>4. \A x \in 1 .. issued : x \in Tokens /\ x # issued + 1 /\ family'[x] = family[x]
  BY <1>1, <1>2, ProviderTyped
<1>5. \A x \in 1 .. issued' : x = issued' \/ x \in 1 .. issued
  BY <1>1
<1>6. \A x \in 1 .. issued' : family'[x] \in Clients
  BY <1>1, <1>3, <1>4, <1>5 DEF FamilyKnown
<1>7. valid' \subseteq 1 .. issued' /\ valid \subseteq valid'
  BY <1>1, <1>2, ProviderTyped
<1> QED
  BY <1>1, <1>2, <1>3, <1>4, <1>6, <1>7 DEF Grows, Granted

(* What a provider step leaves of the other parts. *)
LEMMA GrowsKeeps ==
    ASSUME TypeOK, NEW t, Grows(t), NEW x \in Tokens, NEW login,
           Newest(x, login), x # t, login \in lost => login \in lost'
    PROVE  Newest(x, login)'
<1>1. issued \in Nat /\ issued' \in Nat /\ x \in 1 .. issued'
  BY ProviderTyped, Sizes DEF Grows, Newest, Tokens
<1> QED
  BY <1>1 DEF Grows, Newest

-----------------------------------------------------------------------------
(* The types, in parts *)

SignInTypes ==
    /\ arriving \in {None} \cup Tokens
    /\ signin \in [flow : Flows, at : {"none", "code", "poll", "skype", "graph", "exchange", "built"},
                   token : {None} \cup Tokens]
Places == Kinds \cup {"idle", "exchange", "rotated exchange", "save", "saving"}
ClientTypes ==
    /\ refresh \in [Clients -> Places]
    /\ memory \in [Clients -> {None} \cup Tokens]
    /\ memory[current] # None
    /\ saving \in [Clients -> {None} \cup Tokens]
ProviderTypes ==
    /\ current \in Clients
    /\ issued \in Tokens
    /\ family \in [Tokens -> {None} \cup Clients]
    /\ valid \subseteq 1 .. issued
    /\ db \in 1 .. issued
HistoryTypes ==
    /\ restarts \in 0 .. MaxRestarts
    /\ unsaved \subseteq Clients
    /\ lost \subseteq Clients
    /\ torn \in BOOLEAN

LEMMA TypeParts ==
    /\ TypeOK <=> SignInTypes /\ ClientTypes /\ ProviderTypes /\ HistoryTypes
    /\ TypeOK' <=> SignInTypes' /\ ClientTypes' /\ ProviderTypes' /\ HistoryTypes'
<1>1. TypeOK <=> SignInTypes /\ ClientTypes /\ ProviderTypes /\ HistoryTypes
  BY Zenon DEF TypeOK, SignInTypes, ClientTypes, ProviderTypes, HistoryTypes, Places
<1>2. TypeOK' <=> SignInTypes' /\ ClientTypes' /\ ProviderTypes' /\ HistoryTypes'
  BY Zenon DEF TypeOK, SignInTypes, ClientTypes, ProviderTypes, HistoryTypes, Places
<1> QED
  BY <1>1, <1>2

(* The next login is no client of the bridge's yet. *)
LEMMA FollowingKnown ==
    ASSUME TypeOK
    PROVE  /\ current \in Clients /\ current \in Nat /\ Following = current + 1 /\ Following # current
           /\ current < MaxLogins => Following \in Clients
           /\ \A c \in Clients : c \in Nat /\ (c <= current => c # Following)
BY ProviderTyped, Sizes DEF Clients, Following

LEMMA InvStart ==
    ASSUME Init
    PROVE  Inv
<1>1. 1 \in Clients /\ 1 \in Tokens /\ None \notin Tokens /\ 1 \in 1 .. 1 /\ 1 # None
  BY Sizes DEF Clients, Tokens, None
<1>2. SignInTypes
  BY <1>1 DEF Init, SignInTypes, NoSignIn, Flows
<1>3. ClientTypes
  BY <1>1 DEF Init, ClientTypes, Places, Kinds
<1>4. ProviderTypes
  BY <1>1 DEF Init, ProviderTypes
<1>5. HistoryTypes
  <2>1. restarts \in 0 .. MaxRestarts
    BY Sizes DEF Init
  <2> QED
    BY <2>1 DEF Init, HistoryTypes
<1>6. \A t \in 1 .. 1 : t = 1
  OBVIOUS
<1>7. FamilyKnown
  BY <1>1, <1>6 DEF Init, FamilyKnown
<1>8. SignInInv
  BY DEF Init, SignInInv, NoSignIn, SignedIn
<1>9. ClientInv
  BY <1>1 DEF Init, ClientInv, None
<1>10. DbInv
  BY <1>1 DEF Init, DbInv
<1> QED
  BY <1>2, <1>3, <1>4, <1>5, <1>7, <1>8, <1>9, <1>10, TypeParts DEF Inv

-----------------------------------------------------------------------------
(* Signing in *)

(* What a step of a sign-in before its login does. *)
SignInMoves(t) ==
    /\ Grows(t) /\ (t # None => Newest(t, Following))
    /\ UNCHANGED <<current, arriving, clientVars, db, restarts, unsaved, torn>>
    /\ arriving = None
    /\ SignInTypes'
    /\ signin'.at = "skype" => signin'.flow = "storage"
    /\ signin'.at # "none" => current < MaxLogins
    /\ signin'.at \in SignedIn => Newest(signin.token, Following)'
    /\ lost' \subseteq Clients /\ lost \ {Following} \subseteq lost'

LEMMA SignInMovesKeep ==
    ASSUME Inv, NEW t, SignInMoves(t)
    PROVE  Inv'
<1> USE DEF Inv
<1>1. SignInTypes /\ ClientTypes /\ ProviderTypes /\ HistoryTypes
  BY TypeParts
<1>2. /\ issued \in Nat /\ issued' \in Nat /\ issued <= issued'
      /\ UNCHANGED <<current, arriving, refresh, memory, saving, db, restarts, unsaved, torn>>
      /\ \A x \in 1 .. issued : x \in 1 .. issued' /\ family'[x] = family[x]
  BY ProviderTyped, Sizes DEF SignInMoves, Grows, clientVars, Tokens
<1>3. SignInTypes'
  BY DEF SignInMoves
<1>4. ClientTypes'
  BY <1>1, <1>2 DEF ClientTypes
<1>5. ProviderTypes'
  BY <1>1, <1>2 DEF ProviderTypes, SignInMoves, Grows
<1>6. HistoryTypes'
  BY <1>1, <1>2 DEF HistoryTypes, SignInMoves
<1>7. FamilyKnown'
  BY DEF SignInMoves, Grows, FamilyKnown
<1>8. SignInInv'
  BY <1>2 DEF SignInMoves, SignInInv, Following
<1>9. ClientInv'
  BY <1>2 DEF ClientInv
<1>10. DbInv'
  <2>1. memory[current] \in 1 .. issued /\ family[memory[current]] = current
    BY <1>1, FollowingKnown DEF ClientInv, ClientTypes
  <2>2. memory[current] # t
    BY <2>1, FollowingKnown, Sizes DEF SignInMoves, Newest, None
  <2>3. memory'[current'] \in valid' \/ current' \in lost'
    BY <1>2, <2>2, FollowingKnown DEF DbInv, SignInMoves, Grows
  <2>4. family'[db'] = family[db]
    BY <1>1, <1>2 DEF ProviderTypes
  <2> QED
    BY <1>2, <2>3, <2>4 DEF DbInv
<1> QED
  BY <1>3, <1>4, <1>5, <1>6, <1>7, <1>8, <1>9, <1>10, TypeParts

(* A sign-in that stands still, or goes on with the token it has. *)
LEMMA SignInWaits ==
    ASSUME Inv, StartLogin \/ Wait \/ SignInExchange
    PROVE  SignInMoves(None)
<1> USE DEF Inv
<1>1. SignInTypes /\ ProviderTypes /\ HistoryTypes
  BY TypeParts
<1>2. /\ UNCHANGED <<current, arriving, provider, clientVars, db, restarts, history>>
      /\ arriving = None /\ current < MaxLogins
  BY DEF StartLogin, Wait, SignInExchange, SignInInv
<1>3. Grows(None)
  BY <1>1, <1>2, ProviderTyped DEF Grows, provider, FamilyKnown
<1>4. \/ signin'.at \notin SignedIn
      \/ signin'.token = signin.token /\ signin.at \in SignedIn
  BY <1>1 DEF StartLogin, Wait, SignInExchange, NoSignIn, SignedIn, SignInTypes, StepOn
<1>5. SignInTypes'
  BY <1>1, <1>2 DEF StartLogin, Wait, SignInExchange, NoSignIn, SignInTypes, StepOn, Flows,
                    BuildLoginMetadata, ExtractLoginMetadata
<1>6. signin'.at \in SignedIn => Newest(signin.token, Following)'
  BY <1>2, <1>4 DEF SignInInv, Newest, Following, provider, history
<1>7. signin'.at # "skype"
  BY <1>1 DEF StartLogin, Wait, SignInExchange, NoSignIn, SignInTypes, StepOn, Flows,
              BuildLoginMetadata, ExtractLoginMetadata
<1> QED
  BY <1>1, <1>2, <1>3, <1>5, <1>6, <1>7 DEF SignInMoves, HistoryTypes, history

LEMMA GrantedMoves ==
    ASSUME Inv, NEW flow \in Flows, NEW at \in SignedIn, Granted(flow, at),
           at = "skype" => flow = "storage", current < MaxLogins, arriving = None,
           UNCHANGED <<current, arriving, clientVars, db, restarts, unsaved, torn>>
    PROVE  SignInMoves(None)
<1> USE DEF Inv
<1>1. SignInTypes /\ ProviderTypes /\ HistoryTypes
  BY TypeParts
<1>2. /\ Grows(None) /\ issued' \in valid' /\ family'[issued'] = Following
      /\ signin' = [flow |-> flow, at |-> at, token |-> issued']
      /\ lost' = lost \ {Following}
  BY GrantedGrows
<1>3. issued' \in Tokens /\ issued' \in 1 .. issued'
  BY <1>2, Sizes DEF Grows, Tokens
<1>4. SignInTypes'
  BY <1>1, <1>2, <1>3 DEF SignInTypes, SignedIn
<1>5. Newest(signin.token, Following)'
  BY <1>2, <1>3 DEF Newest, Following
<1> QED
  BY <1>1, <1>2, <1>4, <1>5 DEF SignInMoves, HistoryTypes

(* The refresh of a sign-in: its token is replaced, or lost with its login. *)
LEMMA SignInRefreshMoves ==
    ASSUME Inv, SignInRefresh
    PROVE  \E t \in {None, signin.token} : SignInMoves(t)
<1> USE DEF Inv
<1> DEFINE t == signin.token
           failed == IF signin.at = "skype" THEN NoSignIn ELSE StepOn
<1>1. SignInTypes /\ ProviderTypes /\ HistoryTypes
  BY TypeParts
<1>2. /\ signin.at \in {"skype", "graph"} /\ arriving = None /\ current < MaxLogins
      /\ UNCHANGED <<current, arriving, clientVars, db, restarts, unsaved, torn>>
      /\ Newest(t, Following) /\ Following \in Clients /\ Following' = Following
  BY FollowingKnown DEF SignInRefresh, SignInInv, SignedIn, Following
<1>3. StepOn.token = t /\ StepOn.at \in SignedIn \ {"skype"}
  BY <1>1, <1>2 DEF SignInTypes, StepOn, Flows, SignedIn, BuildLoginMetadata, ExtractLoginMetadata, SignInInv
<1>4. /\ StepOn \in [flow : Flows, at : {"none", "code", "poll", "skype", "graph", "exchange", "built"},
                     token : {None} \cup Tokens]
      /\ NoSignIn \in [flow : Flows, at : {"none", "code", "poll", "skype", "graph", "exchange", "built"},
                       token : {None} \cup Tokens]
  BY <1>1, <1>2 DEF SignInTypes, StepOn, NoSignIn, Flows, BuildLoginMetadata, ExtractLoginMetadata, SignInInv
<1>5. ASSUME NEW u \in {None} \cup Tokens
      PROVE  [StepOn EXCEPT !.token = u] \in
               [flow : Flows, at : {"none", "code", "poll", "skype", "graph", "exchange", "built"},
                token : {None} \cup Tokens]
  BY <1>4
<1>6. failed.at # "skype" /\ (failed.at \in SignedIn => failed.token = t)
  BY <1>3 DEF NoSignIn, SignedIn
<1>7. CASE \E u \in Tokens : /\ Rotates(t, u)
                           /\ signin' = [StepOn EXCEPT !.token = u]
                           /\ UNCHANGED lost
  <2>1. PICK u \in Tokens : /\ Rotates(t, u)
                          /\ signin' = [StepOn EXCEPT !.token = u]
                          /\ UNCHANGED lost
    BY <1>7
  <2>2. Grows(t) /\ u \in 1 .. issued' /\ family'[u] = family[t] /\ u \in valid'
    BY <2>1, RotatesGrows
  <2>3. SignInTypes' /\ signin'.token = u /\ signin'.at # "skype"
    BY <1>1, <1>2, <1>3, <1>4, <1>5, <2>1 DEF SignInTypes
  <2>4. Newest(signin.token, Following)'
    BY <1>2, <2>2, <2>3 DEF Newest
  <2> QED
    BY <1>1, <1>2, <2>1, <2>2, <2>3, <2>4 DEF SignInMoves, HistoryTypes
<1>8. CASE \E u \in Tokens \ {t} : /\ Rotates(t, u)
                                /\ signin' = failed
                                /\ Loses(t, Following)
  <2>1. PICK u \in Tokens \ {t} : /\ Rotates(t, u)
                               /\ signin' = failed
                               /\ Loses(t, Following)
    BY <1>8
  <2>2. Grows(t) /\ t \in valid
    BY <2>1, RotatesGrows
  <2>3. t \in valid' \/ Following \in lost'
    BY <2>1 DEF Loses
  <2>4. lost' \subseteq Clients /\ lost \subseteq lost'
    BY <1>1, <1>2, <2>1 DEF Loses, HistoryTypes
  <2>5. SignInTypes'
    BY <1>1, <1>2, <1>4, <2>1 DEF SignInTypes
  <2>6. t \in 1 .. issued' /\ family'[t] = family[t]
    BY <1>2, <2>2, ProviderTyped, Sizes DEF Grows, Newest, Tokens
  <2>7. signin'.at \in SignedIn => Newest(signin.token, Following)'
    BY <1>2, <1>6, <2>1, <2>3, <2>6 DEF Newest
  <2> QED
    BY <1>1, <1>2, <1>6, <2>1, <2>2, <2>4, <2>5, <2>7 DEF SignInMoves
<1>9. CASE signin' = failed /\ UNCHANGED <<provider, lost>>
  <2>1. Grows(None)
    BY <1>1, <1>9, ProviderTyped DEF Grows, provider, FamilyKnown
  <2>2. SignInTypes'
    BY <1>1, <1>2, <1>4, <1>9 DEF SignInTypes
  <2>3. signin'.at \in SignedIn => Newest(signin.token, Following)'
    BY <1>2, <1>6, <1>9 DEF Newest, provider
  <2> QED
    BY <1>1, <1>2, <1>6, <1>9, <2>1, <2>2, <2>3 DEF SignInMoves, HistoryTypes
<1> QED
  BY <1>7, <1>8, <1>9 DEF SignInRefresh

LEMMA SignInKeeps ==
    ASSUME Inv, StartLogin \/ Wait \/ PollDeviceCode \/ SubmitStorage \/ SignInRefresh \/ SignInExchange
    PROVE  Inv'
<1> USE DEF Inv
<1>1. CASE StartLogin \/ Wait \/ SignInExchange
  BY <1>1, SignInWaits, SignInMovesKeep
<1>2. CASE SignInRefresh
  BY <1>2, SignInRefreshMoves, SignInMovesKeep
<1>3. CASE SubmitStorage
  <2>1. PICK at \in ExtractTokens : Granted("storage", at)
    BY <1>3 DEF SubmitStorage
  <2>2. at \in SignedIn /\ "storage" \in Flows
    BY DEF ExtractTokens, SignedIn, Flows
  <2>3. /\ current < MaxLogins /\ arriving = None
        /\ UNCHANGED <<current, arriving, clientVars, db, restarts, unsaved, torn>>
    BY <1>3 DEF SubmitStorage
  <2> QED
    BY <2>1, <2>2, <2>3, GrantedMoves, SignInMovesKeep
<1>4. CASE PollDeviceCode
  <2>1. /\ current < MaxLogins /\ arriving = None
        /\ UNCHANGED <<current, arriving, clientVars, db, restarts, unsaved, torn>>
    BY <1>4 DEF PollDeviceCode, SignInInv
  <2>2. CASE Granted("device", "exchange")
    <3>1. "exchange" \in SignedIn /\ "device" \in Flows
      BY DEF SignedIn, Flows
    <3> QED
      BY <2>1, <2>2, <3>1, GrantedMoves, SignInMovesKeep
  <2>3. CASE signin' = NoSignIn /\ UNCHANGED <<provider, lost>>
    <3>1. SignInTypes /\ ProviderTypes /\ HistoryTypes
      BY TypeParts
    <3>2. Grows(None)
      BY <2>3, <3>1, ProviderTyped DEF Grows, provider, FamilyKnown
    <3>3. SignInTypes'
      BY <2>1, <2>3, <3>1 DEF SignInTypes, NoSignIn, Flows
    <3>4. SignInMoves(None)
      BY <2>1, <2>3, <3>1, <3>2, <3>3 DEF SignInMoves, NoSignIn, SignedIn, HistoryTypes
    <3> QED
      BY <3>4, SignInMovesKeep
  <2> QED
    BY <1>4, <2>2, <2>3 DEF PollDeviceCode
<1> QED
  BY <1>1, <1>2, <1>3, <1>4

-----------------------------------------------------------------------------
(* The new login and its client *)

LEMMA NewLoginKeeps ==
    ASSUME Inv, NewLogin
    PROVE  Inv'
<1> USE DEF Inv
<1>1. SignInTypes /\ ClientTypes /\ ProviderTypes /\ HistoryTypes
  BY TypeParts
<1>2. /\ signin.at = "built" /\ signin' = NoSignIn /\ arriving = None
      /\ arriving' = signin.token /\ db' = signin.token
      /\ UNCHANGED <<current, issued, family, valid, refresh, memory, saving, restarts, unsaved, lost, torn>>
  BY DEF NewLogin, SignInInv, provider, clientVars, history
<1>3. Newest(signin.token, Following) /\ current < MaxLogins
  BY <1>2 DEF SignInInv, SignedIn
<1>4. signin.token \in 1 .. issued /\ signin.token \in Tokens /\ signin.token # None
  BY <1>1, <1>3, ProviderTyped, Sizes DEF Newest
<1>5. SignInTypes'
  BY <1>1, <1>2, <1>4 DEF SignInTypes, NoSignIn, Flows
<1>6. ClientTypes' /\ ProviderTypes' /\ HistoryTypes'
  BY <1>1, <1>2, <1>4 DEF ClientTypes, ProviderTypes, HistoryTypes
<1>7. FamilyKnown' /\ ClientInv'
  BY <1>2 DEF FamilyKnown, ClientInv
<1>8. SignInInv'
  BY <1>2, <1>3 DEF SignInInv, NoSignIn, SignedIn, Newest, Following
<1>9. DbInv'
  BY <1>2, <1>4 DEF DbInv
<1> QED
  BY <1>5, <1>6, <1>7, <1>8, <1>9, TypeParts

LEMMA LoadKeeps ==
    ASSUME Inv, LoadUserLogin
    PROVE  Inv'
<1> USE DEF Inv
<1>1. SignInTypes /\ ClientTypes /\ ProviderTypes /\ HistoryTypes
  BY TypeParts
<1>2. /\ arriving # None /\ arriving' = None /\ current' = Following
      /\ memory' = [memory EXCEPT ![Following] = arriving]
      /\ torn' = (torn \/ family[db] = current \/ refresh[current] = "saving")
      /\ UNCHANGED <<signin, issued, family, valid, refresh, saving, db, restarts, unsaved, lost>>
  BY DEF LoadUserLogin, provider
<1>3. /\ Newest(arriving, Following) /\ current < MaxLogins /\ signin.at = "none"
      /\ Following \in Clients /\ Following # current /\ Following = current + 1 /\ current \in Nat
  BY <1>2, FollowingKnown DEF SignInInv
<1>4. arriving \in 1 .. issued /\ arriving \in Tokens /\ family[arriving] = Following
  BY <1>3, ProviderTyped DEF Newest
<1>5. /\ memory'[Following] = arriving
      /\ \A c \in Clients \ {Following} : memory'[c] = memory[c]
      /\ memory' \in [Clients -> {None} \cup Tokens]
  BY <1>1, <1>2, <1>3, <1>4 DEF ClientTypes
<1>6. SignInTypes' /\ ClientTypes'
  BY <1>1, <1>2, <1>5 DEF SignInTypes, ClientTypes
<1>7. ProviderTypes' /\ HistoryTypes'
  BY <1>1, <1>2, <1>3 DEF ProviderTypes, HistoryTypes
<1>8. FamilyKnown'
  BY <1>2 DEF FamilyKnown
<1>9. SignInInv'
  BY <1>2, <1>3 DEF SignInInv, SignedIn
<1>10. \A c \in Clients : c = Following => refresh[c] = "idle"
  BY FollowingKnown DEF ClientInv
<1>11. ClientInv'
  <2> SUFFICES ASSUME NEW c \in Clients
               PROVE  /\ memory'[c] # None => memory'[c] \in 1 .. issued /\ family[memory'[c]] = c
                      /\ refresh[c] # "idle" => memory'[c] # None /\ c <= Following
                      /\ refresh[c] = "saving" => saving[c] = memory'[c]
                      /\ refresh[c] = "saving" => torn' \/ c = Following
    BY <1>2 DEF ClientInv
  <2>1. CASE c = Following
    BY <1>4, <1>5, <1>10, <2>1
  <2>2. CASE c # Following
    <3>1. c \in Nat /\ memory'[c] = memory[c]
      BY <1>5, <2>2, FollowingKnown
    <3>2. refresh[c] = "saving" => torn'
      BY <1>2 DEF ClientInv
    <3> QED
      BY <1>3, <3>1, <3>2 DEF ClientInv
  <2> QED
    BY <2>1, <2>2
<1>12. DbInv'
  <2>1. memory'[current'] = arriving /\ (arriving \in valid' \/ current' \in lost')
    BY <1>2, <1>3, <1>5 DEF Newest
  <2>2. torn' \/ db = arriving
    BY <1>2 DEF DbInv
  <2> QED
    BY <1>2, <1>4, <2>1, <2>2 DEF DbInv
<1> QED
  BY <1>6, <1>7, <1>8, <1>9, <1>11, <1>12, TypeParts

LEMMA RestartKeeps ==
    ASSUME Inv, Restart
    PROVE  Inv'
<1> USE DEF Inv
<1>1. SignInTypes /\ ClientTypes /\ ProviderTypes /\ HistoryTypes
  BY TypeParts
<1>2. /\ restarts < MaxRestarts /\ restarts' = restarts + 1
      /\ current' = family[db] /\ arriving' = None /\ signin' = NoSignIn
      /\ refresh' = [x \in Clients |-> "idle"]
      /\ saving' = [x \in Clients |-> None]
      /\ memory' = [x \in Clients |-> IF x = family[db] THEN db ELSE None]
      /\ unsaved' = {}
      /\ lost' = IF db \in valid THEN lost ELSE lost \cup {family[db]}
      /\ UNCHANGED <<issued, family, valid, db, torn>>
  BY DEF Restart, provider
<1>3. family[db] \in Clients /\ db \in 1 .. issued /\ db \in Tokens /\ db # None
  BY <1>1, ProviderTyped, Sizes DEF FamilyKnown
<1>4. memory'[current'] = db
  BY <1>2, <1>3
<1>5. SignInTypes'
  BY <1>1, <1>2 DEF SignInTypes, NoSignIn, Flows
<1>6. ClientTypes'
  BY <1>2, <1>3, <1>4 DEF ClientTypes, Places
<1>7. ProviderTypes'
  BY <1>1, <1>2, <1>3 DEF ProviderTypes
<1>8. HistoryTypes'
  <2>1. restarts' \in 0 .. MaxRestarts
    BY <1>1, <1>2, Sizes DEF HistoryTypes
  <2> QED
    BY <1>1, <1>2, <1>3, <2>1 DEF HistoryTypes
<1>9. FamilyKnown' /\ SignInInv'
  BY <1>2 DEF FamilyKnown, SignInInv, NoSignIn, SignedIn
<1>10. ClientInv'
  BY <1>2, <1>3 DEF ClientInv
<1>11. DbInv'
  BY <1>2, <1>3, <1>4 DEF DbInv
<1> QED
  BY <1>5, <1>6, <1>7, <1>8, <1>9, <1>10, <1>11, TypeParts

-----------------------------------------------------------------------------
(* The refreshes of a client *)

(* What a step of a refresh before the end of its save does: it may replace *)
(* the token t of the client by u, and goes to r.                           *)
ClientMoves(c, t, u, r) ==
    /\ t \in {None, memory[c]} /\ Grows(t)
    /\ UNCHANGED <<current, arriving, signin, db, restarts, unsaved, torn>>
    /\ lost \subseteq lost' /\ lost' \subseteq Clients
    /\ memory[c] # None /\ c <= current
    /\ memory' = [memory EXCEPT ![c] = u] /\ u \in 1 .. issued' /\ family'[u] = c
    /\ memory[c] \in valid => u \in valid' \/ c \in lost'
    /\ refresh' = [refresh EXCEPT ![c] = r] /\ r \in Places
    /\ c = current /\ r \in Unchanged => refresh[c] \in Unchanged /\ u = memory[c]
    /\ saving' \in {saving, [saving EXCEPT ![c] = u]}
    /\ r = "saving" => c = current /\ saving' = [saving EXCEPT ![c] = u]

LEMMA ClientMovesKeep ==
    ASSUME Inv, NEW c \in Clients, NEW t, NEW u, NEW r, ClientMoves(c, t, u, r), refresh[c] # "saving"
    PROVE  Inv'
<1> USE DEF Inv
<1>1. SignInTypes /\ ClientTypes /\ ProviderTypes /\ HistoryTypes
  BY TypeParts
<1>2. /\ issued \in Nat /\ issued' \in Tokens /\ issued' \in Nat /\ issued <= issued'
      /\ 1 .. issued' \subseteq Tokens
      /\ UNCHANGED <<current, arriving, signin, db, restarts, unsaved, torn>>
      /\ \A x \in 1 .. issued : x \in 1 .. issued' /\ family'[x] = family[x]
  BY ProviderTyped, Sizes DEF ClientMoves, Grows, Tokens
<1>3. /\ memory' = [memory EXCEPT ![c] = u] /\ u \in Tokens /\ u # None
      /\ refresh' = [refresh EXCEPT ![c] = r] /\ r \in Places
      /\ saving' \in {saving, [saving EXCEPT ![c] = u]}
  BY <1>2, Sizes DEF ClientMoves
<1>4. /\ memory'[c] = u /\ refresh'[c] = r
      /\ r = "saving" => saving'[c] = u
      /\ \A x \in Clients \ {c} : memory'[x] = memory[x] /\ refresh'[x] = refresh[x] /\ saving'[x] = saving[x]
  BY <1>1, <1>3 DEF ClientTypes, ClientMoves
<1>5. SignInTypes'
  BY <1>1, <1>2 DEF SignInTypes
<1>6. ClientTypes'
  BY <1>1, <1>2, <1>3 DEF ClientTypes, ProviderTypes
<1>7. ProviderTypes'
  BY <1>1, <1>2 DEF ProviderTypes, ClientMoves, Grows
<1>8. HistoryTypes'
  BY <1>1, <1>2 DEF HistoryTypes, ClientMoves
<1>9. FamilyKnown'
  BY DEF ClientMoves, Grows, FamilyKnown
<1>10. /\ memory[c] \in 1 .. issued /\ family[memory[c]] = c /\ c # Following
       /\ memory[current] \in 1 .. issued /\ family[memory[current]] = current
  BY <1>1, FollowingKnown DEF ClientInv, ClientMoves, ClientTypes
<1>11. ASSUME NEW x, Newest(x, Following)
       PROVE  Newest(x, Following)'
  <2>1. x # t
    BY <1>10, <1>11, Sizes DEF ClientMoves, Newest, None
  <2> QED
    BY <1>2, <1>11, <2>1 DEF Newest, ClientMoves, Grows, Following
<1>12. SignInInv'
  BY <1>2, <1>11 DEF SignInInv, Following
<1>13. ClientInv'
  <2> SUFFICES ASSUME NEW x \in Clients
               PROVE  /\ memory'[x] # None => memory'[x] \in 1 .. issued' /\ family'[memory'[x]] = x
                      /\ refresh'[x] # "idle" => memory'[x] # None /\ x <= current
                      /\ refresh'[x] = "saving" => saving'[x] = memory'[x]
                      /\ refresh'[x] = "saving" => torn \/ x = current
    BY <1>2 DEF ClientInv
  <2>1. CASE x = c
    BY <1>3, <1>4, <2>1 DEF ClientMoves
  <2>2. CASE x # c
    BY <1>2, <1>4, <2>2 DEF ClientInv
  <2> QED
    BY <2>1, <2>2
<1>14. DbInv'
  <2>1. memory'[current] \in valid' \/ current \in lost'
    <3>1. CASE c = current
      BY <1>4, <3>1 DEF DbInv, ClientMoves
    <3>2. CASE c # current
      <4>1. memory[current] # t /\ memory'[current] = memory[current]
        BY <1>4, <1>10, <3>2, FollowingKnown, Sizes DEF ClientMoves, None
      <4> QED
        BY <4>1 DEF DbInv, ClientMoves, Grows
    <3> QED
      BY <3>1, <3>2
  <2>2. family'[db] = family[db]
    BY <1>1, <1>2 DEF ProviderTypes
  <2>3. \/ torn \/ current \in unsaved \/ refresh'[current] \notin Unchanged
        \/ db = memory'[current] \/ (arriving # None /\ db = arriving)
    <3>1. CASE c = current
      BY <1>4, <3>1 DEF DbInv, ClientMoves
    <3>2. CASE c # current
      BY <1>4, <3>2, FollowingKnown DEF DbInv
    <3> QED
      BY <3>1, <3>2
  <2> QED
    BY <1>2, <2>1, <2>2, <2>3 DEF DbInv
<1> QED
  BY <1>5, <1>6, <1>7, <1>8, <1>9, <1>12, <1>13, <1>14, TypeParts

(* A step without the identity provider. *)
LEMMA ClientGoes ==
    ASSUME Inv, NEW c \in Clients, memory[c] # None, c <= current,
           NEW r \in Places, Goes(c, r),
           c = current /\ r \in Unchanged => refresh[c] \in Unchanged,
           \/ r # "saving" /\ UNCHANGED saving
           \/ c = current /\ saving' = [saving EXCEPT ![c] = memory[c]],
           UNCHANGED <<current, arriving, signin, provider, memory, db, restarts, history>>
    PROVE  ClientMoves(c, None, memory[c], r)
<1> USE DEF Inv
<1>1. SignInTypes /\ ClientTypes /\ ProviderTypes /\ HistoryTypes
  BY TypeParts
<1>2. Grows(None)
  BY <1>1, ProviderTyped DEF Grows, provider, FamilyKnown
<1>3. memory' = [memory EXCEPT ![c] = memory[c]]
  BY <1>1 DEF ClientTypes
<1>4. memory[c] \in 1 .. issued' /\ family'[memory[c]] = c
  BY DEF ClientInv, provider
<1>5. UNCHANGED <<current, arriving, signin, db, restarts, unsaved, torn, lost, valid>>
  BY DEF history, provider
<1>6. refresh' = [refresh EXCEPT ![c] = r]
  BY DEF Goes
<1>7. lost' \subseteq Clients
  BY <1>1, <1>5 DEF HistoryTypes
<1> QED
  BY <1>2, <1>3, <1>4, <1>5, <1>6, <1>7 DEF ClientMoves

(* A step with it: the client keeps the new token, or loses it. *)
LEMMA ClientRotates ==
    ASSUME Inv, NEW c \in Clients, refresh[c] \in Kinds, NEW u \in Tokens, Rotates(memory[c], u),
           NEW r \in Places \ {"saving"}, Goes(c, r), saving' = saving,
           UNCHANGED <<current, arriving, signin, db, restarts, unsaved, torn>>,
           \/ Keeps(c, u) /\ lost' = lost /\ (r \in Unchanged => u = memory[c])
           \/ memory' = memory /\ Loses(memory[c], c) /\ r = "idle"
    PROVE  Inv'
<1> USE DEF Inv
<1>1. SignInTypes /\ ClientTypes /\ ProviderTypes /\ HistoryTypes
  BY TypeParts
<1>2. refresh[c] # "idle" /\ refresh[c] # "saving" /\ refresh[c] \in Unchanged
  BY DEF Kinds, Unchanged
<1>3. memory[c] # None /\ memory[c] \in 1 .. issued /\ family[memory[c]] = c /\ c <= current
  BY <1>2 DEF ClientInv
<1>4. Grows(memory[c]) /\ u \in 1 .. issued' /\ family'[u] = family[memory[c]] /\ u \in valid'
  BY RotatesGrows
<1>5. refresh' = [refresh EXCEPT ![c] = r]
  BY DEF Goes
<1>6. CASE Keeps(c, u) /\ lost' = lost /\ (r \in Unchanged => u = memory[c])
  <2>1. ClientMoves(c, memory[c], u, r)
    BY <1>1, <1>2, <1>3, <1>4, <1>5, <1>6 DEF ClientMoves, Keeps, HistoryTypes
  <2> QED
    BY <1>2, <2>1, ClientMovesKeep
<1>7. CASE memory' = memory /\ Loses(memory[c], c) /\ r = "idle"
  <2>1. memory' = [memory EXCEPT ![c] = memory[c]]
    BY <1>1, <1>7 DEF ClientTypes
  <2>2. /\ memory[c] \in valid' \/ c \in lost'
        /\ lost \subseteq lost' /\ lost' \subseteq Clients
    BY <1>1, <1>7 DEF Loses, HistoryTypes
  <2>3. memory[c] \in 1 .. issued' /\ family'[memory[c]] = c
    BY <1>3, <1>4, ProviderTyped, Sizes DEF Grows, Tokens
  <2>4. ClientMoves(c, memory[c], memory[c], r)
    BY <1>2, <1>3, <1>4, <1>5, <1>7, <2>1, <2>2, <2>3 DEF ClientMoves
  <2> QED
    BY <1>2, <2>4, ClientMovesKeep
<1> QED
  BY <1>6, <1>7

LEMMA BusyClient ==
    ASSUME Inv, NEW c \in Clients, refresh[c] # "idle"
    PROVE  memory[c] # None /\ c <= current
BY DEF Inv, ClientInv

LEMMA PlacesGone ==
    /\ Kinds \subseteq Unchanged /\ Unchanged \subseteq Places /\ "saving" \notin Unchanged
    /\ {"idle", "exchange", "rotated exchange", "save", "saving"} \subseteq Places
    /\ "idle" \in Unchanged /\ "exchange" \in Unchanged
    /\ "rotated exchange" \notin Unchanged /\ "save" \notin Unchanged
    /\ "idle" \notin Kinds /\ "saving" \notin Kinds
BY DEF Kinds, Unchanged, Places

LEMMA BeginRefreshKeeps ==
    ASSUME Inv, NEW c \in Clients, NEW kind \in Kinds, BeginRefresh(c, kind)
    PROVE  Inv'
<1>1. /\ refresh[c] = "idle" /\ memory[c] # None /\ c = current /\ Goes(c, kind)
      /\ UNCHANGED <<current, arriving, signin, provider, memory, saving, db, restarts, history>>
  BY DEF BeginRefresh, Superseded
<1>2. c <= current
  BY <1>1, FollowingKnown DEF Inv
<1>3. ClientMoves(c, None, memory[c], kind)
  BY <1>1, <1>2, PlacesGone, ClientGoes
<1> QED
  BY <1>1, <1>3, ClientMovesKeep

LEMMA ExchangeKeeps ==
    ASSUME Inv, NEW c \in Clients, Exchange(c)
    PROVE  Inv'
<1>1. /\ refresh[c] \in {"exchange", "rotated exchange"}
      /\ UNCHANGED <<current, arriving, signin, provider, memory, saving, db, restarts, history>>
  BY DEF Exchange
<1>2. PICK r \in {"save", "idle"} : Goes(c, r) /\ (r = "idle" => refresh[c] = "exchange")
  BY DEF Exchange
<1>3. memory[c] # None /\ c <= current
  BY <1>1, BusyClient
<1>4. r \in Places /\ r # "saving" /\ (r \in Unchanged => refresh[c] \in Unchanged)
  BY <1>2, PlacesGone
<1>5. ClientMoves(c, None, memory[c], r)
  BY <1>1, <1>2, <1>3, <1>4, ClientGoes
<1> QED
  BY <1>1, <1>5, ClientMovesKeep

LEMMA BeginSaveKeeps ==
    ASSUME Inv, NEW c \in Clients, BeginSave(c)
    PROVE  Inv'
<1>1. /\ refresh[c] = "save"
      /\ UNCHANGED <<current, arriving, signin, provider, memory, db, restarts, history>>
  BY DEF BeginSave
<1>2. memory[c] # None /\ c <= current
  BY <1>1, BusyClient
<1>3. CASE c # current
  <2>1. Goes(c, "idle") /\ UNCHANGED saving
    BY <1>3 DEF BeginSave, Superseded
  <2>2. ClientMoves(c, None, memory[c], "idle")
    BY <1>1, <1>2, <1>3, <2>1, PlacesGone, ClientGoes
  <2> QED
    BY <1>1, <2>2, ClientMovesKeep
<1>4. CASE c = current
  <2>1. Goes(c, "saving") /\ saving' = [saving EXCEPT ![c] = memory[c]]
    BY <1>4 DEF BeginSave, Superseded
  <2>2. ClientMoves(c, None, memory[c], "saving")
    BY <1>1, <1>2, <1>4, <2>1, PlacesGone, ClientGoes
  <2> QED
    BY <1>1, <2>2, ClientMovesKeep
<1> QED
  BY <1>3, <1>4

LEMMA RefreshKeeps ==
    ASSUME Inv, NEW c \in Clients,
           RefreshFails(c) \/ SkypeRefresh(c) \/ GraphRefresh(c) \/ ResourceRefresh(c)
    PROVE  Inv'
<1>1. /\ refresh[c] \in Kinds /\ saving' = saving
      /\ UNCHANGED <<current, arriving, signin, db, restarts, unsaved, torn>>
  BY DEF RefreshFails, SkypeRefresh, GraphRefresh, ResourceRefresh, Kinds, history
<1>2. {"idle", "exchange", "rotated exchange", "save"} \subseteq Places \ {"saving"}
  BY PlacesGone
<1>3. CASE RefreshFails(c)
  <2>1. CASE UNCHANGED <<provider, lost>>
    <3>1. /\ Goes(c, "idle") /\ UNCHANGED memory
          /\ UNCHANGED <<current, arriving, signin, provider, memory, db, restarts, history>>
      BY <1>1, <1>3, <2>1 DEF RefreshFails, history
    <3>2. memory[c] # None /\ c <= current
      BY <1>1, BusyClient, PlacesGone
    <3>3. ClientMoves(c, None, memory[c], "idle")
      BY <1>1, <3>1, <3>2, PlacesGone, ClientGoes
    <3> QED
      BY <1>1, <3>3, PlacesGone, ClientMovesKeep
  <2>2. CASE \E u \in Tokens \ {memory[c]} : Rotates(memory[c], u) /\ Loses(memory[c], c)
    <3>1. PICK u \in Tokens : Rotates(memory[c], u) /\ Loses(memory[c], c)
      BY <2>2
    <3>2. Goes(c, "idle") /\ memory' = memory
      BY <1>3 DEF RefreshFails
    <3> QED
      BY <1>1, <1>2, <3>1, <3>2, ClientRotates
  <2> QED
    BY <1>3, <2>1, <2>2 DEF RefreshFails
<1>4. CASE SkypeRefresh(c)
  <2>1. PICK u \in Tokens : /\ Rotates(memory[c], u) /\ Keeps(c, u)
                          /\ Goes(c, IF u = memory[c] THEN "exchange" ELSE "rotated exchange")
    BY <1>4 DEF SkypeRefresh
  <2>2. lost' = lost
    BY <1>4 DEF SkypeRefresh, history
  <2>3. CASE u = memory[c]
    BY <1>1, <1>2, <2>1, <2>2, <2>3, ClientRotates
  <2>4. CASE u # memory[c]
    BY <1>1, <1>2, <2>1, <2>2, <2>4, PlacesGone, ClientRotates
  <2> QED
    BY <2>3, <2>4
<1>5. CASE GraphRefresh(c)
  <2>1. PICK u \in Tokens :
               /\ Rotates(memory[c], u)
               /\ \/ Keeps(c, u) /\ Goes(c, "save") /\ UNCHANGED lost
                  \/ Goes(c, "idle") /\ Loses(memory[c], c) /\ UNCHANGED memory
    BY <1>5 DEF GraphRefresh
  <2> QED
    BY <1>1, <1>2, <2>1, PlacesGone, ClientRotates
<1>6. CASE ResourceRefresh(c)
  <2>1. PICK u \in Tokens : /\ Rotates(memory[c], u) /\ Keeps(c, u)
                          /\ Goes(c, IF u = memory[c] THEN "idle" ELSE "save")
    BY <1>6 DEF ResourceRefresh
  <2>2. lost' = lost
    BY <1>6 DEF ResourceRefresh, history
  <2>3. CASE u = memory[c]
    BY <1>1, <1>2, <2>1, <2>2, <2>3, ClientRotates
  <2>4. CASE u # memory[c]
    BY <1>1, <1>2, <2>1, <2>2, <2>4, PlacesGone, ClientRotates
  <2> QED
    BY <2>3, <2>4
<1> QED
  BY <1>3, <1>4, <1>5, <1>6

(* The save ends: what is there is what was in memory when it began, and    *)
(* nothing changes in memory meanwhile.                                     *)
LEMMA EndSaveKeeps ==
    ASSUME Inv, NEW c \in Clients, EndSave(c)
    PROVE  Inv'
<1> USE DEF Inv
<1>1. SignInTypes /\ ClientTypes /\ ProviderTypes /\ HistoryTypes
  BY TypeParts
<1>2. /\ refresh[c] = "saving"
      /\ refresh' = [refresh EXCEPT ![c] = "idle"]
      /\ saving' = [saving EXCEPT ![c] = None]
      /\ \/ db' = saving[c] /\ unsaved' = unsaved \ {c}
         \/ unsaved' = unsaved \cup {c} /\ UNCHANGED db
      /\ UNCHANGED <<current, arriving, signin, issued, family, valid, memory, restarts, lost, torn>>
  BY DEF EndSave, Goes, provider
<1>3. /\ memory[c] # None /\ memory[c] \in 1 .. issued /\ family[memory[c]] = c
      /\ saving[c] = memory[c] /\ (torn \/ c = current)
  BY <1>2 DEF ClientInv
<1>4. refresh'[c] = "idle" /\ \A x \in Clients \ {c} : refresh'[x] = refresh[x] /\ saving'[x] = saving[x]
  BY <1>1, <1>2 DEF ClientTypes
<1>5. SignInTypes'
  BY <1>1, <1>2 DEF SignInTypes
<1>6. ClientTypes'
  BY <1>1, <1>2 DEF ClientTypes, Places
<1>7. ProviderTypes' /\ HistoryTypes'
  BY <1>1, <1>2, <1>3 DEF ProviderTypes, HistoryTypes
<1>8. FamilyKnown'
  BY <1>2 DEF FamilyKnown
<1>9. SignInInv'
  BY <1>2 DEF SignInInv, Newest, Following
<1>10. ClientInv'
  BY <1>2, <1>4 DEF ClientInv
<1>11. DbInv'
  <2>1. memory'[current'] \in valid' \/ current' \in lost'
    BY <1>2 DEF DbInv
  <2>2. torn' \/ family'[db'] = current' \/ (arriving' # None /\ db' = arriving')
    BY <1>2, <1>3 DEF DbInv
  <2>3. \/ torn' \/ current' \in unsaved' \/ refresh'[current'] \notin Unchanged
        \/ db' = memory'[current'] \/ (arriving' # None /\ db' = arriving')
    BY <1>2, <1>3 DEF DbInv
  <2> QED
    BY <2>1, <2>2, <2>3 DEF DbInv
<1> QED
  BY <1>5, <1>6, <1>7, <1>8, <1>9, <1>10, <1>11, TypeParts

LEMMA InvStep ==
    ASSUME Inv, [Next]_vars
    PROVE  Inv'
<1>1. CASE SignIn
  BY <1>1, SignInKeeps, NewLoginKeeps, LoadKeeps DEF SignIn
<1>2. ASSUME NEW c \in Clients, Refresh(c)
      PROVE  Inv'
  BY <1>2, BeginRefreshKeeps, RefreshKeeps, ExchangeKeeps, BeginSaveKeeps, EndSaveKeeps DEF Refresh
<1>3. CASE Restart
  BY <1>3, RestartKeeps
<1>4. CASE UNCHANGED vars
  <2>1. UNCHANGED <<current, arriving, signin, issued, family, valid, refresh, memory, saving, db, restarts,
                    unsaved, lost, torn>>
    BY <1>4 DEF vars, provider, clientVars, history
  <2>2. SignInTypes /\ ClientTypes /\ ProviderTypes /\ HistoryTypes
    BY TypeParts DEF Inv
  <2>3. SignInTypes' /\ ClientTypes' /\ ProviderTypes' /\ HistoryTypes'
    BY <2>1, <2>2 DEF SignInTypes, ClientTypes, ProviderTypes, HistoryTypes
  <2>4. FamilyKnown' /\ SignInInv' /\ ClientInv' /\ DbInv'
    BY <2>1 DEF Inv, FamilyKnown, SignInInv, ClientInv, DbInv, Newest, Following
  <2> QED
    BY <2>3, <2>4, TypeParts DEF Inv
<1> QED
  BY <1>1, <1>2, <1>3, <1>4 DEF Next

LEMMA Invariant == Spec => []Inv
<1>1. Init => Inv
  BY InvStart
<1>2. Inv /\ [Next]_vars => Inv'
  BY InvStep
<1> QED
  BY <1>1, <1>2, PTL DEF Spec

-----------------------------------------------------------------------------
(* The state has its types, and the login's client always has a refresh     *)
(* token (the guards against an answer without one: sync_loop.go,           *)
(* graph_token.go, resource_tokens.go).                                     *)
THEOREM TypeCorrect == Spec => []TypeOK
<1>1. Inv => TypeOK
  BY DEF Inv
<1> QED
  BY <1>1, Invariant, PTL

(* A client that was replaced does not save over the new login's tokens,    *)
(* however late its refresh ends, unless its save had begun before          *)
(* (superseded, saveLogin).                                                 *)
THEOREM NewLoginKept == Spec => []NewLoginStays
<1>1. Inv => NewLoginStays
  BY DEF Inv, DbInv, NewLoginStays
<1> QED
  BY <1>1, Invariant, PTL

(* After a restart the bridge can go on with the login it saved, but for    *)
(* the cases the property names: a save about to come or failed, a token    *)
(* lost with an answer, and a save that ended too late.                     *)
THEOREM SavedTokenGood == Spec => []SavedTokenAccepted
<1>1. ASSUME Inv PROVE SavedTokenAccepted
  <2>1. refresh[current] \in Places
    BY <1>1, TypeParts, FollowingKnown DEF Inv, ClientTypes
  <2>2. refresh[current] \in Unchanged \/ refresh[current] \in {"exchange", "rotated exchange", "save", "saving"}
    BY <2>1 DEF Places, Unchanged
  <2>3. arriving # None => arriving \in valid \/ Following \in lost
    BY <1>1 DEF Inv, SignInInv, Newest
  <2> QED
    BY <1>1, <2>2, <2>3 DEF Inv, DbInv, SavedTokenAccepted
<1> QED
  BY <1>1, Invariant, PTL

=============================================================================
