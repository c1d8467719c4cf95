----------------------------- MODULE TokenRotation -----------------------------
(***************************************************************************)
(* The one refresh token of a login: how a sign-in obtains it (pkg/        *)
(* connector/login.go, login_devicecode.go, storage_extractor.go), how the *)
(* refreshes of the Skype, Graph and resource tokens rotate and save it    *)
(* (sync_loop.go, graph_token.go, resource_tokens.go), and how a re-login  *)
(* replaces it, and the client that uses it (connector.go,                 *)
(* client_lifecycle.go).                                                   *)
(*                                                                         *)
(* A re-login saves the new login first and gives the login its new client *)
(* then.  Whether a client has been replaced is asked before a refresh and *)
(* before a save, and between two of these points it may be.               *)
(***************************************************************************)
EXTENDS Naturals

CONSTANTS
    MaxLogins,   \* bound: sign-ins that end in a login, a client for each
    MaxTokens,   \* bound: refresh tokens issued
    MaxRestarts  \* bound: restarts of the bridge

ASSUME RotationAssumption ==
    /\ MaxLogins \in Nat \ {0}
    /\ MaxTokens \in Nat \ {0}
    /\ MaxRestarts \in Nat

Clients == 1 .. MaxLogins
Tokens == 1 .. MaxTokens
None == 0
Kinds == {"skype", "graph", "resource"}
Flows == {"device", "storage"}

VARIABLES
    current,   \* UserLogin.Client
    arriving,  \* the token of a re-login that is saved, and its client not yet created
    signin,    \* the sign-in under way: its flow, where it is, its refresh token
    issued,    \* identity provider: refresh tokens issued
    family,    \* the login each of them stems from
    valid,     \* those it accepts
    refresh,   \* where the refresh under a client's tokenMu is
    memory,    \* Meta.RefreshToken of each client
    saving,    \* what a save in progress writes
    db,        \* the saved login's refresh token
    restarts,
    unsaved,   \* history: clients whose last save failed
    lost,      \* history: logins whose newest token is lost for good
    torn       \* history: a save of the replaced client ended after a re-login's

provider == <<issued, family, valid>>
clientVars == <<refresh, memory, saving>>
history == <<unsaved, lost, torn>>
vars == <<current, arriving, signin, provider, clientVars, db, restarts, history>>

\* superseded
Superseded(c) == c # current

NoSignIn == [flow |-> "device", at |-> "none", token |-> None]

Init ==
    /\ current = 1
    /\ arriving = None
    /\ signin = NoSignIn
    /\ issued = 1
    /\ family = [t \in Tokens |-> IF t = 1 THEN 1 ELSE None]
    /\ valid = {1}
    /\ refresh = [c \in Clients |-> "idle"]
    /\ memory = [c \in Clients |-> IF c = 1 THEN 1 ELSE None]
    /\ saving = [c \in Clients |-> None]
    /\ db = 1
    /\ restarts = 0
    /\ unsaved = {}
    /\ lost = {}
    /\ torn = FALSE

\* The identity provider takes refresh token t and answers with u: t itself (an
\* answer without a refresh token is the same to the bridge), or a new token,
\* beside which t may stay valid.
Rotates(t, u) ==
    /\ t \in valid
    /\ \/ u = t /\ UNCHANGED provider
       \/ /\ u \in Tokens
          /\ u = issued + 1
          /\ issued' = u
          /\ family' = [family EXCEPT ![u] = family[t]]
          /\ valid' \in {valid \cup {u}, (valid \ {t}) \cup {u}}

\* The new token never reaches the login: with the old one refused, that ends it.
Loses(t, login) == lost' = IF t \in valid' THEN lost ELSE lost \cup {login}

\* Whether a Skype token comes for an access token.
AcquireSkypeToken == BOOLEAN

-----------------------------------------------------------------------------
(* Signing in.  A sign-in for the login the bridge has is a re-login. *)

\* The login a sign-in will be, if it gets that far.
Following == current + 1

\* A flow obtains the first refresh token of a new login: from the poll for a
\* device code the user has approved, or out of the browser's storage.
Granted(flow, at) ==
    /\ issued < MaxTokens
    /\ issued' = issued + 1
    /\ family' = [family EXCEPT ![issued + 1] = Following]
    /\ valid' = valid \cup {issued + 1}
    /\ signin' = [flow |-> flow, at |-> at, token |-> issued + 1]
    /\ lost' = lost \ {Following}

\* Start shows a device code.
StartLogin ==
    /\ signin.at = "none" /\ arriving = None /\ current < MaxLogins
    /\ signin' = [NoSignIn EXCEPT !.at = "code"]
    /\ UNCHANGED <<current, arriving, provider, clientVars, db, restarts, history>>

\* Wait polls for the token until the user has approved or declined, the code has
\* expired, a request has failed, or the sign-in is canceled.  One canceled before
\* is waited for all the same: Cancel finds nothing to cancel.
Wait ==
    /\ signin.at = "code"
    /\ signin' = [signin EXCEPT !.at = "poll"]
    /\ UNCHANGED <<current, arriving, provider, clientVars, db, restarts, history>>

PollDeviceCode ==
    /\ signin.at = "poll"
    /\ \/ Granted("device", "exchange")
       \/ signin' = NoSignIn /\ UNCHANGED <<provider, lost>>
    /\ UNCHANGED <<current, arriving, clientVars, db, restarts, unsaved, torn>>

\* What the browser's storage lacks decides where its flow begins: a token for Skype,
\* one for Graph, or nothing.  There is no login without a refresh token.
ExtractTokens == {"skype", "graph", "exchange"}

\* SubmitCookies and SubmitUserInput bring the storage.
SubmitStorage ==
    /\ signin.at = "none" /\ arriving = None /\ current < MaxLogins
    /\ \E at \in ExtractTokens : Granted("storage", at)
    /\ UNCHANGED <<current, arriving, clientVars, db, restarts, unsaved, torn>>

\* The steps of a flow: ExtractTeamsLoginMetadataFromLocalStorage refreshes first,
\* buildDeviceCodeLoginMetadata last.
ExtractLoginMetadata == [skype |-> "graph", graph |-> "exchange", exchange |-> "built"]
BuildLoginMetadata == [exchange |-> "graph", graph |-> "built"]
StepOn == [signin EXCEPT !.at = IF signin.flow = "device" THEN BuildLoginMetadata[@]
                                                          ELSE ExtractLoginMetadata[@]]

\* A sign-in refreshes with its token, and keeps the one it is given.  Without an
\* answer, the refresh for Skype ends the sign-in, and the one for Graph does not.
SignInRefresh ==
    /\ signin.at \in {"skype", "graph"}
    /\ LET failed == IF signin.at = "skype" THEN NoSignIn ELSE StepOn
       IN \/ \E u \in Tokens :
                /\ Rotates(signin.token, u)
                /\ signin' = [StepOn EXCEPT !.token = u]
                /\ UNCHANGED lost
          \/ \E u \in Tokens \ {signin.token} :
                /\ Rotates(signin.token, u)
                /\ signin' = failed
                /\ Loses(signin.token, Following)
          \/ signin' = failed /\ UNCHANGED <<provider, lost>>
    /\ UNCHANGED <<current, arriving, clientVars, db, restarts, unsaved, torn>>

\* The Skype token is exchanged for, which tells whose login it is.
SignInExchange ==
    /\ signin.at = "exchange"
    /\ \E ok \in AcquireSkypeToken : signin' = IF ok THEN StepOn ELSE NoSignIn
    /\ UNCHANGED <<current, arriving, provider, clientVars, db, restarts, history>>

\* NewLogin saves the login.
NewLogin ==
    /\ signin.at = "built"
    /\ signin' = NoSignIn
    /\ arriving' = signin.token
    /\ db' = signin.token
    /\ UNCHANGED <<current, provider, clientVars, restarts, history>>

\* LoadUserLogin gives the login its new client, which connects; the one it had is
\* disconnected.
LoadUserLogin ==
    /\ arriving # None
    /\ arriving' = None
    /\ current' = Following
    /\ memory' = [memory EXCEPT ![Following] = arriving]
    /\ torn' = (torn \/ family[db] = current \/ refresh[current] = "saving")
    /\ UNCHANGED <<signin, provider, refresh, saving, db, restarts, unsaved, lost>>

-----------------------------------------------------------------------------
(* The refreshes of a client *)

Goes(c, place) == refresh' = [refresh EXCEPT ![c] = place]
Keeps(c, t) == memory' = [memory EXCEPT ![c] = t]

\* ensureValidSkypeToken, ensureValidGraphToken or resourceToken begins a refresh,
\* holding tokenMu, unless the client has been replaced.
BeginRefresh(c, kind) ==
    /\ refresh[c] = "idle"
    /\ memory[c] # None
    /\ ~Superseded(c)
    /\ Goes(c, kind)
    /\ UNCHANGED <<current, arriving, signin, provider, memory, saving, db, restarts, history>>

\* A refresh fails: refused, or the answer is lost on its way, and with it a token.
RefreshFails(c) ==
    /\ refresh[c] \in Kinds
    /\ Goes(c, "idle")
    /\ \/ UNCHANGED <<provider, lost>>
       \/ \E u \in Tokens \ {memory[c]} :
             /\ Rotates(memory[c], u)
             /\ Loses(memory[c], c)
    /\ UNCHANGED <<current, arriving, signin, memory, saving, db, restarts, unsaved, torn>>

\* ensureValidSkypeToken keeps the refresh token at once, before the exchange that
\* may fail.  An answer without a refresh token changes nothing.
SkypeRefresh_Wipes(c) ==
    /\ refresh[c] = "skype"
    /\ \E u \in Tokens :
          /\ Rotates(memory[c], u)
          /\ \/ Keeps(c, u)
             \/ u = memory[c] /\ Keeps(c, None)
          /\ Goes(c, IF u = memory[c] THEN "exchange" ELSE "rotated exchange")
    /\ UNCHANGED <<current, arriving, signin, saving, db, restarts, history>>
SkypeRefresh(c) ==
    /\ refresh[c] = "skype"
    /\ \E u \in Tokens :
          /\ Rotates(memory[c], u)
          /\ Keeps(c, u)
          /\ Goes(c, IF u = memory[c] THEN "exchange" ELSE "rotated exchange")
    /\ UNCHANGED <<current, arriving, signin, saving, db, restarts, history>>

\* The Skype token is exchanged for: then the login is saved.  If that fails, it is
\* saved only if the refresh token was rotated.
Exchange_Unkept(c) ==
    /\ refresh[c] \in {"exchange", "rotated exchange"}
    /\ \E ok \in AcquireSkypeToken : Goes(c, IF ok THEN "save" ELSE "idle")
    /\ UNCHANGED <<current, arriving, signin, provider, memory, saving, db, restarts, history>>
Exchange(c) ==
    /\ refresh[c] \in {"exchange", "rotated exchange"}
    /\ \E ok \in AcquireSkypeToken :
          Goes(c, IF ok \/ refresh[c] = "rotated exchange" THEN "save" ELSE "idle")
    /\ UNCHANGED <<current, arriving, signin, provider, memory, saving, db, restarts, history>>

\* ensureValidGraphToken fails on an answer without a Graph token before it keeps
\* the refresh token.
GraphRefresh(c) ==
    /\ refresh[c] = "graph"
    /\ \E u \in Tokens :
          /\ Rotates(memory[c], u)
          /\ \/ Keeps(c, u) /\ Goes(c, "save") /\ UNCHANGED lost
             \/ /\ Goes(c, "idle")
                /\ Loses(memory[c], c)
                /\ UNCHANGED memory
    /\ UNCHANGED <<current, arriving, signin, saving, db, restarts, unsaved, torn>>

\* resourceToken keeps the token for its resource in memory, and saves the login only
\* if the refresh token was rotated.
ResourceRefresh(c) ==
    /\ refresh[c] = "resource"
    /\ \E u \in Tokens :
          /\ Rotates(memory[c], u)
          /\ Keeps(c, u)
          /\ Goes(c, IF u = memory[c] THEN "idle" ELSE "save")
    /\ UNCHANGED <<current, arriving, signin, saving, db, restarts, history>>

\* saveLogin asks whether the client has been replaced, and saves if not: what it
\* writes is there later, if the write succeeds.
BeginSave_Always(c) ==
    /\ refresh[c] = "save"
    /\ Goes(c, "saving") /\ saving' = [saving EXCEPT ![c] = memory[c]]
    /\ UNCHANGED <<current, arriving, signin, provider, memory, db, restarts, history>>
BeginSave(c) ==
    /\ refresh[c] = "save"
    /\ IF Superseded(c)
       THEN Goes(c, "idle") /\ UNCHANGED saving
       ELSE Goes(c, "saving") /\ saving' = [saving EXCEPT ![c] = memory[c]]
    /\ UNCHANGED <<current, arriving, signin, provider, memory, db, restarts, history>>

EndSave(c) ==
    /\ refresh[c] = "saving"
    /\ Goes(c, "idle")
    /\ saving' = [saving EXCEPT ![c] = None]
    /\ \/ db' = saving[c] /\ unsaved' = unsaved \ {c}
       \/ unsaved' = unsaved \cup {c} /\ UNCHANGED db
    /\ UNCHANGED <<current, arriving, signin, provider, memory, restarts, lost, torn>>

\* A restart, or a crash: the saved login is loaded, and what was not saved is lost.
Restart ==
    LET c == family[db]
    IN /\ restarts < MaxRestarts
       /\ restarts' = restarts + 1
       /\ current' = c
       /\ arriving' = None
       /\ signin' = NoSignIn
       /\ refresh' = [x \in Clients |-> "idle"]
       /\ saving' = [x \in Clients |-> None]
       /\ memory' = [x \in Clients |-> IF x = c THEN db ELSE None]
       /\ unsaved' = {}
       /\ lost' = IF db \in valid THEN lost ELSE lost \cup {c}
       /\ UNCHANGED <<provider, db, torn>>

-----------------------------------------------------------------------------
SignIn ==
    \/ StartLogin \/ Wait \/ PollDeviceCode \/ SubmitStorage
    \/ SignInRefresh \/ SignInExchange \/ NewLogin \/ LoadUserLogin

Refresh(c) ==
    \/ \E kind \in Kinds : BeginRefresh(c, kind)
    \/ RefreshFails(c) \/ SkypeRefresh(c) \/ Exchange(c) \/ GraphRefresh(c) \/ ResourceRefresh(c)
    \/ BeginSave(c) \/ EndSave(c)

Next == SignIn \/ (\E c \in Clients : Refresh(c)) \/ Restart

Spec == Init /\ [][Next]_vars

-----------------------------------------------------------------------------
(* Properties *)

\* Types.  The login's client always has a refresh token (the guards against an
\* answer without one).
TypeOK ==
    /\ current \in Clients
    /\ arriving \in {None} \cup Tokens
    /\ signin \in [flow : Flows, at : {"none", "code", "poll", "skype", "graph", "exchange", "built"},
                   token : {None} \cup Tokens]
    /\ issued \in Tokens
    /\ family \in [Tokens -> {None} \cup Clients]
    /\ valid \subseteq 1 .. issued
    /\ refresh \in [Clients -> Kinds \cup {"idle", "exchange", "rotated exchange", "save", "saving"}]
    /\ memory \in [Clients -> {None} \cup Tokens]
    /\ memory[current] # None
    /\ saving \in [Clients -> {None} \cup Tokens]
    /\ db \in 1 .. issued
    /\ restarts \in 0 .. MaxRestarts
    /\ unsaved \subseteq Clients
    /\ lost \subseteq Clients
    /\ torn \in BOOLEAN

\* After a restart the bridge can go on with the login it saved: the identity provider
\* accepts the saved refresh token, whichever refresh rotated it last.  Not so while a
\* newer one is about to be saved, after a save that failed, and when one was lost: with
\* an answer that did not arrive, or one without a Graph token (graph_token.go).
SavedTokenAccepted ==
    \/ db \in valid
    \/ refresh[current] \in {"exchange", "rotated exchange", "save", "saving"}
    \/ current \in unsaved \cup lost
    \/ arriving # None /\ Following \in lost
    \/ torn

\* A client that was replaced does not save its tokens over the new login's, however
\* late its refresh ends ("its own refresh happens to succeed, saves the old tokens
\* over the new ones", superseded), unless the save had begun before.
NewLoginStays == torn \/ arriving # None \/ family[db] = current

=============================================================================
