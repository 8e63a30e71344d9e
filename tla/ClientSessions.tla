--------------------------- MODULE ClientSessions ---------------------------
(***************************************************************************)
(* Signing in and out of the web client, in several tabs of one browser:   *)
(* useStorefrontSession and useAdminSession over the two stores of         *)
(* storefront/session.ts and admin/session.ts (localStorage, which the     *)
(* tabs share, and sessionStorage, one per tab), and the redirects of      *)
(* App.tsx.  The two hooks differ in one thing only, the token their calls *)
(* carry, so "kind" says which of them is running.                         *)
(*                                                                         *)
(* A session restored from storage or just signed in is checked with       *)
(* GET /me by an effect that runs after the render.  Between a call and    *)
(* its answer this tab and the other tabs go on; leaving a session cancels *)
(* what its check would do.  Within a tab a state change and the           *)
(* cancellation it causes are one step.                                    *)
(*                                                                         *)
(* Abstractions: a session is its user and its token; passwords, names,    *)
(* roles and the public pages are left out; the server may refuse any      *)
(* token, expired or revoked; no bearer token is configured at build time. *)
(* Bounds: MaxTokens, MaxLoads.                                            *)
(***************************************************************************)
EXTENDS Naturals, FiniteSets

CONSTANTS
    Tabs,      \* tabs of the browser
    Users,     \* accounts that sign in
    None,      \* no session, no user
    Choices,   \* what "remember" may be set to at a sign-in
    MaxTokens, \* session tokens the server can issue
    MaxLoads   \* times a tab is opened or reloaded

ASSUME SessionsAssumption ==
    MaxTokens \in Nat /\ None \notin Users /\ MaxLoads \in Nat /\ Choices \subseteq BOOLEAN

VARIABLES
    kind,    \* "admin" or "storefront"
    remote,  \* isRemoteApiEnabled()
    owner,   \* server: whose token it is, None while it is not issued
    local,   \* localStorage
    temp,    \* sessionStorage of each tab
    shown,   \* React state: the session of each tab
    check,   \* the effect that checks it: off, due, or the call it made
    leaving, \* the token a sign-out is revoking, None when there is no sign-out
    loads,   \* times a tab was opened or reloaded
    route    \* what each tab shows: "login" or a "private" page

vars == <<kind, remote, owner, local, temp, shown, check, leaving, loads, route>>

Tokens == 1..MaxTokens
NoToken == 0        \* a session of the demo mode has none
NoCheck == [at |-> "off", token |-> NoToken]
DueCheck == [at |-> "due", token |-> NoToken]
Session == [user : Users, token : Tokens \cup {NoToken}]

---------------------------------------------------------------------------
(* The stores *)

\* readStoredSession: the persistent store is preferred.
Stored(t) == IF local # None THEN local ELSE temp[t]
TokenOf(session) == IF session = None THEN NoToken ELSE session.token

\* writeSession: one store is written and the other one cleared.
Write(t, session, persistent) ==
    /\ local' = IF persistent THEN session ELSE None
    /\ temp' = [temp EXCEPT ![t] = IF persistent THEN None ELSE session]

\* Mutant of Clear: only the persistent store is cleared.
ClearOne(t) == local' = None /\ UNCHANGED temp
Clear(t) == local' = None /\ temp' = [temp EXCEPT ![t] = None]

---------------------------------------------------------------------------
(* The check of a session *)

NeedsCheck(session) == remote /\ TokenOf(session) # NoToken
CheckOf(session) == IF NeedsCheck(session) THEN DueCheck ELSE NoCheck

\* A tab is opened or reloaded: the stored session is taken over, its check is due; a remote
\* session without a token (left by the demo mode) is dropped.
Mount(t) ==
    LET session == Stored(t)
        stale == remote /\ session # None /\ session.token = NoToken
    IN /\ loads < MaxLoads /\ loads' = loads + 1
       /\ IF stale THEN Clear(t) ELSE UNCHANGED <<local, temp>>
       /\ shown' = [shown EXCEPT ![t] = IF stale THEN None ELSE session]
       /\ check' = [check EXCEPT ![t] = CheckOf(session)]
       /\ leaving' = [leaving EXCEPT ![t] = None]
       /\ UNCHANGED <<kind, remote, owner, route>>

\* Mutant of CallToken: whatever is stored now, in both hooks.
CallTokenStored(t) == TokenOf(Stored(t))
\* The token a call of the hooks carries: the storefront names the session's, the admin hook
\* names none, so buildRequestHeaders takes whatever is stored now.
CallToken(t) == IF kind = "admin" THEN TokenOf(Stored(t)) ELSE shown[t].token

StartCheck(t) ==
    /\ check[t] = DueCheck
    /\ check' = [check EXCEPT ![t] = [at |-> "asked", token |-> CallToken(t)]]
    /\ UNCHANGED <<kind, remote, owner, local, temp, shown, leaving, loads, route>>

\* /me answered: the session takes over the account's data and is written to the persistent
\* store.
CheckPassed(t) ==
    /\ check[t].at = "asked" /\ check[t].token \in Tokens
    /\ LET session == [user |-> owner[check[t].token], token |-> shown[t].token]
       IN Write(t, session, TRUE) /\ shown' = [shown EXCEPT ![t] = session]
    /\ check' = [check EXCEPT ![t] = NoCheck]
    /\ UNCHANGED <<kind, remote, owner, leaving, loads, route>>

\* Mutant of CheckFailed: the check is made again.
CheckFailedRetrying(t) ==
    /\ check[t].at = "asked"
    /\ check' = [check EXCEPT ![t] = DueCheck]
    /\ UNCHANGED <<kind, remote, owner, local, temp, shown, leaving, loads, route>>

\* /me refused the token, or could not be reached: either way the session is cleared.
CheckFailed(t) ==
    /\ check[t].at = "asked"
    /\ Clear(t)
    /\ shown' = [shown EXCEPT ![t] = None]
    /\ check' = [check EXCEPT ![t] = NoCheck]
    /\ UNCHANGED <<kind, remote, owner, leaving, loads, route>>

---------------------------------------------------------------------------
(* Signing in and out *)

SignedIn(t, session, remember) ==
    /\ Write(t, session, remember)
    /\ shown' = [shown EXCEPT ![t] = session]
    /\ check' = [check EXCEPT ![t] = CheckOf(session)]
    /\ route' = [route EXCEPT ![t] = "private"]

\* signIn, and the buyer's signUp: the server issues a token.  One that fails, or whose
\* answer is lost, changes nothing here.
SignIn(t, u, remember) ==
    /\ route[t] = "login" /\ shown[t] = None
    /\ IF remote
       THEN \E token \in Tokens :
              /\ {k \in Tokens : owner[k] = None /\ k <= token} = {token}    \* the next one
              /\ owner' = [owner EXCEPT ![token] = u]
              /\ SignedIn(t, [user |-> u, token |-> token], remember)
       ELSE /\ SignedIn(t, [user |-> u, token |-> NoToken], remember)
            /\ UNCHANGED owner
    /\ UNCHANGED <<kind, remote, leaving, loads>>

\* signOut up to its await, and the navigation that does not wait for it.
StartSignOut(t) ==
    /\ route[t] = "private" /\ shown[t] # None /\ leaving[t] = None
    /\ route' = [route EXCEPT ![t] = "login"]
    /\ IF NeedsCheck(shown[t])
       THEN /\ leaving' = [leaving EXCEPT ![t] = CallToken(t)]
            /\ UNCHANGED <<local, temp, shown, check>>
       ELSE /\ Clear(t)
            /\ shown' = [shown EXCEPT ![t] = None]
            /\ check' = [check EXCEPT ![t] = NoCheck]
            /\ UNCHANGED leaving
    /\ UNCHANGED <<kind, remote, owner, loads>>

\* Mutant of FinishSignOut: the check of the session left goes on.
FinishSignOutOnly(t) ==
    /\ leaving[t] # None
    /\ leaving' = [leaving EXCEPT ![t] = None]
    /\ Clear(t)
    /\ shown' = [shown EXCEPT ![t] = None]
    /\ UNCHANGED <<kind, remote, owner, check, loads, route>>

\* The revocation was answered or failed: the local session is cleaned up in both cases.
FinishSignOut(t) ==
    /\ leaving[t] # None
    /\ leaving' = [leaving EXCEPT ![t] = None]
    /\ Clear(t)
    /\ shown' = [shown EXCEPT ![t] = None]
    /\ check' = [check EXCEPT ![t] = NoCheck]
    /\ UNCHANGED <<kind, remote, owner, loads, route>>

---------------------------------------------------------------------------
(* App.tsx *)

\* The effects on the route: a private page needs a session, the login page none.
Redirect(t) ==
    /\ \/ route[t] = "private" /\ shown[t] = None /\ route' = [route EXCEPT ![t] = "login"]
       \/ route[t] = "login" /\ shown[t] # None /\ route' = [route EXCEPT ![t] = "private"]
    /\ UNCHANGED <<kind, remote, owner, local, temp, shown, check, leaving, loads>>

Navigate(t) ==
    /\ route' \in {[route EXCEPT ![t] = r] : r \in {"login", "private"} \ {route[t]}}
    /\ UNCHANGED <<kind, remote, owner, local, temp, shown, check, leaving, loads>>

Init ==
    /\ remote \in BOOLEAN /\ kind \in {"storefront"} \cup (IF remote THEN {"admin"} ELSE {})
    /\ owner = [k \in Tokens |-> None]
    /\ \/ local = None
       \/ TRUE \in Choices /\ \E u \in Users : local = [user |-> u, token |-> NoToken]
    /\ temp = [t \in Tabs |-> None] /\ shown = [t \in Tabs |-> None]
    /\ check = [t \in Tabs |-> NoCheck] /\ leaving = [t \in Tabs |-> None]
    /\ loads = 0 /\ route = [t \in Tabs |-> "login"]

Settle(t) == StartCheck(t) \/ CheckPassed(t) \/ CheckFailed(t) \/ FinishSignOut(t)

TabStep(t) == \/ Mount(t) \/ Settle(t) \/ StartSignOut(t) \/ Redirect(t) \/ Navigate(t)
              \/ \E u \in Users, remember \in Choices : SignIn(t, u, remember)

Next == \E t \in Tabs : TabStep(t)

\* Effects run after the render that owes them; the browser answers or gives up every call.
Spec == Init /\ [][Next]_vars
             /\ \A t \in Tabs : /\ WF_vars(StartCheck(t)) /\ WF_vars(CheckPassed(t) \/ CheckFailed(t))

---------------------------------------------------------------------------
\* The variables keep to their types, and a check is of a session the tab shows: a sign-out or a
\* reload that takes the session away takes its check away.
TypeOK ==
    /\ kind \in {"admin", "storefront"} /\ remote \in BOOLEAN
    /\ owner \in [Tokens -> Users \cup {None}]
    /\ local \in Session \cup {None}
    /\ temp \in [Tabs -> Session \cup {None}]
    /\ shown \in [Tabs -> Session \cup {None}]
    /\ check \in [Tabs -> [at : {"off", "due", "asked"}, token : Tokens \cup {NoToken}]]
    /\ \A t \in Tabs : check[t] # NoCheck => shown[t] # None
    /\ leaving \in [Tabs -> Tokens \cup {NoToken, None}]
    /\ loads \in 0..MaxLoads
    /\ route \in [Tabs -> {"login", "private"}]

\* The storefront never shows or stores one account under another account's token, whatever
\* the other tabs do meanwhile: the answer of /me describes the token it is written with.
BuyerIsOwner ==
    (kind = "storefront" /\ remote) =>
        \A session \in {local} \cup {shown[t] : t \in Tabs} \cup {temp[t] : t \in Tabs} :
            TokenOf(session) \in Tokens => session.user = owner[session.token]

\* A tab that shows the session its calls carry stops doing so only by a step of another tab:
\* its own sign-ins, checks and sign-outs keep what it shows and what is stored together.
Agrees(t) == shown[t] = Stored(t)
OnlyOtherTabsDisagree ==
    [][\A t \in Tabs : (Agrees(t) /\ ~Agrees(t)') => \E s \in Tabs \ {t} : TabStep(s)]_vars

\* A restored session does not stay unchecked: it is confirmed or cleared.
SessionsAreChecked == \A t \in Tabs : (check[t] # NoCheck) ~> (check[t] = NoCheck)

=============================================================================
