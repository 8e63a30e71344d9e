----------------------- MODULE ClientSessions_proofs -----------------------
(***************************************************************************)
(* TypeOK, BuyerIsOwner and OnlyOtherTabsDisagree of ClientSessions, for   *)
(* any number of tabs, accounts and tokens.                                *)
(* BuyerIsOwner is not inductive: the answer of /me is written next to the *)
(* token shown, so the check under way has to be about that token          *)
(* (ChecksItsOwn), and a token stored somewhere must have been issued, or  *)
(* a later sign-in would give it to somebody else (StoresGenuine,          *)
(* ChecksIssued).  OnlyOtherTabsDisagree needs the types alone.            *)
(***************************************************************************)
EXTENDS ClientSessions, TLAPS

\* The session's token was issued, and the storefront shows it with the account it was issued to.
Genuine(session, issued) ==
    TokenOf(session) \in Tokens =>
        /\ issued[TokenOf(session)] \in Users
        /\ kind = "storefront" => session.user = issued[TokenOf(session)]

StoresGenuine == /\ Genuine(local, owner)
                 /\ \A t \in Tabs : Genuine(temp[t], owner) /\ Genuine(shown[t], owner)
ChecksIssued == \A t \in Tabs : check[t].token \in Tokens => owner[check[t].token] \in Users
ChecksItsOwn == kind = "storefront" =>
                  \A t \in Tabs : check[t].at = "asked" => check[t].token = shown[t].token

IInv == TypeOK /\ StoresGenuine /\ ChecksIssued /\ ChecksItsOwn

---------------------------------------------------------------------------
(* The operators the hooks are built from *)

LEMMA NothingToCheck == Genuine(None, owner) /\ CheckOf(None) = NoCheck
BY SessionsAssumption DEF Genuine, TokenOf, NoToken, Tokens, CheckOf, NeedsCheck

LEMMA ChecksAreTyped ==
    ASSUME NEW session, session \in Session \cup {None}
    PROVE  /\ CheckOf(session) \in [at : {"off", "due", "asked"}, token : Tokens \cup {NoToken}]
           /\ CheckOf(session) # NoCheck => session # None
           /\ CheckOf(session).at # "asked" /\ CheckOf(session).token = NoToken
BY DEF CheckOf, NeedsCheck, DueCheck, NoCheck, TokenOf, NoToken

LEMMA NoTokenIsNone == NoToken \notin Tokens
BY SessionsAssumption DEF NoToken, Tokens

LEMMA StoredIsGenuine ==
    ASSUME IInv, NEW t \in Tabs
    PROVE  Stored(t) \in Session \cup {None} /\ Genuine(Stored(t), owner)
BY DEF IInv, TypeOK, StoresGenuine, Stored

LEMMA CallTokenIsIssued ==
    ASSUME IInv, NEW t \in Tabs, shown[t] # None
    PROVE  /\ CallToken(t) \in Tokens \cup {NoToken}
           /\ CallToken(t) \in Tokens => owner[CallToken(t)] \in Users
<1>1. shown[t] \in Session /\ Genuine(shown[t], owner)
  BY DEF IInv, TypeOK, StoresGenuine
<1>2. TokenOf(shown[t]) = shown[t].token /\ shown[t].token \in Tokens \cup {NoToken}
  BY <1>1 DEF TokenOf, Session
<1>3. Stored(t) \in Session \cup {None} /\ Genuine(Stored(t), owner)
  BY StoredIsGenuine
<1>4. TokenOf(Stored(t)) \in Tokens \cup {NoToken}
  BY <1>3 DEF TokenOf, Session
<1> QED BY <1>1, <1>2, <1>3, <1>4 DEF CallToken, Genuine

---------------------------------------------------------------------------
(* The steps of a tab *)

LEMMA MountStep == ASSUME IInv, NEW t \in Tabs, Mount(t) PROVE IInv'
<1> DEFINE session == Stored(t)
           gone == remote /\ session # None /\ session.token = NoToken
<1>1. session \in Session \cup {None} /\ Genuine(session, owner)
  BY StoredIsGenuine
<1>2. /\ loads < MaxLoads /\ loads' = loads + 1
      /\ (gone /\ Clear(t)) \/ (~gone /\ UNCHANGED <<local, temp>>)
      /\ shown' = [shown EXCEPT ![t] = IF gone THEN None ELSE session]
      /\ check' = [check EXCEPT ![t] = CheckOf(session)]
      /\ leaving' = [leaving EXCEPT ![t] = None]
      /\ UNCHANGED <<kind, remote, owner, route>>
  BY DEF Mount
<1>3. gone => CheckOf(session) = NoCheck
  BY <1>1 DEF CheckOf, NeedsCheck, TokenOf
<1>4. /\ local' \in {local, None}
      /\ \A s \in Tabs : temp'[s] \in {temp[s], None}
      /\ temp' \in [Tabs -> Session \cup {None}]
  BY <1>2 DEF Clear, IInv, TypeOK
<1>5. TypeOK'
  <2>1. /\ shown' \in [Tabs -> Session \cup {None}]
        /\ check' \in [Tabs -> [at : {"off", "due", "asked"}, token : Tokens \cup {NoToken}]]
    BY <1>1, <1>2, ChecksAreTyped DEF IInv, TypeOK
  <2>2. \A s \in Tabs : check'[s] # NoCheck => shown'[s] # None
    BY <1>1, <1>2, <1>3, ChecksAreTyped DEF IInv, TypeOK
  <2>3. /\ leaving' \in [Tabs -> Tokens \cup {NoToken, None}]
        /\ loads' \in 0..MaxLoads
    BY <1>2, SessionsAssumption DEF IInv, TypeOK
  <2>4. local' \in Session \cup {None}
    BY <1>4 DEF IInv, TypeOK
  <2> QED BY <1>2, <1>4, <2>1, <2>2, <2>3, <2>4 DEF IInv, TypeOK, NoCheck, Session, Tokens, NoToken
<1>6. StoresGenuine'
  BY <1>1, <1>2, <1>4, NothingToCheck DEF IInv, TypeOK, StoresGenuine, Genuine
<1>7. ChecksIssued' /\ ChecksItsOwn'
  BY <1>1, <1>2, ChecksAreTyped, NoTokenIsNone DEF IInv, TypeOK, ChecksIssued, ChecksItsOwn
<1> QED BY <1>5, <1>6, <1>7 DEF IInv

LEMMA StartCheckStep == ASSUME IInv, NEW t \in Tabs, StartCheck(t) PROVE IInv'
<1>1. shown[t] # None
  BY DEF StartCheck, IInv, TypeOK, DueCheck, NoCheck
<1>2. /\ check' = [check EXCEPT ![t] = [at |-> "asked", token |-> CallToken(t)]]
      /\ UNCHANGED <<kind, remote, owner, local, temp, shown, leaving, loads, route>>
  BY DEF StartCheck
<1>3. TypeOK'
  BY <1>1, <1>2, CallTokenIsIssued DEF IInv, TypeOK
<1>4. StoresGenuine'
  BY <1>2 DEF IInv, StoresGenuine, Genuine
<1>5. ChecksIssued'
  BY <1>1, <1>2, CallTokenIsIssued DEF IInv, TypeOK, ChecksIssued
<1>6. ChecksItsOwn'
  BY <1>2 DEF IInv, TypeOK, ChecksItsOwn, CallToken
<1> QED BY <1>3, <1>4, <1>5, <1>6 DEF IInv

LEMMA CheckPassedStep == ASSUME IInv, NEW t \in Tabs, CheckPassed(t) PROVE IInv'
<1> DEFINE session == [user |-> owner[check[t].token], token |-> shown[t].token]
<1>1. /\ check[t].at = "asked" /\ check[t].token \in Tokens
      /\ local' = session
      /\ temp' = [temp EXCEPT ![t] = None]
      /\ shown' = [shown EXCEPT ![t] = session]
      /\ check' = [check EXCEPT ![t] = NoCheck]
      /\ UNCHANGED <<kind, remote, owner, leaving, loads, route>>
  BY DEF CheckPassed, Write
<1>2. shown[t] \in Session /\ shown[t].token \in Tokens \cup {NoToken}
  BY <1>1 DEF IInv, TypeOK, NoCheck, Session
<1>3. session \in Session
  BY <1>1, <1>2 DEF IInv, ChecksIssued, Session
<1>4. Genuine(session, owner)
  <2>1. TokenOf(session) \in Tokens => TokenOf(session) = shown[t].token
    BY NoTokenIsNone DEF TokenOf
  <2>2. TokenOf(session) \in Tokens => TokenOf(shown[t]) = shown[t].token
    BY <1>1, <1>2 DEF IInv, TypeOK, NoCheck, TokenOf
  <2>3. TokenOf(session) \in Tokens => owner[TokenOf(session)] \in Users
    BY <2>1, <2>2 DEF IInv, StoresGenuine, Genuine
  <2>4. kind = "storefront" => check[t].token = shown[t].token
    BY <1>1 DEF IInv, ChecksItsOwn
  <2> QED BY <2>1, <2>3, <2>4 DEF Genuine
<1>5. TypeOK'
  BY <1>1, <1>3 DEF IInv, TypeOK, NoCheck
<1>6. StoresGenuine'
  BY <1>1, <1>4, NothingToCheck DEF IInv, TypeOK, StoresGenuine, Genuine
<1>7. ChecksIssued' /\ ChecksItsOwn'
  BY <1>1, NoTokenIsNone DEF IInv, TypeOK, ChecksIssued, ChecksItsOwn, NoCheck
<1> QED BY <1>5, <1>6, <1>7 DEF IInv

\* A session is taken away: by a failed check, by a sign-out at once or after the revocation.
LEMMA ClearStep ==
    ASSUME IInv, NEW t \in Tabs, Clear(t),
           shown' = [shown EXCEPT ![t] = None], check' = [check EXCEPT ![t] = NoCheck],
           leaving' \in [Tabs -> Tokens \cup {NoToken, None}],
           route' \in [Tabs -> {"login", "private"}],
           UNCHANGED <<kind, remote, owner, loads>>
    PROVE  IInv'
<1>1. local' = None /\ temp' = [temp EXCEPT ![t] = None]
  BY DEF Clear
<1>2. TypeOK'
  BY <1>1 DEF IInv, TypeOK, NoCheck
<1>3. StoresGenuine'
  BY <1>1, NothingToCheck DEF IInv, TypeOK, StoresGenuine, Genuine
<1>4. ChecksIssued' /\ ChecksItsOwn'
  BY NoTokenIsNone DEF IInv, TypeOK, ChecksIssued, ChecksItsOwn, NoCheck
<1> QED BY <1>2, <1>3, <1>4 DEF IInv

\* A session whose token is genuine once "issued" are the owners is signed in.
LEMMA SignedInStep ==
    ASSUME IInv, NEW t \in Tabs, NEW session \in Session, NEW remember \in BOOLEAN,
           SignedIn(t, session, remember), Genuine(session, owner'),
           owner' \in [Tokens -> Users \cup {None}],
           \A k \in Tokens : owner[k] \in Users => owner'[k] = owner[k],
           UNCHANGED <<kind, remote, leaving, loads>>
    PROVE  IInv'
<1>1. /\ local' \in {session, None}
      /\ temp' \in [Tabs -> Session \cup {None}]
      /\ \A s \in Tabs : temp'[s] \in {temp[s], session, None}
  BY DEF SignedIn, Write, IInv, TypeOK
<1>2. /\ shown' = [shown EXCEPT ![t] = session]
      /\ check' = [check EXCEPT ![t] = CheckOf(session)]
      /\ route' = [route EXCEPT ![t] = "private"]
  BY DEF SignedIn
<1>3. TypeOK'
  BY <1>1, <1>2, ChecksAreTyped DEF IInv, TypeOK
<1>4. Genuine(None, owner')
  BY NoTokenIsNone DEF Genuine, TokenOf
<1>5. \A old : Genuine(old, owner) => Genuine(old, owner')
  BY DEF Genuine
<1>6. StoresGenuine'
  <2>1. Genuine(local', owner') /\ \A s \in Tabs : Genuine(temp'[s], owner')
    BY <1>1, <1>4, <1>5 DEF IInv, StoresGenuine
  <2>2. \A s \in Tabs : Genuine(shown'[s], owner')
    BY <1>2, <1>5 DEF IInv, TypeOK, StoresGenuine
  <2> QED BY <2>1, <2>2 DEF StoresGenuine, Genuine
<1>7. ChecksIssued' /\ ChecksItsOwn'
  BY <1>2, ChecksAreTyped, NoTokenIsNone DEF IInv, TypeOK, ChecksIssued, ChecksItsOwn
<1> QED BY <1>3, <1>6, <1>7 DEF IInv

LEMMA SignInStep ==
    ASSUME IInv, NEW t \in Tabs, NEW u \in Users, NEW remember \in BOOLEAN, SignIn(t, u, remember)
    PROVE  IInv'
<1>1. UNCHANGED <<kind, remote, leaving, loads>>
  BY DEF SignIn
<1>2. CASE remote
  <2>1. PICK token \in Tokens :
            /\ owner[token] = None
            /\ owner' = [owner EXCEPT ![token] = u]
            /\ SignedIn(t, [user |-> u, token |-> token], remember)
    BY <1>2 DEF SignIn
  <2> DEFINE session == [user |-> u, token |-> token]
  <2>2. session \in Session
    BY DEF Session
  <2>3. /\ owner' \in [Tokens -> Users \cup {None}]
        /\ owner'[token] = u
        /\ \A k \in Tokens : owner[k] \in Users => owner'[k] = owner[k]
    BY <2>1, SessionsAssumption DEF IInv, TypeOK
  <2>4. Genuine(session, owner')
    BY <2>3, NoTokenIsNone DEF Genuine, TokenOf
  <2> QED BY <1>1, <2>1, <2>2, <2>3, <2>4, SignedInStep
<1>3. CASE ~remote
  <2> DEFINE session == [user |-> u, token |-> NoToken]
  <2>1. SignedIn(t, session, remember) /\ UNCHANGED owner
    BY <1>3 DEF SignIn
  <2>2. session \in Session
    BY DEF Session
  <2>3. Genuine(session, owner')
    BY NoTokenIsNone DEF Genuine, TokenOf
  <2> QED BY <1>1, <2>1, <2>2, <2>3, SignedInStep DEF IInv, TypeOK
<1> QED BY <1>2, <1>3

LEMMA StartSignOutStep == ASSUME IInv, NEW t \in Tabs, StartSignOut(t) PROVE IInv'
<1>1. /\ shown[t] # None
      /\ route' = [route EXCEPT ![t] = "login"]
      /\ UNCHANGED <<kind, remote, owner, loads>>
  BY DEF StartSignOut
<1>2. route' \in [Tabs -> {"login", "private"}]
  BY <1>1 DEF IInv, TypeOK
<1>3. CASE NeedsCheck(shown[t])
  <2>1. /\ leaving' = [leaving EXCEPT ![t] = CallToken(t)]
        /\ UNCHANGED <<local, temp, shown, check>>
    BY <1>3 DEF StartSignOut
  <2>2. TypeOK'
    BY <1>1, <1>2, <2>1, CallTokenIsIssued DEF IInv, TypeOK
  <2> QED BY <1>1, <2>1, <2>2 DEF IInv, StoresGenuine, Genuine, ChecksIssued, ChecksItsOwn
<1>4. CASE ~NeedsCheck(shown[t])
  <2>1. /\ Clear(t)
        /\ shown' = [shown EXCEPT ![t] = None]
        /\ check' = [check EXCEPT ![t] = NoCheck]
        /\ UNCHANGED leaving
    BY <1>4 DEF StartSignOut
  <2>2. leaving' \in [Tabs -> Tokens \cup {NoToken, None}]
    BY <2>1 DEF IInv, TypeOK
  <2> QED BY <1>1, <1>2, <2>1, <2>2, ClearStep
<1> QED BY <1>3, <1>4

\* The page a tab is on has no part in the invariant.
LEMMA RouteStep ==
    ASSUME IInv, NEW t \in Tabs, Redirect(t) \/ Navigate(t)
    PROVE  IInv'
<1>1. /\ route' \in [Tabs -> {"login", "private"}]
      /\ UNCHANGED <<kind, remote, owner, local, temp, shown, check, leaving, loads>>
  BY DEF Redirect, Navigate, IInv, TypeOK
<1>2. TypeOK'
  BY <1>1 DEF IInv, TypeOK
<1> QED BY <1>1, <1>2 DEF IInv, StoresGenuine, Genuine, ChecksIssued, ChecksItsOwn

---------------------------------------------------------------------------

LEMMA InitInv == Init => IInv
<1> SUFFICES ASSUME Init PROVE IInv
  OBVIOUS
<1>0. local \in Session \cup {None} /\ TokenOf(local) = NoToken
  <2>1. CASE local = None
    BY <2>1 DEF TokenOf
  <2>2. CASE \E u \in Users : local = [user |-> u, token |-> NoToken]
    <3>1. PICK u \in Users : local = [user |-> u, token |-> NoToken]
      BY <2>2
    <3>2. local \in Session /\ local.token = NoToken
      BY <3>1 DEF Session
    <3> QED BY <3>2 DEF TokenOf
  <2> QED BY <2>1, <2>2 DEF Init
<1>1. TypeOK
  <2>1. kind \in {"admin", "storefront"} /\ remote \in BOOLEAN
    BY DEF Init
  <2>2. loads \in 0..MaxLoads
    BY SessionsAssumption DEF Init
  <2>3. \A t \in Tabs : check[t] = NoCheck
    BY DEF Init
  <2>4. /\ temp \in [Tabs -> Session \cup {None}] /\ shown \in [Tabs -> Session \cup {None}]
        /\ owner \in [Tokens -> Users \cup {None}]
    BY DEF Init
  <2>5. /\ check \in [Tabs -> [at : {"off", "due", "asked"}, token : Tokens \cup {NoToken}]]
        /\ leaving \in [Tabs -> Tokens \cup {NoToken, None}]
        /\ route \in [Tabs -> {"login", "private"}]
    BY DEF Init, NoCheck
  <2> QED BY <1>0, <2>1, <2>2, <2>3, <2>4, <2>5 DEF TypeOK
<1>2. StoresGenuine
  <2>1. \A t \in Tabs : TokenOf(temp[t]) = NoToken /\ TokenOf(shown[t]) = NoToken
    BY DEF Init, TokenOf
  <2> QED BY <1>0, <2>1, NoTokenIsNone DEF StoresGenuine, Genuine
<1>3. ChecksIssued /\ ChecksItsOwn
  BY NoTokenIsNone DEF Init, ChecksIssued, ChecksItsOwn, NoCheck
<1> QED BY <1>1, <1>2, <1>3 DEF IInv

LEMMA NextInv == IInv /\ [Next]_vars => IInv'
<1> SUFFICES ASSUME IInv, [Next]_vars PROVE IInv'
  OBVIOUS
<1>1. CASE UNCHANGED vars
  BY <1>1 DEF vars, IInv, TypeOK, StoresGenuine, Genuine, ChecksIssued, ChecksItsOwn
<1>2. CASE Next
  <2>1. PICK t \in Tabs : TabStep(t)
    BY <1>2 DEF Next
  <2>2. CASE Mount(t)
    BY <2>2, MountStep
  <2>3. CASE StartCheck(t)
    BY <2>3, StartCheckStep
  <2>4. CASE CheckPassed(t)
    BY <2>4, CheckPassedStep
  <2>5. CASE CheckFailed(t)
    BY <2>5, ClearStep DEF CheckFailed, IInv, TypeOK
  <2>6. CASE FinishSignOut(t)
    <3>1. leaving' \in [Tabs -> Tokens \cup {NoToken, None}]
      BY <2>6 DEF FinishSignOut, IInv, TypeOK
    <3> QED BY <2>6, <3>1, ClearStep DEF FinishSignOut, IInv, TypeOK
  <2>7. CASE StartSignOut(t)
    BY <2>7, StartSignOutStep
  <2>8. CASE Redirect(t) \/ Navigate(t)
    BY <2>8, RouteStep
  <2>9. CASE \E u \in Users, remember \in Choices : SignIn(t, u, remember)
    BY <2>9, SignInStep, SessionsAssumption
  <2> QED BY <2>1, <2>2, <2>3, <2>4, <2>5, <2>6, <2>7, <2>8, <2>9 DEF TabStep, Settle
<1> QED BY <1>1, <1>2

LEMMA InvImplies == IInv => BuyerIsOwner
<1> SUFFICES ASSUME IInv, kind = "storefront",
                    NEW session \in {local} \cup {shown[t] : t \in Tabs} \cup {temp[t] : t \in Tabs},
                    TokenOf(session) \in Tokens
             PROVE  session.user = owner[session.token]
  BY DEF BuyerIsOwner
<1>1. Genuine(session, owner)
  BY DEF IInv, StoresGenuine
<1>2. TokenOf(session) = session.token
  BY NoTokenIsNone DEF TokenOf
<1> QED BY <1>1, <1>2 DEF Genuine

\* The variables of the hooks keep to their types, and a check under way is always of a session
\* the tab shows: whatever takes a session away (a failed check, a sign-out, a reload) takes its
\* check away, in useStorefrontSession and useAdminSession alike.
THEOREM SessionsTyped == Spec => []TypeOK
<1>1. Init => IInv
  BY InitInv
<1>2. IInv /\ [Next]_vars => IInv'
  BY NextInv
<1>3. IInv => TypeOK
  BY DEF IInv
<1> QED BY <1>1, <1>2, <1>3, PTL DEF Spec

\* The storefront never shows or stores one account under another account's token, for any
\* number of tabs that sign in, out and reload while sessions are being checked.
THEOREM BuyerIsAlwaysOwner == Spec => []BuyerIsOwner
<1>1. Init => IInv
  BY InitInv
<1>2. IInv /\ [Next]_vars => IInv'
  BY NextInv
<1>3. IInv => BuyerIsOwner
  BY InvImplies
<1> QED BY <1>1, <1>2, <1>3, PTL DEF Spec

---------------------------------------------------------------------------
(* What a tab shows and what is stored for it *)

\* What is read back from the stores when they hold these values.
LEMMA StoredTogether ==
    ASSUME NEW t \in Tabs, NEW session, shown \in [Tabs -> Session \cup {None}],
           temp \in [Tabs -> Session \cup {None}], shown' = [shown EXCEPT ![t] = session],
           \/ local' = session /\ temp' = [temp EXCEPT ![t] = None]
           \/ local' = None /\ temp' = [temp EXCEPT ![t] = session]
    PROVE  Agrees(t)'
<1>1. shown'[t] = session
  OBVIOUS
<1>2. \/ local' = session /\ temp'[t] = None
      \/ local' = None /\ temp'[t] = session
  OBVIOUS
<1> QED BY <1>1, <1>2 DEF Agrees, Stored

\* A step that touches neither the stores nor what is shown keeps them together.
LEMMA StillTogether ==
    ASSUME NEW t \in Tabs, Agrees(t), UNCHANGED <<local, temp, shown>>
    PROVE  Agrees(t)'
BY DEF Agrees, Stored

\* No step of a tab leaves what it shows apart from what is stored for it.
LEMMA OwnStepAgrees ==
    ASSUME IInv, NEW t \in Tabs, Agrees(t), TabStep(t)
    PROVE  Agrees(t)'
<1>0. shown \in [Tabs -> Session \cup {None}] /\ temp \in [Tabs -> Session \cup {None}]
  BY DEF IInv, TypeOK
<1>1. CASE Mount(t)
  <2> DEFINE gone == remote /\ Stored(t) # None /\ Stored(t).token = NoToken
  <2>1. CASE gone
    BY <1>0, <1>1, <2>1, StoredTogether DEF Mount, Clear
  <2>2. CASE ~gone
    <3>1. UNCHANGED <<local, temp>> /\ shown' = [shown EXCEPT ![t] = Stored(t)]
      BY <1>1, <2>2 DEF Mount
    <3> QED BY <1>0, <3>1 DEF Agrees, Stored
  <2> QED BY <2>1, <2>2
<1>2. CASE StartCheck(t) \/ Redirect(t) \/ Navigate(t)
  BY <1>2, StillTogether DEF StartCheck, Redirect, Navigate
<1>3. CASE CheckPassed(t)
  <2> DEFINE session == [user |-> owner[check[t].token], token |-> shown[t].token]
  <2>1. /\ shown' = [shown EXCEPT ![t] = session]
        /\ local' = session /\ temp' = [temp EXCEPT ![t] = None]
    BY <1>3 DEF CheckPassed, Write
  <2> QED BY <1>0, <2>1, StoredTogether
<1>4. CASE CheckFailed(t) \/ FinishSignOut(t)
  BY <1>0, <1>4, StoredTogether DEF CheckFailed, FinishSignOut, Clear
<1>5. CASE StartSignOut(t)
  <2>1. CASE NeedsCheck(shown[t])
    BY <1>5, <2>1, StillTogether DEF StartSignOut
  <2>2. CASE ~NeedsCheck(shown[t])
    BY <1>0, <1>5, <2>2, StoredTogether DEF StartSignOut, Clear
  <2> QED BY <2>1, <2>2
<1>6. CASE \E u \in Users, remember \in Choices : SignIn(t, u, remember)
  <2>1. PICK u \in Users, remember \in Choices : SignIn(t, u, remember)
    BY <1>6
  <2>2. remember \in BOOLEAN
    BY SessionsAssumption
  <2>3. \E token : SignedIn(t, [user |-> u, token |-> token], remember)
    BY <2>1 DEF SignIn
  <2>4. PICK session : SignedIn(t, session, remember)
    BY <2>3
  <2>5. /\ shown' = [shown EXCEPT ![t] = session]
        /\ \/ local' = session /\ temp' = [temp EXCEPT ![t] = None]
           \/ local' = None /\ temp' = [temp EXCEPT ![t] = session]
    BY <2>2, <2>4 DEF SignedIn, Write
  <2> QED BY <1>0, <2>5, StoredTogether
<1> QED BY <1>1, <1>2, <1>3, <1>4, <1>5, <1>6 DEF TabStep, Settle

ByOthers == [\A t \in Tabs : (Agrees(t) /\ ~Agrees(t)') => \E s \in Tabs \ {t} : TabStep(s)]_vars

LEMMA AgreementStep == IInv /\ [Next]_vars => ByOthers
<1> SUFFICES ASSUME IInv, [Next]_vars, ~UNCHANGED vars,
                    NEW t \in Tabs, Agrees(t), ~Agrees(t)'
             PROVE  \E s \in Tabs \ {t} : TabStep(s)
  BY DEF ByOthers
<1>1. PICK s \in Tabs : TabStep(s)
  BY DEF Next
<1>2. s # t
  BY <1>1, OwnStepAgrees
<1> QED BY <1>1, <1>2

\* A tab's own sign-ins, checks, reloads and sign-outs keep what it shows and what is stored
\* together, for any number of tabs: when a tab's calls stop carrying the session it shows,
\* another tab has written or cleared the store the tabs share.
THEOREM OnlyOthersDisagree == Spec => OnlyOtherTabsDisagree
<1>1. Init => IInv
  BY InitInv
<1>2. IInv /\ [Next]_vars => IInv' /\ ByOthers
  BY NextInv, AgreementStep
<1>3. ByOthers => [\A t \in Tabs : (Agrees(t) /\ ~Agrees(t)')
                                      => \E s \in Tabs \ {t} : TabStep(s)]_vars
  BY DEF ByOthers
<1> QED BY <1>1, <1>2, <1>3, PTL DEF Spec, OnlyOtherTabsDisagree
=============================================================================
