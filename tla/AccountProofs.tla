--------------------------- MODULE AccountProofs ---------------------------
(***************************************************************************)
(* Proofs about what an account does: it signs in (Sessions,               *)
(* LoginLimiter), translates courses (Translations), takes assessments     *)
(* (LearnerAttempt), completes courses and is given certificates           *)
(* (CertificateIssuance), and talks about them (Community).  They hold for *)
(* any users, requests, and whatever rows the requests write.              *)
(***************************************************************************)
EXTENDS Sessions, LoginLimiter, Translations, LearnerAttempt, CertificateIssuance, Community,
        TLAPS, FiniteSetTheorems, SequenceTheorems, WellFoundedInduction

-----------------------------------------------------------------------------
(***************************************************************************)
(* Sessions                                                                *)
(*                                                                         *)
(* A request passes the middlewares one after the other, each of which     *)
(* finds one condition.  An account is never removed, a session keeps its  *)
(* user, and a condition that a request has found to hold is none that it  *)
(* misses, however the tables change while it goes on.                     *)
(***************************************************************************)

\* The steps behind each middleware.
PastSession == {"found", "resolved", "verified", "authorized", "uninitialised", "lost", "executed"}

PastAccount == PastSession \ {"found"}

Authenticating == {"authenticated", "rechecked"}

\* A request carries the user of its session, misses nothing that holds now, and has
\* passed what stands before its step.
CallForm(p) ==
    LET c == call[p] IN
    /\ c.step \in Authenticating => c.user \in Users
    /\ c.user # None => account[c.user] # None
    /\ c.step \notin Authenticating \cup {"idle"} =>
          /\ c.session \in Sessions /\ session[c.session] # None
          /\ c.user = session[c.session].user /\ c.user \in Users /\ c.route \in Routes
          /\ IsLive(c.session) => "session" \notin c.missing
          /\ IsActive(c.user) => "account" \notin c.missing
          /\ HasActiveGlobalRole(c.user) => "role" \notin c.missing
    /\ c.step \in PastSession => "session" \notin c.missing
    /\ c.step \in PastAccount => "account" \notin c.missing
    /\ c.step = "authorized" \/ (c.step = "executed" /\ Middleware[c.route].capability)
          => "role" \notin c.missing

\* Every session is of an account.
SessionsHaveUsers == \A s \in Sessions : session[s] # None => account[session[s].user] # None

SessionsInv ==
    /\ SessionsTypeOK
    /\ TabsAgree
    /\ SessionsHaveUsers
    /\ \A p \in Requests : CallForm(p)

-----------------------------------------------------------------------------
(* Steps that change the tables *)

\* Accounts stay; sessions stay, with their users, and what has ended stays ended.
AccountsStay == \A u \in Users : account[u] # None => account'[u] # None

SessionsStay ==
    \A s \in Sessions : session[s] # None =>
        /\ session'[s] # None /\ session'[s].user = session[s].user
        /\ session'[s].open => session[s].open
        /\ session[s].expired => session'[s].expired

\* A request that is told of what begins to hold keeps its form.
LEMMA CallLater ==
  ASSUME SessionsTypeOK, NEW p \in Requests, CallForm(p), AccountsStay, SessionsStay,
         call'[p].step = call[p].step, call'[p].route = call[p].route,
         call'[p].user = call[p].user, call'[p].session = call[p].session,
         call'[p].missing \subseteq call[p].missing,
         call[p].user \in Users => 
            /\ IsActive(call[p].user)' => IsActive(call[p].user) \/ "account" \notin call'[p].missing
            /\ HasActiveGlobalRole(call[p].user)' =>
                  HasActiveGlobalRole(call[p].user) \/ "role" \notin call'[p].missing
  PROVE  CallForm(p)'
<1>1. call[p] \in Call /\ session \in [Sessions -> Session \cup {None}]
  BY DEF SessionsTypeOK
<1>2. call[p].user \in Users \cup {None}
  BY <1>1 DEF Call
<1>3. ASSUME call[p].session \in Sessions, session[call[p].session] # None
      PROVE  IsLive(call[p].session)' => IsLive(call[p].session)
  BY <1>1, <1>3 DEF IsLive, SessionsStay, Session
<1>4. call'[p].user # None => account'[call'[p].user] # None
  BY <1>2 DEF CallForm, AccountsStay
<1>5. call'[p].step \notin Authenticating \cup {"idle"} =>
          /\ call'[p].session \in Sessions /\ session'[call'[p].session] # None
          /\ call'[p].user = session'[call'[p].session].user /\ call'[p].user \in Users
          /\ call'[p].route \in Routes
          /\ IsLive(call[p].session)' => "session" \notin call'[p].missing
          /\ IsActive(call[p].user)' => "account" \notin call'[p].missing
          /\ HasActiveGlobalRole(call[p].user)' => "role" \notin call'[p].missing
  BY <1>2, <1>3 DEF CallForm, SessionsStay
<1> QED BY <1>4, <1>5 DEF CallForm, PastSession, PastAccount

\* A session keeps its user, and an account is never removed.
LEMMA UsersStay ==
  ASSUME SessionsTypeOK, SessionsHaveUsers, AccountsStay,
         \A s \in Sessions : session'[s] # None =>
            \/ session[s] # None /\ session'[s].user = session[s].user
            \/ session'[s].user \in Users /\ account'[session'[s].user] # None
  PROVE  SessionsHaveUsers'
<1>1. \A s \in Sessions : session[s] # None => session[s].user \in Users
  BY DEF SessionsTypeOK, Session
<1> QED BY <1>1 DEF SessionsHaveUsers, AccountsStay

\* Steps of one request that leave accounts and sessions alone.
LEMMA CallMoves ==
  ASSUME SessionsInv, NEW p \in Requests, NEW c \in Call, UNCHANGED <<account, session>>,
         audit' \in Audit, answered' \in [Sessions -> SUBSET Tokens], TabsAgree',
         call' = [call EXCEPT ![p] = c], CallForm(p)'
  PROVE  SessionsInv'
<1>1. SessionsTypeOK'
  BY DEF SessionsInv, SessionsTypeOK
<1>2. SessionsHaveUsers'
  BY DEF SessionsInv, SessionsHaveUsers
<1>3. \A q \in Requests : CallForm(q)'
  <2> TAKE q \in Requests
  <2>1. CASE q # p
    <3>1. call'[q] = call[q]
      BY <2>1 DEF SessionsInv, SessionsTypeOK
    <3>2. AccountsStay /\ SessionsStay
      BY DEF AccountsStay, SessionsStay
    <3>3. (IsActive(call[q].user)' <=> IsActive(call[q].user)) /\ (HasActiveGlobalRole(call[q].user)' <=> HasActiveGlobalRole(call[q].user))
      BY <3>1 DEF IsActive, HasActiveGlobalRole
    <3> QED BY <3>1, <3>2, <3>3, CallLater DEF SessionsInv
  <2> QED BY <2>1
<1> QED BY <1>1, <1>2, <1>3 DEF SessionsInv

\* A slot without a call.
LEMMA NoCallForm == ASSUME NEW p \in Requests, call[p] = NoCall PROVE NoCall \in Call /\ CallForm(p)
BY DEF CallForm, NoCall, Call, PastSession, PastAccount, Authenticating

-----------------------------------------------------------------------------
(* What administrators do *)

\* An account that is there has a role, a status and the time of its digest.
LEMMA AccountRows == SessionsTypeOK => \A u \in Users : account[u] # None => account[u] \in Account
BY DEF SessionsTypeOK

\* Accounts change, and whoever waits for what begins to hold is told.
LEMMA AccountsKeepInv ==
  ASSUME SessionsInv, NEW u \in Users, NEW row \in Account, account' = [account EXCEPT ![u] = row],
         UNCHANGED <<session, answered>>, audit' \in Audit, call' \in [Requests -> Call],
         \A p \in Requests :
            /\ call'[p].step = call[p].step /\ call'[p].route = call[p].route
            /\ call'[p].user = call[p].user /\ call'[p].session = call[p].session
            /\ call'[p].missing \subseteq call[p].missing,
         \A p \in Requests : call[p].user = u =>
            /\ row.status = "ACTIVE" => IsActive(u) \/ "account" \notin call'[p].missing
            /\ row.administrator => HasActiveGlobalRole(u) \/ "role" \notin call'[p].missing
  PROVE  SessionsInv'
<1>1. account \in [Users -> Account \cup {None}] /\ row # None
  BY SessionsAssumption DEF SessionsInv, SessionsTypeOK
<1>2. SessionsTypeOK' /\ AccountsStay /\ SessionsStay /\ TabsAgree'
  BY <1>1 DEF SessionsInv, SessionsTypeOK, AccountsStay, SessionsStay, TabsAgree
<1>3. SessionsHaveUsers'
  BY <1>2, UsersStay DEF SessionsInv
<1>4. \A p \in Requests : CallForm(p)'
  <2> TAKE p \in Requests
  <2>1. ASSUME call[p].user \in Users
        PROVE  /\ IsActive(call[p].user)' => IsActive(call[p].user) \/ "account" \notin call'[p].missing
               /\ HasActiveGlobalRole(call[p].user)' =>
                     HasActiveGlobalRole(call[p].user) \/ "role" \notin call'[p].missing
    BY <1>1, <2>1 DEF IsActive, HasActiveGlobalRole
  <2> QED BY <1>2, <2>1, CallLater DEF SessionsInv
<1> QED BY <1>2, <1>3, <1>4 DEF SessionsInv

\* Satisfy tells those who wait of one guard, and changes nothing else.
LEMMA Satisfied ==
  ASSUME SessionsTypeOK, NEW u \in Users, NEW guard \in Guards, Satisfy(u, guard)
  PROVE  /\ call' \in [Requests -> Call]
         /\ \A p \in Requests :
              /\ call'[p].step = call[p].step /\ call'[p].route = call[p].route
              /\ call'[p].user = call[p].user /\ call'[p].session = call[p].session
              /\ call'[p].missing \subseteq call[p].missing
              /\ call[p].user = u => guard \notin call'[p].missing
<1>1. ASSUME NEW p \in Requests
      PROVE  /\ call'[p] \in Call
             /\ call'[p].step = call[p].step /\ call'[p].route = call[p].route
             /\ call'[p].user = call[p].user /\ call'[p].session = call[p].session
             /\ call'[p].missing \subseteq call[p].missing
             /\ call[p].user = u => guard \notin call'[p].missing
  <2>1. call[p] \in Call
    BY DEF SessionsTypeOK
  <2>2. CASE call[p].user = u
    <3>1. call'[p] = [call[p] EXCEPT !.missing = call[p].missing \ {guard}]
      BY <2>2 DEF Satisfy
    <3> QED BY <2>1, <2>2, <3>1 DEF Call
  <2>3. CASE call[p].user # u
    BY <2>1, <2>3 DEF Satisfy
  <2> QED BY <2>2, <2>3
<1>2. call' = [p \in Requests |-> call'[p]]
  BY DEF Satisfy
<1> QED BY <1>1, <1>2

\* What administrators do to accounts and roles.
LEMMA AdministratorsKeepInv ==
  ASSUME SessionsInv, NEW u \in Users,
         \/ Bootstrap(u) \/ AssignGlobalRole(u) \/ RevokeGlobalRole(u)
         \/ \E status \in {"ACTIVE", "SUSPENDED"} : UpdateUserStatus(u, status)
  PROVE  SessionsInv'
<1>0. SessionsTypeOK /\ account \in [Users -> Account \cup {None}] /\ audit \in Audit /\ call \in [Requests -> Call]
  BY DEF SessionsInv, SessionsTypeOK
<1>1. CASE Bootstrap(u)
  <2> DEFINE row == [status |-> "ACTIVE", administrator |-> TRUE]
  <2>1. row \in Account
    BY DEF Account
  <2>2. audit' \in Audit
    <3>1. audit.bootstrap \in [Users -> Nat]
      BY <1>0 DEF Audit
    <3>2. [audit.bootstrap EXCEPT ![u] = audit.bootstrap[u] + 1] \in [Users -> Nat]
      BY <3>1
    <3> QED BY <1>0, <1>1, <3>2 DEF Audit, Bootstrap
  <2>3. \A p \in Requests : call[p].user # u
    BY <1>1, ServicesAssumption DEF SessionsInv, CallForm, Bootstrap
  <2>4. /\ account' = [account EXCEPT ![u] = row] /\ UNCHANGED <<session, answered, call>>
    BY <1>1 DEF Bootstrap
  <2> HIDE DEF row
  <2> QED BY <1>0, <2>1, <2>2, <2>3, <2>4, AccountsKeepInv
<1>2. CASE AssignGlobalRole(u)
  <2> DEFINE row == [account[u] EXCEPT !.administrator = TRUE]
  <2>1. row \in Account /\ row.status = account[u].status /\ account[u] # None
    BY <1>0, <1>2, AccountRows DEF Account, AssignGlobalRole
  <2>2. account' = [account EXCEPT ![u] = row] /\ UNCHANGED <<session, answered, audit>> /\ Satisfy(u, "role")
    BY <1>2 DEF AssignGlobalRole
  <2> HIDE DEF row
  <2>3. row.status = "ACTIVE" => IsActive(u)
    BY <2>1 DEF IsActive
  <2>4. "role" \in Guards
    BY DEF Guards
  <2>5. /\ call' \in [Requests -> Call]
        /\ \A p \in Requests :
             /\ call'[p].step = call[p].step /\ call'[p].route = call[p].route
             /\ call'[p].user = call[p].user /\ call'[p].session = call[p].session
             /\ call'[p].missing \subseteq call[p].missing
             /\ call[p].user = u => "role" \notin call'[p].missing
    BY <1>0, <2>2, <2>4, Satisfied
  <2>6. \A p \in Requests : call[p].user = u =>
           /\ row.status = "ACTIVE" => IsActive(u) \/ "account" \notin call'[p].missing
           /\ row.administrator => HasActiveGlobalRole(u) \/ "role" \notin call'[p].missing
    BY <2>3, <2>5
  <2>7. account' = [account EXCEPT ![u] = row] /\ UNCHANGED <<session, answered>> /\ audit' \in Audit
    BY <1>0, <2>2
  <2>8. \A p \in Requests :
           /\ call'[p].step = call[p].step /\ call'[p].route = call[p].route
           /\ call'[p].user = call[p].user /\ call'[p].session = call[p].session
           /\ call'[p].missing \subseteq call[p].missing
    BY <2>5
  <2> QED BY <2>1, <2>5, <2>6, <2>7, <2>8, AccountsKeepInv
<1>3. CASE RevokeGlobalRole(u)
  <2> DEFINE row == [account[u] EXCEPT !.administrator = FALSE]
  <2>1. row \in Account /\ row.status = account[u].status /\ ~row.administrator /\ account[u] # None
    BY <1>0, <1>3, AccountRows DEF Account, RevokeGlobalRole
  <2>2. account' = [account EXCEPT ![u] = row] /\ UNCHANGED <<session, answered, audit, call>>
    BY <1>3 DEF RevokeGlobalRole
  <2> HIDE DEF row
  <2>3. row.status = "ACTIVE" => IsActive(u)
    BY <2>1 DEF IsActive
  <2> QED BY <1>0, <2>1, <2>2, <2>3, AccountsKeepInv
<1>4. ASSUME NEW status \in {"ACTIVE", "SUSPENDED"}, UpdateUserStatus(u, status) PROVE SessionsInv'
  <2> DEFINE row == [account[u] EXCEPT !.status = status]
  <2>1. row \in Account /\ row.status = status /\ row.administrator = account[u].administrator /\ account[u] # None
    BY <1>0, <1>4, AccountRows DEF Account, UpdateUserStatus
  <2>2. /\ account' = [account EXCEPT ![u] = row] /\ UNCHANGED <<session, answered, audit>>
        /\ IF status = "ACTIVE" THEN Satisfy(u, "account") ELSE UNCHANGED call
    BY <1>4 DEF UpdateUserStatus
  <2> HIDE DEF row
  <2>3. row.administrator => HasActiveGlobalRole(u)
    BY <2>1 DEF HasActiveGlobalRole
  <2>4. "account" \in Guards
    BY DEF Guards
  <2>5. CASE status = "ACTIVE"
    <3>1. /\ call' \in [Requests -> Call]
          /\ \A p \in Requests :
               /\ call'[p].step = call[p].step /\ call'[p].route = call[p].route
               /\ call'[p].user = call[p].user /\ call'[p].session = call[p].session
               /\ call'[p].missing \subseteq call[p].missing
               /\ call[p].user = u => "account" \notin call'[p].missing
      BY <1>0, <2>2, <2>4, <2>5, Satisfied
    <3>2. \A p \in Requests : call[p].user = u =>
             /\ row.status = "ACTIVE" => IsActive(u) \/ "account" \notin call'[p].missing
             /\ row.administrator => HasActiveGlobalRole(u) \/ "role" \notin call'[p].missing
      BY <2>3, <3>1
    <3>3. account' = [account EXCEPT ![u] = row] /\ UNCHANGED <<session, answered>> /\ audit' \in Audit
      BY <1>0, <2>2
    <3>4. \A p \in Requests :
             /\ call'[p].step = call[p].step /\ call'[p].route = call[p].route
             /\ call'[p].user = call[p].user /\ call'[p].session = call[p].session
             /\ call'[p].missing \subseteq call[p].missing
      BY <3>1
    <3> QED BY <2>1, <3>1, <3>2, <3>3, <3>4, AccountsKeepInv
  <2>6. CASE status # "ACTIVE"
    BY <1>0, <2>1, <2>2, <2>3, <2>6, AccountsKeepInv
  <2> QED BY <2>5, <2>6
<1> QED BY <1>1, <1>2, <1>3, <1>4

\* Sessions end, or get the CSRF token they lack; whoever was told of a token still holds
\* the one that is stored.
LEMMA SessionsKeepInv ==
  ASSUME SessionsInv, session' \in [Sessions -> Session \cup {None}], SessionsStay,
         \A s \in Sessions : session'[s] # None => session[s] # None,
         UNCHANGED account, audit' \in Audit, answered' \in [Sessions -> SUBSET Tokens],
         TabsAgree', NEW p, NEW c \in Call,
         call' = call \/ (p \in Requests /\ call' = [call EXCEPT ![p] = c] /\ CallForm(p)')
  PROVE  SessionsInv'
<1>1. SessionsTypeOK' /\ AccountsStay
  BY DEF SessionsInv, SessionsTypeOK, AccountsStay
<1>2. SessionsHaveUsers'
  BY <1>1, UsersStay DEF SessionsInv, SessionsStay
<1>3. \A q \in Requests : CallForm(q)'
  <2> TAKE q \in Requests
  <2>1. CASE call'[q] = call[q]
    <3>1. (IsActive(call[q].user)' <=> IsActive(call[q].user)) /\ (HasActiveGlobalRole(call[q].user)' <=> HasActiveGlobalRole(call[q].user))
      BY <2>1 DEF IsActive, HasActiveGlobalRole
    <3> QED BY <1>1, <2>1, <3>1, CallLater DEF SessionsInv
  <2> QED BY <2>1 DEF SessionsInv, SessionsTypeOK
<1> QED BY <1>1, <1>2, <1>3 DEF SessionsInv

\* Revocation of all sessions of a user, and the end of a session's days.
LEMMA EndingsKeepInv ==
  ASSUME SessionsInv, (\E u \in Users : RevokeUserSessions(u)) \/ \E s \in Sessions : Expire(s)
  PROVE  SessionsInv'
<1>0. /\ session \in [Sessions -> Session \cup {None}] /\ audit \in Audit /\ NoCall \in Call
      /\ answered \in [Sessions -> SUBSET Tokens]
  BY DEF SessionsInv, SessionsTypeOK, NoCall, Call
<1>1. ASSUME NEW s \in Sessions, session[s] # None
      PROVE  /\ session[s] \in Session /\ Revoked(session[s]) \in Session
             /\ [session[s] EXCEPT !.expired = TRUE] \in Session
  BY <1>0, <1>1 DEF Session, Revoked
<1>2. \A row \in Session : row # None
  BY SessionsAssumption
<1>3. /\ session' \in [Sessions -> Session \cup {None}] /\ UNCHANGED <<account, audit, answered, call>>
      /\ \A s \in Sessions :
           IF session[s] = None THEN session'[s] = None
           ELSE session'[s] \in {session[s], Revoked(session[s]), [session[s] EXCEPT !.expired = TRUE]}
  <2>1. ASSUME NEW u \in Users, RevokeUserSessions(u) PROVE <1>3
    BY <1>0, <1>1, <2>1 DEF RevokeUserSessions
  <2>2. ASSUME NEW s \in Sessions, Expire(s) PROVE <1>3
    BY <1>0, <1>1, <2>2 DEF Expire
  <2> QED BY <2>1, <2>2
<1>4. ASSUME NEW s \in Sessions, session[s] # None
      PROVE  /\ session'[s] # None /\ session'[s].user = session[s].user
             /\ session'[s].csrf = session[s].csrf
             /\ session'[s].open => session[s].open
             /\ session[s].expired => session'[s].expired
  <2>1. session[s] \in Session /\ session'[s] \in Session
    BY <1>1, <1>3, <1>4
  <2> QED BY <1>2, <1>3, <1>4, <2>1 DEF Session, Revoked
<1>5. SessionsStay /\ TabsAgree'
  BY <1>3, <1>4 DEF SessionsStay, TabsAgree, SessionsInv
<1> QED BY <1>0, <1>3, <1>5, SessionsKeepInv

-----------------------------------------------------------------------------
(* Login *)

\* Steps of a login that only read, and the end of any request.
LEMMA LoginReadsKeepInv ==
  ASSUME SessionsInv, NEW p \in Requests,
         RecheckUser(p) \/ EndCall(p) \/ \E u \in Users : AuthenticatePassword(p, u)
  PROVE  SessionsInv'
<1> DEFINE c == call'[p]
<1>0. /\ call \in [Requests -> Call] /\ call[p] \in Call /\ audit \in Audit /\ CallForm(p)
      /\ answered \in [Sessions -> SUBSET Tokens] /\ TabsAgree
  BY DEF SessionsInv, SessionsTypeOK
<1>1. call' = [call EXCEPT ![p] = c] /\ c \in Call /\ CallForm(p)' /\ UNCHANGED identityTables
  <2>1. CASE RecheckUser(p)
    BY <1>0, <2>1 DEF RecheckUser, GoTo, Call, CallForm, PastSession, PastAccount, Authenticating,
          identityTables
  <2>2. CASE EndCall(p)
    BY <1>0, <2>2, NoCallForm DEF EndCall, NoCall, Call, CallForm, PastSession, PastAccount, Authenticating
  <2>3. ASSUME NEW u \in Users, AuthenticatePassword(p, u) PROVE <1>1
    <3>1. c = [NoCall EXCEPT !.step = "authenticated", !.user = u] /\ UNCHANGED identityTables
      BY <1>0, <2>3 DEF AuthenticatePassword
    <3> QED BY <1>0, <2>3, <3>1 DEF AuthenticatePassword, IsActive, NoCall, Call, CallForm, PastSession,
               PastAccount, Authenticating, identityTables
  <2> QED BY <2>1, <2>2, <2>3
<1>2. TabsAgree'
  BY <1>0, <1>1 DEF TabsAgree, identityTables
<1> HIDE DEF c
<1> QED BY <1>0, <1>1, <1>2, CallMoves DEF identityTables

\* A session begins, of an account that is there, with the token of its login.
LEMMA CommitLoginKeepsInv ==
  ASSUME SessionsInv, NEW p \in Requests, NEW s \in Sessions,
         CommitLogin(p, s) \/ CommitLoginUnanswered(p, s)
  PROVE  SessionsInv'
<1> DEFINE row == [user |-> call[p].user, open |-> TRUE, expired |-> FALSE, csrf |-> p]
<1>0. /\ call \in [Requests -> Call] /\ call[p] \in Call /\ audit \in Audit /\ CallForm(p)
      /\ answered \in [Sessions -> SUBSET Tokens] /\ TabsAgree
      /\ session \in [Sessions -> Session \cup {None}]
  BY DEF SessionsInv, SessionsTypeOK
<1>1. /\ session' = [session EXCEPT ![s] = row] /\ call' = [call EXCEPT ![p] = NoCall]
      /\ AppendLogin(s) /\ UNCHANGED account /\ session[s] = None /\ call[p].step = "rechecked"
      /\ answered' = answered \/ answered' = [answered EXCEPT ![s] = answered[s] \cup {p}]
  BY DEF CommitLogin, CommitLoginUnanswered
<1>2. row \in Session /\ row.user \in Users /\ account[row.user] # None /\ row.csrf = p
  BY <1>0, <1>1, ServicesAssumption DEF CallForm, Authenticating, Session, Tokens
<1> HIDE DEF row
<1>3. row # None
  BY <1>2, SessionsAssumption
<1>4. audit' \in Audit
  <2>1. audit.login \in [Sessions -> Nat]
    BY <1>0 DEF Audit
  <2>2. [audit.login EXCEPT ![s] = audit.login[s] + 1] \in [Sessions -> Nat]
    BY <2>1
  <2> QED BY <1>0, <1>1, <2>2 DEF Audit, AppendLogin
<1>5. answered[s] = {} /\ answered' \in [Sessions -> SUBSET Tokens]
  BY <1>0, <1>1 DEF TabsAgree, Tokens
<1>6. TabsAgree'
  BY <1>0, <1>1, <1>2, <1>3, <1>5 DEF TabsAgree
<1>7. SessionsTypeOK' /\ AccountsStay
  BY <1>0, <1>1, <1>2, <1>4, <1>5 DEF SessionsInv, SessionsTypeOK, AccountsStay, NoCall, Call
<1>8. SessionsHaveUsers'
  BY <1>0, <1>1, <1>2, <1>7, UsersStay DEF SessionsInv
<1>9. SessionsStay
  BY <1>0, <1>1 DEF SessionsStay
<1>10. \A q \in Requests : CallForm(q)'
  <2> TAKE q \in Requests
  <2>1. CASE q = p
    BY <1>0, <1>1, <2>1, NoCallForm DEF NoCall, Call, CallForm, PastSession, PastAccount, Authenticating
  <2>2. CASE q # p
    <3>1. call'[q] = call[q]
      BY <1>0, <1>1, <2>2
    <3>2. (IsActive(call[q].user)' <=> IsActive(call[q].user)) /\ (HasActiveGlobalRole(call[q].user)' <=> HasActiveGlobalRole(call[q].user))
      BY <1>1, <3>1 DEF IsActive, HasActiveGlobalRole
    <3> QED BY <1>7, <1>9, <3>1, <3>2, CallLater DEF SessionsInv
  <2> QED BY <2>1, <2>2
<1> QED BY <1>6, <1>7, <1>8, <1>10 DEF SessionsInv

-----------------------------------------------------------------------------
(* The middleware and the handlers *)

\* What a request sees when it arrives.
LEMMA ArriveKeepsInv ==
  ASSUME SessionsInv, NEW p \in Requests, NEW s \in Sessions, NEW route \in Routes, Arrive(p, s, route)
  PROVE  SessionsInv'
<1> DEFINE u == session[s].user
           missing == {g \in Guards :
               \/ g = "session" /\ ~IsLive(s)
               \/ g = "account" /\ ~IsActive(u)
               \/ g = "role" /\ ~HasActiveGlobalRole(u)}
           c == [step |-> "arrived", route |-> route, user |-> u, session |-> s, missing |-> missing]
<1>0. /\ call \in [Requests -> Call] /\ audit \in Audit /\ SessionsHaveUsers
      /\ answered \in [Sessions -> SUBSET Tokens] /\ TabsAgree
      /\ session \in [Sessions -> Session \cup {None}]
  BY DEF SessionsInv, SessionsTypeOK
<1>1. call' = [call EXCEPT ![p] = c] /\ session[s] # None /\ UNCHANGED identityTables
  BY DEF Arrive
<1>2. u \in Users /\ account[u] # None
  BY <1>0, <1>1 DEF Session, SessionsHaveUsers
<1>3. c \in Call
  BY <1>2 DEF Call, Guards
<1>4. call'[p] = c
  BY <1>0, <1>1
<1>5. (IsLive(s) => "session" \notin missing) /\ (IsActive(u) => "account" \notin missing)
      /\ (HasActiveGlobalRole(u) => "role" \notin missing)
  OBVIOUS
<1>6. CallForm(p)'
  <2> HIDE DEF missing
  <2> QED BY <1>1, <1>2, <1>4, <1>5 DEF identityTables, CallForm, IsLive, IsActive, HasActiveGlobalRole, PastSession,
           PastAccount, Authenticating
<1>7. TabsAgree'
  BY <1>0, <1>1 DEF TabsAgree, identityTables
<1> HIDE DEF c
<1> QED BY <1>0, <1>1, <1>3, <1>6, <1>7, CallMoves DEF identityTables

\* A request that passes one more guard.
LEMMA GoToKeepsInv ==
  ASSUME SessionsInv, NEW p \in Requests,
         NEW step \in {"found", "resolved", "verified", "authorized", "uninitialised", "lost", "executed"},
         UNCHANGED identityTables, GoTo(p, step),
         call[p].step \notin Authenticating \cup {"idle"},
         IsLive(call[p].session) \/ "session" \notin call[p].missing,
         step # "found" => IsActive(call[p].user) \/ "account" \notin call[p].missing,
         step = "authorized" \/ (step = "executed" /\ Middleware[call[p].route].capability) =>
            HasActiveGlobalRole(call[p].user) \/ "role" \notin call[p].missing
  PROVE  SessionsInv'
<1> DEFINE c == [call[p] EXCEPT !.step = step]
<1>0. /\ call \in [Requests -> Call] /\ call[p] \in Call /\ audit \in Audit /\ CallForm(p)
      /\ answered \in [Sessions -> SUBSET Tokens] /\ TabsAgree
  BY DEF SessionsInv, SessionsTypeOK
<1>1. call' = [call EXCEPT ![p] = c]
  BY DEF GoTo
<1>2. c \in Call /\ c.step = step /\ c.route = call[p].route /\ c.user = call[p].user
      /\ c.session = call[p].session /\ c.missing = call[p].missing
  BY <1>0 DEF Call
<1> HIDE DEF c
<1>3. call'[p] = c
  BY <1>0, <1>1
<1>4. CallForm(p)'
  BY <1>0, <1>2, <1>3 DEF CallForm, identityTables, IsLive, IsActive, HasActiveGlobalRole, PastSession,
     PastAccount, Authenticating
<1>5. TabsAgree'
  BY <1>0 DEF TabsAgree, identityTables
<1> QED BY <1>0, <1>1, <1>2, <1>4, <1>5, CallMoves DEF identityTables

\* The middlewares that a request passes one after the other.
LEMMA GuardsKeepInv ==
  ASSUME SessionsInv, NEW p \in Requests,
         \/ GetSessionByDigest(p) \/ ResolveUser(p) \/ AuthorizeCapability(p) \/ Execute(p)
         \/ \E token \in Tokens : ValidateCSRF(p, token)
  PROVE  SessionsInv'
<1>0. CallForm(p) /\ call[p] \in Call
  BY DEF SessionsInv, SessionsTypeOK
<1>1. CASE GetSessionByDigest(p)
  BY <1>1, GoToKeepsInv DEF GetSessionByDigest, Authenticating
<1>2. CASE ResolveUser(p)
  BY <1>0, <1>2, GoToKeepsInv DEF ResolveUser, Authenticating, CallForm, PastSession
<1>3. CASE AuthorizeCapability(p)
  BY <1>0, <1>3, GoToKeepsInv DEF AuthorizeCapability, Authenticating, CallForm, PastSession, PastAccount
<1>4. CASE Execute(p)
  <2>1. /\ call[p].step \in {"authorized", "verified", "resolved"}
        /\ Middleware[call[p].route].capability => call[p].step = "authorized"
    BY <1>4 DEF Execute, Passed, LastStep
  <2> QED BY <1>0, <1>4, <2>1, GoToKeepsInv DEF Execute, Authenticating, CallForm, PastSession, PastAccount
<1>5. ASSUME NEW token \in Tokens, ValidateCSRF(p, token) PROVE SessionsInv'
  BY <1>0, <1>5, GoToKeepsInv DEF ValidateCSRF, Authenticating, CallForm, PastSession, PastAccount
<1> QED BY <1>1, <1>2, <1>3, <1>4, <1>5

\* Where a request stands that every guard of its session has let through.
LetThrough(p) ==
    /\ call[p].step \in PastAccount /\ call[p].step \notin Authenticating \cup {"idle"}
    /\ call[p].session \in Sessions /\ session[call[p].session] \in Session
    /\ "session" \notin call[p].missing /\ "account" \notin call[p].missing

\* The handlers of a session run where its guards have let the request through.
LEMMA PassedForm ==
  ASSUME SessionsInv, NEW p \in Requests,
         call[p].step \in {"lost", "uninitialised"} \/ Passed(p)
  PROVE  LetThrough(p)
<1>1. call[p].step \in PastAccount /\ call[p].step \notin Authenticating \cup {"idle"}
  BY DEF Passed, LastStep, PastAccount, PastSession, Authenticating
<1>2. CallForm(p) /\ session \in [Sessions -> Session \cup {None}]
  BY DEF SessionsInv, SessionsTypeOK
<1> QED BY <1>1, <1>2 DEF LetThrough, CallForm, PastAccount, PastSession

\* The token that is stored is answered, or its absence noted.
LEMMA ReadTokenKeepsInv ==
  ASSUME SessionsInv, NEW p \in Requests, ReadToken(p)
  PROVE  SessionsInv'
<1> DEFINE s == call[p].session
<1>0. /\ call \in [Requests -> Call] /\ call[p] \in Call /\ audit \in Audit /\ CallForm(p)
      /\ answered \in [Sessions -> SUBSET Tokens] /\ TabsAgree
  BY DEF SessionsInv, SessionsTypeOK
<1>1. /\ call[p].step \in PastAccount /\ call[p].step \notin Authenticating \cup {"idle"}
      /\ s \in Sessions /\ session[s] \in Session
      /\ "session" \notin call[p].missing /\ "account" \notin call[p].missing
  BY PassedForm DEF LetThrough, ReadToken
<1>2. CASE session[s].csrf # None
  <2>1. /\ answered' = [answered EXCEPT ![s] = answered[s] \cup {session[s].csrf}]
        /\ call' = [call EXCEPT ![p] = NoCall] /\ UNCHANGED <<account, session, audit>>
    BY <1>2 DEF ReadToken, Answer
  <2>2. session[s].csrf \in Tokens
    BY <1>1, <1>2 DEF Session
  <2>3. answered' \in [Sessions -> SUBSET Tokens] /\ session[s] # None
    BY <1>0, <1>1, <2>1, <2>2, SessionsAssumption
  <2>4. TabsAgree'
    BY <1>0, <1>1, <2>1, <2>3 DEF TabsAgree
  <2>5. CallForm(p)' /\ NoCall \in Call
    BY <1>0, <2>1, NoCallForm DEF NoCall, Call, CallForm, PastSession, PastAccount, Authenticating
  <2> QED BY <1>0, <2>1, <2>3, <2>4, <2>5, CallMoves
<1>3. CASE session[s].csrf = None
  <2>1. GoTo(p, "uninitialised") /\ UNCHANGED identityTables
    BY <1>3 DEF ReadToken, identityTables
  <2> QED BY <1>1, <2>1, GoToKeepsInv
<1> QED BY <1>2, <1>3

\* Of two requests that bring a token one is stored; nobody has been told of another.
LEMMA InitializeTokenKeepsInv ==
  ASSUME SessionsInv, NEW p \in Requests, InitializeToken(p)
  PROVE  SessionsInv'
<1> DEFINE s == call[p].session
<1>0. /\ call \in [Requests -> Call] /\ audit \in Audit
      /\ answered \in [Sessions -> SUBSET Tokens] /\ TabsAgree
      /\ session \in [Sessions -> Session \cup {None}]
  BY DEF SessionsInv, SessionsTypeOK
<1>1. /\ call[p].step \in PastAccount /\ call[p].step \notin Authenticating \cup {"idle"}
      /\ s \in Sessions /\ session[s] \in Session
      /\ "session" \notin call[p].missing /\ "account" \notin call[p].missing
  BY PassedForm DEF LetThrough, InitializeToken
<1>2. CASE MayInitialize(s)
  <2> DEFINE row == [session[s] EXCEPT !.csrf = p]
  <2>1. /\ answered' = [answered EXCEPT ![s] = answered[s] \cup {p}]
        /\ call' = [call EXCEPT ![p] = NoCall] /\ UNCHANGED <<account, audit>>
        /\ session' = [session EXCEPT ![s] = row] /\ session[s].csrf = None
    BY <1>2 DEF InitializeToken, Answer, MayInitialize
  <2>2. row \in Session /\ row.csrf = p /\ row.user = session[s].user
        /\ row.open = session[s].open /\ row.expired = session[s].expired
    BY <1>1 DEF Session, Tokens
  <2> HIDE DEF row
  <2>3. row # None /\ session[s] # None
    BY <1>1, <2>2, SessionsAssumption
  <2>4. answered[s] = {}
    <3>1. answered[s] \subseteq Requests
      BY <1>0, <1>1 DEF Tokens
    <3> QED BY <1>0, <1>1, <2>1, <3>1, ServicesAssumption DEF TabsAgree
  <2>5. TabsAgree' /\ answered' \in [Sessions -> SUBSET Tokens]
    BY <1>0, <1>1, <2>1, <2>2, <2>3, <2>4 DEF TabsAgree, Tokens
  <2>6. CallForm(p)' /\ NoCall \in Call
    BY <1>0, <2>1, NoCallForm DEF NoCall, Call, CallForm, PastSession, PastAccount, Authenticating
  <2>7. SessionsStay /\ session' \in [Sessions -> Session \cup {None}]
        /\ \A t \in Sessions : session'[t] # None => session[t] # None
    BY <1>0, <1>1, <2>1, <2>2, <2>3 DEF SessionsStay
  <2> QED BY <1>0, <2>1, <2>5, <2>6, <2>7, SessionsKeepInv
<1>3. CASE ~MayInitialize(s)
  <2>1. GoTo(p, "lost") /\ UNCHANGED identityTables
    BY <1>3 DEF InitializeToken, identityTables
  <2> QED BY <1>1, <2>1, GoToKeepsInv
<1> QED BY <1>2, <1>3

\* A logout ends its session and the request.
LEMMA LogoutKeepsInv ==
  ASSUME SessionsInv, NEW p \in Requests, Logout(p)
  PROVE  SessionsInv'
<1> DEFINE s == call[p].session
<1>0. /\ call \in [Requests -> Call] /\ audit \in Audit
      /\ answered \in [Sessions -> SUBSET Tokens] /\ TabsAgree
      /\ session \in [Sessions -> Session \cup {None}]
  BY DEF SessionsInv, SessionsTypeOK
<1>1. /\ call[p].step \in PastAccount /\ call[p].step \notin Authenticating \cup {"idle"}
      /\ s \in Sessions /\ session[s] \in Session
      /\ "session" \notin call[p].missing /\ "account" \notin call[p].missing
  BY PassedForm DEF LetThrough, Logout
<1>2. call' = [call EXCEPT ![p] = NoCall] /\ UNCHANGED <<account, answered>>
  BY DEF Logout
<1>3. CallForm(p)' /\ NoCall \in Call
  BY <1>0, <1>2, NoCallForm DEF NoCall, Call, CallForm, PastSession, PastAccount, Authenticating
<1>4. audit' \in Audit
  <2>1. audit.logout \in [Sessions -> Nat]
    BY <1>0 DEF Audit
  <2>2. [audit.logout EXCEPT ![s] = audit.logout[s] + 1] \in [Sessions -> Nat]
    BY <1>1, <2>1
  <2> QED BY <1>0, <2>2 DEF Audit, Logout
<1>5. session' = session \/ session' = [session EXCEPT ![s] = Revoked(session[s])]
  BY DEF Logout
<1>6. /\ Revoked(session[s]) \in Session /\ Revoked(session[s]).user = session[s].user
      /\ Revoked(session[s]).csrf = session[s].csrf /\ ~Revoked(session[s]).open
      /\ Revoked(session[s]).expired = session[s].expired
  BY <1>1 DEF Session, Revoked
<1>7. session[s] # None /\ Revoked(session[s]) # None
  BY <1>1, <1>6, SessionsAssumption
<1>8. /\ SessionsStay /\ session' \in [Sessions -> Session \cup {None}]
      /\ \A t \in Sessions : session'[t] # None => session[t] # None
  BY <1>0, <1>1, <1>5, <1>6, <1>7 DEF SessionsStay
<1>9. TabsAgree'
  BY <1>0, <1>1, <1>2, <1>5, <1>6, <1>7 DEF TabsAgree
<1> QED BY <1>0, <1>2, <1>3, <1>4, <1>8, <1>9, SessionsKeepInv

-----------------------------------------------------------------------------

\* No account has a session.
LEMMA SessionsInitInv == SessionsInit => SessionsInv
<1> SUFFICES ASSUME SessionsInit PROVE SessionsInv
  OBVIOUS
<1>1. [status |-> "ACTIVE", administrator |-> FALSE] \in Account
  BY DEF Account
<1>2. account \in [Users -> Account \cup {None}]
  BY <1>1 DEF SessionsInit
<1>3. \A u \in Users : [user |-> u, open |-> TRUE, expired |-> FALSE, csrf |-> None] \in Session
  BY DEF Session
<1>4. session \in [Sessions -> Session \cup {None}] /\ SessionsHaveUsers
  <2>1. \A s \in Sessions :
          \/ session[s] = None
          \/ \E u \in Users : /\ account[u] # None
                             /\ session[s] = [user |-> u, open |-> TRUE, expired |-> FALSE, csrf |-> None]
    BY DEF SessionsInit
  <2>2. \A s \in Sessions : session[s] \in Session \cup {None} /\ (session[s] # None => account[session[s].user] # None)
    <3> TAKE s \in Sessions
    <3>1. CASE session[s] = None
      BY <3>1
    <3>2. ASSUME NEW u \in Users, account[u] # None,
                 session[s] = [user |-> u, open |-> TRUE, expired |-> FALSE, csrf |-> None]
          PROVE  session[s] \in Session /\ account[session[s].user] # None
      <4>1. session[s].user = u
        BY <3>2
      <4> QED BY <1>3, <3>2, <4>1
    <3> QED BY <2>1, <3>1, <3>2
  <2>3. session = [s \in Sessions |-> session[s]]
    BY DEF SessionsInit
  <2> QED BY <2>2, <2>3 DEF SessionsHaveUsers
<1>5. audit \in Audit
  BY DEF SessionsInit, Audit
<1>6. \A p \in Requests : call[p] = NoCall
  BY DEF SessionsInit
<1>7. (\A p \in Requests : CallForm(p)) /\ call \in [Requests -> Call]
  BY <1>6, NoCallForm DEF SessionsInit
<1>8. answered \in [Sessions -> SUBSET Tokens] /\ TabsAgree
  BY DEF SessionsInit, TabsAgree
<1> QED BY <1>2, <1>4, <1>5, <1>7, <1>8 DEF SessionsInv, SessionsTypeOK

\* One step of every operation of the accounts and their sessions.
LEMMA SessionsNextInv == SessionsInv /\ [SessionsNext]_identityVars => SessionsInv'
<1> SUFFICES ASSUME SessionsInv, [SessionsNext]_identityVars PROVE SessionsInv'
  OBVIOUS
<1>1. CASE UNCHANGED identityVars
  BY <1>1 DEF identityVars, identityTables, SessionsInv, SessionsTypeOK, TabsAgree, SessionsHaveUsers, CallForm, IsLive, IsActive,
     HasActiveGlobalRole
<1>2. ASSUME NEW u \in Users,
             \/ Bootstrap(u) \/ AssignGlobalRole(u) \/ RevokeGlobalRole(u)
             \/ \E status \in {"ACTIVE", "SUSPENDED"} : UpdateUserStatus(u, status)
      PROVE  SessionsInv'
  BY <1>2, AdministratorsKeepInv
<1>3. CASE (\E u \in Users : RevokeUserSessions(u)) \/ \E s \in Sessions : Expire(s)
  BY <1>3, EndingsKeepInv
<1>4. ASSUME NEW p \in Requests,
             RecheckUser(p) \/ EndCall(p) \/ \E u \in Users : AuthenticatePassword(p, u)
      PROVE  SessionsInv'
  BY <1>4, LoginReadsKeepInv
<1>5. ASSUME NEW p \in Requests, NEW s \in Sessions, CommitLogin(p, s) \/ CommitLoginUnanswered(p, s)
      PROVE  SessionsInv'
  BY <1>5, CommitLoginKeepsInv
<1>6. ASSUME NEW p \in Requests, NEW s \in Sessions, NEW route \in Routes, Arrive(p, s, route)
      PROVE  SessionsInv'
  BY <1>6, ArriveKeepsInv
<1>7. ASSUME NEW p \in Requests,
             \/ GetSessionByDigest(p) \/ ResolveUser(p) \/ AuthorizeCapability(p) \/ Execute(p)
             \/ \E token \in Tokens : ValidateCSRF(p, token)
      PROVE  SessionsInv'
  BY <1>7, GuardsKeepInv
<1>8. ASSUME NEW p \in Requests, ReadToken(p) PROVE SessionsInv'
  BY <1>8, ReadTokenKeepsInv
<1>9. ASSUME NEW p \in Requests, InitializeToken(p) PROVE SessionsInv'
  BY <1>9, InitializeTokenKeepsInv
<1>10. ASSUME NEW p \in Requests, Logout(p) PROVE SessionsInv'
  BY <1>10, LogoutKeepsInv
<1> QED BY <1>1, <1>2, <1>3, <1>4, <1>5, <1>6, <1>7, <1>8, <1>9, <1>10 DEF SessionsNext

\* The invariant, along every behaviour.
LEMMA SessionsInvHolds == SessionsSpec => []SessionsInv
BY SessionsInitInv, SessionsNextInv, PTL DEF SessionsSpec

\* Every behaviour of the sessions keeps the types of its tables.
THEOREM SessionsTypeCorrect == SessionsSpec => []SessionsTypeOK
<1>1. SessionsInv => SessionsTypeOK
  BY DEF SessionsInv
<1> QED BY <1>1, SessionsInvHolds, PTL

\* A handler runs for a user whose session, status and capability held at some moment of
\* the request: middlewares that read one after the other let no revoked authority through.
THEOREM AuthorityIsChecked == SessionsSpec => []AuthorityIsFresh
<1>1. SessionsInv => AuthorityIsFresh
  BY DEF SessionsInv, CallForm, PastSession, PastAccount, AuthorityIsFresh
<1> QED BY <1>1, SessionsInvHolds, PTL

\* Every tab of a browser was answered with the CSRF token that is stored: of two first
\* requests that generate one, the slower answers with what the faster has stored.
THEOREM TokensAgree == SessionsSpec => []TabsAgree
<1>1. SessionsInv => TabsAgree
  BY DEF SessionsInv
<1> QED BY <1>1, SessionsInvHolds, PTL

-----------------------------------------------------------------------------
(***************************************************************************)
(* The limits on logins                                                    *)
(*                                                                         *)
(* Beside each bucket runs one that is never forgotten.  A bucket is       *)
(* covered when, refilled to this moment, it holds no more than that one;  *)
(* the cleanup drops only what has rested long enough to be full, even if  *)
(* its last request had read the clock early.                              *)
(***************************************************************************)

\* What a peer's bucket may hold at a moment, beside what one that is never forgotten
\* would: no more, and all of it where there is no bucket.  A call that read the clock
\* early leaves lastSeen up to MaxDelay behind updated.
Covered(bucket, left, moment) ==
    /\ left \in 0..Capacity
    /\ bucket = None => left = Capacity
    /\ bucket # None =>
          /\ bucket \in Bucket
          /\ bucket.updated <= moment
          /\ bucket.updated - bucket.lastSeen <= MaxDelay
          /\ AtMost(bucket.tokens + (moment - bucket.updated), Capacity) <= left

\* A call that waits for the mutex knows its peer and has read the clock lately.
WaitForm(p) ==
    attempt[p].step = "waiting" =>
        /\ attempt[p].peer \in Peers
        /\ attempt[p].now <= clock
        /\ clock - attempt[p].now <= MaxDelay

LimiterInv ==
    /\ LimiterTypeOK
    /\ \A a \in Peers : Covered(buckets[a], allowance[a], clock)
    /\ \A p \in Requests : WaitForm(p)

-----------------------------------------------------------------------------
(* One bucket *)

\* The sizes are numbers, and the idle time covers a full refill and two delays.
LEMMA LimiterSizes ==
  /\ Full \in Nat /\ MaxDelay \in Nat /\ MaxTime \in Nat /\ RefillInterval \in Nat
  /\ IdleTime \in Nat /\ IdleTime >= Full + 2 * MaxDelay /\ Capacity = Full + MaxDelay
<1>1. Burst \in Nat /\ RefillInterval \in Nat
  BY LimiterAssumption
<1>2. Burst * RefillInterval \in Nat
  BY <1>1
<1> QED BY <1>1, <1>2, LimiterAssumption DEF Full, Capacity

\* Refilled brings a bucket up to the time that a call read, and adds no more than what
\* has passed.
LEMMA RefilledIsCovered ==
  ASSUME NEW c \in Times, NEW now \in Times, now <= c, c - now <= MaxDelay,
         NEW bucket, NEW left, Covered(bucket, left, c)
  PROVE  /\ Refilled(bucket, now) \in Bucket
         /\ Covered(Refilled(bucket, now), left, c)
         /\ Refilled(bucket, now).tokens + (c - Refilled(bucket, now).updated) <= Capacity
         /\ Refilled(bucket, now).tokens + (c - Refilled(bucket, now).updated) <= left
<1> DEFINE r == Refilled(bucket, now)
<1>0. /\ Full \in Nat /\ MaxDelay \in Nat /\ MaxTime \in Nat /\ Capacity = Full + MaxDelay
      /\ c \in 0..MaxTime /\ now \in 0..MaxTime /\ left \in 0..Capacity
  BY LimiterSizes DEF Times, Covered
<1>1. /\ r \in Bucket /\ r.updated <= c /\ r.updated - r.lastSeen <= MaxDelay
      /\ r.tokens + (c - r.updated) <= Capacity /\ r.tokens + (c - r.updated) <= left
  <2>1. CASE bucket = None
    <3>1. r = [tokens |-> Full, updated |-> now, lastSeen |-> now]
      BY <2>1 DEF Refilled
    <3>2. r \in Bucket /\ r.tokens = Full /\ r.updated = now /\ r.lastSeen = now
      BY <1>0, <3>1 DEF Bucket, Times
    <3> QED BY <1>0, <2>1, <3>2 DEF Covered
  <2>2. CASE bucket # None
    <3>0. /\ bucket \in Bucket /\ bucket.tokens \in 0..Full /\ bucket.updated \in 0..MaxTime
          /\ bucket.lastSeen \in 0..MaxTime /\ bucket.updated <= c
          /\ AtMost(bucket.tokens + (c - bucket.updated), Capacity) <= left
      BY <2>2 DEF Covered, Bucket, Times
    <3>1. CASE now > bucket.updated
      <4> DEFINE t == AtMost(bucket.tokens + (now - bucket.updated), Full)
      <4>1. r = [tokens |-> t, updated |-> now, lastSeen |-> now]
        BY <2>2, <3>1 DEF Refilled
      <4>2. /\ t \in 0..Full /\ t + (c - now) <= Capacity /\ t + (c - now) <= left
        BY <1>0, <3>0, <3>1 DEF AtMost
      <4> HIDE DEF t
      <4>3. r \in Bucket /\ r.tokens = t /\ r.updated = now /\ r.lastSeen = now
        BY <1>0, <4>1, <4>2 DEF Bucket, Times
      <4> QED BY <1>0, <4>2, <4>3
    <3>2. CASE ~(now > bucket.updated)
      <4>1. r = [bucket EXCEPT !.lastSeen = now]
        BY <2>2, <3>2 DEF Refilled
      <4>2. r \in Bucket /\ r.tokens = bucket.tokens /\ r.updated = bucket.updated /\ r.lastSeen = now
        BY <1>0, <3>0, <4>1 DEF Bucket, Times
      <4> QED BY <1>0, <3>0, <3>2, <4>2 DEF AtMost
    <3> QED BY <3>1, <3>2
  <2> QED BY <2>1, <2>2
<1> HIDE DEF r
<1>3. r.tokens \in 0..Full /\ r.updated \in 0..MaxTime
  BY <1>1 DEF Bucket, Times
<1>4. AtMost(r.tokens + (c - r.updated), Capacity) <= left
  BY <1>0, <1>1, <1>3 DEF AtMost
<1>5. r # None
  BY <1>1, LimiterAssumption
<1> QED BY <1>0, <1>1, <1>4, <1>5 DEF Covered, r

\* An attempt is paid for with as many tokens of both.
LEMMA SpentIsCovered ==
  ASSUME NEW c \in Times, NEW bucket \in Bucket, NEW left, Covered(bucket, left, c),
         bucket.tokens >= RefillInterval,
         bucket.tokens + (c - bucket.updated) <= Capacity,
         bucket.tokens + (c - bucket.updated) <= left
  PROVE  Spent(bucket) \in Bucket /\ Covered(Spent(bucket), left - RefillInterval, c)
<1> DEFINE r == Spent(bucket)
<1>0. /\ Full \in Nat /\ MaxDelay \in Nat /\ MaxTime \in Nat /\ Capacity = Full + MaxDelay
      /\ RefillInterval \in Nat /\ c \in 0..MaxTime /\ left \in 0..Capacity
  BY LimiterSizes DEF Times, Covered
<1>1. bucket \in [tokens : 0..Full, updated : 0..MaxTime, lastSeen : 0..MaxTime]
  BY DEF Bucket, Times
<1>2. bucket.tokens - RefillInterval \in 0..Full
  BY <1>0, <1>1
<1>3. /\ r \in Bucket /\ r.tokens = bucket.tokens - RefillInterval
      /\ r.updated = bucket.updated /\ r.lastSeen = bucket.lastSeen
  BY <1>1, <1>2 DEF Spent, Bucket, Times
<1> HIDE DEF r
<1>4. bucket # None /\ r # None
  BY <1>3, LimiterAssumption
<1>5. bucket.updated <= c /\ bucket.updated - bucket.lastSeen <= MaxDelay
  BY <1>4 DEF Covered
<1>6. left - RefillInterval \in 0..Capacity
  BY <1>0, <1>1, <1>5
<1>7. AtMost(r.tokens + (c - r.updated), Capacity) <= left - RefillInterval
  BY <1>0, <1>1, <1>3 DEF AtMost
<1> QED BY <1>3, <1>4, <1>5, <1>6, <1>7 DEF Covered, r

\* A bucket that is idle for so long has nothing to be forgiven.
LEMMA ForgottenIsCovered ==
  ASSUME NEW c \in Times, NEW now \in Times, now <= c,
         NEW bucket, bucket # None, NEW left, Covered(bucket, left, c), ~KeepBucket(bucket, now)
  PROVE  Covered(None, left, c)
<1>0. /\ Full \in Nat /\ MaxDelay \in Nat /\ MaxTime \in Nat /\ Capacity = Full + MaxDelay
      /\ IdleTime \in Nat /\ IdleTime >= Full + 2 * MaxDelay
      /\ c \in 0..MaxTime /\ now \in 0..MaxTime /\ left \in 0..Capacity
  BY LimiterSizes DEF Times, Covered
<1>1. /\ bucket.tokens \in 0..Full /\ bucket.updated \in 0..MaxTime /\ bucket.lastSeen \in 0..MaxTime
      /\ bucket.updated <= c /\ bucket.updated - bucket.lastSeen <= MaxDelay
      /\ AtMost(bucket.tokens + (c - bucket.updated), Capacity) <= left
  BY DEF Covered, Bucket, Times
<1>2. now - bucket.lastSeen >= IdleTime
  BY <1>0, <1>1 DEF KeepBucket
<1>3. left = Capacity
  BY <1>0, <1>1, <1>2 DEF AtMost
<1> QED BY <1>0, <1>3 DEF Covered

\* A tick refills both alike.
LEMMA TickIsCovered ==
  ASSUME NEW c \in Times, c + 1 \in Times, NEW bucket, NEW left, Covered(bucket, left, c)
  PROVE  Covered(bucket, AtMost(left + 1, Capacity), c + 1)
<1>0. /\ Full \in Nat /\ MaxDelay \in Nat /\ MaxTime \in Nat /\ Capacity = Full + MaxDelay
      /\ c \in 0..MaxTime /\ left \in 0..Capacity
  BY LimiterSizes DEF Times, Covered
<1>1. CASE bucket = None
  BY <1>0, <1>1 DEF Covered, AtMost
<1>2. CASE bucket # None
  <2>1. /\ bucket \in Bucket /\ bucket.tokens \in 0..Full /\ bucket.updated \in 0..MaxTime
        /\ bucket.updated <= c /\ bucket.updated - bucket.lastSeen <= MaxDelay
        /\ AtMost(bucket.tokens + (c - bucket.updated), Capacity) <= left
    BY <1>2 DEF Covered, Bucket, Times
  <2>2. AtMost(bucket.tokens + (c + 1 - bucket.updated), Capacity) <= AtMost(left + 1, Capacity)
    BY <1>0, <2>1 DEF AtMost
  <2>3. AtMost(left + 1, Capacity) \in 0..Capacity
    BY <1>0 DEF AtMost
  <2> QED BY <1>0, <1>2, <2>1, <2>2, <2>3 DEF Covered
<1> QED BY <1>1, <1>2

-----------------------------------------------------------------------------
(* The table *)

\* What the cleanup leaves covers what it forgets.
LEMMA CleanedIsCovered ==
  ASSUME LimiterInv, NEW now \in Times, now <= clock
  PROVE  \A a \in Peers : Covered(Cleaned(now)[a], allowance[a], clock)
<1> TAKE a \in Peers
<1>1. Covered(buckets[a], allowance[a], clock) /\ clock \in Times
  BY DEF LimiterInv, LimiterTypeOK
<1>2. CASE Cleaned(now)[a] = buckets[a]
  BY <1>1, <1>2
<1>3. CASE Cleaned(now)[a] # buckets[a]
  <2>1. Cleaned(now)[a] = None /\ buckets[a] # None /\ ~KeepBucket(buckets[a], now)
    BY <1>3 DEF Cleaned
  <2> QED BY <1>1, <2>1, ForgottenIsCovered
<1> QED BY <1>2, <1>3

\* Steps that leave the buckets alone.
LEMMA AttemptMoves ==
  ASSUME LimiterInv, NEW p \in Requests, NEW c \in Attempt,
         attempt' = [attempt EXCEPT ![p] = c], WaitForm(p)',
         UNCHANGED <<clock, buckets, lastCleanup, allowance>>
  PROVE  LimiterInv'
<1>1. \A q \in Requests : WaitForm(q)'
  BY DEF LimiterInv, LimiterTypeOK, WaitForm
<1> QED BY <1>1 DEF LimiterInv, LimiterTypeOK

\* A slot without a login.
LEMMA NoAttemptForm == NoAttempt \in Attempt /\ NoAttempt.step = "idle"
BY LimiterSizes DEF NoAttempt, Attempt, Times

\* Allow, whatever it decides.
LEMMA AllowKeepsInv ==
  ASSUME LimiterInv, NEW p \in Requests, Allow(p)
  PROVE  LimiterInv'
<1> DEFINE now    == attempt[p].now
           a      == attempt[p].peer
           table  == Cleaned(now)
           bucket == Refilled(table[a], now)
           known  == table[a] # None \/ HasRoom(table)
           pays   == known /\ bucket.tokens >= RefillInterval
           next   == IF pays THEN [step |-> "allowed", peer |-> a, now |-> now] ELSE NoAttempt
<1>0. /\ clock \in Times /\ buckets \in [Peers -> Bucket \cup {None}] /\ lastCleanup \in Times \cup {None}
      /\ attempt \in [Requests -> Attempt] /\ attempt[p] \in Attempt
      /\ allowance \in [Peers -> Int] /\ WaitForm(p)
  BY DEF LimiterInv, LimiterTypeOK
<1>1. a \in Peers /\ now \in Times /\ now <= clock /\ clock - now <= MaxDelay
  BY <1>0 DEF Allow, WaitForm, Attempt
<1>2. /\ lastCleanup' = (IF CleanupIsDue(now) THEN now ELSE lastCleanup)
      /\ buckets' = IF ~known THEN table
                    ELSE [table EXCEPT ![a] = IF pays THEN Spent(bucket) ELSE bucket]
      /\ allowance' = IF pays THEN [allowance EXCEPT ![a] = allowance[a] - RefillInterval] ELSE allowance
      /\ attempt' = [attempt EXCEPT ![p] = next]
      /\ UNCHANGED clock
  BY DEF Allow
<1>3. table \in [Peers -> Bucket \cup {None}]
  BY <1>0 DEF Cleaned
<1>4. \A b \in Peers : Covered(table[b], allowance[b], clock)
  BY <1>1, CleanedIsCovered
<1>5. /\ bucket \in Bucket /\ Covered(bucket, allowance[a], clock)
      /\ bucket.tokens + (clock - bucket.updated) <= Capacity
      /\ bucket.tokens + (clock - bucket.updated) <= allowance[a]
  BY <1>0, <1>1, <1>4, RefilledIsCovered
<1>6. pays => Spent(bucket) \in Bucket /\ Covered(Spent(bucket), allowance[a] - RefillInterval, clock)
  BY <1>0, <1>5, SpentIsCovered
<1>7. next \in Attempt /\ next.step # "waiting"
  BY <1>1, NoAttemptForm DEF Attempt
<1>8. RefillInterval \in Nat
  BY LimiterSizes
<1> HIDE DEF bucket, table, now, a, known, pays, next
<1>9. \A b \in Peers : Covered(buckets'[b], allowance'[b], clock')
  <2> TAKE b \in Peers
  <2>1. CASE ~known
    <3>1. ~pays
      BY <2>1 DEF pays
    <3> QED BY <1>2, <1>4, <2>1, <3>1
  <2>2. CASE known /\ b # a
    BY <1>0, <1>1, <1>2, <1>3, <1>4, <2>2
  <2>3. CASE known /\ b = a
    BY <1>0, <1>1, <1>2, <1>3, <1>5, <1>6, <2>3
  <2> QED BY <2>1, <2>2, <2>3
<1>10. LimiterTypeOK'
  <2>1. buckets' \in [Peers -> Bucket \cup {None}]
    BY <1>1, <1>2, <1>3, <1>5, <1>6
  <2>2. allowance' \in [Peers -> Int]
    <3>1. allowance[a] - RefillInterval \in Int
      BY <1>0, <1>1, <1>8
    <3> QED BY <1>0, <1>2, <3>1
  <2>3. lastCleanup' \in Times \cup {None} /\ attempt' \in [Requests -> Attempt] /\ clock' \in Times
    BY <1>0, <1>1, <1>2, <1>7
  <2> QED BY <2>1, <2>2, <2>3 DEF LimiterTypeOK
<1>11. \A q \in Requests : WaitForm(q)'
  BY <1>0, <1>2, <1>7 DEF WaitForm, LimiterInv
<1> QED BY <1>9, <1>10, <1>11 DEF LimiterInv

-----------------------------------------------------------------------------

\* No peer has a bucket and every permit is free.
LEMMA LimiterInitInv == LimiterInit => LimiterInv
<1> SUFFICES ASSUME LimiterInit PROVE LimiterInv
  OBVIOUS
<1>1. Full \in Nat /\ MaxDelay \in Nat /\ MaxTime \in Nat /\ Capacity = Full + MaxDelay
  BY LimiterSizes
<1>2. LimiterTypeOK
  BY <1>1, NoAttemptForm DEF LimiterInit, LimiterTypeOK, Times
<1>3. \A a \in Peers : Covered(buckets[a], allowance[a], clock)
  BY <1>1 DEF LimiterInit, Covered
<1>4. \A p \in Requests : WaitForm(p)
  BY NoAttemptForm DEF LimiterInit, WaitForm
<1> QED BY <1>2, <1>3, <1>4 DEF LimiterInv

\* One step of the clock, of a login or of the cleanup.
LEMMA LimiterNextInv == LimiterInv /\ [LimiterNext]_limiterVars => LimiterInv'
<1> SUFFICES ASSUME LimiterInv, [LimiterNext]_limiterVars PROVE LimiterInv'
  OBVIOUS
<1>0. /\ clock \in Times /\ attempt \in [Requests -> Attempt] /\ MaxDelay \in Nat
      /\ MaxTime \in Nat /\ Times = 0..MaxTime
  BY LimiterSizes DEF LimiterInv, LimiterTypeOK, Times
<1>1. CASE UNCHANGED limiterVars
  BY <1>1 DEF limiterVars, LimiterInv, LimiterTypeOK, WaitForm
<1>2. CASE Tick
  <2>1. clock' = clock + 1 /\ clock' \in Times /\ UNCHANGED <<buckets, lastCleanup, attempt>>
    BY <1>0, <1>2 DEF Tick
  <2>2. \A a \in Peers : allowance'[a] = AtMost(allowance[a] + 1, Capacity)
    BY <1>2 DEF Tick
  <2>3. \A a \in Peers : Covered(buckets[a], allowance'[a], clock + 1)
    BY <1>0, <2>1, <2>2, TickIsCovered DEF LimiterInv
  <2>4. \A a \in Peers : allowance'[a] \in Int
    BY <2>3, LimiterSizes DEF Covered
  <2>5. allowance' \in [Peers -> Int]
    BY <1>2, <2>4 DEF Tick
  <2>6. \A p \in Requests : WaitForm(p)'
    <3> TAKE p \in Requests
    <3>1. attempt[p].now \in 0..MaxTime
      BY <1>0 DEF Attempt
    <3> QED BY <1>0, <1>2, <2>1, <3>1 DEF Tick, WaitForm, LimiterInv
  <2> QED BY <2>1, <2>3, <2>5, <2>6 DEF LimiterInv, LimiterTypeOK
<1>3. ASSUME NEW p \in Requests, NEW a \in Peers, EnterAllow(p, a) PROVE LimiterInv'
  <2> DEFINE c == [step |-> "waiting", peer |-> a, now |-> clock]
  <2>1. c \in Attempt /\ c.step = "waiting" /\ c.peer = a /\ c.now = clock
    BY <1>0 DEF Attempt
  <2>2. /\ attempt' = [attempt EXCEPT ![p] = c] /\ UNCHANGED <<clock, buckets, lastCleanup, allowance>>
    BY <1>3 DEF EnterAllow
  <2> HIDE DEF c
  <2>3. WaitForm(p)'
    BY <1>0, <2>1, <2>2 DEF WaitForm
  <2> QED BY <2>1, <2>2, <2>3, AttemptMoves
<1>4. ASSUME NEW p \in Requests, Allow(p) PROVE LimiterInv'
  BY <1>4, AllowKeepsInv
<1>5. ASSUME NEW p \in Requests, TryAcquire(p) \/ ReleasePermit(p) PROVE LimiterInv'
  <2> DEFINE work == [attempt[p] EXCEPT !.step = "working"]
  <2>1. work \in Attempt /\ work.step = "working"
    BY <1>0 DEF Attempt
  <2>2. PICK c \in {work, NoAttempt} : attempt' = [attempt EXCEPT ![p] = c]
    BY <1>5 DEF TryAcquire, ReleasePermit
  <2> HIDE DEF work
  <2>3. c \in Attempt /\ c.step # "waiting" /\ UNCHANGED <<clock, buckets, lastCleanup, allowance>>
    BY <1>5, <2>1, <2>2, NoAttemptForm DEF TryAcquire, ReleasePermit
  <2>4. WaitForm(p)'
    BY <1>0, <2>2, <2>3 DEF WaitForm
  <2> QED BY <2>2, <2>3, <2>4, AttemptMoves
<1> QED BY <1>1, <1>2, <1>3, <1>4, <1>5 DEF LimiterNext

\* The invariant, along every behaviour.
LEMMA LimiterInvHolds == LimiterSpec => []LimiterInv
BY LimiterInitInv, LimiterNextInv, PTL DEF LimiterSpec

\* Every behaviour of the limiter keeps its types.
THEOREM LimiterTypeCorrect == LimiterSpec => []LimiterTypeOK
<1>1. LimiterInv => LimiterTypeOK
  BY DEF LimiterInv
<1> QED BY <1>1, LimiterInvHolds, PTL

\* A bucket never holds more than one that is never forgotten: what the cleanup drops was
\* full again, whichever clock a request has read before it waited for the mutex.
THEOREM LimitsHold == LimiterSpec => []NothingIsForgiven
<1>1. LimiterInv => NothingIsForgiven
  BY LimiterSizes DEF LimiterInv, Covered, NothingIsForgiven
<1> QED BY <1>1, LimiterInvHolds, PTL

-----------------------------------------------------------------------------
(***************************************************************************)
(* Translations                                                            *)
(*                                                                         *)
(* A request that has read a workspace relies on what it read only as      *)
(* long as the workspace has the revision that it read, and every edit     *)
(* advances the revision.  A workspace exists only of a version that is    *)
(* stored, and a version is stored once: therefore no import can come to   *)
(* a stream that a publication has locked.                                 *)
(***************************************************************************)

\* The steps at which a request has read its workspace.
LoadedSteps == {"composed", "checked", "reviewed", "prepared", "locked"}

\* The workspace is there, and no younger than it was read.
KnownWorkspace(p) ==
    /\ command[p].stream \in Streams
    /\ workspace[command[p].stream] # None
    /\ command[p].expected >= 1
    /\ command[p].expected <= workspace[command[p].stream].revision

CommandForm(p) ==
    /\ command[p].step = "insert" =>
          command[p].stream \in Streams /\ command[p].stream.version \in sources
    /\ command[p].step \in LoadedSteps => KnownWorkspace(p)
    /\ command[p].step = "reviewed" /\ Unchanged(p) => Complete(workspace[command[p].stream].tree)
    /\ command[p].step \in {"prepared", "locked"} /\ Unchanged(p) =>
          /\ command[p].tree = workspace[command[p].stream].tree
          /\ Complete(command[p].tree)
    /\ command[p].step = "locked" =>
          \A q \in publications : q.stream = command[p].stream => q.origin # "IMPORTED"

WorkspacesHaveSources == \A s \in Streams : workspace[s] # None => s.version \in sources

PublicationsAreComplete == \A q \in publications : Complete(q.tree)

TranslationInv ==
    /\ TranslationsTypeOK
    /\ WorkspacesHaveSources
    /\ PublicationsAreComplete
    /\ OriginsNeverMix
    /\ \A p \in Requests : CommandForm(p)

-----------------------------------------------------------------------------
(* Requests that rest *)

\* Versions stay, workspaces are edited under a new revision, and an import comes only
\* where there is no workspace.
StoresGrow ==
    /\ sources \subseteq sources'
    /\ \A s \in Streams : workspace[s] # None =>
          /\ workspace'[s] # None
          /\ workspace[s].revision <= workspace'[s].revision
          /\ workspace[s].revision = workspace'[s].revision => workspace[s].tree = workspace'[s].tree
    /\ \A q \in publications' \ publications : q.origin = "IMPORTED" => workspace[q.stream] = None

\* A request that another one's step does not touch.
LEMMA CommandRests ==
  ASSUME TranslationsTypeOK, StoresGrow, NEW p \in Requests, CommandForm(p), command'[p] = command[p],
         TranslationsTypeOK'
  PROVE  CommandForm(p)'
<1> DEFINE s == command[p].stream
<1>1. /\ command[p] \in Command
      /\ \A t \in Streams : workspace[t] # None => workspace[t].revision \in Nat
      /\ \A t \in Streams : workspace'[t] # None => workspace'[t].revision \in Nat
  BY DEF TranslationsTypeOK, Workspace
<1>2. command[p].expected \in Nat
  BY <1>1 DEF Command
<1>3. command[p].step \in LoadedSteps => KnownWorkspace(p)'
  BY <1>1, <1>2 DEF CommandForm, KnownWorkspace, StoresGrow
<1>4. ASSUME command[p].step \in LoadedSteps, Unchanged(p)'
      PROVE  Unchanged(p) /\ workspace'[s].tree = workspace[s].tree
  BY <1>1, <1>2, <1>4 DEF CommandForm, KnownWorkspace, StoresGrow, Unchanged
<1>5. command[p].step = "reviewed" /\ Unchanged(p)' => Complete(workspace'[s].tree)
  BY <1>4 DEF CommandForm, LoadedSteps
<1>6. command[p].step \in {"prepared", "locked"} /\ Unchanged(p)' =>
        command[p].tree = workspace'[s].tree /\ Complete(command[p].tree)
  BY <1>4 DEF CommandForm, LoadedSteps
<1>7. command[p].step = "locked" =>
        \A q \in publications' : q.stream = command[p].stream => q.origin # "IMPORTED"
  BY DEF CommandForm, KnownWorkspace, StoresGrow, LoadedSteps
<1> QED BY <1>3, <1>5, <1>6, <1>7 DEF CommandForm, StoresGrow, Complete

\* A request that ends.
LEMMA EndTranslationForm ==
  ASSUME NEW p \in Requests, command'[p] = NoCommand
  PROVE  CommandForm(p)'
BY DEF CommandForm, NoCommand, LoadedSteps

\* Nothing to translate yet is a tree.
LEMMA NoCommandType == NoCommand \in Command
<1>1. SeedTranslationTree \in Tree
  BY DEF SeedTranslationTree, Tree
<1> QED BY <1>1, TranslationsAssumption DEF NoCommand, Command

\* A step of one request that leaves the tables alone.
LEMMA CommandMoves ==
  ASSUME TranslationInv, UNCHANGED translationTables, NEW p \in Requests,
         NEW c, command' = [command EXCEPT ![p] = c], c \in Command,
         command'[p] = c => CommandForm(p)'
  PROVE  TranslationInv'
<1>1. TranslationsTypeOK'
  BY DEF TranslationInv, TranslationsTypeOK, translationTables
<1>2. StoresGrow
  BY DEF StoresGrow, translationTables, TranslationInv, TranslationsTypeOK, Workspace
<1>3. command'[p] = c /\ \A q \in Requests \ {p} : command'[q] = command[q]
  BY DEF TranslationInv, TranslationsTypeOK
<1>4. \A q \in Requests : CommandForm(q)'
  BY <1>1, <1>2, <1>3, CommandRests DEF TranslationInv
<1>5. WorkspacesHaveSources' /\ PublicationsAreComplete' /\ OriginsNeverMix'
  BY DEF TranslationInv, WorkspacesHaveSources, PublicationsAreComplete, OriginsNeverMix, translationTables, Complete
<1> QED BY <1>1, <1>4, <1>5 DEF TranslationInv

-----------------------------------------------------------------------------
(* Steps of one request *)

\* Go, when the step that follows asks for no more than what is known.
LEMMA GoKeepsInv ==
  ASSUME TranslationInv, NEW p \in Requests, NEW step \in {"checked", "locked"}, Go(p, step),
         UNCHANGED translationTables, command[p].step \in LoadedSteps,
         step = "locked" => command[p].step = "prepared" /\ ~HasImport(command[p].stream)
  PROVE  TranslationInv'
<1> DEFINE c == [command[p] EXCEPT !.step = step]
<1>1. command[p] \in Command
  BY DEF TranslationInv, TranslationsTypeOK
<1>2. /\ c \in Command /\ c.step = step /\ c.stream = command[p].stream
      /\ c.expected = command[p].expected /\ c.tree = command[p].tree
  BY <1>1 DEF Command
<1>3. ASSUME command'[p] = c
      PROVE  CommandForm(p)'
  <2>1. KnownWorkspace(p)'
    BY <1>2, <1>3 DEF KnownWorkspace, TranslationInv, CommandForm, translationTables
  <2>2. CASE step = "checked"
    BY <1>2, <1>3, <2>1, <2>2 DEF CommandForm
  <2>3. CASE step = "locked"
    <3>1. Unchanged(p)' => Unchanged(p)
      BY <1>2, <1>3 DEF Unchanged, translationTables
    <3>2. \A q \in publications' : q.stream = command'[p].stream => q.origin # "IMPORTED"
      BY <1>2, <1>3, <2>3 DEF HasImport, PublishedIn, translationTables
    <3> QED BY <1>2, <1>3, <2>1, <2>3, <3>1, <3>2
            DEF CommandForm, TranslationInv, translationTables, Complete
  <2> QED BY <2>2, <2>3
<1> HIDE DEF c
<1> QED BY <1>2, <1>3, CommandMoves DEF Go, c

\* EndCommand
LEMMA EndCommandKeepsInv ==
  ASSUME TranslationInv, NEW p \in Requests, EndCommand(p)
  PROVE  TranslationInv'
BY NoCommandType, EndTranslationForm, CommandMoves DEF EndCommand

\* AuthorizeCreate
LEMMA AuthorizeCreateKeepsInv ==
  ASSUME TranslationInv, NEW p \in Requests, NEW u \in Users, NEW s \in Streams, AuthorizeCreate(p, u, s)
  PROVE  TranslationInv'
<1> DEFINE c == [NoCommand EXCEPT !.step = "insert", !.stream = s, !.actor = u]
<1>1. c \in Command /\ c.step = "insert" /\ c.stream = s
  BY NoCommandType DEF Command, NoCommand
<1>2. ASSUME command'[p] = c
      PROVE  CommandForm(p)'
  <2>1. command'[p].step = "insert" /\ command'[p].stream = s
    BY <1>1, <1>2
  <2>2. s.version \in sources'
    BY DEF AuthorizeCreate, translationTables
  <2> HIDE DEF c
  <2> QED BY <2>1, <2>2 DEF CommandForm, LoadedSteps
<1> QED BY <1>1, <1>2, CommandMoves DEF AuthorizeCreate

\* What a request reads of a workspace.
LEMMA WorkspaceRead ==
  ASSUME TranslationInv, NEW s \in Streams, workspace[s] # None
  PROVE  /\ workspace[s] \in Workspace /\ workspace[s].tree \in Tree
         /\ workspace[s].revision \in 1..MaxTranslationRevision
         /\ workspace[s].revision \in 0..MaxTranslationRevision
         /\ workspace[s].revision >= 1 /\ workspace[s].revision <= workspace[s].revision
BY TranslationsAssumption DEF TranslationInv, TranslationsTypeOK, Workspace

\* ComposePatch
LEMMA ComposePatchKeepsInv ==
  ASSUME TranslationInv, NEW p \in Requests, NEW u \in Users, NEW s \in Streams, NEW change \in Changes,
         ComposePatch(p, u, s, change)
  PROVE  TranslationInv'
<1> DEFINE c == [step |-> "composed", stream |-> s, actor |-> u, expected |-> workspace[s].revision,
                 tree |-> ApplyTextChange(workspace[s].tree, change)]
<1>1. workspace[s] # None
  BY DEF ComposePatch, LoadAuthorized
<1>2. ApplyTextChange(workspace[s].tree, change) \in Tree
  BY <1>1, WorkspaceRead DEF ApplyTextChange, Tree, Changes
<1>3. c \in Command
  BY <1>1, <1>2, WorkspaceRead DEF Command
<1>4. ASSUME command'[p] = c
      PROVE  CommandForm(p)'
  BY <1>1, <1>4, WorkspaceRead DEF CommandForm, KnownWorkspace, LoadedSteps, ComposePatch, translationTables
<1> QED BY <1>3, <1>4, CommandMoves DEF ComposePatch

\* ReviewTranslation
LEMMA ReviewKeepsInv ==
  ASSUME TranslationInv, NEW p \in Requests, NEW u \in Users, NEW s \in Streams, ReviewTranslation(p, u, s)
  PROVE  TranslationInv'
<1> DEFINE c == [NoCommand EXCEPT !.step = "reviewed", !.stream = s, !.actor = u,
                                  !.expected = workspace[s].revision]
<1>1. workspace[s] # None /\ Complete(workspace[s].tree)
  BY DEF ReviewTranslation, LoadAuthorized
<1>2. /\ c \in Command /\ c.step = "reviewed" /\ c.stream = s
      /\ c.expected = workspace[s].revision
  BY <1>1, WorkspaceRead, NoCommandType DEF Command, NoCommand
<1>3. ASSUME command'[p] = c
      PROVE  CommandForm(p)'
  BY <1>1, <1>2, <1>3, WorkspaceRead
     DEF CommandForm, KnownWorkspace, LoadedSteps, ReviewTranslation, translationTables, Complete
<1> QED BY <1>2, <1>3, CommandMoves DEF ReviewTranslation

\* PreparePublication
LEMMA PrepareKeepsInv ==
  ASSUME TranslationInv, NEW p \in Requests, PreparePublication(p)
  PROVE  TranslationInv'
<1> DEFINE s == command[p].stream
           c == [command[p] EXCEPT !.step = "prepared", !.tree = workspace[s].tree]
<1>1. /\ command[p] \in Command /\ KnownWorkspace(p) /\ Complete(workspace[s].tree)
      /\ s \in Streams /\ workspace[s] # None
  BY DEF TranslationInv, TranslationsTypeOK, CommandForm, PreparePublication, KnownWorkspace, LoadedSteps
<1>2. /\ c \in Command /\ c.step = "prepared" /\ c.stream = s
      /\ c.expected = command[p].expected /\ c.tree = workspace[s].tree
  BY <1>1, WorkspaceRead DEF Command
<1>3. ASSUME command'[p] = c
      PROVE  CommandForm(p)'
  BY <1>1, <1>2, <1>3 DEF CommandForm, KnownWorkspace, LoadedSteps, PreparePublication, translationTables, Complete
<1> QED BY <1>2, <1>3, CommandMoves DEF PreparePublication

-----------------------------------------------------------------------------
(* Steps that change the tables *)

\* A step that ends at most the request it belongs to.
LEMMA ShownTree ==
  ASSUME TranslationInv, StoresGrow, TranslationsTypeOK',
         \A p \in Requests : command'[p] = command[p] \/ command'[p] = NoCommand
  PROVE  \A p \in Requests : CommandForm(p)'
BY CommandRests, EndTranslationForm DEF TranslationInv

\* PublishVersion
LEMMA PublishVersionKeepsInv ==
  ASSUME TranslationInv, NEW v \in Versions, NEW authors \in SUBSET Users, PublishVersion(v, authors)
  PROVE  TranslationInv'
<1>1. TranslationsTypeOK'
  BY DEF TranslationInv, TranslationsTypeOK, PublishVersion
<1>2. StoresGrow
  BY DEF StoresGrow, PublishVersion, TranslationInv, TranslationsTypeOK, Workspace
<1>3. \A p \in Requests : CommandForm(p)'
  BY <1>1, <1>2, ShownTree DEF PublishVersion
<1>4. WorkspacesHaveSources' /\ PublicationsAreComplete' /\ OriginsNeverMix'
  BY DEF TranslationInv, WorkspacesHaveSources, PublicationsAreComplete, OriginsNeverMix, PublishVersion, Complete
<1> QED BY <1>1, <1>3, <1>4 DEF TranslationInv

\* StoreImportedPublications: the version is new, so there is no workspace of it yet.
LEMMA StoreImportedKeepsInv ==
  ASSUME TranslationInv, NEW v \in Versions, NEW trees \in ImportedTrees, StoreImportedPublications(v, trees)
  PROVE  TranslationInv'
<1> DEFINE row == [l \in DOMAIN trees |->
             [stream |-> [version |-> v, language |-> l], origin |-> "IMPORTED",
              revision |-> 0, tree |-> trees[l]]]
<1>1. /\ DOMAIN trees \subseteq Languages
      /\ \A l \in DOMAIN trees : trees[l] \in Tree /\ Complete(trees[l])
  BY DEF ImportedTrees
<1>2. publications' = publications \cup {row[l] : l \in DOMAIN trees}
  BY DEF StoreImportedPublications
<1>3. \A l \in DOMAIN trees : /\ row[l] \in Publication /\ row[l].stream = [version |-> v, language |-> l]
                             /\ row[l].stream \in Streams /\ row[l].stream.version = v
                             /\ row[l].origin = "IMPORTED" /\ Complete(row[l].tree)
  BY <1>1, TranslationsAssumption DEF Publication, Streams
<1>4. v \notin sources /\ sources' = sources \cup {v} /\ UNCHANGED <<contributors, workspace, command>>
  BY DEF StoreImportedPublications
<1> HIDE DEF row
<1>5. TranslationsTypeOK'
  BY <1>2, <1>3, <1>4 DEF TranslationInv, TranslationsTypeOK
<1>6. StoresGrow
  <2>1. ASSUME NEW q \in publications' \ publications
        PROVE  workspace[q.stream] = None
    <3>1. PICK l \in DOMAIN trees : q = row[l]
      BY <1>2, <2>1
    <3>2. q.stream \in Streams /\ q.stream.version \notin sources
      BY <1>3, <1>4, <3>1
    <3> QED BY <3>2 DEF TranslationInv, WorkspacesHaveSources
  <2> QED BY <1>4, <2>1 DEF StoresGrow, TranslationInv, TranslationsTypeOK, Workspace
<1>7. \A p \in Requests : CommandForm(p)'
  BY <1>4, <1>5, <1>6, ShownTree
<1>8. WorkspacesHaveSources' /\ PublicationsAreComplete'
  <2>1. WorkspacesHaveSources'
    BY <1>4 DEF TranslationInv, WorkspacesHaveSources
  <2>2. ASSUME NEW q \in publications'
        PROVE  Complete(q.tree)
    <3>1. CASE q \in publications
      BY <3>1 DEF TranslationInv, PublicationsAreComplete
    <3>2. CASE q \notin publications
      <4>1. PICK l \in DOMAIN trees : q = row[l]
        BY <1>2, <3>2
      <4> QED BY <1>3, <4>1
    <3> QED BY <3>1, <3>2
  <2> QED BY <2>1, <2>2 DEF PublicationsAreComplete, Complete
<1>9. OriginsNeverMix'
  <2>1. \A l \in DOMAIN trees, q \in publications : q.stream # row[l].stream
    <3> SUFFICES ASSUME NEW l \in DOMAIN trees, NEW q \in publications
                 PROVE  q.stream # row[l].stream
      OBVIOUS
    <3>1. PublishedIn([version |-> v, language |-> l]) = {}
      BY DEF StoreImportedPublications
    <3>2. row[l].stream = [version |-> v, language |-> l]
      BY <1>3
    <3>3. PublishedIn(row[l].stream) = {}
      BY <3>1, <3>2
    <3> QED BY <3>3 DEF PublishedIn
  <2>2. \A l, m \in DOMAIN trees : row[l].stream = row[m].stream => row[l] = row[m]
    <3> SUFFICES ASSUME NEW l \in DOMAIN trees, NEW m \in DOMAIN trees, row[l].stream = row[m].stream
                 PROVE  l = m
      OBVIOUS
    <3>1. [version |-> v, language |-> l] = [version |-> v, language |-> m]
      BY <1>3
    <3> QED BY <3>1
  <2> QED BY <1>2, <2>1, <2>2 DEF OriginsNeverMix, TranslationInv
<1> QED BY <1>5, <1>7, <1>8, <1>9 DEF TranslationInv

\* InsertWorkspace
LEMMA InsertWorkspaceKeepsInv ==
  ASSUME TranslationInv, NEW p \in Requests, InsertWorkspace(p)
  PROVE  TranslationInv'
<1> DEFINE s == command[p].stream
           new == [status |-> "DRAFT", revision |-> 1, tree |-> SeedTranslationTree]
<1>1. s \in Streams /\ s.version \in sources
  BY DEF TranslationInv, CommandForm, InsertWorkspace
<1>2. CASE workspace[s] # None
  <2>1. workspace' = workspace
    BY <1>1, <1>2 DEF InsertWorkspace, TranslationInv, TranslationsTypeOK
  <2>2. TranslationsTypeOK'
    BY <2>1, NoCommandType DEF InsertWorkspace, TranslationInv, TranslationsTypeOK
  <2>3. StoresGrow
    BY <2>1 DEF StoresGrow, InsertWorkspace, TranslationInv, TranslationsTypeOK, Workspace
  <2>4. \A q \in Requests : CommandForm(q)'
    BY <2>2, <2>3, ShownTree DEF InsertWorkspace, TranslationInv, TranslationsTypeOK
  <2>5. WorkspacesHaveSources' /\ PublicationsAreComplete' /\ OriginsNeverMix'
    BY <2>1 DEF TranslationInv, WorkspacesHaveSources, PublicationsAreComplete, OriginsNeverMix, InsertWorkspace, Complete
  <2> QED BY <2>2, <2>4, <2>5 DEF TranslationInv
<1>3. CASE workspace[s] = None
  <2>1. SeedTranslationTree \in Tree
    BY DEF SeedTranslationTree, Tree
  <2>2. workspace' = [workspace EXCEPT ![s] = new]
    BY <1>1, <1>3 DEF InsertWorkspace, TranslationInv, TranslationsTypeOK
  <2>3. MaxTranslationRevision >= 1
    BY TranslationsAssumption
  <2> QED
    <3>1. new \in Workspace
      BY <2>1, <2>3, TranslationsAssumption DEF Workspace
    <3>2. TranslationsTypeOK'
      BY <2>2, <3>1, NoCommandType DEF InsertWorkspace, TranslationInv, TranslationsTypeOK
    <3>3. StoresGrow
      BY <1>1, <1>3, <2>2 DEF StoresGrow, InsertWorkspace, TranslationInv, TranslationsTypeOK, Workspace
    <3>4. \A q \in Requests : CommandForm(q)'
      BY <3>2, <3>3, ShownTree DEF InsertWorkspace, TranslationInv, TranslationsTypeOK
    <3>5. WorkspacesHaveSources'
      BY <1>1, <2>2 DEF TranslationInv, WorkspacesHaveSources, InsertWorkspace, TranslationsTypeOK
    <3>6. PublicationsAreComplete' /\ OriginsNeverMix'
      BY DEF TranslationInv, PublicationsAreComplete, OriginsNeverMix, InsertWorkspace, Complete
    <3> QED BY <3>2, <3>4, <3>5, <3>6 DEF TranslationInv
<1> QED BY <1>2, <1>3

\* UpdateTree: who has read the revision before relies on nothing any more.
LEMMA UpdateTreeKeepsInv ==
  ASSUME TranslationInv, NEW p \in Requests, UpdateTree(p)
  PROVE  TranslationInv'
<1> DEFINE s == command[p].stream
           new == [status |-> workspace[s].status, revision |-> workspace[s].revision + 1,
                   tree |-> command[p].tree]
<1>1. s \in Streams /\ workspace[s] # None /\ command[p].tree \in Tree
  BY DEF TranslationInv, CommandForm, KnownWorkspace, LoadedSteps, UpdateTree, TranslationsTypeOK, Command
<1>2. /\ workspace' = [workspace EXCEPT ![s] = new]
      /\ command' = [command EXCEPT ![p] = NoCommand]
      /\ UNCHANGED <<sources, contributors, publications>>
      /\ workspace[s].revision < MaxTranslationRevision
  BY DEF UpdateTree
<1>3. /\ workspace[s] \in Workspace /\ workspace[s].revision \in 1..MaxTranslationRevision
      /\ new \in Workspace
  BY <1>1, <1>2, WorkspaceRead, TranslationsAssumption DEF Workspace
<1>4. TranslationsTypeOK'
  BY <1>2, <1>3, NoCommandType DEF TranslationInv, TranslationsTypeOK
<1>5. workspace'[s] = new /\ \A t \in Streams \ {s} : workspace'[t] = workspace[t]
  BY <1>1, <1>2 DEF TranslationInv, TranslationsTypeOK
<1>6. new # None /\ new.revision = workspace[s].revision + 1
  BY <1>3, WorkspaceAssumption
<1> HIDE DEF new
<1>7. StoresGrow
  BY <1>2, <1>3, <1>5, <1>6 DEF StoresGrow, TranslationInv, TranslationsTypeOK, Workspace
<1>8. \A q \in Requests : CommandForm(q)'
  BY <1>2, <1>4, <1>7, ShownTree DEF TranslationInv, TranslationsTypeOK
<1>9. WorkspacesHaveSources' /\ PublicationsAreComplete' /\ OriginsNeverMix'
  BY <1>1, <1>2, <1>5
     DEF TranslationInv, WorkspacesHaveSources, PublicationsAreComplete, OriginsNeverMix, Complete
<1> QED BY <1>4, <1>8, <1>9 DEF TranslationInv

\* CheckPatch
LEMMA CheckPatchKeepsInv ==
  ASSUME TranslationInv, NEW p \in Requests, CheckPatch(p)
  PROVE  TranslationInv'
BY GoKeepsInv DEF CheckPatch, LoadedSteps

\* LockPublicationStream
LEMMA StreamLockKeepsInv ==
  ASSUME TranslationInv, NEW p \in Requests, LockPublicationStream(p)
  PROVE  TranslationInv'
BY GoKeepsInv DEF LockPublicationStream, LoadedSteps

\* What a publication that commits inserts: the tree of the workspace, complete, into a
\* stream that holds no import and not yet this revision.
LEMMA Committed ==
  ASSUME TranslationInv, NEW p \in Requests, CommitPublication(p)
  PROVE  LET c == command[p] IN
         /\ c.stream \in Streams /\ workspace[c.stream] # None
         /\ c.expected \in 1..MaxTranslationRevision /\ c.tree \in Tree
         /\ workspace[c.stream].revision = c.expected
         /\ workspace[c.stream].tree = c.tree
         /\ Complete(c.tree)
         /\ \A q \in publications :
               q.stream = c.stream => q.origin = "AUTHORING" /\ q.revision # c.expected
<1> DEFINE c == command[p]
<1>1. c \in Command /\ c.step = "locked" /\ Unchanged(p) /\ ~AlreadyPublished(c.stream, c.expected)
  BY DEF CommitPublication, TranslationInv, TranslationsTypeOK
<1>2. CommandForm(p) /\ KnownWorkspace(p)
  BY <1>1 DEF TranslationInv, CommandForm, LoadedSteps
<1>3. c.expected \in 1..MaxTranslationRevision /\ c.tree \in Tree
  BY <1>1, <1>2, TranslationsAssumption DEF Command, KnownWorkspace
<1>4. \A q \in publications : q.origin \in {"AUTHORING", "IMPORTED"}
  BY DEF TranslationInv, TranslationsTypeOK, Publication
<1>5. \A q \in publications : q.stream = c.stream => q.origin = "AUTHORING" /\ q.revision # c.expected
  BY <1>1, <1>2, <1>4 DEF CommandForm, AlreadyPublished, PublishedIn
<1> QED BY <1>1, <1>2, <1>3, <1>5 DEF CommandForm, KnownWorkspace, Unchanged

\* CommitPublication
LEMMA CommitKeepsInv ==
  ASSUME TranslationInv, NEW p \in Requests, CommitPublication(p)
  PROVE  TranslationInv'
<1> DEFINE s == command[p].stream
           row == [stream |-> s, origin |-> "AUTHORING", revision |-> command[p].expected,
                   tree |-> command[p].tree]
           new == [workspace[s] EXCEPT !.status = "PUBLISHED"]
<1>1. /\ publications' = publications \cup {row}
      /\ workspace' = [workspace EXCEPT ![s] = new]
      /\ command' = [command EXCEPT ![p] = NoCommand]
      /\ UNCHANGED <<sources, contributors>>
  BY DEF CommitPublication
<1>2. /\ s \in Streams /\ workspace[s] # None /\ Complete(row.tree)
      /\ row \in Publication /\ row.origin = "AUTHORING" /\ row.stream = s
      /\ \A q \in publications : q.stream = s => q.origin = "AUTHORING" /\ q.revision # row.revision
  BY Committed, TranslationsAssumption DEF Publication
<1>3. workspace[s] \in Workspace
  BY <1>2, WorkspaceRead
<1>4. /\ new \in Workspace /\ new.revision = workspace[s].revision /\ new.tree = workspace[s].tree
      /\ new # None
  BY <1>3, WorkspaceAssumption DEF Workspace
<1> HIDE DEF row, new
<1>5. workspace'[s] = new /\ \A t \in Streams \ {s} : workspace'[t] = workspace[t]
  BY <1>1, <1>2 DEF TranslationInv, TranslationsTypeOK
<1>6. TranslationsTypeOK'
  BY <1>1, <1>2, <1>4, NoCommandType DEF TranslationInv, TranslationsTypeOK
<1>7. StoresGrow
  BY <1>1, <1>2, <1>4, <1>5 DEF StoresGrow, TranslationInv, TranslationsTypeOK, Workspace
<1>8. \A q \in Requests : CommandForm(q)'
  BY <1>1, <1>6, <1>7, ShownTree DEF TranslationInv, TranslationsTypeOK
<1>9. WorkspacesHaveSources' /\ PublicationsAreComplete'
  BY <1>1, <1>2, <1>5 DEF TranslationInv, WorkspacesHaveSources, PublicationsAreComplete, Complete
<1>10. OriginsNeverMix'
  BY <1>1, <1>2 DEF TranslationInv, OriginsNeverMix
<1> QED BY <1>6, <1>8, <1>9, <1>10 DEF TranslationInv

-----------------------------------------------------------------------------
(* The specification *)

\* The tables start empty.
LEMMA TranslationInitInv == TranslationsInit => TranslationInv
<1> SUFFICES ASSUME TranslationsInit
             PROVE  TranslationInv
  OBVIOUS
<1>1. TranslationsTypeOK
  BY NoCommandType DEF TranslationsInit, TranslationsTypeOK
<1>2. \A p \in Requests : CommandForm(p)
  BY DEF TranslationsInit, CommandForm, NoCommand, LoadedSteps
<1> QED BY <1>1, <1>2
        DEF TranslationsInit, TranslationInv, WorkspacesHaveSources, PublicationsAreComplete, OriginsNeverMix

\* Every step keeps the invariant.
LEMMA TranslationNextInv == TranslationInv /\ [TranslationsNext]_translationVars => TranslationInv'
<1> SUFFICES ASSUME TranslationInv, [TranslationsNext]_translationVars
             PROVE  TranslationInv'
  OBVIOUS
<1>1. CASE UNCHANGED translationVars
  <2>1. TranslationsTypeOK' /\ WorkspacesHaveSources' /\ PublicationsAreComplete' /\ OriginsNeverMix'
    BY <1>1 DEF TranslationInv, TranslationsTypeOK, WorkspacesHaveSources, PublicationsAreComplete,
                OriginsNeverMix, translationVars, Complete
  <2>2. \A p \in Requests : CommandForm(p)'
    BY <1>1 DEF TranslationInv, CommandForm, KnownWorkspace, Unchanged, Complete, translationVars
  <2> QED BY <2>1, <2>2 DEF TranslationInv
<1>2. CASE \E v \in Versions, authors \in SUBSET Users : PublishVersion(v, authors)
  BY <1>2, PublishVersionKeepsInv
<1>3. CASE \E v \in Versions, trees \in ImportedTrees : StoreImportedPublications(v, trees)
  BY <1>3, StoreImportedKeepsInv
<1>4. CASE \E p \in Requests, u \in Users, s \in Streams : AuthorizeCreate(p, u, s)
  BY <1>4, AuthorizeCreateKeepsInv
<1>5. CASE \E p \in Requests, u \in Users, s \in Streams, change \in Changes : ComposePatch(p, u, s, change)
  BY <1>5, ComposePatchKeepsInv
<1>6. CASE \E p \in Requests, u \in Users, s \in Streams : ReviewTranslation(p, u, s)
  BY <1>6, ReviewKeepsInv
<1>7. CASE \E p \in Requests : InsertWorkspace(p)
  BY <1>7, InsertWorkspaceKeepsInv
<1>8. CASE \E p \in Requests : CheckPatch(p)
  BY <1>8, CheckPatchKeepsInv
<1>9. CASE \E p \in Requests : UpdateTree(p)
  BY <1>9, UpdateTreeKeepsInv
<1>10. CASE \E p \in Requests : PreparePublication(p)
  BY <1>10, PrepareKeepsInv
<1>11. CASE \E p \in Requests : LockPublicationStream(p)
  BY <1>11, StreamLockKeepsInv
<1>12. CASE \E p \in Requests : CommitPublication(p)
  BY <1>12, CommitKeepsInv
<1>13. CASE \E p \in Requests : EndCommand(p)
  BY <1>13, EndCommandKeepsInv
<1> QED BY <1>1, <1>2, <1>3, <1>4, <1>5, <1>6, <1>7, <1>8, <1>9, <1>10, <1>11, <1>12, <1>13
        DEF TranslationsNext

\* The invariant holds always.
LEMMA TranslationInvHolds == TranslationsSpec => []TranslationInv
BY TranslationInitInv, TranslationNextInv, PTL DEF TranslationsSpec

\* Every variable of the translations has its type.
THEOREM TranslationsTypeCorrect == TranslationsSpec => []TranslationsTypeOK
<1>1. TranslationInv => TranslationsTypeOK
  BY DEF TranslationInv
<1> QED BY <1>1, TranslationInvHolds, PTL

\* A stream holds the one publication of its import or those of its workspace, and no
\* revision twice, whatever requests and imports interleave.
THEOREM OriginsStayApart == TranslationsSpec => []OriginsNeverMix
<1>1. TranslationInv => OriginsNeverMix
  BY DEF TranslationInv
<1> QED BY <1>1, TranslationInvHolds, PTL

\* A publication that requests make freezes what the workspace holds at that moment.
THEOREM PublicationsAreWhatIsThere == TranslationsSpec => PublishesWhatIsThere
<1> DEFINE Fresh == \A q \in publications' \ publications :
                      q.origin = "AUTHORING" =>
                          /\ workspace[q.stream].revision = q.revision
                          /\ workspace[q.stream].tree = q.tree
                          /\ Complete(q.tree)
<1>1. TranslationInv /\ [TranslationsNext]_translationVars => [Fresh]_translationVars
  <2> SUFFICES ASSUME TranslationInv, TranslationsNext
               PROVE  Fresh
    OBVIOUS
  <2>1. CASE \E p \in Requests : CommitPublication(p)
    <3>1. PICK p \in Requests : CommitPublication(p)
      BY <2>1
    <3>2. \A q \in publications' \ publications :
             q = [stream |-> command[p].stream, origin |-> "AUTHORING",
                  revision |-> command[p].expected, tree |-> command[p].tree]
      BY <3>1 DEF CommitPublication
    <3> QED BY <3>1, <3>2, Committed
  <2>2. CASE \E v \in Versions, trees \in ImportedTrees : StoreImportedPublications(v, trees)
    BY <2>2 DEF StoreImportedPublications
  <2>3. CASE UNCHANGED publications
    BY <2>3
  <2> QED BY <2>1, <2>2, <2>3
          DEF TranslationsNext, PublishVersion, AuthorizeCreate, ComposePatch, ReviewTranslation,
              InsertWorkspace, CheckPatch, UpdateTree, PreparePublication, LockPublicationStream,
              EndCommand, translationTables
<1>2. [][Fresh]_translationVars => PublishesWhatIsThere
  BY PTL DEF PublishesWhatIsThere
<1> QED BY <1>1, <1>2, TranslationInvHolds, PTL DEF TranslationsSpec

-----------------------------------------------------------------------------
(* What learners read *)

\* Publications that are there have a newest among them.
LEMMA LatestIsThere ==
  ASSUME TranslationsTypeOK, NEW s \in Streams, PublishedIn(s) # {}
  PROVE  LatestPublication(s) \in PublishedIn(s)
<1> DEFINE Distance(q) == MaxTranslationRevision - q.revision
           T == {Distance(q) : q \in PublishedIn(s)}
<1>1. \A q \in PublishedIn(s) : q.revision \in 0..MaxTranslationRevision
  BY DEF TranslationsTypeOK, PublishedIn, Publication
<1>2. T \subseteq Nat /\ T # {}
  BY <1>1, TranslationsAssumption
<1>3. PICK d \in T : \A e \in T : ~(<<e, d>> \in OpToRel(<, Nat))
  <2> HIDE DEF T
  <2> QED BY <1>2, NatLessThanWellFounded, WFMin
<1>4. \A e \in T : ~(e < d)
  BY <1>2, <1>3 DEF OpToRel
<1>5. PICK q \in PublishedIn(s) : d = Distance(q)
  BY <1>3
<1>6. \A r \in PublishedIn(s) : r.revision <= q.revision
  <2> SUFFICES ASSUME NEW r \in PublishedIn(s)
               PROVE  r.revision <= q.revision
    OBVIOUS
  <2>1. ~(Distance(r) < Distance(q))
    BY <1>4, <1>5
  <2> QED BY <1>1, <2>1, TranslationsAssumption
<1> QED BY <1>6 DEF LatestPublication

\* A language that is offered can be read, for any blocks of any types.
THEOREM OfferedLanguagesCanBeRead == TranslationsSpec => []LearnersCanRead
<1>1. TranslationInv => LearnersCanRead
  <2> SUFFICES ASSUME TranslationInv, NEW v \in sources, NEW l \in LanguageChoices(v)
               PROVE  ReadPage(v, l)
    BY DEF LearnersCanRead
  <2> DEFINE s == [version |-> v, language |-> l]
  <2>1. s \in Streams /\ PublishedIn(s) # {}
    BY DEF TranslationInv, TranslationsTypeOK, LanguageChoices, Streams
  <2>2. LatestPublication(s) \in publications
    BY <2>1, LatestIsThere DEF TranslationInv, PublishedIn
  <2>3. Complete(LatestPublication(s).tree)
    BY <2>2 DEF TranslationInv, PublicationsAreComplete
  <2> QED BY <2>3 DEF ReadPage, Complete, Applicable, RequiredNames, CountedNames
<1> QED BY <1>1, TranslationInvHolds, PTL

-----------------------------------------------------------------------------
(***************************************************************************)
(* Attempts of learners                                                    *)
(*                                                                         *)
(* The result property holds only of clients that quote revisions they     *)
(* have seen (MaxAhead = 0): then a submission whose compare-and-swap      *)
(* succeeds has read the Attempt at that very revision, and what it graded *)
(* is what is frozen.                                                      *)
(***************************************************************************)

\* What a request has read is still true if its compare-and-swap can succeed.
AttemptRequestInv(q) ==
    q.step # "idle" =>
        /\ q.expected <= sheet.revision
        /\ q.step = "submit" /\ q.expected = sheet.revision
              /\ sheet.state = "IN_PROGRESS" =>
                  /\ AnswersAll(sheet.responses)
                  /\ q.payload = Grade(sheet.responses)

AttemptInv ==
    /\ AttemptTypeOK
    /\ ResultGradesFrozenResponses
    /\ \A p \in Requests : AttemptRequestInv(req[p])

-----------------------------------------------------------------------------
\* GradePublishedAssessment returns a number of questions and their total.
LEMMA GradeType == ASSUME NEW responses \in Responses PROVE Grade(responses) \in Results
<1> DEFINE right == {q \in DOMAIN responses : responses[q] = "right"}
<1>1. DOMAIN responses \subseteq Questions
  BY DEF Responses
<1>2. IsFiniteSet(right)
  BY <1>1, AttemptAssumption, FS_Subset
<1>3. Cardinality(right) \in Nat /\ Cardinality(Questions) \in Nat
  BY <1>2, AttemptAssumption, FS_CardinalityType
<1>4. QED
  BY <1>3 DEF Grade, Results

\* No Attempt and no request: the types hold at the start.
LEMMA AttemptInitType == AttemptsInit => AttemptTypeOK
BY AttemptAssumption DEF AttemptsInit, AttemptTypeOK, Idle

\* A save or a submission moves a well-formed Attempt to a well-formed one.
LEMMA CommitType ==
  ASSUME AttemptTypeOK, NEW p \in Requests, CommitSave(p) \/ CommitSubmit(p)
  PROVE  /\ sheet \in AttemptRow
         /\ sheet.state = "IN_PROGRESS"
         /\ sheet' \in AttemptRow
         /\ sheet' # None
         /\ sheet'.revision = sheet.revision + 1
<1>1. sheet \in AttemptRow
  BY DEF AttemptTypeOK, CommitSave, CommitSubmit
<1>2. sheet.revision + 1 \in 1..MaxRevision
  BY <1>1, AttemptAssumption DEF AttemptRow, CommitSave, CommitSubmit
<1>3. CASE CommitSave(p)
  <2>1. req[p].payload \in Responses
    BY <1>3 DEF AttemptTypeOK, CommitSave
  <2>2. QED
    BY <1>1, <1>2, <1>3, <2>1, AttemptAssumption DEF AttemptRow, CommitSave, ExpectedRevision
<1>4. CASE CommitSubmit(p)
  <2>1. req[p].payload \in Results
    BY <1>4 DEF AttemptTypeOK, CommitSubmit
  <2>2. QED
    BY <1>1, <1>2, <1>4, <2>1, AttemptAssumption DEF AttemptRow, CommitSubmit, ExpectedRevision
<1>5. QED
  BY <1>3, <1>4

\* Every statement of the Attempt repository keeps the types.
LEMMA TypeStep == AttemptTypeOK /\ [AttemptsNext]_attemptVars => AttemptTypeOK'
<1> SUFFICES ASSUME AttemptTypeOK, [AttemptsNext]_attemptVars PROVE AttemptTypeOK'
  OBVIOUS
<1>1. CASE Start
  <2>1. NewAttempt \in AttemptRow
    <3>1. NoResponses \in [{} -> Answers] /\ {} \in SUBSET Questions
      BY DEF NoResponses
    <3>2. NoResponses \in Responses
      BY <3>1 DEF Responses
    <3>3. QED
      BY <3>2, AttemptAssumption DEF NewAttempt, AttemptRow
  <2>2. QED
    BY <1>1, <2>1, AttemptAssumption DEF Start, AttemptTypeOK
<1>2. ASSUME NEW p \in Requests, NEW expected \in 1..(MaxRevision + MaxAhead),
             NEW responses \in Responses, BeginSave(p, responses, expected)
      PROVE  AttemptTypeOK'
  BY <1>2, AttemptAssumption DEF BeginSave, Begin, AttemptTypeOK
<1>3. ASSUME NEW p \in Requests, NEW expected \in 1..(MaxRevision + MaxAhead),
             BeginSubmit(p, expected)
      PROVE  AttemptTypeOK'
  <2>1. Grade(sheet.responses) \in Results
    BY <1>3, GradeType DEF BeginSubmit, AttemptTypeOK, AttemptRow
  <2>2. QED
    BY <1>3, <2>1, AttemptAssumption DEF BeginSubmit, Begin, AttemptTypeOK
<1>4. ASSUME NEW p \in Requests, CommitSave(p) \/ CommitSubmit(p)
      PROVE  AttemptTypeOK'
  <2>1. sheet' \in AttemptRow /\ sheet' # None
    BY <1>4, CommitType
  <2>2. req' = [req EXCEPT ![p] = Idle]
    BY <1>4 DEF CommitSave, CommitSubmit
  <2>3. QED
    BY <2>1, <2>2, AttemptAssumption DEF AttemptTypeOK, Idle
<1>5. ASSUME NEW p \in Requests, EndWithoutWriting(p) PROVE AttemptTypeOK'
  BY <1>5, AttemptAssumption DEF EndWithoutWriting, AttemptTypeOK, Idle
<1>6. CASE UNCHANGED attemptVars
  BY <1>6 DEF attemptVars, AttemptTypeOK
<1>7. QED
  BY <1>1, <1>2, <1>3, <1>4, <1>5, <1>6 DEF AttemptsNext

\* The Attempt and the requests in flight keep their types.
THEOREM AttemptTypeCorrect == AttemptsSpec => []AttemptTypeOK
BY AttemptInitType, TypeStep, PTL DEF AttemptsSpec

\* SUBMITTED is terminal, whatever revisions clients quote: both writes of
\* attempt_repository.go are conditional on IN_PROGRESS.
THEOREM SubmissionIsTerminal == AttemptsSpec => SubmittedIsTerminal
<1>1. AttemptTypeOK /\ [AttemptsNext]_attemptVars =>
         (sheet # None /\ sheet.state = "SUBMITTED" => sheet' = sheet)
  <2> SUFFICES ASSUME AttemptTypeOK, [AttemptsNext]_attemptVars, sheet # None, sheet.state = "SUBMITTED"
               PROVE  sheet' = sheet
    OBVIOUS
  <2>1. \A p \in Requests : ~CommitSave(p) /\ ~CommitSubmit(p)
    BY CommitType
  <2>2. QED
    BY <2>1 DEF AttemptsNext, Start, BeginSave, BeginSubmit, Begin, EndWithoutWriting, attemptVars
<1>2. QED
  BY <1>1, AttemptTypeCorrect, PTL DEF AttemptsSpec, SubmittedIsTerminal

-----------------------------------------------------------------------------
(* The result of a submission *)

\* A request's own step, with the Attempt unchanged.
LEMMA RequestStep ==
  ASSUME AttemptInv, AttemptTypeOK', UNCHANGED sheet, NEW p \in Requests, NEW q, AttemptRequestInv(q),
         req' = [req EXCEPT ![p] = q]
  PROVE  AttemptInv'
<1>1. ResultGradesFrozenResponses'
  BY DEF AttemptInv, ResultGradesFrozenResponses
<1>2. ASSUME NEW o \in Requests PROVE AttemptRequestInv(req[o])'
  <2>1. AttemptRequestInv(req'[o])
    BY DEF AttemptInv, AttemptTypeOK
  <2>2. QED
    BY <2>1 DEF AttemptRequestInv
<1>3. QED
  BY <1>1, <1>2 DEF AttemptInv

\* A write advances the revision, and so makes every other request stale.
LEMMA OthersGoStale ==
  ASSUME AttemptInv, NEW p \in Requests, CommitSave(p) \/ CommitSubmit(p), NEW o \in Requests
  PROVE  AttemptRequestInv(req[o])'
<1>1. sheet.revision \in Nat /\ sheet'.revision = sheet.revision + 1
  BY CommitType DEF AttemptInv, AttemptRow
<1>2. req' = [req EXCEPT ![p] = Idle]
  BY DEF CommitSave, CommitSubmit
<1>3. CASE o = p
  BY <1>2, <1>3 DEF AttemptInv, AttemptTypeOK, AttemptRequestInv, Idle
<1>4. CASE o # p
  <2>1. req'[o] = req[o] /\ AttemptRequestInv(req[o]) /\ req[o].expected \in Nat
    BY <1>2, <1>4, AttemptAssumption DEF AttemptInv, AttemptTypeOK
  <2>2. req[o].step # "idle" => req[o].expected < sheet'.revision
    BY <1>1, <2>1 DEF AttemptRequestInv
  <2>3. QED
    BY <1>1, <2>1, <2>2 DEF AttemptRequestInv
<1>5. QED
  BY <1>3, <1>4

\* Every step keeps the grade that a submission carries current for the
\* revision it quotes, and so the result of a submitted Attempt correct.
LEMMA ResultStep ==
  ASSUME MaxAhead = 0, AttemptInv, [AttemptsNext]_attemptVars
  PROVE  AttemptInv'
<1>1. AttemptTypeOK'
  BY TypeStep DEF AttemptInv
<1>2. CASE Start
  <2>1. \A p \in Requests : req[p].step = "idle"
    BY <1>2 DEF Start, AttemptInv, AttemptTypeOK
  <2>2. ResultGradesFrozenResponses'
    BY <1>2 DEF Start, NewAttempt, ResultGradesFrozenResponses
  <2>3. QED
    BY <1>1, <1>2, <2>1, <2>2 DEF Start, AttemptInv, AttemptRequestInv
<1>3. ASSUME NEW p \in Requests, NEW expected \in 1..(MaxRevision + MaxAhead),
             NEW responses \in Responses, BeginSave(p, responses, expected)
      PROVE  AttemptInv'
  <2> DEFINE q == [step |-> "update", expected |-> expected, payload |-> responses]
  <2>1. sheet.revision \in Nat
    BY <1>3 DEF BeginSave, Begin, AttemptInv, AttemptTypeOK, AttemptRow
  <2>2. AttemptRequestInv(q)
    BY <1>3, <2>1 DEF BeginSave, Begin, AttemptRequestInv
  <2>3. QED
    BY <1>1, <1>3, <2>2, RequestStep DEF BeginSave, Begin
<1>4. ASSUME NEW p \in Requests, NEW expected \in 1..(MaxRevision + MaxAhead),
             BeginSubmit(p, expected)
      PROVE  AttemptInv'
  <2> DEFINE q == [step |-> "submit", expected |-> expected, payload |-> Grade(sheet.responses)]
  <2>1. sheet.revision \in Nat
    BY <1>4 DEF BeginSubmit, AttemptInv, AttemptTypeOK, AttemptRow
  <2>2. AttemptRequestInv(q)
    BY <1>4, <2>1 DEF BeginSubmit, Begin, AttemptRequestInv
  <2>3. QED
    BY <1>1, <1>4, <2>2, RequestStep DEF BeginSubmit, Begin
<1>5. ASSUME NEW p \in Requests, CommitSave(p) PROVE AttemptInv'
  <2>1. ResultGradesFrozenResponses'
    BY <1>5, CommitType DEF CommitSave, AttemptInv, ResultGradesFrozenResponses, AttemptRow
  <2>2. QED
    BY <1>1, <1>5, <2>1, OthersGoStale DEF AttemptInv
<1>6. ASSUME NEW p \in Requests, CommitSubmit(p) PROVE AttemptInv'
  <2>1. AnswersAll(sheet.responses) /\ req[p].payload = Grade(sheet.responses)
    BY <1>6 DEF CommitSubmit, ExpectedRevision, AttemptInv, AttemptRequestInv
  <2>2. sheet'.responses = sheet.responses /\ sheet'.result = req[p].payload
    BY <1>6, CommitType DEF CommitSubmit, AttemptInv, AttemptRow
  <2>3. ResultGradesFrozenResponses'
    BY <2>1, <2>2 DEF ResultGradesFrozenResponses
  <2>4. QED
    BY <1>1, <1>6, <2>3, OthersGoStale DEF AttemptInv
<1>7. ASSUME NEW p \in Requests, EndWithoutWriting(p) PROVE AttemptInv'
  <2>1. AttemptRequestInv(Idle)
    BY DEF AttemptRequestInv, Idle
  <2>2. QED
    BY <1>1, <1>7, <2>1, RequestStep DEF EndWithoutWriting
<1>8. CASE UNCHANGED attemptVars
  BY <1>1, <1>8 DEF attemptVars, AttemptInv, ResultGradesFrozenResponses, AttemptRequestInv
<1>9. QED
  BY <1>2, <1>3, <1>4, <1>5, <1>6, <1>7, <1>8 DEF AttemptsNext

\* The result of a submitted Attempt is the grade of the responses frozen in
\* it, although LearnerAttemptService.Submit grades a copy that it read before
\* the compare-and-swap, provided clients quote revisions they have seen.
THEOREM ResultsCorrect ==
  ASSUME MaxAhead = 0
  PROVE  AttemptsSpec => []ResultGradesFrozenResponses
<1>1. AttemptsInit => AttemptInv
  BY AttemptInitType DEF AttemptsInit, AttemptInv, ResultGradesFrozenResponses, AttemptRequestInv, Idle
<1>2. AttemptInv /\ [AttemptsNext]_attemptVars => AttemptInv'
  BY ResultStep
<1>3. AttemptInv => ResultGradesFrozenResponses
  BY DEF AttemptInv
<1>4. QED
  BY <1>1, <1>2, <1>3, PTL DEF AttemptsSpec

-----------------------------------------------------------------------------
(***************************************************************************)
(* Certificates                                                            *)
(*                                                                         *)
(* What a claim has read of the progress stays true, for lessons are never *)
(* taken back; so the certificate that it inserts, or finds inserted, is   *)
(* of a course that the learner has completed.                             *)
(***************************************************************************)

\* The claims that have found the course complete.
Eligible == {"eligible", "conflict"}

\* A claim that goes on has a learner, and what it has read of the progress is of a row
\* that stays and only grows.
ClaimForm(p) ==
    LET c == claim[p] IN
    /\ c.step # "idle" => c.learner \in Users
    /\ c.step = "marking" => c.lesson \in Lessons
    /\ c.step \in {"marking", "half", "read"} \cup Eligible => progress[c.learner] # None
    /\ c.step \in {"read"} \cup Eligible => c.completed \subseteq progress[c.learner].completed
    /\ c.step \in Eligible => IsCourseComplete(c.completed)
    /\ c.step \in {"conflict", "answered"} => certificate[c.learner] # None
    /\ c.step = "answered" => c.id = certificate[c.learner].id

CertificateInv ==
    /\ CertificateTypeOK
    /\ CertificatesAreEarned
    /\ \A p \in Requests : ClaimForm(p)

-----------------------------------------------------------------------------
\* Rows stay, completions only grow, and a certificate keeps its identifier.
LearnersAdvance ==
    \A u \in Users :
        /\ progress[u] # None =>
              progress'[u] # None /\ progress[u].completed \subseteq progress'[u].completed
        /\ certificate[u] # None =>
              certificate'[u] # None /\ certificate'[u].id = certificate[u].id

\* What a claim relies on survives every such step.
LEMMA ClaimRests ==
  ASSUME NEW p \in Requests, ClaimForm(p), LearnersAdvance, claim'[p] = claim[p]
  PROVE  ClaimForm(p)'
BY DEF ClaimForm, LearnersAdvance, IsCourseComplete, Eligible

\* Whoever has earned a certificate keeps it when the tables advance, and so do those
\* whom a claim in form answers.
LEMMA EarnedRests ==
  ASSUME CertificateTypeOK, CertificateTypeOK', CertificatesAreEarned, LearnersAdvance,
         \A p \in Requests : ClaimForm(p)',
         \A u \in Users : certificate'[u] # None =>
             certificate[u] # None \/ (progress'[u] # None /\ IsCourseComplete(progress'[u].completed))
  PROVE  CertificatesAreEarned'
<1>1. ASSUME NEW u \in Users, certificate'[u] # None
      PROVE  Lessons # {} /\ progress'[u] # None /\ progress'[u].completed = Lessons
  <2>1. progress'[u] # None => progress'[u].completed \subseteq Lessons
    BY DEF CertificateTypeOK, Progress
  <2>2. CASE certificate[u] # None
    BY <2>1, <2>2 DEF CertificatesAreEarned, LearnersAdvance
  <2>3. CASE progress'[u] # None /\ IsCourseComplete(progress'[u].completed)
    BY <2>1, <2>3 DEF IsCourseComplete
  <2> QED BY <1>1, <2>2, <2>3
<1> QED BY <1>1 DEF CertificatesAreEarned, ClaimForm

\* Steps that change only what one request carries.
LEMMA ClaimMoves ==
  ASSUME CertificateInv, NEW p \in Requests, NEW c \in Claim, UNCHANGED <<progress, certificate>>,
         claim' = [claim EXCEPT ![p] = c], ClaimForm(p)'
  PROVE  CertificateInv'
<1>1. CertificateTypeOK'
  BY DEF CertificateInv, CertificateTypeOK
<1>2. LearnersAdvance
  BY DEF LearnersAdvance
<1>3. \A q \in Requests : ClaimForm(q)'
  <2> TAKE q \in Requests
  <2>1. CASE q # p
    BY <2>1, <1>2, ClaimRests DEF CertificateInv, CertificateTypeOK
  <2> QED BY <2>1
<1> QED BY <1>1, <1>2, <1>3, EarnedRests DEF CertificateInv

\* A slot without a claim.
LEMMA NoClaimType == NoClaim \in Claim
BY DEF NoClaim, Claim

-----------------------------------------------------------------------------
\* Reads, the evaluation, and the end of a request.
LEMMA ClaimStepsKeepInv ==
  ASSUME CertificateInv, NEW p \in Requests,
         \/ EndClaim(p) \/ ReadRevision(p) \/ ReadCompletions(p) \/ Evaluate(p) \/ ReadExisting(p)
         \/ \E u \in Users : BeginIssue(p, u) \/ \E lesson \in Lessons : BeginMark(p, u, lesson)
  PROVE  CertificateInv'
<1> USE DEF CertificateInv
<1>1. claim[p] \in Claim /\ claim \in [Requests -> Claim]
  BY DEF CertificateTypeOK
<1>0. ClaimForm(p)
  OBVIOUS
<1>2. CASE EndClaim(p)
  <2>1. ClaimForm(p)'
    BY <1>2, <1>1 DEF EndClaim, ClaimForm, NoClaim, Eligible
  <2> QED BY <1>2, <2>1, NoClaimType, ClaimMoves DEF EndClaim
<1>3. CASE ReadRevision(p)
  <2> DEFINE u == claim[p].learner
             c == [claim[p] EXCEPT !.step = "half", !.revision = progress[u].revision]
  <2>1. u \in Users /\ progress[u] # None
    BY <1>0, <1>3 DEF ReadRevision, ClaimForm
  <2>2. progress[u].revision \in Nat
    BY <2>1 DEF CertificateTypeOK, Progress
  <2>3. c \in Claim
    BY <1>1, <2>2 DEF Claim
  <2>4. claim' = [claim EXCEPT ![p] = c] /\ UNCHANGED <<progress, certificate>>
    BY <1>3 DEF ReadRevision
  <2>5. ClaimForm(p)'
    BY <1>1, <2>1, <2>4 DEF ClaimForm, Eligible, Claim
  <2> QED BY <2>3, <2>4, <2>5, ClaimMoves
<1>4. CASE ReadCompletions(p)
  <2> DEFINE u == claim[p].learner
             c == [claim[p] EXCEPT !.step = "read", !.completed = progress[u].completed]
  <2>1. u \in Users /\ progress[u] # None
    BY <1>0, <1>4 DEF ReadCompletions, ClaimForm
  <2>2. progress[u].completed \subseteq Lessons
    BY <2>1 DEF CertificateTypeOK, Progress
  <2>3. c \in Claim
    BY <1>1, <2>2 DEF Claim
  <2>4. claim' = [claim EXCEPT ![p] = c] /\ UNCHANGED <<progress, certificate>>
    BY <1>4 DEF ReadCompletions
  <2>5. ClaimForm(p)'
    BY <1>1, <2>1, <2>4 DEF ClaimForm, Eligible, Claim
  <2> QED BY <2>3, <2>4, <2>5, ClaimMoves
<1>5. CASE Evaluate(p)
  <2> DEFINE c == [claim[p] EXCEPT !.step = "eligible"]
  <2>1. c \in Claim
    BY <1>1 DEF Claim
  <2>2. claim' = [claim EXCEPT ![p] = c] /\ UNCHANGED <<progress, certificate>>
    BY <1>5 DEF Evaluate
  <2>3. ClaimForm(p)'
    BY <1>0, <1>1, <1>5, <2>2 DEF Evaluate, ClaimForm, Eligible, Claim
  <2> QED BY <2>1, <2>2, <2>3, ClaimMoves
<1>6. CASE ReadExisting(p)
  <2> DEFINE u == claim[p].learner
             c == [claim[p] EXCEPT !.step = "answered", !.id = certificate[u].id]
  <2>1. u \in Users /\ certificate[u] # None
    BY <1>0, <1>6 DEF ReadExisting, ClaimForm
  <2>2. certificate[u].id \in Certificates
    BY <2>1 DEF CertificateTypeOK, Certificate
  <2>3. c \in Claim
    BY <1>1, <2>2 DEF Claim
  <2>4. claim' = [claim EXCEPT ![p] = c] /\ UNCHANGED <<progress, certificate>>
    BY <1>6 DEF ReadExisting
  <2>5. ClaimForm(p)'
    BY <1>1, <2>1, <2>4 DEF ClaimForm, Eligible, Claim
  <2> QED BY <2>3, <2>4, <2>5, ClaimMoves
<1>7. ASSUME NEW u \in Users, BeginIssue(p, u) PROVE CertificateInv'
  <2> DEFINE c == claim'[p]
  <2>1. certificate[u] # None => certificate[u].id \in Certificates
    BY DEF CertificateTypeOK, Certificate
  <2>2. c \in Claim /\ claim' = [claim EXCEPT ![p] = c]
    BY <1>1, <1>7, <2>1 DEF BeginIssue, Claim, NoClaim
  <2>3. ClaimForm(p)'
    BY <1>1, <1>7 DEF BeginIssue, ClaimForm, NoClaim, Eligible
  <2> HIDE DEF c
  <2> QED BY <1>7, <2>2, <2>3, ClaimMoves DEF BeginIssue
<1>8. ASSUME NEW u \in Users, NEW lesson \in Lessons, BeginMark(p, u, lesson)
      PROVE  CertificateInv'
  <2> DEFINE c == [NoClaim EXCEPT !.step = "marking", !.learner = u, !.lesson = lesson,
                                  !.revision = progress[u].revision]
  <2>1. progress[u] # None /\ progress[u].revision \in Nat
    BY <1>8 DEF BeginMark, CertificateTypeOK, Progress
  <2>2. c \in Claim
    BY <2>1 DEF Claim, NoClaim
  <2>3. claim' = [claim EXCEPT ![p] = c] /\ UNCHANGED <<progress, certificate>>
    BY <1>8 DEF BeginMark
  <2>4. ClaimForm(p)'
    BY <1>1, <2>1, <2>3 DEF ClaimForm, NoClaim, Eligible
  <2> QED BY <2>2, <2>3, <2>4, ClaimMoves
<1> QED BY <1>2, <1>3, <1>4, <1>5, <1>6, <1>7, <1>8

\* Progress is created, or a lesson counted: rows stay and completions grow.
LEMMA ProgressKeepsInv ==
  ASSUME CertificateInv, NEW p \in Requests,
         MarkLessonCompleted(p) \/ \E u \in Users : CreateProgress(p, u)
  PROVE  CertificateInv'
<1> USE DEF CertificateInv
<1> DEFINE Advances(u) ==
             /\ claim' = [claim EXCEPT ![p] = [NoClaim EXCEPT !.step = "reading", !.learner = u]]
             /\ UNCHANGED certificate
             /\ \/ /\ progress[u] = None
                   /\ progress' = [progress EXCEPT ![u] = [revision |-> 1, completed |-> {}]]
                \/ progress' = progress
                \/ \E lesson \in Lessons :
                      /\ progress[u] # None
                      /\ progress' = [progress EXCEPT ![u] = Completed(progress[u], lesson)]
<1>1. PICK u \in Users : Advances(u)
  <2>1. CASE MarkLessonCompleted(p)
    <3>1. /\ claim[p].learner \in Users /\ claim[p].lesson \in Lessons
          /\ progress[claim[p].learner] # None
      BY <2>1 DEF MarkLessonCompleted, ClaimForm
    <3> QED BY <2>1, <3>1 DEF MarkLessonCompleted
  <2>2. ASSUME NEW u \in Users, CreateProgress(p, u) PROVE Advances(u)
    BY <2>2 DEF CreateProgress
  <2> QED BY <2>1, <2>2
<1>2. progress' \in [Users -> Progress \cup {None}] /\ LearnersAdvance
  <2>0. progress \in [Users -> Progress \cup {None}]
    BY DEF CertificateTypeOK
  <2>1. CASE progress[u] = None /\ progress' = [progress EXCEPT ![u] = [revision |-> 1, completed |-> {}]]
    BY <1>1, <2>0, <2>1, CertificateAssumption DEF Progress, LearnersAdvance
  <2>2. CASE progress' = progress
    BY <1>1, <2>0, <2>2 DEF LearnersAdvance
  <2>3. ASSUME NEW lesson \in Lessons, progress[u] # None,
               progress' = [progress EXCEPT ![u] = Completed(progress[u], lesson)]
        PROVE  <1>2!1 /\ <1>2!2
    <3>1. progress[u] \in Progress
      BY <2>0, <2>3
    <3>2. /\ Completed(progress[u], lesson) \in Progress
          /\ progress[u].completed \subseteq Completed(progress[u], lesson).completed
      BY <3>1 DEF Progress, Completed
    <3>3. Completed(progress[u], lesson) # None
      BY <3>2, CertificateAssumption
    <3> QED BY <1>1, <2>0, <2>3, <3>2, <3>3 DEF LearnersAdvance
  <2> QED BY <1>1, <2>1, <2>2, <2>3
<1>3. CertificateTypeOK'
  <2>1. [NoClaim EXCEPT !.step = "reading", !.learner = u] \in Claim
    BY DEF NoClaim, Claim
  <2> QED BY <1>1, <1>2, <2>1 DEF CertificateTypeOK
<1>4. \A q \in Requests : ClaimForm(q)'
  <2> TAKE q \in Requests
  <2>1. CASE q # p
    BY <1>1, <1>2, <2>1, ClaimRests DEF CertificateTypeOK
  <2>2. CASE q = p
    BY <1>1, <2>2 DEF CertificateTypeOK, ClaimForm, NoClaim, Eligible
  <2> QED BY <2>1, <2>2
<1> QED BY <1>1, <1>2, <1>3, <1>4, EarnedRests

\* A certificate is inserted or, of two, the second found.
LEMMA InsertKeepsInv ==
  ASSUME CertificateInv, NEW p \in Requests, NEW id \in Certificates, InsertCertificate(p, id)
  PROVE  CertificateInv'
<1> USE DEF CertificateInv
<1> DEFINE u == claim[p].learner
<1>1. /\ u \in Users /\ progress[u] # None /\ IsCourseComplete(progress[u].completed)
      /\ claim[p] \in Claim /\ claim \in [Requests -> Claim]
  BY DEF InsertCertificate, ClaimForm, Eligible, IsCourseComplete, CertificateTypeOK
<1>2. CASE certificate[u] = None
  <2> DEFINE row == [id |-> id, status |-> "ACTIVE"]
             c == [claim[p] EXCEPT !.step = "answered", !.id = id]
  <2>1. /\ certificate' = [certificate EXCEPT ![u] = row] /\ UNCHANGED progress
        /\ claim' = [claim EXCEPT ![p] = c]
    BY <1>2 DEF InsertCertificate
  <2>2. row \in Certificate /\ c \in Claim
    BY <1>1 DEF Certificate, Claim
  <2>0. row # None
    BY <2>2, CertificateAssumption
  <2>3. CertificateTypeOK'
    BY <1>1, <2>1, <2>2 DEF CertificateTypeOK
  <2>4. certificate \in [Users -> Certificate \cup {None}]
    BY DEF CertificateTypeOK
  <2>5. LearnersAdvance
    BY <1>1, <1>2, <2>0, <2>1, <2>4 DEF LearnersAdvance
  <2>6. \A q \in Requests : ClaimForm(q)'
    <3> TAKE q \in Requests
    <3>1. CASE q # p
      BY <1>1, <2>1, <2>5, <3>1, ClaimRests
    <3>2. claim'[p] = c /\ certificate'[u] = row
      BY <1>1, <2>1, <2>4
    <3>3. /\ claim'[p].step = "answered" /\ claim'[p].learner = u /\ claim'[p].id = id
          /\ certificate'[u] # None /\ certificate'[u].id = id
      BY <1>1, <2>0, <3>2 DEF Claim
    <3>4. CASE q = p
      BY <1>1, <3>3, <3>4 DEF ClaimForm, Eligible
    <3> QED BY <3>1, <3>4
  <2>7. \A v \in Users : certificate'[v] # None =>
           certificate[v] # None \/ (progress'[v] # None /\ IsCourseComplete(progress'[v].completed))
    BY <1>1, <2>1, <2>4
  <2> QED BY <2>3, <2>5, <2>6, <2>7, EarnedRests
<1>3. CASE certificate[u] # None
  <2> DEFINE c == [claim[p] EXCEPT !.step = "conflict"]
  <2>1. c \in Claim
    BY <1>1 DEF Claim
  <2>2. claim' = [claim EXCEPT ![p] = c] /\ UNCHANGED <<progress, certificate>>
    BY <1>3 DEF InsertCertificate
  <2>3. ClaimForm(p)'
    BY <1>1, <1>3, <2>2 DEF InsertCertificate, ClaimForm, Eligible, Claim, IsCourseComplete
  <2> QED BY <2>1, <2>2, <2>3, ClaimMoves
<1> QED BY <1>2, <1>3

\* A revoked certificate stays where it is, under its identifier.
LEMMA RevokeKeepsEarned ==
  ASSUME CertificateInv, NEW u \in Users, RevokeCertificate(u)
  PROVE  CertificateInv'
<1> USE DEF CertificateInv
<1>1. certificate \in [Users -> Certificate \cup {None}] /\ certificate[u] \in Certificate
  BY DEF CertificateTypeOK, RevokeCertificate
<1> DEFINE row == [certificate[u] EXCEPT !.status = "REVOKED"]
<1>2. row \in Certificate /\ row # None /\ row.id = certificate[u].id
  BY <1>1, CertificateAssumption DEF Certificate
<1>3. certificate' = [certificate EXCEPT ![u] = row] /\ UNCHANGED <<progress, claim>>
  BY DEF RevokeCertificate
<1> HIDE DEF row
<1>4. CertificateTypeOK'
  BY <1>1, <1>2, <1>3 DEF CertificateTypeOK
<1>5. LearnersAdvance /\ \A v \in Users : certificate'[v] # None => certificate[v] # None
  BY <1>1, <1>2, <1>3 DEF LearnersAdvance, RevokeCertificate
<1>6. \A q \in Requests : ClaimForm(q)'
  BY <1>3, <1>5, ClaimRests
<1> QED BY <1>4, <1>5, <1>6, EarnedRests

-----------------------------------------------------------------------------

\* No learner has begun.
LEMMA CertificateInitInv == CertificateInit => CertificateInv
<1> SUFFICES ASSUME CertificateInit PROVE CertificateInv
  OBVIOUS
<1>1. CertificateTypeOK
  BY NoClaimType DEF CertificateInit, CertificateTypeOK
<1>2. \A p \in Requests : ClaimForm(p)
  BY DEF CertificateInit, ClaimForm, NoClaim, Eligible
<1>3. CertificatesAreEarned
  BY DEF CertificateInit, CertificatesAreEarned, NoClaim
<1> QED BY <1>1, <1>2, <1>3 DEF CertificateInv

\* One step of every operation of the progress and of the certificates.
LEMMA CertificateNextInv == CertificateInv /\ [CertificateNext]_credentialVars => CertificateInv'
<1> SUFFICES ASSUME CertificateInv, [CertificateNext]_credentialVars PROVE CertificateInv'
  OBVIOUS
<1>1. CASE UNCHANGED credentialVars
  BY <1>1 DEF credentialVars, CertificateInv, CertificateTypeOK, CertificatesAreEarned, ClaimForm,
              IsCourseComplete
<1>2. ASSUME NEW u \in Users, RevokeCertificate(u) PROVE CertificateInv'
  BY <1>2, RevokeKeepsEarned
<1>3. ASSUME NEW p \in Requests,
             MarkLessonCompleted(p) \/ \E u \in Users : CreateProgress(p, u)
      PROVE  CertificateInv'
  BY <1>3, ProgressKeepsInv
<1>4. ASSUME NEW p \in Requests,
             \/ EndClaim(p) \/ ReadRevision(p) \/ ReadCompletions(p) \/ Evaluate(p) \/ ReadExisting(p)
             \/ \E u \in Users : BeginIssue(p, u) \/ \E lesson \in Lessons : BeginMark(p, u, lesson)
      PROVE  CertificateInv'
  BY <1>4, ClaimStepsKeepInv
<1>5. ASSUME NEW p \in Requests, NEW id \in Certificates, InsertCertificate(p, id) PROVE CertificateInv'
  BY <1>5, InsertKeepsInv
<1> QED BY <1>1, <1>2, <1>3, <1>4, <1>5 DEF CertificateNext

\* Progress, certificates and claims keep their types.
LEMMA CertificateInvHolds == CertificateSpec => []CertificateInv
BY CertificateInitInv, CertificateNextInv, PTL DEF CertificateSpec

\* Whoever holds a certificate has completed every lesson ...
THEOREM CertificatesCorrect == CertificateSpec => []CertificatesAreEarned
<1>1. CertificateInv => CertificatesAreEarned
  BY DEF CertificateInv
<1> QED BY <1>1, CertificateInvHolds, PTL

\* Every behaviour of the claims has the types that the tables declare.
THEOREM CertificateTypeCorrect == CertificateSpec => []CertificateTypeOK
<1>1. CertificateInv => CertificateTypeOK
  BY DEF CertificateInv
<1> QED BY <1>1, CertificateInvHolds, PTL

-----------------------------------------------------------------------------
(***************************************************************************)
(* The community                                                           *)
(*                                                                         *)
(* Threads keep their posts, and the post that opens one is the first.     *)
(* A request that may hide a post has seen that another one opened the     *)
(* thread, and that stays so.                                              *)
(***************************************************************************)

\* A request names what its step needs; who was allowed to hide a post did not ask for the
\* one that opens its thread.
VisitForm(p) ==
    LET v == visit[p] IN
    /\ v.step = "opening" => v.course \in Courses
    /\ v.step \in {"reply", "threadState", "moderated", "inspected"} => v.thread \in Threads
    /\ v.step \in {"moderated", "inspected"} => v.post \in Posts /\ thread[v.thread] # None
    /\ v.step = "inspected" /\ v.state = "HIDDEN" => thread[v.thread].posts[1].id # v.post

CommunityInv ==
    /\ CommunityTypeOK
    /\ OpeningPostIsShown
    /\ \A p \in Requests : VisitForm(p)

\* Threads stay, with the posts that open them.
ThreadsStay ==
    \A t \in Threads : thread[t] # None =>
        thread'[t] # None /\ thread'[t].posts[1].id = thread[t].posts[1].id

-----------------------------------------------------------------------------

\* A slot without a request.
LEMMA NoVisitForm == NoVisit \in Visit /\ NoVisit.step = "idle"
BY DEF NoVisit, Visit, Visibility

\* Steps of one request.
LEMMA VisitMoves ==
  ASSUME CommunityInv, NEW p \in Requests, NEW c \in Visit, visit' = [visit EXCEPT ![p] = c],
         mode' \in [Courses -> {"ENABLED", "DISABLED"}], moderators' \in [Courses -> SUBSET Users],
         thread' \in [Threads -> Thread \cup {None}], OpeningPostIsShown', ThreadsStay,
         VisitForm(p)'
  PROVE  CommunityInv'
<1>0. visit \in [Requests -> Visit]
  BY DEF CommunityInv, CommunityTypeOK
<1>1. CommunityTypeOK'
  BY <1>0 DEF CommunityTypeOK
<1>2. \A q \in Requests : VisitForm(q)'
  <2> TAKE q \in Requests
  <2>1. CASE q = p
    BY <2>1
  <2>2. CASE q # p
    <3>1. visit'[q] = visit[q] /\ VisitForm(q)
      BY <1>0, <2>2 DEF CommunityInv
    <3> QED BY <3>1 DEF VisitForm, ThreadsStay
  <2> QED BY <2>1, <2>2
<1> QED BY <1>1, <1>2 DEF CommunityInv

\* Requests that read, and those that end.
LEMMA VisitReads ==
  ASSUME CommunityInv, NEW p \in Requests, NEW c \in Visit, visit' = [visit EXCEPT ![p] = c],
         UNCHANGED communityTables, VisitForm(p)'
  PROVE  CommunityInv'
<1>1. ThreadsStay /\ OpeningPostIsShown'
  BY DEF communityTables, ThreadsStay, CommunityInv, OpeningPostIsShown
<1> QED BY <1>1, VisitMoves DEF CommunityInv, CommunityTypeOK, communityTables

\* A request that begins, or ends, changes nothing that others rely on.
LEMMA BeginVisitKeepsInv ==
  ASSUME CommunityInv, NEW p \in Requests,
         \/ EndVisit(p)
         \/ \E u \in Users, c \in Courses : BeginThread(p, u, c)
         \/ \E u \in Users, c \in Courses, t \in Threads :
               \/ BeginPost(p, u, c, t)
               \/ \E state \in Visibility :
                     \/ BeginModerateThread(p, u, c, t, state)
                     \/ \E post \in Posts : BeginModeratePost(p, u, c, t, post, state)
  PROVE  CommunityInv'
<1>0. visit \in [Requests -> Visit]
  BY DEF CommunityInv, CommunityTypeOK
<1>1. CASE EndVisit(p)
  BY <1>0, <1>1, NoVisitForm, VisitReads DEF EndVisit, VisitForm
<1>2. ASSUME NEW u \in Users, NEW c \in Courses, BeginThread(p, u, c) PROVE CommunityInv'
  <2> DEFINE v == [NoVisit EXCEPT !.step = "opening", !.course = c, !.actor = u]
  <2>1. v \in Visit /\ v.step = "opening" /\ v.course = c
    BY DEF NoVisit, Visit, Visibility
  <2>2. visit' = [visit EXCEPT ![p] = v] /\ UNCHANGED communityTables
    BY <1>2 DEF BeginThread
  <2> HIDE DEF v
  <2> QED BY <1>0, <2>1, <2>2, VisitReads DEF VisitForm
<1>3. ASSUME NEW u \in Users, NEW c \in Courses, NEW t \in Threads, BeginPost(p, u, c, t) PROVE CommunityInv'
  <2> DEFINE v == [NoVisit EXCEPT !.step = "reply", !.course = c, !.actor = u, !.thread = t]
  <2>1. v \in Visit /\ v.step = "reply" /\ v.thread = t
    BY DEF NoVisit, Visit, Visibility
  <2>2. visit' = [visit EXCEPT ![p] = v] /\ UNCHANGED communityTables
    BY <1>3 DEF BeginPost
  <2> HIDE DEF v
  <2> QED BY <1>0, <2>1, <2>2, VisitReads DEF VisitForm
<1>4. ASSUME NEW u \in Users, NEW c \in Courses, NEW t \in Threads, NEW state \in Visibility,
             BeginModerateThread(p, u, c, t, state)
      PROVE  CommunityInv'
  <2> DEFINE v == [NoVisit EXCEPT !.step = "threadState", !.course = c, !.actor = u, !.thread = t, !.state = state]
  <2>1. v \in Visit /\ v.step = "threadState" /\ v.thread = t
    BY DEF NoVisit, Visit, Visibility
  <2>2. visit' = [visit EXCEPT ![p] = v] /\ UNCHANGED communityTables
    BY <1>4 DEF BeginModerateThread
  <2> HIDE DEF v
  <2> QED BY <1>0, <2>1, <2>2, VisitReads DEF VisitForm
<1>5. ASSUME NEW u \in Users, NEW c \in Courses, NEW t \in Threads, NEW state \in Visibility,
             NEW post \in Posts, BeginModeratePost(p, u, c, t, post, state)
      PROVE  CommunityInv'
  <2> DEFINE v == [step |-> "moderated", course |-> c, actor |-> u, thread |-> t, post |-> post, state |-> state]
  <2>1. v \in Visit /\ v.step = "moderated" /\ v.thread = t /\ v.post = post
    BY DEF Visit
  <2>2. visit' = [visit EXCEPT ![p] = v] /\ UNCHANGED communityTables /\ thread[t] # None
    BY <1>5 DEF BeginModeratePost, ThreadForModeration
  <2> HIDE DEF v
  <2>3. VisitForm(p)'
    BY <1>0, <2>1, <2>2 DEF VisitForm, communityTables
  <2> QED BY <2>1, <2>2, <2>3, VisitReads
<1> QED BY <1>1, <1>2, <1>3, <1>4, <1>5

\* What is visible first is what was posted first: that post cannot be hidden alone.
LEMMA InspectKeepsInv ==
  ASSUME CommunityInv, NEW p \in Requests, InspectPost(p)
  PROVE  CommunityInv'
<1> DEFINE t == visit[p].thread
           c == [visit[p] EXCEPT !.step = "inspected"]
<1>0. /\ visit \in [Requests -> Visit] /\ visit[p] \in Visit /\ VisitForm(p) /\ OpeningPostIsShown
      /\ thread \in [Threads -> Thread \cup {None}]
  BY DEF CommunityInv, CommunityTypeOK
<1>1. /\ c \in Visit /\ c.step = "inspected" /\ c.thread = t /\ c.post = visit[p].post /\ c.state = visit[p].state
  BY <1>0 DEF Visit
<1>2. /\ visit' = [visit EXCEPT ![p] = c] /\ UNCHANGED communityTables /\ visit[p].step = "moderated"
      /\ visit[p].state = "HIDDEN" => ~IsOpening(t, visit[p].post)
  BY DEF InspectPost
<1> HIDE DEF c
<1>3. t \in Threads /\ thread[t] # None /\ visit[p].post \in Posts
  BY <1>0, <1>2 DEF VisitForm
<1>4. IsOpening(t, thread[t].posts[1].id)
  <2>1. thread[t] \in Thread /\ thread[t].posts # <<>> /\ thread[t].posts[1].state = "VISIBLE"
    BY <1>0, <1>3 DEF OpeningPostIsShown
  <2>2. PostsOf(t) = thread[t].posts /\ PostsOf(t) \in Seq(Post) /\ PostsOf(t) # <<>>
    BY <1>3, <2>1 DEF PostsOf, Thread
  <2> HIDE DEF t
  <2>3. 1 \in DOMAIN PostsOf(t) /\ DOMAIN PostsOf(t) \subseteq Nat \ {0}
    BY <2>2
  <2> QED BY <2>1, <2>2, <2>3 DEF IsOpening, VisiblePosts
<1>5. VisitForm(p)'
  BY <1>0, <1>1, <1>2, <1>3, <1>4 DEF VisitForm, communityTables
<1> QED BY <1>1, <1>2, <1>5, VisitReads

-----------------------------------------------------------------------------
(* Statements that change threads *)

\* A thread is stored or updated; the post that opens it is visible.
LEMMA ThreadKeepsInv ==
  ASSUME CommunityInv, NEW p \in Requests, NEW t \in Threads, NEW row \in Thread,
         visit' = [visit EXCEPT ![p] = NoVisit], UNCHANGED <<mode, moderators>>,
         thread' = [thread EXCEPT ![t] = row],
         row.posts # <<>>, row.posts[1].state = "VISIBLE",
         thread[t] # None => row.posts[1].id = thread[t].posts[1].id
  PROVE  CommunityInv'
<1>0. /\ visit \in [Requests -> Visit] /\ thread \in [Threads -> Thread \cup {None}] /\ row # None
      /\ OpeningPostIsShown
  BY CommunityAssumption DEF CommunityInv, CommunityTypeOK
<1>1. thread' \in [Threads -> Thread \cup {None}] /\ ThreadsStay /\ OpeningPostIsShown'
  BY <1>0 DEF ThreadsStay, OpeningPostIsShown
<1>2. VisitForm(p)'
  BY <1>0, NoVisitForm DEF VisitForm
<1> QED BY <1>1, <1>2, NoVisitForm, VisitMoves DEF CommunityInv, CommunityTypeOK

\* A reply is stored after the post that opens the thread.
LEMMA InsertedPosts ==
  ASSUME NEW s \in Seq(Post), NEW i \in 2..(Len(s) + 1), s # <<>>, NEW e \in Post
  PROVE  InsertAt(s, i, e) \in Seq(Post) /\ InsertAt(s, i, e) # <<>> /\ InsertAt(s, i, e)[1] = s[1]
<1> DEFINE before == SubSeq(s, 1, i - 1)
           after == SubSeq(s, i, Len(s))
<1>1. before \in Seq(Post) /\ Len(before) = i - 1 /\ before[1] = s[1]
  BY SubSeqProperties
<1>2. after \in Seq(Post)
  BY SubSeqProperties
<1> HIDE DEF before, after
<1>3. before \o <<e>> \in Seq(Post) /\ Len(before \o <<e>>) = i /\ (before \o <<e>>)[1] = s[1]
  BY <1>1, ConcatProperties
<1>4. /\ (before \o <<e>>) \o after \in Seq(Post) /\ Len((before \o <<e>>) \o after) >= i
      /\ ((before \o <<e>>) \o after)[1] = s[1]
  BY <1>2, <1>3, ConcatProperties
<1> QED BY <1>4 DEF InsertAt, before, after

\* A thread comes with the post that opens it, and that post is visible.
LEMMA InsertThreadKeepsInv ==
  ASSUME CommunityInv, NEW p \in Requests, NEW t \in Threads, NEW post \in Posts, InsertThread(p, t, post)
  PROVE  CommunityInv'
<1> DEFINE opening == [id |-> post, state |-> "VISIBLE"]
           posts == <<opening>>
           row == [course |-> visit[p].course, state |-> "VISIBLE", posts |-> posts]
<1>1. opening \in Post /\ opening.state = "VISIBLE"
  BY DEF Post, Visibility
<1> HIDE DEF opening
<1>2. posts \in Seq(Post) /\ posts # <<>> /\ posts[1] = opening
  BY <1>1
<1> HIDE DEF posts
<1>3. visit[p].course \in Courses
  BY DEF InsertThread, CommunityInv, VisitForm
<1>4. row \in Thread /\ row.posts = posts
  BY <1>2, <1>3 DEF Thread, Visibility
<1>5. /\ visit' = [visit EXCEPT ![p] = NoVisit] /\ UNCHANGED <<mode, moderators>> /\ thread[t] = None
      /\ thread' = [thread EXCEPT ![t] = row]
  BY DEF InsertThread, posts, opening
<1> HIDE DEF row
<1> QED BY <1>1, <1>2, <1>4, <1>5, ThreadKeepsInv

\* What the rows of a thread are.
LEMMA ThreadRow ==
  ASSUME CommunityInv, NEW t \in Threads, thread[t] # None
  PROVE  /\ thread[t] \in Thread /\ PostsOf(t) = thread[t].posts /\ thread[t].posts \in Seq(Post)
         /\ thread[t].posts # <<>> /\ thread[t].posts[1] \in Post /\ thread[t].posts[1].state = "VISIBLE"
<1>1. /\ thread[t] \in Thread /\ PostsOf(t) = thread[t].posts /\ thread[t].posts \in Seq(Post)
      /\ thread[t].posts # <<>> /\ thread[t].posts[1].state = "VISIBLE"
  BY DEF CommunityInv, CommunityTypeOK, OpeningPostIsShown, PostsOf, Thread
<1> DEFINE posts == thread[t].posts
<1>2. posts \in Seq(Post) /\ posts # <<>>
  BY <1>1
<1> HIDE DEF posts
<1>3. posts[1] \in Post
  BY <1>2
<1> QED BY <1>1, <1>3 DEF posts

\* A reply comes after the posts that are there.
LEMMA InsertPostKeepsInv ==
  ASSUME CommunityInv, NEW p \in Requests, NEW post \in Posts, InsertPost(p, post)
  PROVE  CommunityInv'
<1> DEFINE t == visit[p].thread
           e == [id |-> post, state |-> "VISIBLE"]
<1>1. t \in Threads /\ thread[t] # None
  BY DEF CommunityInv, InsertPost, VisitForm, ActiveThread, IsVisible
<1>2. e \in Post
  BY DEF Post, Visibility
<1>3. PICK i \in 2..(Len(PostsOf(t)) + 1) :
         thread' = [thread EXCEPT ![t] = [thread[t] EXCEPT !.posts = InsertAt(PostsOf(t), i, e)]]
  BY DEF InsertPost
<1> HIDE DEF e
<1> DEFINE posts == InsertAt(PostsOf(t), i, e)
           row == [thread[t] EXCEPT !.posts = posts]
<1>4. posts \in Seq(Post) /\ posts # <<>> /\ posts[1] = thread[t].posts[1]
  <2>1. PostsOf(t) = thread[t].posts /\ PostsOf(t) \in Seq(Post) /\ PostsOf(t) # <<>>
    BY <1>1, ThreadRow
  <2> QED BY <1>2, <2>1, InsertedPosts
<1> HIDE DEF posts
<1>5. row \in Thread /\ row.posts = posts
  BY <1>1, <1>4, ThreadRow DEF Thread
<1>6. /\ visit' = [visit EXCEPT ![p] = NoVisit] /\ UNCHANGED <<mode, moderators>>
      /\ thread' = [thread EXCEPT ![t] = row]
  BY <1>3 DEF InsertPost, posts
<1> HIDE DEF row
<1> QED BY <1>1, <1>4, <1>5, <1>6, ThreadRow, ThreadKeepsInv

\* A thread that is closed or hidden keeps its posts.
LEMMA SetThreadKeepsInv ==
  ASSUME CommunityInv, NEW p \in Requests, SetThreadState(p)
  PROVE  CommunityInv'
<1> DEFINE t == visit[p].thread
           row == [thread[t] EXCEPT !.state = visit[p].state]
<1>1. t \in Threads /\ thread[t] # None /\ visit[p].state \in Visibility
  BY DEF CommunityInv, CommunityTypeOK, SetThreadState, VisitForm, Visit
<1>2. row \in Thread /\ row.posts = thread[t].posts
  BY <1>1, ThreadRow DEF Thread
<1>3. /\ visit' = [visit EXCEPT ![p] = NoVisit] /\ UNCHANGED <<mode, moderators>>
      /\ thread' = [thread EXCEPT ![t] = row]
  BY DEF SetThreadState
<1> HIDE DEF row, t
<1> QED BY <1>1, <1>2, <1>3, ThreadRow, ThreadKeepsInv

\* A post is hidden or shown; the one that opens the thread is only shown.
LEMMA SetPostKeepsInv ==
  ASSUME CommunityInv, NEW p \in Requests, SetPostState(p)
  PROVE  CommunityInv'
<1> DEFINE t == visit[p].thread
           v == visit[p]
           old == PostsOf(t)
           changed == [id |-> v.post, state |-> v.state]
           posts == [i \in DOMAIN old |-> IF old[i].id = v.post THEN changed ELSE old[i]]
           row == [thread[t] EXCEPT !.posts = posts]
<1>1. /\ t \in Threads /\ thread[t] # None /\ v.post \in Posts /\ v.state \in Visibility
      /\ v.state = "HIDDEN" => thread[t].posts[1].id # v.post
  BY DEF CommunityInv, CommunityTypeOK, SetPostState, VisitForm, Visit
<1>2. changed \in Post /\ changed.id = v.post /\ changed.state = v.state
  BY <1>1 DEF Post
<1>3. /\ visit' = [visit EXCEPT ![p] = NoVisit] /\ UNCHANGED <<mode, moderators>>
      /\ thread' = [thread EXCEPT ![t] = row]
  BY DEF SetPostState
<1>4. old \in Seq(Post) /\ old # <<>> /\ old[1] \in Post /\ old[1].state = "VISIBLE" /\ thread[t] \in Thread
  BY <1>1, ThreadRow
<1>5. v.state = "HIDDEN" => old[1].id # v.post
  BY <1>1, ThreadRow
<1>6. v.state \in {"VISIBLE", "HIDDEN"}
  BY <1>1 DEF Visibility
<1> HIDE DEF changed, old, t, v
<1>7. posts \in Seq(Post) /\ posts # <<>>
  BY <1>2, <1>4
<1>8. posts[1].id = old[1].id /\ posts[1].state = "VISIBLE"
  BY <1>2, <1>4, <1>5, <1>6
<1> HIDE DEF posts
<1>9. row \in Thread /\ row.posts = posts
  BY <1>4, <1>7 DEF Thread
<1> HIDE DEF row
<1> QED BY <1>1, <1>3, <1>7, <1>8, <1>9, ThreadRow, ThreadKeepsInv DEF old

\* Who moderates a course matters to no post.
LEMMA AttributeKeepsInv ==
  ASSUME CommunityInv, NEW c \in Courses, NEW authors \in SUBSET Users, AttributeModerators(c, authors)
  PROVE  CommunityInv'
BY DEF AttributeModerators, CommunityInv, CommunityTypeOK, OpeningPostIsShown, VisitForm

-----------------------------------------------------------------------------

\* No thread has been opened.
LEMMA CommunityInitInv == CommunityInit => CommunityInv
BY NoVisitForm DEF CommunityInit, CommunityInv, CommunityTypeOK, OpeningPostIsShown, VisitForm

\* One step of every operation of the community.
LEMMA CommunityNextInv == CommunityInv /\ [CommunityNext]_communityVars => CommunityInv'
<1> SUFFICES ASSUME CommunityInv, [CommunityNext]_communityVars PROVE CommunityInv'
  OBVIOUS
<1>1. CASE UNCHANGED communityVars
  BY <1>1 DEF communityVars, communityTables, CommunityInv, CommunityTypeOK, OpeningPostIsShown, VisitForm
<1>2. ASSUME NEW c \in Courses, NEW authors \in SUBSET Users, AttributeModerators(c, authors)
      PROVE  CommunityInv'
  BY <1>2, AttributeKeepsInv
<1>3. ASSUME NEW p \in Requests, EndVisit(p) PROVE CommunityInv'
  BY <1>3, BeginVisitKeepsInv
<1>4. ASSUME NEW p \in Requests, NEW u \in Users, NEW c \in Courses, BeginThread(p, u, c) PROVE CommunityInv'
  BY <1>4, BeginVisitKeepsInv
<1>5. ASSUME NEW p \in Requests, NEW u \in Users, NEW c \in Courses, NEW t \in Threads,
             \/ BeginPost(p, u, c, t)
             \/ \E state \in Visibility :
                   \/ BeginModerateThread(p, u, c, t, state)
                   \/ \E post \in Posts : BeginModeratePost(p, u, c, t, post, state)
      PROVE  CommunityInv'
  BY <1>5, BeginVisitKeepsInv
<1>6. ASSUME NEW p \in Requests, NEW t \in Threads, NEW post \in Posts, InsertThread(p, t, post)
      PROVE  CommunityInv'
  BY <1>6, InsertThreadKeepsInv
<1>7. ASSUME NEW p \in Requests, NEW post \in Posts, InsertPost(p, post) PROVE CommunityInv'
  BY <1>7, InsertPostKeepsInv
<1>8. ASSUME NEW p \in Requests, SetThreadState(p) PROVE CommunityInv'
  BY <1>8, SetThreadKeepsInv
<1>9. ASSUME NEW p \in Requests, InspectPost(p) PROVE CommunityInv'
  BY <1>9, InspectKeepsInv
<1>10. ASSUME NEW p \in Requests, SetPostState(p) PROVE CommunityInv'
  BY <1>10, SetPostKeepsInv
<1> QED BY <1>1, <1>2, <1>3, <1>4, <1>5, <1>6, <1>7, <1>8, <1>9, <1>10 DEF CommunityNext

\* The invariant, along every behaviour.
LEMMA CommunityInvHolds == CommunitySpec => []CommunityInv
BY CommunityInitInv, CommunityNextInv, PTL DEF CommunitySpec

\* Every behaviour of the community keeps the types of its tables.
THEOREM CommunityTypeCorrect == CommunitySpec => []CommunityTypeOK
<1>1. CommunityInv => CommunityTypeOK
  BY DEF CommunityInv
<1> QED BY <1>1, CommunityInvHolds, PTL

\* The post that opens a thread is never hidden by itself, whichever moderators race to
\* hide it: a thread that readers see shows what it is about.
THEOREM OpeningPostsStay == CommunitySpec => []OpeningPostIsShown
<1>1. CommunityInv => OpeningPostIsShown
  BY DEF CommunityInv
<1> QED BY <1>1, CommunityInvHolds, PTL

=============================================================================
