-------------------------------- MODULE Sessions --------------------------------
(***************************************************************************)
(* Accounts, sessions, and the middleware in front of every protected route. *)
(*                                                                         *)
(* Login and logout commit together with their rows of the audit log.  All   *)
(* other requests pass a chain of separate reads (session, account, CSRF      *)
(* token, role), and administrators may change what was read in between.     *)
(***************************************************************************)
EXTENDS Naturals, Services

CONSTANT Sessions   \* identifiers of sessions, each with its bearer token

VARIABLES
    account,   \* identity.users, with whether an ADMINISTRATOR assignment is active
    session,   \* identity.sessions
    audit,     \* audit.events: how many rows name each session or account
    answered,  \* the CSRF tokens that were handed out for each session
    call       \* the requests in flight

identityTables == <<account, session, audit, answered>>

identityVars == <<account, session, audit, answered, call>>

\* A CSRF token is named by the request that generated it.
Tokens == Requests

Account == [status : {"ACTIVE", "SUSPENDED"}, administrator : BOOLEAN]

Session == [user : Users, open : BOOLEAN, expired : BOOLEAN, csrf : Tokens \cup {None}]

ASSUME SessionsAssumption == None \notin Sessions \cup Account \cup Session

Audit == [bootstrap : [Users -> Nat], login : [Sessions -> Nat], logout : [Sessions -> Nat]]

\* newRouter: what stands in front of the handlers, by kind of route.
Middleware == [
    logout     |-> [mutating |-> TRUE,  capability |-> FALSE],
    session    |-> [mutating |-> FALSE, capability |-> FALSE],
    read       |-> [mutating |-> FALSE, capability |-> FALSE],
    write      |-> [mutating |-> TRUE,  capability |-> FALSE],
    inspect    |-> [mutating |-> FALSE, capability |-> TRUE],
    administer |-> [mutating |-> TRUE,  capability |-> TRUE]]

Routes == DOMAIN Middleware

Guards == {"session", "account", "role"}

\* missing: the conditions that have held at no moment since the request arrived.
Call == [step : {"idle", "authenticated", "rechecked", "arrived", "found", "resolved",
                 "verified", "authorized", "uninitialised", "lost", "executed"},
         route : Routes \cup {None}, user : Users \cup {None},
         session : Sessions \cup {None}, missing : SUBSET Guards]

NoCall == [step |-> "idle", route |-> None, user |-> None, session |-> None, missing |-> {}]

\* Sessions older than CSRF protection have no token.
SessionsInit ==
    /\ account \in [Users -> {None, [status |-> "ACTIVE", administrator |-> FALSE]}]
    /\ session \in [Sessions -> {None} \cup
          {[user |-> u, open |-> TRUE, expired |-> FALSE, csrf |-> None] :
              u \in {v \in Users : account[v] # None}}]
    /\ audit = [bootstrap |-> [u \in Users |-> 0],
                login |-> [s \in Sessions |-> IF session[s] = None THEN 0 ELSE 1],
                logout |-> [s \in Sessions |-> 0]]
    /\ answered = [s \in Sessions |-> {}]
    /\ call = [p \in Requests |-> NoCall]

-----------------------------------------------------------------------------
IsActive(u) == account[u] # None /\ account[u].status = "ACTIVE"

HasActiveGlobalRole(u) == account[u] # None /\ account[u].administrator

IsLive(s) == session[s] # None /\ session[s].open /\ ~session[s].expired

GoTo(p, step) == call' = [call EXCEPT ![p] = [@ EXCEPT !.step = step]]

EndCall(p) ==
    /\ call[p].step # "idle"
    /\ call' = [call EXCEPT ![p] = NoCall]
    /\ UNCHANGED identityTables

-----------------------------------------------------------------------------
(* What administrators do, outside of the HTTP API *)

\* Everyone who waits for a guard to hold now sees it hold.
Satisfy(u, guard) ==
    call' = [p \in Requests |->
        IF call[p].user = u THEN [call[p] EXCEPT !.missing = @ \ {guard}] ELSE call[p]]

\* btg-lms bootstrap-admin: account, e-mail, credential, role and fact, or nothing.
Bootstrap(u) ==
    /\ account[u] = None
    /\ account' = [account EXCEPT ![u] = [status |-> "ACTIVE", administrator |-> TRUE]]
    /\ audit' = [audit EXCEPT !.bootstrap = [@ EXCEPT ![u] = audit.bootstrap[u] + 1]]
    /\ UNCHANGED <<session, answered, call>>

UpdateUserStatus(u, status) ==
    /\ account[u] # None
    /\ account' = [account EXCEPT ![u] = [@ EXCEPT !.status = status]]
    /\ IF status = "ACTIVE" THEN Satisfy(u, "account") ELSE UNCHANGED call
    /\ UNCHANGED <<session, audit, answered>>

AssignGlobalRole(u) ==
    /\ account[u] # None
    /\ account' = [account EXCEPT ![u] = [@ EXCEPT !.administrator = TRUE]]
    /\ Satisfy(u, "role")
    /\ UNCHANGED <<session, audit, answered>>

RevokeGlobalRole(u) ==
    /\ account[u] # None
    /\ account' = [account EXCEPT ![u] = [@ EXCEPT !.administrator = FALSE]]
    /\ UNCHANGED <<session, audit, answered, call>>

Revoked(row) == [row EXCEPT !.open = FALSE]

\* RevokeAllSessionsForUser writes no fact.
RevokeUserSessions(u) ==
    /\ session' = [s \in Sessions |->
          IF session[s] # None /\ session[s].user = u THEN Revoked(session[s]) ELSE session[s]]
    /\ UNCHANGED <<account, audit, answered, call>>

\* Seven days pass.
Expire(s) ==
    /\ session[s] # None
    /\ session' = [session EXCEPT ![s] = [@ EXCEPT !.expired = TRUE]]
    /\ UNCHANGED <<account, audit, answered, call>>

-----------------------------------------------------------------------------
(* Login *)

\* AuthenticatePassword, with the right password; no transaction.
AuthenticatePassword(p, u) ==
    /\ call[p] = NoCall
    /\ IsActive(u)
    /\ call' = [call EXCEPT ![p] = [NoCall EXCEPT !.step = "authenticated", !.user = u]]
    /\ UNCHANGED identityTables

\* SessionService.CreateSession reads the account again; nothing locks it.
RecheckUser(p) ==
    /\ call[p].step = "authenticated"
    /\ IsActive(call[p].user)
    /\ GoTo(p, "rechecked")
    /\ UNCHANGED identityTables

\* The event of a completed login.
AppendLogin(s) == audit' = [audit EXCEPT !.login = [@ EXCEPT ![s] = audit.login[s] + 1]]

\* Session and fact, in one transaction; then the answer carries both tokens.
CommitLogin(p, s) ==
    /\ call[p].step = "rechecked"
    /\ session[s] = None
    /\ session' = [session EXCEPT ![s] =
          [user |-> call[p].user, open |-> TRUE, expired |-> FALSE, csrf |-> p]]
    /\ AppendLogin(s)
    /\ answered' = [answered EXCEPT ![s] = @ \cup {p}]
    /\ call' = [call EXCEPT ![p] = NoCall]
    /\ UNCHANGED account

\* The answer to COMMIT is lost: the session is there, and nobody has its token.
CommitLoginUnanswered(p, s) ==
    /\ call[p].step = "rechecked"
    /\ session[s] = None
    /\ session' = [session EXCEPT ![s] =
          [user |-> call[p].user, open |-> TRUE, expired |-> FALSE, csrf |-> p]]
    /\ AppendLogin(s)
    /\ call' = [call EXCEPT ![p] = NoCall]
    /\ UNCHANGED <<account, answered>>

-----------------------------------------------------------------------------
(* The middleware chain *)

Arrive(p, s, route) ==
    /\ call[p] = NoCall
    /\ session[s] # None
    /\ LET u == session[s].user IN
       call' = [call EXCEPT ![p] =
          [step |-> "arrived", route |-> route, user |-> u, session |-> s,
           missing |-> {g \in Guards :
               \/ g = "session" /\ ~IsLive(s)
               \/ g = "account" /\ ~IsActive(u)
               \/ g = "role" /\ ~HasActiveGlobalRole(u)}]]
    /\ UNCHANGED identityTables

GetSessionByDigest(p) ==
    /\ call[p].step = "arrived"
    /\ IsLive(call[p].session)
    /\ GoTo(p, "found")
    /\ UNCHANGED identityTables

\* Mutant of ResolveUser: the session alone decides.
ResolveSessionOnly(p) ==
    /\ call[p].step = "found"
    /\ GoTo(p, "resolved")
    /\ UNCHANGED identityTables

\* A suspended account has no sessions.
ResolveUser(p) ==
    /\ call[p].step = "found"
    /\ IsActive(call[p].user)
    /\ GoTo(p, "resolved")
    /\ UNCHANGED identityTables

\* The row as GetSessionCSRFToken selects it: of a live session of an active account.
HasValidRow(s) == IsLive(s) /\ IsActive(session[s].user)

\* The token of the header is compared with the stored one; NULL equals none.
ValidateCSRF(p, supplied) ==
    /\ call[p].step = "resolved"
    /\ Middleware[call[p].route].mutating
    /\ HasValidRow(call[p].session)
    /\ session[call[p].session].csrf = supplied
    /\ GoTo(p, "verified")
    /\ UNCHANGED identityTables

AuthorizeCapability(p) ==
    /\ call[p].route # None
    /\ call[p].step = IF Middleware[call[p].route].mutating THEN "verified" ELSE "resolved"
    /\ Middleware[call[p].route].capability
    /\ HasActiveGlobalRole(call[p].user)
    /\ GoTo(p, "authorized")
    /\ UNCHANGED identityTables

LastStep(route) ==
    IF Middleware[route].capability THEN "authorized"
    ELSE IF Middleware[route].mutating THEN "verified" ELSE "resolved"

\* Every guard of the route let the request through.
Passed(p) == call[p].route # None /\ call[p].step = LastStep(call[p].route)

\* The handler of any other route begins.
Execute(p) ==
    /\ Passed(p)
    /\ call[p].route \in {"read", "write", "inspect", "administer"}
    /\ GoTo(p, "executed")
    /\ UNCHANGED identityTables

-----------------------------------------------------------------------------
(* GET /auth/session: the CSRF token *)

Answer(p, s, token) ==
    /\ answered' = [answered EXCEPT ![s] = @ \cup {token}]
    /\ call' = [call EXCEPT ![p] = NoCall]

\* GetSessionCSRFToken, first or after a lost initialisation.
ReadToken(p) ==
    LET s == call[p].session IN
    /\ \/ call[p].step = "lost"
       \/ Passed(p) /\ call[p].route = "session"
    /\ HasValidRow(s)
    /\ IF session[s].csrf # None
       THEN Answer(p, s, session[s].csrf)
       ELSE /\ call[p].step # "lost"
            /\ GoTo(p, "uninitialised")
            /\ UNCHANGED answered
    /\ UNCHANGED <<account, session, audit>>

\* Mutant of MayInitialize: whoever is last wins.
MayOverwrite(s) == HasValidRow(s)

\* UPDATE ... WHERE csrf_token IS NULL and the session is valid.
MayInitialize(s) == HasValidRow(s) /\ session[s].csrf = None

InitializeToken(p) ==
    LET s == call[p].session IN
    /\ call[p].step = "uninitialised"
    /\ IF MayInitialize(s)
       THEN /\ session' = [session EXCEPT ![s] = [@ EXCEPT !.csrf = p]]
            /\ Answer(p, s, p)
       ELSE /\ GoTo(p, "lost")
            /\ UNCHANGED <<session, answered>>
    /\ UNCHANGED <<account, audit>>

-----------------------------------------------------------------------------
(* Logout *)

\* UPDATE ... WHERE id = $1 AND revoked_at IS NULL returns a row.
RevokesTheRow(s) == session[s] # None /\ session[s].open

\* One transaction; its row lock orders two logouts of one session.  An operation
\* is one request, so no earlier fact carries its ID.
Logout(p) ==
    LET s == call[p].session IN
    /\ Passed(p)
    /\ call[p].route = "logout"
    /\ IF RevokesTheRow(s)
       THEN /\ session' = [session EXCEPT ![s] = Revoked(@)]
            /\ audit' = [audit EXCEPT !.logout = [@ EXCEPT ![s] = audit.logout[s] + 1]]
       ELSE UNCHANGED <<session, audit>>
    /\ call' = [call EXCEPT ![p] = NoCall]
    /\ UNCHANGED <<account, answered>>

-----------------------------------------------------------------------------
SessionsNext ==
    \/ \E u \in Users :
          \/ Bootstrap(u)
          \/ \E status \in {"ACTIVE", "SUSPENDED"} : UpdateUserStatus(u, status)
          \/ AssignGlobalRole(u)
          \/ RevokeGlobalRole(u)
          \/ RevokeUserSessions(u)
    \/ \E s \in Sessions : Expire(s)
    \/ \E p \in Requests :
          \/ \E u \in Users : AuthenticatePassword(p, u)
          \/ RecheckUser(p)
          \/ \E s \in Sessions :
                \/ CommitLogin(p, s)
                \/ CommitLoginUnanswered(p, s)
                \/ \E route \in Routes : Arrive(p, s, route)
          \/ GetSessionByDigest(p)
          \/ ResolveUser(p)
          \/ \E token \in Tokens : ValidateCSRF(p, token)
          \/ AuthorizeCapability(p)
          \/ Execute(p)
          \/ ReadToken(p)
          \/ InitializeToken(p)
          \/ Logout(p)
          \/ EndCall(p)

SessionsSpec == SessionsInit /\ [][SessionsNext]_identityVars

-----------------------------------------------------------------------------
(* Properties *)

\* Every variable of the identity module has its type.
SessionsTypeOK ==
    /\ account \in [Users -> Account \cup {None}]
    /\ session \in [Sessions -> Session \cup {None}]
    /\ audit \in Audit
    /\ answered \in [Sessions -> SUBSET Tokens]
    /\ call \in [Requests -> Call]

\* All tabs of a browser hold the token that is stored: of two first requests that
\* generate one, both answer the same.
TabsAgree == \A s \in Sessions : answered[s] # {} => session[s] # None /\ answered[s] = {session[s].csrf}

\* A handler runs only if the session was live, the account active and, where the
\* route needs it, the role assigned, each at some moment since the request
\* arrived: nothing that was withdrawn before is honoured, in any cache or copy.
AuthorityIsFresh ==
    \A p \in Requests :
        call[p].step = "executed" =>
            /\ {"session", "account"} \cap call[p].missing = {}
            /\ Middleware[call[p].route].capability => "role" \notin call[p].missing

=============================================================================
