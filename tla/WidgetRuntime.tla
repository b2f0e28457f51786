------------------------------- MODULE WidgetRuntime -------------------------------
(***************************************************************************)
(* The runtimes of plugin widgets.  A launch checks the release, gives out a  *)
(* token that is good for five minutes and, for a widget of a lesson or of the *)
(* dashboard, keeps its context in the memory of the server.  A refresh checks *)
(* everything again.  Tokens outlive the server, whose key is configured;      *)
(* contexts do not.  Registry (PluginRegistry) and dashboard                   *)
(* (DashboardWidgets) are seen through the answers they give.                 *)
(***************************************************************************)
EXTENDS FiniteSets, Services

CONSTANT Instances   \* identifiers of runtime instances

VARIABLES
    runnable,  \* RuntimeRelease answers for the release
    shown,     \* the dashboard placement is there and enabled
    token,     \* the newest token of each instance
    context,   \* RuntimeService.contexts and dashboardContexts
    access     \* the requests in flight

runtimeVars == <<runnable, shown, token, context, access>>

\* Of a course widget the placement is part of an immutable version.
WidgetKinds == {"COURSE_WIDGET", "DASHBOARD_WIDGET"}

Token == [kind : WidgetKinds, live : BOOLEAN]

ASSUME RuntimeAssumption == None \notin Instances \cup WidgetKinds \cup Token

Access == [step : {"idle", "loaded", "verified", "resolved", "found", "granted", "served"},
           kind : WidgetKinds, instance : Instances \cup {None}, answer : WidgetKinds \cup {None},
           missing : SUBSET {"release", "placement"}]

NoAccess == [step |-> "idle", kind |-> "COURSE_WIDGET", instance |-> None, answer |-> None, missing |-> {}]

RuntimeInit ==
    /\ runnable \in BOOLEAN
    /\ shown \in BOOLEAN
    /\ token = [i \in Instances |-> None]
    /\ context = [i \in Instances |-> None]
    /\ access = [p \in Requests |-> NoAccess]

-----------------------------------------------------------------------------
Lacking == (IF runnable THEN {} ELSE {"release"}) \cup (IF shown THEN {} ELSE {"placement"})

\* An administrator changes what the registry or the dashboard answers; every request
\* in flight sees what holds now.
Administer ==
    /\ \/ runnable' = ~runnable /\ UNCHANGED shown
       \/ shown' = ~shown /\ UNCHANGED runnable
    /\ access' = [p \in Requests |-> [access[p] EXCEPT !.missing = @ \cap Lacking']]
    /\ UNCHANGED <<token, context>>

\* Five minutes pass.
ExpireToken(i) ==
    /\ token[i] # None
    /\ token' = [token EXCEPT ![i] = [@ EXCEPT !.live = FALSE]]
    /\ UNCHANGED <<runnable, shown, context, access>>

Restart ==
    /\ context' = [i \in Instances |-> None]
    /\ access' = [p \in Requests |-> NoAccess]
    /\ UNCHANGED <<runnable, shown, token>>

Proceed(p, step) ==
    /\ access' = [access EXCEPT ![p] = [@ EXCEPT !.step = step]]
    /\ UNCHANGED <<runnable, shown, token, context>>

EndAccess(p) ==
    /\ access[p].step # "idle"
    /\ access' = [access EXCEPT ![p] = NoAccess]
    /\ UNCHANGED <<runnable, shown, token, context>>

-----------------------------------------------------------------------------
(* Launch *)

\* The placement: in the published version, or an enabled one of the dashboard.
Prepare(p, kind) ==
    /\ access[p] = NoAccess
    /\ kind = "DASHBOARD_WIDGET" => shown
    /\ access' = [access EXCEPT ![p] =
          [step |-> "loaded", kind |-> kind, instance |-> None, answer |-> None, missing |-> Lacking]]
    /\ UNCHANGED <<runnable, shown, token, context>>

Resolve(p) ==
    /\ access[p].step = "loaded"
    /\ runnable
    /\ Proceed(p, "resolved")

\* The token is signed before the context is stored, and answered after.
Launch(p, i) ==
    /\ access[p].step = "resolved" /\ access[p].instance = None
    /\ token[i] = None
    /\ token' = [token EXCEPT ![i] = [kind |-> access[p].kind, live |-> TRUE]]
    /\ context' = [context EXCEPT ![i] = access[p].kind]
    /\ access' = [access EXCEPT ![p] =
          [@ EXCEPT !.step = "granted", !.instance = i, !.answer = access[p].kind]]
    /\ UNCHANGED <<runnable, shown>>

-----------------------------------------------------------------------------
(* Refresh *)

\* Verify: signed here, not expired, with the bootstrap capability.
VerifyToken(p, i) ==
    /\ access[p] = NoAccess
    /\ token[i] # None /\ token[i].live
    /\ access' = [access EXCEPT ![p] =
          [step |-> "verified", kind |-> token[i].kind, instance |-> i, answer |-> None,
           missing |-> Lacking]]
    /\ UNCHANGED <<runnable, shown, token, context>>

ResolveRefresh(p) ==
    /\ access[p].step = "verified"
    /\ runnable
    /\ Proceed(p, "resolved")

\* A token that carries the capability of its kind needs the context it is for.
HasContext(p) == context[access[p].instance] = access[p].kind

FindContext(p) ==
    /\ access[p].step = "resolved" /\ access[p].instance # None
    /\ HasContext(p)
    /\ access' = [access EXCEPT ![p] = [@ EXCEPT !.step = "found",
          !.answer = context[access[p].instance]]]
    /\ UNCHANGED <<runnable, shown, token, context>>

\* Mutant of MayRefresh: the snapshot of the launch decides.
MayRefreshSnapshot(p) == access[p].answer # None

\* The placement of the dashboard is read again.
MayRefresh(p) == access[p].kind = "DASHBOARD_WIDGET" => shown

Refresh(p) ==
    /\ access[p].step = "found"
    /\ MayRefresh(p)
    /\ token' = [token EXCEPT ![access[p].instance] = [@ EXCEPT !.live = TRUE]]
    /\ access' = [access EXCEPT ![p] = [@ EXCEPT !.step = "granted"]]
    /\ UNCHANGED <<runnable, shown, context>>

\* GET of the context: token and memory, nothing else.
ReadContext(p, i) ==
    /\ access[p] = NoAccess
    /\ token[i] # None /\ token[i].live
    /\ context[i] = token[i].kind
    /\ access' = [access EXCEPT ![p] =
          [step |-> "served", kind |-> token[i].kind, instance |-> i, answer |-> context[i], missing |-> {}]]
    /\ UNCHANGED <<runnable, shown, token, context>>

-----------------------------------------------------------------------------
RuntimeNext ==
    \/ Administer
    \/ Restart
    \/ \E i \in Instances : ExpireToken(i)
    \/ \E p \in Requests :
          \/ \E kind \in WidgetKinds : Prepare(p, kind)
          \/ Resolve(p)
          \/ \E i \in Instances : Launch(p, i) \/ VerifyToken(p, i) \/ ReadContext(p, i)
          \/ ResolveRefresh(p)
          \/ FindContext(p)
          \/ Refresh(p)
          \/ EndAccess(p)

RuntimeSpec == RuntimeInit /\ [][RuntimeNext]_runtimeVars

-----------------------------------------------------------------------------
(* Properties *)

\* Every variable of the runtimes has its type.
RuntimeTypeOK ==
    /\ runnable \in BOOLEAN /\ shown \in BOOLEAN
    /\ token \in [Instances -> Token \cup {None}]
    /\ context \in [Instances -> WidgetKinds \cup {None}]
    /\ access \in [Requests -> Access]

\* A token is given out, at launch or for another token, only if while the request
\* was in flight the release could run and the placement of the dashboard was shown:
\* an older token carries nothing beyond its own five minutes.
GrantsAreFresh ==
    \A p \in Requests :
        access[p].step = "granted" =>
            /\ "release" \notin access[p].missing
            /\ access[p].kind = "DASHBOARD_WIDGET" => "placement" \notin access[p].missing

=============================================================================
