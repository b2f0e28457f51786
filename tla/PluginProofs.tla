--------------------------- MODULE PluginProofs ---------------------------
(***************************************************************************)
(* Proofs about what the academy does with plugins: PluginRegistry, which  *)
(* says whether a release may run, DashboardWidgets, which places it, and  *)
(* WidgetRuntime, which launches it.  They hold for any keys, releases,    *)
(* approvals, placements, instances and requests.                          *)
(***************************************************************************)
EXTENDS PluginRegistry, DashboardWidgets, WidgetRuntime, TLAPS, FiniteSetTheorems,
        WellFoundedInduction

-----------------------------------------------------------------------------
(***************************************************************************)
(* The registry                                                            *)
(*                                                                         *)
(* A request misses a condition as long as no state since it began has     *)
(* held it.  The invariant says what each read has found: a condition of   *)
(* the artifact that the request read is one of the release that is        *)
(* installed, for a release is never replaced; and an approval that was    *)
(* found stays active until a revocation leaves the release without any,   *)
(* for at most one of an artifact is active.                               *)
(***************************************************************************)

\* The steps at which a request has read its release.
ReadingSteps == {"released", "keyed", "trusted", "granted", "authorized", "unapproved", "found",
            "unmatched", "revoked"}

\* The release is installed as the request has read it.
BoundRelease(p) ==
    /\ task[p].release \in Releases
    /\ installed[task[p].release] # None
    /\ installed[task[p].release].artifact = task[p].artifact

\* Nothing that holds now is still missed.
Noticed(p) == \A r \in Releases : task[p].release = r => task[p].missing \cap Held[r] = {}

\* What the reads of a run or an enabling have found.
Checked(p) ==
    /\ task[p].step \in {"released", "keyed", "trusted", "granted"} /\ task[p].operation = "run"
          => "enabled" \notin task[p].missing
    /\ task[p].step \in {"keyed", "trusted", "granted"} => "key" \notin task[p].missing
    /\ task[p].step \in {"trusted", "granted"} => "approval" \notin task[p].missing
    /\ task[p].step = "granted" => task[p].operation = "run"

Names(a, p) ==
    /\ approval[a] # None
    /\ approval[a].release = task[p].release
    /\ approval[a].digest = task[p].artifact.digest
    /\ approval[a].authority = task[p].artifact.key

\* What the reads of a revocation have found.
Found(p) ==
    /\ task[p].step = "found" =>
          /\ task[p].approval \in ApprovalIds
          /\ Names(task[p].approval, p)
          /\ approval[task[p].approval].active \/ "unapproved" \notin task[p].missing
    /\ task[p].step \in {"unmatched", "revoked"} => "unapproved" \notin task[p].missing

TaskForm(p) ==
    /\ task[p].step \in ReadingSteps => BoundRelease(p)
    /\ task[p].step = "evaluated" => task[p].release \in Releases /\ task[p].artifact \in Artifact
    /\ task[p].step \in {"authorized", "unapproved"} => task[p].artifact.key \in KeyIds
    /\ Noticed(p)
    /\ Checked(p)
    /\ Found(p)

\* The index: one active approval of an artifact by an authority.
ActiveIsUnique ==
    \A a, b \in ApprovalIds :
        /\ approval[a] # None /\ approval[b] # None
        /\ approval[a].active /\ approval[b].active
        /\ approval[a].release = approval[b].release
        /\ approval[a].digest = approval[b].digest
        /\ approval[a].authority = approval[b].authority
        => a = b

RegistryInv == RegistryTypeOK /\ ActiveIsUnique /\ \A p \in Requests : TaskForm(p)

-----------------------------------------------------------------------------
(* Rows and requests *)

\* Nothing that is stored is absent.
LEMMA RowsAreRows == None \notin KeyRow /\ None \notin Release /\ None \notin Approval
BY RowsAssumption

\* What an installed release is seen to hold.
LEMMA HeldConditions ==
  ASSUME NEW r \in Releases, installed[r] # None
  PROVE  /\ "enabled" \in Held[r] <=> installed[r].enabled
         /\ "key" \in Held[r] <=> KeyAdmits(r, installed[r].artifact)
         /\ "approval" \in Held[r] <=>
              (KeyAdmits(r, installed[r].artifact) /\ NeedsApproval(installed[r].artifact)
                 => ActiveApprovals(r, installed[r].artifact) # {})
         /\ "unapproved" \in Held[r] <=> ActiveApprovals(r, installed[r].artifact) = {}
BY DEF Held, Conditions

\* Where nothing is missed any more, a request stays as it is.
LEMMA NoTaskForm == ASSUME NEW p \in Requests, task[p] = NoTask PROVE TaskForm(p)
BY RegistryAssumption DEF TaskForm, NoTask, ReadingSteps, Noticed, Checked, Found

\* Steps that leave the tables alone.
LEMMA OtherTablesRest ==
  ASSUME UNCHANGED registryTables, NEW p \in Requests, TaskForm(p), task'[p] = task[p]
  PROVE  TaskForm(p)'
<1>1. Held' = Held
  BY DEF Held, registryTables, KeyAdmits, KeyIsEnabled, Verifies, NeedsApproval, ActiveApprovals
<1>2. Noticed(p)'
  BY <1>1 DEF TaskForm, Noticed
<1> QED BY <1>2 DEF TaskForm, BoundRelease, Checked, Found, Names, registryTables

-----------------------------------------------------------------------------
(* Steps that change the tables *)

\* Releases are not replaced, approvals not rewritten; one that is revoked leaves its
\* release without any.
TablesGrow ==
    /\ \A r \in Releases :
          installed[r] # None =>
              installed'[r] # None /\ installed'[r].artifact = installed[r].artifact
    /\ \A a \in ApprovalIds :
          approval[a] # None =>
              /\ approval'[a] # None
              /\ approval'[a].release = approval[a].release
              /\ approval'[a].digest = approval[a].digest
              /\ approval'[a].authority = approval[a].authority
              /\ approval[a].active /\ ~approval'[a].active =>
                    \A b \in ApprovalIds :
                        approval'[b] # None /\ approval'[b].active =>
                            \/ approval'[b].release # approval[a].release
                            \/ approval'[b].digest # approval[a].digest
                            \/ approval'[b].authority # approval[a].authority

\* What a request remembers that has read its release.
Remembers(p) ==
    /\ task'[p].step = task[p].step /\ task'[p].operation = task[p].operation
    /\ task'[p].release = task[p].release /\ task'[p].artifact = task[p].artifact
    /\ task'[p].approval = task[p].approval
    /\ task'[p].missing \subseteq task[p].missing
    /\ \A r \in Releases : task[p].release = r => task'[p].missing \cap Held'[r] = {}

\* A request that remembers what it is shown keeps its form.
LEMMA Later ==
  ASSUME RegistryTypeOK, TablesGrow, NEW p \in Requests, TaskForm(p), Remembers(p)
  PROVE  TaskForm(p)'
<1>1. task[p].step \in ReadingSteps => BoundRelease(p)'
  BY DEF TaskForm, BoundRelease, TablesGrow, Remembers
<1>2. Noticed(p)'
  BY DEF Noticed, Remembers
<1>3. Checked(p)'
  BY DEF TaskForm, Checked, Remembers
<1>4. Found(p)'
  <2>1. CASE task[p].step = "found"
    <3> DEFINE a == task[p].approval
               r == task[p].release
    <3>1. a \in ApprovalIds /\ Names(a, p) /\ Names(a, p)'
      BY <2>1 DEF TaskForm, Found, TablesGrow, Remembers, Names
    <3>2. CASE approval[a].active /\ ~approval'[a].active
      <4>1. ActiveApprovals(r, task[p].artifact)' = {}
        <5> SUFFICES ASSUME NEW b \in ApprovalIds, approval'[b] # None,
                            approval'[b] = [release |-> task'[p].release,
                                digest |-> task'[p].artifact.digest,
                                authority |-> task'[p].artifact.key, active |-> TRUE]
                     PROVE  FALSE
          BY DEF ActiveApprovals
        <5> QED BY <3>1, <3>2 DEF TablesGrow, Names, Remembers
      <4>2. r \in Releases /\ installed'[r] # None /\ installed'[r].artifact = task[p].artifact
        BY <1>1, <2>1 DEF ReadingSteps, BoundRelease, Remembers
      <4>3. "unapproved" \in Held'[r]
        BY <4>1, <4>2 DEF Held, Conditions, Remembers, ActiveApprovals
      <4> QED BY <2>1, <3>1, <4>2, <4>3 DEF Found, Remembers
    <3>3. CASE ~(approval[a].active /\ ~approval'[a].active)
      BY <2>1, <3>1, <3>3 DEF TaskForm, Found, Remembers
    <3> QED BY <3>2, <3>3
  <2> QED BY <2>1 DEF TaskForm, Found, Remembers
<1> QED BY <1>1, <1>2, <1>3, <1>4 DEF TaskForm, Remembers

\* Remember, request by request.
LEMMA Remembered ==
  ASSUME NEW tasks \in [Requests -> Task], Remember(tasks), NEW p \in Requests
  PROVE  /\ task'[p] \in Task
         /\ task'[p].step = tasks[p].step /\ task'[p].operation = tasks[p].operation
         /\ task'[p].release = tasks[p].release /\ task'[p].artifact = tasks[p].artifact
         /\ task'[p].approval = tasks[p].approval
         /\ task'[p].missing \subseteq tasks[p].missing
         /\ \A r \in Releases : tasks[p].release = r => task'[p].missing \cap Held'[r] = {}
         /\ tasks[p].release = None => task'[p] = tasks[p]
BY RegistryAssumption DEF Remember, Task

-----------------------------------------------------------------------------
(* The invariant, from what one step changes *)

\* A step of one request that leaves the tables alone.
LEMMA DecisionMoves ==
  ASSUME RegistryInv, UNCHANGED registryTables, NEW p \in Requests,
         \A q \in Requests \ {p} : task'[q] = task[q],
         task' \in [Requests -> Task], TaskForm(p)'
  PROVE  RegistryInv'
<1>1. RegistryTypeOK' /\ ActiveIsUnique'
  BY DEF RegistryInv, RegistryTypeOK, ActiveIsUnique, registryTables
<1>2. ASSUME NEW q \in Requests
      PROVE  TaskForm(q)'
  <2>1. CASE q = p
    BY <2>1
  <2>2. CASE q # p
    BY <2>2, OtherTablesRest DEF RegistryInv
  <2> QED BY <2>1, <2>2
<1> QED BY <1>1, <1>2 DEF RegistryInv

\* A request that ends.
LEMMA EndRegistryForm ==
  ASSUME NEW p \in Requests, task'[p] = NoTask
  PROVE  TaskForm(p)' /\ task'[p] \in Task
BY RegistryAssumption DEF TaskForm, NoTask, Task, ReadingSteps, Noticed, Checked, Found

\* A step that changes the tables, and ends at most the requests it belongs to.
LEMMA ShownRelease ==
  ASSUME RegistryInv, TablesGrow, NEW tasks \in [Requests -> Task], Remember(tasks),
         \A p \in Requests : tasks[p] = task[p] \/ tasks[p] = NoTask,
         keyRow' \in [KeyIds -> KeyRow \cup {None}],
         installed' \in [Releases -> Release \cup {None}],
         approval' \in [ApprovalIds -> Approval \cup {None}],
         ActiveIsUnique'
  PROVE  RegistryInv'
<1>1. RegistryTypeOK'
  <2>1. \A p \in Requests : task'[p] \in Task
    BY Remembered
  <2>2. task' = [p \in Requests |-> task'[p]]
    BY DEF Remember
  <2> QED BY <2>1, <2>2 DEF RegistryTypeOK
<1>2. ASSUME NEW p \in Requests
      PROVE  TaskForm(p)'
  <2>1. CASE tasks[p] = task[p]
    <3>1. Remembers(p)
      BY <2>1, Remembered DEF Remembers
    <3> QED BY <3>1, Later DEF RegistryInv
  <2>2. CASE tasks[p] = NoTask
    <3>1. tasks[p].release = None
      BY <2>2 DEF NoTask
    <3>2. task'[p] = tasks[p]
      BY <3>1, Remembered
    <3> QED BY <2>2, <3>2, EndRegistryForm
  <2> QED BY <2>1, <2>2
<1> QED BY <1>1, <1>2 DEF RegistryInv

\* Where approvals rest, at most one is active still.
LEMMA UniqueRests == ASSUME ActiveIsUnique, UNCHANGED approval PROVE ActiveIsUnique'
BY DEF ActiveIsUnique

\* The requests without the one that ends.
LEMMA DoneTasks ==
  ASSUME RegistryTypeOK, NEW p \in Requests
  PROVE  /\ Done(p) \in [Requests -> Task] /\ task \in [Requests -> Task]
         /\ \A q \in Requests : Done(p)[q] = task[q] \/ Done(p)[q] = NoTask
BY DEF RegistryTypeOK, Done, NoTask, Task

-----------------------------------------------------------------------------
(* Keys and releases *)

\* A key that is new or changes leaves releases and approvals as they are.
LEMMA KeysKeepInv ==
  ASSUME RegistryInv, UNCHANGED <<installed, approval>>, Remember(task),
         keyRow' \in [KeyIds -> KeyRow \cup {None}]
  PROVE  RegistryInv'
<1>1. TablesGrow
  BY DEF TablesGrow
<1>2. ActiveIsUnique'
  BY UniqueRests DEF RegistryInv
<1> QED BY <1>1, <1>2, ShownRelease DEF RegistryInv, RegistryTypeOK

\* RegisterVerificationKey
LEMMA RegisterKeyKeepsInv ==
  ASSUME RegistryInv, NEW offer \in KeyOffers, RegisterVerificationKey(offer)
  PROVE  RegistryInv'
<1>1. offer.id \in KeyIds
  BY RegistryAssumption DEF KeyIds
<1>2. keyRow' \in [KeyIds -> KeyRow \cup {None}]
  BY <1>1, RegistryAssumption DEF RegisterVerificationKey, RegistryInv, RegistryTypeOK, KeyRow
<1> QED BY <1>2, KeysKeepInv DEF RegisterVerificationKey

\* SetVerificationKeyEnabled
LEMMA SetKeyKeepsInv ==
  ASSUME RegistryInv, NEW k \in KeyIds, NEW enabled \in BOOLEAN, SetVerificationKeyEnabled(k, enabled)
  PROVE  RegistryInv'
<1>1. keyRow' \in [KeyIds -> KeyRow \cup {None}]
  BY DEF SetVerificationKeyEnabled, RegistryInv, RegistryTypeOK, KeyRow
<1> QED BY <1>1, KeysKeepInv DEF SetVerificationKeyEnabled

\* A release changes its flag alone, or is new.
LEMMA ReleasesKeepInv ==
  ASSUME RegistryInv, UNCHANGED <<keyRow, approval>>, NEW tasks \in [Requests -> Task], Remember(tasks),
         \A p \in Requests : tasks[p] = task[p] \/ tasks[p] = NoTask,
         installed' \in [Releases -> Release \cup {None}],
         \A r \in Releases : installed[r] # None =>
             installed'[r] # None /\ installed'[r].artifact = installed[r].artifact
  PROVE  RegistryInv'
<1>1. TablesGrow
  BY DEF TablesGrow
<1>2. ActiveIsUnique'
  BY UniqueRests DEF RegistryInv
<1> QED BY <1>1, <1>2, ShownRelease DEF RegistryInv, RegistryTypeOK

\* RegisterRelease
LEMMA RegisterReleaseKeepsInv ==
  ASSUME RegistryInv, NEW p \in Requests, RegisterRelease(p)
  PROVE  RegistryInv'
<1>1. task[p].release \in Releases /\ task[p].artifact \in Artifact
  BY DEF RegistryInv, TaskForm, RegisterRelease
<1>2. installed' \in [Releases -> Release \cup {None}]
  BY <1>1 DEF RegisterRelease, RegistryInv, RegistryTypeOK, Release
<1>3. \A r \in Releases : installed[r] # None =>
        installed'[r] # None /\ installed'[r].artifact = installed[r].artifact
  BY <1>1 DEF RegisterRelease, RegistryInv, RegistryTypeOK
<1> QED BY <1>2, <1>3, DoneTasks, ReleasesKeepInv DEF RegisterRelease, RegistryInv

\* Disable, and the statement of Enable.
LEMMA FlagKeepsRelease ==
  ASSUME RegistryTypeOK, NEW r \in Releases, installed[r] # None, NEW enabled \in BOOLEAN,
         installed' = [installed EXCEPT ![r] = [@ EXCEPT !.enabled = enabled]]
  PROVE  /\ installed' \in [Releases -> Release \cup {None}]
         /\ \A s \in Releases : installed[s] # None =>
                installed'[s] # None /\ installed'[s].artifact = installed[s].artifact
<1>1. installed[r] \in Release
  BY DEF RegistryTypeOK
<1>2. [installed[r] EXCEPT !.enabled = enabled] \in Release
  BY <1>1 DEF Release
<1>3. installed'[r].artifact = installed[r].artifact /\ installed'[r] \in Release
  BY <1>1, <1>2 DEF RegistryTypeOK, Release
<1> QED BY <1>2, <1>3, RowsAreRows DEF RegistryTypeOK

\* Disable
LEMMA DisableKeepsInv ==
  ASSUME RegistryInv, NEW r \in Releases, Disable(r)
  PROVE  RegistryInv'
BY FlagKeepsRelease, ReleasesKeepInv DEF Disable, RegistryInv, RegistryTypeOK

\* Enable
LEMMA EnableKeepsInv ==
  ASSUME RegistryInv, NEW p \in Requests, Enable(p)
  PROVE  RegistryInv'
<1>1. task[p].release \in Releases /\ installed[task[p].release] # None
  BY DEF RegistryInv, TaskForm, BoundRelease, ReadingSteps, Enable
<1> QED BY <1>1, FlagKeepsRelease, DoneTasks, ReleasesKeepInv DEF Enable, RegistryInv

-----------------------------------------------------------------------------
(* Reads *)

\* What a request must have found to go on to a step.
Allowed(p, step) ==
    /\ task[p].step \in ReadingSteps
    /\ step \in {"keyed", "trusted", "granted"} =>
          /\ "key" \notin task[p].missing
          /\ task[p].operation = "run" => "enabled" \notin task[p].missing
    /\ step \in {"trusted", "granted"} => "approval" \notin task[p].missing
    /\ step = "granted" => task[p].operation = "run"
    /\ step \in {"authorized", "unapproved"} => task[p].artifact.key \in KeyIds
    /\ step \in {"unmatched", "revoked"} => "unapproved" \notin task[p].missing

\* A request that goes on with what it has found.
LEMMA GoOnKeepsInv ==
  ASSUME RegistryInv, NEW p \in Requests, NEW step \in ReadingSteps \ {"released", "found"}, GoOn(p, step),
         Allowed(p, step)
  PROVE  RegistryInv'
<1>1. task[p] \in Task
  BY DEF RegistryInv, RegistryTypeOK
<1>2. /\ task'[p] = [task[p] EXCEPT !.step = step]
      /\ \A q \in Requests \ {p} : task'[q] = task[q]
  BY DEF GoOn, RegistryInv, RegistryTypeOK
<1>3. /\ task'[p].step = step /\ task'[p].operation = task[p].operation
      /\ task'[p].release = task[p].release /\ task'[p].artifact = task[p].artifact
      /\ task'[p].missing = task[p].missing /\ task'[p] \in Task
  BY <1>1, <1>2 DEF Task, ReadingSteps
<1>4. task' \in [Requests -> Task]
  BY <1>3 DEF GoOn, RegistryInv, RegistryTypeOK
<1>5. BoundRelease(p)' /\ Noticed(p)'
  <2>1. Held' = Held
    BY DEF Held, GoOn, registryTables, KeyAdmits, KeyIsEnabled, Verifies, NeedsApproval, ActiveApprovals
  <2> QED BY <1>3, <2>1 DEF RegistryInv, TaskForm, BoundRelease, Noticed, Allowed, GoOn, registryTables
<1>6. TaskForm(p)'
  BY <1>3, <1>5 DEF TaskForm, Checked, Found, Allowed, ReadingSteps
<1> QED BY <1>2, <1>4, <1>6, DecisionMoves DEF GoOn

\* EndTask
LEMMA EndTaskKeepsInv ==
  ASSUME RegistryInv, NEW p \in Requests, EndTask(p)
  PROVE  RegistryInv'
<1>1. task'[p] = NoTask /\ \A q \in Requests \ {p} : task'[q] = task[q]
  BY DEF EndTask, Done, RegistryInv, RegistryTypeOK
<1>2. task' \in [Requests -> Task]
  BY DoneTasks DEF EndTask, RegistryInv
<1> QED BY <1>1, <1>2, EndRegistryForm, DecisionMoves DEF EndTask

\* BeginRegister
LEMMA BeginRegisterKeepsInv ==
  ASSUME RegistryInv, NEW p \in Requests, NEW package \in Packages, BeginRegister(p, package)
  PROVE  RegistryInv'
<1> DEFINE artifact == [digest |-> package.digest, key |-> package.key, signer |-> package.signer]
<1>1. artifact \in Artifact /\ package.release \in Releases
  BY RegistryAssumption DEF Artifact, KeyIds
<1>2. /\ task'[p] = [NoTask EXCEPT !.step = "evaluated", !.operation = "register",
                                   !.release = package.release, !.artifact = artifact]
      /\ \A q \in Requests \ {p} : task'[q] = task[q]
  BY DEF BeginRegister, RegistryInv, RegistryTypeOK
<1>3. /\ task'[p].step = "evaluated" /\ task'[p].missing = {}
      /\ task'[p].release = package.release /\ task'[p].artifact = artifact
      /\ task'[p] \in Task
  BY <1>1, <1>2 DEF NoTask, Task
<1>4. task' \in [Requests -> Task]
  BY <1>3 DEF BeginRegister, RegistryInv, RegistryTypeOK
<1>5. TaskForm(p)'
  BY <1>1, <1>3 DEF TaskForm, ReadingSteps, Noticed, Checked, Found
<1> QED BY <1>2, <1>4, <1>5, DecisionMoves DEF BeginRegister

\* GetRelease: what holds now is not missed.
LEMMA GetReleaseKeepsInv ==
  ASSUME RegistryInv, NEW p \in Requests, NEW operation \in {"run", "enable", "approve", "revoke"},
         NEW r \in Releases, GetRelease(p, operation, r)
  PROVE  RegistryInv'
<1>1. /\ task'[p] = [step |-> "released", operation |-> operation, release |-> r,
                     artifact |-> installed[r].artifact, approval |-> None,
                     missing |-> Conditions \ Held[r]]
      /\ \A q \in Requests \ {p} : task'[q] = task[q]
  BY DEF GetRelease, RegistryInv, RegistryTypeOK
<1>2. installed[r] \in Release /\ installed[r].artifact \in Artifact
  BY DEF GetRelease, RegistryInv, RegistryTypeOK, Release
<1>3. task'[p] \in Task
  BY <1>1, <1>2 DEF Task
<1>4. task' \in [Requests -> Task]
  BY <1>3 DEF GetRelease, RegistryInv, RegistryTypeOK
<1>5. Held' = Held
  BY DEF Held, GetRelease, registryTables, KeyAdmits, KeyIsEnabled, Verifies, NeedsApproval, ActiveApprovals
<1>6. operation = "run" => "enabled" \in Held[r]
  BY HeldConditions DEF GetRelease
<1>7. BoundRelease(p)' /\ Noticed(p)'
  BY <1>1, <1>5 DEF BoundRelease, Noticed, GetRelease, registryTables
<1>8. TaskForm(p)'
  BY <1>1, <1>6, <1>7 DEF TaskForm, Checked, Found, Conditions
<1> QED BY <1>1, <1>4, <1>8, DecisionMoves DEF GetRelease

\* GetKey: the key vouches for the release that is installed.
LEMMA GetKeyKeepsInv ==
  ASSUME RegistryInv, NEW p \in Requests, GetKey(p)
  PROVE  RegistryInv'
<1> DEFINE r == task[p].release
<1>1. /\ r \in Releases /\ installed[r] # None /\ installed[r].artifact = task[p].artifact
      /\ task[p].missing \cap Held[r] = {}
      /\ task[p].operation = "run" => "enabled" \notin task[p].missing
      /\ task[p].step \in ReadingSteps
  BY DEF RegistryInv, TaskForm, BoundRelease, Noticed, Checked, ReadingSteps, GetKey
<1>2. "key" \in Held[r]
  BY <1>1, HeldConditions DEF GetKey
<1>3. CASE NeedsApproval(task[p].artifact)
  <2>1. GoOn(p, "keyed") /\ Allowed(p, "keyed")
    BY <1>1, <1>2, <1>3 DEF GetKey, Allowed
  <2> QED BY <2>1, GoOnKeepsInv DEF ReadingSteps
<1>4. CASE ~NeedsApproval(task[p].artifact)
  <2>1. "approval" \in Held[r]
    BY <1>1, <1>4, HeldConditions
  <2>2. GoOn(p, "trusted") /\ Allowed(p, "trusted")
    BY <1>1, <1>2, <1>4, <2>1 DEF GetKey, Allowed
  <2> QED BY <2>2, GoOnKeepsInv DEF ReadingSteps
<1> QED BY <1>3, <1>4

\* FindActiveApproval and RuntimeRelease.
LEMMA RunsKeepInv ==
  ASSUME RegistryInv, NEW p \in Requests, FindActiveApproval(p) \/ RuntimeRelease(p)
  PROVE  RegistryInv'
<1> DEFINE r == task[p].release
<1>1. CASE FindActiveApproval(p)
  <2>1. /\ r \in Releases /\ installed[r] # None /\ installed[r].artifact = task[p].artifact
        /\ task[p].missing \cap Held[r] = {}
        /\ task[p].operation = "run" => "enabled" \notin task[p].missing
        /\ "key" \notin task[p].missing
        /\ task[p].step \in ReadingSteps
    BY <1>1 DEF RegistryInv, TaskForm, BoundRelease, Noticed, Checked, ReadingSteps, FindActiveApproval
  <2>2. "approval" \in Held[r]
    BY <1>1, <2>1, HeldConditions DEF FindActiveApproval
  <2>3. GoOn(p, "trusted") /\ Allowed(p, "trusted")
    BY <1>1, <2>1, <2>2 DEF FindActiveApproval, Allowed
  <2> QED BY <2>3, GoOnKeepsInv DEF ReadingSteps
<1>2. CASE RuntimeRelease(p)
  <2>1. GoOn(p, "granted") /\ Allowed(p, "granted")
    BY <1>2 DEF RuntimeRelease, Allowed, RegistryInv, TaskForm, Checked, ReadingSteps
  <2> QED BY <2>1, GoOnKeepsInv DEF ReadingSteps
<1> QED BY <1>1, <1>2

\* CheckAuthority and LookForApproval.
LEMMA ApprovalReadsKeepInv ==
  ASSUME RegistryInv, NEW p \in Requests, CheckAuthority(p) \/ LookForApproval(p)
  PROVE  RegistryInv'
<1>1. CASE CheckAuthority(p)
  <2>1. /\ task[p].step \in ReadingSteps /\ task[p].release \in Releases
        /\ installed[task[p].release] # None
        /\ installed[task[p].release].artifact = task[p].artifact
    BY <1>1 DEF CheckAuthority, RegistryInv, TaskForm, BoundRelease, ReadingSteps
  <2>2. task[p].artifact \in Artifact
    BY <2>1 DEF RegistryInv, RegistryTypeOK, Release
  <2>3. task[p].artifact.key \in KeyIds
    BY <1>1, <2>2 DEF CheckAuthority, KeyIsEnabled, Artifact
  <2>4. GoOn(p, "authorized") /\ Allowed(p, "authorized")
    BY <1>1, <2>1, <2>3 DEF CheckAuthority, Allowed
  <2> QED BY <2>4, GoOnKeepsInv DEF ReadingSteps
<1>2. CASE LookForApproval(p)
  <2>1. GoOn(p, "unapproved") /\ Allowed(p, "unapproved")
    BY <1>2 DEF LookForApproval, Allowed, RegistryInv, TaskForm, ReadingSteps
  <2> QED BY <2>1, GoOnKeepsInv DEF ReadingSteps
<1> QED BY <1>1, <1>2

\* FindToRevoke and ReadHistory.
LEMMA RevocationReadsKeepInv ==
  ASSUME RegistryInv, NEW p \in Requests, FindToRevoke(p) \/ ReadHistory(p)
  PROVE  RegistryInv'
<1> DEFINE r == task[p].release
           active == ActiveApprovals(r, task[p].artifact)
<1>1. CASE FindToRevoke(p) /\ active = {}
  <2>1. /\ r \in Releases /\ installed[r] # None /\ installed[r].artifact = task[p].artifact
        /\ task[p].missing \cap Held[r] = {} /\ task[p].step \in ReadingSteps
    BY <1>1 DEF RegistryInv, TaskForm, BoundRelease, Noticed, ReadingSteps, FindToRevoke
  <2>2. "unapproved" \in Held[r]
    BY <1>1, <2>1, HeldConditions
  <2>3. GoOn(p, "unmatched") /\ Allowed(p, "unmatched")
    BY <1>1, <2>1, <2>2 DEF FindToRevoke, Allowed
  <2> QED BY <2>3, GoOnKeepsInv DEF ReadingSteps
<1>2. CASE FindToRevoke(p) /\ active # {}
  <2>1. PICK a \in active : /\ task' = [task EXCEPT ![p] = [@ EXCEPT !.step = "found", !.approval = a]]
                            /\ UNCHANGED registryTables
    BY <1>2 DEF FindToRevoke
  <2>2. /\ a \in ApprovalIds /\ approval[a] # None
        /\ approval[a] = [release |-> r, digest |-> task[p].artifact.digest,
                          authority |-> task[p].artifact.key, active |-> TRUE]
    BY <2>1 DEF ActiveApprovals
  <2>3. task[p] \in Task
    BY DEF RegistryInv, RegistryTypeOK
  <2>4. /\ task'[p] = [task[p] EXCEPT !.step = "found", !.approval = a]
        /\ \A q \in Requests \ {p} : task'[q] = task[q]
    BY <2>1 DEF RegistryInv, RegistryTypeOK
  <2>5. /\ task'[p].step = "found" /\ task'[p].operation = task[p].operation
        /\ task'[p].release = r /\ task'[p].artifact = task[p].artifact
        /\ task'[p].approval = a /\ task'[p].missing = task[p].missing /\ task'[p] \in Task
    BY <2>2, <2>3, <2>4 DEF Task
  <2>6. task' \in [Requests -> Task]
    BY <2>1, <2>5 DEF RegistryInv, RegistryTypeOK
  <2>7. BoundRelease(p)' /\ Noticed(p)'
    <3>1. Held' = Held
      BY <2>1 DEF Held, registryTables, KeyAdmits, KeyIsEnabled, Verifies, NeedsApproval, ActiveApprovals
    <3> QED BY <1>2, <2>1, <2>5, <3>1
            DEF RegistryInv, TaskForm, BoundRelease, Noticed, ReadingSteps, FindToRevoke, registryTables
  <2>8. Names(a, p)' /\ approval'[a].active
    BY <2>1, <2>2, <2>5 DEF Names, registryTables
  <2>9. TaskForm(p)'
    BY <2>2, <2>5, <2>7, <2>8 DEF TaskForm, Checked, Found, Names
  <2> QED BY <2>1, <2>4, <2>6, <2>9, DecisionMoves
<1>3. CASE ReadHistory(p)
  <2>1. GoOn(p, "revoked") /\ Allowed(p, "revoked")
    BY <1>3 DEF ReadHistory, Allowed, RegistryInv, TaskForm, Found, ReadingSteps
  <2> QED BY <2>1, GoOnKeepsInv DEF ReadingSteps
<1> QED BY <1>1, <1>2, <1>3

-----------------------------------------------------------------------------
(* Approvals *)

\* CreateApproval
LEMMA CreateApprovalKeepsInv ==
  ASSUME RegistryInv, NEW p \in Requests, NEW a \in ApprovalIds, CreateApproval(p, a)
  PROVE  RegistryInv'
<1> DEFINE r == task[p].release
           new == [release |-> r, digest |-> task[p].artifact.digest,
                   authority |-> task[p].artifact.key, active |-> TRUE]
<1>1. r \in Releases /\ installed[r] # None /\ installed[r].artifact = task[p].artifact
      /\ task[p].artifact.key \in KeyIds
  BY DEF RegistryInv, TaskForm, BoundRelease, ReadingSteps, CreateApproval
<1>2. task[p].artifact.digest \in Digests
  <2>1. installed[r] \in Release
    BY <1>1 DEF RegistryInv, RegistryTypeOK
  <2> QED BY <1>1, <2>1 DEF Release, Artifact
<1>3. new \in Approval
  BY <1>1, <1>2 DEF Approval
<1>4. /\ approval[a] = None /\ approval' = [approval EXCEPT ![a] = new]
      /\ approval' \in [ApprovalIds -> Approval \cup {None}]
  BY <1>3 DEF CreateApproval, RegistryInv, RegistryTypeOK
<1>5. TablesGrow
  BY <1>4 DEF TablesGrow, CreateApproval, RegistryInv, RegistryTypeOK
<1>6. ActiveIsUnique'
  <2>1. ASSUME NEW b \in ApprovalIds, b # a, approval[b] # None, approval[b].active,
               approval[b].release = r, approval[b].digest = task[p].artifact.digest,
               approval[b].authority = task[p].artifact.key
        PROVE  FALSE
    <3>1. approval[b] \in Approval
      BY <2>1 DEF RegistryInv, RegistryTypeOK
    <3>2. approval[b] = new
      BY <2>1, <3>1 DEF Approval
    <3>3. b \in ActiveApprovals(r, task[p].artifact)
      BY <2>1, <3>2 DEF ActiveApprovals
    <3> QED BY <3>3 DEF CreateApproval, MayApprove
  <2>2. \A b \in ApprovalIds \ {a} : approval'[b] = approval[b]
    BY <1>4 DEF RegistryInv, RegistryTypeOK
  <2>3. approval'[a] = new
    BY <1>4 DEF RegistryInv, RegistryTypeOK
  <2> QED BY <2>1, <2>2, <2>3 DEF ActiveIsUnique, RegistryInv
<1> QED BY <1>4, <1>5, <1>6, DoneTasks, ShownRelease DEF CreateApproval, RegistryInv, RegistryTypeOK

\* RevokeApproval of an approval that is active: it was the only one.
LEMMA RevokeActiveKeepsInv ==
  ASSUME RegistryInv, NEW p \in Requests, RevokeApproval(p), approval[task[p].approval].active
  PROVE  RegistryInv'
<1> DEFINE a == task[p].approval
           r == task[p].release
           tasks == [task EXCEPT ![p] = [@ EXCEPT !.step = "revoked"]]
<1>1. a \in ApprovalIds /\ Names(a, p) /\ approval[a] \in Approval /\ BoundRelease(p)
  BY DEF RegistryInv, RegistryTypeOK, TaskForm, Found, Names, ReadingSteps, RevokeApproval
<1>2. /\ UNCHANGED <<keyRow, installed>> /\ Remember(tasks)
      /\ approval' = [approval EXCEPT ![a] = [@ EXCEPT !.active = FALSE]]
  BY DEF RevokeApproval
<1>3. /\ approval'[a] = [approval[a] EXCEPT !.active = FALSE] /\ approval'[a] \in Approval
      /\ \A b \in ApprovalIds \ {a} : approval'[b] = approval[b]
      /\ approval' \in [ApprovalIds -> Approval \cup {None}]
  BY <1>1, <1>2 DEF RegistryInv, RegistryTypeOK, Approval
<1>4. /\ ~approval'[a].active /\ approval'[a].release = approval[a].release
      /\ approval'[a].digest = approval[a].digest /\ approval'[a].authority = approval[a].authority
      /\ approval'[a] # None
  BY <1>1, <1>3, RowsAreRows DEF Approval
<1>5. TablesGrow
  BY <1>1, <1>2, <1>3, <1>4 DEF TablesGrow, RegistryInv, ActiveIsUnique, Names
<1>6. ActiveIsUnique'
  <2> SUFFICES ASSUME NEW b \in ApprovalIds, NEW c \in ApprovalIds,
                      approval'[b] # None, approval'[c] # None,
                      approval'[b].active, approval'[c].active,
                      approval'[b].release = approval'[c].release,
                      approval'[b].digest = approval'[c].digest,
                      approval'[b].authority = approval'[c].authority
               PROVE  b = c
    BY DEF ActiveIsUnique
  <2>1. b # a /\ c # a
    BY <1>4
  <2>2. approval[b] = approval'[b] /\ approval[c] = approval'[c]
    BY <1>3, <2>1
  <2> QED BY <2>2 DEF ActiveIsUnique, RegistryInv
<1>7. tasks \in [Requests -> Task] /\ tasks[p] = [task[p] EXCEPT !.step = "revoked"]
      /\ \A q \in Requests \ {p} : tasks[q] = task[q]
  BY DEF RegistryInv, RegistryTypeOK, Task
<1>8. RegistryTypeOK'
  <2>1. \A q \in Requests : task'[q] \in Task
    BY <1>2, <1>7, Remembered
  <2>2. task' = [q \in Requests |-> task'[q]]
    BY <1>2 DEF Remember
  <2> QED BY <1>2, <1>3, <2>1, <2>2 DEF RegistryTypeOK, RegistryInv
<1>9. ASSUME NEW q \in Requests
      PROVE  TaskForm(q)'
  <2>1. CASE q # p
    <3>1. Remembers(q)
      BY <1>2, <1>7, <2>1, Remembered DEF Remembers
    <3> QED BY <1>5, <3>1, Later DEF RegistryInv
  <2>2. CASE q = p
    <3>0. /\ task[p] \in Task /\ tasks[p].step = "revoked"
          /\ tasks[p].release = r /\ tasks[p].artifact = task[p].artifact
      BY <1>7 DEF RegistryInv, RegistryTypeOK, Task
    <3>1. /\ task'[p].step = "revoked"
          /\ task'[p].release = r /\ task'[p].artifact = task[p].artifact
          /\ \A s \in Releases : r = s => task'[p].missing \cap Held'[s] = {}
      <4>1. /\ task'[p].step = tasks[p].step
            /\ task'[p].release = tasks[p].release /\ task'[p].artifact = tasks[p].artifact
            /\ \A s \in Releases : tasks[p].release = s => task'[p].missing \cap Held'[s] = {}
        BY <1>2, <1>7, Remembered
      <4> HIDE DEF tasks
      <4> QED BY <3>0, <4>1
    <3>2. r \in Releases /\ installed'[r] # None /\ installed'[r].artifact = task[p].artifact
      BY <1>1, <1>2 DEF BoundRelease
    <3>3. ActiveApprovals(r, task[p].artifact)' = {}
      <4> SUFFICES ASSUME NEW b \in ApprovalIds, approval'[b] # None,
                          approval'[b] = [release |-> task'[p].release,
                              digest |-> task'[p].artifact.digest,
                              authority |-> task'[p].artifact.key, active |-> TRUE]
                   PROVE  FALSE
        BY DEF ActiveApprovals
      <4> QED BY <1>1, <1>3, <1>4, <3>1 DEF Names, ActiveIsUnique, RegistryInv
    <3>4. "unapproved" \in Held'[r]
      BY <3>1, <3>2, <3>3 DEF Held, Conditions, ActiveApprovals
    <3>5. "unapproved" \notin task'[p].missing
      BY <3>1, <3>2, <3>4
    <3> QED BY <2>2, <3>1, <3>2, <3>5 DEF TaskForm, BoundRelease, Noticed, Checked, Found
  <2> QED BY <2>1, <2>2
<1> QED BY <1>6, <1>8, <1>9 DEF RegistryInv

\* RevokeApproval, also of an approval that another request has revoked meanwhile.
LEMMA RevokeKeepsInv ==
  ASSUME RegistryInv, NEW p \in Requests, RevokeApproval(p)
  PROVE  RegistryInv'
<1>1. CASE approval[task[p].approval].active
  BY <1>1, RevokeActiveKeepsInv
<1>2. CASE ~approval[task[p].approval].active
  <2>1. GoOn(p, "unmatched") /\ task[p].step = "found" /\ "unapproved" \notin task[p].missing
    BY <1>2 DEF RevokeApproval, RegistryInv, TaskForm, Found
  <2> QED BY <2>1, GoOnKeepsInv DEF Allowed, ReadingSteps
<1> QED BY <1>1, <1>2

-----------------------------------------------------------------------------
(* The invariant *)

\* Nothing is stored and nobody asks.
LEMMA RegistryInitInv == RegistryInit => RegistryInv
<1> SUFFICES ASSUME RegistryInit PROVE RegistryInv
  OBVIOUS
<1>1. RegistryTypeOK
  BY RegistryAssumption DEF RegistryInit, RegistryTypeOK, NoTask, Task
<1>2. ActiveIsUnique
  BY DEF RegistryInit, ActiveIsUnique
<1>3. \A p \in Requests : TaskForm(p)
  BY NoTaskForm DEF RegistryInit
<1> QED BY <1>1, <1>2, <1>3 DEF RegistryInv

\* Every step keeps the invariant.
LEMMA RegistryNextInv == RegistryInv /\ [RegistryNext]_registryVars => RegistryInv'
<1> SUFFICES ASSUME RegistryInv, [RegistryNext]_registryVars PROVE RegistryInv'
  OBVIOUS
<1>1. CASE UNCHANGED registryVars
  <2>1. RegistryTypeOK' /\ ActiveIsUnique'
    BY <1>1 DEF RegistryInv, RegistryTypeOK, ActiveIsUnique, registryVars
  <2>2. \A p \in Requests : TaskForm(p)'
    BY <1>1, OtherTablesRest DEF registryVars, registryTables, RegistryInv
  <2> QED BY <2>1, <2>2 DEF RegistryInv
<1>2. ASSUME NEW offer \in KeyOffers, RegisterVerificationKey(offer) PROVE RegistryInv'
  BY <1>2, RegisterKeyKeepsInv
<1>3. ASSUME NEW k \in KeyIds, NEW enabled \in BOOLEAN, SetVerificationKeyEnabled(k, enabled)
      PROVE  RegistryInv'
  BY <1>3, SetKeyKeepsInv
<1>4. ASSUME NEW r \in Releases, Disable(r) PROVE RegistryInv'
  BY <1>4, DisableKeepsInv
<1>5. ASSUME NEW p \in Requests, NEW package \in Packages, BeginRegister(p, package) PROVE RegistryInv'
  BY <1>5, BeginRegisterKeepsInv
<1>6. ASSUME NEW p \in Requests, RegisterRelease(p) PROVE RegistryInv'
  BY <1>6, RegisterReleaseKeepsInv
<1>7. ASSUME NEW p \in Requests, NEW operation \in {"run", "enable", "approve", "revoke"},
             NEW r \in Releases, GetRelease(p, operation, r)
      PROVE  RegistryInv'
  BY <1>7, GetReleaseKeepsInv
<1>8. ASSUME NEW p \in Requests, GetKey(p) PROVE RegistryInv'
  BY <1>8, GetKeyKeepsInv
<1>9. ASSUME NEW p \in Requests, FindActiveApproval(p) \/ RuntimeRelease(p) PROVE RegistryInv'
  BY <1>9, RunsKeepInv
<1>10. ASSUME NEW p \in Requests, Enable(p) PROVE RegistryInv'
  BY <1>10, EnableKeepsInv
<1>11. ASSUME NEW p \in Requests, CheckAuthority(p) \/ LookForApproval(p) PROVE RegistryInv'
  BY <1>11, ApprovalReadsKeepInv
<1>12. ASSUME NEW p \in Requests, NEW a \in ApprovalIds, CreateApproval(p, a) PROVE RegistryInv'
  BY <1>12, CreateApprovalKeepsInv
<1>13. ASSUME NEW p \in Requests, FindToRevoke(p) \/ ReadHistory(p) PROVE RegistryInv'
  BY <1>13, RevocationReadsKeepInv
<1>14. ASSUME NEW p \in Requests, RevokeApproval(p) PROVE RegistryInv'
  BY <1>14, RevokeKeepsInv
<1>15. ASSUME NEW p \in Requests, EndTask(p) PROVE RegistryInv'
  BY <1>15, EndTaskKeepsInv
<1> QED BY <1>1, <1>2, <1>3, <1>4, <1>5, <1>6, <1>7, <1>8, <1>9, <1>10, <1>11, <1>12, <1>13, <1>14,
          <1>15 DEF RegistryNext

\* The invariant holds throughout.
LEMMA RegistryInvHolds == RegistrySpec => []RegistryInv
BY RegistryInitInv, RegistryNextInv, PTL DEF RegistrySpec

\* Keys, releases, approvals and the requests of Registry keep their types.
THEOREM RegistryTypeCorrect == RegistrySpec => []RegistryTypeOK
<1>1. RegistryInv => RegistryTypeOK
  BY DEF RegistryInv
<1> QED BY <1>1, RegistryInvHolds, PTL

\* RuntimeRelease lets a release run only if, since the request came, it was enabled,
\* its key vouched for it, and the approval it needs was active.
THEOREM GrantsAreCurrent == RegistrySpec => []RunsAreFresh
<1>1. RegistryInv => RunsAreFresh
  BY DEF RegistryInv, TaskForm, Checked, RunsAreFresh
<1> QED BY <1>1, RegistryInvHolds, PTL

\* RevokeApproval reports success only if, since the request came, its release was
\* without an approval for a moment.
THEOREM RevocationsAreReal == RegistrySpec => []RevocationsTakeEffect
<1>1. RegistryInv => RevocationsTakeEffect
  BY DEF RegistryInv, TaskForm, Found, RevocationsTakeEffect
<1> QED BY <1>1, RegistryInvHolds, PTL

-----------------------------------------------------------------------------
(***************************************************************************)
(* The placements of a dashboard                                           *)
(*                                                                         *)
(* A move holds the rows that it has listed, so that no other move holds   *)
(* one of them, and writes positions beyond the offset before it writes    *)
(* the final ones.  The invariant says which positions a move has written  *)
(* so far: the two halves of an order never meet.                          *)
(***************************************************************************)

\* A row was drawn before it was stored, a listed request knows its placement, an order is
\* shorter than the offset of a move, and no two moves hold the same row.
RowsWereDrawn == \A w \in Placements : placement[w] # None => w \in drawn

OrderForm(p) ==
    /\ form[p].step = "listed" => form[p].placement \in Placements
    /\ Len(form[p].order) <= Offset

RowsStay(p) ==
    form[p].step = "locked" => \A w \in ToSet(form[p].order) :
        placement[w] # None /\ placement[w].revision = form[p].revisions[w]

MovesExclude ==
    \A p, q \in Requests : p # q /\ form[p].step = "locked" /\ form[q].step = "locked" =>
        ToSet(form[p].order) \cap ToSet(form[q].order) = {}

PositionsDiffer ==
    \A v, w \in Placed : placement[v].position = placement[w].position => v = w

DashboardInv ==
    /\ DashboardTypeOK
    /\ RowsWereDrawn /\ PositionsDiffer /\ MovesExclude
    /\ \A p \in Requests : OrderForm(p) /\ RowsStay(p)

-----------------------------------------------------------------------------
(* Numbers and sequences *)

\* A finite set of numbers has a largest.
LEMMA LargestExists ==
  ASSUME NEW S \in SUBSET Nat, IsFiniteSet(S), S # {}
  PROVE  Max(S) \in S /\ \A n \in S : n <= Max(S)
<1> DEFINE Above(n) == {m \in S : n < m}
           T == {Cardinality(Above(n)) : n \in S}
<1>1. \A n \in S : IsFiniteSet(Above(n)) /\ Cardinality(Above(n)) \in Nat
  <2> TAKE n \in S
  <2>1. IsFiniteSet(Above(n))
    <3>1. Above(n) \in SUBSET S
      OBVIOUS
    <3> HIDE DEF Above
    <3> QED BY <3>1, FS_Subset
  <2> HIDE DEF Above
  <2> QED BY <2>1, FS_CardinalityType
<1>2. T \in SUBSET Nat /\ T # {}
  BY <1>1
<1>3. PICK c \in T : \A d \in T : ~(<<d, c>> \in OpToRel(<, Nat))
  <2> HIDE DEF T
  <2> QED BY <1>2, NatLessThanWellFounded, WFMin
<1>4. PICK n \in S : c = Cardinality(Above(n))
  BY <1>3
<1>5. \A m \in S : m <= n
  <2> SUFFICES ASSUME NEW m \in S, n < m PROVE FALSE
    BY <1>4
  <2>1. Above(m) \in SUBSET Above(n) /\ m \in Above(n) /\ m \notin Above(m)
    <3>1. \A k \in S : m < k => n < k
      OBVIOUS
    <3>2. ~(m < m)
      OBVIOUS
    <3> QED BY <3>1, <3>2
  <2>2. Cardinality(Above(m)) \in T
    OBVIOUS
  <2> HIDE DEF Above, T
  <2>3. Cardinality(Above(m)) <= Cardinality(Above(n)) /\ Cardinality(Above(m)) # Cardinality(Above(n))
    BY <1>1, <2>1, FS_Subset
  <2>4. Cardinality(Above(m)) < Cardinality(Above(n))
    BY <1>1, <2>3
  <2> QED BY <1>1, <1>2, <1>3, <1>4, <2>2, <2>4 DEF OpToRel
<1>6. \E k \in S : \A m \in S : k >= m
  BY <1>5
<1> QED BY <1>6 DEF Max

\* The placements are finitely many, and fewer than the offset of a move.
LEMMA DashboardSizes ==
  /\ IsFiniteSet(Placements) /\ Cardinality(Placements) <= Offset /\ Offset \in Nat
  /\ Cardinality(Placements) \in Nat
BY DashboardAssumption, FS_CardinalityType

\* What is placed is finite, with finitely many positions.
LEMMA PlacedIsFinite ==
  ASSUME DashboardTypeOK
  PROVE  /\ IsFiniteSet(Placed) /\ Cardinality(Placed) \in Nat /\ Cardinality(Placed) <= Offset
         /\ Placed \subseteq Placements
         /\ \A w \in Placed : placement[w] \in Row
         /\ IsFiniteSet(Positions) /\ Positions \subseteq Nat
<1>1. Placed \in SUBSET Placements
  BY DEF Placed
<1>2. IsFiniteSet(Placed) /\ Cardinality(Placed) \in Nat /\ Cardinality(Placed) <= Offset
  BY <1>1, DashboardSizes, FS_Subset, FS_CardinalityType
<1>3. \A w \in Placed : placement[w] \in Row
  BY DEF Placed, DashboardTypeOK
<1>4. Positions \subseteq Nat
  BY <1>3 DEF Positions, Row
<1>5. IsFiniteSet(Positions)
  <2> DEFINE f == [w \in Placed |-> placement[w].position]
  <2>1. f \in Surjection(Placed, Positions)
    BY DEF Surjection, Positions
  <2> HIDE DEF f
  <2> QED BY <1>2, <2>1, FS_Surjection
<1> QED BY <1>1, <1>2, <1>3, <1>4, <1>5

\* The next position is a number.
LEMMA NextPositionIsNew ==
  ASSUME DashboardTypeOK
  PROVE  NextPosition \in Nat
<1>1. CASE Positions = {}
  BY <1>1 DEF NextPosition
<1>2. CASE Positions # {}
  <2>1. Max(Positions) \in Nat
    BY <1>2, PlacedIsFinite, LargestExists
  <2> QED BY <1>2, <2>1 DEF NextPosition
<1> QED BY <1>1, <1>2

\* A listing is a sequence of placements, and so is one with two entries swapped.
LEMMA SwappedListing ==
  ASSUME DashboardTypeOK, NEW order \in ListPlacements, NEW i \in DOMAIN order, NEW j \in Int
  PROVE  Swapped(order, i, j) \in Seq(Placements) /\ Len(Swapped(order, i, j)) <= Offset
<1>1. order \in [1..Cardinality(Placed) -> Placements]
  BY PlacedIsFinite DEF ListPlacements
<1>2. Swapped(order, i, j) \in [1..Cardinality(Placed) -> Placements]
  BY <1>1 DEF Swapped
<1>3. Cardinality(Placed) \in Nat /\ Cardinality(Placed) <= Offset
  BY PlacedIsFinite
<1> HIDE DEF Swapped
<1> QED BY <1>2, <1>3

-----------------------------------------------------------------------------
(* Steps of one request *)

\* A slot without a request.
LEMMA NoFormForm == NoForm \in Form /\ NoForm.step = "idle" /\ NoForm.order = <<>>
                    /\ NoForm.revisions = [w \in Placements |-> None]
<1>1. <<>> \in Seq(Placements)
  OBVIOUS
<1> QED BY <1>1 DEF NoForm, Form

\* A request that moves on, and has not locked anything yet.
LEMMA FormMoves ==
  ASSUME DashboardInv, NEW p \in Requests, NEW c \in Form, form' = [form EXCEPT ![p] = c],
         UNCHANGED <<placement, drawn>>, c.step # "locked", Len(c.order) <= Offset,
         c.step = "listed" => c.placement \in Placements
  PROVE  DashboardInv'
<1>0. form \in [Requests -> Form]
  BY DEF DashboardInv, DashboardTypeOK
<1>1. DashboardTypeOK'
  BY <1>0 DEF DashboardInv, DashboardTypeOK
<1>2. RowsWereDrawn' /\ PositionsDiffer'
  BY DEF DashboardInv, RowsWereDrawn, PositionsDiffer, Placed
<1>3. MovesExclude' /\ \A q \in Requests : OrderForm(q)' /\ RowsStay(q)'
  BY <1>0 DEF DashboardInv, MovesExclude, OrderForm, RowsStay
<1> QED BY <1>1, <1>2, <1>3 DEF DashboardInv

\* The statements that change rows end their request, or are one.
LEMMA RowsMove ==
  ASSUME DashboardInv, placement' \in [Placements -> Row \cup {None}], drawn' \in SUBSET Placements,
         RowsWereDrawn', PositionsDiffer',
         NEW p, form' = form \/ (p \in Requests /\ form' = Closed(p)),
         \A q \in Requests : RowsStay(q) /\ form[q].step = "locked" /\ (form' = form \/ q # p) =>
            \A w \in ToSet(form[q].order) :
               placement'[w] # None /\ placement'[w].revision = placement[w].revision
  PROVE  DashboardInv'
<1>0. form \in [Requests -> Form]
  BY DEF DashboardInv, DashboardTypeOK
<1>1. \A q \in Requests : (form'[q] = form[q] /\ (form' = form \/ q # p)) \/ form'[q] = NoForm
  BY <1>0 DEF Closed
<1>2. form' \in [Requests -> Form]
  BY <1>0, NoFormForm DEF Closed
<1>3. MovesExclude'
  BY <1>1, NoFormForm DEF DashboardInv, MovesExclude
<1>4. \A q \in Requests : OrderForm(q)'
  <2>1. Len(<<>>) <= Offset
    BY DashboardSizes
  <2> QED BY <1>1, <2>1, NoFormForm DEF DashboardInv, OrderForm
<1>5. \A q \in Requests : RowsStay(q)'
  BY <1>1, NoFormForm DEF DashboardInv, RowsStay
<1> QED BY <1>2, <1>3, <1>4, <1>5 DEF DashboardInv, DashboardTypeOK

\* The rows that a move has locked are among those that are locked.
LEMMA LockedRows ==
  ASSUME NEW q \in Requests, form[q].step = "locked"
  PROVE  ToSet(form[q].order) \subseteq Locked
BY DEF Locked

-----------------------------------------------------------------------------
\* Creation and update begin, a client looks, a move is ordered, a request ends.
LEMMA ReadsKeepInv ==
  ASSUME DashboardInv, NEW p \in Requests,
         \/ BeginCreate(p) \/ Observe(p) \/ EndForm(p)
         \/ \E w \in Placements, enabled \in BOOLEAN : BeginUpdate(p, w, enabled)
         \/ \E w \in Placements, delta \in {-1, 1} : Move(p, w, delta)
  PROVE  DashboardInv'
<1>0. /\ DashboardTypeOK /\ form[p] \in Form /\ OrderForm(p) /\ Len(<<>>) <= Offset
      /\ placement \in [Placements -> Row \cup {None}]
  BY DashboardSizes DEF DashboardInv, DashboardTypeOK
<1>1. CASE BeginCreate(p)
  <2> DEFINE c == [NoForm EXCEPT !.step = "positioned", !.position = NextPosition]
  <2>1. c \in Form /\ c.step = "positioned" /\ c.order = <<>>
    BY NextPositionIsNew, NoFormForm, <1>0 DEF Form, NoForm
  <2>2. form' = [form EXCEPT ![p] = c] /\ UNCHANGED <<placement, drawn>>
    BY <1>1 DEF BeginCreate
  <2> HIDE DEF c
  <2> QED BY <1>0, <2>1, <2>2, FormMoves
<1>2. CASE Observe(p)
  <2> DEFINE c == [NoForm EXCEPT !.step = "observed", !.revisions = RevisionsNow]
  <2>1. RevisionsNow \in [Placements -> Revisions \cup {None}]
    BY <1>0 DEF RevisionsNow, Row
  <2>2. c \in Form /\ c.step = "observed" /\ c.order = <<>>
    BY <2>1, NoFormForm DEF Form, NoForm
  <2>3. form' = [form EXCEPT ![p] = c] /\ UNCHANGED <<placement, drawn>>
    BY <1>2 DEF Observe
  <2> HIDE DEF c
  <2> QED BY <1>0, <2>2, <2>3, FormMoves
<1>3. CASE EndForm(p)
  BY <1>0, <1>3, NoFormForm, FormMoves DEF EndForm, Closed
<1>4. ASSUME NEW w \in Placements, NEW enabled \in BOOLEAN, BeginUpdate(p, w, enabled)
      PROVE  DashboardInv'
  <2> DEFINE seen == [NoForm.revisions EXCEPT ![w] = placement[w].revision]
             c == [NoForm EXCEPT !.step = "listed", !.placement = w, !.enabled = enabled, !.revisions = seen]
  <2>1. seen \in [Placements -> Revisions \cup {None}]
    BY <1>0, <1>4, NoFormForm DEF Row, BeginUpdate
  <2>2. form' = [form EXCEPT ![p] = c] /\ UNCHANGED <<placement, drawn>>
    BY <1>4 DEF BeginUpdate
  <2> HIDE DEF seen
  <2>3. c \in Form /\ c.step = "listed" /\ c.order = <<>> /\ c.placement = w
    BY <2>1, NoFormForm DEF Form, NoForm
  <2> HIDE DEF c
  <2> QED BY <1>0, <2>2, <2>3, FormMoves
<1>5. ASSUME NEW w \in Placements, NEW delta \in {-1, 1}, Move(p, w, delta)
      PROVE  DashboardInv'
  <2>0. PICK order \in ListPlacements : \E i \in DOMAIN order :
           form' = [form EXCEPT ![p] = [form[p] EXCEPT !.step = "ordered", !.order = Swapped(order, i, i + delta)]]
    BY <1>5 DEF Move
  <2>1. PICK i \in DOMAIN order :
           form' = [form EXCEPT ![p] = [form[p] EXCEPT !.step = "ordered", !.order = Swapped(order, i, i + delta)]]
    BY <2>0
  <2>2. i \in Int
    BY <1>0, PlacedIsFinite DEF ListPlacements
  <2> DEFINE next == Swapped(order, i, i + delta)
             c == [form[p] EXCEPT !.step = "ordered", !.order = next]
  <2>3. next \in Seq(Placements) /\ Len(next) <= Offset
    BY <1>0, <2>2, SwappedListing
  <2> HIDE DEF next
  <2>4. c \in Form /\ c.step = "ordered" /\ c.order = next
    BY <1>0, <2>3 DEF Form
  <2>5. form' = [form EXCEPT ![p] = c] /\ UNCHANGED <<placement, drawn>>
    BY <1>5, <2>1 DEF Move, next
  <2> HIDE DEF c
  <2> QED BY <2>3, <2>4, <2>5, FormMoves
<1> QED BY <1>1, <1>2, <1>3, <1>4, <1>5

\* A row is stored under a position that no row has.
LEMMA CreateKeepsInv ==
  ASSUME DashboardInv, NEW p \in Requests, NEW w \in Placements, CreateDashboardPlacement(p, w)
  PROVE  DashboardInv'
<1> DEFINE row == [position |-> form[p].position, enabled |-> TRUE, revision |-> 1]
<1>0. /\ placement \in [Placements -> Row \cup {None}] /\ drawn \in SUBSET Placements
      /\ form[p] \in Form /\ RowsWereDrawn /\ PositionsDiffer
  BY DEF DashboardInv, DashboardTypeOK
<1>1. row \in Row /\ row.position = form[p].position
  BY <1>0, DashboardAssumption DEF Row, Form, Revisions
<1>2. /\ placement' = [placement EXCEPT ![w] = row] /\ drawn' = drawn \cup {w} /\ form' = Closed(p)
      /\ w \notin drawn /\ form[p].position \notin Positions
  BY DEF CreateDashboardPlacement
<1> HIDE DEF row
<1>3. RowsWereDrawn' /\ placement' \in [Placements -> Row \cup {None}]
  BY <1>0, <1>1, <1>2 DEF RowsWereDrawn
<1>4. placement[w] = None
  BY <1>0, <1>2 DEF RowsWereDrawn
<1>5. PositionsDiffer'
  <2>1. \A v \in Placed : placement[v].position \in Positions /\ placement'[v] = placement[v]
    BY <1>0, <1>2, <1>4 DEF Placed, Positions
  <2>2. Placed' \subseteq Placed \cup {w} /\ placement'[w] = row
    BY <1>0, <1>2 DEF Placed
  <2> QED BY <1>0, <1>1, <1>2, <2>1, <2>2 DEF PositionsDiffer
<1>6. \A q \in Requests : RowsStay(q) /\ form[q].step = "locked" =>
         \A v \in ToSet(form[q].order) :
            placement'[v] # None /\ placement'[v].revision = placement[v].revision
  BY <1>0, <1>2, <1>4 DEF RowsStay
<1> QED BY <1>0, <1>2, <1>3, <1>5, <1>6, RowsMove

\* Updates and deletions wait for the rows that a move has locked.
LEMMA ChangeKeepsInv ==
  ASSUME DashboardInv, (\E p \in Requests : UpdateDashboardPlacement(p)) \/ \E w \in Placements : DeleteDashboardPlacement(w)
  PROVE  DashboardInv'
<1>0. /\ placement \in [Placements -> Row \cup {None}] /\ drawn \in SUBSET Placements
      /\ form \in [Requests -> Form] /\ RowsWereDrawn /\ PositionsDiffer
  BY DEF DashboardInv, DashboardTypeOK
<1>1. ASSUME NEW p \in Requests, UpdateDashboardPlacement(p) PROVE DashboardInv'
  <2> DEFINE w == form[p].placement
             row == [placement[w] EXCEPT !.enabled = form[p].enabled, !.revision = placement[w].revision + 1]
  <2>1. w \in Placements /\ placement[w] \in Row /\ form[p] \in Form
    BY <1>0, <1>1 DEF UpdateDashboardPlacement, DashboardInv, OrderForm
  <2>2. /\ placement' = [placement EXCEPT ![w] = row] /\ form' = Closed(p) /\ UNCHANGED drawn
        /\ w \notin Locked /\ placement[w].revision < MaxPlacementRevision
    BY <1>1 DEF UpdateDashboardPlacement
  <2>3. row \in Row /\ row.position = placement[w].position
    <3>1. placement[w].revision + 1 \in Revisions
      BY <2>1, <2>2, DashboardAssumption DEF Row, Revisions
    <3> QED BY <2>1, <3>1 DEF Row, Form
  <2> HIDE DEF w, row
  <2>4. row # None
    BY <2>3, DashboardAssumption
  <2>5. RowsWereDrawn' /\ placement' \in [Placements -> Row \cup {None}]
    BY <1>0, <2>1, <2>2, <2>3, DashboardAssumption DEF RowsWereDrawn
  <2>6. PositionsDiffer'
    BY <1>0, <2>1, <2>2, <2>3, DashboardAssumption DEF PositionsDiffer, Placed
  <2>7. \A q \in Requests : RowsStay(q) /\ form[q].step = "locked" =>
           \A v \in ToSet(form[q].order) :
              placement'[v] # None /\ placement'[v].revision = placement[v].revision
    BY <1>0, <2>2, LockedRows DEF RowsStay
  <2> QED BY <1>0, <1>1, <2>2, <2>5, <2>6, <2>7, RowsMove
<1>2. ASSUME NEW w \in Placements, DeleteDashboardPlacement(w) PROVE DashboardInv'
  <2>1. /\ placement' = [placement EXCEPT ![w] = None] /\ UNCHANGED <<drawn, form>> /\ w \notin Locked
    BY <1>2 DEF DeleteDashboardPlacement
  <2>2. RowsWereDrawn' /\ placement' \in [Placements -> Row \cup {None}]
    BY <1>0, <2>1 DEF RowsWereDrawn
  <2>3. PositionsDiffer'
    BY <1>0, <2>1 DEF PositionsDiffer, Placed
  <2>4. \A q \in Requests : RowsStay(q) /\ form[q].step = "locked" =>
           \A v \in ToSet(form[q].order) :
              placement'[v] # None /\ placement'[v].revision = placement[v].revision
    BY <1>0, <2>1, LockedRows DEF RowsStay
  <2> QED BY <1>0, <2>1, <2>2, <2>3, <2>4, RowsMove
<1> QED BY <1>1, <1>2

-----------------------------------------------------------------------------
(* Moves *)

\* A move locks what no other move has locked, as its client saw it.
LEMMA LockKeepsInv ==
  ASSUME DashboardInv, NEW p \in Requests, LockPlacements(p)
  PROVE  DashboardInv'
<1> DEFINE c == [form[p] EXCEPT !.step = "locked"]
<1>0. form \in [Requests -> Form] /\ form[p] \in Form
  BY DEF DashboardInv, DashboardTypeOK
<1>1. c \in Form /\ c.step = "locked" /\ c.order = form[p].order /\ c.revisions = form[p].revisions
  BY <1>0 DEF Form
<1>2. /\ form' = [form EXCEPT ![p] = c] /\ UNCHANGED <<placement, drawn>>
      /\ ToSet(form[p].order) \cap Locked = {}
      /\ \A w \in ToSet(form[p].order) : placement[w] # None /\ placement[w].revision = form[p].revisions[w]
  BY DEF LockPlacements
<1> HIDE DEF c
<1>3. form' \in [Requests -> Form] /\ form'[p] = c /\ \A q \in Requests : q # p => form'[q] = form[q]
  BY <1>0, <1>1, <1>2
<1>4. RowsWereDrawn' /\ PositionsDiffer'
  BY <1>2 DEF DashboardInv, RowsWereDrawn, PositionsDiffer, Placed
<1>5. MovesExclude'
  <2> SUFFICES ASSUME NEW q \in Requests, NEW r \in Requests, q # r,
                      form'[q].step = "locked", form'[r].step = "locked"
               PROVE  ToSet(form'[q].order) \cap ToSet(form'[r].order) = {}
    BY DEF MovesExclude
  <2>1. CASE q = p
    BY <1>1, <1>2, <1>3, <2>1, LockedRows
  <2>2. CASE r = p
    BY <1>1, <1>2, <1>3, <2>2, LockedRows
  <2>3. CASE q # p /\ r # p
    BY <1>3, <2>3 DEF DashboardInv, MovesExclude
  <2> QED BY <2>1, <2>2, <2>3
<1>6. \A q \in Requests : OrderForm(q)' /\ RowsStay(q)'
  <2> TAKE q \in Requests
  <2>1. CASE q = p
    BY <1>1, <1>2, <1>3, <2>1 DEF DashboardInv, OrderForm, RowsStay
  <2>2. CASE q # p
    BY <1>2, <1>3, <2>2 DEF DashboardInv, OrderForm, RowsStay
  <2> QED BY <2>1, <2>2
<1> QED BY <1>2, <1>3, <1>4, <1>5, <1>6 DEF DashboardInv, DashboardTypeOK

\* Numbers below the offset go to the rows of the order, those above it to all others.
LEMMA CommitOrderKeepsInv ==
  ASSUME DashboardInv, NEW p \in Requests, CommitOrder(p)
  PROVE  DashboardInv'
<1> DEFINE order == form[p].order
           Index(w) == CHOOSE i \in DOMAIN order : order[i] = w
<1>0. /\ placement \in [Placements -> Row \cup {None}] /\ drawn \in SUBSET Placements
      /\ form \in [Requests -> Form] /\ RowsWereDrawn /\ PositionsDiffer /\ MovesExclude
      /\ order \in Seq(Placements) /\ Len(order) <= Offset /\ Offset \in Nat
  BY DashboardSizes DEF DashboardInv, DashboardTypeOK, OrderForm, Form
<1>1. /\ form' = Closed(p) /\ UNCHANGED drawn /\ form[p].step = "locked"
      /\ \A w \in ToSet(order) \cap Placed : placement[w].revision < MaxPlacementRevision
      /\ placement' = [w \in Placements |->
          CASE placement[w] = None -> None
            [] placement[w] # None /\ w \in ToSet(order) -> Numbered(placement[w], Index(w) - 1)
            [] OTHER -> Shifted(placement[w])]
  BY DEF CommitOrder
<1>2. \A w \in ToSet(order) : Index(w) \in 1..Len(order) /\ order[Index(w)] = w
  BY <1>0 DEF ToSet
<1> HIDE DEF Index, order
<1>3. \A w \in Placements : placement[w] = None => placement'[w] = None
  BY <1>1
<1>4. ASSUME NEW w \in Placements, placement[w] # None, w \in ToSet(order)
      PROVE  /\ placement'[w] \in Row /\ placement'[w].position = Index(w) - 1
             /\ placement'[w].position < Offset
  <2>1. placement'[w] = [placement[w] EXCEPT !.position = Index(w) - 1, !.revision = placement[w].revision + 1]
    BY <1>1, <1>4 DEF Numbered
  <2>2. Index(w) - 1 \in Nat /\ Index(w) - 1 < Offset
    BY <1>0, <1>2, <1>4
  <2>3. placement[w] \in Row /\ placement[w].revision + 1 \in Revisions
    BY <1>0, <1>1, <1>4, DashboardAssumption DEF Row, Revisions, Placed
  <2> QED BY <2>1, <2>2, <2>3 DEF Row
<1>5. ASSUME NEW w \in Placements, placement[w] # None, w \notin ToSet(order)
      PROVE  /\ placement'[w] \in Row /\ placement'[w].position = placement[w].position + Offset
             /\ placement[w].position \in Nat
             /\ placement'[w].revision = placement[w].revision
  <2>1. placement'[w] = [placement[w] EXCEPT !.position = placement[w].position + Offset]
    BY <1>1, <1>5 DEF Shifted
  <2>2. placement[w] \in Row /\ placement[w].position \in Nat
    BY <1>0, <1>5 DEF Row
  <2> QED BY <1>0, <2>1, <2>2 DEF Row
<1>6. placement' \in [Placements -> Row \cup {None}]
  <2>1. \A w \in Placements : placement'[w] \in Row \cup {None}
    BY <1>3, <1>4, <1>5
  <2> QED BY <1>1, <2>1
<1>7. RowsWereDrawn'
  BY <1>0, <1>1, <1>3 DEF RowsWereDrawn
<1>8. PositionsDiffer'
  <2> SUFFICES ASSUME NEW v \in Placements, NEW w \in Placements, placement'[v] # None, placement'[w] # None,
                      placement'[v].position = placement'[w].position
               PROVE  v = w
    BY DEF PositionsDiffer, Placed
  <2>0. placement[v] # None /\ placement[w] # None
    BY <1>3
  <2>1. CASE v \in ToSet(order) /\ w \in ToSet(order)
    BY <1>0, <1>2, <1>4, <2>0, <2>1
  <2>2. CASE v \notin ToSet(order) /\ w \notin ToSet(order)
    BY <1>0, <1>5, <2>0, <2>2 DEF PositionsDiffer, Placed
  <2>3. CASE v \in ToSet(order) /\ w \notin ToSet(order)
    <3>1. placement'[v].position < Offset
      BY <1>4, <2>0, <2>3
    <3>2. placement'[w].position = placement[w].position + Offset /\ placement[w].position \in Nat
      BY <1>5, <2>0, <2>3
    <3> QED BY <1>0, <3>1, <3>2
  <2>4. CASE v \notin ToSet(order) /\ w \in ToSet(order)
    <3>1. placement'[w].position < Offset
      BY <1>4, <2>0, <2>4
    <3>2. placement'[v].position = placement[v].position + Offset /\ placement[v].position \in Nat
      BY <1>5, <2>0, <2>4
    <3> QED BY <1>0, <3>1, <3>2
  <2> QED BY <2>1, <2>2, <2>3, <2>4
<1>9. ASSUME NEW q \in Requests, RowsStay(q), form[q].step = "locked", q # p, NEW w \in ToSet(form[q].order)
      PROVE  placement'[w] # None /\ placement'[w].revision = placement[w].revision
  <2>1. w \in Placements /\ placement[w] # None
    <3>1. form[q].order \in Seq(Placements)
      BY <1>0 DEF Form
    <3> QED BY <1>9, <3>1 DEF ToSet, RowsStay
  <2>2. w \notin ToSet(order)
    BY <1>0, <1>1, <1>9 DEF MovesExclude, order
  <2> QED BY <1>5, <2>1, <2>2, DashboardAssumption
<1>10. form' # form
  BY <1>0, <1>1, NoFormForm DEF Closed
<1> QED BY <1>0, <1>1, <1>6, <1>7, <1>8, <1>9, <1>10, RowsMove

-----------------------------------------------------------------------------

\* Nothing is placed yet.
LEMMA DashboardInitInv == DashboardInit => DashboardInv
<1> SUFFICES ASSUME DashboardInit PROVE DashboardInv
  OBVIOUS
<1>1. placement = [w \in Placements |-> None] /\ drawn = {} /\ form = [p \in Requests |-> NoForm]
  BY DEF DashboardInit
<1>2. Len(<<>>) <= Offset
  BY DashboardSizes
<1> QED BY <1>1, <1>2, NoFormForm DEF DashboardInv, DashboardTypeOK, RowsWereDrawn, PositionsDiffer,
        Placed, MovesExclude, OrderForm, RowsStay

\* One step of every operation on the placements.
LEMMA DashboardNextInv == DashboardInv /\ [DashboardNext]_dashboardVars => DashboardInv'
<1> SUFFICES ASSUME DashboardInv, [DashboardNext]_dashboardVars PROVE DashboardInv'
  OBVIOUS
<1>1. CASE UNCHANGED dashboardVars
  BY <1>1 DEF dashboardVars, DashboardInv, DashboardTypeOK, RowsWereDrawn, PositionsDiffer, Placed,
     MovesExclude, OrderForm, RowsStay
<1>2. ASSUME NEW w \in Placements, DeleteDashboardPlacement(w) PROVE DashboardInv'
  BY <1>2, ChangeKeepsInv
<1>3. ASSUME NEW p \in Requests, BeginCreate(p) \/ Observe(p) \/ EndForm(p) PROVE DashboardInv'
  BY <1>3, ReadsKeepInv
<1>4. ASSUME NEW p \in Requests, NEW w \in Placements, CreateDashboardPlacement(p, w) PROVE DashboardInv'
  BY <1>4, CreateKeepsInv
<1>5. ASSUME NEW p \in Requests, NEW w \in Placements,
             (\E enabled \in BOOLEAN : BeginUpdate(p, w, enabled)) \/ \E delta \in {-1, 1} : Move(p, w, delta)
      PROVE  DashboardInv'
  BY <1>5, ReadsKeepInv
<1>6. ASSUME NEW p \in Requests, UpdateDashboardPlacement(p) PROVE DashboardInv'
  BY <1>6, ChangeKeepsInv
<1>7. ASSUME NEW p \in Requests, LockPlacements(p) PROVE DashboardInv'
  BY <1>7, LockKeepsInv
<1>8. ASSUME NEW p \in Requests, CommitOrder(p) PROVE DashboardInv'
  BY <1>8, CommitOrderKeepsInv
<1> QED BY <1>1, <1>2, <1>3, <1>4, <1>5, <1>6, <1>7, <1>8 DEF DashboardNext

\* The invariant, along every behaviour.
LEMMA DashboardInvHolds == DashboardSpec => []DashboardInv
BY DashboardInitInv, DashboardNextInv, PTL DEF DashboardSpec

\* Every behaviour of the dashboard keeps the types of its table.
THEOREM DashboardTypeCorrect == DashboardSpec => []DashboardTypeOK
<1>1. DashboardInv => DashboardTypeOK
  BY DEF DashboardInv
<1> QED BY <1>1, DashboardInvHolds, PTL

\* No two placements of a dashboard share a position, whatever moves run at once: the two
\* phases of a move pass through positions that no other row has.
THEOREM DashboardIsOrdered == DashboardSpec => []OrderIsTotal
<1>1. DashboardInv => OrderIsTotal
  BY DEF DashboardInv, PositionsDiffer, RowsStay, OrderIsTotal
<1> QED BY <1>1, DashboardInvHolds, PTL

-----------------------------------------------------------------------------
(***************************************************************************)
(* The runtime of the widgets                                              *)
(*                                                                         *)
(* A request misses a condition as long as no state since it began has     *)
(* held it.  The reads of a launch come one after the other, and each      *)
(* finds one condition; a token belongs to an instance for good.           *)
(***************************************************************************)

\* What an access has been through: nothing that holds now is missed, the release has been
\* seen to run once it is resolved, and a launch begins where the placement is shown.
AccessForm(p) ==
    LET a == access[p] IN
    /\ runnable => "release" \notin a.missing
    /\ shown => "placement" \notin a.missing
    /\ a.step \in {"resolved", "found", "granted"} => "release" \notin a.missing
    /\ a.step = "loaded" => a.instance = None
    /\ a.step \in {"verified", "found"} => a.instance # None
    /\ a.step # "served" /\ a.instance # None => token[a.instance] # None
    /\ a.kind = "DASHBOARD_WIDGET" =>
          /\ a.step \in {"loaded", "resolved"} /\ a.instance = None => "placement" \notin a.missing
          /\ a.step = "granted" => "placement" \notin a.missing

RuntimeInv == RuntimeTypeOK /\ \A p \in Requests : AccessForm(p)

-----------------------------------------------------------------------------

\* A slot without an access.
LEMMA NoAccessForm == ASSUME NEW p \in Requests, access[p] = NoAccess PROVE NoAccess \in Access /\ AccessForm(p)
BY DEF AccessForm, NoAccess, Access, WidgetKinds

\* Steps of one access, which may give out a token.
LEMMA AccessMoves ==
  ASSUME RuntimeInv, NEW p \in Requests, NEW a \in Access, UNCHANGED <<runnable, shown>>,
         access' = [access EXCEPT ![p] = a], AccessForm(p)',
         token' \in [Instances -> Token \cup {None}], context' \in [Instances -> WidgetKinds \cup {None}],
         \A i \in Instances : token[i] # None => token'[i] # None
  PROVE  RuntimeInv'
<1>1. RuntimeTypeOK'
  BY DEF RuntimeInv, RuntimeTypeOK
<1>2. \A q \in Requests : AccessForm(q)'
  <2> TAKE q \in Requests
  <2>1. access[q] \in Access
    BY DEF RuntimeInv, RuntimeTypeOK
  <2>2. CASE q # p
    BY <2>1, <2>2 DEF RuntimeInv, RuntimeTypeOK, AccessForm, Access
  <2> QED BY <2>2
<1> QED BY <1>1, <1>2 DEF RuntimeInv

\* What an administrator changes is noticed by every access in flight.
LEMMA AdministerKeepsInv == ASSUME RuntimeInv, Administer PROVE RuntimeInv'
<1>1. access \in [Requests -> Access] /\ runnable \in BOOLEAN /\ shown \in BOOLEAN
  BY DEF RuntimeInv, RuntimeTypeOK
<1>2. runnable' \in BOOLEAN /\ shown' \in BOOLEAN
  BY <1>1 DEF Administer
<1>3. ASSUME NEW p \in Requests
      PROVE  /\ access'[p] \in Access /\ AccessForm(p)'
  <2>1. access'[p] = [access[p] EXCEPT !.missing = access[p].missing \cap Lacking']
    BY <1>3 DEF Administer
  <2>2. AccessForm(p) /\ access[p] \in Access
    BY <1>1 DEF RuntimeInv
  <2>3. access'[p] \in Access
    BY <2>1, <2>2 DEF Access
  <2>4. /\ access'[p].step = access[p].step /\ access'[p].kind = access[p].kind
        /\ access'[p].instance = access[p].instance
        /\ access'[p].missing = access[p].missing \cap Lacking'
    BY <2>1, <2>2 DEF Access
  <2>5. (runnable' => "release" \notin Lacking') /\ (shown' => "placement" \notin Lacking')
    BY DEF Lacking
  <2> QED BY <2>2, <2>3, <2>4, <2>5 DEF AccessForm, Administer
<1>4. DOMAIN access' = Requests /\ access' = [p \in Requests |-> access'[p]]
  BY DEF Administer
<1> QED BY <1>2, <1>3, <1>4 DEF RuntimeInv, RuntimeTypeOK, Administer

\* A token that expires is still the token of its instance.
LEMMA ExpireTokenKeepsInv == ASSUME RuntimeInv, NEW i \in Instances, ExpireToken(i) PROVE RuntimeInv'
<1>1. token \in [Instances -> Token \cup {None}] /\ token[i] \in Token
  BY DEF RuntimeInv, RuntimeTypeOK, ExpireToken
<1>2. [token[i] EXCEPT !.live = FALSE] \in Token
  BY <1>1 DEF Token
<1>3. [token[i] EXCEPT !.live = FALSE] # None
  BY <1>2, RuntimeAssumption
<1>4. RuntimeTypeOK' /\ \A j \in Instances : token[j] # None => token'[j] # None
  BY <1>1, <1>2, <1>3 DEF ExpireToken, RuntimeInv, RuntimeTypeOK
<1>5. ASSUME NEW p \in Requests PROVE AccessForm(p)'
  <2>1. access[p] \in Access
    BY DEF RuntimeInv, RuntimeTypeOK
  <2> QED BY <1>4, <2>1 DEF ExpireToken, RuntimeInv, AccessForm, Access
<1> QED BY <1>4, <1>5 DEF RuntimeInv

\* A restart forgets contexts and accesses, and keeps the tokens.
LEMMA RestartKeepsInv == ASSUME RuntimeInv, Restart PROVE RuntimeInv'
BY DEF RuntimeInv, Restart, RuntimeTypeOK, AccessForm, NoAccess, Access, WidgetKinds

\* Steps that give out nothing.
LEMMA LooksKeepInv ==
  ASSUME RuntimeInv, NEW p \in Requests,
         \/ Resolve(p) \/ ResolveRefresh(p) \/ FindContext(p) \/ EndAccess(p)
         \/ \E kind \in WidgetKinds : Prepare(p, kind)
         \/ \E i \in Instances : VerifyToken(p, i) \/ ReadContext(p, i)
  PROVE  RuntimeInv'
<1> DEFINE a == access'[p]
<1>1. /\ access \in [Requests -> Access] /\ AccessForm(p)
      /\ token \in [Instances -> Token \cup {None}] /\ context \in [Instances -> WidgetKinds \cup {None}]
      /\ Lacking \in SUBSET {"release", "placement"} /\ access[p] \in Access
  BY DEF RuntimeInv, RuntimeTypeOK, Lacking
<1>2. (runnable <=> "release" \notin Lacking) /\ (shown <=> "placement" \notin Lacking)
  BY DEF Lacking
<1>3. a \in Access /\ AccessForm(p)' /\ access' = [access EXCEPT ![p] = a] /\ UNCHANGED <<runnable, shown, token, context>>
  <2>1. CASE Resolve(p) \/ ResolveRefresh(p)
    <3>1. /\ access[p].step \in {"loaded", "verified"} /\ runnable /\ Proceed(p, "resolved")
      BY <2>1 DEF Resolve, ResolveRefresh
    <3>2. a = [access[p] EXCEPT !.step = "resolved"] /\ UNCHANGED <<runnable, shown, token, context>>
      BY <1>1, <3>1 DEF Proceed
    <3> QED BY <1>1, <3>1, <3>2 DEF Proceed, Access, AccessForm
  <2>2. CASE FindContext(p)
    <3>1. HasContext(p) /\ context[access[p].instance] \in WidgetKinds
      BY <1>1, <2>2 DEF FindContext, HasContext, Access
    <3>2. /\ access' = [access EXCEPT ![p] = a] /\ UNCHANGED <<runnable, shown, token, context>>
          /\ a = [access[p] EXCEPT !.step = "found", !.answer = context[access[p].instance]]
      BY <1>1, <2>2 DEF FindContext
    <3>3. a \in Access /\ a.step = "found" /\ a.kind = access[p].kind /\ a.instance = access[p].instance /\ a.missing = access[p].missing
      BY <1>1, <3>1, <3>2 DEF Access
    <3>4. access[p].step = "resolved" /\ access[p].instance # None
      BY <2>2 DEF FindContext
    <3> HIDE DEF a
    <3>5. access'[p] = a
      BY <1>1, <3>2
    <3> QED BY <1>1, <3>2, <3>3, <3>4, <3>5 DEF AccessForm
  <2>3. CASE EndAccess(p)
    <3>1. a = NoAccess
      BY <1>1, <2>3 DEF EndAccess
    <3> QED BY <1>1, <2>3, <3>1, RuntimeAssumption DEF EndAccess, NoAccess, Access, AccessForm, WidgetKinds
  <2>4. ASSUME NEW kind \in WidgetKinds, Prepare(p, kind) PROVE <1>3
    <3>1. a = [step |-> "loaded", kind |-> kind, instance |-> None, answer |-> None, missing |-> Lacking]
      BY <1>1, <2>4 DEF Prepare
    <3> QED BY <1>1, <1>2, <2>4, <3>1 DEF Prepare, Access, AccessForm
  <2>5. ASSUME NEW i \in Instances, VerifyToken(p, i) PROVE <1>3
    <3>1. a = [step |-> "verified", kind |-> token[i].kind, instance |-> i, answer |-> None, missing |-> Lacking]
      BY <1>1, <2>5 DEF VerifyToken
    <3>2. token[i] \in Token /\ i # None
      BY <1>1, <2>5, RuntimeAssumption DEF VerifyToken
    <3> QED BY <1>1, <1>2, <2>5, <3>1, <3>2 DEF VerifyToken, Access, AccessForm, Token
  <2>6. ASSUME NEW i \in Instances, ReadContext(p, i) PROVE <1>3
    <3>1. a = [step |-> "served", kind |-> token[i].kind, instance |-> i, answer |-> context[i], missing |-> {}]
      BY <1>1, <2>6 DEF ReadContext
    <3>2. token[i] \in Token /\ i # None
      BY <1>1, <2>6, RuntimeAssumption DEF ReadContext
    <3> QED BY <1>1, <2>6, <3>1, <3>2 DEF ReadContext, Access, AccessForm, Token
  <2> QED BY <2>1, <2>2, <2>3, <2>4, <2>5, <2>6
<1> HIDE DEF a
<1> QED BY <1>1, <1>3, AccessMoves

\* A launch gives out a token of an instance that had none.
LEMMA LaunchKeepsInv ==
  ASSUME RuntimeInv, NEW p \in Requests, NEW i \in Instances, Launch(p, i)
  PROVE  RuntimeInv'
<1> DEFINE a == [access[p] EXCEPT !.step = "granted", !.instance = i, !.answer = access[p].kind]
<1>1. /\ access \in [Requests -> Access] /\ AccessForm(p) /\ access[p] \in Access /\ i # None
      /\ token \in [Instances -> Token \cup {None}] /\ context \in [Instances -> WidgetKinds \cup {None}]
  BY RuntimeAssumption DEF RuntimeInv, RuntimeTypeOK
<1>2. [kind |-> access[p].kind, live |-> TRUE] \in Token
  BY <1>1 DEF Token, Access
<1>3. [kind |-> access[p].kind, live |-> TRUE] # None
  BY <1>2, RuntimeAssumption
<1>4. /\ a \in Access /\ a.step = "granted" /\ a.kind = access[p].kind /\ a.instance = i
      /\ a.missing = access[p].missing
  BY <1>1 DEF Access
<1>5. access' = [access EXCEPT ![p] = a] /\ access[p].step = "resolved" /\ access[p].instance = None
  BY DEF Launch
<1> HIDE DEF a
<1>6. access'[p] = a
  BY <1>1, <1>5
<1>7. token'[i] # None /\ \A j \in Instances : token[j] # None => token'[j] # None
  BY <1>1, <1>3 DEF Launch
<1>8. AccessForm(p)'
  BY <1>1, <1>4, <1>5, <1>6, <1>7 DEF AccessForm, Launch
<1>9. /\ token' \in [Instances -> Token \cup {None}] /\ context' \in [Instances -> WidgetKinds \cup {None}]
      /\ UNCHANGED <<runnable, shown>>
  BY <1>1, <1>2 DEF Launch, Access
<1> QED BY <1>4, <1>5, <1>7, <1>8, <1>9, AccessMoves

\* A refresh looks at the placement once more and renews the token.
LEMMA RefreshKeepsInv == ASSUME RuntimeInv, NEW p \in Requests, Refresh(p) PROVE RuntimeInv'
<1> DEFINE a == [access[p] EXCEPT !.step = "granted"]
           i == access[p].instance
           row == [token[i] EXCEPT !.live = TRUE]
<1>1. /\ access \in [Requests -> Access] /\ AccessForm(p) /\ access[p] \in Access
      /\ token \in [Instances -> Token \cup {None}] /\ context \in [Instances -> WidgetKinds \cup {None}]
  BY DEF RuntimeInv, RuntimeTypeOK
<1>2. i \in Instances /\ token[i] \in Token
  BY <1>1 DEF Refresh, AccessForm, Access
<1>3. row \in Token
  BY <1>2 DEF Token
<1>4. row # None
  BY <1>3, RuntimeAssumption
<1>5. /\ a \in Access /\ a.step = "granted" /\ a.kind = access[p].kind /\ a.instance = i
      /\ a.missing = access[p].missing
  BY <1>1 DEF Access
<1>6. /\ access' = [access EXCEPT ![p] = a] /\ token' = [token EXCEPT ![i] = row]
      /\ UNCHANGED <<runnable, shown, context>> /\ access[p].step = "found" /\ MayRefresh(p)
  BY DEF Refresh
<1> HIDE DEF a, row
<1>7. access'[p] = a /\ token'[i] # None /\ \A j \in Instances : token[j] # None => token'[j] # None
  BY <1>1, <1>2, <1>4, <1>6
<1>8. AccessForm(p)'
  BY <1>1, <1>2, <1>5, <1>6, <1>7 DEF AccessForm, MayRefresh
<1>9. token' \in [Instances -> Token \cup {None}] /\ context' \in [Instances -> WidgetKinds \cup {None}]
  BY <1>1, <1>2, <1>3, <1>6
<1> QED BY <1>5, <1>6, <1>7, <1>8, <1>9, AccessMoves

-----------------------------------------------------------------------------

\* No instance has been launched.
LEMMA RuntimeInitInv == RuntimeInit => RuntimeInv
BY DEF RuntimeInit, RuntimeInv, RuntimeTypeOK, AccessForm, NoAccess, Access, WidgetKinds

\* One step of every operation of the widget runtime.
LEMMA RuntimeNextInv == RuntimeInv /\ [RuntimeNext]_runtimeVars => RuntimeInv'
<1> SUFFICES ASSUME RuntimeInv, [RuntimeNext]_runtimeVars PROVE RuntimeInv'
  OBVIOUS
<1>1. CASE UNCHANGED runtimeVars
  BY <1>1 DEF runtimeVars, RuntimeInv, RuntimeTypeOK, AccessForm
<1>2. CASE Administer
  BY <1>2, AdministerKeepsInv
<1>3. CASE Restart
  BY <1>3, RestartKeepsInv
<1>4. ASSUME NEW i \in Instances, ExpireToken(i) PROVE RuntimeInv'
  BY <1>4, ExpireTokenKeepsInv
<1>5. ASSUME NEW p \in Requests,
             \/ Resolve(p) \/ ResolveRefresh(p) \/ FindContext(p) \/ EndAccess(p)
             \/ \E kind \in WidgetKinds : Prepare(p, kind)
             \/ \E i \in Instances : VerifyToken(p, i) \/ ReadContext(p, i)
      PROVE  RuntimeInv'
  BY <1>5, LooksKeepInv
<1>6. ASSUME NEW p \in Requests, NEW i \in Instances, Launch(p, i) PROVE RuntimeInv'
  BY <1>6, LaunchKeepsInv
<1>7. ASSUME NEW p \in Requests, Refresh(p) PROVE RuntimeInv'
  BY <1>7, RefreshKeepsInv
<1> QED BY <1>1, <1>2, <1>3, <1>4, <1>5, <1>6, <1>7 DEF RuntimeNext

\* The invariant, along every behaviour.
LEMMA RuntimeInvHolds == RuntimeSpec => []RuntimeInv
BY RuntimeInitInv, RuntimeNextInv, PTL DEF RuntimeSpec

\* Every behaviour of the widget runtime keeps its types.
THEOREM RuntimeTypeCorrect == RuntimeSpec => []RuntimeTypeOK
<1>1. RuntimeInv => RuntimeTypeOK
  BY DEF RuntimeInv
<1> QED BY <1>1, RuntimeInvHolds, PTL

\* A token is given, at launch or for another token, only if at some moment of the request
\* the release could run and the placement was shown.
THEOREM TokensAreFresh == RuntimeSpec => []GrantsAreFresh
<1>1. RuntimeInv => GrantsAreFresh
  BY DEF RuntimeInv, AccessForm, GrantsAreFresh
<1> QED BY <1>1, RuntimeInvHolds, PTL

=============================================================================
