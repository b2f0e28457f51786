------------------------------ MODULE PluginRegistry ------------------------------
(***************************************************************************)
(* Plugin releases, the keys that may vouch for them, and approvals.         *)
(*                                                                         *)
(* Trust is not stored: whether a release may run is derived again for each  *)
(* request, by separate reads of the release, of the key it is signed with    *)
(* and of its approval, while administrators change all three.  The policy    *)
(* of the server admits no release whose trust is UNKNOWN.                   *)
(***************************************************************************)
EXTENDS Naturals, FiniteSets, Services

CONSTANTS
    Releases,     \* plugin IDs, each with one version
    Digests,      \* artifact digests
    PublicKeys,   \* Ed25519 key pairs
    KeyOffers,    \* the keys that administrators offer: [id, purpose, public, allows]
    Packages,     \* the packages that are uploaded: [release, digest, key, signer]
    ApprovalIds   \* identifiers of approvals

ASSUME RegistryAssumption ==
    /\ None \notin Releases \cup Digests \cup PublicKeys \cup ApprovalIds
    /\ \A offer \in KeyOffers :
          /\ offer.purpose \in {"BTG_OWNED_SIGNING", "BTG_APPROVAL_SIGNING"}
          /\ offer.public \in PublicKeys /\ offer.allows \subseteq Releases /\ offer.id # None
          /\ (offer.purpose = "BTG_APPROVAL_SIGNING") <=> (offer.allows = {})
    /\ \A package \in Packages :
          /\ package.release \in Releases /\ package.digest \in Digests
          /\ (package.key = None) <=> (package.signer = None)
          /\ package.signer \in PublicKeys \cup {None}

VARIABLES
    keyRow,     \* plugins.verification_key
    installed,  \* plugins.installed_release
    approval,   \* plugins.release_approval, of kind BTG_RELEASE_APPROVAL
    task        \* the requests in flight

registryTables == <<keyRow, installed, approval>>

registryVars == <<keyRow, installed, approval, task>>

KeyIds == {offer.id : offer \in KeyOffers} \cup ({package.key : package \in Packages} \ {None})

KeyRow == [purpose : {"BTG_OWNED_SIGNING", "BTG_APPROVAL_SIGNING"}, public : PublicKeys,
           allows : SUBSET Releases, enabled : BOOLEAN]

Artifact == [digest : Digests, key : KeyIds \cup {None}, signer : PublicKeys \cup {None}]

Release == [artifact : Artifact, enabled : BOOLEAN]

Approval == [release : Releases, digest : Digests, authority : KeyIds, active : BOOLEAN]

ASSUME RowsAssumption == None \notin KeyRow \cup Release \cup Approval

\* What a request may need to have held at some moment while it was in flight.
Conditions == {"enabled", "key", "approval", "unapproved"}

Task == [step : {"idle", "evaluated", "released", "keyed", "trusted", "granted", "authorized",
                 "unapproved", "found", "unmatched", "revoked"},
         operation : {"none", "register", "run", "enable", "approve", "revoke"},
         release : Releases \cup {None}, artifact : Artifact \cup {None},
         approval : ApprovalIds \cup {None}, missing : SUBSET Conditions]

NoTask == [step |-> "idle", operation |-> "none", release |-> None, artifact |-> None,
           approval |-> None, missing |-> {}]

RegistryInit ==
    /\ keyRow = [k \in KeyIds |-> None]
    /\ installed = [r \in Releases |-> None]
    /\ approval = [a \in ApprovalIds |-> None]
    /\ task = [p \in Requests |-> NoTask]

-----------------------------------------------------------------------------
\* ed25519.Verify of the signature of an artifact under the registered public key.
Verifies(artifact) == keyRow[artifact.key].public = artifact.signer

KeyIsEnabled(k) == k # None /\ keyRow[k] # None /\ keyRow[k].enabled

\* FindActiveReleaseApproval: by release, digest and authority; unique by an index.
ActiveApprovals(r, artifact) ==
    {a \in ApprovalIds :
        approval[a] # None /\ approval[a] =
            [release |-> r, digest |-> artifact.digest, authority |-> artifact.key, active |-> TRUE]}

\* ListReleaseApprovals, and of them the revoked ones of this authority.
RevokedApprovals(r, artifact) ==
    {a \in ApprovalIds :
        approval[a] # None /\ approval[a] =
            [release |-> r, digest |-> artifact.digest, authority |-> artifact.key, active |-> FALSE]}

\* The first part of evaluate: the key alone.
KeyAdmits(r, artifact) ==
    /\ KeyIsEnabled(artifact.key)
    /\ Verifies(artifact)
    /\ keyRow[artifact.key].purpose = "BTG_OWNED_SIGNING" => r \in keyRow[artifact.key].allows

NeedsApproval(artifact) == keyRow[artifact.key].purpose = "BTG_APPROVAL_SIGNING"

Held == [r \in Releases |->
    {c \in Conditions :
        /\ installed[r] # None
        /\ \/ c = "enabled" /\ installed[r].enabled
           \/ c = "key" /\ KeyAdmits(r, installed[r].artifact)
           \/ /\ c = "approval"
              /\ KeyAdmits(r, installed[r].artifact) /\ NeedsApproval(installed[r].artifact)
                    => ActiveApprovals(r, installed[r].artifact) # {}
           \/ c = "unapproved" /\ ActiveApprovals(r, installed[r].artifact) = {}}]

\* The requests, each with what it misses after this step.
Remember(tasks) ==
    task' = [p \in Requests |->
        IF tasks[p].release = None THEN tasks[p]
        ELSE [tasks[p] EXCEPT !.missing = @ \ Held'[tasks[p].release]]]

GoOn(p, step) ==
    /\ task' = [task EXCEPT ![p] = [@ EXCEPT !.step = step]]
    /\ UNCHANGED registryTables

Done(p) == [task EXCEPT ![p] = NoTask]

EndTask(p) ==
    /\ task[p].step # "idle"
    /\ task' = Done(p)
    /\ UNCHANGED registryTables

-----------------------------------------------------------------------------
(* Keys *)

\* INSERT ... ON CONFLICT DO NOTHING: a key that is known keeps what it is, and the
\* offer is either the same or refused.
RegisterVerificationKey(offer) ==
    /\ keyRow[offer.id] = None
    /\ keyRow' = [keyRow EXCEPT ![offer.id] =
          [purpose |-> offer.purpose, public |-> offer.public, allows |-> offer.allows, enabled |-> TRUE]]
    /\ UNCHANGED <<installed, approval>>
    /\ Remember(task)

SetVerificationKeyEnabled(k, enabled) ==
    /\ keyRow[k] # None
    /\ keyRow' = [keyRow EXCEPT ![k] = [@ EXCEPT !.enabled = enabled]]
    /\ UNCHANGED <<installed, approval>>
    /\ Remember(task)

-----------------------------------------------------------------------------
(* Installation *)

\* EvaluatePackage: a known key that does not verify the signature refuses it.
BeginRegister(p, package) ==
    LET artifact == [digest |-> package.digest, key |-> package.key, signer |-> package.signer] IN
    /\ task[p] = NoTask
    /\ KeyIsEnabled(package.key) => Verifies(artifact)
    /\ task' = [task EXCEPT ![p] = [NoTask EXCEPT
          !.step = "evaluated", !.operation = "register", !.release = package.release,
          !.artifact = artifact]]
    /\ UNCHANGED registryTables

\* One transaction, with the resources; a release that is there stays as it is.
RegisterRelease(p) ==
    /\ task[p].step = "evaluated"
    /\ installed' = IF installed[task[p].release] = None
                    THEN [installed EXCEPT ![task[p].release] =
                            [artifact |-> task[p].artifact, enabled |-> FALSE]]
                    ELSE installed
    /\ UNCHANGED <<keyRow, approval>>
    /\ Remember(Done(p))

\* Disable reads the release and updates it by its installation ID.
Disable(r) ==
    /\ installed[r] # None
    /\ installed' = [installed EXCEPT ![r] = [@ EXCEPT !.enabled = FALSE]]
    /\ UNCHANGED <<keyRow, approval>>
    /\ Remember(task)

-----------------------------------------------------------------------------
(* Evaluation of an installed release *)

\* GetRelease.  RuntimeRelease looks at the flag as it was read here; approvals and
\* their revocations need a signature.
GetRelease(p, operation, r) ==
    /\ task[p] = NoTask
    /\ installed[r] # None
    /\ operation = "run" => installed[r].enabled
    /\ operation \in {"approve", "revoke"} => installed[r].artifact.key # None
    /\ task' = [task EXCEPT ![p] =
          [step |-> "released", operation |-> operation, release |-> r,
           artifact |-> installed[r].artifact, approval |-> None, missing |-> Conditions \ Held[r]]]
    /\ UNCHANGED registryTables

\* Mutant of GetKey: any enabled key that verifies makes the release trusted.
GetAnyKey(p) ==
    /\ task[p].step = "released" /\ task[p].operation \in {"run", "enable"}
    /\ KeyAdmits(task[p].release, task[p].artifact)
    /\ GoOn(p, "trusted")

GetKey(p) ==
    /\ task[p].step = "released" /\ task[p].operation \in {"run", "enable"}
    /\ KeyAdmits(task[p].release, task[p].artifact)
    /\ GoOn(p, IF NeedsApproval(task[p].artifact) THEN "keyed" ELSE "trusted")

FindActiveApproval(p) ==
    /\ task[p].step = "keyed"
    /\ ActiveApprovals(task[p].release, task[p].artifact) # {}
    /\ GoOn(p, "trusted")

\* RuntimeRelease answers: launch, refresh, placement or discovery goes on.
RuntimeRelease(p) ==
    /\ task[p].step = "trusted" /\ task[p].operation = "run"
    /\ GoOn(p, "granted")

\* Nothing ties the flag to the trust that was found: it is evaluated at each use.
Enable(p) ==
    /\ task[p].step = "trusted" /\ task[p].operation = "enable"
    /\ installed' = [installed EXCEPT ![task[p].release] = [@ EXCEPT !.enabled = TRUE]]
    /\ UNCHANGED <<keyRow, approval>>
    /\ Remember(Done(p))

-----------------------------------------------------------------------------
(* Approval *)

\* The authority is the key the release is signed with.
CheckAuthority(p) ==
    LET artifact == task[p].artifact IN
    /\ task[p].step = "released" /\ task[p].operation = "approve"
    /\ KeyIsEnabled(artifact.key) /\ NeedsApproval(artifact) /\ Verifies(artifact)
    /\ GoOn(p, "authorized")

\* An active approval is the answer.
LookForApproval(p) ==
    /\ task[p].step = "authorized"
    /\ ActiveApprovals(task[p].release, task[p].artifact) = {}
    /\ GoOn(p, "unapproved")

\* Of two approvals the index lets one in; the other answers with the first.
MayApprove(r, artifact) == ActiveApprovals(r, artifact) = {}

CreateApproval(p, a) ==
    LET r == task[p].release
        artifact == task[p].artifact
    IN
    /\ task[p].step = "unapproved"
    /\ approval[a] = None
    /\ MayApprove(r, artifact)
    /\ approval' = [approval EXCEPT ![a] =
          [release |-> r, digest |-> artifact.digest, authority |-> artifact.key, active |-> TRUE]]
    /\ UNCHANGED <<keyRow, installed>>
    /\ Remember(Done(p))

\* Mutant of FindToRevoke: a revoked approval is taken for the outcome.
FindInHistory(p) ==
    LET artifact == task[p].artifact IN
    /\ task[p].step = "released" /\ task[p].operation = "revoke"
    /\ IF RevokedApprovals(task[p].release, artifact) # {} THEN GoOn(p, "revoked")
       ELSE \E a \in ActiveApprovals(task[p].release, artifact) :
               /\ task' = [task EXCEPT ![p] = [@ EXCEPT !.step = "found", !.approval = a]]
               /\ UNCHANGED registryTables

FindToRevoke(p) ==
    LET active == ActiveApprovals(task[p].release, task[p].artifact) IN
    /\ task[p].step = "released" /\ task[p].operation = "revoke"
    /\ IF active = {} THEN GoOn(p, "unmatched")
       ELSE \E a \in active :
               /\ task' = [task EXCEPT ![p] = [@ EXCEPT !.step = "found", !.approval = a]]
               /\ UNCHANGED registryTables

\* UPDATE ... WHERE approval_id = $1 AND revoked_at IS NULL.
RevokeApproval(p) ==
    LET a == task[p].approval IN
    /\ task[p].step = "found"
    /\ IF approval[a].active
       THEN /\ approval' = [approval EXCEPT ![a] = [@ EXCEPT !.active = FALSE]]
            /\ UNCHANGED <<keyRow, installed>>
            /\ Remember([task EXCEPT ![p] = [@ EXCEPT !.step = "revoked"]])
       ELSE GoOn(p, "unmatched")

\* Repeating a revocation succeeds, when it is one.
ReadHistory(p) ==
    /\ task[p].step = "unmatched"
    /\ RevokedApprovals(task[p].release, task[p].artifact) # {}
    /\ GoOn(p, "revoked")

-----------------------------------------------------------------------------
RegistryNext ==
    \/ \E offer \in KeyOffers : RegisterVerificationKey(offer)
    \/ \E k \in KeyIds, enabled \in BOOLEAN : SetVerificationKeyEnabled(k, enabled)
    \/ \E r \in Releases : Disable(r)
    \/ \E p \in Requests :
          \/ \E package \in Packages : BeginRegister(p, package)
          \/ RegisterRelease(p)
          \/ \E operation \in {"run", "enable", "approve", "revoke"}, r \in Releases :
                GetRelease(p, operation, r)
          \/ GetKey(p)
          \/ FindActiveApproval(p)
          \/ RuntimeRelease(p)
          \/ Enable(p)
          \/ CheckAuthority(p)
          \/ LookForApproval(p)
          \/ \E a \in ApprovalIds : CreateApproval(p, a)
          \/ FindToRevoke(p)
          \/ RevokeApproval(p)
          \/ ReadHistory(p)
          \/ EndTask(p)

RegistrySpec == RegistryInit /\ [][RegistryNext]_registryVars

-----------------------------------------------------------------------------
(* Properties *)

\* Every variable of the registry has its type.
RegistryTypeOK ==
    /\ keyRow \in [KeyIds -> KeyRow \cup {None}]
    /\ installed \in [Releases -> Release \cup {None}]
    /\ approval \in [ApprovalIds -> Approval \cup {None}]
    /\ task \in [Requests -> Task]

\* A release runs only if, while the request was in flight, it was enabled, its key
\* vouched for it, and the approval it needs was active: what was withdrawn before
\* the request came is honoured by none of its reads.
RunsAreFresh ==
    \A p \in Requests :
        task[p].step = "granted" => {"enabled", "key", "approval"} \cap task[p].missing = {}

\* A revocation that succeeds, for the first time or again, did leave the release
\* without an approval for a moment: approvals that were given meanwhile are new.
RevocationsTakeEffect ==
    \A p \in Requests : task[p].step = "revoked" => "unapproved" \notin task[p].missing

=============================================================================
