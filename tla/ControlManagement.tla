-------------------------- MODULE ControlManagement --------------------------
(***************************************************************************)
(* The catalog behind the owner-only control socket: identities, grants,    *)
(* the registry that says which capability each command needs, and the      *)
(* request ids already used (control/management.rs).                        *)
(*                                                                          *)
(* A principal is the identity a control credential names; whether it came  *)
(* with the control audience, the owner's uid and an active credential is   *)
(* one Boolean, `surface'.  A refused command only writes an audit row, so  *)
(* refusals are stuttering steps here.                                      *)
(***************************************************************************)
EXTENDS Authorization

CONSTANTS Ids,            \* identity ids
          Root,           \* the identity that initialisation enrolled
          IdentityNames,
          GrantIds,
          RootGrant,      \* the bootstrap grant
          GrantShapes,    \* what a new grant may look like: [mount, scope, segments, capabilities]
          Requests        \* request ids

ASSUME ManagementConstants ==
    /\ Root \in Ids /\ RootGrant \in GrantIds
    /\ \A shape \in GrantShapes : shape.mount \in STRING

VARIABLES identities,  \* id -> its row
          grants,      \* grant id -> its row
          completed,   \* request id -> the command and target it settled
          effects      \* history: request id -> how many times it changed a catalog

managementVars == <<identities, grants, completed, effects>>

NoIdentity == [status |-> "none", name |-> "none", kind |-> "none", generation |-> 0]
NoGrant == [status |-> "none", owner |-> Root, generation |-> 0,
            mount |-> "none", scope |-> "exact", segments |-> <<>>, capabilities |-> {}]
NoCommand == <<"none", "none">>

\* The registry: the capability that each command run by the server needs.  Signing a
\* checkpoint is the one command that runs locally and maps to none.
CommandCapability(command) ==
    CASE command \in {"identity-create", "identity-list", "identity-show", "identity-disable",
                      "grant-add", "grant-remove", "grant-list"} -> "identity-grant-manage"
      [] command \in {"authz-explain", "store-migrate-plan", "store-compact-plan", "doctor"}
            -> "diagnostics"
      [] command = "credential-issue"  -> "credential-issue"
      [] command = "credential-revoke" -> "credential-revoke"
      [] command \in {"checkpoint-prepare", "checkpoint-register", "signing-trust-enroll",
                      "signing-trust-transition"} -> "audit-checkpoint-manage"
      [] command \in {"backup-create", "backup-signature-register", "backup-abandon",
                      "backup-receipt-register", "backup-list", "backup-show", "backup-resume"}
            -> "backup"
      [] command = "backup-recipient-mutate" -> "backup-recipient-manage"
      [] command \in {"audit-export-create", "audit-export-signature-register",
                      "audit-export-abandon", "audit-export-list", "audit-export-show",
                      "audit-export-resume"} -> "audit-export"
      [] command = "audit-export-recipient-mutate" -> "audit-export-recipient-manage"
      [] command = "tls-reload" -> "transport-manage"
      [] command \in {"store-migrate-apply", "store-migrate-abort", "store-compact-apply",
                      "store-compact-abort", "store-reserve-status", "store-reserve-release",
                      "store-reserve-recreate"} -> "store-maintenance"
      [] command = "recipient-rewrap" -> "key-rotation"
      [] command \in {"consumer-list", "consumer-show", "consumer-reconcile"}
            -> "consumer-enumerate"
      [] command \in {"consumer-create", "consumer-update", "consumer-retire", "rotation-create",
                      "rotation-update", "rotation-retire", "rotation-lifecycle",
                      "rotation-catalog", "rotation-status", "rotation-due", "rotation-interval"}
            -> "rotation-manage"
      [] OTHER -> "local"

ManagementInit ==
    /\ identities = [i \in Ids |-> IF i = Root
          THEN [status |-> "active", name |-> "root", kind |-> "human", generation |-> 1]
          ELSE NoIdentity]
    /\ grants = [g \in GrantIds |-> IF g = RootGrant
          THEN [status |-> "active", owner |-> Root, generation |-> 1, mount |-> "sys",
                scope |-> "exact", segments |-> <<>>, capabilities |-> CapabilityBundle("admin-v1")]
          ELSE NoGrant]
    /\ completed = [r \in Requests |-> NoCommand]
    /\ effects = [r \in Requests |-> 0]

GrantsOf(i) == {grants[g] : g \in {h \in GrantIds : grants[h].owner = i}}

\* principal_has_capability: the catalog as it is now decides.
HasCapability(i, capability) ==
    /\ identities[i].status = "active"
    /\ Authorize(ManagementRequest(capability), GrantsOf(i)) = "allow"

\* authorize_command: every command starts with it.
Authorized(i, surface, command) ==
    /\ surface
    /\ CommandCapability(command) \in ManagementCapabilities
    /\ HasCapability(i, CommandCapability(command))

\* A request id settles one command on one target; Fresh is the answer that lets a command
\* go on, a replay is answered without changing anything and anything else is a conflict.
Fresh_Mutant(r, command, target) == completed[r] # <<command, target>>

Fresh(r, command, target) == completed[r] = NoCommand

Succeed(r, command, target) ==
    completed' = [completed EXCEPT ![r] = <<command, target>>]

Changed(r) == effects' = [effects EXCEPT ![r] = @ + 1]

CreateIdentity(p, surface, r, i, name, kind) ==
    /\ Authorized(p, surface, "identity-create")
    /\ Fresh(r, "identity-create", i)
    /\ identities[i].status = "none"
    /\ \A j \in Ids : identities[j].name # name
    /\ identities' = [identities EXCEPT ![i] =
          [status |-> "active", name |-> name, kind |-> kind, generation |-> 1]]
    /\ Succeed(r, "identity-create", i) /\ Changed(r)
    /\ UNCHANGED grants

\* Disabling is terminal: it needs an active row of the expected generation.
DisableIdentity(p, surface, r, i, generation) ==
    /\ Authorized(p, surface, "identity-disable")
    /\ Fresh(r, "identity-disable", i)
    /\ identities[i].status = "active" /\ identities[i].generation = generation
    /\ identities' = [identities EXCEPT ![i].status = "retired", ![i].generation = @ + 1]
    /\ Succeed(r, "identity-disable", i) /\ Changed(r)
    /\ UNCHANGED grants

GrantRow(owner, shape) ==
    [status |-> "active", owner |-> owner, generation |-> 1, mount |-> shape.mount,
     scope |-> shape.scope, segments |-> shape.segments, capabilities |-> shape.capabilities]

\* No active grant says the same already, and the row is one the codec accepts.
Grantable(row) ==
    /\ \A h \in GrantIds : grants[h].status = "active" => [grants[h] EXCEPT !.generation = 1] # row
    /\ GrantValid(row)

AddGrant(p, surface, r, g, owner, shape) ==
    /\ Authorized(p, surface, "grant-add")
    /\ Fresh(r, "grant-add", g)
    /\ identities[owner].status # "none"
    /\ grants[g].status = "none"
    /\ Grantable(GrantRow(owner, shape))
    /\ grants' = [grants EXCEPT ![g] = GrantRow(owner, shape)]
    /\ Succeed(r, "grant-add", g) /\ Changed(r)
    /\ UNCHANGED identities

RemoveGrant(p, surface, r, g, generation) ==
    /\ Authorized(p, surface, "grant-remove")
    /\ Fresh(r, "grant-remove", g)
    /\ grants[g].status = "active" /\ grants[g].generation = generation
    /\ grants' = [grants EXCEPT ![g].status = "removed", ![g].generation = @ + 1]
    /\ Succeed(r, "grant-remove", g) /\ Changed(r)
    /\ UNCHANGED identities

\* A list, a show or an explain: it changes no row, and it records its request id without
\* looking at what the id settled before.
ReadCatalog(p, surface, r, command, i) ==
    /\ Authorized(p, surface, command)
    /\ command = "grant-list" \/ command = "identity-list" \/ identities[i].status # "none"
    /\ Succeed(r, command, i)
    /\ UNCHANGED <<identities, grants, effects>>

ManagementChanges ==
    \E p \in Ids, surface \in BOOLEAN, r \in Requests :
        \/ \E i \in Ids, name \in IdentityNames, kind \in {"human", "workload"} :
              CreateIdentity(p, surface, r, i, name, kind)
        \/ \E i \in Ids, generation \in 1 .. 2 : DisableIdentity(p, surface, r, i, generation)
        \/ \E g \in GrantIds, owner \in Ids, shape \in GrantShapes :
              AddGrant(p, surface, r, g, owner, shape)
        \/ \E g \in GrantIds, generation \in 1 .. 2 : RemoveGrant(p, surface, r, g, generation)

ManagementReads ==
    \E p \in Ids, surface \in BOOLEAN, r \in Requests, i \in Ids,
       command \in {"identity-list", "identity-show", "grant-list", "authz-explain"} :
          ReadCatalog(p, surface, r, command, i)

ManagementNext == ManagementChanges \/ ManagementReads

ManagementSpec == ManagementInit /\ [][ManagementNext]_managementVars

-----------------------------------------------------------------------------
\* A request id changes the identity and grant catalogs at most once, whatever commands and
\* targets it is replayed with and whatever reads reuse it in between.
OneEffectPerRequest == \A r \in Requests : effects[r] <= 1

\* The rows always form a catalog that a restart would accept (validate_catalog): names stay
\* unique after a disable, grants stay in one plane and never lose their owner.
CatalogAlwaysLoads == CatalogValid(identities, grants)

\* Replays, conflicts and disables in any order leave a catalog a restart accepts, each request
\* applied at most once.
CatalogStaysSound == OneEffectPerRequest /\ CatalogAlwaysLoads
=============================================================================
