------------------------- MODULE CredentialAuthority -------------------------
(***************************************************************************)
(* Credentials over the control catalog: direct tokens, AppRole roles and   *)
(* their secret ids, the login that turns a secret id into a token, and     *)
(* revocation (auth.rs, credential.rs, control/credential_management.rs).   *)
(*                                                                          *)
(* The authentication catalog keeps its own copy of the identities; the     *)
(* control catalog's disable reaches it when the program replaces the row   *)
(* (replace_identity).  Every operation runs under one lock, so each is one *)
(* step.  A login presents the request id its header hashes to, which a     *)
(* client may repeat.  No operation of the catalog changes its epoch, which *)
(* is therefore the constant 1.  Presenting bytes that do not verify leaves *)
(* only an audit row, as do all refusals.                                   *)
(***************************************************************************)
EXTENDS ControlManagement

CONSTANTS Roles,           \* public role ids
          CredentialIds,   \* record ids a client may choose for what it issues
          MaxCredentials,  \* bound on issued credentials
          MaxUses,         \* bound on a secret id's use count
          Ttl,             \* lifetime of every credential
          MaxNow           \* bound on the effective clock

ASSUME CredentialBounds == MaxCredentials \in Nat /\ MaxUses \in Nat \ {0} /\ Ttl \in Nat \ {0}

VARIABLES authIdentities,  \* id -> the authentication catalog's copy of its row
          roles,           \* role id -> its row
          roleRequests,    \* request id -> the role it created
          credentials,     \* the issued credentials, by accessor
          usages,          \* accessor of a secret id -> its role and uses left
          now,             \* effective seconds
          deletion         \* the deletion an operator has confirmed: role, generation, count

credentialVars == <<authIdentities, roles, roleRequests, credentials, usages, now, deletion>>
authorityVars == <<managementVars, credentialVars>>

NoRole == [status |-> "none", identity |-> Root, generation |-> 0]
NoDeletion == [role |-> "none", generation |-> 0, count |-> 0]
NoParent == 0

Accessors == DOMAIN credentials

AuthorityInit ==
    /\ ManagementInit
    /\ authIdentities = identities
    /\ roles = [x \in Roles |-> NoRole]
    /\ roleRequests = [r \in Requests |-> "none"]
    /\ credentials = <<>> /\ usages = <<>>
    /\ now = 1
    /\ deletion = NoDeletion

\* What verify_credential accepts when the presented secret is the issued one.
Verifies(a, kind, audience) ==
    /\ credentials[a].kind = kind /\ credentials[a].audience = audience
    /\ credentials[a].status = "active"
    /\ now < credentials[a].expires

\* The bearer of token a is let through a listener of the given audience.
Authenticated(a, audience) ==
    /\ Verifies(a, "token", audience)
    /\ authIdentities[credentials[a].identity].status = "active"

\* The decision on a read of the secret at <<"app">> for the bearer of a, over the same rows.
ReadDecision(a) ==
    TokenAuthorize([status |-> credentials[a].status, expires |-> credentials[a].expires,
                    epoch |-> 1, identity |-> credentials[a].identity],
                   authIdentities[credentials[a].identity], {grants[g] : g \in GrantIds},
                   SecretRequest([mount |-> "secret", segments |-> <<"app">>], "data", "read", FALSE),
                   now, 1)

ByRequest(r) == {a \in Accessors : credentials[a].request = r}

\* Whom a principal may issue for: a live identity, its own unless it manages identities, and
\* a control credential only for itself when it is a human.
MayTarget(p, target, audience) ==
    /\ authIdentities[target].status = "active"
    /\ target = p \/ HasCapability(p, "identity-grant-manage")
    /\ audience = "control" => target = p /\ authIdentities[target].kind = "human"

\* issue_credential with a fresh accessor.
Issued(r, id, issuer, identity, kind, audience, parent) ==
    [status |-> "active", id |-> id, kind |-> kind, audience |-> audience, identity |-> identity,
     issuer |-> issuer, request |-> r, parent |-> parent, generation |-> 1, created |-> now,
     expires |-> now + Ttl]

\* command_request_completed: a request that settled another command or target is a conflict.
NoConflict(r, command, target) == completed[r] \in {NoCommand, <<command, target>>}

\* record_command_success after an issue or a revocation.
Recorded(r, command, target) ==
    IF completed[r] = NoCommand THEN Succeed(r, command, target) ELSE UNCHANGED completed

\* An issue goes on only when no credential carries its request id yet.
Unissued(r) == ByRequest(r) = {}

NextAccessor == Len(credentials) + 1

TokenIssue(p, surface, r, id, target, audience) ==
    /\ NextAccessor <= MaxCredentials
    /\ Authorized(p, surface, "credential-issue")
    /\ MayTarget(p, target, audience)
    /\ NoConflict(r, "credential-issue", id)
    /\ Unissued(r)
    /\ credentials' = Append(credentials, Issued(r, id, p, target, "token", audience, NoParent))
    /\ usages' = Append(usages, [role |-> "none", remaining |-> 0, issued |-> 0])
    /\ Recorded(r, "credential-issue", id)
    /\ UNCHANGED <<identities, grants, effects, authIdentities, roles, roleRequests, now, deletion>>

Revoked(c) == [c EXCEPT !.status = "revoked", !.generation = @ + 1]

CredentialRevoke(p, surface, r, a) ==
    /\ Authorized(p, surface, "credential-revoke")
    /\ Fresh(r, "credential-revoke", credentials[a].id)
    /\ credentials' = IF credentials[a].status = "active"
                      THEN [credentials EXCEPT ![a] = Revoked(@)] ELSE credentials
    /\ Succeed(r, "credential-revoke", credentials[a].id)
    /\ UNCHANGED <<identities, grants, effects, authIdentities, roles, roleRequests, usages, now,
                   deletion>>

\* insert_role: a deleted role keeps its id and name.
RoleCreate(p, surface, r, x, target) ==
    /\ Authorized(p, surface, "credential-issue")
    /\ MayTarget(p, target, "data")
    /\ NoConflict(r, "credential-issue", x)
    /\ roleRequests[r] = "none"
    /\ roles[x].status = "none"
    /\ roles' = [roles EXCEPT ![x] = [status |-> "active", identity |-> target, generation |-> 1]]
    /\ roleRequests' = [roleRequests EXCEPT ![r] = x]
    /\ Recorded(r, "credential-issue", x)
    /\ UNCHANGED <<identities, grants, effects, authIdentities, credentials, usages, now, deletion>>

SecretIdsOf(x) == {a \in Accessors : credentials[a].kind = "secret-id" /\ usages[a].role = x}
LiveSecretIds(x) == {a \in SecretIdsOf(x) : credentials[a].status = "active"}

IssuesFor(x) == roles[x].status = "active"

SecretIdIssue(p, surface, r, id, x, uses) ==
    /\ NextAccessor <= MaxCredentials
    /\ Authorized(p, surface, "credential-issue")
    /\ IssuesFor(x)
    /\ MayTarget(p, roles[x].identity, "data")
    /\ NoConflict(r, "credential-issue", id)
    /\ Unissued(r)
    /\ credentials' = Append(credentials,
          Issued(r, id, p, roles[x].identity, "secret-id", "data", NoParent))
    /\ usages' = Append(usages, [role |-> x, remaining |-> uses, issued |-> uses])
    /\ Recorded(r, "credential-issue", id)
    /\ UNCHANGED <<identities, grants, effects, authIdentities, roles, roleRequests, now, deletion>>

\* The operator lists the secret ids of a role and confirms the deletion it is about to ask for.
ConfirmDeletion(p, surface, x) ==
    /\ Authorized(p, surface, "credential-revoke")
    /\ roles[x].status = "active"
    /\ deletion' = [role |-> x, generation |-> roles[x].generation,
                    count |-> Cardinality(LiveSecretIds(x))]
    /\ UNCHANGED <<managementVars, authIdentities, roles, roleRequests, credentials, usages, now>>

DeletionCurrent ==
    /\ roles[deletion.role].generation = deletion.generation
    /\ Cardinality(LiveSecretIds(deletion.role)) = deletion.count

\* role_delete: the row is deleted and its live secret ids revoked; tokens stay.
RoleDelete(p, surface, r) ==
    /\ deletion # NoDeletion
    /\ Authorized(p, surface, "credential-revoke")
    /\ Fresh(r, "credential-revoke", deletion.role)
    /\ roles[deletion.role].status = "active"
    /\ DeletionCurrent
    /\ LET x == deletion.role IN
          /\ roles' = [roles EXCEPT ![x].status = "deleted", ![x].generation = @ + 1]
          /\ credentials' = [a \in Accessors |->
                IF a \in LiveSecretIds(x) THEN Revoked(credentials[a]) ELSE credentials[a]]
    /\ Succeed(r, "credential-revoke", deletion.role)
    /\ deletion' = NoDeletion
    /\ UNCHANGED <<identities, grants, effects, authIdentities, roleRequests, usages, now>>

Consumed_Mutant(a) == usages

\* consume: one use less.
Consumed(a) == [usages EXCEPT ![a].remaining = @ - 1]

\* A login by the holder of secret id a.  The identity's state is not looked at: a token minted
\* for a retired identity is refused when it is used.
Login(x, a, r) ==
    /\ NextAccessor <= MaxCredentials
    /\ Unissued(r)
    /\ Verifies(a, "secret-id", "data")
    /\ roles[x].status = "active" /\ usages[a].role = x
    /\ roles[x].identity = credentials[a].identity
    /\ usages[a].remaining > 0
    /\ credentials' = Append(credentials, Issued(r, "login", credentials[a].identity,
          credentials[a].identity, "token", "data", a))
    /\ usages' = Append(Consumed(a), [role |-> "none", remaining |-> 0, issued |-> 0])
    /\ UNCHANGED <<managementVars, authIdentities, roles, roleRequests, now, deletion>>

SetEffectiveSeconds_Mutant(value) ==
    now' = value /\ UNCHANGED <<managementVars, authIdentities, roles, roleRequests, credentials,
                                usages, deletion>>

SetEffectiveSeconds(value) ==
    /\ value >= now
    /\ now' = value
    /\ UNCHANGED <<managementVars, authIdentities, roles, roleRequests, credentials, usages, deletion>>

\* insert_identity and replace_identity: the control catalog's row reaches this catalog, a new
\* one as it is and a known one when it is exactly one generation ahead.
InstallIdentity(i) ==
    /\ identities[i].status # "none"
    /\ \/ authIdentities[i].status = "none"
       \/ identities[i].generation = authIdentities[i].generation + 1
    /\ authIdentities' = [authIdentities EXCEPT ![i] = identities[i]]
    /\ UNCHANGED <<managementVars, roles, roleRequests, credentials, usages, now, deletion>>

IssueSteps ==
    \E p \in Ids, surface \in BOOLEAN, r \in Requests :
        \/ \E id \in CredentialIds, target \in Ids, audience \in {"data", "control"} :
              TokenIssue(p, surface, r, id, target, audience)
        \/ \E x \in Roles, target \in Ids : RoleCreate(p, surface, r, x, target)
        \/ \E id \in CredentialIds, x \in Roles, uses \in 1 .. MaxUses :
              SecretIdIssue(p, surface, r, id, x, uses)

RevokeSteps ==
    \E p \in Ids, surface \in BOOLEAN :
        \/ \E r \in Requests, a \in Accessors : CredentialRevoke(p, surface, r, a)
        \/ \E x \in Roles : ConfirmDeletion(p, surface, x)
        \/ \E r \in Requests : RoleDelete(p, surface, r)

LoginSteps ==
    \/ \E x \in Roles, a \in Accessors, r \in Requests : Login(x, a, r)
    \/ \E value \in 1 .. MaxNow : value # now /\ SetEffectiveSeconds(value)
    \/ \E i \in Ids : InstallIdentity(i)

AuthorityNext ==
    \/ IssueSteps
    \/ RevokeSteps
    \/ LoginSteps
    \/ ManagementChanges /\ UNCHANGED credentialVars

AuthoritySpec == AuthorityInit /\ [][AuthorityNext]_authorityVars

-----------------------------------------------------------------------------
\* A secret id mints exactly as many tokens as it has spent uses: over any interleaving of
\* logins, replays, revocations and role deletions, uses left plus tokens minted is the count
\* it was issued with (AuthCatalog::login takes the use and inserts the token together).
UsesBuyTokens ==
    \A a \in Accessors : credentials[a].kind = "secret-id" =>
        usages[a].remaining + Cardinality({t \in Accessors : credentials[t].parent = a})
            = usages[a].issued

\* One request id, one credential: a retry of an issue or of a login never mints a second
\* bearer, also when a login and an issue share the id.
OneCredentialPerRequest == \A r \in Requests : Cardinality(ByRequest(r)) <= 1

\* A deleted role leaves no live secret id behind, and none is issued for it later.
DeletedRoleHasNoSecretIds ==
    \A x \in Roles : roles[x].status = "deleted" => LiveSecretIds(x) = {}

\* Deleting a role revokes exactly the number of secret ids the operator confirmed, also when
\* secret ids were issued or revoked after the confirmation.
DeletesWhatWasConfirmed ==
    [][\A x \in Roles : roles[x].status = "active" /\ roles'[x].status = "deleted" =>
          Cardinality({a \in Accessors : credentials[a].status # credentials'[a].status})
              = deletion.count]_authorityVars

\* A bearer that is refused for good stays refused: once its token is revoked or expired or its
\* identity retired, no sequence of operations lets it through a listener again, and no grant
\* makes the authorization snapshot allow it a read.
RefusedStaysRefused ==
    [][\A a \in Accessors, audience \in {"data", "control"} :
          credentials[a].kind = "token" /\ credentials[a].audience = audience
              /\ ~Authenticated(a, audience)
              => ~Authenticated(a, audience)' /\ ReadDecision(a)' # "allow"]_authorityVars

\* Every credential is accounted for: to one request, to one use of its secret id, and to a
\* role that still exists.
CredentialsAccounted == UsesBuyTokens /\ OneCredentialPerRequest /\ DeletedRoleHasNoSecretIds

\* What the authority told an operator or a caller stays true: a refused bearer stays refused,
\* and a role deletion revokes what was confirmed.
AuthorityKeepsItsWord == RefusedStaysRefused /\ DeletesWhatWasConfirmed
=============================================================================
