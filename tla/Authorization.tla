---------------------------- MODULE Authorization ----------------------------
(***************************************************************************)
(* Who may do what: capability grants over resources, and the decision a    *)
(* credential's bearer gets (identity.rs).                                  *)
(*                                                                          *)
(* A resource is a mount and a path below it, a sequence of segments.  A    *)
(* grant gives its owner a set of capabilities over one path ("exact") or   *)
(* over everything below a prefix ("subtree").  The two planes never mix:   *)
(* the mount "sys" holds management capabilities and no others.             *)
(***************************************************************************)
EXTENDS Naturals, Sequences, FiniteSets

SecretCapabilities == {"read-current", "read-history", "list", "write", "soft-delete",
                       "undelete", "destroy", "destroy-all"}

ManagementCapabilities == {"identity-grant-manage", "credential-issue", "credential-revoke",
    "rotation-manage", "consumer-enumerate", "audit-read", "audit-export",
    "audit-export-recipient-manage", "audit-checkpoint-manage", "backup",
    "backup-recipient-manage", "key-rotation", "store-maintenance", "transport-manage",
    "diagnostics"}

\* The two bundles grants are made from: everything that manages, and what an auditor reads.
CapabilityBundle(name) ==
    IF name = "admin-v1" THEN ManagementCapabilities ELSE {"audit-read", "audit-export"}

\* The shape of a grant the codec accepts: capabilities of one plane only, and a
\* management grant names no path.
GrantValid(g) ==
    /\ g.capabilities # {}
    /\ IF g.mount = "sys"
         THEN g.capabilities \subseteq ManagementCapabilities /\ g.scope = "exact" /\ g.segments = <<>>
         ELSE g.capabilities \subseteq SecretCapabilities

ShapeMatches(g, resource) ==
    /\ g.mount = resource.mount
    /\ CASE g.scope = "exact"   -> g.segments = resource.segments
         [] g.scope = "subtree" ->
              /\ Len(g.segments) <= Len(resource.segments)
              /\ SubSeq(resource.segments, 1, Len(g.segments)) = g.segments

ManagementRequest(capability) ==
    [resource |-> [mount |-> "sys", segments |-> <<>>], capability |-> capability]

\* The capability an action needs on each kind of endpoint; any other pair is refused.  A
\* read of the data endpoint that names a version is a read of history.
SecretCapability(kind, action, versioned) ==
    CASE kind = "data" /\ action = "read" -> IF versioned THEN "read-history" ELSE "read-current"
      [] <<kind, action>> \in {<<"list", "list">>, <<"metadata", "metadata">>} -> "list"
      [] kind \in {"data", "metadata"} /\ action = "write" -> "write"
      [] kind = action /\ action \in {"soft-delete", "undelete", "destroy"} -> action
      [] OTHER -> "invalid-request-shape"

SecretRequest(resource, kind, action, versioned) ==
    [resource |-> resource, capability |-> SecretCapability(kind, action, versioned)]

\* The decision over a set of grants, with the reason of a refusal.
Authorize(request, grants) ==
    LET applicable == {g \in grants : g.status = "active"}
        sameMount  == {g \in applicable : g.mount = request.resource.mount}
        matching   == {g \in sameMount : ShapeMatches(g, request.resource)}
    IN  CASE \E g \in matching : request.capability \in g.capabilities -> "allow"
          [] sameMount = {}  -> "no-grant-for-mount"
          [] matching = {}   -> "prefix-boundary-miss"
          [] OTHER           -> "missing-capability"

\* The decision for the bearer of a token: the token's own state first, then the identity's,
\* then the identity's grants.
TokenAuthorize(token, identity, grants, request, now, epoch) ==
    CASE token.status = "none"        -> "credential-not-found"
      [] token.status = "revoked"     -> "revoked"
      [] now >= token.expires         -> "expired"
      [] epoch # token.epoch          -> "epoch-changed"
      [] identity.status = "none"     -> "identity-not-found"
      [] identity.status # "active"   -> "identity-disabled"
      [] OTHER -> Authorize(request, {g \in grants : g.owner = token.identity})

\* What the identity and grant rows of a store must satisfy together before a catalog is built.
CatalogValid(identities, grants) ==
    /\ \A i, j \in DOMAIN identities :
          i # j /\ identities[i].status # "none" => identities[i].name # identities[j].name
    /\ \A g \in DOMAIN grants : grants[g].status # "none" =>
          /\ GrantValid(grants[g])
          /\ identities[grants[g].owner].status # "none"

=============================================================================
