------------------------------ MODULE MCAccess ------------------------------
(***************************************************************************)
(* Who may do what, and what stands between a request and the answer, for  *)
(* TLC: the identity, grant and request tables of the management catalog,  *)
(* the credentials and the consumer registry that are built on them, the   *)
(* reconciliation of declared, authorized and observed readers, the rate   *)
(* limiter and the reload of the TLS pair.  A behaviour follows one of     *)
(* them, named by `focus`, while what belongs to the others rests.         *)
(***************************************************************************)
EXTENDS CredentialAuthority, ConsumerRegistry, Reconciliation, RateLimiter, TlsReload, TLC

VARIABLE focus

tableVars == <<managementVars, credentialVars, registryVars>>
edgeVars == <<reconcileVars, limiterVars, tlsVars>>
accessVars == <<focus, tableVars, edgeVars>>

AccessInit ==
  /\ focus \in {"management", "credentials", "consumers", "reconciliation", "limiter", "tls"}
  /\ AuthorityInit /\ RegistryInit /\ LimiterInit /\ TlsInit /\ ReconcileInit
  /\ focus # "reconciliation" => \A i \in Readers : people[i].status = "none"

TableSteps ==
  /\ UNCHANGED edgeVars
  /\ \/ focus = "management" /\ ManagementNext /\ UNCHANGED <<credentialVars, registryVars>>
     \/ focus = "credentials" /\ AuthorityNext /\ UNCHANGED registryVars
     \/ focus = "consumers" /\ RegistryChanges /\ UNCHANGED credentialVars

EdgeSteps ==
  /\ UNCHANGED tableVars
  /\ \/ focus = "reconciliation" /\ ReconcileNext /\ UNCHANGED <<limiterVars, tlsVars>>
     \/ focus = "limiter" /\ LimiterNext /\ UNCHANGED <<reconcileVars, tlsVars>>
     \/ focus = "tls" /\ TlsNext /\ UNCHANGED <<reconcileVars, limiterVars>>

AccessNext == UNCHANGED focus /\ (TableSteps \/ EdgeSteps)

AccessSpec == AccessInit /\ [][AccessNext]_accessVars

\* Callers of the limiter are interchangeable, and so are request ids.
AccessSymmetry == Permutations(Callers) \cup Permutations(Requests)

\* A grant that the catalog accepts, and one that mixes the planes.
Shapes == {[mount |-> "secret", scope |-> "subtree", segments |-> <<>>,
            capabilities |-> {"read-current"}],
           [mount |-> "sys", scope |-> "exact", segments |-> <<>>,
            capabilities |-> {"read-current"}]}
=============================================================================
