---------------------------- MODULE AccessProofs ----------------------------
(***************************************************************************)
(* Identities, grants, requests, consumers and credentials, for any ids,   *)
(* names, requests and generations.                                        *)
(*                                                                         *)
(* ManagementInv says what a row of a catalog looks like and that a        *)
(* request that changed a catalog has settled its command; the consumer    *)
(* registry and the credential authority keep it.  AuthorityInv adds what  *)
(* credentials, roles and uses owe each other: a token is younger than the *)
(* secret id that paid for it, uses and minted tokens balance, and a       *)
(* deleted role has nothing live.                                          *)
(***************************************************************************)
EXTENDS ConsumerRegistry, CredentialAuthority, FiniteSetTheorems, TLAPS

\* A row of the identity catalog.
IdentityRec ==
  [status : {"none", "active", "retired"}, name : IdentityNames \cup {"root", "none"},
   kind : {"none", "human", "workload"}, generation : Nat]

\* A row of the grant catalog, whatever its shape.
GrantRec(g) ==
  [status : {"none", "active", "removed"}, owner : Ids, generation : Nat, mount : {g.mount},
   scope : {g.scope}, segments : {g.segments}, capabilities : {g.capabilities}]

\* A name is taken once, for good.
NamesUnique ==
  \A i, j \in Ids : i # j /\ identities[i].status # "none" => identities[i].name # identities[j].name

\* A grant that was ever added is valid and its owner known.
GrantsOwned ==
  \A g \in GrantIds :
    /\ grants[g] \in GrantRec(grants[g])
    /\ grants[g].status # "none" =>
         GrantValid(grants[g]) /\ identities[grants[g].owner].status # "none"

\* A request that changed a catalog has settled its command.
RequestsSettle ==
  \A r \in Requests : effects[r] = 0 \/ (effects[r] = 1 /\ completed[r] # NoCommand)

ManagementInv ==
  /\ identities \in [Ids -> IdentityRec]
  /\ \A i \in Ids : identities[i].status = "none" => identities[i] = NoIdentity
  /\ NamesUnique
  /\ grants = [g \in GrantIds |-> grants[g]] /\ GrantsOwned
  /\ completed = [r \in Requests |-> completed[r]]
  /\ effects = [r \in Requests |-> effects[r]] /\ RequestsSettle

\* The invariant says what the property asks.
LEMMA ManagementMeans == ManagementInv => CatalogStaysSound
<1> SUFFICES ASSUME ManagementInv PROVE CatalogStaysSound
  OBVIOUS
<1>1. OneEffectPerRequest
  BY DEF ManagementInv, RequestsSettle, OneEffectPerRequest
<1>2. DOMAIN identities = Ids /\ DOMAIN grants = GrantIds
  BY DEF ManagementInv
<1>3. CatalogAlwaysLoads
  BY ZenonT(60), <1>2
     DEF ManagementInv, NamesUnique, GrantsOwned, CatalogAlwaysLoads, CatalogValid
<1> QED BY ZenonT(60), <1>1, <1>3 DEF CatalogStaysSound

\* A step that leaves the rows alone and forgets no settled request.
LEMMA ManagementFrame ==
  ASSUME ManagementInv, UNCHANGED <<identities, grants, effects>>,
         completed' = [r \in Requests |-> completed'[r]],
         \A r \in Requests : completed[r] # NoCommand => completed'[r] # NoCommand
  PROVE  ManagementInv'
<1>1. RequestsSettle'
  BY ZenonT(60) DEF ManagementInv, RequestsSettle
<1>2. NamesUnique' /\ GrantsOwned'
  BY ZenonT(60) DEF ManagementInv, NamesUnique, GrantsOwned
<1> QED BY ZenonT(60), <1>1, <1>2 DEF ManagementInv

\* A settled request stays settled.
LEMMA SucceedSettles ==
  ASSUME completed = [r \in Requests |-> completed[r]], NEW r \in Requests, NEW command, NEW target,
         command # "none", Succeed(r, command, target)
  PROVE  /\ completed' = [q \in Requests |-> completed'[q]]
         /\ completed'[r] # NoCommand
         /\ \A q \in Requests : q # r => completed'[q] = completed[q]
BY ZenonT(60) DEF Succeed, NoCommand

\* A fresh request settles and counts its one change.
LEMMA ChangeSettles ==
  ASSUME ManagementInv, NEW r \in Requests, NEW command, NEW target, command # "none",
         Fresh(r, command, target), Succeed(r, command, target), Changed(r)
  PROVE  /\ completed' = [q \in Requests |-> completed'[q]]
         /\ effects' = [q \in Requests |-> effects'[q]] /\ RequestsSettle'
<1>1. /\ completed' = [q \in Requests |-> completed'[q]] /\ completed'[r] # NoCommand
      /\ \A q \in Requests : q # r => completed'[q] = completed[q]
  BY ZenonT(60), SucceedSettles DEF ManagementInv
<1>2. effects[r] = 0
  BY ZenonT(60) DEF ManagementInv, RequestsSettle, Fresh
<1>3. /\ effects' = [q \in Requests |-> effects'[q]] /\ effects'[r] = 1
      /\ \A q \in Requests : q # r => effects'[q] = effects[q]
  BY <1>2 DEF Changed, ManagementInv
<1>4. RequestsSettle'
  BY ZenonT(60), <1>1, <1>3 DEF RequestsSettle, ManagementInv
<1> QED BY ZenonT(60), <1>1, <1>3, <1>4

\* A change of one identity row.
LEMMA IdentityChanges ==
  ASSUME ManagementInv, NEW i \in Ids, NEW x \in IdentityRec, x.status # "none",
         identities' = [identities EXCEPT ![i] = x], grants' = grants,
         \A j \in Ids : j # i => identities[j].name # x.name,
         completed' = [q \in Requests |-> completed'[q]],
         effects' = [q \in Requests |-> effects'[q]], RequestsSettle'
  PROVE  ManagementInv'
<1>1. /\ identities' \in [Ids -> IdentityRec] /\ identities'[i] = x
      /\ \A j \in Ids : j # i => identities'[j] = identities[j]
  BY ZenonT(60) DEF ManagementInv
<1>2. NamesUnique'
  BY ZenonT(60), <1>1 DEF ManagementInv, NamesUnique
<1>3. \A j \in Ids : identities[j].status # "none" => identities'[j].status # "none"
  BY ZenonT(60), <1>1
<1>4. \A g \in GrantIds : grants[g].owner \in Ids
  BY ZenonT(60) DEF ManagementInv, GrantsOwned, GrantRec
<1>5. GrantsOwned'
  BY ZenonT(60), <1>3, <1>4 DEF ManagementInv, GrantsOwned
<1> QED BY ZenonT(60), <1>1, <1>2, <1>5 DEF ManagementInv

\* A change of one grant row.
LEMMA GrantChanges ==
  ASSUME ManagementInv, NEW g \in GrantIds, NEW x, x \in GrantRec(x),
         x.status # "none" => GrantValid(x) /\ identities[x.owner].status # "none",
         grants' = [grants EXCEPT ![g] = x], identities' = identities,
         completed' = [q \in Requests |-> completed'[q]],
         effects' = [q \in Requests |-> effects'[q]], RequestsSettle'
  PROVE  ManagementInv'
<1>1. /\ grants' = [h \in GrantIds |-> grants'[h]] /\ grants'[g] = x
      /\ \A h \in GrantIds : h # g => grants'[h] = grants[h]
  BY ZenonT(60) DEF ManagementInv
<1>2. GrantsOwned'
  BY ZenonT(60), <1>1 DEF ManagementInv, GrantsOwned
<1>3. NamesUnique'
  BY ZenonT(60) DEF ManagementInv, NamesUnique
<1> QED BY ZenonT(60), <1>1, <1>2, <1>3 DEF ManagementInv

\* create and disable.
LEMMA IdentitySteps ==
  ASSUME ManagementInv, NEW p \in Ids, NEW surface, NEW r \in Requests, NEW i \in Ids,
         \/ \E name \in IdentityNames, kind \in {"human", "workload"} :
              CreateIdentity(p, surface, r, i, name, kind)
         \/ \E generation \in 1 .. 2 : DisableIdentity(p, surface, r, i, generation)
  PROVE  ManagementInv'
<1>1. grants' = grants
  BY ZenonT(60) DEF CreateIdentity, DisableIdentity
<1>2. /\ completed' = [q \in Requests |-> completed'[q]]
      /\ effects' = [q \in Requests |-> effects'[q]] /\ RequestsSettle'
  <2>1. PICK command \in {"identity-create", "identity-disable"} :
          Fresh(r, command, i) /\ Succeed(r, command, i) /\ Changed(r)
    BY ZenonT(60) DEF CreateIdentity, DisableIdentity
  <2>2. command # "none"
    BY ZenonT(60), <2>1
  <2> QED BY ZenonT(60), <2>1, <2>2, ChangeSettles
<1>3. ASSUME NEW name \in IdentityNames, NEW kind \in {"human", "workload"},
             CreateIdentity(p, surface, r, i, name, kind)
      PROVE  ManagementInv'
  <2> DEFINE x == [status |-> "active", name |-> name, kind |-> kind, generation |-> 1]
  <2>1. identities' = [identities EXCEPT ![i] = x] /\ \A j \in Ids : identities[j].name # name
    BY ZenonT(60), <1>3 DEF CreateIdentity
  <2>2. x \in IdentityRec /\ x.status = "active" /\ x.name = name
    <3>1. 1 \in Nat
      OBVIOUS
    <3> QED BY ZenonT(60), <3>1 DEF IdentityRec
  <2>3. x.status # "none"
    BY ZenonT(60), <2>2
  <2> HIDE DEF x
  <2> QED BY ZenonT(60), <1>1, <1>2, <2>1, <2>2, <2>3, IdentityChanges
<1>4. ASSUME NEW generation \in 1 .. 2, DisableIdentity(p, surface, r, i, generation)
      PROVE  ManagementInv'
  <2> DEFINE o == identities[i]
             n == o.generation + 1
             x == [o EXCEPT !.status = "retired", !.generation = n]
  <2>0. identities[i].status = "active" /\ o \in IdentityRec
    BY ZenonT(60), <1>4 DEF DisableIdentity, ManagementInv
  <2>1. n \in Nat
    BY <2>0 DEF IdentityRec
  <2>2. identities' = [identities EXCEPT ![i] = x]
    BY ZenonT(60), <1>4, <2>0 DEF DisableIdentity, ManagementInv, IdentityRec
  <2>3. x \in IdentityRec /\ x.status = "retired" /\ x.name = o.name
    <3> HIDE DEF n
    <3> QED BY ZenonT(60), <2>0, <2>1 DEF IdentityRec
  <2>4. \A j \in Ids : j # i => identities[j].name # o.name
    BY ZenonT(60), <2>0 DEF ManagementInv, NamesUnique
  <2>5. x.status # "none"
    BY ZenonT(60), <2>3
  <2> HIDE DEF x
  <2>6. \A j \in Ids : j # i => identities[j].name # x.name
    BY ZenonT(60), <2>3, <2>4
  <2> QED BY ZenonT(60), <1>1, <1>2, <2>2, <2>3, <2>5, <2>6, IdentityChanges
<1> QED BY ZenonT(60), <1>3, <1>4

\* grant add and remove.
LEMMA GrantSteps ==
  ASSUME ManagementInv, NEW p \in Ids, NEW surface, NEW r \in Requests, NEW g \in GrantIds,
         \/ \E owner \in Ids, shape \in GrantShapes : AddGrant(p, surface, r, g, owner, shape)
         \/ \E generation \in 1 .. 2 : RemoveGrant(p, surface, r, g, generation)
  PROVE  ManagementInv'
<1>1. identities' = identities
  BY ZenonT(60) DEF AddGrant, RemoveGrant
<1>2. /\ completed' = [q \in Requests |-> completed'[q]]
      /\ effects' = [q \in Requests |-> effects'[q]] /\ RequestsSettle'
  <2>1. PICK command \in {"grant-add", "grant-remove"} :
          Fresh(r, command, g) /\ Succeed(r, command, g) /\ Changed(r)
    BY ZenonT(60) DEF AddGrant, RemoveGrant
  <2>2. command # "none"
    BY ZenonT(60), <2>1
  <2> QED BY ZenonT(60), <2>1, <2>2, ChangeSettles
<1>3. ASSUME NEW owner \in Ids, NEW shape \in GrantShapes, AddGrant(p, surface, r, g, owner, shape)
      PROVE  ManagementInv'
  <2> DEFINE x == GrantRow(owner, shape)
  <2>1. /\ grants' = [grants EXCEPT ![g] = x] /\ GrantValid(x)
        /\ identities[owner].status # "none"
    BY ZenonT(60), <1>3 DEF AddGrant, Grantable
  <2>2. x \in GrantRec(x) /\ x.owner = owner
    <3>1. 1 \in Nat
      OBVIOUS
    <3> QED BY ZenonT(60), <3>1 DEF GrantRow, GrantRec
  <2> HIDE DEF x
  <2>3. x.status # "none" => GrantValid(x) /\ identities[x.owner].status # "none"
    BY ZenonT(60), <2>1, <2>2
  <2> QED BY ZenonT(60), <1>1, <1>2, <2>1, <2>2, <2>3, GrantChanges
<1>4. ASSUME NEW generation \in 1 .. 2, RemoveGrant(p, surface, r, g, generation)
      PROVE  ManagementInv'
  <2> DEFINE o == grants[g]
             n == o.generation + 1
             x == [o EXCEPT !.status = "removed", !.generation = n]
  <2>0. grants[g].status = "active" /\ o \in GrantRec(o)
    BY ZenonT(60), <1>4 DEF RemoveGrant, ManagementInv, GrantsOwned
  <2>1. n \in Nat
    BY <2>0 DEF GrantRec
  <2>2. grants' = [grants EXCEPT ![g] = x]
    BY ZenonT(60), <1>4, <2>0 DEF RemoveGrant, ManagementInv, GrantRec
  <2>3. /\ x \in GrantRec(o) /\ x.owner = o.owner /\ x.mount = o.mount /\ x.scope = o.scope
        /\ x.segments = o.segments /\ x.capabilities = o.capabilities
    <3> HIDE DEF n
    <3> QED BY ZenonT(60), <2>0, <2>1 DEF GrantRec
  <2> HIDE DEF x
  <2>4. GrantValid(o) /\ identities[o.owner].status # "none"
    BY ZenonT(60), <2>0 DEF ManagementInv, GrantsOwned
  <2>5. x \in GrantRec(x)
    BY ZenonT(60), <2>3 DEF GrantRec
  <2>6. x.status # "none" => GrantValid(x) /\ identities[x.owner].status # "none"
    BY ZenonT(60), <2>3, <2>4 DEF GrantValid
  <2> QED BY ZenonT(60), <1>1, <1>2, <2>2, <2>5, <2>6, GrantChanges
<1> QED BY ZenonT(60), <1>3, <1>4

\* Every change of the catalog.
LEMMA ManagementChangesKeep == ManagementInv /\ ManagementChanges => ManagementInv'
<1> SUFFICES ASSUME ManagementInv, NEW p \in Ids, NEW surface \in BOOLEAN, NEW r \in Requests,
                    \/ \E i \in Ids, name \in IdentityNames, kind \in {"human", "workload"} :
                          CreateIdentity(p, surface, r, i, name, kind)
                    \/ \E i \in Ids, generation \in 1 .. 2 :
                          DisableIdentity(p, surface, r, i, generation)
                    \/ \E g \in GrantIds, owner \in Ids, shape \in GrantShapes :
                          AddGrant(p, surface, r, g, owner, shape)
                    \/ \E g \in GrantIds, generation \in 1 .. 2 :
                          RemoveGrant(p, surface, r, g, generation)
             PROVE  ManagementInv'
  BY ZenonT(60) DEF ManagementChanges
<1>1. CASE \E i \in Ids : \/ \E name \in IdentityNames, kind \in {"human", "workload"} :
                               CreateIdentity(p, surface, r, i, name, kind)
                          \/ \E generation \in 1 .. 2 : DisableIdentity(p, surface, r, i, generation)
  BY ZenonT(60), <1>1, IdentitySteps
<1>2. CASE \E g \in GrantIds :
              \/ \E owner \in Ids, shape \in GrantShapes : AddGrant(p, surface, r, g, owner, shape)
              \/ \E generation \in 1 .. 2 : RemoveGrant(p, surface, r, g, generation)
  BY ZenonT(60), <1>2, GrantSteps
<1> QED BY ZenonT(60), <1>1, <1>2

\* The catalog that init writes.
LEMMA ManagementInitially == ManagementInit => ManagementInv
<1> SUFFICES ASSUME ManagementInit PROVE ManagementInv
  OBVIOUS
<1> DEFINE b == [status |-> "active", name |-> "root", kind |-> "human", generation |-> 1]
           a == [status |-> "active", owner |-> Root, generation |-> 1, mount |-> "sys",
                 scope |-> "exact", segments |-> <<>>, capabilities |-> CapabilityBundle("admin-v1")]
<1>1. /\ identities = [i \in Ids |-> IF i = Root THEN b ELSE NoIdentity]
      /\ grants = [g \in GrantIds |-> IF g = RootGrant THEN a ELSE NoGrant]
      /\ completed = [r \in Requests |-> NoCommand] /\ effects = [r \in Requests |-> 0]
  BY ZenonT(60) DEF ManagementInit
<1>2. b \in IdentityRec /\ b.status = "active" /\ b.name = "root"
      /\ NoIdentity \in IdentityRec /\ NoIdentity.status = "none" /\ NoIdentity.name = "none"
  <2>1. 1 \in Nat /\ 0 \in Nat
    OBVIOUS
  <2> QED BY ZenonT(60), <2>1 DEF IdentityRec, NoIdentity
<1>3. a \in GrantRec(a) /\ NoGrant \in GrantRec(NoGrant) /\ NoGrant.status = "none" /\ a.owner = Root
  <2>1. 1 \in Nat /\ 0 \in Nat /\ Root \in Ids
    BY ZenonT(60), ManagementConstants
  <2> QED BY ZenonT(60), <2>1 DEF GrantRec, NoGrant
<1>4. GrantValid(a)
  BY ZenonT(60) DEF GrantValid, CapabilityBundle, ManagementCapabilities
<1> HIDE DEF a, b
<1>5. identities \in [Ids -> IdentityRec] /\ NamesUnique
      /\ \A i \in Ids : identities[i].status = "none" => identities[i] = NoIdentity
  BY ZenonT(60), <1>1, <1>2 DEF NamesUnique
<1>6. grants = [g \in GrantIds |-> grants[g]] /\ GrantsOwned
  BY ZenonT(60), <1>1, <1>2, <1>3, <1>4, ManagementConstants DEF GrantsOwned
<1>7. /\ completed = [r \in Requests |-> completed[r]]
      /\ effects = [r \in Requests |-> effects[r]] /\ RequestsSettle
  BY ZenonT(60), <1>1 DEF RequestsSettle
<1> QED BY ZenonT(60), <1>5, <1>6, <1>7 DEF ManagementInv

\* Every step of the control socket keeps the invariant.
LEMMA ManagementStep == ManagementInv /\ [ManagementNext]_managementVars => ManagementInv'
<1> SUFFICES ASSUME ManagementInv, [ManagementNext]_managementVars PROVE ManagementInv'
  OBVIOUS
<1>1. CASE ManagementReads
  <2>1. PICK r \in Requests, i \in Ids,
             command \in {"identity-list", "identity-show", "grant-list", "authz-explain"} :
          Succeed(r, command, i) /\ UNCHANGED <<identities, grants, effects>>
    BY ZenonT(60), <1>1 DEF ManagementReads, ReadCatalog
  <2>2. command # "none"
    BY ZenonT(60), <2>1
  <2>3. /\ completed' = [q \in Requests |-> completed'[q]] /\ completed'[r] # NoCommand
        /\ \A q \in Requests : q # r => completed'[q] = completed[q]
    BY ZenonT(60), <2>1, <2>2, SucceedSettles DEF ManagementInv
  <2> QED BY ZenonT(60), <2>1, <2>3, ManagementFrame
<1>2. CASE UNCHANGED managementVars
  <2>1. completed' = [r \in Requests |-> completed'[r]] /\ completed' = completed
        /\ UNCHANGED <<identities, grants, effects>>
    BY ZenonT(60), <1>2 DEF managementVars, ManagementInv
  <2> QED BY ZenonT(60), <2>1, ManagementFrame
<1> QED BY ZenonT(60), <1>1, <1>2, ManagementChangesKeep DEF ManagementNext

\* However commands are replayed, refused and reordered, and whatever the sets of identities,
\* grants and requests: one effect per request and a catalog that loads.
THEOREM ManagementSound == ManagementSpec => []CatalogStaysSound
BY ManagementInitially, ManagementStep, ManagementMeans, PTL DEF ManagementSpec

-----------------------------------------------------------------------------
\* A row of the consumer registry.
RegistryRow ==
  [lifecycle : {"none", "declared", "migrated", "retired"}, label : Labels \cup {"none"},
   generation : Nat]

RegistryTypes ==
  /\ consumers \in [Consumers -> RegistryRow]
  /\ instances \in [Consumers \X Instances -> RegistryRow]

\* One row moves as its lifecycle allows.
Forward(x, y) ==
  x.lifecycle # y.lifecycle =>
    /\ x.lifecycle # "retired"
    /\ x.lifecycle = "migrated" => y.lifecycle = "retired"

\* What RetirementIsOrdered asks of one step.
OrderedStep ==
  /\ \A c \in Consumers : /\ Forward(consumers[c], consumers'[c])
                          /\ consumers[c].lifecycle # consumers'[c].lifecycle
                               /\ consumers'[c].lifecycle = "retired" => ChildrenRetired(c)
  /\ \A k \in Consumers \X Instances : Forward(instances[k], instances'[k])

\* A new row, an update and a retirement are rows, and only the last one retires.
LEMMA RegistryRows ==
  /\ NoRow \in RegistryRow
  /\ \A label \in Labels : Declared(label) \in RegistryRow /\ Declared(label).lifecycle = "declared"
  /\ \A x \in RegistryRow, to \in {"same", "migrated", "retired"} :
       /\ Updated(x, to) \in RegistryRow
       /\ Updated(x, to).lifecycle = IF to = "same" THEN x.lifecycle ELSE to
<1>1. 0 \in Nat /\ 1 \in Nat
  OBVIOUS
<1>2. NoRow \in RegistryRow
  BY ZenonT(60), <1>1 DEF NoRow, RegistryRow
<1>3. \A label \in Labels : Declared(label) \in RegistryRow /\ Declared(label).lifecycle = "declared"
  BY ZenonT(60), <1>1 DEF Declared, RegistryRow
<1>4. ASSUME NEW x \in RegistryRow, NEW to \in {"same", "migrated", "retired"}
      PROVE  /\ Updated(x, to) \in RegistryRow
             /\ Updated(x, to).lifecycle = IF to = "same" THEN x.lifecycle ELSE to
  <2> DEFINE n == x.generation + 1
             l == IF to = "same" THEN x.lifecycle ELSE to
             a == [x EXCEPT !.generation = n]
             b == [a EXCEPT !.lifecycle = l]
  <2>1. n \in Nat /\ l \in {"none", "declared", "migrated", "retired"}
    BY DEF RegistryRow
  <2> HIDE DEF n, l
  <2>2. a \in RegistryRow /\ a.lifecycle = x.lifecycle
    BY ZenonT(60), <2>1 DEF RegistryRow
  <2>3. b \in RegistryRow /\ b.lifecycle = l
    BY ZenonT(60), <2>1, <2>2 DEF RegistryRow
  <2>4. Updated(x, to) = b
    BY ZenonT(60), <2>2 DEF Updated, n, l
  <2> QED BY ZenonT(60), <2>3, <2>4 DEF l
<1> QED BY ZenonT(60), <1>2, <1>3, <1>4

\* A change of one consumer's row.
LEMMA ConsumerMoves ==
  ASSUME RegistryTypes, NEW e \in Consumers, NEW x \in RegistryRow, Forward(consumers[e], x),
         consumers[e].lifecycle # x.lifecycle /\ x.lifecycle = "retired" => ChildrenRetired(e),
         consumers' = [consumers EXCEPT ![e] = x], instances' = instances
  PROVE  RegistryTypes' /\ OrderedStep
<1>1. /\ consumers' \in [Consumers -> RegistryRow] /\ consumers'[e] = x
      /\ \A d \in Consumers : d # e => consumers'[d] = consumers[d]
  BY ZenonT(60) DEF RegistryTypes
<1>2. RegistryTypes'
  BY ZenonT(60), <1>1 DEF RegistryTypes
<1>3. \A d \in Consumers : /\ Forward(consumers[d], consumers'[d])
                          /\ consumers[d].lifecycle # consumers'[d].lifecycle
                               /\ consumers'[d].lifecycle = "retired" => ChildrenRetired(d)
  <2> TAKE d \in Consumers
  <2>1. CASE d = e
    BY ZenonT(60), <1>1, <2>1
  <2>2. CASE d # e
    BY ZenonT(60), <1>1, <2>2 DEF Forward
  <2> QED BY ZenonT(60), <2>1, <2>2
<1>4. \A k \in Consumers \X Instances : Forward(instances[k], instances'[k])
  BY ZenonT(60) DEF Forward
<1>5. OrderedStep
  BY <1>3, <1>4 DEF OrderedStep, ChildrenRetired, Forward
<1> QED BY ZenonT(60), <1>2, <1>5

\* A change of one instance's row.
LEMMA InstanceMoves ==
  ASSUME RegistryTypes, NEW k \in Consumers \X Instances, NEW x \in RegistryRow,
         Forward(instances[k], x),
         instances' = [instances EXCEPT ![k] = x], consumers' = consumers
  PROVE  RegistryTypes' /\ OrderedStep
<1>1. /\ instances' \in [Consumers \X Instances -> RegistryRow] /\ instances'[k] = x
      /\ \A d \in Consumers \X Instances : d # k => instances'[d] = instances[d]
  BY ZenonT(60) DEF RegistryTypes
<1>2. RegistryTypes'
  BY ZenonT(60), <1>1 DEF RegistryTypes
<1>3. OrderedStep
  BY ZenonT(60), <1>1 DEF OrderedStep, Forward
<1> QED BY ZenonT(60), <1>2, <1>3

\* Updates never retire, and only what may advance does.
LEMMA UpdatesForward ==
  ASSUME NEW x \in RegistryRow, NEW seen, NEW to \in {"same", "migrated", "retired"},
         MayUpdate(x, seen, to) \/ (MayRetire(x, seen) /\ to = "retired")
  PROVE  /\ Forward(x, Updated(x, to)) /\ Updated(x, to) \in RegistryRow
         /\ to # "retired" /\ x.lifecycle # Updated(x, to).lifecycle
              => Updated(x, to).lifecycle # "retired"
<1>1. /\ Updated(x, to) \in RegistryRow
      /\ Updated(x, to).lifecycle = IF to = "same" THEN x.lifecycle ELSE to
  BY ZenonT(60), RegistryRows
<1>2. to # "same" => CanAdvance(x.lifecycle, to)
  BY ZenonT(60) DEF MayUpdate, MayRetire
<1>3. to # "same" => x.lifecycle # "retired" /\ (x.lifecycle = "migrated" => to = "retired")
  BY ZenonT(60), <1>2 DEF CanAdvance
<1> HIDE DEF Updated
<1> QED BY ZenonT(60), <1>1, <1>3 DEF Forward

\* Every step of the registry moves rows forward.
LEMMA RegistryStep ==
  ASSUME RegistryTypes, [RegistryNext]_consumerVars
  PROVE  RegistryTypes' /\ OrderedStep
<1>1. ASSUME UNCHANGED <<consumers, instances>> PROVE RegistryTypes' /\ OrderedStep
  BY ZenonT(60), <1>1 DEF RegistryTypes, OrderedStep, Forward
<1>2. CASE RegistryChanges
  <2> SUFFICES ASSUME NEW p \in Ids, NEW surface \in BOOLEAN, NEW r \in Requests,
                      NEW c \in Consumers,
        \/ \E label \in Labels : CreateConsumer(p, surface, r, c, label)
        \/ \E n \in Instances, label \in Labels : CreateInstance(p, surface, r, c, n, label)
        \/ \E seen \in 1 .. MaxRowGeneration :
              \/ \E to \in {"same", "migrated"} : UpdateConsumer(p, surface, r, c, seen, to)
              \/ RetireConsumer(p, surface, r, c, seen)
              \/ \E n \in Instances :
                    \/ \E to \in {"same", "migrated"} :
                          UpdateInstance(p, surface, r, c, n, seen, to)
                    \/ RetireInstance(p, surface, r, c, n, seen)
               PROVE  RegistryTypes' /\ OrderedStep
    BY ZenonT(60), <1>2 DEF RegistryChanges
  <2>1. ASSUME NEW label \in Labels, CreateConsumer(p, surface, r, c, label)
        PROVE  RegistryTypes' /\ OrderedStep
    <3> DEFINE x == Declared(label)
    <3>1. /\ consumers[c] = NoRow /\ consumers' = [consumers EXCEPT ![c] = x]
          /\ instances' = instances
      BY ZenonT(60), <2>1 DEF CreateConsumer
    <3>2. x \in RegistryRow /\ x.lifecycle = "declared" /\ NoRow.lifecycle = "none"
      BY ZenonT(60), RegistryRows DEF NoRow
    <3> HIDE DEF x
    <3>3. Forward(consumers[c], x) /\ x.lifecycle # "retired"
      BY ZenonT(60), <3>1, <3>2 DEF Forward
    <3> QED BY ZenonT(60), <3>1, <3>2, <3>3, ConsumerMoves
  <2>2. ASSUME NEW n \in Instances, NEW label \in Labels, CreateInstance(p, surface, r, c, n, label)
        PROVE  RegistryTypes' /\ OrderedStep
    <3> DEFINE x == Declared(label)
               k == <<c, n>>
    <3>1. instances[k] = NoRow /\ instances' = [instances EXCEPT ![k] = x] /\ consumers' = consumers
      BY ZenonT(60), <2>2 DEF CreateInstance
    <3>2. /\ x \in RegistryRow /\ x.lifecycle = "declared" /\ NoRow.lifecycle = "none"
          /\ k \in Consumers \X Instances
      BY ZenonT(60), RegistryRows DEF NoRow
    <3> HIDE DEF x, k
    <3>3. Forward(instances[k], x)
      BY ZenonT(60), <3>1, <3>2 DEF Forward
    <3> QED BY ZenonT(60), <3>1, <3>2, <3>3, InstanceMoves
  <2>3. ASSUME NEW seen, NEW to \in {"same", "migrated", "retired"},
               \/ UpdateConsumer(p, surface, r, c, seen, to)
               \/ to = "retired" /\ RetireConsumer(p, surface, r, c, seen)
        PROVE  RegistryTypes' /\ OrderedStep
    <3> DEFINE o == consumers[c]
               x == Updated(o, to)
    <3>1. o \in RegistryRow
      BY ZenonT(60) DEF RegistryTypes
    <3>2. MayUpdate(o, seen, to) \/ (MayRetire(o, seen) /\ to = "retired")
      BY ZenonT(60), <2>3 DEF UpdateConsumer, RetireConsumer
    <3>3. /\ Forward(o, x) /\ x \in RegistryRow
          /\ to # "retired" /\ o.lifecycle # x.lifecycle => x.lifecycle # "retired"
      BY ZenonT(60), <3>1, <3>2, UpdatesForward
    <3>4. to = "retired" => ChildrenRetired(c)
      <4>1. MayUpdate(o, seen, to) => to # "retired"
        BY ZenonT(60) DEF MayUpdate
      <4> QED BY ZenonT(60), <2>3, <4>1 DEF UpdateConsumer, RetireConsumer
    <3>5. consumers' = [consumers EXCEPT ![c] = x] /\ instances' = instances
      BY ZenonT(60), <2>3 DEF UpdateConsumer, RetireConsumer, RegistryTypes
    <3> HIDE DEF x
    <3> QED BY ZenonT(60), <3>3, <3>4, <3>5, ConsumerMoves
  <2>4. ASSUME NEW n \in Instances, NEW seen, NEW to \in {"same", "migrated", "retired"},
               \/ UpdateInstance(p, surface, r, c, n, seen, to)
               \/ to = "retired" /\ RetireInstance(p, surface, r, c, n, seen)
        PROVE  RegistryTypes' /\ OrderedStep
    <3> DEFINE k == <<c, n>>
               o == instances[k]
               x == Updated(o, to)
    <3>0. k \in Consumers \X Instances
      OBVIOUS
    <3>1. o \in RegistryRow
      BY ZenonT(60), <3>0 DEF RegistryTypes
    <3>2. MayUpdate(o, seen, to) \/ (MayRetire(o, seen) /\ to = "retired")
      BY ZenonT(60), <2>4 DEF UpdateInstance, RetireInstance
    <3>3. Forward(o, x) /\ x \in RegistryRow
      BY ZenonT(60), <3>1, <3>2, UpdatesForward
    <3>5. instances' = [instances EXCEPT ![k] = x] /\ consumers' = consumers
      BY ZenonT(60), <2>4, <3>0 DEF UpdateInstance, RetireInstance, RegistryTypes
    <3> HIDE DEF x, k
    <3> QED BY ZenonT(60), <3>0, <3>3, <3>5, InstanceMoves
  <2> QED BY ZenonT(60), <2>1, <2>2, <2>3, <2>4
<1>3. CASE ManagementChanges /\ UNCHANGED registryVars
  BY ZenonT(60), <1>1, <1>3 DEF registryVars
<1>4. CASE UNCHANGED consumerVars
  BY ZenonT(60), <1>1, <1>4 DEF consumerVars, registryVars
<1> QED BY ZenonT(60), <1>2, <1>3, <1>4 DEF RegistryNext

\* Whatever the operators and the order of their updates: lifecycles move forward and a parent
\* retires only when none of its instances is live (ConsumerRegistry::retire).
THEOREM RetirementOrdered == RegistrySpec => RetirementIsOrdered
<1>1. RegistryInit => RegistryTypes
  BY RegistryRows DEF RegistryInit, RegistryTypes
<1>2. RegistryTypes /\ [RegistryNext]_consumerVars => RegistryTypes'
  BY ZenonT(60), RegistryStep
<1>3. RegistryTypes /\ [RegistryNext]_consumerVars =>
        [/\ \A c \in Consumers : consumers[c].lifecycle # consumers'[c].lifecycle =>
             /\ consumers[c].lifecycle # "retired"
             /\ consumers[c].lifecycle = "migrated" => consumers'[c].lifecycle = "retired"
             /\ consumers'[c].lifecycle = "retired" =>
                   \A n \in Instances : instances[<<c, n>>].lifecycle \in {"none", "retired"}
         /\ \A k \in DOMAIN instances : instances[k].lifecycle # instances'[k].lifecycle =>
             /\ instances[k].lifecycle # "retired"
             /\ instances[k].lifecycle = "migrated" => instances'[k].lifecycle = "retired"
        ]_consumerVars
  <2> SUFFICES ASSUME RegistryTypes, [RegistryNext]_consumerVars
               PROVE  /\ \A c \in Consumers : consumers[c].lifecycle # consumers'[c].lifecycle =>
                        /\ consumers[c].lifecycle # "retired"
                        /\ consumers[c].lifecycle = "migrated" => consumers'[c].lifecycle = "retired"
                        /\ consumers'[c].lifecycle = "retired" =>
                             \A n \in Instances : instances[<<c, n>>].lifecycle \in {"none", "retired"}
                      /\ \A k \in DOMAIN instances :
                           instances[k].lifecycle # instances'[k].lifecycle =>
                             /\ instances[k].lifecycle # "retired"
                             /\ instances[k].lifecycle = "migrated"
                                  => instances'[k].lifecycle = "retired"
    OBVIOUS
  <2>1. OrderedStep
    BY ZenonT(60), RegistryStep
  <2>2. DOMAIN instances = Consumers \X Instances
    BY ZenonT(60) DEF RegistryTypes
  <2> QED BY ZenonT(60), <2>1, <2>2 DEF OrderedStep, Forward, ChildrenRetired
<1> QED BY <1>1, <1>2, <1>3, PTL DEF RegistrySpec, RetirementIsOrdered

-----------------------------------------------------------------------------
-----------------------------------------------------------------------------
\* A step that at most settles one request and changes no row.
LEMMA RecordingKeeps ==
  ASSUME ManagementInv, NEW r \in Requests, NEW command, command # "none", NEW target,
         UNCHANGED <<identities, grants, effects>>,
         Succeed(r, command, target) \/ completed' = completed
  PROVE  ManagementInv'
<1>2. CASE Succeed(r, command, target)
  <2>1. /\ completed' = [q \in Requests |-> completed'[q]] /\ completed'[r] # NoCommand
        /\ \A q \in Requests : q # r => completed'[q] = completed[q]
    BY ZenonT(60), <1>2, SucceedSettles DEF ManagementInv
  <2> QED BY ZenonT(60), <2>1, ManagementFrame
<1>3. CASE completed' = completed
  <2>1. completed' = [q \in Requests |-> completed'[q]]
    BY ZenonT(60), <1>3 DEF ManagementInv
  <2> QED BY ZenonT(60), <1>3, <2>1, ManagementFrame
<1> QED BY ZenonT(60), <1>2, <1>3

\* What the registry records in the catalog settles requests and changes no row of it.
LEMMA CompletesKeeps ==
  ASSUME ManagementInv, NEW r \in Requests, NEW command, command # "none", NEW target,
         Completes(r, command, target)
  PROVE  ManagementInv'
<1>1. UNCHANGED <<identities, grants, effects>>
  BY ZenonT(60) DEF Completes
<1>2. Succeed(r, command, target) \/ completed' = completed
  BY ZenonT(60) DEF Completes
<1> QED BY <1>1, <1>2, RecordingKeeps DEF Succeed

\* The registry's steps keep the catalog.
LEMMA RegistryKeepsManagement ==
  ASSUME ManagementInv, [RegistryNext]_consumerVars PROVE ManagementInv'
<1>1. CASE RegistryChanges
  <2> SUFFICES ASSUME NEW r \in Requests, NEW p, NEW surface, NEW c,
        \/ \E label \in Labels : CreateConsumer(p, surface, r, c, label)
        \/ \E n \in Instances, label \in Labels : CreateInstance(p, surface, r, c, n, label)
        \/ \E seen \in 1 .. MaxRowGeneration :
              \/ \E to \in {"same", "migrated"} : UpdateConsumer(p, surface, r, c, seen, to)
              \/ RetireConsumer(p, surface, r, c, seen)
              \/ \E n \in Instances :
                    \/ \E to \in {"same", "migrated"} :
                          UpdateInstance(p, surface, r, c, n, seen, to)
                    \/ RetireInstance(p, surface, r, c, n, seen)
               PROVE  ManagementInv'
    BY ZenonT(60), <1>1 DEF RegistryChanges
  <2>0. "consumer-create" # "none" /\ "consumer-update" # "none" /\ "consumer-retire" # "none"
    OBVIOUS
  <2>1. ASSUME NEW label, CreateConsumer(p, surface, r, c, label) PROVE ManagementInv'
    BY ZenonT(60), <2>0, <2>1, CompletesKeeps DEF CreateConsumer
  <2>2. ASSUME NEW n, NEW label, CreateInstance(p, surface, r, c, n, label) PROVE ManagementInv'
    BY ZenonT(60), <2>0, <2>2, CompletesKeeps DEF CreateInstance
  <2>3. ASSUME NEW seen, NEW to, UpdateConsumer(p, surface, r, c, seen, to)
        PROVE  ManagementInv'
    BY ZenonT(60), <2>0, <2>3, CompletesKeeps DEF UpdateConsumer
  <2>4. ASSUME NEW seen, RetireConsumer(p, surface, r, c, seen) PROVE ManagementInv'
    BY ZenonT(60), <2>0, <2>4, CompletesKeeps DEF RetireConsumer
  <2>5. ASSUME NEW n, NEW seen, NEW to, UpdateInstance(p, surface, r, c, n, seen, to)
        PROVE  ManagementInv'
    BY ZenonT(60), <2>0, <2>5, CompletesKeeps DEF UpdateInstance
  <2>6. ASSUME NEW n, NEW seen, RetireInstance(p, surface, r, c, n, seen)
        PROVE  ManagementInv'
    BY ZenonT(60), <2>0, <2>6, CompletesKeeps DEF RetireInstance
  <2> QED BY ZenonT(60), <2>1, <2>2, <2>3, <2>4, <2>5, <2>6
<1>2. CASE ManagementChanges
  BY <1>2, ManagementChangesKeep
<1>3. CASE UNCHANGED consumerVars
  <2>1. completed' = [r \in Requests |-> completed'[r]] /\ completed' = completed
        /\ UNCHANGED <<identities, grants, effects>>
    BY ZenonT(60), <1>3 DEF consumerVars, managementVars, ManagementInv
  <2> QED BY ZenonT(60), <2>1, ManagementFrame
<1> QED BY <1>1, <1>2, <1>3 DEF RegistryNext

\* Consumer commands share the request ids of the catalog and never spoil it.
THEOREM RegistryKeepsCatalog == RegistrySpec => []CatalogStaysSound
<1>1. RegistryInit => ManagementInv
  BY ManagementInitially DEF RegistryInit
<1>2. ManagementInv /\ [RegistryNext]_consumerVars => ManagementInv'
  BY RegistryKeepsManagement
<1> QED BY <1>1, <1>2, ManagementMeans, PTL DEF RegistrySpec

-----------------------------------------------------------------------------
\* A credential and the use count kept beside it.
CredentialRec ==
  [status : {"active", "revoked"}, id : CredentialIds \cup {"login"}, kind : {"token", "secret-id"},
   audience : {"data", "control"}, identity : Ids, issuer : Ids, request : Requests, parent : Nat,
   generation : Nat, created : Nat, expires : Nat]
UsageRec == [role : Roles \cup {"none"}, remaining : Nat, issued : Nat]
RoleRec == [status : {"none", "active", "deleted"}, identity : Ids, generation : Nat]

CredentialTypes ==
  /\ credentials \in Seq(CredentialRec) /\ usages \in Seq(UsageRec)
  /\ Len(usages) = Len(credentials)
  /\ roles \in [Roles -> RoleRec]
  /\ authIdentities \in [Ids -> IdentityRec]
  /\ now \in Nat
  /\ deletion # NoDeletion => deletion.role \in Roles

\* A token's parent is older than the token.
ParentsOlder == \A t \in 1 .. Len(credentials) : credentials[t].parent < t

\* The authentication catalog has heard of every identity that a credential names.
BearersKnown ==
  \A a \in 1 .. Len(credentials) : authIdentities[credentials[a].identity].status # "none"

\* A retired copy is the control catalog's own row.
RetiredIsFinal ==
  \A i \in Ids : authIdentities[i].status = "retired" => identities[i] = authIdentities[i]

\* No two credentials carry one request.
RequestsApart ==
  \A a, b \in 1 .. Len(credentials) : credentials[a].request = credentials[b].request => a = b

Minted(a) == {t \in Accessors : credentials[t].parent = a}

\* What a secret id has left and what it minted make up what it was issued with.
UsesBalance ==
  \A a \in 1 .. Len(credentials) : credentials[a].kind = "secret-id" =>
    usages[a].remaining + Cardinality(Minted(a)) = usages[a].issued

\* The live secret ids of a role, entry by entry.
Live(a, x) == credentials[a].kind = "secret-id" /\ usages[a].role = x /\ credentials[a].status = "active"

DeletedAreDry ==
  \A x \in Roles : roles[x].status = "deleted" => \A a \in 1 .. Len(credentials) : ~Live(a, x)

AuthorityInv ==
  /\ ManagementInv /\ CredentialTypes /\ ParentsOlder /\ BearersKnown /\ RetiredIsFinal
  /\ RequestsApart /\ UsesBalance /\ DeletedAreDry

\* The minted tokens are finitely many.
LEMMA MintedFinite ==
  ASSUME CredentialTypes, NEW a
  PROVE  IsFiniteSet(Minted(a)) /\ Cardinality(Minted(a)) \in Nat
<1>1. Accessors = 1 .. Len(credentials) /\ Len(credentials) \in Nat
  BY DEF CredentialTypes, Accessors
<1>2. IsFiniteSet(1 .. Len(credentials))
  BY <1>1, FS_Interval
<1>3. Minted(a) \in SUBSET (1 .. Len(credentials))
  BY ZenonT(60), <1>1 DEF Minted
<1> QED BY ZenonT(60), <1>2, <1>3, FS_Subset, FS_CardinalityType

\* The invariant says what the property asks.
LEMMA AuthorityMeans == AuthorityInv => CredentialsAccounted
<1> SUFFICES ASSUME AuthorityInv PROVE CredentialsAccounted
  OBVIOUS
<1>1. Accessors = 1 .. Len(credentials)
  BY DEF AuthorityInv, CredentialTypes, Accessors
<1>2. UsesBuyTokens
  BY ZenonT(60), <1>1 DEF AuthorityInv, UsesBalance, UsesBuyTokens, Minted
<1>3. OneCredentialPerRequest
  <2> SUFFICES ASSUME NEW r \in Requests PROVE Cardinality(ByRequest(r)) <= 1
    BY ZenonT(60) DEF OneCredentialPerRequest
  <2>1. CASE ByRequest(r) = {}
    BY <2>1, FS_EmptySet
  <2>2. CASE ByRequest(r) # {}
    <3>1. PICK a : a \in ByRequest(r)
      BY <2>2
    <3>2. ByRequest(r) = {a}
      BY ZenonT(60), <1>1, <3>1 DEF ByRequest, AuthorityInv, RequestsApart
    <3>3. Cardinality({a}) = 1
      BY ZenonT(60), FS_Singleton
    <3> QED BY <3>2, <3>3
  <2> QED BY ZenonT(60), <2>1, <2>2
<1>4. DeletedRoleHasNoSecretIds
  BY ZenonT(60), <1>1
     DEF AuthorityInv, DeletedAreDry, Live, DeletedRoleHasNoSecretIds, LiveSecretIds, SecretIdsOf
<1> QED BY <1>2, <1>3, <1>4 DEF CredentialsAccounted

\* An appended entry, seen entry by entry.
LEMMA AppendedRow ==
  ASSUME NEW E, NEW s \in Seq(E), NEW n, n = Len(s), NEW c \in E, NEW t, t = Append(s, c)
  PROVE  /\ t \in Seq(E) /\ Len(t) = n + 1 /\ t[n + 1] = c /\ n \in Nat
         /\ \A a \in 1 .. n : t[a] = s[a]
         /\ 1 .. Len(t) = (1 .. n) \cup {n + 1} /\ n + 1 \notin 1 .. n
OBVIOUS

\* The same, of the credentials.
LEMMA CredentialAppended ==
  ASSUME credentials \in Seq(CredentialRec), NEW n, n = Len(credentials), NEW c \in CredentialRec,
         credentials' = Append(credentials, c)
  PROVE  /\ credentials' \in Seq(CredentialRec) /\ Len(credentials') = n + 1
         /\ credentials'[n + 1] = c /\ n \in Nat
         /\ \A a \in 1 .. n : credentials'[a] = credentials[a]
         /\ 1 .. Len(credentials') = (1 .. n) \cup {n + 1} /\ n + 1 \notin 1 .. n
BY AppendedRow

\* One more credential mints for its parent and for nobody else.
LEMMA MintedGrows ==
  ASSUME CredentialTypes, CredentialTypes', ParentsOlder, NEW c \in CredentialRec,
         NEW n, n = Len(credentials), credentials' = Append(credentials, c), c.parent \in 0 .. n
  PROVE  /\ \A a \in 1 .. n :
              Cardinality(Minted(a)') = IF c.parent = a THEN Cardinality(Minted(a)) + 1
                                        ELSE Cardinality(Minted(a))
         /\ Cardinality(Minted(n + 1)') = 0
<1>1. /\ n \in Nat /\ Len(credentials') = n + 1 /\ credentials'[n + 1] = c
      /\ \A a \in 1 .. n : credentials'[a] = credentials[a]
      /\ 1 .. Len(credentials') = (1 .. n) \cup {n + 1} /\ n + 1 \notin 1 .. n
  BY AppendedRow DEF CredentialTypes
<1>2. /\ DOMAIN credentials = 1 .. n /\ DOMAIN credentials' = (1 .. n) \cup {n + 1}
  BY <1>1 DEF CredentialTypes
<1>3. ASSUME NEW a
      PROVE  Minted(a)' = IF c.parent = a THEN Minted(a) \cup {n + 1} ELSE Minted(a)
  <2>1. Minted(a) = {t \in 1 .. n : credentials[t].parent = a}
    BY ZenonT(60), <1>2 DEF Minted, Accessors
  <2>2. Minted(a)' = {t \in (1 .. n) \cup {n + 1} : credentials'[t].parent = a}
    BY ZenonT(60), <1>2 DEF Minted, Accessors
  <2>3. CASE c.parent = a
    <3>1. Minted(a)' = Minted(a) \cup {n + 1}
      BY ZenonT(60), <2>1, <2>2, <2>3, <1>1
    <3> QED BY ZenonT(60), <2>3, <3>1
  <2>4. CASE c.parent # a
    <3>1. ASSUME NEW t PROVE t \in Minted(a)' <=> t \in Minted(a)
      BY ZenonT(60), <2>1, <2>2, <2>4, <1>1
    <3>2. Minted(a)' = Minted(a)
      BY ZenonT(60), <3>1
    <3> QED BY ZenonT(60), <2>4, <3>2
  <2> QED BY ZenonT(60), <2>3, <2>4
<1>4. ASSUME NEW a \in 1 .. n
      PROVE  Cardinality(Minted(a)') = IF c.parent = a THEN Cardinality(Minted(a)) + 1
                                       ELSE Cardinality(Minted(a))
  <2>1. IsFiniteSet(Minted(a)) /\ n + 1 \notin Minted(a)
    BY ZenonT(60), MintedFinite, <1>1, <1>2 DEF Minted, Accessors
  <2>2. Cardinality(Minted(a) \cup {n + 1}) = Cardinality(Minted(a)) + 1
    BY ZenonT(60), <2>1, FS_AddElement
  <2> QED BY ZenonT(60), <1>3, <2>2
<1>5. Minted(n + 1)' = {}
  <2>1. c.parent # n + 1
    BY <1>1
  <2>2. \A t \in 1 .. n : credentials[t].parent \in Nat /\ credentials[t].parent < t
    <3>1. \A t \in 1 .. n : credentials[t] \in CredentialRec
      BY DEF CredentialTypes
    <3> QED BY ZenonT(60), <3>1 DEF ParentsOlder, CredentialRec
  <2>3. Minted(n + 1) = {}
    BY <2>2, <1>1, <1>2 DEF Minted, Accessors
  <2> QED BY ZenonT(60), <1>3, <2>1, <2>3
<1> QED BY ZenonT(60), <1>4, <1>5, FS_EmptySet


\* What a step does to the credentials of others: a bearer keeps its identity, its lifetime and
\* its refusals.
BearersStay ==
  /\ \A a \in 1 .. Len(credentials) :
       /\ a \in 1 .. Len(credentials')
       /\ credentials'[a].kind = credentials[a].kind
       /\ credentials'[a].audience = credentials[a].audience
       /\ credentials'[a].identity = credentials[a].identity
       /\ credentials'[a].expires = credentials[a].expires
       /\ credentials[a].status = "revoked" => credentials'[a].status = "revoked"
  /\ now <= now'
  /\ \A i \in Ids : authIdentities[i].status = "retired" => authIdentities'[i].status = "retired"

\* The use counts after a credential c was added: its parent's is one less.
UsesAfter(c, used) ==
  \A a \in 1 .. Len(credentials) :
    /\ used[a].role = usages[a].role /\ used[a].issued = usages[a].issued
    /\ used[a].remaining = IF c.parent = a THEN usages[a].remaining - 1 ELSE usages[a].remaining

\* No credential carries c's request yet, and c's identity is known.
Admissible(c) ==
  /\ \A a \in 1 .. Len(credentials) : credentials[a].request # c.request
  /\ authIdentities[c.identity].status # "none"

\* A credential more: an issue for an identity or a role, or a login that spends a use.
LEMMA IssueKeeps ==
  ASSUME AuthorityInv, ManagementInv', NEW c \in CredentialRec, NEW u \in UsageRec,
         NEW used \in Seq(UsageRec), NEW n, n = Len(credentials), n = Len(used),
         UNCHANGED <<identities, authIdentities, roles, now, deletion>>,
         credentials' = Append(credentials, c), usages' = Append(used, u), c.parent \in 0 .. n,
         UsesAfter(c, used), Admissible(c),
         c.kind = "secret-id" => u.remaining = u.issued /\ roles[u.role].status = "active"
  PROVE  AuthorityInv' /\ BearersStay
<1>1. /\ credentials' \in Seq(CredentialRec) /\ Len(credentials') = n + 1 /\ n \in Nat
      /\ credentials'[n + 1] = c /\ \A a \in 1 .. n : credentials'[a] = credentials[a]
      /\ 1 .. Len(credentials') = (1 .. n) \cup {n + 1} /\ n + 1 \notin 1 .. n
  <2>1. credentials \in Seq(CredentialRec)
    BY ZenonT(60) DEF AuthorityInv, CredentialTypes
  <2> QED BY ZenonT(60), <2>1, CredentialAppended
<1>2. /\ usages' \in Seq(UsageRec) /\ Len(usages') = n + 1
      /\ usages'[n + 1] = u /\ \A a \in 1 .. n : usages'[a] = used[a]
  BY AppendedRow
<1>3. CredentialTypes'
  BY ZenonT(60), <1>1, <1>2 DEF AuthorityInv, CredentialTypes
<1>4. /\ \A a \in 1 .. n : Cardinality(Minted(a)') = IF c.parent = a THEN Cardinality(Minted(a)) + 1
                                                     ELSE Cardinality(Minted(a))
      /\ Cardinality(Minted(n + 1)') = 0
  BY ZenonT(60), <1>3, MintedGrows DEF AuthorityInv
<1>5. ParentsOlder'
  <2>1. c.parent < n + 1
    BY <1>1
  <2> QED BY ZenonT(60), <1>1, <2>1 DEF AuthorityInv, ParentsOlder
<1>6. BearersKnown'
  <2> SUFFICES ASSUME NEW a \in (1 .. n) \cup {n + 1}
               PROVE  authIdentities[credentials'[a].identity].status # "none"
    BY ZenonT(60), <1>1 DEF BearersKnown
  <2>1. CASE a \in 1 .. n
    BY ZenonT(60), <1>1, <2>1 DEF AuthorityInv, BearersKnown
  <2>2. CASE a = n + 1
    BY ZenonT(60), <1>1, <2>2 DEF Admissible
  <2> QED BY ZenonT(60), <2>1, <2>2
<1>11. RequestsApart'
  <2> SUFFICES ASSUME NEW a \in (1 .. n) \cup {n + 1}, NEW b \in (1 .. n) \cup {n + 1},
                      credentials'[a].request = credentials'[b].request
               PROVE  a = b
    BY ZenonT(60), <1>1 DEF RequestsApart
  <2>1. CASE a \in 1 .. n /\ b \in 1 .. n
    BY ZenonT(60), <1>1, <2>1 DEF AuthorityInv, RequestsApart
  <2>2. CASE a = n + 1 \/ b = n + 1
    BY ZenonT(60), <1>1, <2>2 DEF Admissible
  <2> QED BY ZenonT(60), <2>1, <2>2
<1>7. RetiredIsFinal'
  BY ZenonT(60) DEF AuthorityInv, RetiredIsFinal
<1>8. UsesBalance'
  <2> SUFFICES ASSUME NEW a \in (1 .. n) \cup {n + 1}, credentials'[a].kind = "secret-id"
               PROVE  usages'[a].remaining + Cardinality(Minted(a)') = usages'[a].issued
    BY ZenonT(60), <1>1 DEF UsesBalance
  <2>1. CASE a = n + 1
    BY <1>1, <1>2, <1>4, <2>1 DEF UsageRec
  <2>2. CASE a \in 1 .. n
    <3>1. usages[a].remaining + Cardinality(Minted(a)) = usages[a].issued
      BY ZenonT(60), <1>1, <2>2 DEF AuthorityInv, UsesBalance
    <3>2. usages[a].remaining \in Nat /\ Cardinality(Minted(a)) \in Nat
      <4>1. usages[a] \in UsageRec
        BY <2>2 DEF AuthorityInv, CredentialTypes
      <4> QED BY ZenonT(60), <4>1, MintedFinite DEF AuthorityInv, UsageRec
    <3>3. /\ usages'[a].issued = usages[a].issued
          /\ usages'[a].remaining = IF c.parent = a THEN usages[a].remaining - 1
                                    ELSE usages[a].remaining
      BY ZenonT(60), <1>2, <2>2 DEF UsesAfter
    <3>4. Cardinality(Minted(a)') = IF c.parent = a THEN Cardinality(Minted(a)) + 1
                                    ELSE Cardinality(Minted(a))
      BY ZenonT(60), <1>4, <2>2
    <3>5. CASE c.parent = a
      <4>1. /\ usages'[a].remaining = usages[a].remaining - 1
            /\ Cardinality(Minted(a)') = Cardinality(Minted(a)) + 1
        BY ZenonT(60), <3>3, <3>4, <3>5
      <4> DEFINE x == usages[a].remaining
                 y == Cardinality(Minted(a))
      <4>2. x \in Nat /\ y \in Nat
        BY ZenonT(60), <3>2
      <4> HIDE DEF x, y
      <4>3. (x - 1) + (y + 1) = x + y
        BY <4>2
      <4> QED BY ZenonT(60), <3>1, <3>3, <4>1, <4>3 DEF x, y
    <3>6. CASE c.parent # a
      <4>1. /\ usages'[a].remaining = usages[a].remaining
            /\ Cardinality(Minted(a)') = Cardinality(Minted(a))
        BY ZenonT(60), <3>3, <3>4, <3>6
      <4> QED BY ZenonT(60), <3>1, <3>3, <4>1
    <3> QED BY ZenonT(60), <3>5, <3>6
  <2> QED BY ZenonT(60), <2>1, <2>2
<1>9. DeletedAreDry'
  <2> SUFFICES ASSUME NEW x \in Roles, roles[x].status = "deleted",
                      NEW a \in (1 .. n) \cup {n + 1}
               PROVE  ~Live(a, x)'
    BY ZenonT(60), <1>1 DEF DeletedAreDry
  <2>1. CASE a = n + 1
    BY ZenonT(60), <1>1, <1>2, <2>1 DEF Live
  <2>2. CASE a \in 1 .. n
    <3>1. ~Live(a, x)
      BY ZenonT(60), <2>2 DEF AuthorityInv, DeletedAreDry
    <3>2. credentials'[a] = credentials[a] /\ usages'[a].role = usages[a].role
      BY ZenonT(60), <1>1, <1>2, <2>2 DEF UsesAfter
    <3> QED BY ZenonT(60), <3>1, <3>2 DEF Live
  <2> QED BY ZenonT(60), <2>1, <2>2
<1>10. BearersStay
  <2>1. now <= now'
    BY DEF AuthorityInv, CredentialTypes
  <2> QED BY ZenonT(60), <1>1, <2>1 DEF BearersStay
<1> QED BY ZenonT(60), <1>3, <1>5, <1>6, <1>7, <1>8, <1>9, <1>10, <1>11 DEF AuthorityInv

\* A revoked credential is the old one but for its status.
LEMMA RevokedFields ==
  ASSUME NEW c \in CredentialRec
  PROVE  /\ Revoked(c) \in CredentialRec /\ Revoked(c).status = "revoked"
         /\ Revoked(c).kind = c.kind /\ Revoked(c).audience = c.audience
         /\ Revoked(c).identity = c.identity /\ Revoked(c).expires = c.expires
         /\ Revoked(c).request = c.request /\ Revoked(c).parent = c.parent
<1> DEFINE g == c.generation + 1
           d == [c EXCEPT !.status = "revoked"]
<1>1. g \in Nat
  BY DEF CredentialRec
<1>2. d.generation = c.generation /\ d \in CredentialRec
  BY ZenonT(60) DEF CredentialRec
<1>3. Revoked(c) = [d EXCEPT !.generation = g]
  BY ZenonT(60), <1>2 DEF Revoked
<1> HIDE DEF g
<1> QED BY ZenonT(60), <1>1, <1>2, <1>3 DEF CredentialRec


\* The credentials after those in S were revoked.
RevokedIn(S) ==
  credentials' = [a \in 1 .. Len(credentials) |->
                    IF a \in S THEN Revoked(credentials[a]) ELSE credentials[a]]

\* A role is deleted with its live secret ids revoked, or was deleted before.
DeletionsDry(S) ==
  \A x \in Roles : roles'[x].status = "deleted" =>
    roles[x].status = "deleted" \/ \A a \in 1 .. Len(credentials) : Live(a, x) => a \in S

\* Revocations: of one credential, or of a deleted role's.
LEMMA RevokeKeeps ==
  ASSUME AuthorityInv, ManagementInv', NEW S, RevokedIn(S), DeletionsDry(S),
         UNCHANGED <<identities, authIdentities, usages, now>>, roles' \in [Roles -> RoleRec],
         deletion' # NoDeletion => deletion'.role \in Roles
  PROVE  AuthorityInv' /\ BearersStay
<1> PICK n : n = Len(credentials)
  BY ZenonT(60)
<1>1. n \in Nat /\ DOMAIN credentials = 1 .. n /\ \A a \in 1 .. n : credentials[a] \in CredentialRec
  BY DEF AuthorityInv, CredentialTypes
<1>2. credentials' = [a \in 1 .. n |-> IF a \in S THEN Revoked(credentials[a]) ELSE credentials[a]]
  BY ZenonT(60) DEF RevokedIn
<1>3. ASSUME NEW a \in 1 .. n
      PROVE  /\ credentials'[a] \in CredentialRec
             /\ credentials'[a].kind = credentials[a].kind
             /\ credentials'[a].audience = credentials[a].audience
             /\ credentials'[a].identity = credentials[a].identity
             /\ credentials'[a].expires = credentials[a].expires
             /\ credentials'[a].request = credentials[a].request
             /\ credentials'[a].parent = credentials[a].parent
             /\ credentials[a].status = "revoked" => credentials'[a].status = "revoked"
             /\ a \in S => credentials'[a].status = "revoked"
             /\ a \notin S => credentials'[a] = credentials[a]
  <2>1. CASE a \in S
    <3>1. credentials'[a] = Revoked(credentials[a])
      BY ZenonT(60), <1>2, <2>1
    <3> PICK c \in CredentialRec : c = credentials[a]
      BY ZenonT(60), <1>1
    <3>2. /\ Revoked(c) \in CredentialRec /\ Revoked(c).status = "revoked"
          /\ Revoked(c).kind = c.kind /\ Revoked(c).audience = c.audience
          /\ Revoked(c).identity = c.identity /\ Revoked(c).expires = c.expires
          /\ Revoked(c).request = c.request /\ Revoked(c).parent = c.parent
      BY ZenonT(60), RevokedFields
    <3>3. credentials'[a] = Revoked(c)
      BY ZenonT(60), <3>1
    <3> QED BY ZenonT(60), <2>1, <3>2, <3>3
  <2>2. CASE a \notin S
    <3>1. credentials'[a] = credentials[a]
      BY ZenonT(60), <1>2, <2>2
    <3> QED BY ZenonT(60), <1>1, <2>2, <3>1
  <2> QED BY ZenonT(60), <2>1, <2>2
<1>4. credentials' \in Seq(CredentialRec) /\ Len(credentials') = n /\ DOMAIN credentials' = 1 .. n
  BY <1>1, <1>2, <1>3
<1>5. CredentialTypes'
  BY ZenonT(60), <1>4 DEF AuthorityInv, CredentialTypes
<1>6. ASSUME NEW a PROVE Minted(a)' = Minted(a)
  <2>1. ASSUME NEW t PROVE t \in Minted(a)' <=> t \in Minted(a)
    BY ZenonT(60), <1>1, <1>3, <1>4 DEF Minted, Accessors
  <2> QED BY ZenonT(60), <2>1
<1>7. ParentsOlder'
  BY ZenonT(60), <1>3, <1>4 DEF AuthorityInv, ParentsOlder
<1>8. BearersKnown'
  BY ZenonT(60), <1>3, <1>4 DEF AuthorityInv, BearersKnown
<1>9. RequestsApart'
  BY ZenonT(60), <1>3, <1>4 DEF AuthorityInv, RequestsApart
<1>10. RetiredIsFinal'
  BY ZenonT(60) DEF AuthorityInv, RetiredIsFinal
<1>11. UsesBalance'
  <2> SUFFICES ASSUME NEW a \in 1 .. n, credentials'[a].kind = "secret-id"
               PROVE  usages'[a].remaining + Cardinality(Minted(a)') = usages'[a].issued
    BY ZenonT(60), <1>4 DEF UsesBalance
  <2>1. usages[a].remaining + Cardinality(Minted(a)) = usages[a].issued
    BY ZenonT(60), <1>3 DEF AuthorityInv, UsesBalance
  <2> QED BY ZenonT(60), <2>1, <1>6
<1>12. DeletedAreDry'
  <2> SUFFICES ASSUME NEW x \in Roles, roles'[x].status = "deleted", NEW a \in 1 .. n, Live(a, x)'
               PROVE  FALSE
    BY ZenonT(60), <1>4 DEF DeletedAreDry
  <2>1. a \notin S
    <3>1. "active" # "revoked"
      OBVIOUS
    <3> QED BY ZenonT(60), <1>3, <3>1 DEF Live
  <2>2. Live(a, x)
    BY ZenonT(60), <1>3, <2>1 DEF Live
  <2>3. roles[x].status = "deleted"
    BY ZenonT(60), <2>1, <2>2 DEF DeletionsDry
  <2> QED BY ZenonT(60), <2>2, <2>3 DEF AuthorityInv, DeletedAreDry
<1>13. BearersStay
  <2>1. now <= now'
    BY DEF AuthorityInv, CredentialTypes
  <2> QED BY ZenonT(60), <1>3, <1>4, <2>1 DEF BearersStay
<1> QED BY ZenonT(60), <1>5, <1>7, <1>8, <1>9, <1>10, <1>11, <1>12, <1>13 DEF AuthorityInv

\* A step that leaves the credentials alone: no role is deleted, no identity forgotten.
LEMMA AuthorityFrame ==
  ASSUME AuthorityInv, ManagementInv', RetiredIsFinal', UNCHANGED <<credentials, usages>>,
         roles' \in [Roles -> RoleRec],
         \A x \in Roles : roles'[x].status = "deleted" => roles[x].status = "deleted",
         authIdentities' \in [Ids -> IdentityRec],
         \A i \in Ids : /\ authIdentities[i].status # "none" => authIdentities'[i].status # "none"
                        /\ authIdentities[i].status = "retired" => authIdentities'[i].status = "retired",
         now' \in Nat, now <= now', deletion' # NoDeletion => deletion'.role \in Roles
  PROVE  AuthorityInv' /\ BearersStay
<1>1. CredentialTypes'
  BY ZenonT(60) DEF AuthorityInv, CredentialTypes
<1>2. ASSUME NEW a PROVE Minted(a)' = Minted(a)
  BY ZenonT(60) DEF Minted, Accessors
<1>3. ParentsOlder' /\ RequestsApart'
  BY ZenonT(60) DEF AuthorityInv, ParentsOlder, RequestsApart
<1>4. \A a \in 1 .. Len(credentials) : credentials[a].identity \in Ids
  <2>1. \A a \in 1 .. Len(credentials) : credentials[a] \in CredentialRec
    BY DEF AuthorityInv, CredentialTypes
  <2> QED BY ZenonT(60), <2>1 DEF CredentialRec
<1>5. BearersKnown'
  BY ZenonT(60), <1>4 DEF AuthorityInv, BearersKnown
<1>6. UsesBalance'
  BY ZenonT(60), <1>2 DEF AuthorityInv, UsesBalance
<1>7. DeletedAreDry'
  BY ZenonT(60) DEF AuthorityInv, DeletedAreDry, Live
<1>8. BearersStay
  BY ZenonT(60) DEF BearersStay
<1> QED BY ZenonT(60), <1>1, <1>3, <1>5, <1>6, <1>7, <1>8 DEF AuthorityInv


\* A step that leaves the control catalog alone.
LEMMA ManagementUnchanged == ManagementInv /\ UNCHANGED managementVars => ManagementInv'
<1> SUFFICES ASSUME ManagementInv, UNCHANGED managementVars PROVE ManagementInv'
  OBVIOUS
<1>1. completed' = [r \in Requests |-> completed'[r]] /\ completed' = completed
      /\ UNCHANGED <<identities, grants, effects>>
  BY ZenonT(60) DEF managementVars, ManagementInv
<1> QED BY ZenonT(60), <1>1, ManagementFrame

\* An issue by an operator: a direct token or a secret id.
LEMMA IssueStep ==
  ASSUME AuthorityInv, ManagementInv', NEW r \in Requests, NEW id \in CredentialIds, NEW p \in Ids,
         NEW identity \in Ids, NEW kind \in {"token", "secret-id"},
         NEW audience \in {"data", "control"}, NEW u \in UsageRec,
         kind = "secret-id" => u.remaining = u.issued /\ roles[u.role].status = "active",
         Unissued(r), authIdentities[identity].status = "active",
         credentials' = Append(credentials, Issued(r, id, p, identity, kind, audience, NoParent)),
         usages' = Append(usages, u),
         UNCHANGED <<identities, authIdentities, roles, now, deletion>>
  PROVE  AuthorityInv' /\ BearersStay
<1> PICK c : c = Issued(r, id, p, identity, kind, audience, NoParent)
  BY ZenonT(60)
<1> PICK n : n = Len(credentials)
  BY ZenonT(60)
<1>1. now \in Nat /\ usages \in Seq(UsageRec) /\ Len(usages) = n /\ n \in Nat
      /\ DOMAIN credentials = 1 .. n /\ NoParent = 0
  BY DEF AuthorityInv, CredentialTypes, NoParent
<1>2. NoParent \in Nat /\ id \in CredentialIds \cup {"login"} /\ NoParent \in 0 .. n
      /\ \A a \in 1 .. n : NoParent # a
  BY <1>1
<1>3. /\ c \in CredentialRec /\ c.request = r /\ c.identity = identity /\ c.kind = kind
      /\ c.parent = NoParent
  <2> DEFINE e == now + Ttl
  <2>1. e \in Nat
    BY <1>1, CredentialBounds
  <2>2. c = [status |-> "active", id |-> id, kind |-> kind, audience |-> audience,
             identity |-> identity, issuer |-> p, request |-> r, parent |-> NoParent,
             generation |-> 1, created |-> now, expires |-> e]
    BY ZenonT(60) DEF Issued
  <2> HIDE DEF e
  <2> QED BY <1>1, <1>2, <2>1, <2>2 DEF CredentialRec
<1>4. UsesAfter(c, usages)
  BY ZenonT(60), <1>2, <1>3 DEF UsesAfter
<1>5. Admissible(c)
  <2>1. "active" # "none"
    OBVIOUS
  <2> QED BY ZenonT(60), <1>1, <1>3, <2>1 DEF Admissible, Unissued, ByRequest, Accessors
<1>6. credentials' = Append(credentials, c)
  BY ZenonT(60)
<1>7. c.parent \in 0 .. n
  BY ZenonT(60), <1>2, <1>3
<1>8. c.kind = "secret-id" => u.remaining = u.issued /\ roles[u.role].status = "active"
  BY ZenonT(60), <1>3
<1> QED BY ZenonT(60), <1>1, <1>3, <1>4, <1>5, <1>6, <1>7, <1>8, IssueKeeps

\* A login.
LEMMA LoginStep ==
  ASSUME AuthorityInv, NEW x \in Roles, NEW a \in Accessors, NEW r \in Requests, Login(x, a, r)
  PROVE  AuthorityInv' /\ BearersStay
<1> DEFINE i == credentials[a].identity
           v == [role |-> "none", remaining |-> 0, issued |-> 0]
           o == usages[a]
           k == o.remaining - 1
           used == [usages EXCEPT ![a] = [o EXCEPT !.remaining = k]]
<1> PICK n : n = Len(credentials)
  BY ZenonT(60)
<1> PICK c : c = Issued(r, "login", i, i, "token", "data", a)
  BY ZenonT(60)
<1>1. /\ now \in Nat /\ usages \in Seq(UsageRec) /\ Len(usages) = n /\ n \in Nat
      /\ DOMAIN credentials = 1 .. n /\ a \in 1 .. n /\ DOMAIN usages = 1 .. n
      /\ credentials[a] \in CredentialRec /\ o \in UsageRec
  BY DEF AuthorityInv, CredentialTypes, Accessors
<1>2. i \in Ids /\ o.remaining \in Nat
  BY ZenonT(60), <1>1 DEF CredentialRec, UsageRec
<1>3. a \in Nat /\ a \in 0 .. n /\ "login" \in CredentialIds \cup {"login"}
  BY <1>1
<1>4. k \in Nat /\ o.remaining > 0
  BY <1>2 DEF Login
<1>5. /\ c \in CredentialRec /\ c.request = r /\ c.identity = i /\ c.kind = "token" /\ c.parent = a
  <2> DEFINE e == now + Ttl
  <2>1. e \in Nat
    BY <1>1, CredentialBounds
  <2>2. c = [status |-> "active", id |-> "login", kind |-> "token", audience |-> "data",
             identity |-> i, issuer |-> i, request |-> r, parent |-> a,
             generation |-> 1, created |-> now, expires |-> e]
    BY ZenonT(60) DEF Issued
  <2> HIDE DEF e, i
  <2> QED BY <1>1, <1>2, <1>3, <2>1, <2>2 DEF CredentialRec
<1>6. v \in UsageRec
  <2>1. 0 \in Nat
    OBVIOUS
  <2> QED BY ZenonT(60), <2>1 DEF UsageRec
<1>7. /\ [o EXCEPT !.remaining = k] \in UsageRec /\ [o EXCEPT !.remaining = k].role = o.role
      /\ [o EXCEPT !.remaining = k].issued = o.issued /\ [o EXCEPT !.remaining = k].remaining = k
  <2> HIDE DEF k
  <2> QED BY ZenonT(60), <1>1, <1>4 DEF UsageRec
<1>8. /\ used \in [1 .. n -> UsageRec] /\ used[a] = [o EXCEPT !.remaining = k]
      /\ \A b \in 1 .. n : b # a => used[b] = usages[b]
  <2>1. usages \in [1 .. n -> UsageRec]
    BY <1>1
  <2> HIDE DEF k, o
  <2> QED BY ZenonT(60), <2>1, <1>1, <1>7
<1>9. used \in Seq(UsageRec) /\ Len(used) = n
  <2> HIDE DEF used
  <2> QED BY <1>1, <1>8
<1>10. UsesAfter(c, used)
  <2> SUFFICES ASSUME NEW b \in 1 .. n
               PROVE  /\ used[b].role = usages[b].role /\ used[b].issued = usages[b].issued
                      /\ used[b].remaining = IF c.parent = b THEN usages[b].remaining - 1
                                             ELSE usages[b].remaining
    BY ZenonT(60) DEF UsesAfter
  <2>1. CASE b = a
    BY ZenonT(60), <2>1, <1>5, <1>7, <1>8
  <2>2. CASE b # a
    BY ZenonT(60), <2>2, <1>5, <1>8
  <2> QED BY ZenonT(60), <2>1, <2>2
<1>11. Admissible(c)
  <2>1. Unissued(r)
    BY ZenonT(60) DEF Login
  <2>2. authIdentities[i].status # "none"
    BY ZenonT(60), <1>1 DEF AuthorityInv, BearersKnown
  <2> QED BY ZenonT(60), <1>1, <1>5, <2>1, <2>2 DEF Admissible, Unissued, ByRequest, Accessors
<1>12. credentials' = Append(credentials, c) /\ UNCHANGED managementVars
       /\ UNCHANGED <<identities, authIdentities, roles, now, deletion>>
  BY ZenonT(60) DEF Login, managementVars
<1>13. usages' = Append(used, v)
  BY ZenonT(60), <1>1 DEF Login, Consumed, UsageRec
<1>14. ManagementInv'
  BY ZenonT(60), <1>12, ManagementUnchanged DEF AuthorityInv
<1>15. c.parent \in 0 .. n
  BY ZenonT(60), <1>3, <1>5
<1>16. c.kind = "secret-id" => v.remaining = v.issued /\ roles[v.role].status = "active"
  BY ZenonT(60), <1>5
<1> HIDE DEF used, v
<1> QED BY ZenonT(60), <1>1, <1>5, <1>6, <1>9, <1>10, <1>11, <1>12, <1>13, <1>14, <1>15, <1>16,
           IssueKeeps


\* A role deletion revokes what was confirmed.
DeletionsConfirmed ==
  \A x \in Roles : roles[x].status = "active" /\ roles'[x].status = "deleted" =>
    Cardinality({a \in Accessors : credentials[a].status # credentials'[a].status}) = deletion.count

\* The issues of direct tokens, roles and secret ids.
LEMMA IssuesKeep ==
  ASSUME AuthorityInv, IssueSteps PROVE AuthorityInv' /\ BearersStay /\ DeletionsConfirmed
<1> SUFFICES ASSUME NEW p \in Ids, NEW surface \in BOOLEAN, NEW r \in Requests,
        \/ \E id \in CredentialIds, target \in Ids, audience \in {"data", "control"} :
              TokenIssue(p, surface, r, id, target, audience)
        \/ \E x \in Roles, target \in Ids : RoleCreate(p, surface, r, x, target)
        \/ \E id \in CredentialIds, x \in Roles, uses \in 1 .. MaxUses :
              SecretIdIssue(p, surface, r, id, x, uses)
             PROVE  AuthorityInv' /\ BearersStay /\ DeletionsConfirmed
  BY ZenonT(60) DEF IssueSteps
<1>0. "credential-issue" # "none" /\ "active" # "deleted" /\ "none" # "active"
  OBVIOUS
<1>r. ASSUME NEW target, Recorded(r, "credential-issue", target),
             UNCHANGED <<identities, grants, effects>>
      PROVE  ManagementInv'
  <2>1. Succeed(r, "credential-issue", target) \/ completed' = completed
    BY ZenonT(60), <1>r DEF Recorded
  <2> QED BY ZenonT(60), <1>0, <1>r, <2>1, RecordingKeeps DEF Succeed, AuthorityInv
<1>d. ASSUME roles' = roles PROVE DeletionsConfirmed
  BY ZenonT(60), <1>0, <1>d DEF DeletionsConfirmed
<1>1. ASSUME NEW id \in CredentialIds, NEW target \in Ids, NEW audience \in {"data", "control"},
             TokenIssue(p, surface, r, id, target, audience)
      PROVE  AuthorityInv' /\ BearersStay /\ DeletionsConfirmed
  <2> DEFINE u == [role |-> "none", remaining |-> 0, issued |-> 0]
  <2>1. /\ Unissued(r) /\ authIdentities[target].status = "active"
        /\ credentials' = Append(credentials, Issued(r, id, p, target, "token", audience, NoParent))
        /\ usages' = Append(usages, u)
        /\ UNCHANGED <<identities, authIdentities, roles, now, deletion>>
        /\ Recorded(r, "credential-issue", id) /\ UNCHANGED <<identities, grants, effects>>
    BY ZenonT(60), <1>1 DEF TokenIssue, MayTarget
  <2>2. u \in UsageRec /\ "token" \in {"token", "secret-id"} /\ "token" # "secret-id"
    <3>1. 0 \in Nat
      OBVIOUS
    <3>2. u \in UsageRec
      BY ZenonT(60), <3>1 DEF UsageRec
    <3> QED BY ZenonT(60), <3>2
  <2> HIDE DEF u
  <2>3. ManagementInv'
    BY ZenonT(60), <1>r, <2>1
  <2>4. AuthorityInv' /\ BearersStay
    BY ZenonT(60), <2>1, <2>2, <2>3, IssueStep DEF Issued, Unissued, ByRequest, Accessors
  <2> QED BY ZenonT(60), <1>d, <2>1, <2>4
<1>2. ASSUME NEW id \in CredentialIds, NEW x \in Roles, NEW uses \in 1 .. MaxUses,
             SecretIdIssue(p, surface, r, id, x, uses)
      PROVE  AuthorityInv' /\ BearersStay /\ DeletionsConfirmed
  <2> DEFINE u == [role |-> x, remaining |-> uses, issued |-> uses]
             i == roles[x].identity
  <2>1. /\ Unissued(r) /\ authIdentities[i].status = "active" /\ roles[x].status = "active"
        /\ credentials' = Append(credentials, Issued(r, id, p, i, "secret-id", "data", NoParent))
        /\ usages' = Append(usages, u)
        /\ UNCHANGED <<identities, authIdentities, roles, now, deletion>>
        /\ Recorded(r, "credential-issue", id) /\ UNCHANGED <<identities, grants, effects>>
    BY ZenonT(60), <1>2 DEF SecretIdIssue, MayTarget, IssuesFor
  <2>2. /\ u \in UsageRec /\ u.role = x /\ u.remaining = u.issued /\ "secret-id" \in {"token", "secret-id"}
        /\ "data" \in {"data", "control"}
    <3>1. uses \in Nat
      BY CredentialBounds
    <3> QED BY ZenonT(60), <3>1 DEF UsageRec
  <2> HIDE DEF u
  <2>3. ManagementInv'
    BY ZenonT(60), <1>r, <2>1
  <2>4. i \in Ids
    BY ZenonT(60) DEF AuthorityInv, CredentialTypes, RoleRec
  <2>5. u.remaining = u.issued /\ roles[u.role].status = "active"
    BY ZenonT(60), <2>1, <2>2
  <2> HIDE DEF i
  <2>6. AuthorityInv' /\ BearersStay
    BY ZenonT(60), <2>1, <2>2, <2>3, <2>4, <2>5, IssueStep DEF Issued, Unissued, ByRequest, Accessors
  <2> QED BY ZenonT(60), <1>d, <2>1, <2>6
<1>3. ASSUME NEW x \in Roles, NEW target \in Ids, RoleCreate(p, surface, r, x, target)
      PROVE  AuthorityInv' /\ BearersStay /\ DeletionsConfirmed
  <2> DEFINE o == [status |-> "active", identity |-> target, generation |-> 1]
  <2>1. /\ roles[x].status = "none" /\ roles' = [roles EXCEPT ![x] = o]
        /\ UNCHANGED <<identities, authIdentities, credentials, usages, now, deletion>>
        /\ Recorded(r, "credential-issue", x) /\ UNCHANGED <<identities, grants, effects>>
    BY ZenonT(60), <1>3 DEF RoleCreate
  <2>2. o \in RoleRec /\ o.status = "active"
    <3>1. 1 \in Nat
      OBVIOUS
    <3> QED BY ZenonT(60), <3>1 DEF RoleRec
  <2> HIDE DEF o
  <2>3. /\ roles' \in [Roles -> RoleRec] /\ roles'[x] = o
        /\ \A y \in Roles : y # x => roles'[y] = roles[y]
    BY ZenonT(60), <2>1, <2>2 DEF AuthorityInv, CredentialTypes
  <2>4. \A y \in Roles : roles'[y].status = "deleted" => roles[y].status = "deleted"
    BY ZenonT(60), <1>0, <2>2, <2>3
  <2>5. DeletionsConfirmed
    BY ZenonT(60), <1>0, <2>4 DEF DeletionsConfirmed
  <2>6. ManagementInv'
    BY ZenonT(60), <1>r, <2>1
  <2>7. RetiredIsFinal'
    BY ZenonT(60), <2>1 DEF AuthorityInv, RetiredIsFinal
  <2>8. /\ authIdentities' \in [Ids -> IdentityRec] /\ now' \in Nat
        /\ deletion' # NoDeletion => deletion'.role \in Roles
    BY ZenonT(60), <2>1 DEF AuthorityInv, CredentialTypes
  <2>9. now <= now'
    BY <2>1, <2>8
  <2>10. \A i \in Ids :
           /\ authIdentities[i].status # "none" => authIdentities'[i].status # "none"
           /\ authIdentities[i].status = "retired" => authIdentities'[i].status = "retired"
    BY ZenonT(60), <2>1
  <2>11. AuthorityInv' /\ BearersStay
    BY ZenonT(60), <2>1, <2>3, <2>4, <2>6, <2>7, <2>8, <2>9, <2>10, AuthorityFrame
  <2> QED BY ZenonT(60), <2>5, <2>11
<1> QED BY ZenonT(60), <1>1, <1>2, <1>3


\* A step that leaves roles, identities and the clock alone keeps the rest of the frame.
LEMMA RestOfFrame ==
  ASSUME AuthorityInv, UNCHANGED <<identities, authIdentities, roles, now>>
  PROVE  /\ RetiredIsFinal' /\ DeletionsConfirmed /\ roles' \in [Roles -> RoleRec]
         /\ \A x \in Roles : roles'[x].status = "deleted" => roles[x].status = "deleted"
         /\ authIdentities' \in [Ids -> IdentityRec] /\ now' \in Nat /\ now <= now'
         /\ \A i \in Ids :
              /\ authIdentities[i].status # "none" => authIdentities'[i].status # "none"
              /\ authIdentities[i].status = "retired" => authIdentities'[i].status = "retired"
<1>0. "active" # "deleted"
  OBVIOUS
<1>1. RetiredIsFinal' /\ DeletionsConfirmed
  BY ZenonT(60), <1>0 DEF AuthorityInv, RetiredIsFinal, DeletionsConfirmed
<1>2. roles' \in [Roles -> RoleRec] /\ authIdentities' \in [Ids -> IdentityRec] /\ now' \in Nat
  BY ZenonT(60) DEF AuthorityInv, CredentialTypes
<1>3. now <= now'
  BY <1>2
<1>4. \A i \in Ids : /\ authIdentities[i].status # "none" => authIdentities'[i].status # "none"
                     /\ authIdentities[i].status = "retired" => authIdentities'[i].status = "retired"
  BY ZenonT(60)
<1>5. \A x \in Roles : roles'[x].status = "deleted" => roles[x].status = "deleted"
  BY ZenonT(60)
<1> QED BY ZenonT(60), <1>1, <1>2, <1>3, <1>4, <1>5

\* Revoking one credential.
LEMMA RevokeStep ==
  ASSUME AuthorityInv, NEW p, NEW surface, NEW r \in Requests, NEW a \in Accessors,
         CredentialRevoke(p, surface, r, a)
  PROVE  AuthorityInv' /\ BearersStay /\ DeletionsConfirmed
<1> DEFINE S == IF credentials[a].status = "active" THEN {a} ELSE {}
<1>1. /\ UNCHANGED <<identities, grants, effects, authIdentities, roles, usages, now, deletion>>
      /\ Succeed(r, "credential-revoke", credentials[a].id)
  BY ZenonT(60) DEF CredentialRevoke
<1>2. ManagementInv'
  <2>1. "credential-revoke" # "none"
    OBVIOUS
  <2> QED BY ZenonT(60), <1>1, <2>1, RecordingKeeps DEF Succeed, AuthorityInv
<1>3. RevokedIn(S)
  <2>1. credentials = [b \in 1 .. Len(credentials) |-> credentials[b]] /\ a \in 1 .. Len(credentials)
    BY DEF AuthorityInv, CredentialTypes, Accessors
  <2>2. CASE credentials[a].status = "active"
    <3>1. S = {a} /\ credentials' = [credentials EXCEPT ![a] = Revoked(credentials[a])]
      BY ZenonT(60), <2>1, <2>2 DEF CredentialRevoke, Revoked
    <3> HIDE DEF S
    <3> QED BY ZenonT(60), <2>1, <3>1 DEF RevokedIn
  <2>3. CASE credentials[a].status # "active"
    <3>1. S = {} /\ credentials' = credentials
      BY ZenonT(60), <2>3 DEF CredentialRevoke
    <3> HIDE DEF S
    <3> QED BY ZenonT(60), <2>1, <3>1 DEF RevokedIn
  <2> QED BY ZenonT(60), <2>2, <2>3
<1>4. /\ DeletionsConfirmed /\ roles' \in [Roles -> RoleRec]
      /\ \A x \in Roles : roles'[x].status = "deleted" => roles[x].status = "deleted"
  BY ZenonT(60), <1>1, RestOfFrame
<1> HIDE DEF S
<1>5. DeletionsDry(S)
  BY ZenonT(60), <1>4 DEF DeletionsDry
<1>6. deletion' # NoDeletion => deletion'.role \in Roles
  BY ZenonT(60), <1>1 DEF AuthorityInv, CredentialTypes
<1>7. UNCHANGED <<identities, authIdentities, usages, now>>
  BY ZenonT(60), <1>1
<1>8. AuthorityInv' /\ BearersStay
  BY ZenonT(60), <1>2, <1>3, <1>4, <1>5, <1>6, <1>7, RevokeKeeps DEF RevokedIn, DeletionsDry
<1> QED BY ZenonT(60), <1>4, <1>8

\* Deleting a role.
LEMMA DeleteStep ==
  ASSUME AuthorityInv, NEW p, NEW surface, NEW r \in Requests, RoleDelete(p, surface, r)
  PROVE  AuthorityInv' /\ BearersStay /\ DeletionsConfirmed
<1> PICK x : x = deletion.role
  BY ZenonT(60)
<1> PICK S : S = LiveSecretIds(x)
  BY ZenonT(60)
<1> PICK n : n = Len(credentials)
  BY ZenonT(60)
<1>0. x \in Roles /\ n \in Nat /\ Accessors = 1 .. n /\ deletion.role \in Roles
  BY DEF AuthorityInv, CredentialTypes, RoleDelete, Accessors
<1>1. /\ UNCHANGED <<identities, grants, effects, authIdentities, usages, now>>
      /\ Succeed(r, "credential-revoke", deletion.role) /\ roles[x].status = "active"
      /\ deletion' = NoDeletion /\ Cardinality(S) = deletion.count
  BY ZenonT(60) DEF RoleDelete, DeletionCurrent
<1>2. ManagementInv'
  <2>1. "credential-revoke" # "none"
    OBVIOUS
  <2> QED BY ZenonT(60), <1>1, <2>1, RecordingKeeps DEF Succeed, AuthorityInv
<1>3. RevokedIn(S)
  BY ZenonT(60), <1>0 DEF RoleDelete, RevokedIn
<1>4. /\ roles' \in [Roles -> RoleRec] /\ \A y \in Roles : y # x => roles'[y] = roles[y]
  <2> DEFINE o == roles[x]
             g == o.generation + 1
             d == [o EXCEPT !.status = "deleted"]
             e == [d EXCEPT !.generation = g]
  <2>1. o \in RoleRec /\ roles \in [Roles -> RoleRec]
    BY ZenonT(60), <1>0 DEF AuthorityInv, CredentialTypes
  <2>2. d \in RoleRec /\ d.generation = o.generation
    BY ZenonT(60), <2>1 DEF RoleRec
  <2>3. g \in Nat
    BY <2>1 DEF RoleRec
  <2>4. e \in RoleRec
    <3> HIDE DEF g, d
    <3> QED BY ZenonT(60), <2>2, <2>3 DEF RoleRec
  <2>5. roles' = [roles EXCEPT ![x] = e]
    <3>1. roles' = [roles EXCEPT ![x].status = "deleted", ![x].generation = @ + 1]
      BY ZenonT(60) DEF RoleDelete
    <3> QED BY ZenonT(60), <3>1, <2>1, <1>0 DEF RoleRec
  <2> HIDE DEF e
  <2> QED BY ZenonT(60), <2>1, <2>4, <2>5
<1>5. DeletionsDry(S)
  <2> SUFFICES ASSUME NEW y \in Roles, roles'[y].status = "deleted", roles[y].status # "deleted"
               PROVE  \A a \in 1 .. n : Live(a, y) => a \in S
    BY ZenonT(60) DEF DeletionsDry
  <2>1. y = x
    BY ZenonT(60), <1>4
  <2> QED BY ZenonT(60), <1>0, <2>1 DEF Live, LiveSecretIds, SecretIdsOf
<1>6. DeletionsConfirmed
  <2> SUFFICES ASSUME NEW y \in Roles, roles[y].status = "active", roles'[y].status = "deleted"
               PROVE  Cardinality({a \in 1 .. n : credentials[a].status # credentials'[a].status})
                        = deletion.count
    BY ZenonT(60), <1>0 DEF DeletionsConfirmed
  <2>1. ASSUME NEW a \in 1 .. n PROVE credentials[a].status # credentials'[a].status <=> a \in S
    <3>1. credentials'[a] = IF a \in S THEN Revoked(credentials[a]) ELSE credentials[a]
      BY ZenonT(60), <1>3 DEF RevokedIn
    <3>2. CASE a \in S
      <4>1. credentials[a].status = "active"
        BY ZenonT(60), <3>2 DEF LiveSecretIds
      <4>2. credentials[a] \in CredentialRec
        BY DEF AuthorityInv, CredentialTypes
      <4>3. credentials'[a].status = "revoked"
        BY ZenonT(60), <3>1, <3>2, <4>2, RevokedFields
      <4> QED BY ZenonT(60), <3>2, <4>1, <4>3
    <3>3. CASE a \notin S
      BY ZenonT(60), <3>1, <3>3
    <3> QED BY ZenonT(60), <3>2, <3>3
  <2>2. S \in SUBSET (1 .. n)
    BY ZenonT(60), <1>0 DEF LiveSecretIds, SecretIdsOf
  <2>3. {a \in 1 .. n : credentials[a].status # credentials'[a].status} = S
    BY ZenonT(60), <2>1, <2>2
  <2> QED BY ZenonT(60), <1>1, <2>3
<1>7. UNCHANGED <<identities, authIdentities, usages, now>>
  BY ZenonT(60), <1>1
<1>8. AuthorityInv' /\ BearersStay
  BY ZenonT(60), <1>1, <1>2, <1>3, <1>4, <1>5, <1>7, RevokeKeeps DEF RevokedIn, DeletionsDry
<1> QED BY ZenonT(60), <1>6, <1>8


\* The control catalog never brings a retired row back.
LEMMA RetiredRowsStay ==
  ASSUME ManagementInv, ManagementChanges, NEW i \in Ids, identities[i].status = "retired"
  PROVE  identities'[i] = identities[i]
<1>0. "retired" # "none" /\ "retired" # "active"
  OBVIOUS
<1>1. ASSUME NEW p, NEW surface, NEW r, NEW j, NEW name, NEW kind,
             CreateIdentity(p, surface, r, j, name, kind)
      PROVE  identities'[i] = identities[i]
  <2>1. j # i /\ \E x : identities' = [identities EXCEPT ![j] = x]
    BY ZenonT(60), <1>0, <1>1 DEF CreateIdentity
  <2> QED BY ZenonT(60), <2>1 DEF ManagementInv
<1>2. ASSUME NEW p, NEW surface, NEW r, NEW j \in Ids, NEW g, DisableIdentity(p, surface, r, j, g)
      PROVE  identities'[i] = identities[i]
  <2>1. /\ j # i
        /\ identities' = [identities EXCEPT ![j].status = "retired", ![j].generation = @ + 1]
    BY ZenonT(60), <1>0, <1>2 DEF DisableIdentity
  <2>2. identities \in [Ids -> IdentityRec]
    BY ZenonT(60) DEF ManagementInv
  <2> QED BY ZenonT(60), <2>1, <2>2
<1>3. ASSUME NEW p, NEW surface, NEW r, NEW g,
             \/ \E owner, shape : AddGrant(p, surface, r, g, owner, shape)
             \/ \E h : RemoveGrant(p, surface, r, g, h)
      PROVE  identities'[i] = identities[i]
  BY ZenonT(60), <1>3 DEF AddGrant, RemoveGrant
<1> QED BY ZenonT(60), <1>1, <1>2, <1>3 DEF ManagementChanges

\* The clock, the confirmation, the copy of an identity and the catalog's own changes.
LEMMA OtherSteps ==
  ASSUME AuthorityInv,
         \/ \E p \in Ids, surface \in BOOLEAN, x \in Roles : ConfirmDeletion(p, surface, x)
         \/ \E value \in 1 .. MaxNow : SetEffectiveSeconds(value)
         \/ \E i \in Ids : InstallIdentity(i)
         \/ ManagementChanges /\ UNCHANGED credentialVars
         \/ UNCHANGED authorityVars
  PROVE  AuthorityInv' /\ BearersStay /\ DeletionsConfirmed
<1>0. ManagementInv
  BY ZenonT(60) DEF AuthorityInv
<1>1. CASE UNCHANGED authorityVars
  <2>1. UNCHANGED <<identities, authIdentities, roles, now>> /\ UNCHANGED <<credentials, usages>>
        /\ UNCHANGED managementVars /\ deletion' = deletion
    BY ZenonT(60), <1>1 DEF authorityVars, managementVars, credentialVars
  <2>2. ManagementInv'
    BY ZenonT(60), <1>0, <2>1, ManagementUnchanged
  <2>3. deletion' # NoDeletion => deletion'.role \in Roles
    BY ZenonT(60), <2>1 DEF AuthorityInv, CredentialTypes
  <2> QED BY ZenonT(60), <2>1, <2>2, <2>3, RestOfFrame, AuthorityFrame
<1>2. ASSUME NEW p \in Ids, NEW surface \in BOOLEAN, NEW x \in Roles, ConfirmDeletion(p, surface, x)
      PROVE  AuthorityInv' /\ BearersStay /\ DeletionsConfirmed
  <2>1. UNCHANGED <<identities, authIdentities, roles, now>> /\ UNCHANGED <<credentials, usages>>
        /\ UNCHANGED managementVars /\ deletion'.role = x
    BY ZenonT(60), <1>2 DEF ConfirmDeletion, managementVars
  <2>2. ManagementInv'
    BY ZenonT(60), <1>0, <2>1, ManagementUnchanged
  <2>3. deletion' # NoDeletion => deletion'.role \in Roles
    BY ZenonT(60), <2>1
  <2> QED BY ZenonT(60), <2>1, <2>2, <2>3, RestOfFrame, AuthorityFrame
<1>3. ASSUME NEW value \in 1 .. MaxNow, SetEffectiveSeconds(value)
      PROVE  AuthorityInv' /\ BearersStay /\ DeletionsConfirmed
  <2>1. UNCHANGED <<authIdentities, roles, credentials, usages, deletion>>
        /\ UNCHANGED managementVars /\ now' = value /\ value >= now /\ identities' = identities
    BY ZenonT(60), <1>3 DEF SetEffectiveSeconds, managementVars
  <2>2. ManagementInv'
    BY ZenonT(60), <1>0, <2>1, ManagementUnchanged
  <2>3. /\ deletion' # NoDeletion => deletion'.role \in Roles
        /\ roles' \in [Roles -> RoleRec] /\ authIdentities' \in [Ids -> IdentityRec] /\ now \in Nat
    BY ZenonT(60), <2>1 DEF AuthorityInv, CredentialTypes
  <2>4. now' \in Nat /\ now <= now' /\ "active" # "deleted"
    BY <2>1, <2>3
  <2>5. RetiredIsFinal' /\ DeletionsConfirmed
    BY ZenonT(60), <2>1, <2>4 DEF AuthorityInv, RetiredIsFinal, DeletionsConfirmed
  <2>6. /\ \A x \in Roles : roles'[x].status = "deleted" => roles[x].status = "deleted"
        /\ \A i \in Ids :
             /\ authIdentities[i].status # "none" => authIdentities'[i].status # "none"
             /\ authIdentities[i].status = "retired" => authIdentities'[i].status = "retired"
    BY ZenonT(60), <2>1
  <2> QED BY ZenonT(60), <2>1, <2>2, <2>3, <2>4, <2>5, <2>6, AuthorityFrame
<1>4. ASSUME NEW i \in Ids, InstallIdentity(i)
      PROVE  AuthorityInv' /\ BearersStay /\ DeletionsConfirmed
  <2>1. /\ UNCHANGED <<roles, credentials, usages, deletion, now>> /\ identities' = identities
        /\ UNCHANGED managementVars /\ authIdentities' = [authIdentities EXCEPT ![i] = identities[i]]
        /\ identities[i].status # "none"
        /\ \/ authIdentities[i].status = "none"
           \/ identities[i].generation = authIdentities[i].generation + 1
    BY ZenonT(60), <1>4 DEF InstallIdentity, managementVars
  <2>2. ManagementInv'
    BY ZenonT(60), <1>0, <2>1, ManagementUnchanged
  <2>3. /\ deletion' # NoDeletion => deletion'.role \in Roles
        /\ roles' \in [Roles -> RoleRec] /\ authIdentities \in [Ids -> IdentityRec] /\ now \in Nat
        /\ identities[i] \in IdentityRec
    BY ZenonT(60), <2>1 DEF AuthorityInv, CredentialTypes, ManagementInv
  <2>4. /\ authIdentities' \in [Ids -> IdentityRec] /\ authIdentities'[i] = identities[i]
        /\ \A j \in Ids : j # i => authIdentities'[j] = authIdentities[j]
    BY ZenonT(60), <2>1, <2>3
  <2>5. now' \in Nat /\ now <= now' /\ "active" # "deleted" /\ "retired" # "none"
    BY <2>1, <2>3
  <2>6. RetiredIsFinal'
    BY ZenonT(60), <2>1, <2>4 DEF AuthorityInv, RetiredIsFinal
  <2>7. DeletionsConfirmed
    BY ZenonT(60), <2>1, <2>5 DEF DeletionsConfirmed
  <2>8. authIdentities[i].status # "retired"
    <3>1. SUFFICES ASSUME authIdentities[i].status = "retired" PROVE FALSE
      OBVIOUS
    <3>2. identities[i] = authIdentities[i]
      BY ZenonT(60), <3>1 DEF AuthorityInv, RetiredIsFinal
    <3>3. identities[i].generation \in Nat
      BY ZenonT(60), <2>3 DEF IdentityRec
    <3>4. identities[i].generation = authIdentities[i].generation + 1
      BY ZenonT(60), <2>1, <2>5, <3>1
    <3> QED BY <3>2, <3>3, <3>4
  <2>9. /\ \A x \in Roles : roles'[x].status = "deleted" => roles[x].status = "deleted"
        /\ \A j \in Ids :
             /\ authIdentities[j].status # "none" => authIdentities'[j].status # "none"
             /\ authIdentities[j].status = "retired" => authIdentities'[j].status = "retired"
    BY ZenonT(60), <2>1, <2>4, <2>8
  <2> QED BY ZenonT(60), <2>1, <2>2, <2>3, <2>4, <2>5, <2>6, <2>7, <2>9, AuthorityFrame
<1>5. CASE ManagementChanges /\ UNCHANGED credentialVars
  <2>1. UNCHANGED <<authIdentities, roles, credentials, usages, now, deletion>>
    BY ZenonT(60), <1>5 DEF credentialVars
  <2>2. ManagementInv'
    BY ZenonT(60), <1>0, <1>5, ManagementChangesKeep
  <2>3. /\ deletion' # NoDeletion => deletion'.role \in Roles
        /\ roles' \in [Roles -> RoleRec] /\ authIdentities' \in [Ids -> IdentityRec] /\ now \in Nat
    BY ZenonT(60), <2>1 DEF AuthorityInv, CredentialTypes
  <2>4. now' \in Nat /\ now <= now' /\ "active" # "deleted"
    BY <2>1, <2>3
  <2>5. DeletionsConfirmed
    BY ZenonT(60), <2>1, <2>4 DEF DeletionsConfirmed
  <2>6. RetiredIsFinal'
    <3> SUFFICES ASSUME NEW i \in Ids, authIdentities[i].status = "retired"
                 PROVE  identities'[i] = authIdentities[i]
      BY ZenonT(60), <2>1 DEF RetiredIsFinal
    <3>1. identities[i] = authIdentities[i]
      BY ZenonT(60) DEF AuthorityInv, RetiredIsFinal
    <3>2. identities[i].status = "retired"
      BY ZenonT(60), <3>1
    <3> QED BY ZenonT(60), <1>0, <1>5, <3>1, <3>2, RetiredRowsStay
  <2>7. /\ \A x \in Roles : roles'[x].status = "deleted" => roles[x].status = "deleted"
        /\ \A i \in Ids :
             /\ authIdentities[i].status # "none" => authIdentities'[i].status # "none"
             /\ authIdentities[i].status = "retired" => authIdentities'[i].status = "retired"
    BY ZenonT(60), <2>1
  <2> QED BY ZenonT(60), <2>1, <2>2, <2>3, <2>4, <2>5, <2>6, <2>7, AuthorityFrame
<1> QED BY ZenonT(60), <1>1, <1>2, <1>3, <1>4, <1>5


\* Every step of the authority.
LEMMA AuthorityStep ==
  ASSUME AuthorityInv, [AuthorityNext]_authorityVars
  PROVE  AuthorityInv' /\ BearersStay /\ DeletionsConfirmed
<1>1. CASE IssueSteps
  BY ZenonT(60), <1>1, IssuesKeep
<1>2. ASSUME NEW x \in Roles, NEW a \in Accessors, NEW r \in Requests, Login(x, a, r)
      PROVE  AuthorityInv' /\ BearersStay /\ DeletionsConfirmed
  <2>1. AuthorityInv' /\ BearersStay
    BY ZenonT(60), <1>2, LoginStep
  <2>2. roles' = roles /\ "active" # "deleted"
    BY ZenonT(60), <1>2 DEF Login
  <2> QED BY ZenonT(60), <2>1, <2>2 DEF DeletionsConfirmed
<1>3. ASSUME NEW p, NEW surface, NEW r \in Requests, NEW a \in Accessors,
             CredentialRevoke(p, surface, r, a)
      PROVE  AuthorityInv' /\ BearersStay /\ DeletionsConfirmed
  BY ZenonT(60), <1>3, RevokeStep
<1>4. ASSUME NEW p, NEW surface, NEW r \in Requests, RoleDelete(p, surface, r)
      PROVE  AuthorityInv' /\ BearersStay /\ DeletionsConfirmed
  BY ZenonT(60), <1>4, DeleteStep
<1>5. CASE RevokeSteps
  <2>1. \/ \E p \in Ids, surface \in BOOLEAN, r \in Requests, a \in Accessors :
              CredentialRevoke(p, surface, r, a)
        \/ \E p \in Ids, surface \in BOOLEAN, x \in Roles : ConfirmDeletion(p, surface, x)
        \/ \E p \in Ids, surface \in BOOLEAN, r \in Requests : RoleDelete(p, surface, r)
    BY ZenonT(60), <1>5 DEF RevokeSteps
  <2>2. CASE \E p \in Ids, surface \in BOOLEAN, x \in Roles : ConfirmDeletion(p, surface, x)
    BY ZenonT(60), <2>2, OtherSteps
  <2> QED BY ZenonT(60), <1>3, <1>4, <2>1, <2>2
<1>6. CASE LoginSteps
  <2>1. CASE \E value \in 1 .. MaxNow : SetEffectiveSeconds(value)
    BY ZenonT(60), <2>1, OtherSteps
  <2>2. CASE \E i \in Ids : InstallIdentity(i)
    BY ZenonT(60), <2>2, OtherSteps
  <2> QED BY ZenonT(60), <1>2, <1>6, <2>1, <2>2 DEF LoginSteps
<1>7. CASE ManagementChanges /\ UNCHANGED credentialVars
  BY ZenonT(60), <1>7, OtherSteps
<1>8. CASE UNCHANGED authorityVars
  BY ZenonT(60), <1>8, OtherSteps
<1> QED BY ZenonT(60), <1>1, <1>5, <1>6, <1>7, <1>8 DEF AuthorityNext

\* The authority starts without credentials.
LEMMA AuthorityInitially == AuthorityInit => AuthorityInv
<1> SUFFICES ASSUME AuthorityInit PROVE AuthorityInv
  OBVIOUS
<1>1. ManagementInv
  BY ZenonT(60), ManagementInitially DEF AuthorityInit
<1>2. NoRole \in RoleRec /\ NoRole.status = "none"
  <2>1. 0 \in Nat /\ Root \in Ids
    BY ZenonT(60), ManagementConstants
  <2> QED BY ZenonT(60), <2>1 DEF NoRole, RoleRec
<1>3. /\ credentials = <<>> /\ usages = <<>> /\ roles = [x \in Roles |-> NoRole]
      /\ authIdentities = identities /\ now = 1 /\ deletion = NoDeletion
  BY ZenonT(60) DEF AuthorityInit
<1>4. CredentialTypes
  <2>1. authIdentities \in [Ids -> IdentityRec]
    BY ZenonT(60), <1>1, <1>3 DEF ManagementInv
  <2>2. roles \in [Roles -> RoleRec]
    BY ZenonT(60), <1>2, <1>3
  <2> QED BY <1>3, <2>1, <2>2 DEF CredentialTypes
<1>5. \A a \in 1 .. Len(credentials) : FALSE
  BY <1>3
<1>6. ParentsOlder /\ BearersKnown /\ RequestsApart /\ UsesBalance /\ DeletedAreDry
  BY ZenonT(60), <1>5 DEF ParentsOlder, BearersKnown, RequestsApart, UsesBalance, DeletedAreDry
<1>7. RetiredIsFinal
  BY ZenonT(60), <1>3 DEF RetiredIsFinal
<1> QED BY ZenonT(60), <1>1, <1>4, <1>6, <1>7 DEF AuthorityInv

\* However many roles, secret ids, requests and uses, and however logins, retries, revocations
\* and deletions interleave: every token is paid with one use of its secret id, a request mints
\* at most one credential, and a deleted role has no live secret id.
THEOREM AuthorityAccounts == AuthoritySpec => []CredentialsAccounted
<1>1. AuthorityInv /\ [AuthorityNext]_authorityVars => AuthorityInv'
  BY ZenonT(60), AuthorityStep
<1> QED BY <1>1, AuthorityInitially, AuthorityMeans, PTL DEF AuthoritySpec

\* The credential commands share the request ids of the catalog and never spoil it.
THEOREM AuthorityKeepsCatalog == AuthoritySpec => []CatalogStaysSound
<1>1. AuthorityInv /\ [AuthorityNext]_authorityVars => AuthorityInv'
  BY AuthorityStep
<1>2. AuthorityInv => CatalogStaysSound
  BY ZenonT(60), ManagementMeans DEF AuthorityInv
<1> QED BY <1>1, <1>2, AuthorityInitially, PTL DEF AuthoritySpec

\* What was refused stays refused.
LEMMA RefusedStays ==
  ASSUME AuthorityInv, AuthorityInv', BearersStay, NEW a \in Accessors,
         NEW audience \in {"data", "control"}, credentials[a].kind = "token",
         credentials[a].audience = audience, ~Authenticated(a, audience)
  PROVE  ~Authenticated(a, audience)' /\ ReadDecision(a)' # "allow"
<1> PICK i : i = credentials[a].identity
  BY ZenonT(60)
<1>1. a \in 1 .. Len(credentials) /\ credentials[a] \in CredentialRec /\ now \in Nat
  BY DEF AuthorityInv, CredentialTypes, Accessors
<1>2. /\ i \in Ids /\ credentials[a].expires \in Nat
      /\ credentials[a].status \in {"active", "revoked"}
  BY ZenonT(60), <1>1 DEF CredentialRec
<1>3. /\ a \in 1 .. Len(credentials') /\ credentials'[a].kind = "token"
      /\ credentials'[a].audience = audience /\ credentials'[a].identity = i
      /\ credentials'[a].expires = credentials[a].expires
      /\ credentials[a].status = "revoked" => credentials'[a].status = "revoked"
  BY ZenonT(60), <1>1 DEF BearersStay
<1>4. now' \in Nat /\ now <= now' /\ (authIdentities[i].status = "retired"
         => authIdentities'[i].status = "retired")
  BY ZenonT(60), <1>2 DEF BearersStay, AuthorityInv, CredentialTypes
<1>5. authIdentities[i].status \in {"none", "active", "retired"} /\ authIdentities[i].status # "none"
  BY ZenonT(60), <1>1, <1>2 DEF AuthorityInv, BearersKnown, CredentialTypes, IdentityRec
<1>6. \/ credentials[a].status = "revoked"
      \/ ~(now < credentials[a].expires)
      \/ authIdentities[i].status = "retired"
  BY ZenonT(60), <1>2, <1>5 DEF Authenticated, Verifies
<1>7. \/ credentials'[a].status = "revoked"
      \/ ~(now' < credentials'[a].expires)
      \/ authIdentities'[i].status = "retired"
  BY <1>1, <1>2, <1>3, <1>4, <1>6
<1>8. ~Authenticated(a, audience)'
  BY ZenonT(60), <1>3, <1>7 DEF Authenticated, Verifies
<1>9. ReadDecision(a)' # "allow"
  <2> PICK e : e = credentials'[a].expires
    BY ZenonT(60)
  <2> PICK s : s = credentials'[a].status
    BY ZenonT(60)
  <2> DEFINE token == [status |-> s, expires |-> e, epoch |-> 1, identity |-> i]
             resource == [mount |-> "secret", segments |-> <<"app">>]
  <2>1. ReadDecision(a)' = TokenAuthorize(token, authIdentities'[i], {grants'[g] : g \in GrantIds},
                             SecretRequest(resource, "data", "read", FALSE), now', 1)
    BY ZenonT(60), <1>3 DEF ReadDecision
  <2>2. s = "revoked" \/ now' >= e \/ authIdentities'[i].status = "retired"
    <3>1. e \in Nat /\ now' \in Nat
      BY ZenonT(60), <1>2, <1>3, <1>4
    <3>2. ~(now' < e) => now' >= e
      BY <3>1
    <3> QED BY ZenonT(60), <1>7, <3>2
  <2>3. token.status = s /\ token.expires = e
    OBVIOUS
  <2> HIDE DEF token
  <2> QED BY ZenonT(60), <2>1, <2>2, <2>3 DEF TokenAuthorize
<1> QED BY ZenonT(60), <1>8, <1>9

\* For any number of credentials and identities: a bearer once refused for good stays refused at
\* every listener and in every authorization decision, and a role deletion revokes exactly the
\* number of secret ids that was confirmed.
THEOREM AuthorityKeepsWord == AuthoritySpec => AuthorityKeepsItsWord
<1>1. AuthorityInv /\ [AuthorityNext]_authorityVars => AuthorityInv'
  BY AuthorityStep
<1>2. AuthorityInv /\ [AuthorityNext]_authorityVars =>
        [\A a \in Accessors, audience \in {"data", "control"} :
          credentials[a].kind = "token" /\ credentials[a].audience = audience
              /\ ~Authenticated(a, audience)
              => ~Authenticated(a, audience)' /\ ReadDecision(a)' # "allow"]_authorityVars
  <2> SUFFICES ASSUME AuthorityInv, [AuthorityNext]_authorityVars, NEW a \in Accessors,
                      NEW audience \in {"data", "control"}, credentials[a].kind = "token",
                      credentials[a].audience = audience, ~Authenticated(a, audience)
               PROVE  ~Authenticated(a, audience)' /\ ReadDecision(a)' # "allow"
    OBVIOUS
  <2> QED BY ZenonT(60), AuthorityStep, RefusedStays
<1>3. AuthorityInv /\ [AuthorityNext]_authorityVars =>
        [\A x \in Roles : roles[x].status = "active" /\ roles'[x].status = "deleted" =>
          Cardinality({a \in Accessors : credentials[a].status # credentials'[a].status})
              = deletion.count]_authorityVars
  BY ZenonT(60), AuthorityStep DEF DeletionsConfirmed
<1> QED BY <1>1, <1>2, <1>3, AuthorityInitially, PTL
        DEF AuthoritySpec, AuthorityKeepsItsWord, RefusedStaysRefused, DeletesWhatWasConfirmed
=============================================================================
