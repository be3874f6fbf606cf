-------------------------- MODULE ConsumerRegistry --------------------------
(***************************************************************************)
(* The registry of declared consumers and their instances (consumer.rs),    *)
(* driven over the control socket and recorded in the control catalog.      *)
(*                                                                          *)
(* The registry remembers the triples (request, command, target) it         *)
(* completed; the control catalog remembers one command and target for each *)
(* request id.  A mutation is applied first and recorded second: when the   *)
(* request id already settled something else, the record is refused, the    *)
(* caller is told of a conflict, and the row stays changed.                 *)
(***************************************************************************)
EXTENDS ControlManagement

CONSTANTS Consumers, Instances, Labels, MaxRowGeneration

VARIABLES consumers,  \* consumer id -> its row
          instances,  \* <<consumer, instance>> -> its row
          done,       \* the triples the registry completed
          unrecorded  \* history: the mutations applied without an audit row

registryVars == <<consumers, instances, done, unrecorded>>
consumerVars == <<managementVars, registryVars>>

NoRow == [lifecycle |-> "none", label |-> "none", generation |-> 0]

RegistryInit ==
    /\ ManagementInit
    /\ consumers = [c \in Consumers |-> NoRow]
    /\ instances = [k \in Consumers \X Instances |-> NoRow]
    /\ done = {} /\ unrecorded = {}

CanAdvance_Mutant(from, to) == from # to

CanAdvance(from, to) ==
    <<from, to>> \in {<<"declared", "migrated">>, <<"declared", "retired">>, <<"migrated", "retired">>}

\* After a row changed: remember the triple, then record_command_success, whose conflict comes
\* too late to undo anything.
Completes(r, command, target) ==
    /\ <<r, command, target>> \notin done
    /\ done' = done \cup {<<r, command, target>>}
    /\ IF completed[r] = NoCommand
         THEN Succeed(r, command, target) /\ UNCHANGED unrecorded
         ELSE /\ UNCHANGED completed
              /\ unrecorded' = IF completed[r] = <<command, target>> THEN unrecorded
                               ELSE unrecorded \cup {<<command, target>>}
    /\ UNCHANGED <<identities, grants, effects>>

Declared(label) == [lifecycle |-> "declared", label |-> label, generation |-> 1]

CreateConsumer(p, surface, r, c, label) ==
    /\ Authorized(p, surface, "consumer-create")
    /\ consumers[c] = NoRow
    /\ \A d \in Consumers : consumers[d].label # label
    /\ consumers' = [consumers EXCEPT ![c] = Declared(label)]
    /\ Completes(r, "consumer-create", c)
    /\ UNCHANGED instances

\* The parent must exist; its lifecycle is not looked at.
CreateInstance(p, surface, r, c, n, label) ==
    /\ Authorized(p, surface, "consumer-create")
    /\ consumers[c] # NoRow
    /\ \A d \in Consumers : instances[<<d, n>>] = NoRow
    /\ \A m \in Instances : instances[<<c, m>>].label # label
    /\ instances' = [instances EXCEPT ![<<c, n>>] = Declared(label)]
    /\ Completes(r, "consumer-create", n)
    /\ UNCHANGED consumers

\* A row replaced by its next generation; `to' is the lifecycle an update asks for, or "same".
Updated(row, to) ==
    [row EXCEPT !.generation = @ + 1, !.lifecycle = IF to = "same" THEN @ ELSE to]

MayUpdate(row, expected, to) ==
    /\ row # NoRow /\ row.generation = expected /\ expected < MaxRowGeneration
    /\ to # "same" => CanAdvance(row.lifecycle, to) /\ to # "retired"

UpdateConsumer(p, surface, r, c, expected, to) ==
    /\ Authorized(p, surface, "consumer-update")
    /\ MayUpdate(consumers[c], expected, to)
    /\ consumers' = [consumers EXCEPT ![c] = Updated(@, to)]
    /\ Completes(r, "consumer-update", c)
    /\ UNCHANGED instances

UpdateInstance(p, surface, r, c, n, expected, to) ==
    /\ Authorized(p, surface, "consumer-update")
    /\ MayUpdate(instances[<<c, n>>], expected, to)
    /\ instances' = [instances EXCEPT ![<<c, n>>] = Updated(@, to)]
    /\ Completes(r, "consumer-update", n)
    /\ UNCHANGED consumers

ChildrenRetired(c) == \A n \in Instances : instances[<<c, n>>].lifecycle \in {"none", "retired"}

MayRetire(row, expected) ==
    /\ row.generation = expected /\ expected < MaxRowGeneration
    /\ CanAdvance(row.lifecycle, "retired")

RetireConsumer(p, surface, r, c, expected) ==
    /\ Authorized(p, surface, "consumer-retire")
    /\ ChildrenRetired(c)
    /\ MayRetire(consumers[c], expected)
    /\ consumers' = [consumers EXCEPT ![c] = Updated(@, "retired")]
    /\ Completes(r, "consumer-retire", c)
    /\ UNCHANGED instances

RetireInstance(p, surface, r, c, n, expected) ==
    /\ Authorized(p, surface, "consumer-retire")
    /\ MayRetire(instances[<<c, n>>], expected)
    /\ instances' = [instances EXCEPT ![<<c, n>>] = Updated(@, "retired")]
    /\ Completes(r, "consumer-retire", n)
    /\ UNCHANGED consumers

RegistryChanges ==
    \E p \in Ids, surface \in BOOLEAN, r \in Requests, c \in Consumers :
        \/ \E label \in Labels : CreateConsumer(p, surface, r, c, label)
        \/ \E n \in Instances, label \in Labels : CreateInstance(p, surface, r, c, n, label)
        \/ \E expected \in 1 .. MaxRowGeneration :
              \/ \E to \in {"same", "migrated"} : UpdateConsumer(p, surface, r, c, expected, to)
              \/ RetireConsumer(p, surface, r, c, expected)
              \/ \E n \in Instances :
                    \/ \E to \in {"same", "migrated"} :
                          UpdateInstance(p, surface, r, c, n, expected, to)
                    \/ RetireInstance(p, surface, r, c, n, expected)

RegistryNext ==
    \/ RegistryChanges
    \/ ManagementChanges /\ UNCHANGED registryVars

RegistrySpec == RegistryInit /\ [][RegistryNext]_consumerVars

-----------------------------------------------------------------------------
\* Lifecycles only move forward, and a parent turns retired only in a state where none of its
\* instances is live, over any interleaving of updates and retirements by several operators.
RetirementIsOrdered ==
    [][/\ \A c \in Consumers : consumers[c].lifecycle # consumers'[c].lifecycle =>
             /\ consumers[c].lifecycle # "retired"
             /\ consumers[c].lifecycle = "migrated" => consumers'[c].lifecycle = "retired"
             /\ consumers'[c].lifecycle = "retired" =>
                   \A n \in Instances : instances[<<c, n>>].lifecycle \in {"none", "retired"}
       /\ \A k \in DOMAIN instances : instances[k].lifecycle # instances'[k].lifecycle =>
             /\ instances[k].lifecycle # "retired"
             /\ instances[k].lifecycle = "migrated" => instances'[k].lifecycle = "retired"
      ]_consumerVars

\* The documented meaning of a conflict and of an audited retirement: every change of the
\* registry has its row in the control catalog's audit.
EveryChangeRecorded == unrecorded = {}

\* The documented order of retirement: a retired parent has no live instance.
RetiredParentHasNoLiveInstance ==
    \A c \in Consumers : consumers[c].lifecycle = "retired" => ChildrenRetired(c)

=============================================================================
