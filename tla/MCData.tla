------------------------------- MODULE MCData -------------------------------
(***************************************************************************)
(* KvCatalog and RotationCatalog for TLC.  RotationCatalog has an entry of *)
(* its own, so the two share no state and `focus` says which instance      *)
(* runs: the life of one path without callers that remember anything, two  *)
(* callers that read, write back, review and purge, or rotations.          *)
(***************************************************************************)
EXTENDS KvCatalog, RotationCatalog, TLC

CONSTANTS p1, v1, v2, x1, x2

VARIABLE focus

dataVars == <<focus, vars, rotationVars>>

\* A caller with every capability, and one that has lost the destructive ones.
Grants == {Action, {"Read", "Write"}}

\* The callers' instance has one value at a time, one limit and every
\* capability, and smaller bounds.
CallerVersion == 3
CallerGeneration == 4
CallerInstance ==
  /\ grants = Action /\ mountMax = 1
  /\ \A p \in DOMAIN entries :
       LET e == entries[p]
       IN  /\ e.generation <= CallerGeneration /\ e.current <= CallerVersion
           /\ Cardinality({e.versions[v].value : v \in Retained(e)} \ {Wiped}) <= 1

\* The steps of Next that callers see: not those that only append to the log.
CallerSteps ==
  \/ \E p \in Path :
       \/ \E value \in Value, cas \in {-1, 0} : Write(p, value, cas)
       \/ \E c \in Client : ReadCurrent(c, p) \/ PurgePreflight(c, p)
       \/ \E v \in 1..CallerVersion, action \in {"SoftDelete", "Undelete", "Destroy"} :
            Mutate(p, {v}, action)
       \/ WriteMetadata(p, "keep", 0) \/ SetPath(p, "unset", 0)
       \/ \E v \in 0..CallerVersion : SetRotationProtection(p, v)
       \/ SetUnknownRotationProtection(p)
  \/ \E c \in Client : Purge(c) \/ \E value \in Value : WriteBack(c, value)

DataInit ==
  /\ focus \in {"history", "callers", "rotation"}
  /\ Init /\ RotationInit
  /\ focus # "history" => CallerInstance

DataNext ==
  \/ focus = "history" /\ Next /\ UNCHANGED <<focus, callers, rotationVars>>
  \/ focus = "callers" /\ CallerSteps /\ CallerInstance' /\ UNCHANGED <<focus, rotationVars>>
  \/ focus = "rotation" /\ RotationNext /\ UNCHANGED <<focus, vars>>

DataSpec == DataInit /\ [][DataNext]_dataVars

\* Callers, rotation ids and values are interchangeable.
DataSymmetry == Permutations({x1, x2}) \cup Permutations({v1, v2})

\* No action reads the audit events of the operation before it, and no
\* property relates two of them.
DataView == <<focus, entries, settings, callers, purges, rotationVars>>
=============================================================================
