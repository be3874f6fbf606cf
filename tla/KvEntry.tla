------------------------------ MODULE KvEntry ------------------------------
(***************************************************************************)
(* One path of the KV v2 catalog (struct Entry of kv.rs) and what each     *)
(* operation makes of it while it holds the catalog lock.                  *)
(*                                                                         *)
(* An entry is a record.  "versions" maps the retained version numbers to  *)
(* [state, value]; a destroyed version keeps its number and loses its      *)
(* value.  Zero stands for None in "max" and in "protected".  Times and    *)
(* custom metadata are left out: no operation decides anything by them.    *)
(***************************************************************************)
EXTENDS Integers, FiniteSets

Wiped == "wiped"

VersionState == {"Live", "SoftDeleted", "Destroyed"}

\* Entry::new.
NewEntry(casRequired) ==
  [generation |-> 1, current |-> 0, versions |-> <<>>, cas |-> casRequired,
   max |-> 0, protected |-> 0, known |-> TRUE, deferred |-> FALSE]

Retained(e) == DOMAIN e.versions
MaxOf(e, mountMax) == IF e.max = 0 THEN mountMax ELSE e.max
Drop(e, gone) == [e EXCEPT !.versions = [v \in Retained(e) \ gone |-> @[v]]]

\* prune(): the oldest versions go until the bound is met, but neither the
\* current nor the protected one; if these alone exceed it, pruning is deferred.
Prune_Mutant(e, mountMax) ==
  LET excess     == Cardinality(Retained(e)) - MaxOf(e, mountMax)
      candidates == Retained(e) \ {e.current}
      gone       == {v \in candidates :
                       Cardinality({x \in candidates : x < v}) < excess}
  IN  [Drop(e, gone) EXCEPT !.deferred = Cardinality(candidates) < excess]
Prune(e, mountMax) ==
  LET excess     == Cardinality(Retained(e)) - MaxOf(e, mountMax)
      candidates == Retained(e) \ {e.protected, e.current}
      gone       == {v \in candidates :
                       Cardinality({x \in candidates : x < v}) < excess}
  IN  [Drop(e, gone) EXCEPT !.deferred = Cardinality(candidates) < excess]

\* write(), rotation_write_encoded(): a new highest version.
AppendVersion(e, value) ==
  LET v == e.current + 1
  IN  [e EXCEPT !.current = v,
                !.generation = @ + 1,
                !.versions = [x \in Retained(e) \cup {v} |->
                   IF x = v THEN [state |-> "Live", value |-> value] ELSE @[x]]]

\* write(): does this check-and-set option conflict?  cas = -1 is no option.
CasConflict_Mutant(exists, e, cas, mountCas) ==
  CASE cas = -1 -> IF exists /\ e.cas # "unset" THEN e.cas = "yes" ELSE mountCas
    [] cas = 0  -> exists
    [] OTHER    -> cas > (IF exists THEN e.current ELSE 0)
CasConflict(exists, e, cas, mountCas) ==
  CASE cas = -1 -> IF exists /\ e.cas # "unset" THEN e.cas = "yes" ELSE mountCas
    [] cas = 0  -> exists
    [] OTHER    -> cas # (IF exists THEN e.current ELSE 0)

\* rotation_snapshot() and the protecting half of
\* set_rotation_snapshot_protection(): the current version can be rolled back to.
CurrentIsLive(e) == /\ e.current \in Retained(e)
                    /\ e.versions[e.current].state = "Live"

\* set_rotation_snapshot_protection(expected, true), its checks passed.
ProtectCurrent(e) == [e EXCEPT !.protected = e.current, !.known = TRUE,
                               !.generation = @ + 1]

\* set_rotation_snapshot_protection(expected, false), its check passed.
Unprotect(e, mountMax) ==
  Prune([e EXCEPT !.protected = 0, !.generation = @ + 1], mountMax)

\* set_rotation_protection(): v = 0 clears.
SetProtection(e, v, mountMax) ==
  Prune([e EXCEPT !.protected = v, !.known = TRUE, !.generation = @ + 1], mountMax)

\* mutate_versions_locked(): all the named versions must exist, and none may
\* be soft-deleted once destroyed.
CanMutate_Mutant(e, vs, action) == vs \subseteq Retained(e)
CanMutate(e, vs, action) ==
  /\ vs \subseteq Retained(e)
  /\ action = "SoftDelete" => \A v \in vs : e.versions[v].state # "Destroyed"

MutatedVersion(x, action) ==
  CASE action = "SoftDelete" -> [x EXCEPT !.state = "SoftDeleted"]
    [] action = "Undelete"   -> IF x.state = "SoftDeleted"
                                THEN [x EXCEPT !.state = "Live"] ELSE x
    [] action = "Destroy"    -> [state |-> "Destroyed", value |-> Wiped]

MutateVersions(e, vs, action) ==
  [e EXCEPT !.generation = @ + 1,
            !.versions = [v \in Retained(e) |->
               IF v \in vs THEN MutatedVersion(@[v], action) ELSE @[v]]]

\* update_metadata(): "keep" and -1 leave a setting alone, max = 0 clears it.
\* Nothing is pruned here.
UpdateMetadata(e, cas, max) ==
  [e EXCEPT !.generation = @ + 1,
            !.cas = IF cas = "keep" THEN @ ELSE cas,
            !.max = IF max = -1 THEN @ ELSE max]
=============================================================================
