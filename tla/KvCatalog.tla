----------------------------- MODULE KvCatalog -----------------------------
(***************************************************************************)
(* The KV v2 data surface (KvCatalog, KvService of kv.rs): writes with     *)
(* check-and-set, reads, version deletion, undeletion and destruction,     *)
(* metadata, retention, and the purge ceremony.  Every operation runs      *)
(* under the one catalog lock, so each is one step; what happens between   *)
(* the operations of one caller (read then write, preflight then purge)    *)
(* is interleaved freely.                                                  *)
(*                                                                         *)
(* "audit" holds the events the last operation appended to the audit log.  *)
(* Calls that are refused before the lock is taken (a malformed body, an   *)
(* unsupported mount, a value over its bounds) change nothing.             *)
(***************************************************************************)
EXTENDS KvEntry, Sequences

CONSTANTS
  Path, Value,
  Client,          \* callers that read, write back, review and purge
  GrantSet,        \* the sets of actions replace_grants installs
  CasChoice,       \* cas_required settings ("yes", "no") that callers choose from
  MaxChoice,       \* max_versions settings that callers choose from
  MaxVersion,      \* bound: highest version number written
  MaxGeneration,   \* bound: highest metadata generation
  MaxPurges        \* bound: purges of a path

Action == {"Read", "Write", "List", "Metadata", "SoftDelete", "Undelete",
           "Destroy", "DestroyAll"}

ASSUME CatalogAssumption ==
  /\ GrantSet \subseteq SUBSET Action
  /\ CasChoice \subseteq {"yes", "no"} /\ CasChoice # {}
  /\ MaxChoice \subseteq Nat \ {0} /\ MaxChoice # {}
  /\ MaxVersion \in Nat /\ MaxGeneration \in Nat /\ MaxPurges \in Nat
  /\ Wiped \notin Value

VARIABLES
  entries,               \* the existing paths -> Entry
  mountCas, mountMax,    \* mount defaults
  grants,                \* actions the callers are granted
  audit,                 \* events appended by the last operation
  seen,                  \* Client -> the version it last read, to write back
  review,                \* Client -> the purge preflight it holds
  purges                 \* Path -> number of purges so far

settings == <<mountCas, mountMax, grants>>
callers == <<seen, review>>
vars == <<entries, settings, audit, callers, purges>>

Nothing == [path |-> "none"]
Exists(p) == p \in DOMAIN entries
Event(p, op, outcome, v) == [path |-> p, op |-> op, outcome |-> outcome, version |-> v]
Log(p, op, outcome, v) == audit' = {Event(p, op, outcome, v)}

\* Callers that hold a version of p now hold one that was overwritten.
Overwritten(p) ==
  [c \in Client |-> IF seen[c].path = p THEN [seen[c] EXCEPT !.stale = TRUE]
                    ELSE seen[c]]

\* entries with p (created if absent) set to e.
Put(p, e) ==
  /\ e.generation <= MaxGeneration
  /\ entries' = [q \in DOMAIN entries \cup {p} |-> IF q = p THEN e ELSE entries[q]]

EntryOr(p, default) == IF Exists(p) THEN entries[p] ELSE default

Init ==
  /\ entries = <<>>
  /\ mountCas \in {c = "yes" : c \in CasChoice} /\ mountMax \in MaxChoice
  /\ grants \in GrantSet
  /\ audit = {}
  /\ seen = [c \in Client |-> Nothing]
  /\ review = [c \in Client |-> Nothing]
  /\ purges = [p \in Path |-> 0]

\* authorize_operation, authorize_destroy_all: a refusal is audited.
Denied(p, action) ==
  /\ action \notin grants
  /\ Log(p, action, "Denied", 0)
  /\ UNCHANGED <<entries, settings, callers, purges>>

-----------------------------------------------------------------------------
(* Data operations.                                                        *)

\* A successful write of value to p.
WriteVersion(p, value) ==
  LET e == Prune(AppendVersion(EntryOr(p, NewEntry("unset")), value), mountMax)
  IN  /\ e.current <= MaxVersion
      /\ Put(p, e)
      /\ Log(p, "Write", "Succeeded", e.current)

\* write() by a caller that names no version it has read (cas is -1 or 0).
Write(p, value, cas) ==
  /\ "Write" \in grants
  /\ IF CasConflict(Exists(p), EntryOr(p, NewEntry("unset")), cas, mountCas)
     THEN Log(p, "Write", "Failed", 0) /\ UNCHANGED <<entries, seen>>
     ELSE WriteVersion(p, value) /\ seen' = Overwritten(p)
  /\ UNCHANGED <<settings, review, purges>>

\* read() of the current version, by a caller that means to write it back.
\* Only a live version is served.
ReadCurrent(c, p) ==
  /\ "Read" \in grants
  /\ IF Exists(p) /\ CurrentIsLive(entries[p])
     THEN /\ Log(p, "Read", "Succeeded", entries[p].current)
          /\ seen' = [seen EXCEPT ![c] =
               [path |-> p, version |-> entries[p].current, stale |-> FALSE,
                purges |-> purges[p]]]
     ELSE /\ Log(p, "Read", "Failed", IF Exists(p) THEN entries[p].current ELSE 0)
          /\ UNCHANGED seen
  /\ UNCHANGED <<entries, settings, review, purges>>

\* write() with cas set to the version the caller read before.
WriteBack(c, value) ==
  LET p == seen[c].path
  IN  /\ seen[c] # Nothing /\ "Write" \in grants
      /\ IF CasConflict(Exists(p), EntryOr(p, NewEntry("unset")),
                        seen[c].version, mountCas)
         THEN /\ Log(p, "Write", "Failed", 0) /\ UNCHANGED entries
              /\ seen' = [seen EXCEPT ![c] = Nothing]
         ELSE /\ WriteVersion(p, value)
              /\ seen' = [Overwritten(p) EXCEPT ![c] = Nothing]
      /\ UNCHANGED <<settings, review, purges>>

\* mutate_versions(); vs = {current} is also soft_delete_latest().  A refused
\* batch is not audited.
Mutate_Mutant(p, vs, action) ==
  /\ action \in grants
  /\ IF Exists(p) /\ CanMutate(entries[p], vs, action)
     THEN /\ Put(p, MutateVersions(entries[p], vs, action))
          /\ Log(p, action, "Succeeded", CHOOSE v \in vs : \A w \in vs : w <= v)
     ELSE audit' = {} /\ UNCHANGED entries
  /\ UNCHANGED <<settings, callers, purges>>
Mutate(p, vs, action) ==
  /\ action \in grants
  /\ IF Exists(p) /\ CanMutate(entries[p], vs, action)
     THEN /\ Put(p, MutateVersions(entries[p], vs, action))
          /\ audit' = {Event(p, action, "Succeeded", v) : v \in vs}
     ELSE audit' = {} /\ UNCHANGED entries
  /\ UNCHANGED <<settings, callers, purges>>

\* list() and metadata() change nothing but the log.
ListOrMetadata(p, action) ==
  /\ action \in grants
  /\ IF action = "Metadata" /\ ~Exists(p) THEN audit' = {}
     ELSE Log(p, action, "Succeeded", 0)
  /\ UNCHANGED <<entries, settings, callers, purges>>

\* update_metadata(): creates the path if need be.
WriteMetadata(p, cas, max) ==
  /\ "Write" \in grants
  /\ Put(p, UpdateMetadata(EntryOr(p, NewEntry("unset")), cas, max))
  /\ Log(p, "MetadataWrite", "Succeeded", 0)
  /\ UNCHANGED <<settings, callers, purges>>

-----------------------------------------------------------------------------
(* Settings, rotation holds, grants.                                       *)

SetMount(cas, max) ==
  /\ mountCas' = cas /\ mountMax' = max
  /\ audit' = {}
  /\ UNCHANGED <<entries, grants, callers, purges>>

\* set_path_cas_required, set_path_max_versions: no new generation, no prune.
SetPath(p, cas, max) ==
  /\ LET e == EntryOr(p, NewEntry(cas)) IN Put(p, [e EXCEPT !.cas = cas, !.max = max])
  /\ audit' = {}
  /\ UNCHANGED <<settings, callers, purges>>

\* set_rotation_protection: hold a retained version, or (v = 0) release it.
SetRotationProtection(p, v) ==
  /\ Exists(p) /\ v \in Retained(entries[p]) \cup {0}
  /\ Put(p, SetProtection(entries[p], v, mountMax))
  /\ audit' = {}
  /\ UNCHANGED <<settings, callers, purges>>

SetUnknownRotationProtection(p) ==
  /\ Exists(p) /\ Put(p, [entries[p] EXCEPT !.known = FALSE])
  /\ audit' = {}
  /\ UNCHANGED <<settings, callers, purges>>

ReplaceGrants(g) ==
  /\ grants' = g
  /\ audit' = {}
  /\ UNCHANGED <<entries, mountCas, mountMax, callers, purges>>

-----------------------------------------------------------------------------
(* The purge ceremony: preflight, then a confirmation bound to what it     *)
(* showed.  The confirmation is a digest of path, generation, count and    *)
(* reason; it matches exactly when these are the ones it was made from.    *)

PurgePreflight(c, p) ==
  /\ "DestroyAll" \in grants /\ Exists(p)
  /\ entries[p].known /\ entries[p].protected = 0
  /\ review' = [review EXCEPT ![c] =
       [path |-> p, generation |-> entries[p].generation,
        count |-> Cardinality(Retained(entries[p])),
        versions |-> entries[p].versions, purges |-> purges[p]]]
  /\ audit' = {}
  /\ UNCHANGED <<entries, settings, seen, purges>>

PurgeAllowed_Mutant(r) ==
  /\ Exists(r.path)
  /\ LET e == entries[r.path]
     IN  e.known /\ e.protected = 0 /\ Cardinality(Retained(e)) = r.count
PurgeAllowed(r) ==
  /\ Exists(r.path)
  /\ LET e == entries[r.path]
     IN  /\ e.known /\ e.protected = 0
         /\ e.generation = r.generation
         /\ Cardinality(Retained(e)) = r.count

Purge(c) ==
  LET r == review[c]
  IN  /\ r # Nothing /\ "DestroyAll" \in grants
      /\ IF PurgeAllowed(r)
         THEN /\ Log(r.path, "Purge", "Succeeded", 0)
              /\ entries' = [q \in DOMAIN entries \ {r.path} |-> entries[q]]
              /\ purges[r.path] < MaxPurges
              /\ purges' = [purges EXCEPT ![r.path] = @ + 1]
         ELSE Log(r.path, "Purge", "Failed", 0) /\ UNCHANGED <<entries, purges>>
      /\ review' = [review EXCEPT ![c] = Nothing]
      /\ UNCHANGED <<settings, seen>>

\* The audit commit of a read or purge fails: the caller gets an error, and
\* nothing was disclosed or removed.
AuditCommitFails ==
  /\ audit' = {}
  /\ UNCHANGED <<entries, settings, callers, purges>>

Next ==
  \/ \E p \in Path :
       \/ \E action \in Action : Denied(p, action)
       \/ \E value \in Value, cas \in {-1, 0} : Write(p, value, cas)
       \/ \E c \in Client : ReadCurrent(c, p) \/ PurgePreflight(c, p)
       \/ \E vs \in (SUBSET (1..MaxVersion)) \ {{}},
            action \in {"SoftDelete", "Undelete", "Destroy"} : Mutate(p, vs, action)
       \/ \E action \in {"List", "Metadata"} : ListOrMetadata(p, action)
       \/ \E cas \in CasChoice \cup {"keep"}, max \in MaxChoice \cup {-1, 0} :
            WriteMetadata(p, cas, max)
       \/ \E cas \in CasChoice \cup {"unset"}, max \in MaxChoice \cup {0} :
            SetPath(p, cas, max)
       \/ \E v \in 0..MaxVersion : SetRotationProtection(p, v)
       \/ SetUnknownRotationProtection(p)
  \/ \E c \in Client : Purge(c) \/ \E value \in Value : WriteBack(c, value)
  \/ \E cas \in CasChoice, max \in MaxChoice : SetMount(cas = "yes", max)
  \/ \E g \in GrantSet : ReplaceGrants(g)
  \/ AuditCommitFails

Spec == Init /\ [][Next]_vars

-----------------------------------------------------------------------------
(* Properties.                                                             *)

Versions == [state : VersionState, value : Value \cup {Wiped}]
TypeOK ==
  /\ DOMAIN entries \subseteq Path
  /\ \A p \in DOMAIN entries :
       LET e == entries[p]
       IN  /\ e.generation \in Nat /\ e.current \in Nat
           /\ Retained(e) \subseteq 1..e.current
           /\ \A v \in Retained(e) : e.versions[v] \in Versions
           /\ e.cas \in {"unset", "yes", "no"} /\ e.max \in Nat
           /\ e.protected \in Nat /\ e.known \in BOOLEAN /\ e.deferred \in BOOLEAN
  /\ mountCas \in BOOLEAN /\ mountMax \in MaxChoice /\ grants \subseteq Action
  /\ purges \in [Path -> Nat]

\* Retention never takes the current version or the one a rotation holds:
\* both can be served and rolled back to whatever max_versions was set to, and
\* pruning is only ever put off on account of such a hold.
HeldVersionsRetained ==
  \A p \in DOMAIN entries :
    LET e == entries[p]
    IN  /\ e.current # 0 => e.current \in Retained(e)
        /\ e.protected # 0 => e.protected \in Retained(e)
        /\ e.deferred => e.protected \notin {0, e.current}

\* The history of a path only grows at its end: the current-version pointer
\* never moves back, a version number is never given out twice, and a retained
\* version never changes its value except by destruction.  Destruction is final
\* and whole: the version is marked when, and only when, its value is wiped, and
\* no sequence of deletes and undeletes makes it readable again.
HistoryIsAppendOnly ==
  [][\A p \in DOMAIN entries \cap DOMAIN entries' :
       LET e == entries[p] f == entries'[p]
       IN  /\ f.current >= e.current
           /\ \A v \in Retained(f) \ Retained(e) : v > e.current
           /\ \A v \in Retained(f) \cap Retained(e) :
                /\ f.versions[v].value \in {e.versions[v].value, Wiped}
                /\ f.versions[v].value = Wiped <=> f.versions[v].state = "Destroyed"
                /\ e.versions[v].state = "Destroyed" => f.versions[v] = e.versions[v]]_vars

\* Check-and-set with the version a caller read loses no update: when it
\* succeeds nothing was written since the read.  (Unless the path was purged
\* in between: its version numbers then start again.)
NoLostUpdate ==
  [][\A c \in Client :
       (seen[c] # Nothing /\ seen'[c] = Nothing /\ entries' # entries) =>
         (seen[c].stale => seen[c].purges # purges[seen[c].path])]_vars

\* A purge removes the versions its preflight showed, in the states it showed
\* them, however many callers work on the path in between.  (Unless it was
\* purged and written again in between.)
PurgeTakesWhatWasReviewed ==
  [][\A p \in DOMAIN entries \ DOMAIN entries' :
       \E c \in Client :
         /\ review[c].path = p
         /\ review[c].purges = purges[p] => review[c].versions = entries[p].versions]_vars

\* Whatever a data operation does to a version, or to a path as a whole, is in
\* the audit log when the operation returns; pruning is the only silent change.
MutationsAudited ==
  [][\A p \in DOMAIN entries :
       IF p \notin DOMAIN entries' THEN Event(p, "Purge", "Succeeded", 0) \in audit'
       ELSE LET e == entries[p] f == entries'[p]
            IN  \A v \in Retained(f) :
                  (v \notin Retained(e) \/ f.versions[v] # e.versions[v]) =>
                    \E x \in audit' : x.path = p /\ x.outcome = "Succeeded"
                                       /\ x.version = v]_vars
=============================================================================
