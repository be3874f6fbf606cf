---------------------------- MODULE AuditExport ----------------------------
(***************************************************************************)
(* Reading the audit chain: src/src/audit_export.rs.  A reader pages       *)
(* through a filtered snapshot with authenticated cursors while the chain  *)
(* grows; exports bundle a range of entries, are decrypted and checked by  *)
(* their recipient, and pass through a publication catalog like that of    *)
(* backups.  An event is its operation, an entry its position in the       *)
(* chain; timestamp bounds behave as sequence bounds and are left out.     *)
(***************************************************************************)
EXTENDS Naturals, Sequences, FiniteSets

CONSTANTS Operations, MaxChain, PageLimit, Bundles, MaxExportSigner

ASSUME ExportBounds == MaxChain \in Nat /\ PageLimit \in Nat /\ MaxExportSigner \in Nat

NoBound == 0   \* None; sequences start at 1

VARIABLES chain,      \* Seq of operations, the audit log
          walk,       \* one reader's paged query
          exports,    \* bundle -> members, signer and catalog state
          exportSigner

exportVars == <<chain, walk, exports, exportSigner>>

Filters == [minimum : 0..MaxChain, maximum : 0..MaxChain,
            operation : Operations \union {"any"}]

(* Option's order puts None below every Some, so a lower bound without an   *)
(* upper one counts as an inverted range.                                   *)
OptionGreater(a, b) == a # NoBound /\ (b = NoBound \/ a > b)
FilterValid(f) == ~OptionGreater(f.minimum, f.maximum)

Matches(f, entries, i) ==
  /\ f.minimum = NoBound \/ i >= f.minimum
  /\ f.maximum = NoBound \/ i <= f.maximum
  /\ f.operation = "any" \/ entries[i] = f.operation

Selected(f, entries, after) ==
  {i \in DOMAIN entries : i > after /\ Matches(f, entries, i)}

NoWalk == [state |-> "idle", filter |-> [minimum |-> 0, maximum |-> 0, operation |-> "any"],
           cutoff |-> 0, after |-> 0, views |-> <<>>]
NoExport == [publication |-> "none", members |-> <<>>]

ExportInit ==
  /\ chain = <<>> /\ walk = NoWalk /\ exportSigner = 1
  /\ exports = [b \in Bundles |-> NoExport]

AppendEvent(op) ==
  /\ Len(chain) < MaxChain /\ chain' = Append(chain, op)
  /\ UNCHANGED <<walk, exports, exportSigner>>

(* The positions of a set in chain order.                                   *)
InOrder(S) ==
  CHOOSE s \in [1..Cardinality(S) -> S] :
    /\ \A i, j \in 1..Cardinality(S) : i < j => s[i] < s[j]
    /\ \A x \in S : \E i \in 1..Cardinality(S) : s[i] = x

(* Building a page: up to the limit of matching entries after the cursor,   *)
(* and whether another one follows.                                         *)
PageOf(f, entries, after) ==
  LET found == InOrder(Selected(f, entries, after))
  IN [views |-> SubSeq(found, 1, IF Len(found) < PageLimit THEN Len(found) ELSE PageLimit),
      more |-> Len(found) > PageLimit]

(* A cursor is bound to the incarnation, the snapshot's cutoff and the      *)
(* filter; the reader may bring the snapshot it kept or a newer one.        *)
CursorAccepted(w, entries) == w.state = "paging" /\ w.cutoff = Len(entries)

NextAfter(page, after) == IF page.views = <<>> THEN after ELSE page.views[Len(page.views)]

Released(f, entries, after, views) ==
  LET page == PageOf(f, entries, after)
  IN [state |-> IF page.more THEN "paging" ELSE "done", filter |-> f,
      cutoff |-> Len(entries), after |-> NextAfter(page, after),
      views |-> views \o page.views]

(* query_snapshot: the page is built privately, then the final barrier      *)
(* authorizes and audits the read; if it fails nothing is released.         *)
QueryFirst(f) ==
  /\ walk.state # "paging" /\ FilterValid(f)
  /\ walk' = Released(f, chain, 0, <<>>)
  /\ UNCHANGED <<chain, exports, exportSigner>>
QueryNext(snapshot) ==
  LET entries == SubSeq(chain, 1, snapshot)
  IN /\ CursorAccepted(walk, entries)
     /\ walk' = Released(walk.filter, entries, walk.after, walk.views)
     /\ UNCHANGED <<chain, exports, exportSigner>>
QueryRefused(snapshot) ==
  /\ walk.state = "paging" /\ ~CursorAccepted(walk, SubSeq(chain, 1, snapshot))
  /\ walk' = NoWalk
  /\ UNCHANGED <<chain, exports, exportSigner>>

(* create_export: the members are the matching entries of the range, in     *)
(* chain order; an empty selection is refused.                              *)
ExportMembers(f, low, high) ==
  InOrder({i \in Selected(f, chain, 0) : i >= low /\ i <= high})
CreateExport(b, f, low, high) ==
  /\ exports[b].publication = "none" /\ FilterValid(f)
  /\ low <= high /\ high <= Len(chain)
  /\ ExportMembers(f, low, high) # <<>>
  /\ exports' = [exports EXCEPT ![b] =
       [publication |-> "Created", members |-> ExportMembers(f, low, high),
        generation |-> exportSigner, signature |-> FALSE, accepted |-> FALSE]]
  /\ UNCHANGED <<chain, walk, exportSigner>>

(* decrypt_export re-checks what the container carries: neighbours of one   *)
(* epoch must be consecutive and hash-linked.                               *)
VerifyPayloadBindings_Mutant(members) ==
  \A i \in 1..(Len(members) - 1) : members[i + 1] > members[i]
VerifyPayloadBindings(members) ==
  \A i \in 1..(Len(members) - 1) : members[i + 1] = members[i] + 1

ReadExport(b) ==
  /\ exports[b].publication # "none" /\ VerifyPayloadBindings(exports[b].members)
  /\ exports' = [exports EXCEPT ![b].accepted = TRUE]
  /\ UNCHANGED <<chain, walk, exportSigner>>

ExportStep(b, from, to) ==
  /\ exports[b].publication \in from
  /\ exports' = [exports EXCEPT ![b].publication = to]
  /\ UNCHANGED <<chain, walk, exportSigner>>
ReserveExport(b) == ExportStep(b, {"Created"}, "Publishing")
ResumeExport(b) == ExportStep(b, {"Publishing"}, "Published")
AbandonExport(b) == ExportStep(b, {"Publishing", "Published", "Abandoned"}, "Abandoned")

RegisterExportSignature(b) ==
  /\ exports[b].publication = "Published" /\ exports[b].generation = exportSigner
  /\ exports' = [exports EXCEPT ![b].publication = "Registered", ![b].signature = TRUE]
  /\ UNCHANGED <<chain, walk, exportSigner>>

ExportRollover ==
  /\ exportSigner < MaxExportSigner /\ exportSigner' = exportSigner + 1
  /\ UNCHANGED <<chain, walk, exports>>

AppendSteps == \E op \in Operations : AppendEvent(op)

QuerySteps ==
  \/ \E f \in Filters : QueryFirst(f)
  \/ \E snapshot \in {walk.cutoff, Len(chain)} : QueryNext(snapshot) \/ QueryRefused(snapshot)

BundleSteps ==
  \/ \E b \in Bundles, f \in Filters, low \in 1..MaxChain, high \in 1..MaxChain :
       CreateExport(b, f, low, high)
  \/ \E b \in Bundles : \/ ReadExport(b) \/ ReserveExport(b) \/ ResumeExport(b)
                        \/ AbandonExport(b) \/ RegisterExportSignature(b)
  \/ ExportRollover

ExportNext == AppendSteps \/ QuerySteps \/ BundleSteps

ExportSpec == ExportInit /\ [][ExportNext]_exportVars

(***************************************************************************)
(* Properties.                                                             *)
(***************************************************************************)

(* A paged query that ran to its end returned exactly the matching entries *)
(* of one snapshot, each once and in order, however the chain grew between *)
(* its pages (audit_export.rs:292-355).                                    *)
WalkIsExact ==
  walk.state = "done" =>
    walk.views = InOrder(Selected(walk.filter, SubSeq(chain, 1, walk.cutoff), 0))

(* An export its recipient accepts has no hole: every chain entry between  *)
(* its first and its last member is a member, whatever filter chose them   *)
(* (audit_export.rs:1322-1349).                                            *)
AcceptedExportHasNoHole ==
  \A b \in Bundles : exports[b].publication # "none" /\ exports[b].accepted =>
    LET members == exports[b].members
    IN \A i \in members[1]..members[Len(members)] : \E k \in 1..Len(members) : members[k] = i

(* A registered export never changes and one left unsigned when its key is *)
(* retired is never registered (audit_export.rs:887-945).                  *)
RegisteredExportsFinal ==
  [][\A b \in Bundles :
       /\ exports[b].publication = "Registered" =>
            exports'[b].publication = "Registered" /\ exports'[b].members = exports[b].members
       /\ (exports[b].publication = "Published" /\ exports[b].generation < exportSigner) =>
            exports'[b].publication # "Registered"]_exportVars

\* What an auditor is handed is exact: a finished walk is the filtered snapshot, an accepted
\* export has no hole.
ExportIsExact == WalkIsExact /\ AcceptedExportHasNoHole
=============================================================================
