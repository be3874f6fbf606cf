--------------------------- MODULE Reconciliation ---------------------------
(***************************************************************************)
(* The consumer reconciliation view: declared bindings, authorized          *)
(* identities and observed reads of one resource, joined into rows and      *)
(* handed out in pages (reconciliation.rs).                                 *)
(*                                                                          *)
(* A snapshot is built up by declaring bindings and observing reads; it is  *)
(* then reconciled and walked page by page.  Ids are numbers and 0 stands   *)
(* for an absent id, so that the text key of a row orders like its rank.    *)
(***************************************************************************)
EXTENDS Authorization, SequencesExt

CONSTANTS Readers,        \* identity ids
          Parents,        \* consumer ids
          Processes,      \* instance ids
          Clock,          \* effective seconds of the snapshot
          Lookback,
          MaxDeclared, MaxObserved,
          PageSize

ASSUME ReconciliationBounds ==
    /\ Readers \cup Parents \cup Processes \subseteq Nat \ {0}
    /\ Clock \in Nat /\ Lookback \in 1 .. Clock /\ PageSize \in Nat \ {0}

VARIABLES people,        \* reader -> status of its identity row and its grants
          declarations,  \* the declared bindings of the resource
          observations,  \* the read events of the resource
          view,          \* "none", an error, or the rows
          handout           \* the pages handed out: rows so far, last key, whether there are more

reconcileVars == <<people, declarations, observations, view, handout>>

Resource == [mount |-> "secret", segments |-> <<"app", "db">>]

\* Grants a reader may hold: none, the exact path, a subtree above it, and one below it.
ReadGrants ==
    LET Grant(scope, segments, capability, status) ==
          [mount |-> "secret", scope |-> scope, segments |-> segments,
           capabilities |-> {capability}, status |-> status]
    IN  {Grant("exact", <<"app", "db">>, "read-history", "active"),
         Grant("subtree", <<"app">>, "read-current", "active"),
         Grant("exact", <<"app">>, "read-current", "active"),
         Grant("subtree", <<>>, "read-current", "removed")}

ReconcileInit ==
    /\ people \in [Readers -> [status : {"none"}, grants : {{}}]
                              \cup [status : {"active"}, grants : {{}} \cup {{g} : g \in ReadGrants}]
                              \cup [status : {"retired"}, grants : {ReadGrants}]]
    /\ declarations = {} /\ observations = {}
    /\ view = [state |-> "none", rows |-> {}]
    /\ handout = [rows |-> <<>>, key |-> 0, more |-> TRUE]

Declare(c, process, reader, lifecycle) ==
    /\ view.state = "none"
    /\ Cardinality(declarations) < MaxDeclared
    /\ \A d \in declarations : d.consumer # c \/ d.process # process
    /\ declarations' = declarations \cup
          {[consumer |-> c, process |-> process, reader |-> reader, lifecycle |-> lifecycle]}
    /\ UNCHANGED <<people, observations, view, handout>>

Observe(reader, process, at, authentic) ==
    /\ view.state = "none"
    /\ Cardinality(observations) < MaxObserved
    /\ observations' = observations \cup
          {[reader |-> reader, process |-> process, at |-> at, authentic |-> authentic]}
    /\ UNCHANGED <<people, declarations, view, handout>>

Window_Mutant == {e \in observations : e.at > Clock - Lookback}

\* The events of the window; both of its ends belong to it.
Window == {e \in observations : e.at >= Clock - Lookback}

\* An event of the window that cannot be trusted fails the whole view.
WindowSound == \A e \in Window : e.authentic /\ e.at <= Clock

\* The identities a read of the resource is allowed to now, current or by version.
AuthorizedReaders ==
    {i \in Readers : /\ people[i].status = "active"
                     /\ \E versioned \in BOOLEAN :
                          Authorize(SecretRequest(Resource, "data", "read", versioned),
                                    people[i].grants) = "allow"}

AuthorizationState(reader) ==
    CASE reader = 0 \/ (reader # 0 /\ people[reader].status = "none") -> "identity-missing"
      [] reader \in AuthorizedReaders -> "authorized"
      [] OTHER -> "unauthorized"

\* The latest event of each reader and process, as a pair of them.
ObservedKeys == {<<e.reader, e.process>> : e \in Window}
LastRead(key) == Max({e.at : e \in {f \in Window : <<f.reader, f.process>> = key}})

\* What a declared binding is matched with: reads by its own process, else untracked reads.
EventFor(d) ==
    CASE <<d.reader, d.process>> \in ObservedKeys -> LastRead(<<d.reader, d.process>>)
      [] <<d.reader, 0>> \in ObservedKeys -> LastRead(<<d.reader, 0>>)
      [] OTHER -> 0

Flags(lifecycle, authorization, read) ==
    {flag \in {"declared-unmigrated", "declared-unauthorized", "authorized-undeclared",
               "migrated-unobserved", "observed-undeclared", "reconciled-observed",
               "retired-historical"} :
        CASE flag = "declared-unmigrated"   -> lifecycle = "declared"
          [] flag = "declared-unauthorized" ->
                lifecycle \in {"declared", "migrated"} /\ authorization # "authorized"
          [] flag = "authorized-undeclared" ->
                lifecycle = "absent" /\ authorization = "authorized"
          [] flag = "migrated-unobserved"   ->
                lifecycle = "migrated" /\ authorization = "authorized" /\ read = 0
          [] flag = "observed-undeclared"   -> lifecycle = "absent" /\ read # 0
          [] flag = "reconciled-observed"   ->
                lifecycle = "migrated" /\ authorization = "authorized" /\ read # 0
          [] flag = "retired-historical"    -> lifecycle = "retired"}

Row(consumer, process, reader, lifecycle, read) ==
    [consumer |-> consumer, process |-> process, reader |-> reader, lifecycle |-> lifecycle,
     authorization |-> AuthorizationState(reader), read |-> read,
     flags |-> Flags(lifecycle, AuthorizationState(reader), read)]

ActivelyDeclared(reader) ==
    \E d \in declarations : d.reader = reader /\ d.lifecycle # "retired"

DeclaredRows == {Row(d.consumer, d.process, d.reader, d.lifecycle, EventFor(d)) : d \in declarations}

\* An authorized reader without an active declaration gets one row, with its latest read if
\* there is one (the last of the tied keys wins).
AuthorizedRows ==
    LET Keys(i) == {k \in ObservedKeys : k[1] = i}
        Latest(i) == {k \in Keys(i) : \A h \in Keys(i) : LastRead(h) <= LastRead(k)}
    IN  {IF Keys(i) = {} THEN Row(0, 0, i, "absent", 0)
         ELSE LET process == Max({k[2] : k \in Latest(i)})
              IN Row(0, process, i, "absent", LastRead(<<i, process>>)) :
             i \in {j \in AuthorizedReaders : ~ActivelyDeclared(j)}}

\* An observed read covered by no active declaration and by no row so far.
ObservedRows ==
    {Row(0, k[2], k[1], "absent", LastRead(k)) :
        k \in {h \in ObservedKeys :
            /\ \A d \in declarations : d.reader = h[1] /\ d.lifecycle # "retired" =>
                  d.process \notin {h[2], 0}
            /\ \A row \in AuthorizedRows : row.reader # h[1] \/ row.process # h[2]}}

ViewRows == DeclaredRows \cup AuthorizedRows \cup ObservedRows

ReconcileView ==
    /\ view.state = "none"
    /\ view' = IF WindowSound THEN [state |-> "rows", rows |-> ViewRows]
                              ELSE [state |-> "observation-integrity", rows |-> {}]
    /\ UNCHANGED <<people, declarations, observations, handout>>

Key(row) == 1 + row.reader + 10 * row.process + 100 * row.consumer

After(cursor) == {row \in view.rows : Key(row) > cursor}

\* One page: the next rows in key order, and a cursor when some are left.
NextPage ==
    /\ view.state = "rows" /\ handout.more
    /\ LET rest  == SetToSortSeq(After(handout.key), LAMBDA a, b : Key(a) < Key(b))
           count == IF Len(rest) < PageSize THEN Len(rest) ELSE PageSize
       IN handout' = [rows |-> handout.rows \o SubSeq(rest, 1, count),
                   key |-> IF count = 0 THEN handout.key ELSE Key(rest[count]),
                   more |-> Len(rest) > PageSize]
    /\ UNCHANGED <<people, declarations, observations, view>>

ReconcileNext ==
    \/ \E c \in Parents, process \in Processes \cup {0}, reader \in Readers \cup {0},
          lifecycle \in {"declared", "migrated", "retired"} : Declare(c, process, reader, lifecycle)
    \/ \E reader \in Readers, process \in Processes \cup {0}, at \in 1 .. Clock + 1,
          authentic \in BOOLEAN : Observe(reader, process, at, authentic)
    \/ ReconcileView
    \/ NextPage

ReconcileSpec == ReconcileInit /\ [][ReconcileNext]_reconcileVars

-----------------------------------------------------------------------------
\* No authorized identity is hidden for lack of a recent read or of a declaration, and no row
\* claims a current authorization its identity lacks.
AuthorizedNeverHidden ==
    view.state = "rows" =>
        {row.reader : row \in {r \in view.rows : r.authorization = "authorized"}} = AuthorizedReaders

\* Untracked reads on either boundary of the window are reported by some row of their reader.
UntrackedReadsShown ==
    view.state = "rows" => \A e \in observations :
        e.process = 0 /\ Clock - Lookback <= e.at /\ e.at <= Clock =>
            \E row \in view.rows : row.reader = e.reader /\ row.read # 0

\* A full walk hands out every row of the view exactly once, in key order.
WalkHandsOutEveryRow ==
    /\ \A i, j \in DOMAIN handout.rows : i < j => Key(handout.rows[i]) < Key(handout.rows[j])
    /\ ~handout.more => {handout.rows[i] : i \in DOMAIN handout.rows} = view.rows

\* The documented observation dimension: a read of the window, tracked to a process or not,
\* makes some row of its reader observed.
EveryReadShown ==
    view.state = "rows" => \A e \in Window :
        \E row \in view.rows : row.reader = e.reader /\ row.read # 0

\* The report an operator walks through leaves no one out: every authorized identity and every
\* untracked read is in the view, and the pages hand out all of it.
ViewIsComplete == AuthorizedNeverHidden /\ UntrackedReadsShown /\ WalkHandsOutEveryRow
=============================================================================
