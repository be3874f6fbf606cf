----------------------------- MODULE TlsReload -----------------------------
(***************************************************************************)
(* The TLS certificate of the daemon (transport.rs, PreparedTlsConfig and  *)
(* TlsReloader).  The operator replaces the certificate and the key file   *)
(* one after the other; the process reads both, one after the other, at    *)
(* its start and whenever a SIGHUP or the control command asks for it,     *)
(* commits the new certificate's fingerprint as the expected one, and only *)
(* then serves it.  The expected fingerprint survives a crash.             *)
(*                                                                         *)
(* A pair is a number: certificate n belongs to key n, and n is also its   *)
(* fingerprint.  0 is "none".                                              *)
(***************************************************************************)
EXTENDS Naturals, FiniteSets

CONSTANTS Reloads,   \* reload calls under way at a time
          MaxPair    \* certificates the operator has

\* The start of the process reads the files as a reload does.
Starter == "start"

ASSUME TlsBounds == MaxPair \in Nat \ {0} /\ Starter \notin Reloads

VARIABLES
  tlsFiles,      \* what the two files hold: [cert, key]
  expected,      \* the durable expected fingerprint
  served,        \* the pair new connections get; 0 while no process runs
  current,       \* TlsReloader::current
  loads          \* per call: where it is and what it has read

tlsVars == <<tlsFiles, expected, served, current, loads>>

Loaders == Reloads \cup {Starter}
NoLoad == [at |-> "idle", cert |-> 0]

TlsInit ==
  /\ tlsFiles = [cert |-> 1, key |-> 1]
  /\ expected = 0 /\ served = 0 /\ current = 0
  /\ loads = [r \in Loaders |-> NoLoad]

\* The operator moves a new certificate, or a new key, into place.
ReplaceFile ==
  /\ \E n \in 1 .. MaxPair :
       \/ tlsFiles' = [tlsFiles EXCEPT !.cert = n]
       \/ tlsFiles' = [tlsFiles EXCEPT !.key = n]
  /\ tlsFiles' # tlsFiles
  /\ UNCHANGED <<expected, served, current, loads>>

LoadMoves(r, at) == loads' = [loads EXCEPT ![r].at = at]
LoadEnds(r) == loads' = [loads EXCEPT ![r] = NoLoad]

\* A process starts when none runs.
BeginStart ==
  /\ served = 0 /\ loads[Starter] = NoLoad
  /\ LoadMoves(Starter, "locked")
  /\ UNCHANGED <<tlsFiles, expected, served, current>>

\* A bug: reloads do not wait for each other.
SerialFree_Mutant(r) == TRUE
\* The serial lock of the reloader.
SerialFree(r) == \A x \in Reloads \ {r} : loads[x] = NoLoad

\* reload and reload_control begin with the serial lock.
BeginReload(r) ==
  /\ served # 0 /\ loads[r] = NoLoad
  /\ SerialFree(r)
  /\ LoadMoves(r, "locked")
  /\ UNCHANGED <<tlsFiles, expected, served, current>>

ReadCertificate(r) ==
  /\ loads[r].at = "locked"
  /\ \/ loads' = [loads EXCEPT ![r] = [at |-> "certificate", cert |-> tlsFiles.cert]]
     \/ LoadEnds(r)                                     \* read_bounded refuses the file
  /\ UNCHANGED <<tlsFiles, expected, served, current>>

\* The key must belong to the certificate read before it.
ReadKey(r) ==
  /\ loads[r].at = "certificate"
  /\ \/ tlsFiles.key = loads[r].cert /\ LoadMoves(r, "prepared")
     \/ LoadEnds(r)
  /\ UNCHANGED <<tlsFiles, expected, served, current>>

\* start: the first start commits, a later one wants the expected fingerprint.
AcceptStart ==
  /\ loads[Starter].at = "prepared"
  /\ \/ expected = 0 /\ expected' = loads[Starter].cert /\ LoadMoves(Starter, "committed")
     \/ /\ expected = loads[Starter].cert
        /\ LoadMoves(Starter, "committed") /\ UNCHANGED expected
     \/ LoadEnds(Starter) /\ UNCHANGED expected
  /\ UNCHANGED <<tlsFiles, served, current>>

\* The reloader exists once start returns.
StartServing ==
  /\ loads[Starter].at = "committed"
  /\ served' = loads[Starter].cert /\ current' = loads[Starter].cert
  /\ LoadEnds(Starter)
  /\ UNCHANGED <<tlsFiles, expected>>

\* A candidate equal to the current certificate, one the control catalog
\* does not authorize, or one whose commit is rejected ends the reload.
CommitReload(r) ==
  /\ loads[r].at = "prepared"
  /\ \/ loads[r].cert # current /\ expected' = loads[r].cert /\ LoadMoves(r, "committed")
     \/ LoadEnds(r) /\ UNCHANGED expected
  /\ UNCHANGED <<tlsFiles, served, current>>

\* reload_from_config, then the write of `current`; the lock ends with it.
Swap(r) ==
  /\ loads[r].at = "committed"
  /\ served' = loads[r].cert
  /\ LoadMoves(r, "swapped")
  /\ UNCHANGED <<tlsFiles, expected, current>>

SetCurrent(r) ==
  /\ loads[r].at = "swapped"
  /\ current' = loads[r].cert
  /\ LoadEnds(r)
  /\ UNCHANGED <<tlsFiles, expected, served>>

\* The process dies wherever it is.
TlsCrash ==
  /\ served # 0 \/ loads[Starter] # NoLoad
  /\ served' = 0 /\ current' = 0
  /\ loads' = [r \in Loaders |-> NoLoad]
  /\ UNCHANGED <<tlsFiles, expected>>

TlsNext ==
  \/ ReplaceFile
  \/ BeginStart \/ AcceptStart \/ StartServing
  \/ \E r \in Reloads : BeginReload(r) \/ CommitReload(r) \/ Swap(r) \/ SetCurrent(r)
  \/ \E r \in Loaders : ReadCertificate(r) \/ ReadKey(r)
  \/ TlsCrash

TlsSpec == TlsInit /\ [][TlsNext]_tlsVars

----------------------------------------------------------------------------
(* The daemon serves the certificate whose fingerprint is the durable      *)
(* expected one, except between the commit and the swap of the one reload  *)
(* under way: with concurrent SIGHUP and control reloads, files replaced   *)
(* between the two reads, and crashes anywhere, a restart with the served  *)
(* pair still in the files is never refused for its fingerprint.           *)
ServedIsExpected ==
  /\ served # 0 /\ served # expected =>
       \E r \in Reloads : loads[r].at = "committed" /\ loads[r].cert = expected
  /\ served # current =>
       \E r \in Reloads : loads[r].at = "swapped" /\ loads[r].cert = served
============================================================================
