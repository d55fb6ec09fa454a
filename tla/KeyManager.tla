----------------------------- MODULE KeyManager -----------------------------
(***************************************************************************)
(* JSONKeyMgr of speedling/keymgrs.py: the passwords of the deployment in  *)
(* creds.json.                                                             *)
(*                                                                         *)
(* A deployment opens the file once, asks for passwords while it composes  *)
(* the components and hands them to the nodes.  get_creds answers from     *)
(* memory, or reads the file again, adds a new random password and writes  *)
(* all of it over the old text, without cutting that off.  The text leaves *)
(* the process when Buffer keys of it have been dumped and when the file   *)
(* is closed, after the lock was given back.  The deployment may be killed *)
(* at any moment; the next one starts from the file.                       *)
(*                                                                         *)
(* The file is Absent, a table of principals and passwords, or Torn: text  *)
(* that json.load refuses.  One deployment uses it at a time ("concurrent  *)
(* accesss not expected").  The names that Deployment uses as well begin   *)
(* with KM here.                                                           *)
(***************************************************************************)
EXTENDS Naturals, FiniteSets

CONSTANTS
  Principal, \* the principals of services
  Absent, Torn,
  None,
  Buffer,    \* bound: the passwords whose text fits into the file buffer
  MaxRuns,   \* bound: deployments
  MaxKilled  \* bound: deployments that are killed

\* what json.load may give: the password of each principal, 0 when there is none
Tables == [Principal -> Nat]
NoKeys == [k \in Principal |-> 0]
Has(table) == {k \in Principal : table[k] # 0}

ASSUME PrincipalAssumption == IsFiniteSet(Principal) /\ None \notin Principal
ASSUME FileAssumption == Absent # Torn /\ Absent \notin Tables /\ Torn \notin Tables
ASSUME BoundAssumption == Buffer \in Nat /\ MaxRuns \in Nat /\ MaxKilled \in Nat

VARIABLES
  datafile,
  phase,     \* of the deployment
  data,      \* its self.data
  pn,        \* the principal get_creds is to answer
  generated, \* the last random password
  given,     \* the passwords that any get_creds has returned
  runs, killed

kmVars == <<datafile, phase, data, pn, generated, given, runs, killed>>

Loads == datafile \notin {Absent, Torn}
Return(k, passwd) == given' = [given EXCEPT ![k] = @ \cup {passwd}] /\ phase' = "ready"

KMInit ==
  /\ datafile = Absent
  /\ phase = "off" /\ data = NoKeys /\ pn = None
  /\ generated = 0
  /\ given = [k \in Principal |-> {}]
  /\ runs = 0 /\ killed = 0

\* mutant: it takes a file it cannot read for one that is not there
OpenRemakes ==
  /\ phase = "off" /\ runs < MaxRuns
  /\ runs' = runs + 1
  /\ IF Loads THEN phase' = "ready" /\ data' = datafile /\ UNCHANGED datafile
              ELSE phase' = "make" /\ datafile' = Torn /\ data' = NoKeys
  /\ UNCHANGED <<pn, generated, given, killed>>

\* JSONKeyMgr(): a file that is not there is made, opened and thereby empty
\* first; one that cannot be read ends the deployment
Open ==
  /\ phase = "off" /\ runs < MaxRuns
  /\ runs' = runs + 1
  /\ IF datafile = Absent THEN phase' = "make" /\ datafile' = Torn /\ data' = NoKeys
     ELSE IF Loads        THEN phase' = "ready" /\ data' = datafile /\ UNCHANGED datafile
                          ELSE UNCHANGED <<phase, data, datafile>>
  /\ UNCHANGED <<pn, generated, given, killed>>

MakeFile ==
  /\ phase = "make"
  /\ phase' = "ready" /\ datafile' = NoKeys
  /\ UNCHANGED <<data, pn, generated, given, runs, killed>>

\* get_creds of a principal it has in memory
Known(k) ==
  /\ phase = "ready" /\ data[k] # 0
  /\ Return(k, data[k])
  /\ UNCHANGED <<datafile, data, pn, generated, runs, killed>>

\* of another one: lock, load, generate.  The file has what the memory has, so
\* the code's second test for the principal never finds it.
Generate(k) ==
  /\ phase = "ready" /\ data[k] = 0 /\ Loads
  /\ generated' = generated + 1
  /\ data' = [datafile EXCEPT ![k] = IF @ = 0 THEN generated' ELSE @]
  /\ pn' = k /\ phase' = "dump"
  /\ UNCHANGED <<datafile, given, runs, killed>>

\* what is too long for the buffer is written in parts
Dump ==
  /\ phase = "dump"
  /\ datafile' = IF Cardinality(Has(data)) > Buffer THEN Torn ELSE datafile
  /\ phase' = "close"
  /\ UNCHANGED <<data, pn, generated, given, runs, killed>>

\* mutant: without the seek the new text follows the old one
OverAppended(old, new) == IF old \in Tables THEN Torn ELSE new

\* A shorter text leaves the end of the longer one behind it.
Over(old, new) ==
  IF old \in Tables /\ Cardinality(Has(new)) < Cardinality(Has(old)) THEN Torn ELSE new

\* mutant: the file is not closed
CloseUnflushed ==
  /\ phase = "close"
  /\ Return(pn, data[pn])
  /\ pn' = None
  /\ UNCHANGED <<datafile, data, generated, runs, killed>>

Close ==
  /\ phase = "close"
  /\ datafile' = Over(datafile, data)
  /\ Return(pn, data[pn])
  /\ pn' = None
  /\ UNCHANGED <<data, generated, runs, killed>>

\* The deployment has all it needs and ends, well or not.
DeploymentEnds ==
  /\ phase = "ready"
  /\ phase' = "off" /\ data' = NoKeys
  /\ UNCHANGED <<datafile, pn, generated, given, runs, killed>>

Kill ==
  /\ phase # "off" /\ killed < MaxKilled
  /\ killed' = killed + 1
  /\ phase' = "off" /\ data' = NoKeys /\ pn' = None
  /\ UNCHANGED <<datafile, generated, given, runs>>

GetCreds == Dump \/ Close \/ \E k \in Principal : Known(k) \/ Generate(k)
KMNext == Open \/ MakeFile \/ GetCreds \/ DeploymentEnds \/ Kill
KMSpec == KMInit /\ [][KMNext]_kmVars

-----------------------------------------------------------------------------
(* Properties *)

\* The types of the variables.  At rest, the memory of a deployment is what the
\* file has.
KMTypeOK ==
  /\ datafile \in {Absent, Torn} \cup Tables
  /\ phase \in {"off", "make", "ready", "dump", "close"}
  /\ data \in Tables
  /\ pn \in Principal \cup {None} /\ (pn # None <=> phase \in {"dump", "close"})
  /\ generated \in Nat
  /\ given \in [Principal -> SUBSET Nat]
  /\ phase = "ready" => data = datafile
  /\ runs \in 0..MaxRuns /\ killed \in 0..MaxKilled

\* A principal has one password for good: no deployment hands out another one
\* than an earlier deployment has put on the nodes, wherever that was killed.
OnePassword == \A k \in Principal : \A p, q \in given[k] : p = q

\* Only a kill in the middle of a write leaves a file that cannot be read: the
\* text that is written over the old one is never the shorter one.
TornByKillOnly == datafile = Torn => killed > 0 \/ phase \in {"make", "close"}
=============================================================================
