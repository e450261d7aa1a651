---------------------------- MODULE RunRegistry ----------------------------
(***************************************************************************)
(* What the publication of runs promises its callers (store.py: "immutable *)
(* terminal run directories"): a run gets one manifest of record, for ever,*)
(* and whoever is given the run is given that manifest.  A run may be      *)
(* withdrawn, even as its record is made, and is then withdrawn for good:  *)
(* it is never found again under its manifest, nor under another one.      *)
(***************************************************************************)
CONSTANTS
  Callers,      \* the processes that execute runs
  Runs,         \* identities of terminal runs
  Manifests, None

VARIABLES
  record,       \* run -> its manifest of record, or None
  withdrawn,    \* runs that are not in place under their record any more
  answer        \* caller -> the run it was given and its manifest, or None

RegistryInit ==
  /\ record = [id \in Runs |-> None]
  /\ withdrawn = {}
  /\ answer = [p \in Callers |-> None]

Publish(id) ==
  /\ record[id] = None
  /\ \E m \in Manifests : record' = [record EXCEPT ![id] = m]
  /\ withdrawn' \in {withdrawn, withdrawn \cup {id}}

Withdraw(id) ==
  /\ record[id] # None
  /\ withdrawn' = withdrawn \cup {id}
  /\ UNCHANGED record

(* The caller may be the one that has just published the run.              *)
Answer(p, id) ==
  /\ record'[id] # None
  /\ answer' = [answer EXCEPT ![p] = <<id, record'[id]>>]

Forget(p) == answer' = [answer EXCEPT ![p] = None]

RegistryNext ==
  /\ \/ UNCHANGED <<record, withdrawn>>
     \/ \E id \in Runs : Publish(id) \/ Withdraw(id)
  /\ \/ UNCHANGED answer
     \/ \E p \in Callers : \E id \in Runs : Answer(p, id)
     \/ \E p \in Callers : Forget(p)

RegistrySpec == RegistryInit /\ [][RegistryNext]_<<record, withdrawn, answer>>
=============================================================================
