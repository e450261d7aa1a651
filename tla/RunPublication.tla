--------------------------- MODULE RunPublication ---------------------------
(***************************************************************************)
(* The formal run command: execute_formal_run (bfbt/application/run.py)    *)
(* publishes a terminal run through RunArtifactStore (artifacts/store.py)  *)
(* or V2RunArtifactStore (artifacts/v2.py) and DuckDBCatalog.register_run. *)
(*                                                                         *)
(* A run directory is staged, verified, renamed into place and registered; *)
(* a registration that raises moves the directory back.  A run whose       *)
(* execution or publication raises is published as a failed run, whose     *)
(* identity does not depend on the error.  Processes executing the same    *)
(* configuration share nothing but the directories and the catalog.        *)
(*                                                                         *)
(* A manifest is told apart by its creation time (stamp): two publications *)
(* of one run have different manifest hashes.                              *)
(***************************************************************************)
EXTENDS Naturals, FiniteSets

CONSTANTS
  Processes,
  Configs,        \* resolved configurations with their snapshot and factor
  Errors,         \* what an execution may raise
  Stamps,         \* bound: creation times in use at once
  MaxFaults,      \* bound: crashes and exceptions
  None

ASSUME StampsAssumption == Stamps \subseteq Nat

ASSUME NoneAssumption ==
  /\ None \notin Errors \cup {"store"}
  /\ None \notin [stamp : Stamps, error : Errors \cup {None, "store"}]

Ids == Configs \X {"succeeded", "failed"}

VARIABLES
  dir,            \* published directories: id -> their manifest, or None
  catalog,        \* rows of runs: id -> the registered manifest, or None
  process,
  leftovers,      \* staging directories nobody owns any more
  faults,
  undone          \* history, read by the properties only: the publications a
                  \*   rollback took back although another process had
                  \*   registered them or was about to

stores == <<dir, catalog, leftovers, undone>>
vars == <<stores, process, faults>>

-----------------------------------------------------------------------------
Idle ==
  [at |-> "idle", id |-> None, manifest |-> None, error |-> None,
   staged |-> FALSE]

Init ==
  /\ dir = [id \in Ids |-> None]
  /\ catalog = [id \in Ids |-> None]
  /\ process = [p \in Processes |-> Idle]
  /\ leftovers = 0 /\ faults = 0 /\ undone = {}

At(p, at) == process[p].at = at

Goes(p, at) == process' = [process EXCEPT ![p].at = at]

Fault == faults < MaxFaults /\ faults' = faults + 1

(* execute_formal_run: an exception of the execution or of the publication *)
(* leads to publish_failure; one of publish_failure ends the call.  The    *)
(* stage is removed first.                                                 *)
Raised(p, error) ==
  IF process[p].id[2] = "succeeded"
  THEN [at |-> "check", id |-> <<process[p].id[1], "failed">>,
        manifest |-> None, error |-> error, staged |-> FALSE]
  ELSE Idle

Raises(p, error) == process' = [process EXCEPT ![p] = Raised(p, error)]

Returns(p) == Goes(p, "returned")

-----------------------------------------------------------------------------
Start(p, c) ==
  /\ process[p].at \in {"idle", "returned"}
  /\ process' = [process EXCEPT
       ![p] = [Idle EXCEPT !.at = "execute", !.id = <<c, "succeeded">>]]
  /\ UNCHANGED <<stores, faults>>

Execute(p) ==
  /\ At(p, "execute")
  /\ \/ Goes(p, "check") /\ UNCHANGED faults
     \/ Fault /\ \E e \in Errors : Raises(p, e)
  /\ UNCHANGED stores

(* _existing, _existing_v2: the directory is looked for, its manifest is   *)
(* loaded, its files are compared with the manifest, the run is registered *)
(* and its metrics are read at last.                                       *)
Check(p) ==
  /\ At(p, "check")
  /\ Goes(p, IF dir[process[p].id] = None THEN "stage" ELSE "load")
  /\ UNCHANGED <<stores, faults>>

Load(p) ==
  /\ At(p, "load")
  /\ LET found == dir[process[p].id] IN
     IF found = None
     THEN Raises(p, "store")
     ELSE process' = [process EXCEPT ![p].manifest = found, ![p].at = "verify"]
  /\ UNCHANGED <<stores, faults>>

\* The hashes are of what is in the directory by now.
Verified(p) == dir[process[p].id] = process[p].manifest

Verify(p) ==
  /\ At(p, "verify")
  /\ IF Verified(p) THEN Goes(p, "adopt") ELSE Raises(p, "store")
  /\ UNCHANGED <<stores, faults>>

\* Mutant: a registration writes over the row of another publication.
NeverConflicts(p) == FALSE

(* register_run: a row with another hash is a conflict, one with this hash *)
(* is left alone.                                                          *)
Conflicts(p) == catalog[process[p].id] \notin {None, process[p].manifest}

Registers(p) ==
  catalog' = [catalog EXCEPT ![process[p].id] = process[p].manifest]

\* Mutant: a directory that is there is taken for registered.
AdoptUnregistered(p) ==
  /\ At(p, "adopt")
  /\ Goes(p, "metrics")
  /\ UNCHANGED <<stores, faults>>

Adopt(p) ==
  /\ At(p, "adopt")
  /\ \/ /\ ~Conflicts(p)
        /\ Registers(p)
        /\ Goes(p, "metrics")
        /\ UNCHANGED faults
     \/ /\ Conflicts(p)
        /\ Raises(p, "store") /\ UNCHANGED <<catalog, faults>>
     \/ Fault /\ Raises(p, "store") /\ UNCHANGED catalog
  /\ UNCHANGED <<dir, leftovers, undone>>

(* Only a V2 success must have its metrics.                                *)
ReadMetrics(p) ==
  /\ At(p, "metrics")
  /\ IF /\ dir[process[p].id] = None
        /\ process[p].id[2] = "succeeded"
     THEN Raises(p, "store")
     ELSE Returns(p)
  /\ UNCHANGED <<stores, faults>>

InUse ==
  {dir[id] : id \in Ids} \cup {catalog[id] : id \in Ids}
  \cup {process[p].manifest : p \in Processes} \cup {u[2] : u \in undone}

FreshStamps == {s \in Stamps : \A m \in InUse \ {None} : m.stamp # s}

(* The staging directory is filled with tables, metrics, metadata and the  *)
(* report, hashed, and verified against the manifest.                      *)
Stage(p) ==
  /\ At(p, "stage")
  /\ \E s \in FreshStamps :
       /\ \A t \in FreshStamps : s <= t
       /\ process' = [process EXCEPT
            ![p].manifest = [stamp |-> s, error |-> process[p].error],
            ![p].staged = TRUE, ![p].at = "rename"]
  /\ UNCHANGED <<stores, faults>>

(* publish_success_v2 checks the audit tables before it stages anything.    *)
AuditRefused(p) ==
  /\ At(p, "stage") /\ process[p].id[2] = "succeeded"
  /\ Fault
  /\ Raises(p, "store")
  /\ UNCHANGED stores

StageRaises(p) ==
  /\ At(p, "rename")
  /\ Fault
  /\ Raises(p, "store")
  /\ UNCHANGED stores

\* Mutant: the directory in place is replaced.
RenameOver(p) ==
  /\ At(p, "rename")
  /\ dir' = [dir EXCEPT ![process[p].id] = process[p].manifest]
  /\ process' = [process EXCEPT ![p].staged = FALSE, ![p].at = "register"]
  /\ UNCHANGED <<catalog, leftovers, faults, undone>>

(* _publish_directory: a rename onto a directory that is not empty fails.  *)
Rename(p) ==
  /\ At(p, "rename")
  /\ IF dir[process[p].id] = None
     THEN /\ dir' = [dir EXCEPT ![process[p].id] = process[p].manifest]
          /\ process' = [process EXCEPT ![p].staged = FALSE,
                                        ![p].at = "register"]
     ELSE Raises(p, "store") /\ UNCHANGED dir
  /\ UNCHANGED <<catalog, leftovers, faults, undone>>

(* The database admits one writer: a registration may raise whatever it    *)
(* would find, above all when another process is registering.              *)
Register(p) ==
  /\ At(p, "register")
  /\ \/ ~Conflicts(p) /\ Registers(p) /\ Returns(p) /\ UNCHANGED faults
     \/ Conflicts(p) /\ Goes(p, "rollback") /\ UNCHANGED <<catalog, faults>>
     \/ Fault /\ Goes(p, "rollback") /\ UNCHANGED catalog
  /\ UNCHANGED <<dir, leftovers, undone>>

(* Another process has verified this publication: it is registered, or it  *)
(* is going to be.                                                         *)
Adopted(id, m) ==
  \/ catalog[id] = m
  \/ \E p \in Processes :
       /\ process[p].at \in {"adopt", "metrics"}
       /\ process[p].id = id /\ process[p].manifest = m

(* The handler that catches the exception, then the one around it: it asks *)
(* neither the catalog nor anybody else.                                   *)
RollBack(p) ==
  /\ At(p, "rollback")
  /\ dir' = [dir EXCEPT ![process[p].id] = None]
  /\ undone' = undone \cup
       {u \in {<<process[p].id, process[p].manifest>>} : Adopted(u[1], u[2])}
  /\ process' = [process EXCEPT ![p].staged = TRUE, ![p].at = "remove"]
  /\ UNCHANGED <<catalog, leftovers, faults>>

RemoveStage(p) ==
  /\ At(p, "remove")
  /\ Raises(p, "store")
  /\ UNCHANGED <<stores, faults>>

(* An interrupt is no Exception: like a crash it runs no handler.          *)
Dies(p) ==
  /\ process[p].at \notin {"idle", "returned"}
  /\ Fault
  /\ process' = [process EXCEPT ![p] = Idle]
  /\ leftovers' = leftovers + (IF process[p].staged THEN 1 ELSE 0)
  /\ UNCHANGED <<dir, catalog, undone>>

Step(p) ==
  \/ Execute(p) \/ Check(p) \/ Load(p) \/ Verify(p) \/ Adopt(p) \/ ReadMetrics(p)
  \/ Stage(p) \/ Rename(p) \/ Register(p) \/ RollBack(p) \/ RemoveStage(p)

Next ==
  \E p \in Processes :
    \/ \E c \in Configs : Start(p, c)
    \/ Step(p)
    \/ AuditRefused(p) \/ StageRaises(p)
    \/ Dies(p)

(* A process goes on until it ends, and every run is called for again and  *)
(* again by somebody.                                                      *)
Fairness ==
  /\ \A p \in Processes : WF_vars(Step(p))
  /\ \A p \in Processes, c \in Configs : SF_vars(Start(p, c))

Spec == Init /\ [][Next]_vars /\ Fairness

-----------------------------------------------------------------------------
Manifests == [stamp : Stamps, error : Errors \cup {None, "store"}]

\* Types; a failed run's manifest has an error and a succeeded one none; a
\* process that has ended owns no staging directory.
TypeOK ==
  /\ \A id \in Ids :
       /\ dir[id] \in Manifests \cup {None}
       /\ catalog[id] \in Manifests \cup {None}
       /\ dir[id] # None => (dir[id].error = None) = (id[2] = "succeeded")
  /\ \A p \in Processes :
       /\ process[p].id \in Ids \cup {None}
       /\ process[p].manifest \in Manifests \cup {None}
       /\ process[p].staged => process[p].at \in {"rename", "remove"}
  /\ leftovers \in 0 .. faults
  /\ undone \subseteq Ids \X Manifests

\* The catalog never names a run whose directory is not there with exactly
\* the registered manifest, whatever raises or dies, and with any number of
\* processes publishing the same run; with one exception, the publication
\* that its own publisher took back when another process had adopted it
\* (undone).
CatalogBacked ==
  \A id \in Ids : catalog[id] # None /\ dir[id] # catalog[id] =>
    <<id, catalog[id]>> \in undone

\* docs/acceptance/A09.md:16 without the exception, "Catalog 登记失败会回滚目
\* 录": what a failed registration leaves behind is no row of the catalog
\* without its run.
CatalogNamesWhatIsThere ==
  \A id \in Ids : catalog[id] # None => dir[id] = catalog[id]

\* A run that a call has returned is registered under the manifest that was
\* returned, for as long as the process remembers it, and it is in place
\* unless its publisher took it back after this call had verified it.
ReturnedRunIsThere ==
  \A p \in Processes : At(p, "returned") =>
    /\ catalog[process[p].id] = process[p].manifest
    /\ dir[process[p].id] = process[p].manifest
       \/ <<process[p].id, process[p].manifest>> \in undone

\* Crashes and exceptions may delay the publication of a run but not
\* prevent it: called for again and again, every run is in the end
\* registered, and in place unless that very publication was undone.
RunsSettle ==
  \A c \in Configs : LET id == <<c, "succeeded">> IN
    <>[](/\ catalog[id] # None
         /\ dir[id] = catalog[id] \/ <<id, catalog[id]>> \in undone)

(* What a reader finds: the manifest the catalog names, the runs whose     *)
(* directory does not hold it, and what the calls that returned were given.*)
Withdrawn == {id \in Ids : catalog[id] # None /\ dir[id] # catalog[id]}

Answers ==
  [p \in Processes |-> IF At(p, "returned")
                       THEN <<process[p].id, process[p].manifest>> ELSE None]

Registry ==
  INSTANCE RunRegistry WITH Callers <- Processes, Runs <- Ids,
    record <- catalog, withdrawn <- Withdrawn, answer <- Answers

\* Published runs are immutable (artifacts/store.py:97), and callers agree
\* on them: whatever raises, dies or is taken back, a run gets one manifest
\* of record, every call that returns the run hands that one out, and a run
\* whose publication was taken back never comes to hold it again.
ImplementsRegistry == Registry!RegistrySpec

=============================================================================
