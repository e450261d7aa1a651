------------------------ MODULE RunPublication_proofs ------------------------
(***************************************************************************)
(* Proofs about RunPublication, for every set of processes, configurations *)
(* and errors, any number of faults and every interleaving of publishers,  *)
(* adopters and rollbacks.                                                 *)
(***************************************************************************)
EXTENDS RunPublication, TLAPS

Places ==
  {"idle", "execute", "check", "load", "verify", "adopt", "metrics", "stage",
   "rename", "register", "rollback", "remove", "returned"}

Commands ==
  [at : Places, id : Ids \cup {None}, manifest : Manifests \cup {None},
   error : Errors \cup {None, "store"}, staged : BOOLEAN]

Types ==
  /\ dir \in [Ids -> Manifests \cup {None}]
  /\ catalog \in [Ids -> Manifests \cup {None}]
  /\ process \in [Processes -> Commands]
  /\ faults \in Nat /\ leftovers \in 0 .. faults
  /\ undone \subseteq Ids \X Manifests

(* A directory holds a failed run exactly when its manifest has an error.  *)
ErrorsFit ==
  \A id \in Ids :
    dir[id] # None => (dir[id].error = None) = (id[2] = "succeeded")

(* Having adopted a directory a process may count on its manifest, unless  *)
(* the rollback of its publisher is on record.                             *)
Adopters == {"adopt", "metrics", "returned"}

Owners == {"register", "rollback"}

(* What a command knows of its run: above all that a manifest about to be  *)
(* renamed into place is nowhere to be found yet.                          *)
Sound(r) ==
  /\ r.at # "idle" =>
       r.id \in Ids /\ (r.error = None) = (r.id[2] = "succeeded")
  /\ r.staged => r.at \in {"rename", "remove"}
  /\ r.at = "verify" => r.manifest # None
  /\ r.at = "rename" =>
       /\ r.manifest # None /\ r.manifest.error = r.error
       /\ \A id \in Ids : r.manifest \notin {dir[id], catalog[id]}
  /\ r.at \in Owners => r.manifest # None /\ dir[r.id] = r.manifest
  /\ r.at \in Adopters =>
       /\ r.manifest # None
       /\ dir[r.id] = r.manifest \/ <<r.id, r.manifest>> \in undone
  /\ r.at \in {"metrics", "returned"} => catalog[r.id] = r.manifest

(* A directory about to be registered or taken back has one owner, and a   *)
(* manifest about to be renamed into place is known to one process.        *)
Compatible(r, s) ==
  /\ r.at \in Owners /\ s.at \in Owners => r.id # s.id
  /\ r.at = "rename" => s.manifest # r.manifest

OneOwner ==
  \A p, q \in Processes : p # q => Compatible(process[p], process[q])

Inv ==
  /\ Types
  /\ ErrorsFit
  /\ CatalogBacked
  /\ \A p \in Processes : Sound(process[p])
  /\ OneOwner

-----------------------------------------------------------------------------
LEMMA InvInit == Init => Inv
<1> SUFFICES ASSUME Init PROVE Inv
  OBVIOUS
<1>1. Types
  BY DEF Init, Types, Commands, Places, Idle
<1>2. ErrorsFit /\ CatalogBacked
  BY DEF Init, ErrorsFit, CatalogBacked
<1>3. \A p \in Processes : Sound(process[p])
  BY DEF Init, Sound, Idle, Owners, Adopters
<1>4. OneOwner
  BY DEF Init, OneOwner, Compatible, Idle, Owners
<1> QED
  BY <1>1, <1>2, <1>3, <1>4 DEF Inv

(* A step of one process that leaves the stores alone: what its command    *)
(* becomes must be sound, and compatible with every other.                 *)
LEMMA LocalStep ==
  ASSUME Inv, UNCHANGED <<dir, catalog, undone>>, faults' \in Nat,
         leftovers' \in 0 .. faults',
         NEW p \in Processes, NEW r \in Commands,
         process' = [process EXCEPT ![p] = r],
         Sound(r),
         \A q \in Processes \ {p} :
           Compatible(r, process[q]) /\ Compatible(process[q], r)
  PROVE  Inv'
<1>1. Types'
  BY DEF Inv, Types
<1>2. ErrorsFit' /\ CatalogBacked'
  BY DEF Inv, ErrorsFit, CatalogBacked
<1>3. \A q \in Processes : process'[q] = IF q = p THEN r ELSE process[q]
  BY DEF Inv, Types
<1>4. \A q \in Processes : Sound(process[q])'
  BY <1>3 DEF Inv, Sound
<1>5. OneOwner'
  BY <1>3 DEF Inv, OneOwner
<1> QED
  BY <1>1, <1>2, <1>4, <1>5 DEF Inv

(* A command that owns no directory and stages none, and has learnt of no  *)
(* manifest, is compatible with all.                                       *)
LEMMA QuietStep ==
  ASSUME Inv, UNCHANGED <<dir, catalog, undone>>, faults' \in Nat,
         leftovers' \in 0 .. faults',
         NEW p \in Processes, NEW r \in Commands,
         process' = [process EXCEPT ![p] = r],
         Sound(r),
         r.at \notin Owners \cup {"rename"},
         r.manifest \in {None, process[p].manifest}
  PROVE  Inv'
<1>1. ASSUME NEW q \in Processes \ {p}
      PROVE  Compatible(r, process[q]) /\ Compatible(process[q], r)
  <2>1. Compatible(process[q], process[p]) /\ Sound(process[q])
    BY DEF Inv, OneOwner
  <2> QED
    BY <2>1 DEF Compatible, Sound, Owners
<1> QED
  BY <1>1, LocalStep

(* Where a raise leads.                                                    *)
LEMMA RaisedIsQuiet ==
  ASSUME Inv, NEW p \in Processes, process[p].at # "idle",
         NEW e \in Errors \cup {"store"}
  PROVE  /\ Raised(p, e) \in Commands
         /\ Sound(Raised(p, e))
         /\ Raised(p, e).at \in {"check", "idle"}
         /\ Raised(p, e).manifest = None
<1>0. process[p] \in Commands /\ process[p].id \in Ids
  BY DEF Inv, Types, Sound
<1>1. CASE process[p].id[2] = "succeeded"
  <2>1. PICK c \in Configs : process[p].id[1] = c
    BY <1>0 DEF Ids
  <2>2. <<c, "failed">> \in Ids /\ <<c, "failed">>[2] = "failed"
    BY DEF Ids
  <2> QED
    BY <1>1, <2>1, <2>2, NoneAssumption
    DEF Raised, Commands, Places, Sound, Owners, Adopters
<1>2. CASE process[p].id[2] # "succeeded"
  BY <1>2 DEF Raised, Commands, Places, Sound, Idle, Owners, Adopters
<1> QED
  BY <1>1, <1>2

(* A raise leaves the stores alone.                                        *)
LEMMA RaiseStep ==
  ASSUME Inv, NEW p \in Processes, NEW e \in Errors \cup {"store"},
         Raises(p, e), process[p].at # "idle", UNCHANGED stores,
         UNCHANGED faults \/ Fault
  PROVE  Inv'
<1>1. faults' \in Nat /\ leftovers' \in 0 .. faults'
  BY DEF stores, Fault, Inv, Types
<1>2. Raised(p, e).at \notin Owners \cup {"rename"}
  BY RaisedIsQuiet DEF Owners
<1> QED
  BY <1>1, <1>2, RaisedIsQuiet, QuietStep DEF Raises, stores

(* A process moves on to another place, its stores and its faults alone.   *)
LEMMA GoesStep ==
  ASSUME Inv, NEW p \in Processes, NEW at \in Places, Goes(p, at),
         UNCHANGED <<stores, faults>>,
         at \notin Owners \cup {"rename"},
         Sound([process[p] EXCEPT !.at = at])
  PROVE  Inv'
<1> DEFINE r == [process[p] EXCEPT !.at = at]
<1>0. /\ process[p] \in Commands
      /\ faults \in Nat /\ leftovers \in 0 .. faults
  BY DEF Inv, Types
<1>1. r \in Commands /\ r.at = at /\ r.manifest = process[p].manifest
  BY <1>0 DEF Commands
<1>2. process' = [process EXCEPT ![p] = r]
  BY DEF Goes
<1>3. faults' \in Nat /\ leftovers' \in 0 .. faults'
  BY <1>0 DEF stores
<1> QED
  BY <1>1, <1>2, <1>3, QuietStep DEF stores

(* The steps that leave the stores alone.                                  *)
LEMMA QuietSteps ==
  ASSUME Inv, NEW p \in Processes,
         \/ \E c \in Configs : Start(p, c)
         \/ Execute(p) \/ Check(p) \/ Load(p) \/ Verify(p) \/ ReadMetrics(p)
         \/ Stage(p) \/ AuditRefused(p)
         \/ StageRaises(p) \/ RemoveStage(p) \/ Dies(p)
  PROVE  Inv'
<1>0. /\ process[p] \in Commands /\ Sound(process[p])
      /\ faults \in Nat /\ leftovers \in 0 .. faults
  BY DEF Inv, Types
<1>1. ASSUME NEW c \in Configs, Start(p, c) PROVE Inv'
  <2> DEFINE r == [Idle EXCEPT !.at = "execute", !.id = <<c, "succeeded">>]
  <2>1. <<c, "succeeded">> \in Ids /\ <<c, "succeeded">>[2] = "succeeded"
    BY DEF Ids
  <2>2. r \in Commands /\ Sound(r)
    BY <2>1 DEF Commands, Places, Idle, Sound, Owners, Adopters
  <2>3. r.at \notin Owners \cup {"rename"} /\ r.manifest = None
    BY DEF Idle, Owners
  <2> QED
    BY <1>0, <1>1, <2>2, <2>3, QuietStep DEF Start, stores
<1>2. CASE Execute(p)
  <2>1. CASE Goes(p, "check") /\ UNCHANGED faults
    <3>1. Sound([process[p] EXCEPT !.at = "check"])
      BY <1>0, <1>2 DEF Commands, Sound, Owners, Adopters, Execute, At
    <3> QED
      BY <1>2, <2>1, <3>1, GoesStep DEF Execute, Places, Owners
  <2> QED
    BY <1>2, <2>1, RaiseStep DEF Execute, At
<1>3. CASE Check(p)
  <2> DEFINE place == IF dir[process[p].id] = None THEN "stage" ELSE "load"
  <2>1. place \in Places /\ place \notin Owners \cup {"rename"}
    BY DEF Places, Owners
  <2>2. Sound([process[p] EXCEPT !.at = place])
    BY <1>0, <1>3 DEF Commands, Sound, Owners, Adopters, Check, At
  <2> QED
    BY <1>3, <2>1, <2>2, GoesStep DEF Check
<1>4. CASE Load(p)
  <2> DEFINE found == dir[process[p].id]
             r == [process[p] EXCEPT !.manifest = found, !.at = "verify"]
  <2>0. /\ process[p].at = "load" /\ process[p].id \in Ids
        /\ found \in Manifests \cup {None}
    BY <1>0, <1>4 DEF Load, At, Sound, Inv, Types
  <2>1. CASE found = None
    BY <1>4, <2>0, <2>1, RaiseStep DEF Load
  <2>2. CASE found # None
    <3>1. r \in Commands /\ Sound(r) /\ r.at = "verify" /\ r.manifest = found
      BY <1>0, <2>0, <2>2 DEF Commands, Places, Sound, Owners, Adopters
    <3>2. process' = [process EXCEPT ![p] = r]
      BY <1>4, <2>2 DEF Load
    <3>3. ASSUME NEW q \in Processes \ {p}
          PROVE  Compatible(r, process[q]) /\ Compatible(process[q], r)
      <4>1. Sound(process[q])
        BY DEF Inv
      <4> QED
        BY <2>0, <3>1, <4>1 DEF Compatible, Sound, Owners
    <3> QED
      BY <1>0, <1>4, <3>1, <3>2, <3>3, LocalStep DEF Load, stores
  <2> QED
    BY <2>1, <2>2
<1>5. CASE Verify(p)
  <2>1. CASE Verified(p)
    <3>1. Sound([process[p] EXCEPT !.at = "adopt"])
      BY <1>0, <1>5, <2>1
      DEF Commands, Sound, Owners, Adopters, Verify, At, Verified
    <3> QED
      BY <1>5, <2>1, <3>1, GoesStep DEF Verify, Places, Owners
  <2>2. CASE ~Verified(p)
    BY <1>5, <2>2, RaiseStep DEF Verify, At
  <2> QED
    BY <2>1, <2>2
<1>6. CASE ReadMetrics(p)
  <2>1. CASE Returns(p)
    <3>1. Sound([process[p] EXCEPT !.at = "returned"])
      BY <1>0, <1>6 DEF Commands, Sound, Owners, Adopters, ReadMetrics, At
    <3> QED
      BY <1>6, <2>1, <3>1, GoesStep DEF ReadMetrics, Returns, Places, Owners
  <2> QED
    BY <1>6, <2>1, RaiseStep DEF ReadMetrics, At
<1>7. CASE Stage(p)
  <2>1. PICK s \in FreshStamps :
          process' = [process EXCEPT
            ![p].manifest = [stamp |-> s, error |-> process[p].error],
            ![p].staged = TRUE, ![p].at = "rename"]
    BY <1>7 DEF Stage
  <2> DEFINE m == [stamp |-> s, error |-> process[p].error]
             r == [process[p] EXCEPT !.manifest = m, !.staged = TRUE,
                                     !.at = "rename"]
  <2>2. m \in Manifests /\ m # None
    BY <1>0, NoneAssumption DEF Manifests, Commands, FreshStamps
  <2>3. m \notin InUse
    BY <2>2 DEF FreshStamps
  <2>4. \A id \in Ids : m \notin {dir[id], catalog[id]}
    BY <2>3 DEF InUse
  <2>5. \A q \in Processes : process[q].manifest # m
    BY <2>3 DEF InUse
  <2>6. /\ r \in Commands /\ r.at = "rename" /\ r.manifest = m
        /\ r.error = process[p].error /\ r.id = process[p].id
        /\ m.error = process[p].error
    BY <1>0, <2>2 DEF Commands, Places
  <2>7. Sound(r)
    <3>1. r.id \in Ids /\ (r.error = None) = (r.id[2] = "succeeded")
      BY <1>0, <1>7, <2>6 DEF Sound, Stage, At
    <3>2. \A id \in Ids : r.manifest \notin {dir[id], catalog[id]}
      BY <2>4, <2>6
    <3>3. r.manifest # None /\ r.manifest.error = r.error
      BY <2>2, <2>6
    <3> HIDE DEF r, m
    <3> QED
      BY <2>6, <3>1, <3>2, <3>3 DEF Sound, Owners, Adopters
  <2>8. ASSUME NEW q \in Processes \ {p}
        PROVE  Compatible(r, process[q]) /\ Compatible(process[q], r)
    BY <2>5, <2>6 DEF Compatible, Owners
  <2>9. process' = [process EXCEPT ![p] = r]
    BY <2>1
  <2> QED
    BY <1>0, <1>7, <2>6, <2>7, <2>8, <2>9, LocalStep DEF Stage, stores
<1>8. CASE AuditRefused(p) \/ StageRaises(p) \/ RemoveStage(p)
  BY <1>8, RaiseStep DEF AuditRefused, StageRaises, RemoveStage, At
<1>9. CASE Dies(p)
  <2>1. faults' \in Nat /\ leftovers' \in 0 .. faults'
    BY <1>0, <1>9 DEF Dies, Fault
  <2>2. /\ Idle \in Commands /\ Sound(Idle) /\ Idle.manifest = None
        /\ Idle.at \notin Owners \cup {"rename"}
    BY DEF Idle, Commands, Places, Sound, Owners, Adopters
  <2> QED
    BY <1>9, <2>1, <2>2, QuietStep DEF Dies
<1> QED
  BY <1>1, <1>2, <1>3, <1>4, <1>5, <1>6, <1>7, <1>8, <1>9

(* A process registers the manifest it holds, its own or one it adopted.   *)
LEMMA RegistrationStep ==
  ASSUME Inv, NEW p \in Processes, NEW at \in {"metrics", "returned"},
         process[p].at \in {"adopt", "register"},
         ~Conflicts(p), Registers(p), Goes(p, at),
         UNCHANGED <<dir, faults, leftovers, undone>>
  PROVE  Inv'
<1> DEFINE i == process[p].id
           m == process[p].manifest
<1>0. /\ process[p] \in Commands /\ Sound(process[p])
      /\ i \in Ids /\ m # None /\ m \in Manifests
      /\ dir[i] = m \/ <<i, m>> \in undone
      /\ catalog[i] \in {None, m}
  BY DEF Inv, Types, Sound, Owners, Adopters, Commands, Conflicts
<1>1. \A q \in Processes : process'[q] =
        IF q = p THEN [process[p] EXCEPT !.at = at] ELSE process[q]
  BY DEF Goes, Inv, Types
<1>2. \A j \in Ids : catalog'[j] = IF j = i THEN m ELSE catalog[j]
  BY <1>0 DEF Registers, Inv, Types
<1>3. Types'
  BY <1>0 DEF Inv, Types, Registers, Goes, Commands, Places
<1>4. ErrorsFit' /\ CatalogBacked'
  BY <1>0, <1>2 DEF Inv, ErrorsFit, CatalogBacked
<1>5. ASSUME NEW q \in Processes PROVE Sound(process[q])'
  <2>1. CASE q = p
    BY <1>0, <1>1, <1>2, <2>1 DEF Sound, Owners, Adopters, Commands
  <2>2. CASE q # p
    <3>1. process'[q] = process[q] /\ Sound(process[q])
      BY <1>1, <2>2 DEF Inv
    <3>2. process[q].at = "rename" => process[q].manifest # m
      BY <2>2 DEF Inv, OneOwner, Compatible
    <3> QED
      BY <1>0, <1>2, <3>1, <3>2 DEF Sound, Adopters
  <2> QED
    BY <2>1, <2>2
<1>6. OneOwner'
  BY <1>0, <1>1 DEF Inv, OneOwner, Compatible, Commands, Owners
<1> QED
  BY <1>3, <1>4, <1>5, <1>6 DEF Inv

(* A publication is renamed into a free place.                             *)
LEMMA RenameStep ==
  ASSUME Inv, NEW p \in Processes, Rename(p), dir[process[p].id] = None
  PROVE  Inv'
<1> DEFINE i == process[p].id
           m == process[p].manifest
           r == [process[p] EXCEPT !.staged = FALSE, !.at = "register"]
<1>0. /\ process[p] \in Commands /\ Sound(process[p])
      /\ process[p].at = "rename" /\ i \in Ids /\ m # None /\ m \in Manifests
      /\ (m.error = None) = (i[2] = "succeeded")
  BY DEF Inv, Types, Rename, At, Sound, Commands
<1>1. \A q \in Processes : process'[q] = IF q = p THEN r ELSE process[q]
  BY DEF Rename, Inv, Types
<1>2. \A j \in Ids : dir'[j] = IF j = i THEN m ELSE dir[j]
  BY DEF Rename, Inv, Types
<1>3. UNCHANGED <<catalog, faults, leftovers, undone>>
  BY DEF Rename
<1>4. Types'
  BY <1>0, <1>3 DEF Rename, Inv, Types, Commands, Places
<1>5. ErrorsFit' /\ CatalogBacked'
  BY <1>0, <1>2, <1>3 DEF Inv, ErrorsFit, CatalogBacked
<1>6. ASSUME NEW q \in Processes PROVE Sound(process[q])'
  <2>1. CASE q = p
    BY <1>0, <1>1, <1>2, <2>1 DEF Sound, Owners, Adopters, Commands
  <2>2. CASE q # p
    <3>1. process'[q] = process[q] /\ Sound(process[q])
      BY <1>1, <2>2 DEF Inv
    <3>2. process[q].manifest # m
      BY <1>0, <2>2 DEF Inv, OneOwner, Compatible
    <3> QED
      BY <1>2, <1>3, <3>1, <3>2 DEF Sound, Owners, Adopters
  <2> QED
    BY <2>1, <2>2
<1>7. \A q \in Processes \ {p} : process[q].at \in Owners => process[q].id # i
  BY DEF Inv, Sound
<1>8. OneOwner'
  <2> SUFFICES ASSUME NEW q \in Processes, NEW s \in Processes, q # s
               PROVE  Compatible(process[q], process[s])'
    BY DEF OneOwner
  <2>0. /\ Compatible(process[q], process[s])
        /\ r.id = i /\ r.manifest = m /\ r.at = "register"
    BY <1>0 DEF Inv, OneOwner, Commands
  <2> HIDE DEF r
  <2>1. CASE q # p /\ s # p
    BY <1>1, <2>0, <2>1 DEF Compatible
  <2>2. CASE q = p
    BY <1>0, <1>1, <2>0, <2>2, <1>7 DEF Compatible, Owners
  <2>3. CASE s = p
    BY <1>0, <1>1, <2>0, <2>3, <1>7 DEF Compatible, Owners
  <2> QED
    BY <2>1, <2>2, <2>3
<1> QED
  BY <1>4, <1>5, <1>6, <1>8 DEF Inv

(* Whoever has adopted what a rollback takes back is on record.            *)
LEMMA RollBackStep ==
  ASSUME Inv, NEW p \in Processes, RollBack(p)
  PROVE  Inv'
<1> DEFINE i == process[p].id
           m == process[p].manifest
           r == [process[p] EXCEPT !.staged = TRUE, !.at = "remove"]
<1>0. /\ process[p] \in Commands /\ Sound(process[p])
      /\ process[p].at = "rollback" /\ i \in Ids /\ m # None /\ m \in Manifests
      /\ dir[i] = m
  BY DEF Inv, Types, RollBack, At, Sound, Commands, Owners
<1>1. \A q \in Processes : process'[q] = IF q = p THEN r ELSE process[q]
  BY DEF RollBack, Inv, Types
<1>2. \A j \in Ids : dir'[j] = IF j = i THEN None ELSE dir[j]
  BY DEF RollBack, Inv, Types
<1>3. UNCHANGED <<catalog, faults, leftovers>>
  BY DEF RollBack
<1>4. undone \subseteq undone' /\ (Adopted(i, m) => <<i, m>> \in undone')
  BY DEF RollBack
<1>5. undone' \subseteq Ids \X Manifests
  BY <1>0 DEF RollBack, Inv, Types
<1>6. Types'
  BY <1>0, <1>3, <1>5 DEF RollBack, Inv, Types, Commands, Places
<1>7. ErrorsFit'
  BY <1>2 DEF Inv, ErrorsFit
<1>8. CatalogBacked'
  BY <1>0, <1>2, <1>3, <1>4 DEF Inv, CatalogBacked, Adopted
<1>9. ASSUME NEW q \in Processes PROVE Sound(process[q])'
  <2>1. CASE q = p
    BY <1>0, <1>1, <2>1 DEF Sound, Owners, Adopters, Commands
  <2>2. CASE q # p
    <3>1. /\ process'[q] = process[q] /\ Sound(process[q])
          /\ Compatible(process[q], process[p]) /\ Compatible(process[p], process[q])
      BY <1>1, <2>2 DEF Inv, OneOwner
    <3>2. process[q].at \in Owners => process[q].id # i
      BY <1>0, <3>1 DEF Compatible, Owners
    <3>3. process[q].at \in Adopters /\ process[q].id = i /\ process[q].manifest = m
            => <<i, m>> \in undone'
      BY <1>4, <3>1 DEF Adopted, Adopters, Sound
    <3> QED
      BY <1>0, <1>2, <1>3, <1>4, <3>1, <3>2, <3>3 DEF Sound, Owners, Adopters
  <2> QED
    BY <2>1, <2>2
<1>10. OneOwner'
  <2> SUFFICES ASSUME NEW q \in Processes, NEW s \in Processes, q # s
               PROVE  Compatible(process[q], process[s])'
    BY DEF OneOwner
  <2>0. /\ Compatible(process[q], process[s])
        /\ r.id = i /\ r.manifest = m /\ r.at = "remove"
    BY <1>0 DEF Inv, OneOwner, Commands
  <2> HIDE DEF r
  <2>1. CASE q # p /\ s # p
    BY <1>1, <2>0, <2>1 DEF Compatible
  <2>2. CASE q = p
    BY <1>0, <1>1, <2>0, <2>2 DEF Compatible, Owners
  <2>3. CASE s = p
    BY <1>0, <1>1, <2>0, <2>3 DEF Compatible, Owners
  <2> QED
    BY <2>1, <2>2, <2>3
<1> QED
  BY <1>6, <1>7, <1>8, <1>9, <1>10 DEF Inv

(* The steps of a process that publishes or adopts a directory.            *)
LEMMA PublishingSteps ==
  ASSUME Inv, NEW p \in Processes,
         Adopt(p) \/ Rename(p) \/ Register(p) \/ RollBack(p)
  PROVE  Inv'
<1>0. /\ process[p] \in Commands /\ Sound(process[p])
      /\ faults \in Nat /\ leftovers \in 0 .. faults
  BY DEF Inv, Types
<1>1. CASE Adopt(p)
  <2>1. CASE ~Conflicts(p) /\ Registers(p) /\ Goes(p, "metrics") /\ UNCHANGED faults
    BY <1>1, <2>1, RegistrationStep DEF Adopt, At
  <2>2. CASE Raises(p, "store") /\ UNCHANGED catalog /\ (UNCHANGED faults \/ Fault)
    BY <1>1, <2>2, RaiseStep DEF Adopt, At, stores
  <2> QED
    BY <1>1, <2>1, <2>2 DEF Adopt
<1>2. CASE Rename(p)
  <2>1. CASE dir[process[p].id] = None
    BY <1>2, <2>1, RenameStep
  <2>2. CASE dir[process[p].id] # None
    BY <1>2, <2>2, RaiseStep DEF Rename, At, stores
  <2> QED
    BY <2>1, <2>2
<1>3. CASE Register(p)
  <2>1. CASE ~Conflicts(p) /\ Registers(p) /\ Returns(p) /\ UNCHANGED faults
    BY <1>3, <2>1, RegistrationStep DEF Register, At, Returns
  <2>2. CASE /\ Goes(p, "rollback") /\ UNCHANGED catalog
             /\ UNCHANGED faults \/ Fault
    <3> DEFINE r == [process[p] EXCEPT !.at = "rollback"]
    <3>1. r \in Commands /\ Sound(r) /\ r.id = process[p].id /\ r.at = "rollback"
          /\ r.manifest = process[p].manifest
      BY <1>0, <1>3 DEF Commands, Places, Sound, Owners, Adopters, Register, At
    <3>2. ASSUME NEW q \in Processes \ {p}
          PROVE  Compatible(r, process[q]) /\ Compatible(process[q], r)
      <4>1. Compatible(process[p], process[q]) /\ Compatible(process[q], process[p])
        BY DEF Inv, OneOwner
      <4> QED
        BY <1>3, <3>1, <4>1 DEF Compatible, Owners, Register, At
    <3>3. process' = [process EXCEPT ![p] = r] /\ UNCHANGED <<dir, catalog, undone>>
      BY <1>3, <2>2 DEF Goes, Register
    <3>4. faults' \in Nat /\ leftovers' \in 0 .. faults'
      BY <1>0, <1>3, <2>2 DEF Fault, Register
    <3> QED
      BY <3>1, <3>2, <3>3, <3>4, LocalStep
  <2> QED
    BY <1>3, <2>1, <2>2 DEF Register
<1> QED
  BY <1>1, <1>2, <1>3, RollBackStep

LEMMA InvStep == ASSUME Inv, [Next]_vars PROVE Inv'
<1>1. ASSUME UNCHANGED vars PROVE Inv'
  BY <1>1 DEF Inv, Types, ErrorsFit, CatalogBacked, Sound, OneOwner, Compatible,
              vars, stores
<1> QED
  BY <1>1, QuietSteps, PublishingSteps DEF Next, Step

(* Every state of the publication has its types, and a directory's kind    *)
(* fits its manifest's error.                                              *)
THEOREM TypeCorrect == Spec => []TypeOK
<1>1. Inv => TypeOK
  BY DEF Inv, Types, TypeOK, Commands, Sound, ErrorsFit
<1>2. Inv /\ [Next]_vars => Inv'
  BY InvStep
<1> QED
  BY <1>1, <1>2, InvInit, PTL DEF Spec

(* The catalog names a run only while its directory holds the registered   *)
(* manifest, through every crash, conflict and retry of any number of      *)
(* processes, but for a publication that its publisher took back after     *)
(* another process had adopted it.                                         *)
THEOREM CatalogStaysBacked == Spec => []CatalogBacked
<1>1. Inv => CatalogBacked
  BY DEF Inv
<1>2. Inv /\ [Next]_vars => Inv'
  BY InvStep
<1> QED
  BY <1>1, <1>2, InvInit, PTL DEF Spec

(* A run a call has returned, published by it or adopted, stays registered *)
(* under the returned manifest, and in place unless it was undone.         *)
THEOREM ReturnedRunStays == Spec => []ReturnedRunIsThere
<1>1. Inv => ReturnedRunIsThere
  BY DEF Inv, Sound, ReturnedRunIsThere, At, Adopters
<1>2. Inv /\ [Next]_vars => Inv'
  BY InvStep
<1> QED
  BY <1>1, <1>2, InvInit, PTL DEF Spec

-----------------------------------------------------------------------------
(* A step changes the catalog by a registration, or the directories by a   *)
(* rename or a rollback, or neither.                                       *)
LEMMA StoreSteps ==
  ASSUME [Next]_vars
  PROVE  \/ UNCHANGED <<dir, catalog>>
         \/ \E p \in Processes :
              /\ process[p].at \in {"adopt", "register"} /\ ~Conflicts(p)
              /\ Registers(p) /\ UNCHANGED dir
         \/ \E p \in Processes : Rename(p) /\ dir[process[p].id] = None
         \/ \E p \in Processes : RollBack(p)
<1>1. CASE UNCHANGED vars
  BY <1>1 DEF vars, stores
<1>2. CASE Next
  <2>1. PICK p \in Processes :
          \/ \E c \in Configs : Start(p, c)
          \/ Step(p) \/ AuditRefused(p) \/ StageRaises(p) \/ Dies(p)
    BY <1>2 DEF Next
  <2>2. \/ Adopt(p) \/ Register(p) \/ Rename(p) \/ RollBack(p)
        \/ Execute(p) \/ Check(p) \/ Load(p) \/ Verify(p) \/ ReadMetrics(p)
        \/ Stage(p) \/ RemoveStage(p)
        \/ (\E c \in Configs : Start(p, c))
        \/ AuditRefused(p) \/ StageRaises(p) \/ Dies(p)
    BY <2>1 DEF Step
  <2>3. CASE Adopt(p)
    BY <2>3 DEF Adopt, At
  <2>4. CASE Register(p)
    BY <2>4 DEF Register, At
  <2>5. CASE Rename(p)
    BY <2>5 DEF Rename
  <2>6. CASE RollBack(p)
    BY <2>6
  <2>7. ASSUME \/ Execute(p) \/ Check(p) \/ Load(p) \/ Verify(p)
               \/ ReadMetrics(p) \/ Stage(p)
        PROVE  UNCHANGED <<dir, catalog>>
    BY <2>7 DEF Execute, Check, Load, Verify, ReadMetrics, Stage, stores
  <2>8. ASSUME \/ RemoveStage(p) \/ (\E c \in Configs : Start(p, c))
               \/ AuditRefused(p) \/ StageRaises(p) \/ Dies(p)
        PROVE  UNCHANGED <<dir, catalog>>
    BY <2>8 DEF RemoveStage, Start, AuditRefused, StageRaises, Dies, stores
  <2> QED
    BY <2>2, <2>3, <2>4, <2>5, <2>6, <2>7, <2>8
<1> QED
  BY <1>1, <1>2

(* A registration publishes a run that has no record, or changes nothing;  *)
(* the run may have been withdrawn meanwhile.                              *)
LEMMA RegistrationPublishes ==
  ASSUME Inv, NEW p \in Processes,
         process[p].at \in {"adopt", "register"}, ~Conflicts(p), Registers(p),
         UNCHANGED dir
  PROVE  \/ UNCHANGED <<catalog, Withdrawn>>
         \/ \E id \in Ids : Registry!Publish(id)
<1> DEFINE i == process[p].id
           m == process[p].manifest
<1>1. /\ i \in Ids /\ m \in Manifests /\ m # None
      /\ catalog \in [Ids -> Manifests \cup {None}]
  BY DEF Inv, Types, Sound, Owners, Adopters, Commands
<1>2. catalog' = [catalog EXCEPT ![i] = m]
  BY DEF Registers
<1>3. CASE catalog[i] = m
  <2>1. catalog' = catalog
    BY <1>1, <1>2, <1>3
  <2>2. Withdrawn' = Withdrawn
    BY <2>1 DEF Withdrawn
  <2> QED
    BY <2>1, <2>2
<1>4. CASE catalog[i] = None
  <2>1. \A j \in Ids : catalog'[j] = IF j = i THEN m ELSE catalog[j]
    BY <1>1, <1>2
  <2>2. i \notin Withdrawn
    BY <1>4 DEF Withdrawn
  <2>3. \A j \in Ids \ {i} : j \in Withdrawn' <=> j \in Withdrawn
    BY <2>1 DEF Withdrawn
  <2>4. Withdrawn \subseteq Ids /\ Withdrawn' \subseteq Ids
    BY DEF Withdrawn
  <2>5. Withdrawn' \in {Withdrawn, Withdrawn \cup {i}}
    BY <2>2, <2>3, <2>4
  <2> QED
    BY <1>1, <1>2, <1>4, <2>5 DEF Registry!Publish
<1> QED
  BY <1>3, <1>4 DEF Conflicts

(* What is renamed into place is nobody's record, so that no withdrawn run *)
(* comes back.                                                             *)
LEMMA RenameKeepsRecords ==
  ASSUME Inv, NEW p \in Processes, Rename(p), dir[process[p].id] = None
  PROVE  UNCHANGED <<catalog, Withdrawn>>
<1> DEFINE i == process[p].id
           m == process[p].manifest
<1>1. i \in Ids /\ catalog[i] # m
  BY DEF Inv, Rename, At, Sound
<1>2. \A j \in Ids : dir'[j] = IF j = i THEN m ELSE dir[j]
  BY DEF Rename, Inv, Types
<1>3. catalog' = catalog
  BY DEF Rename
<1>4. \A j \in Ids : j \in Withdrawn' <=> j \in Withdrawn
  BY <1>1, <1>2, <1>3 DEF Withdrawn
<1>5. Withdrawn \subseteq Ids /\ Withdrawn' \subseteq Ids
  BY DEF Withdrawn
<1> QED
  BY <1>3, <1>4, <1>5

(* A rollback withdraws a run that has a record, or changes nothing.       *)
LEMMA RollBackWithdraws ==
  ASSUME Inv, NEW p \in Processes, RollBack(p)
  PROVE  \/ UNCHANGED <<catalog, Withdrawn>>
         \/ \E id \in Ids : Registry!Withdraw(id)
<1> DEFINE i == process[p].id
<1>1. i \in Ids
  BY DEF Inv, RollBack, At, Sound
<1>2. \A j \in Ids : dir'[j] = IF j = i THEN None ELSE dir[j]
  BY DEF RollBack, Inv, Types
<1>3. catalog' = catalog
  BY DEF RollBack
<1>4. \A j \in Ids : j \in Withdrawn' <=>
        IF j = i THEN catalog[i] # None ELSE j \in Withdrawn
  BY <1>1, <1>2, <1>3 DEF Withdrawn
<1>5. Withdrawn \subseteq Ids /\ Withdrawn' \subseteq Ids
  BY DEF Withdrawn
<1>6. CASE catalog[i] = None
  <2>1. i \notin Withdrawn
    BY <1>6 DEF Withdrawn
  <2> QED
    BY <1>3, <1>4, <1>5, <1>6, <2>1
<1>7. CASE catalog[i] # None
  <2>1. Withdrawn' = Withdrawn \cup {i}
    BY <1>1, <1>4, <1>5, <1>7
  <2> QED
    BY <1>1, <1>3, <1>7, <2>1 DEF Registry!Withdraw
<1> QED
  BY <1>6, <1>7

LEMMA RecordSteps ==
  ASSUME Inv, [Next]_vars
  PROVE  \/ UNCHANGED <<catalog, Withdrawn>>
         \/ \E id \in Ids : Registry!Publish(id) \/ Registry!Withdraw(id)
<1>1. CASE UNCHANGED <<dir, catalog>>
  BY <1>1 DEF Withdrawn
<1> QED
  BY <1>1, StoreSteps, RegistrationPublishes, RenameKeepsRecords,
     RollBackWithdraws

LEMMA OneProcessMoves ==
  ASSUME Inv, Next
  PROVE  \E p \in Processes : \A q \in Processes \ {p} : process'[q] = process[q]
<1>1. PICK p \in Processes :
        \/ \E c \in Configs : Start(p, c)
        \/ Step(p) \/ AuditRefused(p) \/ StageRaises(p) \/ Dies(p)
  BY DEF Next
<1>2. \/ Execute(p) \/ Check(p) \/ Load(p) \/ Verify(p) \/ Adopt(p)
      \/ ReadMetrics(p) \/ Stage(p) \/ Rename(p)
      \/ Register(p) \/ RollBack(p) \/ RemoveStage(p)
      \/ (\E c \in Configs : Start(p, c))
      \/ AuditRefused(p) \/ StageRaises(p) \/ Dies(p)
  BY <1>1 DEF Step
<1>3. ASSUME \/ Execute(p) \/ Check(p) \/ Load(p) \/ Verify(p) \/ Adopt(p)
             \/ ReadMetrics(p) \/ Stage(p) \/ Rename(p)
      PROVE  \A q \in Processes \ {p} : process'[q] = process[q]
  BY <1>3 DEF Inv, Types, Execute, Check, Load, Verify, Adopt, ReadMetrics, Stage,
              Rename, Raises, Returns, Goes
<1>4. ASSUME \/ Register(p) \/ RollBack(p) \/ RemoveStage(p)
             \/ (\E c \in Configs : Start(p, c))
             \/ AuditRefused(p) \/ StageRaises(p) \/ Dies(p)
      PROVE  \A q \in Processes \ {p} : process'[q] = process[q]
  BY <1>4 DEF Inv, Types, Register, RollBack, RemoveStage, Start, AuditRefused,
              StageRaises, Dies, Raises, Returns, Goes
<1> QED
  BY <1>2, <1>3, <1>4

(* A call that has returned has given its caller the manifest of record;   *)
(* one that goes on has forgotten what the last one gave.                  *)
LEMMA AnswerSteps ==
  ASSUME Inv, Inv', [Next]_vars
  PROVE  \/ UNCHANGED Answers
         \/ \E p \in Processes : \E id \in Ids : Registry!Answer(p, id)
         \/ \E p \in Processes : Registry!Forget(p)
<1>1. CASE UNCHANGED vars
  BY <1>1 DEF vars, Answers, At
<1>2. CASE Next
  <2>1. PICK p \in Processes :
          \A q \in Processes \ {p} : process'[q] = process[q]
    BY <1>2, OneProcessMoves
  <2> DEFINE r == process'[p]
             a == IF r.at = "returned" THEN <<r.id, r.manifest>> ELSE None
  <2>2. Answers' = [Answers EXCEPT ![p] = a]
    BY <2>1 DEF Answers, At
  <2>3. CASE r.at = "returned"
    <3>1. r.id \in Ids /\ r.manifest # None /\ catalog'[r.id] = r.manifest
      BY <2>3 DEF Inv, Sound, Adopters
    <3> QED
      BY <2>2, <2>3, <3>1 DEF Registry!Answer
  <2>4. CASE r.at # "returned"
    BY <2>2, <2>4 DEF Registry!Forget
  <2> QED
    BY <2>3, <2>4
<1> QED
  BY <1>1, <1>2

(* The publication implements the registry: through every crash, exception *)
(* and rollback of any number of processes, a run gets one manifest of     *)
(* record, which every call that returns the run hands out, and one that   *)
(* was taken back never comes to hold it again.                            *)
THEOREM Implementation == Spec => ImplementsRegistry
<1>1. Init => Registry!RegistryInit
  BY DEF Init, Registry!RegistryInit, Withdrawn, Answers, At, Idle
<1>2. Inv /\ [Next]_vars => Inv'
  BY InvStep
<1>3. Inv /\ Inv' /\ [Next]_vars
        => [Registry!RegistryNext]_<<catalog, Withdrawn, Answers>>
  BY RecordSteps, AnswerSteps DEF Registry!RegistryNext
<1> QED
  BY <1>1, <1>2, <1>3, InvInit, PTL
  DEF Spec, ImplementsRegistry, Registry!RegistrySpec
=============================================================================
