------------------------- MODULE CheckpointsProofs --------------------------
(***************************************************************************)
(* Proofs about Checkpoints: the file store implements DurableMap, and a    *)
(* clean-up that went through leaves no file of an inactive generation, for *)
(* any apps, values, capacity, faults and crashes.                          *)
(***************************************************************************)
EXTENDS Checkpoints, FiniteSetTheorems, TLAPS

(* What can be read from the place of a file, and a state of the directory: *)
(* a crash may leave what is visible.                                       *)
Contents == Values \cup {None, Damaged}
Directory == [disk : [Keys -> Contents], durable : [Keys -> SUBSET Contents]]
Sound(f) == f \in Directory /\ \A k \in Keys : f.disk[k] \in f.durable[k]

(* From f to g the files of `gone` are removed and nothing else happens,    *)
(* except that what is visible becomes durable.                             *)
Loses(f, g, gone) ==
    /\ Sound(g) /\ gone \subseteq Keys
    /\ \A k \in Keys : /\ g.disk[k] = IF k \in gone THEN None ELSE f.disk[k]
                       /\ g.durable[k] \subseteq f.durable[k] \cup {g.disk[k]}

----------------------------------------------------------------------------
(* Nothing happens.                                                         *)
LEMMA LosesNothing ==
    ASSUME NEW f, Sound(f)
    PROVE  Loses(f, f, {})
BY DEF Loses

(* Removals of files add up.                                                *)
LEMMA LosesTwice ==
    ASSUME NEW f, NEW g, NEW h, NEW a, NEW b, Sound(f), Loses(f, g, a), Loses(g, h, b)
    PROVE  Loses(f, h, a \cup b)
<1>1. Sound(h) /\ a \cup b \subseteq Keys
  BY DEF Loses
<1>2. ASSUME NEW k \in Keys
      PROVE  /\ h.disk[k] = IF k \in a \cup b THEN None ELSE f.disk[k]
             /\ h.durable[k] \subseteq f.durable[k] \cup {h.disk[k]}
  <2>1. /\ g.disk[k] = IF k \in a THEN None ELSE f.disk[k]
        /\ g.durable[k] \subseteq f.durable[k] \cup {g.disk[k]}
        /\ h.disk[k] = IF k \in b THEN None ELSE g.disk[k]
        /\ h.durable[k] \subseteq g.durable[k] \cup {h.disk[k]}
        /\ f.disk[k] \in f.durable[k]
    BY DEF Loses, Sound
  <2> QED BY <2>1
<1> QED BY <1>1, <1>2 DEF Loses

(* removePaths removes what it says, whether it fails or not.               *)
LEMMA RemovalLoses ==
    ASSUME NEW f, Sound(f), NEW keys \in SUBSET Keys, NEW r \in Removals(f, keys)
    PROVE  Loses(f, r.fs, r.gone) /\ r.gone \subseteq keys /\ (r.ok => r.gone = keys)
<1>1. ASSUME NEW gone \in SUBSET Keys PROVE Loses(f, Removed(f, gone), gone)
  BY DEF Loses, Sound, Directory, Contents, Removed
<1>2. ASSUME NEW g, Sound(g) PROVE Loses(g, Synced(g), {})
  BY <1>2 DEF Synced, Loses, Sound, Directory, Contents
<1>3. ASSUME NEW gone \in SUBSET Keys PROVE Loses(f, Synced(Removed(f, gone)), gone)
  <2>1. Loses(f, Removed(f, gone), gone)
    BY <1>1
  <2>2. Loses(Removed(f, gone), Synced(Removed(f, gone)), {})
    BY <2>1, <1>2 DEF Loses
  <2> QED BY <2>1, <2>2, LosesTwice, gone \cup {} = gone
<1>4. CASE r = [fs |-> IF keys = {} THEN f ELSE Synced(Removed(f, keys)), gone |-> keys, ok |-> TRUE]
  BY <1>3, <1>4, LosesNothing
<1>5. CASE r = [fs |-> Removed(f, keys), gone |-> keys, ok |-> FALSE]
  BY <1>1, <1>5
<1>6. ASSUME NEW s \in SUBSET keys,
             r = [fs |-> IF s = {} THEN f ELSE Synced(Removed(f, s)), gone |-> s, ok |-> FALSE]
      PROVE  Loses(f, r.fs, r.gone) /\ r.gone \subseteq keys /\ (r.ok => r.gone = keys)
  BY <1>3, <1>6, LosesNothing
<1> QED BY <1>4, <1>5, <1>6 DEF Removals

(* A scan keeps readable files within the capacity, and removes the others. *)
LEMMA ScanLoses ==
    ASSUME Sound(fs), NEW i \in Scan
    PROVE  /\ Loses(fs, i.result.fs, i.result.gone)
           /\ i.keys \in Kept
           /\ i.result \in Removals(fs, Files \ i.keys)
<1>1. PICK s \in Kept : \E r \in Removals(fs, Files \ s) : i = [keys |-> s, result |-> r]
  BY DEF Scan
<1>2. PICK r \in Removals(fs, Files \ s) : i = [keys |-> s, result |-> r]
  BY <1>1
<1>3. Files \ s \in SUBSET Keys
  BY DEF Files
<1> QED BY <1>2, <1>3, RemovalLoses

----------------------------------------------------------------------------
(* The directory is sound, and a checkpoint that was renamed into place and *)
(* not answered for is what is visible there: nobody else touches it.       *)
Renamed == save # None /\ save.step = "renamed"
FilesInv ==
    /\ Sound(fs)
    /\ save \in SaveRecord \cup {None}
    /\ cache.keys \in SUBSET Keys
    /\ Renamed => fs.disk[save.key] = save.value

(* A removal of files is a drop of DurableMap.                              *)
LEMMA LosesDrops ==
    ASSUME CheckpointAssumption, Sound(fs), NEW gone, Loses(fs, fs', gone)
    PROVE  Promise!Without(gone) /\ Promise!Settles
<1> USE DEF CheckpointAssumption
<1>1. Promise!Without(gone)
  BY DEF Promise!Without, Visible, Readable, Loses
<1>2. ASSUME NEW k \in Keys
      PROVE  /\ Visible'[k] \in Durable'[k]
             /\ Durable'[k] \subseteq Durable[k] \cup {Visible'[k]}
  <2>1. /\ fs'.disk[k] \in fs'.durable[k]
        /\ fs'.durable[k] \subseteq fs.durable[k] \cup {fs'.disk[k]}
    BY DEF Loses, Sound
  <2>2. /\ Visible'[k] = Readable(fs'.disk[k])
        /\ Durable'[k] = {Readable(x) : x \in fs'.durable[k]}
        /\ Durable[k] = {Readable(x) : x \in fs.durable[k]}
    BY DEF Visible, Durable
  <2>3. Visible'[k] \in Durable'[k]
    BY <2>1, <2>2
  <2>4. Durable'[k] \subseteq Durable[k] \cup {Visible'[k]}
    BY <2>1, <2>2
  <2> QED BY <2>3, <2>4
<1> QED BY <1>1, <1>2 DEF Promise!Settles

(* The directory after an inventory, be it remembered or scanned.           *)
LEMMA InventoryLoses ==
    ASSUME FilesInv, NEW i \in Inventory
    PROVE  /\ Loses(fs, i.result.fs, i.result.gone)
           /\ i.keys \in SUBSET Keys
<1> USE DEF FilesInv
<1>1. CASE cache.initialized
  <2>1. i = [keys |-> cache.keys, result |-> [fs |-> fs, gone |-> {}, ok |-> TRUE]]
    BY <1>1 DEF Inventory
  <2>2. /\ i.keys = cache.keys /\ i.result.ok = TRUE
        /\ i.result.fs = fs /\ i.result.gone = {}
    BY <2>1
  <2>3. cache.keys \in SUBSET Keys
    OBVIOUS
  <2> QED BY <2>2, <2>3, LosesNothing
<1>2. CASE ~cache.initialized
  <2>1. i \in Scan
    BY <1>2 DEF Inventory
  <2>2. i.keys \in SUBSET Keys
    BY Zenon, <2>1, ScanLoses DEF Kept, Valid
  <2> QED BY Zenon, <2>1, <2>2, ScanLoses
<1> QED BY <1>1, <1>2

(* What an attempt and a clean-up do to the directory is a removal.         *)
LEMMA AttachLoses ==
    ASSUME FilesInv, Attach
    PROVE  \E gone \in SUBSET Keys : Loses(fs, fs', gone)
<1> DEFINE Broken(i) == {k \in i.keys \cap Active(document) : fs.disk[k] = Damaged}
<1>1. PICK i \in Inventory :
         \/ fs' = i.result.fs
         \/ \E r \in Removals(i.result.fs, Broken(i)) : fs' = r.fs
  BY Zenon DEF Attach
<1>2. Loses(fs, i.result.fs, i.result.gone) /\ i.keys \in SUBSET Keys
  BY <1>1, InventoryLoses
<1>3. CASE fs' = i.result.fs
  BY <1>2, <1>3 DEF Loses
<1>4. ASSUME NEW r \in Removals(i.result.fs, Broken(i)), fs' = r.fs
      PROVE  Loses(fs, fs', i.result.gone \cup r.gone)
  <2>1. Broken(i) \in SUBSET Keys
    BY <1>2
  <2>2. Sound(i.result.fs)
    BY <1>2 DEF Loses
  <2>3. Loses(i.result.fs, r.fs, r.gone)
    BY <2>1, <2>2, RemovalLoses
  <2> QED BY <1>2, <1>4, <2>3, LosesTwice DEF FilesInv
<1> QED BY ZenonT(30), <1>1, <1>3, <1>4 DEF Loses

LEMMA ReconcileLoses ==
    ASSUME FilesInv, NEW c, Reconcile(c)
    PROVE  \E gone \in SUBSET Keys : Loses(fs, fs', gone)
<1>1. PICK i \in Scan :
         \/ fs' = i.result.fs
         \/ \E r \in Removals(i.result.fs, i.keys \ c.active) : fs' = r.fs
  BY Zenon DEF Reconcile
<1>2. Loses(fs, i.result.fs, i.result.gone) /\ i.keys \in SUBSET Keys
  BY Zenon, <1>1, ScanLoses DEF FilesInv, Kept, Valid
<1>3. CASE fs' = i.result.fs
  BY <1>2, <1>3 DEF Loses
<1>4. ASSUME NEW r \in Removals(i.result.fs, i.keys \ c.active), fs' = r.fs
      PROVE  Loses(fs, fs', i.result.gone \cup r.gone)
  <2>1. i.keys \ c.active \in SUBSET Keys
    BY <1>2
  <2>2. Sound(i.result.fs)
    BY <1>2 DEF Loses
  <2>3. Loses(i.result.fs, r.fs, r.gone)
    BY <2>1, <2>2, RemovalLoses
  <2> QED BY <1>2, <1>4, <2>3, LosesTwice DEF FilesInv
<1> QED BY ZenonT(30), <1>1, <1>3, <1>4 DEF Loses

----------------------------------------------------------------------------
(* Step by step: every action keeps FilesInv, and is a step of DurableMap   *)
(* or leaves what its callers see alone.                                    *)
Implemented == FilesInv' /\ (Promise!Next \/ UNCHANGED Promise!vars)

LEMMA QuietStep ==
    ASSUME FilesInv, UNCHANGED <<fs, save, cache, answer>>
    PROVE  Implemented
<1>1. FilesInv'
  BY DEF FilesInv, Renamed
<1>2. UNCHANGED Promise!vars
  BY DEF Promise!vars, Visible, Durable
<1> QED BY <1>1, <1>2 DEF Implemented

LEMMA BeginSaveStep ==
    ASSUME FilesInv, NEW k \in Keys, NEW v \in Values, BeginSave(k, v)
    PROVE  Implemented
<1>1. FilesInv'
  BY DEF FilesInv, Renamed, BeginSave, SaveRecord
<1>2. UNCHANGED Promise!vars
  BY DEF Promise!vars, Visible, Durable, BeginSave
<1> QED BY <1>1, <1>2 DEF Implemented

(* Files are removed and no save is answered.                               *)
LEMMA DropStep ==
    ASSUME CheckpointAssumption, FilesInv, UNCHANGED answer,
           NEW gone \in SUBSET Keys, Loses(fs, fs', gone)
    PROVE  Promise!Next
<1>1. Promise!Drop(gone)
  BY LosesDrops DEF Promise!Drop, FilesInv
<1> QED BY <1>1 DEF Promise!Next

(* A save is given up, whatever its inventory has removed.                  *)
LEMMA GivenUpStep ==
    ASSUME CheckpointAssumption, FilesInv, save # None, GivenUp,
           NEW gone \in SUBSET Keys, Loses(fs, fs', gone)
    PROVE  Promise!Next
<1>1. save.key \in Keys /\ save.value \in Values
  BY DEF FilesInv, SaveRecord
<1>2. Promise!Save(save.key, save.value, gone)
  BY LosesDrops DEF Promise!Save, FilesInv, GivenUp, Answered
<1> QED BY <1>1, <1>2 DEF Promise!Next

LEMMA PrepareStep ==
    ASSUME CheckpointAssumption, FilesInv, Prepare
    PROVE  Implemented
<1>1. PICK i \in Inventory :
         /\ fs' = i.result.fs
         /\ cache' = [initialized |-> i.result.ok, keys |-> i.keys]
         /\ \/ save' = [save EXCEPT !.step = "synced"] /\ UNCHANGED answer
            \/ GivenUp
  BY DEF Prepare
<1>2. Loses(fs, fs', i.result.gone) /\ i.keys \in SUBSET Keys
  BY <1>1, InventoryLoses
<1>3. save \in SaveRecord /\ save # None
  BY DEF Prepare, FilesInv
<1>4. Sound(fs') /\ i.result.gone \in SUBSET Keys
  BY <1>2 DEF Loses
<1>5. CASE save' = [save EXCEPT !.step = "synced"] /\ UNCHANGED answer
  <2>1. FilesInv'
    BY <1>1, <1>2, <1>3, <1>4, <1>5 DEF FilesInv, Renamed, SaveRecord
  <2> QED BY <1>2, <1>4, <1>5, <2>1, DropStep DEF Implemented
<1>6. CASE GivenUp
  <2>1. FilesInv'
    BY <1>1, <1>2, <1>4, <1>6 DEF FilesInv, Renamed, GivenUp
  <2> QED BY <1>2, <1>3, <1>4, <1>6, <2>1, GivenUpStep DEF Implemented
<1> QED BY <1>1, <1>5, <1>6

LEMMA RenameStep ==
    ASSUME CheckpointAssumption, FilesInv, Rename
    PROVE  Implemented
<1>1. save \in SaveRecord /\ save # None
  BY DEF Rename, FilesInv
<1>2. save.key \in Keys /\ save.value \in Values
  BY <1>1 DEF SaveRecord
<1>3. CASE save' = [save EXCEPT !.step = "renamed"] /\ fs' = RenameInto(save.key, save.value) /\ UNCHANGED answer
  <2>1. fs' = [disk |-> [fs.disk EXCEPT ![save.key] = save.value],
               durable |-> [fs.durable EXCEPT ![save.key] = @ \cup {save.value}]]
    BY <1>3 DEF RenameInto
  <2>2. Sound(fs')
    BY <1>2, <2>1 DEF FilesInv, Sound, Directory, Contents
  <2>3. FilesInv'
    BY <1>1, <1>2, <1>3, <2>1, <2>2 DEF FilesInv, Renamed, SaveRecord, Rename, Sound, Directory
  <2>4. Visible' = [Visible EXCEPT ![save.key] = save.value]
    BY Zenon, <1>2, <2>1 DEF Visible, Readable, CheckpointAssumption, FilesInv, Sound, Directory
  <2>5. Promise!Settles
    <3> SUFFICES ASSUME NEW k \in Keys
                 PROVE  /\ Visible'[k] \in Durable'[k]
                        /\ Durable'[k] \subseteq Durable[k] \cup {Visible'[k]}
      BY DEF Promise!Settles
    <3>1. /\ fs'.disk[k] \in fs'.durable[k]
          /\ fs'.durable[k] \subseteq fs.durable[k] \cup {fs'.disk[k]}
      BY <1>2, <2>1, <2>2 DEF FilesInv, Sound, Directory
    <3>2. /\ Visible'[k] = Readable(fs'.disk[k])
          /\ Durable'[k] = {Readable(x) : x \in fs'.durable[k]}
          /\ Durable[k] = {Readable(x) : x \in fs.durable[k]}
      BY DEF Visible, Durable
    <3> QED BY <3>1, <3>2
  <2>6. Promise!Write(save.key, save.value)
    BY <1>3, <2>4, <2>5 DEF Promise!Write
  <2> QED BY <1>2, <2>3, <2>6 DEF Implemented, Promise!Next
<1>4. CASE GivenUp /\ UNCHANGED fs
  <2>1. FilesInv'
    BY <1>4 DEF FilesInv, Renamed, GivenUp, Rename
  <2>2. Loses(fs, fs', {})
    BY <1>4, LosesNothing DEF FilesInv
  <2> QED BY <1>1, <1>4, <2>1, <2>2, GivenUpStep DEF Implemented
<1> QED BY <1>3, <1>4 DEF Rename

LEMMA SyncDirectoryStep ==
    ASSUME CheckpointAssumption, FilesInv, SyncDirectory
    PROVE  Implemented
<1>1. save \in SaveRecord /\ save # None /\ save.step = "renamed"
  BY DEF SyncDirectory, FilesInv
<1>2. save.key \in Keys /\ save.value \in Values /\ fs.disk[save.key] = save.value
  BY <1>1 DEF SaveRecord, FilesInv, Renamed
<1>3. Visible[save.key] = save.value
  BY <1>2 DEF Visible, Readable, CheckpointAssumption
<1>4. cache'.keys \in SUBSET Keys
  BY <1>2 DEF SyncDirectory, FilesInv
<1>5. CASE fs' = Synced(fs) /\ Answered(save.key, save.value, "committed")
  <2>1. fs' = [disk |-> fs.disk, durable |-> [k \in Keys |-> {fs.disk[k]}]]
    BY <1>5 DEF Synced, FilesInv, Sound, Directory
  <2>2. Loses(fs, fs', {})
    BY <2>1 DEF Loses, FilesInv, Sound, Directory, Contents
  <2>3. FilesInv'
    BY <1>4, <2>2 DEF FilesInv, Renamed, SyncDirectory, Loses
  <2>4. Promise!Settles /\ UNCHANGED Visible
    BY <2>1, <2>2, LosesDrops DEF FilesInv, Visible
  <2>5. Durable'[save.key] = {save.value}
    BY <1>2, <2>1 DEF Durable, Readable, CheckpointAssumption
  <2>6. Promise!Save(save.key, save.value, {})
    BY <1>3, <1>5, <2>4, <2>5 DEF Promise!Save, Answered
  <2> QED BY <1>2, <2>3, <2>6 DEF Implemented, Promise!Next
<1>6. CASE UNCHANGED fs /\ Answered(save.key, save.value, "uncertain")
  <2>1. FilesInv'
    BY <1>4, <1>6 DEF FilesInv, Renamed, SyncDirectory
  <2>2. Loses(fs, fs', {})
    BY <1>6, LosesNothing DEF FilesInv
  <2>3. Promise!Settles /\ UNCHANGED Visible
    BY <1>6, <2>2, LosesDrops DEF FilesInv, Visible
  <2>4. Promise!Save(save.key, save.value, {})
    BY <1>3, <1>6, <2>3 DEF Promise!Save, Answered
  <2> QED BY <1>2, <2>1, <2>4 DEF Implemented, Promise!Next
<1> QED BY <1>5, <1>6 DEF SyncDirectory

LEMMA AttachStep ==
    ASSUME CheckpointAssumption, FilesInv, Attach
    PROVE  Implemented
<1>1. PICK gone \in SUBSET Keys : Loses(fs, fs', gone)
  BY AttachLoses
<1>2. cache'.keys \in SUBSET Keys
  <2>1. PICK i \in Inventory :
           \/ cache' = [initialized |-> FALSE, keys |-> i.keys]
           \/ \E keys \in SUBSET i.keys : cache' = [initialized |-> TRUE, keys |-> keys]
    BY Zenon DEF Attach
  <2>2. i.keys \in SUBSET Keys
    BY <2>1, InventoryLoses
  <2> QED BY <2>1, <2>2
<1>3. save = None /\ UNCHANGED <<save, answer>>
  BY DEF Attach, Lock
<1>4. FilesInv'
  BY <1>1, <1>2, <1>3 DEF FilesInv, Renamed, Loses
<1> QED BY <1>1, <1>3, <1>4, DropStep DEF Implemented

LEMMA ReconcileStep ==
    ASSUME CheckpointAssumption, FilesInv, NEW c, Reconcile(c)
    PROVE  Implemented
<1>1. PICK gone \in SUBSET Keys : Loses(fs, fs', gone)
  BY ReconcileLoses
<1>2. cache'.keys \in SUBSET Keys
  <2>1. PICK i \in Scan :
           \/ cache' = [initialized |-> FALSE, keys |-> i.keys]
           \/ \E keys \in SUBSET i.keys : cache' = [initialized |-> TRUE, keys |-> keys]
    BY DEF Reconcile
  <2>2. i.keys \in SUBSET Keys
    BY Zenon, <2>1, ScanLoses DEF FilesInv, Kept, Valid
  <2> QED BY <2>1, <2>2
<1>3. save = None /\ UNCHANGED <<save, answer>>
  BY DEF Reconcile, Lock
<1>4. FilesInv'
  BY <1>1, <1>2, <1>3 DEF FilesInv, Renamed, Loses
<1> QED BY <1>1, <1>3, <1>4, DropStep DEF Implemented

LEMMA DamageStep ==
    ASSUME CheckpointAssumption, FilesInv, NEW k \in Keys, Damage(k)
    PROVE  Implemented
<1>1. fs' = [disk |-> [fs.disk EXCEPT ![k] = Damaged], durable |-> [fs.durable EXCEPT ![k] = {Damaged}]]
  BY DEF Damage
<1>2. UNCHANGED <<cache, save, answer>> /\ (save # None => save.key # k)
  BY DEF Damage
<1>3. Sound(fs')
  BY <1>1 DEF FilesInv, Sound, Directory, Contents
<1>4. FilesInv'
  BY <1>1, <1>2, <1>3 DEF FilesInv, Renamed, SaveRecord, Sound, Directory
<1>5. Promise!Without({k})
  BY <1>1 DEF Promise!Without, Visible, Readable, FilesInv, Sound, Directory
<1>6. Promise!Settles
  <2> SUFFICES ASSUME NEW x \in Keys
               PROVE  /\ Visible'[x] \in Durable'[x]
                      /\ Durable'[x] \subseteq Durable[x] \cup {Visible'[x]}
    BY DEF Promise!Settles
  <2>1. /\ fs'.disk[x] \in fs'.durable[x]
        /\ fs'.durable[x] \subseteq fs.durable[x] \cup {fs'.disk[x]}
    BY <1>1, <1>3 DEF FilesInv, Sound, Directory
  <2>2. /\ Visible'[x] = Readable(fs'.disk[x])
        /\ Durable'[x] = {Readable(y) : y \in fs'.durable[x]}
        /\ Durable[x] = {Readable(y) : y \in fs.durable[x]}
    BY DEF Visible, Durable
  <2> QED BY <2>1, <2>2
<1>7. Promise!Drop({k})
  BY <1>2, <1>5, <1>6 DEF Promise!Drop
<1> QED BY <1>4, <1>7 DEF Implemented, Promise!Next

LEMMA CrashStep ==
    ASSUME FilesInv, Crash
    PROVE  Implemented
<1>1. PICK disk \in [Keys -> UNION {fs.durable[k] : k \in Keys}] :
         /\ \A k \in Keys : disk[k] \in fs.durable[k]
         /\ fs' = [disk |-> disk, durable |-> [k \in Keys |-> {disk[k]}]]
  BY Zenon DEF Crash
<1>2. Sound(fs')
  BY <1>1 DEF FilesInv, Sound, Directory
<1>3. FilesInv'
  BY <1>2 DEF FilesInv, Renamed, Crash
<1>4. ASSUME NEW k \in Keys
      PROVE  Visible'[k] \in Durable[k] /\ Durable'[k] = {Visible'[k]}
  BY <1>1 DEF Visible, Durable
<1>5. Promise!Crash
  BY <1>4 DEF Promise!Crash, Crash
<1> QED BY <1>3, <1>5 DEF Implemented, Promise!Next

LEMMA FilesInit ==
    ASSUME Init
    PROVE  FilesInv /\ Promise!Init
<1>1. FilesInv
  BY DEF Init, FilesInv, Sound, Directory, Contents, Renamed
<1>2. Visible = [k \in Keys |-> None] /\ Durable = [k \in Keys |-> {None}]
  BY DEF Init, Visible, Durable, Readable
<1> QED BY <1>1, <1>2 DEF Promise!Init, Init

LEMMA StepImplements ==
    ASSUME CheckpointAssumption, FilesInv, [Next]_vars
    PROVE  Implemented
<1>1. ASSUME NEW k \in Keys, NEW v \in Values, BeginSave(k, v) PROVE Implemented
  BY <1>1, BeginSaveStep
<1>2. CASE Prepare BY <1>2, PrepareStep
<1>3. CASE Rename BY <1>3, RenameStep
<1>4. CASE SyncDirectory BY <1>4, SyncDirectoryStep
<1>5. ASSUME NEW a \in Apps, Configure(a) \/ ProcessEnds(a) \/ StartChild(a) PROVE Implemented
  BY <1>5, QuietStep DEF Configure, ProcessEnds, StartChild
<1>6. CASE Attach BY <1>6, AttachStep
<1>7. CASE Apply BY <1>7, QuietStep DEF Apply
<1>8. ASSUME NEW c \in cleanups, Reconcile(c) PROVE Implemented
  BY <1>8, ReconcileStep
<1>9. ASSUME NEW k \in Keys, Damage(k) PROVE Implemented
  BY <1>9, DamageStep
<1>10. CASE Crash BY <1>10, CrashStep
<1>11. CASE UNCHANGED vars BY <1>11, QuietStep DEF vars
<1> QED BY <1>1, <1>2, <1>3, <1>4, <1>5, <1>6, <1>7, <1>8, <1>9, <1>10, <1>11 DEF Next

(* The checkpoint files, as the callers of the store see them, are a        *)
(* DurableMap: a committed save survives every crash at every step of any   *)
(* later operation until its key is written or dropped, one that failed     *)
(* wrote nothing, and no crash leaves a value that was never saved.         *)
THEOREM StoreImplementsMap ==
    ASSUME CheckpointAssumption
    PROVE  Spec => StoreIsDurable
<1>1. Init => FilesInv /\ Promise!Init
  BY FilesInit
<1>2. FilesInv /\ [Next]_vars => FilesInv' /\ [Promise!Next]_(Promise!vars)
  BY StepImplements DEF Implemented
<1> QED BY <1>1, <1>2, PTL DEF Spec, StoreIsDurable, Promise!Spec

----------------------------------------------------------------------------
(* The records of the store are its files, up to a checkpoint that was      *)
(* renamed into place and is not recorded yet, for which there is room.     *)
Prepared == save # None /\ save.step \in {"synced", "renamed"}
CountInv ==
    /\ cache.initialized =>
          /\ Cardinality(cache.keys) <= Capacity
          /\ Files = IF Renamed THEN cache.keys \cup {save.key} ELSE cache.keys
    /\ Prepared => cache.initialized /\ Fits(cache.keys, save.key)

(* A clean-up that is waiting and as recent as the document has its active  *)
(* keys, and one that went through for this document left nothing else; a   *)
(* save that was admitted since is one of an active key.                    *)
CleanInv ==
    /\ epoch \in Nat /\ ghost.cleaned \in Int /\ ghost.cleaned <= epoch
    /\ \A c \in cleanups : /\ c.epoch \in Int /\ c.epoch <= epoch
                           /\ c.epoch = epoch => c.active = Active(document)
    /\ ghost.cleaned = epoch => Valid \subseteq Active(document)
    /\ ghost.cleaned = epoch /\ save # None => save.key \in Active(document)

StoreInv == FilesInv /\ CountInv /\ CleanInv

(* There are finitely many files.                                           *)
LEMMA KeysFinite ==
    ASSUME CheckpointAssumption, NEW S \in SUBSET Keys
    PROVE  IsFiniteSet(S) /\ Cardinality(S) \in Nat
<1>1. IsFiniteSet(1 .. MaxGeneration)
  BY FS_Interval DEF CheckpointAssumption
<1>2. IsFiniteSet(Keys)
  BY <1>1, FS_Product DEF Keys, CheckpointAssumption
<1>3. IsFiniteSet(S)
  BY <1>2, FS_Subset
<1> QED BY <1>3, FS_CardinalityType

(* What a removal leaves.                                                   *)
LEMMA LosesFiles ==
    ASSUME CheckpointAssumption, NEW gone, Loses(fs, fs', gone)
    PROVE  Files' = Files \ gone /\ Valid' \subseteq Valid
BY DEF CheckpointAssumption, Loses, Files, Valid

(* A scan that went through leaves the files it kept, within the capacity.  *)
LEMMA ScanKeeps ==
    ASSUME CheckpointAssumption, Sound(fs), NEW i \in Scan
    PROVE  /\ i.keys \subseteq Files /\ Cardinality(i.keys) <= Capacity
           /\ i.result.ok => Files \ i.result.gone = i.keys
<1>1. i.keys \in Kept /\ i.result \in Removals(fs, Files \ i.keys)
  BY ScanLoses
<1>2. i.keys \subseteq Files
  BY <1>1 DEF Kept, Valid, Files, CheckpointAssumption
<1>3. Cardinality(i.keys) <= Capacity
  <2>1. Cardinality(Valid) \in Nat
    BY KeysFinite DEF Valid
  <2>2. Cardinality(i.keys) = IF Cardinality(Valid) < Capacity THEN Cardinality(Valid) ELSE Capacity
    BY <1>1 DEF Kept
  <2> QED BY <2>1, <2>2 DEF CheckpointAssumption
<1>4. Files \ i.keys \in SUBSET Keys
  BY DEF Files
<1>5. i.result.ok => i.result.gone = Files \ i.keys
  BY <1>1, <1>4, RemovalLoses
<1> QED BY <1>2, <1>3, <1>5

LEMMA InventoryKeeps ==
    ASSUME CheckpointAssumption, FilesInv, CountInv, ~Renamed, NEW i \in Inventory
    PROVE  /\ i.keys \subseteq Files /\ Cardinality(i.keys) <= Capacity
           /\ i.result.ok => Files \ i.result.gone = i.keys
<1>1. CASE cache.initialized
  <2>1. i = [keys |-> cache.keys, result |-> [fs |-> fs, gone |-> {}, ok |-> TRUE]]
    BY <1>1 DEF Inventory
  <2>2. i.keys = cache.keys /\ i.result.gone = {}
    BY <2>1
  <2> QED BY <1>1, <2>2 DEF CountInv
<1>2. CASE ~cache.initialized
  BY <1>2, ScanKeeps DEF Inventory, FilesInv
<1> QED BY <1>1, <1>2

----------------------------------------------------------------------------
(* Every action keeps CountInv.                                             *)
LEMMA CountQuiet ==
    ASSUME CountInv, UNCHANGED <<fs, save, cache>>
    PROVE  CountInv'
BY DEF CountInv, Files, Renamed, Prepared, Fits

LEMMA CountBeginSave ==
    ASSUME CountInv, NEW k, NEW v, BeginSave(k, v)
    PROVE  CountInv'
<1>1. ~Renamed /\ ~Renamed' /\ ~Prepared'
  BY DEF BeginSave, Renamed, Prepared
<1>2. UNCHANGED <<fs, cache>>
  BY DEF BeginSave
<1> QED BY <1>1, <1>2 DEF CountInv, Files

(* The records are the files that are left, and no save is past its         *)
(* preparation.                                                             *)
LEMMA CountKept ==
    ASSUME ~Renamed', ~Prepared',
           cache'.initialized => Cardinality(cache'.keys) <= Capacity /\ Files' = cache'.keys
    PROVE  CountInv'
BY DEF CountInv

LEMMA CountPrepare ==
    ASSUME CheckpointAssumption, FilesInv, CountInv, Prepare
    PROVE  CountInv'
<1>1. save # None /\ save \in SaveRecord /\ save.step = "begun" /\ ~Renamed
  BY DEF Prepare, FilesInv, Renamed
<1>2. PICK i \in Inventory :
         /\ fs' = i.result.fs
         /\ cache' = [initialized |-> i.result.ok, keys |-> i.keys]
         /\ \/ i.result.ok /\ Fits(i.keys, save.key) /\ save' = [save EXCEPT !.step = "synced"]
            \/ save' = None
  BY DEF Prepare, GivenUp
<1>3. cache'.initialized = i.result.ok /\ cache'.keys = i.keys
  BY <1>2
<1>4. Loses(fs, fs', i.result.gone)
  BY <1>2, InventoryLoses
<1>5. i.result.ok => Cardinality(i.keys) <= Capacity /\ Files' = i.keys
  BY Zenon, <1>1, <1>4, InventoryKeeps, LosesFiles
<1>6. CASE save' = None
  BY <1>3, <1>5, <1>6, CountKept DEF Renamed, Prepared
<1>7. CASE i.result.ok /\ Fits(i.keys, save.key) /\ save' = [save EXCEPT !.step = "synced"]
  <2>1. save'.step = "synced" /\ save'.key = save.key
    BY <1>1, <1>7 DEF SaveRecord
  <2> QED BY <1>3, <1>5, <1>7, <2>1 DEF CountInv, Renamed, Fits
<1> QED BY <1>2, <1>6, <1>7

LEMMA CountRename ==
    ASSUME CheckpointAssumption, FilesInv, CountInv, Rename
    PROVE  CountInv'
<1>1. save # None /\ save \in SaveRecord /\ save.step = "synced" /\ ~Renamed /\ UNCHANGED cache
  BY DEF Rename, FilesInv, Renamed
<1>2. cache.initialized /\ Fits(cache.keys, save.key) /\ Cardinality(cache.keys) <= Capacity
      /\ Files = cache.keys
  BY <1>1 DEF CountInv, Prepared
<1>3. CASE save' = [save EXCEPT !.step = "renamed"] /\ fs' = RenameInto(save.key, save.value)
  <2>1. save' \in SaveRecord /\ save'.step = "renamed" /\ save'.key = save.key
    BY <1>1, <1>3 DEF SaveRecord
  <2>2. Renamed'
    BY <2>1 DEF Renamed, CheckpointAssumption
  <2>3. Files' = Files \cup {save.key}
    <3>1. save.key \in Keys /\ save.value # None
      BY <1>1 DEF SaveRecord, CheckpointAssumption
    <3>2. fs'.disk = [fs.disk EXCEPT ![save.key] = save.value]
      BY <1>3 DEF RenameInto
    <3> QED BY <3>1, <3>2 DEF Files, FilesInv, Sound, Directory
  <2> QED BY <1>1, <1>2, <2>1, <2>2, <2>3 DEF CountInv, Fits
<1>4. CASE save' = None /\ UNCHANGED fs
  <2>1. Files' = Files
    BY <1>4 DEF Files
  <2> QED BY <1>1, <1>2, <1>4, <2>1, CountKept DEF Renamed, Prepared
<1> QED BY <1>3, <1>4 DEF Rename, GivenUp

LEMMA CountSyncDirectory ==
    ASSUME CheckpointAssumption, FilesInv, CountInv, SyncDirectory
    PROVE  CountInv'
<1>1. Renamed /\ Prepared /\ save' = None /\ save \in SaveRecord
  BY DEF SyncDirectory, Renamed, Prepared, FilesInv
<1>2. cache.initialized /\ Files = cache.keys \cup {save.key} /\ Cardinality(cache.keys \ {save.key}) < Capacity
  BY <1>1 DEF CountInv, Fits
<1>3. cache'.keys = cache.keys \cup {save.key}
  BY DEF SyncDirectory
<1>4. Files' = Files
  BY DEF SyncDirectory, Synced, Files
<1>5. Cardinality(cache.keys \cup {save.key}) <= Capacity
  <2>1. cache.keys \ {save.key} \in SUBSET Keys
    BY DEF FilesInv
  <2>2. IsFiniteSet(cache.keys \ {save.key}) /\ Cardinality(cache.keys \ {save.key}) \in Nat
    BY <2>1, KeysFinite
  <2>3. Cardinality((cache.keys \ {save.key}) \cup {save.key}) = Cardinality(cache.keys \ {save.key}) + 1
    BY Zenon, <2>2, FS_AddElement
  <2>4. (cache.keys \ {save.key}) \cup {save.key} = cache.keys \cup {save.key}
    OBVIOUS
  <2> QED BY <1>2, <2>2, <2>3, <2>4 DEF CheckpointAssumption
<1> QED BY <1>1, <1>2, <1>3, <1>4, <1>5, CountKept DEF Renamed, Prepared

LEMMA CountAttach ==
    ASSUME CheckpointAssumption, FilesInv, CountInv, Attach
    PROVE  CountInv'
<1> DEFINE Broken(i) == {k \in i.keys \cap Active(document) : fs.disk[k] = Damaged}
<1>1. save = None /\ save' = None /\ ~Renamed
  BY DEF Attach, Lock, Renamed
<1>2. PICK i \in Inventory :
         \/ cache' = [initialized |-> FALSE, keys |-> i.keys]
         \/ /\ i.result.ok
            /\ \E r \in Removals(i.result.fs, Broken(i)) :
                  fs' = r.fs /\ cache' = [initialized |-> TRUE, keys |-> i.keys \ r.gone]
  BY Zenon DEF Attach
<1>3. CASE cache' = [initialized |-> FALSE, keys |-> i.keys]
  BY <1>1, <1>3, CountKept DEF Renamed, Prepared
<1>4. ASSUME i.result.ok, NEW r \in Removals(i.result.fs, Broken(i)),
             fs' = r.fs, cache' = [initialized |-> TRUE, keys |-> i.keys \ r.gone]
      PROVE  CountInv'
  <2>1. Loses(fs, i.result.fs, i.result.gone) /\ i.keys \in SUBSET Keys
    BY InventoryLoses
  <2>2. Loses(i.result.fs, r.fs, r.gone)
    BY <2>1, RemovalLoses DEF Loses
  <2>3. Loses(fs, fs', i.result.gone \cup r.gone)
    BY <1>4, <2>1, <2>2, LosesTwice DEF FilesInv
  <2>4. Files \ i.result.gone = i.keys /\ Cardinality(i.keys) <= Capacity
    BY <1>1, <1>4, InventoryKeeps
  <2>5. Files' = i.keys \ r.gone
    BY <2>3, <2>4, LosesFiles
  <2>6. Cardinality(i.keys \ r.gone) <= Capacity
    BY <2>1, <2>4, KeysFinite, FS_Subset DEF CheckpointAssumption
  <2> QED BY <1>1, <1>4, <2>5, <2>6, CountKept DEF Renamed, Prepared
<1> QED BY ZenonT(30), <1>2, <1>3, <1>4

(* A clean-up that gets past its scan leaves the files it kept and did not  *)
(* remove; if it went through they are all active in its document.          *)
LEMMA ReconcileKeeps ==
    ASSUME CheckpointAssumption, FilesInv, NEW c, Reconcile(c)
    PROVE  /\ cache'.initialized => Cardinality(cache'.keys) <= Capacity /\ Files' = cache'.keys
           /\ ghost'.cleaned = ghost.cleaned \/ (ghost'.cleaned = c.epoch /\ Files' \subseteq c.active)
<1>1. PICK i \in Scan :
         \/ cache' = [initialized |-> FALSE, keys |-> i.keys] /\ UNCHANGED ghost
         \/ /\ i.result.ok
            /\ \E r \in Removals(i.result.fs, i.keys \ c.active) :
                  /\ fs' = r.fs /\ cache' = [initialized |-> TRUE, keys |-> i.keys \ r.gone]
                  /\ ghost' = [cleaned |-> IF r.ok THEN c.epoch ELSE ghost.cleaned,
                               overtaken |-> ghost.overtaken \cup (r.gone \cap Active(document))]
  BY ZenonT(30) DEF Reconcile
<1>2. CASE cache' = [initialized |-> FALSE, keys |-> i.keys] /\ UNCHANGED ghost
  BY <1>2
<1>3. ASSUME i.result.ok, NEW r \in Removals(i.result.fs, i.keys \ c.active),
             fs' = r.fs, cache' = [initialized |-> TRUE, keys |-> i.keys \ r.gone],
             ghost' = [cleaned |-> IF r.ok THEN c.epoch ELSE ghost.cleaned,
                       overtaken |-> ghost.overtaken \cup (r.gone \cap Active(document))]
      PROVE  /\ Cardinality(cache'.keys) <= Capacity /\ Files' = cache'.keys
             /\ ghost'.cleaned = ghost.cleaned \/ (ghost'.cleaned = c.epoch /\ Files' \subseteq c.active)
  <2>1. Loses(fs, i.result.fs, i.result.gone) /\ i.keys \in SUBSET Keys
    BY ZenonT(30), ScanLoses DEF FilesInv, Kept, Valid
  <2>2. /\ Loses(i.result.fs, r.fs, r.gone)
        /\ r.ok => r.gone = i.keys \ c.active
    BY <2>1, RemovalLoses DEF Loses
  <2>3. Loses(fs, fs', i.result.gone \cup r.gone)
    BY <1>3, <2>1, <2>2, LosesTwice DEF FilesInv
  <2>4. Files \ i.result.gone = i.keys /\ Cardinality(i.keys) <= Capacity
    BY <1>3, ScanKeeps DEF FilesInv
  <2>5. Files' = i.keys \ r.gone
    BY <2>3, <2>4, LosesFiles
  <2>6. Cardinality(i.keys \ r.gone) <= Capacity
    BY <2>1, <2>4, KeysFinite, FS_Subset DEF CheckpointAssumption
  <2>7. cache'.keys = i.keys \ r.gone /\ ghost'.cleaned = IF r.ok THEN c.epoch ELSE ghost.cleaned
    BY <1>3
  <2> QED BY <2>2, <2>5, <2>6, <2>7
<1> QED BY Zenon, <1>1, <1>2, <1>3

LEMMA CountReconcile ==
    ASSUME CheckpointAssumption, FilesInv, NEW c, Reconcile(c)
    PROVE  CountInv'
BY ZenonT(30), ReconcileKeeps, CountKept DEF Reconcile, Lock, Renamed, Prepared

LEMMA CountDamage ==
    ASSUME CheckpointAssumption, FilesInv, CountInv, NEW k \in Keys, Damage(k)
    PROVE  CountInv'
<1>1. fs'.disk = [fs.disk EXCEPT ![k] = Damaged] /\ UNCHANGED <<cache, save>> /\ k \in Valid
  BY DEF Damage
<1>2. Files' = Files
  BY <1>1 DEF Files, Valid, FilesInv, Sound, Directory, CheckpointAssumption
<1> QED BY <1>1, <1>2 DEF CountInv, Renamed, Prepared, Fits

LEMMA CountStep ==
    ASSUME CheckpointAssumption, FilesInv, CountInv, [Next]_vars
    PROVE  CountInv'
<1>1. ASSUME NEW k \in Keys, NEW v \in Values, BeginSave(k, v) PROVE CountInv'
  BY <1>1, CountBeginSave
<1>2. CASE Prepare BY <1>2, CountPrepare
<1>3. CASE Rename BY <1>3, CountRename
<1>4. CASE SyncDirectory BY <1>4, CountSyncDirectory
<1>5. ASSUME NEW a \in Apps, Configure(a) \/ ProcessEnds(a) \/ StartChild(a) PROVE CountInv'
  BY <1>5, CountQuiet DEF Configure, ProcessEnds, StartChild
<1>6. CASE Attach BY <1>6, CountAttach
<1>7. CASE Apply BY <1>7, CountQuiet DEF Apply
<1>8. ASSUME NEW c \in cleanups, Reconcile(c) PROVE CountInv'
  BY <1>8, CountReconcile
<1>9. ASSUME NEW k \in Keys, Damage(k) PROVE CountInv'
  BY <1>9, CountDamage
<1>10. CASE Crash BY <1>10, CountKept DEF Crash, Renamed, Prepared
<1>11. CASE UNCHANGED vars BY <1>11, CountQuiet DEF vars
<1> QED BY <1>1, <1>2, <1>3, <1>4, <1>5, <1>6, <1>7, <1>8, <1>9, <1>10, <1>11 DEF Next

----------------------------------------------------------------------------
(* Every action keeps CleanInv.                                             *)
LEMMA CleanQuiet ==
    ASSUME CleanInv, UNCHANGED <<document, epoch, cleanups, save>>,
           ghost'.cleaned = ghost.cleaned, Valid' \subseteq Valid
    PROVE  CleanInv'
<1>1. Active(document)' = Active(document)
  BY DEF Active
<1> QED BY <1>1 DEF CleanInv

(* The save under way goes on, or is over.                                  *)
LEMMA CleanSaving ==
    ASSUME CleanInv, UNCHANGED <<document, epoch, cleanups>>,
           save # None, save' = None \/ save'.key = save.key,
           ghost'.cleaned = ghost.cleaned, Valid' \subseteq Valid \cup {save.key}
    PROVE  CleanInv'
<1>1. Active(document)' = Active(document)
  BY DEF Active
<1> QED BY <1>1 DEF CleanInv

LEMMA CleanBeginSave ==
    ASSUME CleanInv, NEW k \in Keys, NEW v, BeginSave(k, v)
    PROVE  CleanInv'
<1>1. document[k[1]].enabled /\ document[k[1]].generation = k[2]
  BY DEF BeginSave, Authorized
<1>2. k[1] \in Apps /\ k = <<k[1], k[2]>>
  BY DEF Keys
<1>3. k \in Active(document)
  BY <1>1, <1>2 DEF Active
<1>4. Active(document)' = Active(document) /\ Valid' = Valid
  BY DEF Active, Valid, BeginSave, daemonVars
<1>5. save'.key = k /\ UNCHANGED <<epoch, cleanups, ghost>>
  BY DEF BeginSave, daemonVars
<1> QED BY <1>3, <1>4, <1>5 DEF CleanInv

LEMMA CleanConfigure ==
    ASSUME CleanInv, NEW a, Configure(a)
    PROVE  CleanInv'
BY DEF CleanInv, Configure

LEMMA CleanApply ==
    ASSUME CleanInv, Apply
    PROVE  CleanInv'
<1>1. UNCHANGED <<document, epoch, fs, save, ghost>>
  BY DEF Apply
<1>2. Active(document)' = Active(document) /\ Valid' = Valid
  BY <1>1 DEF Active, Valid
<1>3. cleanups' \subseteq cleanups \cup {[epoch |-> epoch, active |-> Active(document)]}
  BY DEF Apply
<1>4. ASSUME NEW c \in cleanups'
      PROVE  /\ c.epoch \in Int /\ c.epoch <= epoch
             /\ c.epoch = epoch => c.active = Active(document)
  BY <1>3 DEF CleanInv
<1> QED BY <1>1, <1>2, <1>4 DEF CleanInv

LEMMA CleanReconcile ==
    ASSUME CheckpointAssumption, FilesInv, CleanInv, NEW c, Reconcile(c)
    PROVE  CleanInv'
<1>1. /\ UNCHANGED <<document, epoch, save>> /\ save = None
      /\ c \in cleanups /\ cleanups' \subseteq cleanups
  BY DEF Reconcile, Lock
<1>2. Active(document)' = Active(document)
  BY <1>1 DEF Active
<1>3. Valid' \subseteq Valid
  BY ReconcileLoses, LosesFiles
<1>4. CASE ghost'.cleaned = ghost.cleaned
  BY <1>1, <1>2, <1>3, <1>4 DEF CleanInv
<1>5. CASE ghost'.cleaned = c.epoch /\ Files' \subseteq c.active
  <2>1. Valid' \subseteq Files'
    BY DEF Valid, Files, CheckpointAssumption
  <2> QED BY <1>1, <1>2, <1>5, <2>1 DEF CleanInv
<1> QED BY <1>4, <1>5, ReconcileKeeps

LEMMA CleanCrash ==
    ASSUME CleanInv, Crash
    PROVE  CleanInv'
<1>1. UNCHANGED epoch /\ cleanups' = {} /\ save' = None
  BY DEF Crash
<1>2. ghost'.cleaned = -1
  BY DEF Crash
<1> QED BY <1>1, <1>2 DEF CleanInv

LEMMA CleanStep ==
    ASSUME CheckpointAssumption, FilesInv, CleanInv, [Next]_vars
    PROVE  CleanInv'
<1>1. ASSUME NEW k \in Keys, NEW v \in Values, BeginSave(k, v) PROVE CleanInv'
  BY <1>1, CleanBeginSave
<1>2. CASE Prepare
  <2>1. save # None /\ save \in SaveRecord
    BY <1>2 DEF Prepare, FilesInv
  <2>2. save' = None \/ save' = [save EXCEPT !.step = "synced"]
    BY <1>2 DEF Prepare, GivenUp
  <2>3. save' = None \/ save'.key = save.key
    BY <2>1, <2>2 DEF SaveRecord
  <2>4. PICK i \in Inventory : fs' = i.result.fs
    BY <1>2 DEF Prepare
  <2>5. Valid' \subseteq Valid
    BY <2>4, InventoryLoses, LosesFiles
  <2>6. UNCHANGED <<document, epoch, cleanups, ghost>>
    BY <1>2 DEF Prepare, daemonVars
  <2> QED BY <2>1, <2>3, <2>5, <2>6, CleanSaving
<1>3. CASE Rename
  <2>1. save # None /\ save \in SaveRecord
    BY <1>3 DEF Rename, FilesInv
  <2>2. save' = None \/ save' = [save EXCEPT !.step = "renamed"]
    BY <1>3 DEF Rename, GivenUp
  <2>3. save' = None \/ save'.key = save.key
    BY <2>1, <2>2 DEF SaveRecord
  <2>4. UNCHANGED fs \/ fs'.disk = [fs.disk EXCEPT ![save.key] = save.value]
    BY <1>3 DEF Rename, RenameInto
  <2>5. Valid' \subseteq Valid \cup {save.key}
    BY <2>1, <2>4 DEF Valid, FilesInv, Sound, Directory
  <2>6. UNCHANGED <<document, epoch, cleanups, ghost>>
    BY <1>3 DEF Rename, daemonVars
  <2> QED BY <2>1, <2>3, <2>5, <2>6, CleanSaving
<1>4. CASE SyncDirectory
  <2>1. save # None /\ save' = None /\ UNCHANGED <<document, epoch, cleanups>>
    BY <1>4 DEF SyncDirectory, daemonVars
  <2>2. ghost'.cleaned = ghost.cleaned
    BY <1>4 DEF SyncDirectory
  <2>3. Valid' = Valid
    BY <1>4 DEF SyncDirectory, Synced, Valid
  <2> QED BY <2>1, <2>2, <2>3, CleanSaving
<1>5. ASSUME NEW a \in Apps, Configure(a) PROVE CleanInv'
  BY <1>5, CleanConfigure
<1>6. ASSUME NEW a \in Apps, ProcessEnds(a) \/ StartChild(a) PROVE CleanInv'
  BY <1>6, CleanQuiet DEF ProcessEnds, StartChild, Valid
<1>7. CASE Attach
  <2>1. Valid' \subseteq Valid
    BY <1>7, AttachLoses, LosesFiles
  <2> QED BY <1>7, <2>1, CleanQuiet DEF Attach
<1>8. CASE Apply BY <1>8, CleanApply
<1>9. ASSUME NEW c \in cleanups, Reconcile(c) PROVE CleanInv'
  BY <1>9, CleanReconcile
<1>10. ASSUME NEW k \in Keys, Damage(k) PROVE CleanInv'
  <2>1. fs'.disk = [fs.disk EXCEPT ![k] = Damaged]
    BY <1>10 DEF Damage
  <2>2. Valid' \subseteq Valid
    BY <2>1 DEF Valid, FilesInv, Sound, Directory, CheckpointAssumption
  <2> QED BY <1>10, <2>2, CleanQuiet DEF Damage, daemonVars
<1>11. CASE Crash BY <1>11, CleanCrash
<1>12. CASE UNCHANGED vars BY <1>12, CleanQuiet DEF vars, Valid
<1> QED BY <1>1, <1>2, <1>3, <1>4, <1>5, <1>6, <1>7, <1>8, <1>9, <1>10, <1>11, <1>12 DEF Next

LEMMA StoreInit ==
    ASSUME CheckpointAssumption, Init
    PROVE  StoreInv
<1>1. CountInv
  BY DEF Init, CountInv, Renamed, Prepared
<1>2. CleanInv
  BY DEF Init, CleanInv, Valid, CheckpointAssumption
<1> QED BY <1>1, <1>2, FilesInit DEF StoreInv

(* A clean-up that went through leaves no readable checkpoint of an         *)
(* inactive generation, not even by a save that was admitted before the     *)
(* change; and the records that the capacity is computed from are the files *)
(* there are, never more than the capacity.                                 *)
THEOREM StoreStaysClean ==
    ASSUME CheckpointAssumption
    PROVE  Spec => []StoreClean
<1>1. Init => StoreInv
  BY StoreInit
<1>2. StoreInv /\ [Next]_vars => StoreInv'
  BY StepImplements, CountStep, CleanStep DEF StoreInv, Implemented
<1>3. StoreInv => StoreClean
  BY DEF StoreInv, CountInv, CleanInv, Renamed, StoreClean
<1> QED BY <1>1, <1>2, <1>3, PTL DEF Spec
=============================================================================
