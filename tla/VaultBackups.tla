----------------------------- MODULE VaultBackups -----------------------------
(***************************************************************************)
(* The ways back to an earlier vault: the history of encrypted snapshots,  *)
(* its scheduler and its retention (snapshots.ts, useAutoSnapshotScheduler,*)
(* useVaultLock, useVaultSnapshots), the restore of a snapshot, the import *)
(* of a backup file (useSettingsBackupImport) and the rebuild of a damaged *)
(* vault from a snapshot (storage.ts).                                     *)
(*                                                                         *)
(* An action is a stretch of code between two awaits.  A write of the      *)
(* repository is one step (VaultStore shows why it may be); which items a  *)
(* call writes, and in how many calls, is what this module is about.       *)
(* An item is the number of the edit that made it and the number of the    *)
(* attachment it refers to.  The clock may jump either way.                *)
(*                                                                         *)
(* The master password stays what it is: a change of it (VaultKeys), which *)
(* moves the attachments to another key before the session has that key    *)
(* (storage.ts:531 and 560, 596 and 621), is not modelled.  Beside one, a  *)
(* capture leaves attachments out; after one on the web, every capture     *)
(* does.  An attachment that the session key does not open, left by such a *)
(* change or by an old version, is not among files: nothing here speaks of *)
(* it.                                                                     *)
(***************************************************************************)
EXTENDS Naturals, Sequences, FiniteSets

CONSTANTS
  Ids,           \* the ids of vault items
  Captures,      \* captures and prunes that can be under way at once
  Jobs,          \* restores, imports and rebuilds that can be under way at once
  Backends,      \* subset of {"opfs", "wasqlite"}: the repository in use
  Frequencies,   \* subset of AllFrequencies: what the user may choose
  Period,        \* Period[f]: how far apart automatic snapshots are
  Limits,        \* the retention limits that the settings offer
  DefaultLimit,  \* MAX_SNAPSHOTS_DEFAULT
  Least,         \* the smallest of these limits
  MaxTime,       \* bound: the readings of the clock
  MaxRev,        \* bound: edits, attachments and imports
  MaxMade,       \* bound: snapshots ever stored
  MaxEvents      \* bound: what user, scheduler, clock and faults do

AllFrequencies == {"on_lock", "daily", "weekly"}

ASSUME BackupsAssumption ==
  /\ Captures \cap Jobs = {}
  /\ Backends \subseteq {"opfs", "wasqlite"}
  /\ Frequencies \subseteq AllFrequencies /\ "daily" \in Frequencies
  /\ Period \in [AllFrequencies -> Nat \ {0}]
  /\ Limits \subseteq Nat /\ DefaultLimit \in Nat /\ Least \in Nat
  /\ \A n \in Limits \cup {DefaultLimit} : Least <= n
  /\ MaxTime \in Nat \ {0} /\ MaxRev \in Nat \ {0}
  /\ MaxMade \in Nat /\ MaxEvents \in Nat

VARIABLES
  vault,     \* the items of the repository
  files,     \* the attachments that the vault key opens
  form,      \* the attachment that the open form has saved, 0 if none
  session,   \* is the vault open?
  damaged,   \* is the vault file unreadable?
  backend,   \* the repository in use
  settings,  \* SnapshotSettings; the frequency is "off" without autoEnabled
  now,       \* the clock
  stored,    \* the snapshots in IndexedDB, by their places in made
  cap,       \* cap[c]: the locals of a capture or prune; a restore has its own
  job,       \* job[j]: the locals of a restore, an import or a rebuild
  edits,     \* history: how many edits, attachments and imports there were
  made,      \* history: every snapshot ever stored
  erased,    \* history: those the user has deleted
  events     \* history: how much user, scheduler, clock and faults have done

content == <<vault, files, form, edits>>
history == <<made, stored, erased>>
vars == <<content, history, session, damaged, backend, settings, now, cap, job, events>>

Slots == Captures \cup Jobs
Revs == 0..MaxRev
Files == 1..MaxRev
NoItem == [rev |-> 0, file |-> 0]
Contents == [Ids -> [rev : Revs, file : Revs]]
Empty == [i \in Ids |-> NoItem]

Present(items) == {i \in Ids : items[i] # NoItem}
Over(new, old) == [i \in Ids |-> IF new[i] # NoItem THEN new[i] ELSE old[i]]
Referred(items) == {items[i].file : i \in Ids} \cap Files

Reading == {"files", "decrypt"}
Pruning == {"list", "prune"}
Roles == {"manual", "interval", "lock", "safety", "settings"}
Steps == {"originals", "replace", "delete", "save", "files", "undo", "wipe", "open"}

NoCapture ==
  [stage |-> "idle", role |-> "manual", live |-> FALSE, limit |-> 0,
   items |-> Empty, owed |-> {}, raw |-> {}, got |-> {}, index |-> 0, todo |-> {}]
NoJob ==
  [kind |-> "none", stage |-> "idle", items |-> Empty, files |-> {}, found |-> Empty,
   todo |-> {}, safety |-> 0, since |-> 0, clean |-> FALSE]

(* A vault in use: every item is of the first edit, and there may be a     *)
(* snapshot of it.                                                         *)
Used == [i \in Ids |-> [rev |-> 1, file |-> 1]]

Init ==
  /\ vault = Used /\ files = {1} /\ form = 0 /\ edits = 1
  /\ session = FALSE /\ damaged = FALSE /\ backend \in Backends
  /\ settings = [freq |-> "daily", limit |-> DefaultLimit, last |-> 0]
  /\ now = 1
  /\ made \in {<< >>, <<[at |-> 1, items |-> Used, files |-> {1}, owed |-> {1}]>>}
  /\ stored = 1..Len(made) /\ erased = {}
  /\ cap = [c \in Slots |-> NoCapture] /\ job = [j \in Jobs |-> NoJob]
  /\ events = 0

-----------------------------------------------------------------------------
(* How an activity, or the lock, changes the locals of the others. *)

Now(c, r) == cap' = [cap EXCEPT ![c] = r]
Then(j, r) == job' = [job EXCEPT ![j] = r]

(* The items change under a job, or the session is closed: it can no longer*)
(* be held to what it found.  One that has ended is forgotten.             *)
Disturbed(r) ==
  IF r.stage \in {"done", "failed"} THEN NoJob ELSE [r EXCEPT !.clean = FALSE]
Disturb == job' = [j \in Jobs |-> Disturbed(job[j])]
Write(j, items, r) ==
  /\ vault' = items
  /\ job' = [k \in Jobs |-> IF k = j THEN r ELSE Disturbed(job[k])]

(* closeVaultSession unmounts the unlocked application and its refs.       *)
Cut(r) == [r EXCEPT !.live = FALSE, !.owed = {}]
Shut == session' = FALSE /\ form' = 0 /\ cap' = [c \in Slots |-> Cut(cap[c])]

(* What is kept of a job that has ended, for JobsKeepTheirWord.            *)
Done(j) == IF job[j].clean THEN [job[j] EXCEPT !.stage = "done"] ELSE NoJob
Failed(j) ==
  IF job[j].clean /\ job[j].kind = "import"
  THEN [NoJob EXCEPT !.kind = "import", !.stage = "failed", !.clean = TRUE, !.found = job[j].found]
  ELSE NoJob

Running(j) == job[j].stage \in Steps \cup {"safety"}
Interrupted == [j \in Jobs |-> IF Running(j) THEN Disturbed(job[j]) ELSE job[j]]

-----------------------------------------------------------------------------
(* A capture: createVaultSnapshot and checkAndTriggerAutoSnapshot. *)

(* shouldTriggerAutoSnapshot *)
Due(context) ==
  /\ settings.freq # "off"
  /\ context = "lock" \/ settings.freq # "on_lock"
  /\ settings.last = 0 \/ now >= settings.last + Period[settings.freq]

(* createVaultSnapshot up to its first await.  getVaultItems has its copy   *)
(* of the key; an edit that lands before it has read counts as one before. *)
Begun(role) ==
  [NoCapture EXCEPT !.stage = "files", !.role = role, !.live = (role = "interval"),
                    !.items = vault, !.owed = Referred(vault) \cap files,
                    !.limit = IF role \in {"interval", "lock"} THEN settings.limit ELSE DefaultLimit]

BeginManual(c) ==
  /\ session /\ cap[c].stage = "idle"
  /\ Now(c, Begun("manual"))
  /\ UNCHANGED <<content, history, session, damaged, backend, settings, now, job>>

(* runDueSnapshot: the timer, the mount and the return to the foreground.  *)
(* inFlightRef belongs to the mount that the lock ends.                    *)
BeginScheduled(c) ==
  /\ session /\ cap[c].stage = "idle"
  /\ \A d \in Captures : ~cap[d].live
  /\ Due("interval")
  /\ Now(c, Begun("interval"))
  /\ UNCHANGED <<content, history, session, damaged, backend, settings, now, job>>

ListFiles(c) ==
  /\ cap[c].stage = "files"
  /\ Now(c, [cap[c] EXCEPT !.stage = "decrypt", !.raw = files])
  /\ UNCHANGED <<content, history, session, damaged, backend, settings, now, job>>

(* exportAllAttachments: in the order of the store; one that does not open *)
(* is left out.  Without a change of password, that is so when the session *)
(* is closed.                                                              *)
DecryptFile(c, f) ==
  /\ cap[c].stage = "decrypt" /\ f \in cap[c].raw
  /\ \A g \in cap[c].raw : f <= g
  /\ Now(c, [cap[c] EXCEPT !.raw = @ \ {f}, !.got = IF session THEN @ \cup {f} ELSE @])
  /\ UNCHANGED <<content, history, session, damaged, backend, settings, now, job>>

(* Mutant of Record: the items are read after the attachments. *)
RecordLateItems(c) ==
  [at |-> now, items |-> vault, files |-> cap[c].got,
   owed |-> IF session THEN Referred(vault) \cap files ELSE {}]

(* The record is built and stored.  The clock may jump at any time, so that*)
(* it matters to no order of stamps that the stamp comes a moment before.  *)
Record(c) ==
  [at |-> now, items |-> cap[c].items, files |-> cap[c].got,
   owed |-> cap[c].owed]

Store(c) ==
  /\ cap[c].stage = "decrypt" /\ cap[c].raw = {} /\ Len(made) < MaxMade
  /\ made' = Append(made, Record(c))
  /\ stored' = stored \cup {Len(made) + 1}
  /\ Now(c, [NoCapture EXCEPT !.stage = "list", !.role = cap[c].role, !.live = cap[c].live,
                              !.limit = cap[c].limit, !.index = Len(made) + 1])
  /\ UNCHANGED <<content, session, damaged, backend, settings, now, job, erased>>

-----------------------------------------------------------------------------
(* Retention: pruneSnapshotsRetention, first with the default limit and,   *)
(* for an automatic capture, once more with the limit it read at its start.*)

Limit(c) == IF cap[c].index # 0 THEN DefaultLimit ELSE cap[c].limit

(* Mutant of Newest: one too few are kept. *)
NewestButOne(kept, n) ==
  /\ Cardinality(kept) = IF Cardinality(stored) < n THEN Cardinality(stored) ELSE n - 1
  /\ \A k \in kept, d \in stored \ kept : made[d].at <= made[k].at

(* The first of getVaultSnapshots, newest first; equal stamps in any order.*)
Newest(kept, n) ==
  /\ Cardinality(kept) = IF Cardinality(stored) <= n THEN Cardinality(stored) ELSE n
  /\ \A k \in kept, d \in stored \ kept : made[d].at <= made[k].at

(* A prune that has nothing left to delete ends: a restore goes on, an     *)
(* automatic capture records its time and prunes again (index is 0 from    *)
(* there on).                                                              *)
Pruned(c, todo) ==
  IF todo # {}
  THEN Now(c, [cap[c] EXCEPT !.stage = "prune", !.todo = todo]) /\ UNCHANGED <<settings, job>>
  ELSE /\ IF cap[c].role \in {"interval", "lock"} /\ cap[c].index # 0
          THEN /\ settings' = [settings EXCEPT !.last = now]
               /\ Now(c, [cap[c] EXCEPT !.stage = "list", !.todo = {}, !.index = 0])
          ELSE Now(c, NoCapture) /\ UNCHANGED settings
       /\ IF c \in Jobs
          THEN Then(c, [job[c] EXCEPT !.stage = "replace", !.safety = cap[c].index])
          ELSE UNCHANGED job

List(c, kept) ==
  /\ cap[c].stage = "list"
  /\ Newest(kept, Limit(c))
  /\ Pruned(c, stored \ kept)
  /\ UNCHANGED <<content, history, session, damaged, backend, now>>

Prune(c, s) ==
  /\ cap[c].stage = "prune" /\ s \in cap[c].todo
  /\ \A d \in cap[c].todo : made[d].at <= made[s].at
  /\ stored' = stored \ {s}
  /\ Pruned(c, cap[c].todo \ {s})
  /\ UNCHANGED <<content, session, damaged, backend, now, made, erased>>

CaptureFails(c) ==
  /\ cap[c].stage # "idle"
  /\ Now(c, NoCapture)
  /\ IF c \in Jobs THEN Then(c, NoJob) ELSE UNCHANGED job
  /\ UNCHANGED <<content, history, session, damaged, backend, settings, now>>

-----------------------------------------------------------------------------
(* useVaultSnapshots: what the user does in the settings. *)

Erase(s) ==
  /\ session /\ s \in stored
  /\ stored' = stored \ {s} /\ erased' = erased \cup {s}
  /\ UNCHANGED <<content, session, damaged, backend, settings, now, cap, job, made>>

EraseAll ==
  /\ session /\ stored # {}
  /\ stored' = {} /\ erased' = erased \cup stored
  /\ UNCHANGED <<content, session, damaged, backend, settings, now, cap, job, made>>

(* saveSnapshotSettings with a new limit starts a prune and forgets it.    *)
ChooseLimit(c, n) ==
  /\ session /\ cap[c].stage = "idle" /\ n # settings.limit
  /\ settings' = [settings EXCEPT !.limit = n]
  /\ Now(c, [NoCapture EXCEPT !.stage = "list", !.role = "settings", !.limit = n])
  /\ UNCHANGED <<content, history, session, damaged, backend, now, job>>

(* Mutant of ChooseFrequency: the patch is not merged with the rest. *)
ChooseFrequencyAlone(f) ==
  /\ session /\ f # settings.freq
  /\ settings' = [freq |-> f, limit |-> 0, last |-> 0]
  /\ UNCHANGED <<content, history, session, damaged, backend, now, cap, job>>

ChooseFrequency(f) ==
  /\ session /\ f # settings.freq
  /\ settings' = [settings EXCEPT !.freq = f]
  /\ UNCHANGED <<content, history, session, damaged, backend, now, cap, job>>

-----------------------------------------------------------------------------
(* The user's edits, the lock and the clock. *)

(* VaultFormModal saves the attachment first, and then the item; a form    *)
(* that is given up leaves it behind.                                      *)
Attach ==
  /\ session /\ form = 0 /\ edits < MaxRev
  /\ edits' = edits + 1 /\ form' = edits + 1 /\ files' = files \cup {edits + 1}
  /\ UNCHANGED <<vault, history, session, damaged, backend, settings, now, cap, job>>

Edit(i, f) ==
  /\ session /\ edits < MaxRev
  /\ f \in {form, vault[i].file}
  /\ edits' = edits + 1 /\ form' = 0
  /\ vault' = [vault EXCEPT ![i] = [rev |-> edits + 1, file |-> f]]
  /\ Disturb
  /\ UNCHANGED <<files, history, session, damaged, backend, settings, now, cap>>

Delete(i) ==
  /\ session /\ i \in Present(vault)
  /\ vault' = [vault EXCEPT ![i] = NoItem]
  /\ Disturb
  /\ UNCHANGED <<files, form, edits, history, session, damaged, backend, settings, now, cap>>

Unlock ==
  /\ ~session /\ ~damaged /\ \A j \in Jobs : job[j].stage # "open"
  /\ session' = TRUE
  /\ UNCHANGED <<content, history, damaged, backend, settings, now, cap, job>>

(* lock: the capture is started first and has read nothing yet when the    *)
(* session is closed.                                                      *)
LockAndCapture(c) ==
  /\ session /\ Due("lock") /\ cap[c].stage = "idle"
  /\ session' = FALSE /\ form' = 0
  /\ cap' = [d \in Slots |-> Cut(IF d = c THEN Begun("lock") ELSE cap[d])]
  /\ job' = Interrupted
  /\ UNCHANGED <<vault, files, edits, history, damaged, backend, settings, now>>

(* Nothing is due.  Bound: nor is anything captured when no slot is free.  *)
Lock ==
  /\ session
  /\ ~Due("lock") \/ \A c \in Captures : cap[c].stage # "idle"
  /\ Shut
  /\ job' = Interrupted
  /\ UNCHANGED <<vault, files, edits, history, damaged, backend, settings, now>>

(* The page is closed or killed; the next may find the file unreadable.    *)
Restart ==
  /\ session' = FALSE /\ form' = 0
  /\ damaged' \in {damaged, TRUE}
  /\ cap' = [c \in Slots |-> NoCapture] /\ job' = [j \in Jobs |-> NoJob]
  /\ UNCHANGED <<vault, files, edits, history, backend, settings, now>>

Clock ==
  /\ now' \in 1..MaxTime
  /\ UNCHANGED <<content, history, session, damaged, backend, settings, cap, job>>

-----------------------------------------------------------------------------
(* restoreVaultSnapshot *)

(* Mutant of BeginRestore: no safety snapshot is taken. *)
BeginRestoreAtOnce(j, s) ==
  /\ session /\ ~Running(j) /\ s \in stored
  /\ Then(j, [NoJob EXCEPT !.kind = "restore", !.stage = "replace", !.clean = TRUE, !.since = edits,
                           !.items = made[s].items, !.files = made[s].files])
  /\ UNCHANGED <<content, history, session, damaged, backend, settings, now, cap>>

(* The record is read once and kept: nothing that is pruned later is lost  *)
(* to this restore.  Its safety snapshot is a capture in a slot of its own.*)
BeginRestore(j, s) ==
  /\ session /\ ~Running(j) /\ s \in stored
  /\ Then(j, [NoJob EXCEPT !.kind = "restore", !.stage = "safety", !.clean = TRUE, !.since = edits,
                           !.items = made[s].items, !.files = made[s].files])
  /\ Now(j, Begun("safety"))
  /\ UNCHANGED <<content, history, session, damaged, backend, settings, now>>

(* replaceVaultItems: at once in the file repository, which refuses to     *)
(* empty a vault; wa-sqlite deletes one item at a time and then saves.  In *)
(* a closed session withSessionVaultKey returns its fallback, and the      *)
(* restore goes on.                                                        *)
Replace(j) ==
  /\ job[j].stage = "replace"
  /\ \/ /\ ~session
        /\ Then(j, [job[j] EXCEPT !.stage = "files"]) /\ UNCHANGED vault
     \/ /\ session /\ backend = "opfs"
        /\ job[j].items # Empty \/ vault = Empty
        /\ Write(j, job[j].items, [job[j] EXCEPT !.stage = "files"])
     \/ /\ session /\ backend = "wasqlite"
        /\ Then(j, [job[j] EXCEPT !.stage = "delete",
                                  !.todo = Present(vault) \ Present(job[j].items)])
        /\ UNCHANGED vault
  /\ UNCHANGED <<files, form, edits, history, session, damaged, backend, settings, now, cap>>

DeleteSurplus(j, i) ==
  /\ job[j].stage = "delete" /\ i \in job[j].todo
  /\ Write(j, [vault EXCEPT ![i] = NoItem], [job[j] EXCEPT !.todo = @ \ {i}])
  /\ UNCHANGED <<files, form, edits, history, session, damaged, backend, settings, now, cap>>

SaveTarget(j) ==
  /\ job[j].stage = "delete" /\ job[j].todo = {}
  /\ Write(j, Over(job[j].items, vault), [job[j] EXCEPT !.stage = "files"])
  /\ UNCHANGED <<files, form, edits, history, session, damaged, backend, settings, now, cap>>

-----------------------------------------------------------------------------
(* handleImportedItems: a backup with the given ids, and an attachment or  *)
(* none.                                                                   *)
BeginImport(j, ids, attached) ==
  /\ session /\ ~Running(j) /\ edits < MaxRev
  /\ edits' = edits + 1
  /\ LET f == IF attached THEN edits + 1 ELSE 0 IN
     Then(j, [NoJob EXCEPT !.kind = "import", !.stage = "originals",
                           !.files = {f} \ {0},
                           !.items = [i \in Ids |-> IF i \in ids THEN [rev |-> edits + 1, file |-> f]
                                                    ELSE NoItem]])
  /\ UNCHANGED <<vault, files, form, history, session, damaged, backend, settings, now, cap>>

ReadOriginals(j) ==
  /\ job[j].stage = "originals"
  /\ Then(j, [job[j] EXCEPT !.stage = "save", !.clean = session,
                            !.found = IF session THEN vault ELSE Empty])
  /\ UNCHANGED <<content, history, session, damaged, backend, settings, now, cap>>

(* saveVaultItems, also of a rebuild; nothing is saved in a closed session,*)
(* and nothing is said.                                                    *)
SaveItems(j) ==
  /\ job[j].stage = "save"
  /\ IF session
     THEN Write(j, Over(job[j].items, vault), [job[j] EXCEPT !.stage = "files"])
     ELSE Then(j, [job[j] EXCEPT !.stage = "files"]) /\ UNCHANGED vault
  /\ UNCHANGED <<files, form, edits, history, session, damaged, backend, settings, now, cap>>

(* The rollback: what the import inserted is deleted, one item at a time,  *)
(* and what it replaced is saved again.                                    *)
UndoInsert(j, i) ==
  /\ job[j].stage = "undo" /\ i \in job[j].todo
  /\ LET r == [job[j] EXCEPT !.todo = @ \ {i}] IN
     IF session THEN Write(j, [vault EXCEPT ![i] = NoItem], r) ELSE Then(j, r) /\ UNCHANGED vault
  /\ UNCHANGED <<files, form, edits, history, session, damaged, backend, settings, now, cap>>

Replaced(j) ==
  [i \in Ids |-> IF job[j].items[i] # NoItem THEN job[j].found[i] ELSE NoItem]

(* Mutant of UndoUpdates: only what was inserted is taken back. *)
UndoNoUpdates(j) ==
  /\ job[j].stage = "undo" /\ job[j].todo = {}
  /\ Then(j, Failed(j))
  /\ UNCHANGED <<content, history, session, damaged, backend, settings, now, cap>>

UndoUpdates(j) ==
  /\ job[j].stage = "undo" /\ job[j].todo = {}
  /\ IF session THEN Write(j, Over(Replaced(j), vault), Failed(j))
     ELSE Then(j, Failed(j)) /\ UNCHANGED vault
  /\ UNCHANGED <<files, form, edits, history, session, damaged, backend, settings, now, cap>>

-----------------------------------------------------------------------------
(* rebuildVaultFromSnapshot, from the lock screen.  The password has opened*)
(* the snapshot before anything is destroyed.                              *)
BeginRebuild(j, s) ==
  /\ damaged /\ ~Running(j) /\ s \in stored
  /\ Then(j, [NoJob EXCEPT !.kind = "rebuild", !.stage = "wipe", !.clean = TRUE,
                           !.items = made[s].items, !.files = made[s].files])
  /\ UNCHANGED <<content, history, session, damaged, backend, settings, now, cap>>

(* resetAll and closeVaultSession.  The key that the next step mints opens *)
(* no attachment of the old vault.                                         *)
Wipe(j) ==
  /\ job[j].stage = "wipe"
  /\ Shut
  /\ Write(j, Empty, [job[j] EXCEPT !.stage = "open"])
  /\ files' = {} /\ damaged' = FALSE
  /\ UNCHANGED <<edits, history, backend, settings, now>>

(* setupMasterPassword and openDerivedVaultSession: the application mounts.*)
OpenRebuilt(j) ==
  /\ job[j].stage = "open"
  /\ session' = TRUE
  /\ Then(j, [job[j] EXCEPT !.stage = "save"])
  /\ UNCHANGED <<content, history, damaged, backend, settings, now, cap>>

-----------------------------------------------------------------------------
(* How restores, imports and rebuilds end. *)

(* The finally clause of a rebuild closes the session.                     *)
Leave(j, r) ==
  IF job[j].kind = "rebuild" /\ job[j].stage \in {"save", "files"}
  THEN Shut /\ job' = [Interrupted EXCEPT ![j] = r]
  ELSE Then(j, r) /\ UNCHANGED <<session, form, cap>>

(* importAttachments: one transaction, after every attachment has been     *)
(* encrypted, which needs the session.  Without it: JobFails.              *)
PutFiles(j) ==
  /\ job[j].stage = "files"
  /\ job[j].files = {} \/ session
  /\ files' = files \cup job[j].files
  /\ Leave(j, Done(j))
  /\ UNCHANGED <<vault, edits, history, damaged, backend, settings, now>>

(* Any step may fail.  An import that has saved its items is rolled back,  *)
(* and a rollback that fails is abandoned.                                 *)
RolledBack(j) ==
  [job[j] EXCEPT !.stage = "undo", !.todo = Present(job[j].items) \ Present(job[j].found)]

JobFails(j) ==
  /\ job[j].stage \in Steps
  /\ Leave(j, IF job[j].kind = "import" /\ job[j].stage = "files" THEN RolledBack(j)
              ELSE IF job[j].stage = "undo" THEN NoJob ELSE Failed(j))
  /\ UNCHANGED <<vault, files, edits, history, damaged, backend, settings, now>>

-----------------------------------------------------------------------------
(* What goes on by itself, and what user, scheduler, clock and faults do. *)
Continue(c) ==
  \/ ListFiles(c) \/ (\E f \in Files : DecryptFile(c, f)) \/ Store(c)
  \/ (\E kept \in SUBSET stored : List(c, kept)) \/ (\E s \in 1..Len(made) : Prune(c, s))

Proceed(j) ==
  \/ \E i \in Ids : DeleteSurplus(j, i) \/ UndoInsert(j, i)
  \/ Replace(j) \/ SaveTarget(j) \/ ReadOriginals(j) \/ SaveItems(j) \/ UndoUpdates(j)
  \/ Wipe(j) \/ OpenRebuilt(j) \/ PutFiles(j)

Begin(j) ==
  \/ \E s \in 1..Len(made) : BeginRestore(j, s) \/ BeginRebuild(j, s)
  \/ \E ids \in SUBSET Ids \ {{}}, attached \in BOOLEAN : BeginImport(j, ids, attached)

User ==
  \/ \E c \in Captures : BeginManual(c) \/ (\E n \in Limits : ChooseLimit(c, n))
  \/ (\E s \in 1..Len(made) : Erase(s)) \/ EraseAll
  \/ \E f \in Frequencies \cup {"off"} : ChooseFrequency(f)
  \/ Attach \/ (\E i \in Ids, f \in Revs : Edit(i, f)) \/ (\E i \in Ids : Delete(i))
  \/ (\E j \in Jobs : Begin(j)) \/ Lock

Happens ==
  \/ User \/ Restart \/ Clock
  \/ \E c \in Captures : BeginScheduled(c) \/ LockAndCapture(c)
  \/ (\E c \in Slots : CaptureFails(c)) \/ (\E j \in Jobs : JobFails(j))

Next ==
  \/ ((\E c \in Slots : Continue(c)) \/ (\E j \in Jobs : Proceed(j)) \/ Unlock) /\ UNCHANGED events
  \/ Happens /\ events < MaxEvents /\ events' = events + 1

Spec == Init /\ [][Next]_vars

-----------------------------------------------------------------------------
(* The types of records. *)
Snapshots == [at : Nat, items : Contents, files : SUBSET Files, owed : SUBSET Files]
Settings == [freq : Frequencies \cup {"off"}, limit : Limits \cup {DefaultLimit}, last : Nat]
CaptureLocals(n) ==
  [stage : {"idle"} \cup Reading \cup Pruning, role : Roles, live : BOOLEAN,
   limit : {0, DefaultLimit} \cup Limits, items : Contents, owed : SUBSET Files,
   raw : SUBSET Files, got : SUBSET Files, index : 0..n, todo : SUBSET (1..n)]
JobLocals(n) ==
  [kind : {"none", "restore", "import", "rebuild"},
   stage : {"idle", "safety", "done", "failed"} \cup Steps, items : Contents, files : SUBSET Files,
   found : Contents, todo : SUBSET Ids, safety : 0..n, since : Revs, clean : BOOLEAN]

ContentType == vault \in Contents /\ files \subseteq Files /\ form \in Revs /\ edits \in Revs
ModeType ==
  /\ session \in BOOLEAN /\ damaged \in BOOLEAN /\ backend \in Backends
  /\ settings \in Settings /\ now \in Nat
HistoryType ==
  made \in Seq(Snapshots) /\ stored \subseteq 1..Len(made) /\ erased \subseteq 1..Len(made)
LocalsType ==
  cap \in [Slots -> CaptureLocals(Len(made))] /\ job \in [Jobs -> JobLocals(Len(made))]

(* Every variable has its type: what a capture will prune and what a       *)
(* restore has kept are snapshots that were stored.                        *)
TypeOK == ContentType /\ ModeType /\ HistoryType /\ LocalsType /\ events \in 0..MaxEvents

(* A snapshot is outnumbered when as many others as any limit keeps are    *)
(* stamped no earlier.                                                     *)
Outnumbered(s) ==
  Cardinality({o \in 1..Len(made) \ {s} : made[s].at <= made[o].at}) >= Least

(* Retention takes only from the old end: whatever the clock did, however  *)
(* prunes with different limits and stale lists overlap captures, and      *)
(* whatever crashed, a snapshot that the user has not deleted and that is  *)
(* not outnumbered is there (pruneSnapshotsRetention).                     *)
RecentSurvive ==
  \A s \in 1..Len(made) : s \in stored \/ s \in erased \/ Outnumbered(s)

(* A snapshot taken while the vault stayed open, beside no change of its   *)
(* password, holds every attachment that its key opened when the items     *)
(* were read and that they refer to: the form saves the attachment before  *)
(* the item, the capture reads the items before the attachments            *)
(* (createVaultSnapshot, handleSubmit).                                    *)
SnapshotsHoldTheFiles ==
  \A s \in 1..Len(made) : made[s].owed \subseteq made[s].files

(* A restore takes nothing from the vault that its safety snapshot does    *)
(* not hold, but what was edited after it began; and this snapshot is      *)
(* stored, unless the user deleted it or retention may have                *)
(* (restoreVaultSnapshot: "to guarantee zero data loss").                  *)
Restores(j) ==
  /\ job[j].kind = "restore"
  /\ job[j].stage \in {"replace", "delete"}
  /\ <<job'[j].stage, job'[j].todo>> # <<job[j].stage, job[j].todo>>

NothingLostByRestore ==
  [][\A j \in Jobs, i \in Ids :
       Restores(j) /\ vault'[i] # vault[i] /\ vault[i].rev \in 1..job[j].since =>
         \E s \in 1..Len(made) :
           /\ s = job[j].safety /\ made[s].items[i] = vault[i]
           /\ s \in stored \/ s \in erased \/ Outnumbered(s)]_vars

(* Left alone, an import, restore or rebuild that reports success has put  *)
(* back every item and attachment it was given, and an import that reports *)
(* failure has left the items as it found them (handleImportedItems: "to   *)
(* prevent partial write state").                                          *)
JobsKeepTheirWord ==
  \A j \in Jobs :
    /\ job[j].clean /\ job[j].stage = "done" =>
         /\ vault = Over(job[j].items, job[j].found)
         /\ job[j].files \subseteq files
    /\ job[j].clean /\ job[j].stage = "failed" /\ job[j].kind = "import" =>
         vault = job[j].found
===============================================================================
