# Formal model of Aegis Vault

TLA+ modules of the parts of Aegis Vault that keep, protect and move the user's vault, the TLC runs that check
them on small instances, and TLAPS proofs about them for every size.

Seven parts are modelled: the **whole-file vault repository** with its integrity gate, version ledger and write lock
(`VaultStore` and the modules around it), the **cloud sync** of several devices (`VaultSync`), the **change of the master
password** over rows, attachments, sessions and bundles (`VaultKeys`), the **choice of backend and migration to wa-sqlite**
(`VaultMigration`), **lock screen, lockout and locking timers** (`VaultSession`), the **native bridge to the browser
extension** (`CredentialBridge`), and **snapshots, restore, import and rebuild** (`VaultBackups`).
`PROJECT.json` is the index: components, runs, mutants, the map from every definition to the lines it models,
findings, hazards and theorems.

Run `tlc -config X.cfg M` for a run and `tlapm M.tla` for a proof module.

## 1. The system

Aegis Vault is a password manager in TypeScript/React with a Tauri shell in Rust. Paths below are relative to
`src/src/lib` unless they say otherwise.

| Part | State it keeps | Operations | Interacts with |
|---|---|---|---|
| Vault format (`vaultDatabaseFormat.ts`) | none; defines the persisted state: rows, `versionCounter`, `sealedAtVersionCounter`, `integrityHmac` | canonical strings v1/v2, HMAC, `evaluateIntegrityState`, `mayReSignState`, normalisation | repository |
| Whole-file repository (`sqlite_opfs.ts`), the default backend | `state`, `loadedStateSnapshot`, decrypted cache, hydrate promise | load and resave, save, bulk save, replace all, purge, trash, read; setup, rotation, reset, query console | format, coordination, ledger, persistence |
| Write coordination (`vaultWriteCoordination.ts`) | Web Lock, broadcast channel | `withVaultWriteLock`, `assertFreshWriteBaseline`, `announceVaultCommit` | ledger, other tabs |
| Integrity ledger (`vaultIntegrityLedger.ts`, `indexedDbStorage.ts`) | `highestVersionCounter` in localStorage, in an IndexedDB copy and in a cache per context; `lastObservedVersionCounter` | record a seal, read the mark, clear | repository, reset |
| Persistence (`sqliteOpfsPersistence.ts`, `desktopStorage.ts`, `src-tauri/src/lib.rs`) | the vault file, natively (atomic rename) or in OPFS, and a localStorage mirror | load, persist with a one-second limit, load-time rollback check | repository |
| Cloud sync (`sync/`, `hooks/useSettingsSync.ts`) | two remote objects, `vault.ks` and `metadata.json`, on WebDAV or S3 | label read, download, merge, conditional upload, label upload, local save | repository, remote, other devices |
| Session and facade (`vaultSession.ts`, `storage.ts`) | the vault key, credential bytes, the lockout record | unlock, lock, setup, password change, reset, snapshot restore | repository, attachments |
| Auto-lock and lock screen (`hooks/useAutoLock.ts`, `useVaultLock.ts`, `components/LockScreen.tsx`) | deadline, timer | arm, fire, failed attempt, lockout | session |
| Backend choice and migration (`vaultStorageProvider.ts`, `vaultStorageActiveMigration.ts`, ...) | active repository, marker of the active backend | smoke test, candidate, dry run, promotion, rollback | both repositories |
| wa-sqlite repository (`waSqliteVaultStorageRepository.ts`, ...) | a transactional database | the repository interface | migration, sync |
| Snapshots (`snapshots.ts`, `hooks/useAutoSnapshotScheduler.ts`, `hooks/useVaultSnapshots.ts`) | encrypted records in IndexedDB, settings with the time of the last automatic one | capture, prune, delete, restore, rebuild | session, repository, attachments, lock |
| Attachments, biometric unlock, recovery key | their own records | save, export, import, re-encrypt, wrap | session, repository, snapshots |
| Airgap policy (`airgapNetworkPolicy.ts`) | leases on origins | lease, release, expire | sync |
| Native messaging (`src-tauri/src/native_messaging.rs`, `credential_handler.rs`) | session token, credential lease | request loop | session, browser extension |
| Crypto, import/export, sharing, UI, Tauri shell | none that matters here | pure functions and platform I/O | everything |

### What is hard about it

* **No mutual exclusion in memory.** The repository's `state` is one mutable object. Every operation edits it in
  place, awaits encryption, the lock, the HMAC and the write, and puts a clone back on failure. Only the last
  stretch, from the freshness check to the new baseline, is inside the lock.
* **Several contexts, one file.** Tabs share the file and localStorage, not memory. What keeps a stale tab from
  overwriting a newer file is a version mark that each tab reads through a cache of its own.
* **A signature over a moving target.** Verdicts compare rows, two counters and a tag that are changed by
  different statements; a tag is made before the write it belongs to has succeeded.
* **Writes with three answers.** A persist succeeds, fails, or is given up after a second and lands later.
* **Two remote objects without a transaction.** A sync reads a label, maybe a vault, writes the vault, then the
  label. Each request may fail, be answered late or never, and interleave with another device's.
* **Time stamps from unsynchronised clocks** decide which copy of an item survives.
* **One password, many stores.** A change of password re-encrypts attachments (IndexedDB), then rows (the repository), and
  replaces the native session, the page's session and the bundles: five stores, no common transaction, any may fail.
* **Two repositories and a marker.** Which of them is the vault is decided at every start from a flag and a marker that are
  written at different moments.
* **Timers that fire late** and two lock mechanisms with handlers on the same events.
* **Copies taken while the vault moves.** A snapshot reads items, then attachments, across awaits; a restore or an import writes
  them back in several calls, with a safety copy or a rollback of its own, while the user may edit and the vault may lock.
* **Threads.** Handlers park in reads for up to 30 seconds while another thread rotates the token they were admitted under.

### What makes each part correct

* Format: a verdict that permits re-signing means that the tag covers exactly the rows.
* Repository: an operation is atomic, a failed one leaves nothing, every operation ends, and rows another program
  wrote into a sealed vault are never signed or shown.
* Coordination and ledger: a write that lands in time is never built on a file older than the mark; a commit that a tab has not seen is
  not overwritten; no false alarm for the repository's own writes.
* Sync: a remote that cannot be read is not overwritten; an upload is as new as the label it was decided on, if the vault beside that label could be read; a merge
  never puts an older copy over a newer; an upload is rejected only when something changed.
* Keys: a stored row opens under the key of the stored verifier at every moment; attachments, sessions and bundles follow
  the password of the vault, whichever step of a change fails.
* Backend: what the user was told is saved is in the repository in use, and in the one the next page will choose.
* Lock: password form and biometric prompt wait out the delay earned by all failures; an idle or abandoned vault is locked, and is not locked early.
* Backups: retention takes only from the old end; a snapshot holds what its items refer to; a restore overwrites nothing that its
  safety snapshot does not hold; a job that reports success has done it, and a failed import leaves what it found.
* Bridge: a revocation reaches the connections that are open; the lease ends after a lock; slots come back.

## 2. Modules

| Module | What it is |
|---|---|
| `VaultIntegrity` | constants and pure definitions: rows, states, tags, the verdict, the row edits |
| `VaultStore` | the repository, coordination, ledger and persistence: 13 variables, 25 actions |
| `VaultRegister` | the abstract specification of the repository: an atomic map from ids to values |
| `VaultStoreRefinement` | the refinement mapping, `ImplementsRegister` |
| `VaultForgery` | the inductive invariant behind the two forgery properties |
| `VaultBaselines` | the inductive invariants behind the other properties of the store and behind its refinement |
| `VaultSync` | the sync of several devices with one remote folder |
| `VaultKeys` | a change of the master password and what may overlap it: 17 variables, 27 actions |
| `VaultMigration` | choice of backend, marker, migration to wa-sqlite, reset |
| `VaultSession` | attempts, lockout, idle and background timers, autofill requests |
| `CredentialBridge` | renderer, main thread, connection handlers and native hosts around one pairing token and one lease |
| `VaultBackups` | captures, retention, restore, import and rebuild: 15 variables, 34 actions |
| `MC...` | sets and symmetries for TLC, one module for each of the seven |
| `...Proofs` | theorems: `VaultStoreProofs` (also of `VaultIntegrity` and `VaultForgery`), `VaultBaselineProofs` (also of the refinement), `VaultSyncProofs`, `VaultKeysProofs`, `VaultMigrationProofs`, `VaultSessionProofs`, `CredentialBridgeProofs`, `VaultBackupsProofs` |

The five later modules share no variables with the first two: `VaultKeys` and `VaultBackups` take the file repository as atomic, which is what
`ImplementsRegister` says of it; `VaultKeys` has the statements of wa-sqlite as steps; `VaultMigration` takes both repositories as
atomic and leaves the password alone, which is the subject of `VaultKeys`.

### VaultIntegrity

A row is an item id and one value standing for its ciphertext and flags. An HMAC is abstracted to what it covers: two tags are
equal exactly when scheme, key, rows and counters are. Both canonical strings sort the rows by id, so a tag covers a
*set* of rows; v1 leaves `sealedAtVersionCounter` out. `EvaluateIntegrity` is the cascade of `evaluateIntegrityState`
in the order of the code. Rows are a sequence, as the array is, because `saveVaultItem` keeps an index into it across an await.

### VaultStore

Each action is a stretch of code between two awaits.

| Code | Actions |
|---|---|
| `loadFromPersistentStorage` | `Open`, then on OPFS `Resave`, `ResaveFails` or `ResaveRefused` (the save that follows the load) |
| `saveVaultItem`, `saveVaultItems`, `replaceAllVaultItems` | `BeginWrite` (clone, index), `Mutate` after the encryption |
| `deletePermanently`, `setItemTrashed` | `BeginPurge`, `BeginTrash` (edit at once) |
| `saveToPersistentStorage` | `Conflict`, `Gate`, `Bar`, `Bump`, `Seal`, `Attach`, `SealFails`, then the write, then `Complete` |
| `persistVaultDatabase` | `WriteLands`, `WriteFails`, `WriteTimesOut` and later `LateWriteLands`, also of a payload that `ResaveFails` gave up on |
| `getVaultItems` | `BeginRead`, `ReadEmpty`, `ReadVerdict`, `ReadEnds` |
| tab closed, process killed | `Close` |
| another program | `Tamper`, `Replay` (a program that edits the file outside the application) |

`status`, `mem`, `snap`, `cache` and `observed` are per tab: the life of the tab, `this.state`,
`loadedStateSnapshot`, the ledger in `inMemoryCache`, `lastObservedVersionCounter`. `op[o]` holds the locals of an
operation. `past` and `tampered` are history. Which stretches a tab may interleave is a constant: `Overlap` says whether
the caller starts an operation while another of the same tab is running. `backend` is chosen in `Init`.

### VaultSync

An item is its `updatedAt` and the number of the edit that made it what it is; edits are numbered in the order they
happen, which is how a property can say *later* without trusting a clock. A checksum is the number of the upload.

| Code | Actions |
|---|---|
| edits, imports, trashing, purging between and during syncs | `Edit`, `Trash` (leaves `updatedAt` alone, as `setItemTrashedWithKey` does), `Purge` |
| `handleSyncNow` | `Start` (a copy of the items), `Save`, `Abandon` (every early return, the catch, a crash) |
| `performSync` | `ReadLabel`, `Download`: `Merging` what was downloaded, or going on without it when the download brought nothing (`Blank`) |
| the remote | `TruncateLabel`, `LoseVault` |
| `uploadVault` | `PutVault`, `Reject` (412), `PutLabel`; the answer of a PUT that took effect may be lost |

`Backend[d]` says which repository a device has. The file repository's bulk save stamps every merged item with the
time of the save; wa-sqlite keeps the stamps. `etags` says whether the remote shows ETags.

### VaultKeys

A key is the pair of the password and the salt it is derived from; a row or an attachment is the key it is sealed under.
`db` is what wa-sqlite has committed and `work` what the one shared connection reads.

| Code | Actions |
|---|---|
| `verifyMasterPassword` from the lock screen | `StartUnlock`, `FinishUnlock` (salt first and hash last on the desktop, the reverse on the web) |
| `closeVaultSession` | `Lock` |
| biometric and recovery enrolment | `StartEnroll`, `FinishEnroll` |
| `saveVaultItem` | `StartSave` (sealed under a copy of the key), then `SaveFile`, or `BeginSave` and `EndSave` |
| `saveAttachment`, `deleteAttachment` | `StartAttach`, `PutAttach`, `DeleteAttachment` |
| `handlePasswordChange`, `changeMasterPassword` | `AskRotation`, `VerifyOld`, `Prepare` (native rotation, old key), `ReadAttachments`, `WriteAttachments`, then the repository, then `Reopen` |
| repository part | `RotateFile`, or `ReadRows`, `BeginRotation`, `Rekey`, `CommitRotation`, `FailRotation` |
| repository failed | `Undo` of the attachments |
| page closed or reloaded | `Crash` |

### VaultMigration

An item is the number of its last edit, a key is its salt. `told` is history: what the user was last told is saved.

| Code | Actions |
|---|---|
| `restoreOrActivateDefaultVaultStorageBackend` | `Start`, by one of `Restored`, `KeptLegacy`, `ActivatedDefault`, `KeptFallback`, `Unavailable`; again inside `Setup` and `Unlock` |
| `setupMasterPassword`, `verifyMasterPassword`, `closeVaultSession` | `Setup`, `Unlock`, `Lock` |
| item saves and deletions | `Edit` |
| `resetSystem` | `Reset`, `ClearFlags` |
| `migrateActiveVaultStorageToWaSqlite` | `Migrate`, `Rekey` |
| `runVaultStorageMigration` | `ResetTarget`, `SetupTarget`, `CopyItems`, `CheckTarget`, `Throws`, `UndoTarget` |
| `runWaSqliteActiveBackendMigration` | `DryRun`, `Promote` |
| page closed, reloaded or killed | `Close` |

### VaultSession

| Code | Actions |
|---|---|
| `handleSubmit`, `handleBiometricUnlock` | `Submit` (lockout read, verification begins), `Answer` (session opened, failure recorded, or restore panel shown) |
| `LockScreenVaultRecovery`, `rebuildVaultFromSnapshot` | `Restore` (no lockout is read), `Refused` (a wrong password is recorded), `Rebuild` (emptied, opened for the items, closed), `Dismiss` |
| `changeMasterPassword`, `migrateActiveVaultStorageToWaSqlite` | `StartRekey` in an open session, `EndRekey`, which opens a session even after a lock |
| `useAutoLock` | `Activity`, `AutoTimer`, part of `Show` |
| `useRuntimeSecurity` | `Hide`, `Show`, `BackgroundTimer` |
| `useAndroidAutofillCoordinator` | `RequestArrives`, `RequestEnds` |
| `lock`, a reload | `Lock`, `Restart` |

A timer fires at its time or later; nothing holds the clock back for it, because hidden windows are throttled and
computers sleep. The two visibility handlers run in one event and are one action.

### CredentialBridge

| Code | Actions |
|---|---|
| `verifyMasterPassword`, `useExtensionCredentialSync`, `lock`, settings | `Unlock`, `SyncLease`, `Lock`, `AskRotation`: commands appended to `ipc` |
| the commands on the main thread | `RunOpen`, `RunClose`, `RunSync`, `RunClear`, `RunRotate` |
| `rotate_pairing_token_now`, `write_pairing_token_file` | `Bump`, `WriteFile`, `FailFile`, `Install`, by the window, a handler or the startup thread |
| accept loop, `handle_client` | `Accept`, `Reject`, `ReadToken`, `Greet`, `Admit`, `ServeGet`, `ServeOther`, `ServeRevoke`, `EndRevoke`, `HangUp` |
| `run_host` | `Dial` (token read from the file), `Greet`, `Send` |

`Accept` and `ReadToken` are two steps because `handle_client` reads the generation and the token one after the other.
`Admit` compares the generation after the read, as `read_authenticated_frame` does.

### VaultBackups

An item is the number of the edit that made it and the attachment it refers to, by number; a snapshot is a record in `made`, of
which `stored` are in IndexedDB. `cap[c]` are the locals of a capture or prune, `job[j]` those of a restore, import or rebuild;
the safety snapshot of a restore is a capture in the restore's own slot.

| Code | Actions |
|---|---|
| `createVaultSnapshot`, by the user, the scheduler, the lock or a restore | `BeginManual`, `BeginScheduled`, `LockAndCapture`, `BeginRestore`, then `ListFiles`, `DecryptFile`, `Store`, or `CaptureFails` |
| `pruneSnapshotsRetention`, `checkAndTriggerAutoSnapshot` | `List` (the sorted list is read once), `Prune` one at a time, then the recorded time and the second prune (`Pruned`) |
| `useVaultSnapshots`, `saveSnapshotSettings` | `Erase`, `EraseAll`, `ChooseLimit` (starts a prune), `ChooseFrequency` |
| the form, item deletion | `Attach` and then `Edit`; `Delete` |
| `restoreVaultSnapshot`, `replaceVaultItems` | `BeginRestore`, the safety capture, `Replace`; on wa-sqlite `DeleteSurplus` and `SaveTarget`; `PutFiles` |
| `handleImportedItems` | `BeginImport`, `ReadOriginals`, `SaveItems`, `PutFiles`; on failure `UndoInsert`, `UndoUpdates` |
| `rebuildVaultFromSnapshot` | `BeginRebuild`, `Wipe`, `OpenRebuilt`, `SaveItems`, `PutFiles`, `Leave` (the finally clause) |
| any of these throws | `JobFails`, `CaptureFails` |
| lock, unlock, page closed, clock set | `Lock`, `Unlock`, `Restart`, `Clock` (to any reading, also back) |

The password of the vault stays what it is: a change of it moves every attachment to another key before the session has that key, and a capture
in between, or on the web after it (finding 3), leaves out what it cannot open. That is not modelled here, and `SnapshotsHoldTheFiles` says so.

Nothing in the application deletes an attachment (`deleteAttachment` has no caller, `purgeOrphanedAttachments` only one in
`attachmentSyncEngine.ts` that nothing calls), so there is no such action here.

## 3. Runs

| Run | Instance | Result | What it shows |
|---|---|---|---|
| `store_tamper` | one tab, two operations, two ids, native and OPFS, tampering, replay, failing HMACs, crashes, no load at version 4 or above, one given-up OPFS writer at a time | holds: `TypeOK`, `ForgeryNeverSealed`, `ForgeryNeverShown`, `WritesAdvanceTheMark` | foreign rows are neither signed nor shown; writes that land in time are above the mark |
| `store_atomic` | one tab, three awaited operations, two ids, native, crashes | holds: `IdleTabHoldsTheFile`, `NoFalseAlarm`, `OperationsEnd`, `ImplementsRegister` | operations are atomic, failures leave nothing, all end |
| `store_two_tabs` | two tabs, four operations, one id, native and mirror | holds: `FirstWriteFenced` | the fence between tabs, as far as the code carries it |
| `sync_devices` | two devices, one per backend, two ids, two uploads, three edits, any clocks, ETags or none, truncated labels, a lost first `vault.ks` | holds: `TypeOK`, `UploadsAreUpToDate`, `UnknownRemoteKept`, `SyncNeverMovesBack` | the sync's safety |
| `store_lost_update` | two tabs, three operations, mirror | **violated**: `NoLostUpdate` | finding 1 |
| `sync_lww` | two devices, one clock, file repository | **violated**: `LastWriteWins` | finding 2 |
| `bridge` | one connection beside the window and the startup thread, lease of one tick, one slot, failing token files | holds: `TypeOK`, `LateRequestsRefused`, `FileMatchesToken`, `RevokedSessionsEnd`, `SlotsComeBack`, `LeaseEndsAfterLock` | revocation, rotation and lock reach open connections |
| `keys` | desktop and web, both repositories, one item, one attachment, two passwords, one kind of operation beside a change, crashes | holds: `TypeOK`, `RowsReadable`, `TransactionOwned`, `AttachmentsFollowVault`, `SessionFollowsVault`, `BundleIsCurrent`, `OnlyTheCurrentPasswordOpens` | no failure or crash of a change of password leaves a store behind, but for what is excluded below |
| `session` | one submission, the prompt, one rebuild by the restore panel, one change of password at a time, idle delay above the background delay, autofill requests | holds: `TypeOK`, `AttemptsWaitOutTheDelay`, `IdleVaultLocks`, `LateReturnFindsItLocked`, `EarlyReturnFindsItOpen` | lockout and locks |
| `migration` | desktop and web, two items, failures and crashes at every step | holds: `TypeOK`, `SavedItemsActive`, `SavedItemsDurable`, `SessionFitsActive` | nothing saved is lost by choosing, migrating or restarting |
| `keys_attachments` | web, wa-sqlite, undisturbed | **violated**: `AttachmentsReadable` | finding 3 |
| `backups` | two items, both backends, one capture beside one restore, import or rebuild with its safety capture, limits 2 and 3, clock readings 1 and 2, three acts of user, scheduler, clock or fault | holds: `TypeOK`, `RecentSurvive`, `SnapshotsHoldTheFiles`, `JobsKeepTheirWord`, `NothingLostByRestore` | the ways back to an earlier vault lose nothing and say what they did |

Every property of a passing run has a mutant: a plausible slip in one mapped definition under which TLC finds that
property violated with the same configuration.

**Bounds.** An operation in `store_tamper` may be any of six kinds on two ids with every outcome, and a tab may be
opened again and again below `MaxVersion`, and one OPFS writer at a time goes on after it was given up (`MaxLate`), so that two operations give seal, tamper, reopen, write and
read after. With the bound of 4 a native vault is written, tampered with, reopened and written again, and an OPFS vault is
tampered with, reopened with its resave landed, failed or refused, and written; with 5 it is also sealed by a write, reopened and
written again, which held too but takes longer than a routine check should. Three
operations in `store_atomic` are a failure between two successes, or an overlap of a purge with what it purged. In `store_lost_update` two
tabs and three operations are the least in which a tab with a commit of its own meets a commit of the other; `store_two_tabs`
has a fourth operation, so that a tab with an old mark writes a second generation of one number and a tab opened in between
meets it. In
`sync_devices` two uploads are the least with which the vault and its label can be left apart and a third sync can
meet them; three edits are the least with which the remote has one item that is newer and another that is not, so that a
merge has to choose both ways; `MaxLost` lets the first upload vanish, after which a sync finds its label alone. Two clock readings are enough to be equal, before or after. Ids, operations and (in
`store_two_tabs`) tabs are symmetric; the devices of `sync_devices` are not, having different backends. Runs with a
temporal property that needs liveness (`store_atomic`, `bridge`, `session`) use no symmetry.
In `keys`, `MaxSalt` admits two changes of password one after the other, so that a change meets what a failed one left, and `MaxOthers`
says how many *kinds* of operation may be under way beside one: one of each kind in turn, because two sessions' worth of saves
and unlocks together add states and no new interference with the rotation. The backend does not change during `keys`, and
one page is open in `keys` and `migration`. `MaxEdits` and `MaxSalt` of `migration` let an item be saved, changed or
deleted before and after a migration and leave room for a second migration or a setup after a reset. In `session` the clock has
room to hide, miss both deadlines and return; one submission, the prompt and one rebuild are three attempts that may be pending together, each of
which may fail after another has read the lockout; the lockout delays are those of `recordFailedUnlockAttempt` in ticks, with the
exponent cut at `MaxDelay`, and the theorem is for the code's bound of 8. In `bridge` one connection is enough to meet a rotation by
each of the other two actors, and one rotation that is asked for, by the window or by the extension, is enough to cross the write of the
startup thread and to revoke the connection; the theorems are for any number of both.
`backups` starts from a vault in use, with a snapshot or without: three acts then reach an attachment, its edit and a capture between or beside
them; a restore with an edit, a failure or a lock in its course; an import that fails, and its rollback that fails; a crash, a rebuild
and a lock; and a third capture over a limit of two. A fourth act, a second capture slot or a second job multiply the states
beyond what a run can hold; the theorems are for any number of each, but for `NothingLostByRestore`, which needs one job at a time. `MaxMade` admits every capture those acts can start.

**Deadlock.** The store runs stop when every operation is used and no tab may be opened (`CHECK_DEADLOCK FALSE`). So does `bridge` when the clock and the rotations are used up and the extension dials no more, and `backups` when its acts are used up. A sync can always be
started, a page reloaded, a vault locked or a window hidden: in the other runs deadlock is checked.

**Fairness.** `FairSpec` of `VaultStore` has weak fairness of `Step(o)` for each operation: the JavaScript engine
resumes what an await resolved, a native command returns, and the OPFS write is bounded by `Promise.race` with a timer. Nothing is
assumed of tabs, users or other programs. The lock is granted in request order, as Web Locks are; that is the
queue `lock`, not a fairness assumption. `VaultSync` states no liveness: a sync is started by the user and nothing retries it.
`FairSpec` of `CredentialBridge` has weak fairness of the main thread, of each rotation, of each handler and of the read
timeout of a connection that waits for a request (`IPC_READ_TIMEOUT`); renderer, hosts and extension owe nothing.
`FairSpec` of `VaultSession` has weak fairness of the clock, of the two timers (late, but in the end) and of the answers of verifications by form and prompt;
the user and the window owe nothing. `VaultKeys`, `VaultMigration` and `VaultBackups` state safety only.

## 4. Findings

1. **A tab that has committed once can overwrite another tab's commit** (`store_lost_update`). The freshness check reads
   the ledger through a cache that the tab filled when it last sealed (`indexedDbStorage.ts:246`), so later marks of other
   tabs are invisible to it, against `vaultWriteCoordination.ts:137`. `FirstWriteFenced` is what does hold: a tab that has not
   committed yet replaces no generation *above* its baseline. It says nothing of the rows, because the check compares counters: after a tab
   with an old mark has written the same number again, the first write of a tab opened in between may replace rows it never saw.
2. **A sync can replace a later edit by an earlier one** (`sync_lww`). The bulk save that ends every sync stamps every
   merged item with the present time (`sqlite_opfs.ts:973`), so that a copy nobody edited becomes newer than an edit made on
   another device a moment before. wa-sqlite keeps the stamps and is not exposed to this.
3. **A change of password on the web loses the attachments** (`keys_attachments`). `changeMasterPassword` derives the new key
   with the repository's present salt and re-encrypts the attachments under it (`storage.ts:588`); the repository then mints
   another salt (`waSqliteVaultStorageRepository.ts:235`). The session and every later unlock have the key of that salt,
   under which no attachment opens. The desktop passes one salt to both and is not exposed.
**Seen while modelling**, each reached by a model here and not the subject of a run of its own:

* *A save after an OPFS load bumps a sealed vault without sealing it* (`sqlite_opfs.ts:329`); the next verdict finds
  `sealedAtVersionCounter` behind `versionCounter`, "which no legitimate write path does" (`vaultDatabaseFormat.ts:380`), and
  judges the vault tampered. (`Resave`; `NoFalseAlarm` is false with `Backends = {"opfs"}`.)
* *A read during a save of the same tab reports corruption*: `getVaultItems` judges the live state (`sqlite_opfs.ts:751`), which
  the comment at line 376 says must not be judged. (`NoFalseAlarm` is false with `Overlap = TRUE`.)
* *With ETags, every sync after the first is rejected*: `If-Match` of `vault.ks` carries the ETag of `metadata.json`
  (`sync/syncEngine.ts:227`). (`Reject`.)
* *The lease outlives the lock*: `lock` closes the native session before it clears the lease (`useVaultLock.ts:27-28`), and
  `clear_extension_credentials` is refused without one (`src-tauri/src/lib.rs:513-526`). The lease ends by its own expiry,
  at most five minutes later (`LeaseEndsAfterLock`), not "as soon as the vault locks" (`useExtensionCredentialSync.ts:8`).
* *An autofill request that comes or ends while the window is hidden forgets the background lock*: the effect runs again
  (`useRuntimeSecurity.ts:160`) and starts without a deadline, so the suppression is not bounded by the request's freshness, as
  `useAndroidAutofillCoordinator.ts:112` says. The idle lock is not affected. (`RequestEnds`; `filled` in `LateReturnFindsItLocked`.)
* *Generation and token can disagree*: a connection accepted between `revoke()` and the installation of the new token
  (`native_messaging.rs:547-553`) is admitted under the new generation with the old token, which the comment at line 896 excludes.
* *A write that was given up lands later, over newer ones*: an OPFS save that takes longer than a second reports failure and is rolled back, but
  its writer goes on (`sqliteOpfsPersistence.ts:586`). The next save takes the same number and succeeds; when the first payload then replaces it, the
  vault has the edit that was reported as failed instead of the one that was reported as saved, under a generation that is not above the mark.
  (`WriteTimesOut`, `LateWriteLands`; `WritesAdvanceTheMark` is about writes that land in time.)
* *A sync that finds no vault beside a newer label uploads its own items unmerged*: `downloadVault` answers null for a 404
  (`webdavProvider.ts:217`, `s3Provider.ts:305`), the merge is skipped (`syncEngine.ts:247`), and the upload goes on. (`LoseVault`, `Blank`;
  `blank` is excluded from `UploadsAreUpToDate`.)
* *The restore panel does not read the lockout*: `LockScreenVaultRecovery.tsx:84` tries a password while a delay runs. Its wrong passwords are
  recorded (lines 98-102), although the comment at its head says that the component never counts an attempt (line 30). (`Restore`, `Refused`.)
* *A change of password or a migration that ends after a lock opens the session again* (`storage.ts:560`, `621`, `788`): the key is set whether or not
  the session is still open. (`EndRekey`.)
* *The recovery dialog cannot set a new password on a locked vault*: it calls `changeMasterPassword`, which throws without an open session
  (`storage.ts:520-523`, `581-584`; `src-tauri/src/credential_handler.rs:363-379` as well). It is therefore no way in.
* *A snapshot taken beside a change of password lacks attachments*, and so does every one taken on the web after it: `exportAllAttachments` leaves out
  what the key of the session does not open (`attachments.ts:599`), and attachments move first (`storage.ts:531`, `596`). (Read, not modelled.)
* *The branch for a marker that cannot be written is never taken* (`vaultStorageActiveMigration.ts:182`):
  `setIndexedDbItemSync` reports nothing. A lost marker sends the next page to the file repository. (`odd` contains `"mark"`.)
* *The web refuses to change the password of a signed vault of the file repository*: the new salt is installed before the old key is derived
  (`sqlite_opfs.ts:552`). (`RotateFile`.)
* *A migration from wa-sqlite to itself empties the vault*: nothing in `storage.ts:750-766` or in Settings refuses a migration when
  wa-sqlite is active; its target is then the active database, which is reset before the copy (`vaultStorageMigration.ts:78`), and a
  failure after that leaves it empty, against `docs/WA_SQLITE_FINAL_GATE.md:32` ("fails closed"). (`ResetTarget`; excluded from `SavedItemsActive` by `odd`.)
* *A snapshot taken on lock lacks the attachments*: the comment at `useVaultLock.ts:23` says the capture "completes on its own clones",
  but `exportAllAttachments` decrypts with the key of the session, which is closed by then, and leaves out what does not open.
  (`LockAndCapture`, `DecryptFile`; `owed` is emptied by `Cut`.)
* *A restore or an import that the lock cuts short saves nothing and reports success* when it has no attachments: `withSessionVaultKey`
  (`storage.ts:807`) returns its fallback without an error. (`Replace` and `SaveItems` in a closed session.)
* *On wa-sqlite a restore is not atomic*: it deletes one item at a time and then saves (`storage.ts:922-929`), against the comment
  "One atomic replace, one persist" (`snapshots.ts:294-300`). (`DeleteSurplus`; `NothingLostByRestore` is what the safety snapshot makes of it.)
* *A rebuild that fails has already reset the vault* (`storage.ts:709`) and takes no safety copy; the texts of the dialog say "The damaged
  file was left untouched" (`i18n/locales/en.ts:880`). (`Wipe`, then `JobFails`.)
* *The retention limit of the settings is neither an upper nor a lower bound*: every capture first prunes to the default of 30
  (`snapshots.ts:155`), so that 50 is never reached, and a manual capture does not apply a limit of 10. (`Limit`.)
* *After the clock was set back a safety snapshot may be the one that its own prune deletes*: it sorts as the oldest, against "to guarantee zero
  data loss" (`snapshots.ts:257`). (`Outnumbered` excludes it from `NothingLostByRestore`.)
* *The rollback of imported attachments is never taken* (`useSettingsBackupImport.ts:453`): the list of ids is assigned by the last call
  of the block that may throw.

Seen while reading: a failed label PUT does *not* make the next sync refuse, as
`webdavProvider.ts:200` says (the old label stays, or there is none); a device whose newest item is as new as the label
uploads without downloading, dropping items only the remote has (`syncEngine.ts:238`); trashing leaves `updatedAt`, so
tombstones do not win merges (`sqlite_opfs.ts:1345`). The hazards of `PROJECT.json` have more.

## 5. Proofs

All theorems are about arbitrary finite or infinite sets of tabs, operations, ids, devices, connections, forms, items, attachments and
passwords and arbitrary bounds, under the assumptions named in the modules (`StoreAssumption`, `SyncAssumption`, `KeysAssumption`,
`MigrationAssumption`, `SessionAssumption`, `BridgeAssumption`, `BackupsAssumption`: sentinels are not data, flags are Booleans, bounds are numbers;
the store also wants finitely many ids, and `RefinementAssumption` that no row holds the value that stands for no row). TLC evaluates the assumptions in every run.

| Theorem | States |
|---|---|
| `VaultStoreProofs!TypeCorrect` | `Spec => []TypeOK` |
| `VaultStoreProofs!ReSignedMeansCovered` | once a tag is required, a verdict that permits re-signing means the tag covers exactly the rows |
| `VaultStoreProofs!ForgeryInductive` | `Awaited => (Spec => []Inv)` |
| `VaultStoreProofs!ForgeryIsNeverSealed`, `ForgeryIsNeverShown` | the two forgery properties, under `Awaited` |
| `VaultBaselineProofs!AwaitedWritesAdvance` (from `MarkInductive`) | `SoleReader => (Spec => WritesAdvanceTheMark)`: writes that land while their operation waits; `LateWriteLands` is not meant |
| `VaultBaselineProofs!IdleTabsHoldTheFile` (from `FollowInductive`) | `SoleDesktop /\ ~MayTamper => (Spec => []IdleTabHoldsTheFile)` |
| `VaultBaselineProofs!NeverFalseAlarm` (from `HealthInductive`) | `SoleDesktop /\ ~MaySealFail => (Spec => []NoFalseAlarm)` |
| `VaultBaselineProofs!FirstWritesFenced` (from `FenceInductive`) | `Fenced => (Spec => FirstWriteFenced)`, for any number of tabs |
| `VaultBaselineProofs!RefinesRegister` (from `EditInductive`) | `SoleWriter => (Spec => ImplementsRegister)` |
| `VaultSyncProofs!SyncTypeCorrect` | `Spec => []TypeOK` |
| `VaultSyncProofs!SyncUploadsAreUpToDate`, `SyncMovesNothingBack`, `UnknownRemoteIsKept` | the three sync properties |
| `VaultKeysProofs!KeysTyped`, `RowsStayReadable`, `NoTransactionOrphaned`, `AttachmentsStayWithVault`, `SessionStaysWithVault`, `BundleStaysCurrent`, `OnlyTheCurrentPassword` | every property of `keys` |
| `VaultMigrationProofs!MigrationTyped`, `NothingLostInUse`, `NothingLostOverRestart`, `SessionRekeyed` | every property of `migration` |
| `VaultSessionProofs!SessionTyped`, `DelayIsServed`, `LateReturnLocked`, `EarlyReturnOpen` | every safety property of `session` |
| `CredentialBridgeProofs!BridgeTyped`, `RevokedNeverServed`, `LeaseBounded`, `TokenFileAgrees` | every safety property of `bridge` |
| `VaultBackupsProofs!TypeCorrect`, `RetentionTakesTheOldest`, `SnapshotsAreWhole`, `JobsAreHonest`, `RestoresLoseNothing` (from `RestoreInductive`) | every property of `backups`, the last under `SingleJob` |

**Forgery.** `Awaited` says that a tab awaits each operation and that no load is from the mirror. Both are needed:
with overlapping operations a verdict is about a state that another call edits before it is signed, and a load from
the mirror takes no snapshot, so that the first write of the tab passes no gate. The properties alone are not inductive: that no tag covers a
forged row says nothing of a gate that has just passed. `ForgeryInv` adds that (1) every state held anywhere, in the
file, a late payload, the past, a tab or an operation, has a clean tag, and clean rows until another program has written
(`StatesFine`); (2) once tampered with, the vault has a mark that no tab forgets, so a missing tag counts as tampering
(`MarkKept`); (3) a tab runs one operation at a time (`OneAtATime`); (4) a forged row that is in the live state, or in the state
an operation would restore, is also in the baseline the gate judges (`BaselineTells`, `Cleared`); (5) past the gate and past
a read's verdict the live rows are clean (`GatePassed`). Step (5) is where the verdict matters: a baseline
with a forged row and a tag that covers none cannot be `trusted` or `needs-reseal`, and cannot be `unsigned` because
of (2): `ReSignedMeansCovered`.

**Baselines.** Each of the next five theorems names the case it is about, outside which the property can fail or is not claimed: overlapping operations
and a mirror load have no baseline, an OPFS load bumps the counter without sealing, a second tab moves the file, and a failed signature
leaves a sealed vault with an older seal. `SoleReader` is one tab that awaits its operations and never loads from the mirror; `SoleDesktop` one tab
that awaits them on the native backend; `SoleWriter` adds that signatures succeed and nobody else writes the file. `Fenced` is any number of tabs
on the native backend or the mirror, where every commit raises the mark: `store_two_tabs` with a crash, a failed signature, another writer
or OPFS allowed finds `FirstWriteFenced` violated, each alone; with overlapping operations TLC found no violation before it was stopped, and
nothing is claimed. The instances of the runs are such cases.

* `MarkInv`: what the sole tab has cached of the mark is the mark, and neither its live state nor what it would restore is older than its baseline. The
  freshness check compares the mark with the *baseline*, while the payload carries the counter of the *live* state; the invariant ties the three. It says nothing of
  a payload whose writer was given up: what lands late may carry any earlier number, and no theorem claims otherwise.
* `FollowInv`: an open tab and the file differ only by what the running operation has done: before the write lands the state it would
  restore *is* the file, and what is being written is the live state. A failure at any stage therefore leaves the file in both.
* `HealthInv`: what is on its way to the file has a new counter and a tag that covers it, and no counter a tab remembers (mark, cache, last seen) is ahead of the
  file; so each of the refusals of the verdict cascade is excluded in turn.
* `FenceInv`: only the holder of the lock is past the freshness check (`LockHeld`), and whenever no write has landed unrecorded, the file is no newer
  than the mark or is the file of the setup (`MarkCovers`). A crash between the landing and the record, a failed signature or an OPFS load each break this.
* `EditInv` and the refinement: `saveVaultItem` looks an index up before it encrypts and uses it after; under `FollowInv` the rows have not
  changed in between, so the live rows are the file's with exactly the one edit (`Edited`), and ids stay unique (`Unique`). The step that lands the payload
  maps to `Commit`, which needs that inserting, replacing and deleting rows does to `Lookup` what `Effect` does to the abstract map
  (`LookupUpsert`, `LookupSingle`, `LookupPurge`, which rest on `NthEnumerates`); starts, successes, errors and crashes map to
  `Start`, `Succeed`, `Fail` and `Die`; every other step is a stutter. The theorem covers the initial states and the next-state relation, which is all
  `VaultRegister` states.

**Sync.** `UploadsAreUpToDate` rests on `UpToDateInv`: a label, as it is on the remote or as a sync has read it, tells how new
`vault.ks` is *when it carries the number of `vault.ks`* (`Tells`), and a device about to write a label knows what it uploaded.
Uploads never repeat a number, so a label that has been outdated stays so, and the checksum comparison in `Download` turns the
label into a fact about the downloaded items. A sync whose download brought nothing (`blank`) has no such fact, and the property does not speak of it. `SyncMovesNothingBack` rests on `MergedIsNewer`, `UnknownRemoteIsKept`
on `SeenIsReadable`: what was read has the present version, and then it was readable, or an earlier one.

**Keys.** The seven properties rest on one invariant, `KeysInv`: who holds the connection and what it has written
(`Connection`), what each stage of a change knows of the old and the new key (`Keying`), that an operation under way has been
counted among those that overlap a change (`Overlaps`), and that rows, attachments, session and bundle are under the key the
stage says (`Current`, `Rows`, `Attachments`, `BundleIsCurrent`). None of the properties is inductive alone: that rows are
readable after `COMMIT` needs that the rows read before `BEGIN` are still all there are, hence that no save has run between,
hence the owner of the connection.

**Migration.** `MigrationInv` adds to the three properties that the marker, the active repository and the flag fit each other
(`ChoiceFits`), that a migration works beside the active repository until `Promote` (`RunsBeside`), and that past the checks
the copy is what the user was told (`CopyFits`).

**Session and bridge.** `DelayIsServed` is about the form and the prompt, which read the lockout; it rests on the stored lockout never being earlier than what the recorded failures earn, also those of
the restore panel, and on nobody but a successful opening clearing it;
`LateReturnLocked` on the deadline being armed as long as the window is hidden, the vault open since and no request has come.
`LeaseBounded` needs that a lease is never written after the native session is closed, which follows from the order in which the
main thread runs the commands; `TokenFileAgrees` follows the token from the generator through file and memory for each rotation.

**Backups.** `RecentSurvive` needs that what a prune *has marked* is outnumbered (`Pruner`): the list is read once and what is stored
changes beneath it, but snapshots are only added to `made` and keep their stamps, so that what was outnumbered when the list was read stays so.
`SnapshotsHoldTheFiles`, under one password, needs, for a capture under way, that what its items owe is still in the attachment store when it has not been listed, and
listed or exported afterwards, or that the session was closed (`Owing`); attachments are never deleted while it is open.
`JobsKeepTheirWord` follows each kind of job through its stages (`Standing`): what is in the vault is what it found, with
so much of its own items laid over it, as long as nobody else has written and the session is open; and the safety capture in a
job's slot is there exactly while it is awaited (`Awaited`), so that no capture of another kind can move a job on.
`NothingLostByRestore` adds `RestoreInv`: whatever in the vault is from before the restore began is in the items its safety capture has read (`Covers`),
then in the snapshot whose number the capture keeps through its prune, then in the one the restore has noted (`Holds`); with `RecentSurvive` this
snapshot is stored. `SingleJob` is needed: with a second job TLC finds that an import or restore beside it puts items into the vault, after the
safety snapshot was read, that the restore then overwrites.

**Only model-checked.** `OperationsEnd`, `RevokedSessionsEnd`, `SlotsComeBack` and `IdleVaultLocks` are liveness under fairness, which is out of the
prover's reach, and stay with TLC. Every safety property, action property and refinement that a passing run checks has a theorem. `MarkInv`,
`FollowInv`, `HealthInv`, `FenceInv`, `EditInv` and `RestoreInv` were checked by TLC on the instances of the runs before they were proved; the runs keep checking
the properties they imply. The three violated properties are not theorems of any kind.

## 6. Not modelled, and why

* In `VaultStore`: `setupMaster`, `changeMasterPassword`, `resetAll` (`VaultKeys` and `VaultMigration` have them at the level of keys and
  whole repositories), the key-derivation and salt migration a read may carry (a save inside a read), decryption errors
  of single rows, the query console.
* In persistence: unreadable, empty and missing files, size limits, the mirror beside the OPFS file. A write to the mirror
  is modelled as landing. The ledger's IndexedDB copy is written and never read back (it is not among the keys restored at
  start, `indexedDbStorage.ts:161`), so the cache of a fresh page is cold, as in `Open`.
* `StaleBaseline` and the gate overlap: a stale baseline is also rolled back for the verdict. Dropping either alone leaves
  `FirstWriteFenced` true.
* In `VaultStore`, what a payload that lands late replaces: modelled (`LateWriteLands`), and beside it the forgery properties hold, but no property says that it
  does no harm, because it does (section 4).
* In `UploadsAreUpToDate`, a sync that found `vault.ks` gone or empty: modelled (`Blank`) and excluded.
* In sync: the connection test, air-gap leases, size limits, the flag for near-simultaneous edits, the ETag read after an
  upload (nothing uses it), the sync configuration record.
* What the histories of the later modules exclude, because the code does not promise it: in `VaultKeys` (`crossed`, `cut`) a save, upload,
  unlock or enrolment that overlaps a change of password, and attachments or bundles after a crash between two stores; in
  `VaultMigration` (`odd`) a lost marker, an edit or reset while a migration runs, a migration from wa-sqlite; in
  `VaultSession` (`stayed`, `filled`) a vault locked and reopened while hidden, and autofill while hidden; in `CredentialBridge`
  (`torn`) a failed or overlapped write of the token file. Each exclusion is a conjunct of the property it limits.
* In `VaultKeys`: a second page, a change of backend, lock during a rotation re-opening the session is kept (`Reopen`) but not judged;
  passkeys inside items; the account secret key; legacy attachments.
* In `VaultMigration`: a change of password, attachments, the smoke test, two pages.
* In `VaultBackups`: a change of the master password, before, beside or after a capture, and with it every attachment that the key of the session does not open;
  the export of a snapshot to a file, snapshots under an earlier password (a rebuild refuses them before it begins), payload
  checks and limits, items without an id (each is a new item), what the integrity ledger does in a rebuild, and a second page. Edits made while a
  job runs are modelled; that a job keeps its word beside them, or over a lock, is not promised (`clean`).
* In `VaultSession`: the first setup and the reset, which begin another vault; the recovery dialog, which ends in an error on a locked vault (section 4);
  a second page with a cached lockout, the privacy shield, the clipboard, `MAX_LOCKOUT_MS`, which the exponent never lets a delay reach.
* In `CredentialBridge`: URL matching, AEAD frames (a key), the counting of the rate limiter, poisoned mutexes, the port file.
* HMAC, AES and Argon2 are ideal: a tag equals another only if it covers the same content under the same key.
* Everything the component list of `PROJECT.json` calls `not_modelled`, with its reason.

## 7. Plan

Done: store core, sync, keys, migration, session, bridge, backups, each with its proofs.

1. Air-gap leases and the sync that holds them.
2. The mirror beside the OPFS file, and unreadable and missing files, in `VaultStore`.
3. Proofs: `WritesAdvanceTheMark` and `NoFalseAlarm` for several tabs, as far as they hold; `FirstWriteFenced` for
   operations that overlap; a weaker `NothingLostByRestore` for several jobs.
