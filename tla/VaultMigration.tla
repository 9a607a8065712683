---------------------------- MODULE VaultMigration ----------------------------
(***************************************************************************)
(* Which repository is the vault: the choice at start, the marker that     *)
(* remembers it, the migration from the file repository to wa-sqlite and   *)
(* the reset (vaultStorageProvider.ts, vaultStorageActiveMigration.ts,     *)
(* vaultStorageMigration.ts, indexedDbStorage.ts, storage.ts).             *)
(*                                                                         *)
(* An item is the number of the edit that made it what it is, 0 when it    *)
(* does not exist.  The password never changes here (VaultKeys is about    *)
(* that), so a key is its salt, and a salt of 0 is a repository that was   *)
(* not set up.  Statements are atomic, as the transactions of both         *)
(* repositories are.  One page is open at a time.                          *)
(***************************************************************************)
EXTENDS Naturals, FiniteSets

CONSTANTS
  Desktops,   \* is this the desktop runtime?  a subset of BOOLEAN
  Items,      \* vault items
  MaxEdits,   \* bound: edits
  MaxSalt     \* bound: salts that are minted

ASSUME MigrationAssumption ==
  /\ Desktops \subseteq BOOLEAN
  /\ MaxEdits \in Nat /\ MaxSalt \in Nat

VARIABLES
  desktop,  \* isDesktopRuntime()
  content,  \* content[b]: what repository b has committed
  active,   \* activeVaultStorageRepository, "none" while no page is open
  marker,   \* ACTIVE_VAULT_STORAGE_BACKEND_KEY, as this page sees it
  stored,   \* the marker as the next page will see it
  flag,     \* isMasterPasswordSet()
  session,  \* the salt of the session's vault key, 0 when locked
  mig,      \* the migration that is running
  wiping,   \* a reset has emptied the repository and not yet the flags
  edits,    \* the last edit
  minted,   \* the last salt
  told,     \* history: told[i] is what the user was last told is saved
  odd       \* history: what the properties exclude, by name

choice == <<active, marker, stored>>
vars == <<desktop, content, active, marker, stored, flag, session, mig, wiping, edits, minted,
          told, odd>>

Backends == {"file", "lite"}
Nothing == [i \in Items |-> 0]
Empty == [salt |-> 0, rows |-> Nothing]

(* A row that is sealed under another key than the repository's. *)
Garbled == MaxEdits + 1
Repository == [salt : Nat, rows : [Items -> 0..Garbled]]
Opens(r) == r.salt # 0 /\ \A i \in Items : r.rows[i] # Garbled
IdsOf(r) == {i \in Items : r.rows[i] # 0}

Migration == [pc : {"idle", "reset", "setup", "copy", "check", "undo", "dry", "promote", "rekey"},
              src : Backends, copied : [Items -> 0..Garbled]]
NoMigration == [pc |-> "idle", src |-> "file", copied |-> Nothing]

Occurs(what, when) == odd' = IF when THEN odd \cup {what} ELSE odd

(* A fresh installation, or a vault of the time before wa-sqlite. *)
Init ==
  /\ desktop \in Desktops
  /\ flag \in BOOLEAN
  /\ content = [b \in Backends |->
                  IF b = "file" /\ flag THEN [salt |-> 1, rows |-> Nothing] ELSE Empty]
  /\ active = "none" /\ marker = FALSE /\ stored = FALSE
  /\ session = 0 /\ mig = NoMigration /\ wiping = FALSE
  /\ edits = 0 /\ minted = 1 /\ told = Nothing /\ odd = {}

-----------------------------------------------------------------------------
(* initializeStorage, at the start of the page and again before every      *)
(* unlock and setup.                                                       *)

(* setIndexedDbItemSync changes the cache; that both stores refuse the     *)
(* value is logged and not reported.                                       *)
WriteMarker ==
  /\ marker' = TRUE
  /\ stored' \in {stored, TRUE}
  /\ Occurs("mark", ~stored')

Kept == IF active = "none" THEN "file" ELSE active

Restored ==
  /\ marker
  /\ active' = "lite"
  /\ UNCHANGED <<marker, stored, odd>>

KeptLegacy ==
  /\ ~marker /\ (flag \/ desktop)
  /\ active' = Kept
  /\ UNCHANGED <<marker, stored, odd>>

ActivatedDefault ==
  /\ ~marker /\ ~flag /\ ~desktop
  /\ active' = "lite"
  /\ WriteMarker

(* wa-sqlite does not open: the marker is cleared, the repository stays. *)
KeptFallback ==
  /\ ~marker /\ ~flag /\ ~desktop
  /\ active' = Kept
  /\ marker' = FALSE /\ stored' = FALSE
  /\ UNCHANGED odd

InitializeStorage == Restored \/ KeptLegacy \/ ActivatedDefault \/ KeptFallback

(* There is a marker and its database does not open: no repository is      *)
(* chosen, and the marker is preserved (Y-13).                             *)
UnavailableClears == marker /\ marker' = FALSE /\ stored' = FALSE /\ UNCHANGED active

Unavailable == marker /\ UNCHANGED choice

Start ==
  /\ active = "none"
  /\ InitializeStorage \/ (Unavailable /\ UNCHANGED odd)
  /\ UNCHANGED <<desktop, content, flag, session, mig, wiping, edits, minted, told>>

(* The page is closed, reloaded or killed. *)
CloseDetached ==
  /\ active # "none"
  /\ active' = "none" /\ marker' = stored
  /\ session' = 0 /\ wiping' = FALSE
  /\ UNCHANGED <<desktop, content, stored, flag, mig, edits, minted, told, odd>>

Close ==
  /\ active # "none"
  /\ active' = "none" /\ marker' = stored
  /\ session' = 0 /\ mig' = NoMigration /\ wiping' = FALSE
  /\ UNCHANGED <<desktop, content, stored, flag, edits, minted, told, odd>>

-----------------------------------------------------------------------------
(* setupMasterPassword: the repository is emptied and gets a new salt. *)
Setup ==
  /\ active # "none" /\ ~flag /\ session = 0 /\ minted < MaxSalt
  /\ InitializeStorage
  /\ content' = [content EXCEPT ![active'] = [salt |-> minted + 1, rows |-> Nothing]]
  /\ minted' = minted + 1 /\ session' = minted + 1
  /\ flag' = TRUE
  /\ told' = Nothing
  /\ UNCHANGED <<desktop, mig, wiping, edits>>

Unlock ==
  /\ active # "none" /\ flag /\ session = 0 /\ ~wiping
  /\ InitializeStorage
  /\ content[active'].salt # 0
  /\ session' = content[active'].salt
  /\ UNCHANGED <<desktop, content, flag, mig, wiping, edits, minted, told>>

Lock ==
  /\ session # 0
  /\ session' = 0
  /\ UNCHANGED <<desktop, content, choice, flag, mig, wiping, edits, minted, told, odd>>

(* An item is saved or deleted and the user is told so.  The file          *)
(* repository verifies its tag under the key and refuses another; wa-sqlite*)
(* stores the row under the key it is given.                               *)
Edit(i) ==
  /\ session # 0 /\ edits < MaxEdits
  /\ active = "file" => session = content["file"].salt
  /\ edits' = edits + 1
  /\ \E value \in {0, edits + 1} :
       /\ content' = [content EXCEPT ![active].rows[i] =
                        IF value = 0 \/ session = content[active].salt THEN value ELSE Garbled]
       /\ told' = [told EXCEPT ![i] = value]
  /\ Occurs("edit", mig.pc # "idle" \/ wiping)
  /\ UNCHANGED <<desktop, choice, flag, session, mig, wiping, minted>>

(* resetSystem: the repository, then the session, the flags and the marker; *)
(* both of its callers reload the page at once.                            *)
Reset ==
  /\ active # "none" /\ flag /\ ~wiping
  /\ content' = [content EXCEPT ![active] = Empty]
  /\ told' = Nothing
  /\ wiping' = TRUE
  /\ Occurs("edit", mig.pc # "idle")
  /\ UNCHANGED <<desktop, choice, flag, session, mig, edits, minted>>

ClearFlags ==
  /\ wiping
  /\ flag' = FALSE /\ marker' = FALSE /\ stored' = FALSE
  /\ active' = "none" /\ session' = 0 /\ mig' = NoMigration /\ wiping' = FALSE
  /\ UNCHANGED <<desktop, content, edits, minted, told, odd>>

-----------------------------------------------------------------------------
(* migrateActiveVaultStorageToWaSqlite, with the credential of the session *)
(* at its start.  The target is the database of wa-sqlite, whatever the    *)
(* source is.                                                              *)
Migrate ==
  /\ session # 0 /\ mig.pc = "idle" /\ minted < MaxSalt
  /\ Opens(content[active])
  /\ mig' = [pc |-> "reset", src |-> active, copied |-> content[active].rows]
  /\ Occurs("again", active = "lite")
  /\ UNCHANGED <<desktop, content, choice, flag, session, wiping, edits, minted, told>>

Goto(pc) == mig' = [mig EXCEPT !.pc = pc]

(* A step that throws rolls the target back. *)
Throws(pc) ==
  /\ mig.pc = pc
  /\ Goto("undo")
  /\ UNCHANGED <<desktop, content, choice, flag, session, wiping, edits, minted, told, odd>>

ResetTarget ==
  /\ mig.pc = "reset"
  /\ content' = [content EXCEPT !["lite"] = Empty]
  /\ Goto("setup")
  /\ UNCHANGED <<desktop, choice, flag, session, wiping, edits, minted, told, odd>>

SetupTarget ==
  /\ mig.pc = "setup"
  /\ content' = [content EXCEPT !["lite"] = [salt |-> minted + 1, rows |-> Nothing]]
  /\ minted' = minted + 1
  /\ Goto("copy")
  /\ UNCHANGED <<desktop, choice, flag, session, wiping, edits, told, odd>>

(* saveVaultItems; what the storage keeps of it shows when it is reopened. *)
CopyItems ==
  /\ mig.pc = "copy"
  /\ \E kept \in {Items} \cup {Items \ {i} : i \in Items} :
       content' = [content EXCEPT !["lite"].rows =
                     [i \in Items |-> IF mig.copied[i] = 0 THEN @[i]
                                      ELSE IF i \in kept THEN mig.copied[i] ELSE 0]]
  /\ Goto("check")
  /\ UNCHANGED <<desktop, choice, flag, session, wiping, edits, minted, told, odd>>

(* validateMigratedItems, on the target and on the reopened target. *)
CheckTarget ==
  /\ mig.pc = "check"
  /\ Goto(IF content["lite"].salt # 0 /\ content["lite"].rows = mig.copied THEN "dry" ELSE "undo")
  /\ UNCHANGED <<desktop, content, choice, flag, session, wiping, edits, minted, told, odd>>

(* rollbackTarget: an error in it is only listed. *)
UndoSource ==
  /\ mig.pc = "undo"
  /\ content' \in {content, [content EXCEPT ![mig.src] = Empty]}
  /\ mig' = NoMigration
  /\ UNCHANGED <<desktop, choice, flag, session, wiping, edits, minted, told, odd>>

UndoTarget ==
  /\ mig.pc = "undo"
  /\ content' \in {content, [content EXCEPT !["lite"] = Empty]}
  /\ mig' = NoMigration
  /\ UNCHANGED <<desktop, choice, flag, session, wiping, edits, minted, told, odd>>

(* runVaultStorageMigrationDryRun compares the ids, and the migration is   *)
(* blocked when it fails; the target keeps what it has.                    *)
SameIds ==
  /\ Opens(content[mig.src]) /\ Opens(content["lite"])
  /\ IdsOf(content[mig.src]) = IdsOf(content["lite"])

DryRun ==
  /\ mig.pc = "dry"
  /\ (SameIds /\ Goto("promote")) \/ mig' = NoMigration
  /\ UNCHANGED <<desktop, content, choice, flag, session, wiping, edits, minted, told, odd>>

(* The new repository is hydrated; then it is made active and the marker   *)
(* written without an await in between.                                    *)
Promote ==
  /\ mig.pc = "promote"
  /\ \/ active' = "lite" /\ WriteMarker /\ Goto("rekey")
     \/ mig' = NoMigration /\ UNCHANGED <<choice, odd>>
  /\ UNCHANGED <<desktop, content, flag, session, wiping, edits, minted, told>>

(* The vault key is derived again under the new salt, and becomes the      *)
(* session's, locked or not (Y-12).                                        *)
RekeyWithTheOldKey ==
  /\ mig.pc = "rekey"
  /\ flag' = TRUE
  /\ mig' = NoMigration
  /\ UNCHANGED <<desktop, content, choice, session, wiping, edits, minted, told, odd>>

Rekey ==
  /\ mig.pc = "rekey"
  /\ flag' = TRUE
  /\ session' = content["lite"].salt
  /\ mig' = NoMigration
  /\ UNCHANGED <<desktop, content, choice, wiping, edits, minted, told, odd>>

MigrationStep ==
  \/ ResetTarget \/ SetupTarget \/ CopyItems \/ CheckTarget \/ UndoTarget \/ DryRun \/ Promote
  \/ Rekey \/ \E pc \in {"reset", "setup", "copy", "check"} : Throws(pc)

Next ==
  \/ Start \/ Close \/ Setup \/ Unlock \/ Lock \/ Reset \/ ClearFlags
  \/ \E i \in Items : Edit(i)
  \/ Migrate \/ MigrationStep

Spec == Init /\ [][Next]_vars

-----------------------------------------------------------------------------
(* Every variable stays in its domain: a page that is not open holds no    *)
(* session and runs nothing, and only a running migration re-keys.         *)
TypeOK ==
  /\ desktop \in BOOLEAN
  /\ content \in [Backends -> Repository]
  /\ active \in Backends \cup {"none"}
  /\ marker \in BOOLEAN /\ stored \in BOOLEAN /\ flag \in BOOLEAN
  /\ session \in Nat /\ mig \in Migration /\ wiping \in BOOLEAN
  /\ edits \in 0..MaxEdits /\ minted \in Nat
  /\ told \in [Items -> 0..MaxEdits]
  /\ odd \subseteq {"mark", "edit", "again"}
  /\ active = "none" => session = 0 /\ mig = NoMigration /\ ~wiping

(* What the repository that the next page chooses has. *)
NextBackend == IF stored THEN "lite" ELSE "file"

(* The repository the user works with has everything the user was told is  *)
(* saved, before, during and after a migration that succeeds, is blocked   *)
(* or fails half way (runWaSqliteActiveBackendMigration).  Left out: a     *)
(* marker write that was lost, an edit or a reset while a migration runs,  *)
(* a migration from wa-sqlite.                                             *)
SavedItemsActive == odd = {} /\ flag /\ active # "none" => content[active].rows = told

(* ... and so has the repository a page chooses that starts after a crash  *)
(* at any step: the marker never points away from the vault.               *)
SavedItemsDurable == odd = {} /\ flag => content[NextBackend].rows = told

(* An unlocked session holds the key of the repository it works with; the  *)
(* only gap is between the promotion and the key that is derived after it  *)
(* (Y-12).                                                                 *)
SessionFitsActive ==
  odd \subseteq {"mark"} /\ ~wiping /\ mig.pc # "rekey" /\ active # "none"
    => session \in {0, content[active].salt}
===============================================================================
