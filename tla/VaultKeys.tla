------------------------------ MODULE VaultKeys -------------------------------
(***************************************************************************)
(* Who is sealed under which key: the vault rows, the attachments, the     *)
(* session of the page, the session of the native side and the bundle that *)
(* opens the vault without a password, across a change of the master       *)
(* password (storage.ts, attachments.ts, waSqliteVaultStorageRepository.ts,*)
(* waSqliteEngine.ts, vaultSession.ts, credential_handler.rs,              *)
(* useSettingsPassword.ts, recoveryKey.ts, biometric.ts).                  *)
(*                                                                         *)
(* A key is what Argon2id makes of a password and a salt, so it is that    *)
(* pair.  A vault row or an attachment is the key it is sealed under, or   *)
(* NoKey when it does not exist.  The whole-file repository is atomic here *)
(* (VaultStore opens it up); the statements of wa-sqlite are steps, and    *)
(* all its callers share one connection.                                   *)
(***************************************************************************)
EXTENDS Naturals, FiniteSets

CONSTANTS
  Runtimes,   \* is this the desktop runtime?  a subset of BOOLEAN
  Backends,   \* the active repository: a subset of {"file", "sqlite"}
  Items,      \* vault items
  Atts,       \* attachments
  Passwords,  \* master passwords
  NoPassword, \* what stands for no password
  MaxSalt,    \* bound: salts that are minted
  MaxOthers,  \* bound: kinds of operations under way beside a change of password
  MayCrash    \* may the page be closed or reloaded at any point?

ASSUME KeysAssumption ==
  /\ Runtimes \subseteq BOOLEAN
  /\ Backends \subseteq {"file", "sqlite"}
  /\ NoPassword \notin Passwords
  /\ MaxSalt \in Nat /\ MaxOthers \in Nat
  /\ MayCrash \in BOOLEAN

VARIABLES
  desktop,  \* isDesktopRuntime()
  backend,  \* getVaultStorageRepository()
  db,       \* what the repository has committed
  work,     \* what a statement reads: db, and what the open transaction wrote
  open,     \* is a transaction open on the connection?
  atts,     \* the attachments of IndexedDB
  session,  \* the vault key of the page's session
  rust,     \* the session of the native side, on the desktop
  bundle,   \* the password inside the biometric or recovery bundle
  rot,      \* the change of password that is running
  save,     \* save[i]: the save of item i that is running
  attach,   \* attach[a]: the key the upload of a has been sealed under
  unlock,   \* the unlock that is running
  enroll,   \* the password a biometric or recovery enrolment has read
  minted,   \* the last salt that was minted
  crossed,  \* history: what has ever overlapped a change of password
  cut       \* history: what a crash or a failed undo has left half done

repo == <<db, work, open>>
others == <<save, attach, unlock, enroll>>
vars == <<desktop, backend, db, work, open, atts, session, rust, bundle, rot, save,
          attach, unlock, enroll, minted, crossed, cut>>

Keys == [pw : Passwords, salt : Nat]
NoKey == [pw |-> NoPassword, salt |-> 0]
PasswordOrNone == Passwords \cup {NoPassword}
KeyOrNone == Keys \cup {NoKey}
Database == [pw : Passwords, salt : Nat, rows : [Items -> KeyOrNone]]

KeyOf(d) == [pw |-> d.pw, salt |-> d.salt]
Held == {a \in Atts : atts[a] # NoKey}
RowsOf(d) == {i \in Items : d.rows[i] # NoKey}

(* old and new are the passwords of the form; oldKey and newKey the keys   *)
(* the attachments move between; target the key the repository moves to;   *)
(* seen the attachments and kept the rows that were read.                  *)
Rotation == [pc : {"idle", "verify", "change", "atts", "puts", "repo", "begin", "rekey",
                   "commit", "undo", "reopen"},
             old : PasswordOrNone, new : PasswordOrNone,
             oldKey : KeyOrNone, newKey : KeyOrNone, target : KeyOrNone,
             seen : SUBSET Atts, kept : SUBSET Items]
NoRotation == [pc |-> "idle", old |-> NoPassword, new |-> NoPassword, oldKey |-> NoKey, newKey |-> NoKey,
               target |-> NoKey, seen |-> {}, kept |-> {}]

Saving == [pc : {"idle", "sealed", "commit"}, key : KeyOrNone]
NoSave == [pc |-> "idle", key |-> NoKey]

Unlocking == [pc : {"idle", "open"}, pw : PasswordOrNone, salt : Nat]
NoUnlock == [pc |-> "idle", pw |-> NoPassword, salt |-> 0]

(* From the moment changeMasterPassword copies the old key. *)
Rotating == rot.pc \notin {"idle", "verify", "change"}

(* What is under way beside a change of password. *)
UnderWay ==
  (IF \E i \in Items : save[i].pc # "idle" THEN {"save"} ELSE {})
    \cup (IF \E a \in Atts : attach[a] # NoKey THEN {"attach"} ELSE {})
    \cup (IF unlock.pc # "idle" THEN {"unlock"} ELSE {})
    \cup (IF enroll # NoPassword THEN {"enroll"} ELSE {})
(* An operation of this kind starts. *)
Starts(kind) ==
  /\ Cardinality(UnderWay \cup {kind}) <= MaxOthers
  /\ crossed' = IF Rotating THEN crossed \cup {kind} ELSE crossed

(* A locked vault with one password, one key and whatever it holds. *)
Init ==
  /\ desktop \in Runtimes /\ backend \in Backends
  /\ \E p \in Passwords :
       LET key == [pw |-> p, salt |-> 1] IN
       /\ \E rows \in [Items -> {key, NoKey}] : db = [pw |-> p, salt |-> 1, rows |-> rows]
       /\ atts \in [Atts -> {key, NoKey}]
       /\ bundle \in {NoPassword, p}
  /\ work = db /\ open = FALSE
  /\ session = NoKey /\ rust = NoKey
  /\ rot = NoRotation
  /\ save = [i \in Items |-> NoSave] /\ attach = [a \in Atts |-> NoKey]
  /\ unlock = NoUnlock /\ enroll = NoPassword
  /\ minted = 1 /\ crossed = {} /\ cut = {}

-----------------------------------------------------------------------------
(* The connection. *)

(* A statement outside a transaction commits by itself. *)
Exec(d) == work' = d /\ db' = IF open THEN db ELSE d
Commit == db' = work /\ work' = work /\ open' = FALSE
Rollback == db' = db /\ work' = db /\ open' = FALSE

-----------------------------------------------------------------------------
(* The session. *)

OpenSession(key) ==
  /\ session' = key
  /\ rust' = IF desktop THEN key ELSE rust

(* verifyMasterPassword from the lock screen.  On the desktop the salt is  *)
(* read first and the hash last; on the web the hash is read first and the *)
(* salt when the key is derived.  The password may come out of a bundle.   *)
StartUnlock(p) ==
  /\ session = NoKey /\ unlock.pc = "idle"
  /\ desktop \/ p = work.pw
  /\ unlock' = [pc |-> "open", pw |-> p, salt |-> IF desktop THEN work.salt ELSE 0]
  /\ Starts("unlock")
  /\ UNCHANGED <<desktop, backend, repo, atts, session, rust, bundle, rot, save, attach,
                 enroll, minted, cut>>

(* Mutant of FinishUnlock: the desktop does not compare the hash. *)
FinishUnlockUnchecked ==
  /\ unlock.pc = "open"
  /\ OpenSession([pw |-> unlock.pw, salt |-> IF desktop THEN unlock.salt ELSE work.salt])
  /\ unlock' = NoUnlock
  /\ UNCHANGED <<desktop, backend, repo, atts, bundle, rot, save, attach, enroll, minted,
                 crossed, cut>>

FinishUnlock ==
  /\ unlock.pc = "open"
  /\ IF desktop /\ unlock.pw # work.pw
     THEN UNCHANGED <<session, rust>>
     ELSE OpenSession([pw |-> unlock.pw,
                       salt |-> IF desktop THEN unlock.salt ELSE work.salt])
  /\ unlock' = NoUnlock
  /\ UNCHANGED <<desktop, backend, repo, atts, bundle, rot, save, attach, enroll, minted,
                 crossed, cut>>

(* closeVaultSession, and close_rust_session behind it. *)
Lock ==
  /\ session # NoKey
  /\ session' = NoKey /\ rust' = NoKey
  /\ UNCHANGED <<desktop, backend, repo, atts, bundle, rot, others, minted, crossed, cut>>

(* Mutant of StartEnroll: the vault key is stored, not the password. *)
StartEnrollKey ==
  /\ session # NoKey /\ enroll = NoPassword
  /\ enroll' = session
  /\ Starts("enroll")
  /\ UNCHANGED <<desktop, backend, repo, atts, session, rust, bundle, rot, save, attach,
                 unlock, minted, cut>>

(* Biometric unlock or a recovery phrase is set up: the password of the    *)
(* session is read, and after the prompt it is stored.                     *)
StartEnroll ==
  /\ session # NoKey /\ enroll = NoPassword
  /\ enroll' = session.pw
  /\ Starts("enroll")
  /\ UNCHANGED <<desktop, backend, repo, atts, session, rust, bundle, rot, save, attach,
                 unlock, minted, cut>>

FinishEnroll ==
  /\ enroll # NoPassword
  /\ bundle' \in {bundle, enroll}
  /\ enroll' = NoPassword
  /\ UNCHANGED <<desktop, backend, repo, atts, session, rust, rot, save, attach, unlock,
                 minted, crossed, cut>>

-----------------------------------------------------------------------------
(* Items. *)

(* withSessionVaultKey hands the save a copy of the key; the row is sealed *)
(* under it before anything is written.                                    *)
StartSave(i) ==
  /\ session # NoKey /\ save[i].pc = "idle"
  /\ save' = [save EXCEPT ![i] = [pc |-> "sealed", key |-> session]]
  /\ Starts("save")
  /\ UNCHANGED <<desktop, backend, repo, atts, session, rust, bundle, rot, attach, unlock,
                 enroll, minted, cut>>

(* wa-sqlite: BEGIN IMMEDIATE, refused inside another caller's transaction *)
(* before the try that rolls back, then the upsert.  No key is verified.   *)
BeginSave(i) ==
  /\ backend = "sqlite" /\ save[i].pc = "sealed"
  /\ IF open
     THEN /\ save' = [save EXCEPT ![i] = NoSave]
          /\ UNCHANGED repo
     ELSE /\ save' = [save EXCEPT ![i].pc = "commit"]
          /\ work' = [work EXCEPT !.rows[i] = save[i].key]
          /\ open' = TRUE /\ db' = db
  /\ UNCHANGED <<desktop, backend, atts, session, rust, bundle, rot, attach, unlock, enroll,
                 minted, crossed, cut>>

EndSave(i) ==
  /\ backend = "sqlite" /\ save[i].pc = "commit"
  /\ Commit \/ Rollback
  /\ save' = [save EXCEPT ![i] = NoSave]
  /\ UNCHANGED <<desktop, backend, atts, session, rust, bundle, rot, attach, unlock, enroll,
                 minted, crossed, cut>>

(* The file repository verifies the stored tag under the key first, and    *)
(* the native write wants a native session.                                *)
FileTakes(key) == key = KeyOf(db) /\ (desktop => rust # NoKey)

SaveFile(i) ==
  /\ backend = "file" /\ save[i].pc = "sealed"
  /\ \/ FileTakes(save[i].key) /\ Exec([work EXCEPT !.rows[i] = save[i].key])
     \/ UNCHANGED <<db, work>>
  /\ save' = [save EXCEPT ![i] = NoSave]
  /\ UNCHANGED <<desktop, backend, open, atts, session, rust, bundle, rot, attach, unlock,
                 enroll, minted, crossed, cut>>

-----------------------------------------------------------------------------
(* Attachments. *)

(* saveAttachment: sealed under the session's key, then put. *)
StartAttach(a) ==
  /\ session # NoKey /\ attach[a] = NoKey
  /\ attach' = [attach EXCEPT ![a] = session]
  /\ Starts("attach")
  /\ UNCHANGED <<desktop, backend, repo, atts, session, rust, bundle, rot, save, unlock,
                 enroll, minted, cut>>

PutAttach(a) ==
  /\ attach[a] # NoKey
  /\ atts' \in {[atts EXCEPT ![a] = attach[a]], atts}
  /\ attach' = [attach EXCEPT ![a] = NoKey]
  /\ UNCHANGED <<desktop, backend, repo, session, rust, bundle, rot, save, unlock, enroll,
                 minted, crossed, cut>>

DeleteAttachment(a) ==
  /\ session # NoKey /\ atts[a] # NoKey
  /\ atts' = [atts EXCEPT ![a] = NoKey]
  /\ UNCHANGED <<desktop, backend, repo, session, rust, bundle, rot, others, minted, crossed,
                 cut>>

-----------------------------------------------------------------------------
(* The change of password. *)

(* handlePasswordChange, with the right current password or a wrong one. *)
AskRotation(guess, new) ==
  /\ session # NoKey /\ rot.pc = "idle" /\ minted < MaxSalt
  /\ rot' = [NoRotation EXCEPT !.pc = "verify", !.old = guess, !.new = new]
  /\ UNCHANGED <<desktop, backend, repo, atts, session, rust, bundle, others, minted, crossed,
                 cut>>

(* The new password is weak or misspelt, or the user declines. *)
Confirmed == rot' \in {[rot EXCEPT !.pc = "change"], NoRotation}

(* Mutant of VerifyOld: the native session is left as it is. *)
VerifyOldInPage ==
  /\ rot.pc = "verify"
  /\ IF rot.old = work.pw
     THEN session' = KeyOf(work) /\ Confirmed
     ELSE rot' = NoRotation /\ UNCHANGED session
  /\ UNCHANGED <<desktop, backend, repo, atts, rust, bundle, others, minted, crossed, cut>>

(* verifyMasterPassword opens the session again when the password is right. *)
VerifyOld ==
  /\ rot.pc = "verify"
  /\ IF rot.old = work.pw
     THEN /\ OpenSession(KeyOf(work))
          /\ Confirmed
     ELSE /\ rot' = NoRotation
          /\ UNCHANGED <<session, rust>>
  /\ UNCHANGED <<desktop, backend, repo, atts, bundle, others, minted, crossed, cut>>

(* The head of changeMasterPassword.  On the desktop rotate_rust_session   *)
(* checks the old password against the native session, and the native      *)
(* session has the new key from then on, whatever happens next.  On the    *)
(* web the repository checks it and the new key is derived from the new    *)
(* password and the current salt.                                          *)
Accepted == IF desktop THEN rust.pw = rot.old ELSE work.pw = rot.old
NewKey == [pw |-> rot.new, salt |-> IF desktop THEN minted + 1 ELSE work.salt]

Prepare ==
  /\ rot.pc = "change"
  /\ rust' = IF desktop /\ Accepted THEN NewKey ELSE rust
  /\ minted' = IF desktop /\ Accepted THEN minted + 1 ELSE minted
  /\ IF Accepted /\ session # NoKey
     THEN /\ rot' = [rot EXCEPT !.pc = "atts", !.oldKey = session, !.newKey = NewKey]
          /\ crossed' = crossed \cup UnderWay
     ELSE rot' = NoRotation /\ UNCHANGED crossed
  /\ UNCHANGED <<desktop, backend, repo, atts, session, bundle, others, cut>>

(* reencryptAttachmentsForVaultKeyChange: all records are read and opened  *)
(* with the old key, one that does not open ends the change; then they are *)
(* written back in one transaction.                                        *)
ReadAttachments ==
  /\ rot.pc = "atts"
  /\ rot' = IF \E a \in Held : atts[a] # rot.oldKey THEN NoRotation
            ELSE [rot EXCEPT !.pc = IF Held = {} THEN "repo" ELSE "puts", !.seen = Held]
  /\ UNCHANGED <<desktop, backend, repo, atts, session, rust, bundle, others, minted, crossed,
                 cut>>

Moved(keys, these, key) == [a \in Atts |-> IF a \in these THEN key ELSE keys[a]]

WriteAttachments ==
  /\ rot.pc = "puts"
  /\ \/ /\ atts' = Moved(atts, rot.seen, rot.newKey)
        /\ rot' = [rot EXCEPT !.pc = "repo"]
     \/ rot' = NoRotation /\ UNCHANGED atts
  /\ UNCHANGED <<desktop, backend, repo, session, rust, bundle, others, minted, crossed, cut>>

(* Mutant of Abandoned: attachments that were moved stay. *)
AbandonedInPlace == NoRotation

(* When the repository fails, attachments that were moved are moved back. *)
Abandoned == IF rot.seen # {} THEN [rot EXCEPT !.pc = "undo"] ELSE NoRotation

(* The file repository: changeMasterPasswordWithHash on the desktop;       *)
(* changeMasterPassword, on the web, refuses every signed vault.           *)
RotateFile ==
  /\ rot.pc = "repo" /\ backend = "file"
  /\ \/ /\ desktop /\ FileTakes(rot.oldKey)
        /\ Exec([pw |-> rot.new, salt |-> rot.newKey.salt,
                 rows |-> [i \in Items |-> IF i \in RowsOf(work) THEN rot.newKey ELSE NoKey]])
        /\ rot' = [rot EXCEPT !.pc = "reopen"]
     \/ rot' = Abandoned /\ UNCHANGED <<db, work>>
  /\ UNCHANGED <<desktop, backend, open, atts, session, rust, bundle, others, minted, crossed,
                 cut>>

(* wa-sqlite reads and opens every row before its transaction; on the web  *)
(* with the key of the old password, and it mints another salt.            *)
ReadRows ==
  /\ rot.pc = "repo" /\ backend = "sqlite"
  /\ LET key == IF desktop THEN rot.oldKey ELSE [pw |-> rot.old, salt |-> work.salt]
         opens == (desktop \/ work.pw = rot.old) /\ \A i \in RowsOf(work) : work.rows[i] = key
         salt == IF desktop THEN rot.newKey.salt ELSE minted + 1 IN
     IF opens
     THEN /\ rot' = [rot EXCEPT !.pc = "begin", !.kept = RowsOf(work),
                                !.target = [pw |-> rot.new, salt |-> salt]]
          /\ minted' = IF desktop THEN minted ELSE minted + 1
     ELSE rot' = Abandoned /\ UNCHANGED minted
  /\ UNCHANGED <<desktop, backend, repo, atts, session, rust, bundle, others, crossed, cut>>

(* Mutant of BeginRotation: the statements are not one transaction. *)
BeginWithoutTransaction ==
  /\ rot.pc = "begin"
  /\ rot' = [rot EXCEPT !.pc = "rekey"]
  /\ work' = [work EXCEPT !.pw = rot.new, !.salt = rot.target.salt]
  /\ db' = work' /\ open' = open
  /\ UNCHANGED <<desktop, backend, atts, session, rust, bundle, others, minted, crossed, cut>>

(* BEGIN IMMEDIATE, then the verifier and the salt. *)
BeginRotation ==
  /\ rot.pc = "begin"
  /\ IF open
     THEN rot' = Abandoned /\ UNCHANGED repo
     ELSE /\ rot' = [rot EXCEPT !.pc = "rekey"]
          /\ work' = [work EXCEPT !.pw = rot.new, !.salt = rot.target.salt]
          /\ open' = TRUE /\ db' = db
  /\ UNCHANGED <<desktop, backend, atts, session, rust, bundle, others, minted, crossed, cut>>

(* All rows are deleted and those that were read are inserted. *)
Rekey ==
  /\ rot.pc = "rekey"
  /\ Exec([work EXCEPT !.rows = [i \in Items |-> IF i \in rot.kept THEN rot.target ELSE NoKey]])
  /\ rot' = [rot EXCEPT !.pc = "commit"]
  /\ UNCHANGED <<desktop, backend, open, atts, session, rust, bundle, others, minted, crossed,
                 cut>>

CommitRotation ==
  /\ rot.pc = "commit"
  /\ Commit
  /\ rot' = [rot EXCEPT !.pc = "reopen"]
  /\ UNCHANGED <<desktop, backend, atts, session, rust, bundle, others, minted, crossed, cut>>

(* Mutant of FailRotation: the error is passed on without a rollback. *)
FailInside ==
  /\ rot.pc \in {"rekey", "commit"}
  /\ rot' = Abandoned
  /\ UNCHANGED <<desktop, backend, repo, atts, session, rust, bundle, others, minted, crossed,
                 cut>>

(* A statement fails and the transaction is rolled back. *)
FailRotation ==
  /\ rot.pc \in {"rekey", "commit"}
  /\ Rollback
  /\ rot' = Abandoned
  /\ UNCHANGED <<desktop, backend, atts, session, rust, bundle, others, minted, crossed, cut>>

(* The undo reads every attachment with the new key; what it throws is     *)
(* swallowed.                                                              *)
Undo ==
  /\ rot.pc = "undo"
  /\ \/ /\ \A a \in Held : atts[a] = rot.newKey
        /\ atts' = Moved(atts, Held, rot.oldKey)
        /\ UNCHANGED cut
     \/ cut' = cut \cup {"attach"} /\ UNCHANGED atts
  /\ rot' = NoRotation
  /\ UNCHANGED <<desktop, backend, repo, session, rust, bundle, others, minted, crossed>>

(* Mutant of Reopen: the bundles are kept. *)
ReopenKeepsBundle ==
  /\ rot.pc = "reopen"
  /\ session' = IF desktop THEN rot.newKey ELSE [pw |-> rot.new, salt |-> work.salt]
  /\ rot' = NoRotation
  /\ UNCHANGED <<desktop, backend, repo, atts, rust, bundle, others, minted, crossed, cut>>

(* The session is opened under the new key, which the web derives again    *)
(* under the salt of the repository, and the bundles are removed.          *)
Reopen ==
  /\ rot.pc = "reopen"
  /\ session' = IF desktop THEN rot.newKey ELSE [pw |-> rot.new, salt |-> work.salt]
  /\ bundle' = NoPassword
  /\ rot' = NoRotation
  /\ UNCHANGED <<desktop, backend, repo, atts, rust, others, minted, crossed, cut>>

Rotate ==
  \/ VerifyOld \/ Prepare \/ ReadAttachments \/ WriteAttachments \/ RotateFile \/ ReadRows
  \/ BeginRotation \/ Rekey \/ CommitRotation \/ FailRotation \/ Undo \/ Reopen

-----------------------------------------------------------------------------
(* The page is closed or reloaded: what is not stored is lost, the         *)
(* database undoes the open transaction.                                   *)
HalfDone ==
  (IF rot.seen # {} /\ rot.pc \in {"repo", "begin", "rekey", "commit", "undo"}
   THEN {"attach"} ELSE {})
    \cup (IF rot.pc = "reopen" THEN {"bundle"} ELSE {})

Crash ==
  /\ MayCrash
  /\ session' = NoKey /\ rust' = NoKey
  /\ Rollback
  /\ rot' = NoRotation
  /\ save' = [i \in Items |-> NoSave] /\ attach' = [a \in Atts |-> NoKey]
  /\ unlock' = NoUnlock /\ enroll' = NoPassword
  /\ cut' = cut \cup HalfDone
  /\ UNCHANGED <<desktop, backend, atts, bundle, minted, crossed>>

Next ==
  \/ \E p \in Passwords : StartUnlock(p)
  \/ FinishUnlock \/ Lock \/ StartEnroll \/ FinishEnroll
  \/ \E i \in Items : StartSave(i) \/ BeginSave(i) \/ EndSave(i) \/ SaveFile(i)
  \/ \E a \in Atts : StartAttach(a) \/ PutAttach(a) \/ DeleteAttachment(a)
  \/ \E guess, new \in Passwords : AskRotation(guess, new)
  \/ Rotate
  \/ Crash

Spec == Init /\ [][Next]_vars

-----------------------------------------------------------------------------
(* Properties. *)

TypeOK ==
  /\ desktop \in BOOLEAN /\ backend \in {"file", "sqlite"} /\ open \in BOOLEAN
  /\ db \in Database /\ work \in Database
  /\ atts \in [Atts -> KeyOrNone]
  /\ session \in KeyOrNone /\ rust \in KeyOrNone
  /\ bundle \in PasswordOrNone /\ enroll \in PasswordOrNone
  /\ rot \in Rotation
  /\ save \in [Items -> Saving] /\ attach \in [Atts -> KeyOrNone]
  /\ unlock \in Unlocking
  /\ minted \in Nat
  /\ crossed \subseteq {"save", "attach", "unlock", "enroll"}
  /\ cut \subseteq {"attach", "bundle"}

(* A stored row opens under the key the stored verifier and salt stand     *)
(* for, at every moment, so also after a crash in the middle of a change   *)
(* of password; in wa-sqlite unless a save or an unlock overlapped one     *)
(* (waSqliteVaultStorageRepository.ts:230-262).                            *)
RowsReadable ==
  (backend = "file" \/ crossed \cap {"save", "unlock"} = {}) =>
    \A i \in RowsOf(db) : db.rows[i] = KeyOf(db)

(* A transaction that is open has exactly one caller that will end it: no  *)
(* error path leaves the connection inside one, where every later write    *)
(* would be refused.                                                       *)
TransactionOwned ==
  open => Cardinality({i \in Items : save[i].pc = "commit"}
                        \cup {r \in {rot} : r.pc \in {"rekey", "commit"}}) = 1

(* Between two changes of password the attachments open under the key of   *)
(* the vault, on the desktop and wherever the repository refused the       *)
(* change: attachments that were moved first are moved back.               *)
AttachmentsFollowVault ==
  ( /\ ~Rotating
    /\ desktop \/ backend = "file"
    /\ crossed \cap {"attach", "unlock"} = {} /\ "attach" \notin cut )
  => \A a \in Held : atts[a] = KeyOf(db)

(* The key of the session is the key of the vault, and a change of         *)
(* password asked for with the right password is never refused by a native *)
(* session that an earlier, failed change has moved on.                    *)
SessionFollowsVault ==
  ("unlock" \notin crossed /\ ~Rotating) =>
    /\ session \in {NoKey, KeyOf(db)}
    /\ rot.pc = "change" => rust \in {NoKey, KeyOf(db)}

(* A bundle holds the password of the vault: a change of password removes  *)
(* the ones that hold the previous password (storage.ts:560-567).          *)
BundleIsCurrent ==
  ( /\ rot.pc # "reopen"
    /\ crossed \cap {"enroll", "unlock"} = {} /\ "bundle" \notin cut )
  => bundle \in {NoPassword, db.pw}

(* A session is opened only under the password the vault has at that       *)
(* moment, wherever the password came from.                                *)
OnlyTheCurrentPasswordOpens ==
  [][("unlock" \notin crossed /\ session' \notin {session, NoKey})
       => session'.pw = db.pw]_vars

(* "the caller supplies the *new* vault key derived from the rotated       *)
(* master password" (attachments.ts:345-355): after a change of password   *)
(* that nothing disturbed, the attachments open under the vault's key.     *)
AttachmentsReadable ==
  (rot.pc = "idle" /\ crossed = {} /\ cut = {}) => \A a \in Held : atts[a] = KeyOf(db)
===============================================================================
