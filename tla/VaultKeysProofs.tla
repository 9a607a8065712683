--------------------------- MODULE VaultKeysProofs ----------------------------
(***************************************************************************)
(* Proofs about VaultKeys, for any items, attachments and passwords, both  *)
(* runtimes and repositories, and any bounds.                              *)
(***************************************************************************)
EXTENDS VaultKeys, FiniteSetTheorems, TLAPS

USE DEF repo, others

(* A rotation or an unlock that runs has a password. *)
Named ==
  /\ rot.pc # "idle" => rot.new \in Passwords
  /\ unlock.pc = "open" => unlock.pw \in Passwords

LEMMA Domains ==
  /\ NoKey \in KeyOrNone /\ NoRotation \in Rotation /\ NoSave \in Saving /\ NoUnlock \in Unlocking
  BY DEF NoKey, KeyOrNone, NoRotation, Rotation, NoSave, Saving, NoUnlock, Unlocking, PasswordOrNone

LEMMA KeyType ==
  /\ \A p \in Passwords, n \in Nat : [pw |-> p, salt |-> n] \in KeyOrNone
  /\ \A d \in Database : KeyOf(d) \in Keys /\ KeyOf(d) \in KeyOrNone
  /\ \A k \in KeyOrNone : k.pw \in PasswordOrNone /\ k.salt \in Nat
  BY DEF KeyOrNone, Keys, KeyOf, Database, NoKey, PasswordOrNone

LEMMA TypeInit == ASSUME Init PROVE TypeOK /\ Named
  <1> USE KeysAssumption DEF KeysAssumption
  <1>1. PICK p \in Passwords :
          LET key == [pw |-> p, salt |-> 1] IN
          /\ \E rows \in [Items -> {key, NoKey}] : db = [pw |-> p, salt |-> 1, rows |-> rows]
          /\ atts \in [Atts -> {key, NoKey}]
          /\ bundle \in {NoPassword, p}
    BY DEF Init
  <1>2. [pw |-> p, salt |-> 1] \in KeyOrNone
    BY KeyType
  <1>3. db \in Database /\ atts \in [Atts -> KeyOrNone] /\ bundle \in PasswordOrNone
    BY <1>1, <1>2, Domains DEF Database, PasswordOrNone
  <1> QED
    BY <1>3, Domains DEF Init, TypeOK, Named, PasswordOrNone, NoRotation, NoUnlock

LEMMA RowsType ==
  ASSUME NEW d \in Database, NEW i \in Items, NEW key \in KeyOrNone
  PROVE  /\ [d EXCEPT !.rows[i] = key] \in Database
         /\ [d EXCEPT !.rows[i] = key] = [d EXCEPT !.rows = [d.rows EXCEPT ![i] = key]]
         /\ [d EXCEPT !.rows[i] = key].rows = [d.rows EXCEPT ![i] = key]
         /\ KeyOf([d EXCEPT !.rows[i] = key]) = KeyOf(d)
  BY DEF Database, KeyOf

LEMMA ExecType ==
  ASSUME NEW d \in Database, db \in Database, Exec(d)
  PROVE  db' \in Database /\ work' \in Database
  BY DEF Exec

LEMMA StartsType ==
  ASSUME TypeOK, NEW kind \in {"save", "attach", "unlock", "enroll"}, Starts(kind)
  PROVE  crossed' \subseteq {"save", "attach", "unlock", "enroll"}
  BY DEF TypeOK, Starts

LEMMA TypeStep ==
  ASSUME TypeOK, Named, [Next]_vars
  PROVE  TypeOK' /\ Named'
  <1> USE Domains, KeyType, KeysAssumption DEF KeysAssumption, Named
  <1>1. CASE UNCHANGED vars
    BY <1>1 DEF TypeOK, vars
  <1>2. ASSUME NEW p \in Passwords, StartUnlock(p) PROVE TypeOK' /\ Named'
    <2>1. unlock' \in Unlocking /\ unlock'.pw \in Passwords
      BY <1>2 DEF StartUnlock, Unlocking, TypeOK, PasswordOrNone, Database
    <2> QED
      BY <1>2, <2>1, StartsType DEF StartUnlock, TypeOK
  <1>3. CASE FinishUnlock
    <2>1. session' \in KeyOrNone /\ rust' \in KeyOrNone
      BY <1>3 DEF FinishUnlock, OpenSession, TypeOK, Unlocking, Database
    <2> QED
      BY <1>3, <2>1 DEF FinishUnlock, TypeOK, NoUnlock
  <1>4. CASE Lock
    BY <1>4 DEF Lock, TypeOK
  <1>5. CASE StartEnroll
    BY <1>5, StartsType DEF StartEnroll, TypeOK
  <1>6. CASE FinishEnroll
    BY <1>6 DEF FinishEnroll, TypeOK, PasswordOrNone
  <1>7. ASSUME NEW i \in Items, StartSave(i) PROVE TypeOK' /\ Named'
    BY <1>7, StartsType DEF StartSave, TypeOK, Saving
  <1>8. ASSUME NEW i \in Items, BeginSave(i) PROVE TypeOK' /\ Named'
    <2>1. save[i].key \in KeyOrNone /\ save' \in [Items -> Saving]
      <3>1. save \in [Items -> Saving] /\ NoSave \in Saving
        BY DEF TypeOK, NoSave, Saving
      <3>2. save[i].key \in KeyOrNone /\ [save[i] EXCEPT !.pc = "commit"] \in Saving
        BY <3>1 DEF Saving
      <3>3. save' = [save EXCEPT ![i] = NoSave] \/ save' = [save EXCEPT ![i].pc = "commit"]
        BY <1>8 DEF BeginSave
      <3> QED
        BY <3>1, <3>2, <3>3
    <2>2. work' \in Database /\ db' \in Database /\ open' \in BOOLEAN
      <3>1. CASE open
        BY <1>8, <3>1 DEF BeginSave, TypeOK
      <3>2. CASE ~open
        <4>1. work' = [work EXCEPT !.rows[i] = save[i].key] /\ open' = TRUE /\ db' = db
          BY <1>8, <3>2 DEF BeginSave
        <4>2. work \in Database /\ db \in Database
          BY DEF TypeOK
        <4> QED
          BY <2>1, <4>1, <4>2, RowsType
      <3> QED
        BY <3>1, <3>2
    <2> QED
      BY <1>8, <2>1, <2>2 DEF BeginSave, TypeOK
  <1>9. ASSUME NEW i \in Items, EndSave(i) PROVE TypeOK' /\ Named'
    BY <1>9 DEF EndSave, Commit, Rollback, TypeOK
  <1>10. ASSUME NEW i \in Items, SaveFile(i) PROVE TypeOK' /\ Named'
    <2>1. save[i].key \in KeyOrNone /\ save' \in [Items -> Saving]
      BY <1>10 DEF SaveFile, TypeOK, Saving
    <2>2. work' \in Database /\ db' \in Database
      BY <1>10, <2>1, RowsType, ExecType DEF SaveFile, TypeOK
    <2> QED
      BY <1>10, <2>1, <2>2 DEF SaveFile, TypeOK
  <1>11. ASSUME NEW a \in Atts, StartAttach(a) PROVE TypeOK' /\ Named'
    BY <1>11, StartsType DEF StartAttach, TypeOK
  <1>12. ASSUME NEW a \in Atts, PutAttach(a) PROVE TypeOK' /\ Named'
    BY <1>12 DEF PutAttach, TypeOK
  <1>13. ASSUME NEW a \in Atts, DeleteAttachment(a) PROVE TypeOK' /\ Named'
    BY <1>13 DEF DeleteAttachment, TypeOK
  <1>14. ASSUME NEW guess \in Passwords, NEW new \in Passwords, AskRotation(guess, new)
         PROVE  TypeOK' /\ Named'
    BY <1>14 DEF AskRotation, TypeOK, NoRotation, Rotation, PasswordOrNone
  <1>15. CASE VerifyOld
    BY <1>15 DEF VerifyOld, Confirmed, OpenSession, TypeOK, Rotation, NoRotation
  <1>16. CASE Prepare
    <2>1. NewKey \in KeyOrNone
      BY <1>16 DEF Prepare, NewKey, TypeOK, Database
    <2>2. rot' \in Rotation /\ (rot'.pc # "idle" => rot'.new \in Passwords)
      <3>1. /\ rot \in Rotation /\ session \in KeyOrNone /\ rot.pc = "change"
            /\ rot.new \in Passwords
        BY <1>16 DEF Prepare, TypeOK
      <3>2. \/ rot' = [rot EXCEPT !.pc = "atts", !.oldKey = session, !.newKey = NewKey]
            \/ rot' = NoRotation
        BY <1>16 DEF Prepare
      <3> QED
        BY <2>1, <3>1, <3>2 DEF Rotation, NoRotation
    <2>3. crossed' \subseteq {"save", "attach", "unlock", "enroll"}
      BY <1>16 DEF Prepare, TypeOK, UnderWay
    <2> QED
      BY <1>16, <2>1, <2>2, <2>3 DEF Prepare, TypeOK
  <1>17. CASE ReadAttachments
    <2>1. rot' \in Rotation /\ (rot'.pc # "idle" => rot'.new \in Passwords)
      BY <1>17 DEF ReadAttachments, TypeOK, Rotation, NoRotation, Held
    <2> QED
      BY <1>17, <2>1 DEF ReadAttachments, TypeOK
  <1>18. CASE WriteAttachments
    <2>1. Moved(atts, rot.seen, rot.newKey) \in [Atts -> KeyOrNone]
      BY DEF Moved, TypeOK, Rotation
    <2> QED
      BY <1>18, <2>1 DEF WriteAttachments, TypeOK, Rotation, NoRotation
  <1>19. Abandoned \in Rotation /\ (rot.pc # "idle" /\ Abandoned.pc # "idle" => Abandoned.new \in Passwords)
    BY DEF Abandoned, TypeOK, Rotation, NoRotation
  <1>20. CASE RotateFile
    <2>1. [pw |-> rot.new, salt |-> rot.newKey.salt,
           rows |-> [i \in Items |-> IF i \in RowsOf(work) THEN rot.newKey ELSE NoKey]] \in Database
      BY <1>20 DEF RotateFile, Database, TypeOK, Rotation
    <2>2. work' \in Database /\ db' \in Database
      BY <1>20, <2>1, ExecType DEF RotateFile, TypeOK
    <2>3. rot' \in Rotation /\ (rot'.pc # "idle" => rot'.new \in Passwords)
      BY <1>19, <1>20 DEF RotateFile, TypeOK, Rotation
    <2> QED
      BY <1>20, <2>2, <2>3 DEF RotateFile, TypeOK
  <1>21. CASE ReadRows
    <2>1. RowsOf(work) \in SUBSET Items
      BY DEF RowsOf
    <2>2. ASSUME NEW salt \in Nat,
                 rot' = [rot EXCEPT !.pc = "begin", !.kept = RowsOf(work),
                                    !.target = [pw |-> rot.new, salt |-> salt]]
          PROVE  rot' \in Rotation /\ rot'.new \in Passwords
      BY <1>21, <2>1, <2>2 DEF ReadRows, TypeOK, Rotation
    <2>3. ASSUME rot' = Abandoned
          PROVE  rot' \in Rotation /\ (rot'.pc # "idle" => rot'.new \in Passwords)
      BY <1>19, <1>21, <2>3 DEF ReadRows
    <2>4. rot.newKey.salt \in Nat /\ minted + 1 \in Nat
      BY DEF TypeOK, Rotation
    <2>5. /\ rot' \in Rotation /\ (rot'.pc # "idle" => rot'.new \in Passwords)
          /\ minted' \in Nat
      BY <1>21, <2>2, <2>3, <2>4 DEF ReadRows, TypeOK
    <2> QED
      BY <1>21, <2>5 DEF ReadRows, TypeOK
  <1>22. CASE BeginRotation
    <2>1. rot' \in Rotation /\ (rot'.pc # "idle" => rot'.new \in Passwords)
      BY <1>19, <1>22 DEF BeginRotation, TypeOK, Rotation
    <2>2. work' \in Database /\ db' \in Database /\ open' \in BOOLEAN
      BY <1>22 DEF BeginRotation, TypeOK, Rotation, Database
    <2> QED
      BY <1>22, <2>1, <2>2 DEF BeginRotation, TypeOK
  <1>23. CASE Rekey
    <2>1. [work EXCEPT !.rows = [i \in Items |-> IF i \in rot.kept THEN rot.target ELSE NoKey]] \in Database
      BY DEF TypeOK, Rotation, Database
    <2>2. work' \in Database /\ db' \in Database
      BY <1>23, <2>1, ExecType DEF Rekey, TypeOK
    <2> QED
      BY <1>23, <2>2 DEF Rekey, TypeOK, Rotation
  <1>24. CASE CommitRotation
    BY <1>24 DEF CommitRotation, Commit, TypeOK, Rotation
  <1>25. CASE FailRotation
    BY <1>19, <1>25 DEF FailRotation, Rollback, TypeOK
  <1>26. CASE Undo
    <2>1. Moved(atts, Held, rot.oldKey) \in [Atts -> KeyOrNone]
      BY DEF Moved, TypeOK, Rotation
    <2> QED
      BY <1>26, <2>1 DEF Undo, TypeOK, NoRotation
  <1>27. CASE Reopen
    <2>1. session' \in KeyOrNone /\ bundle' \in PasswordOrNone
      BY <1>27 DEF Reopen, TypeOK, Rotation, Database, PasswordOrNone
    <2> QED
      BY <1>27, <2>1 DEF Reopen, TypeOK, NoRotation
  <1>28. CASE Crash
    <2>1. HalfDone \subseteq {"attach", "bundle"}
      BY DEF HalfDone
    <2> QED
      BY <1>28, <2>1 DEF Crash, Rollback, TypeOK, NoRotation, NoUnlock, PasswordOrNone
  <1> QED
    BY <1>1, <1>2, <1>3, <1>4, <1>5, <1>6, <1>7, <1>8, <1>9, <1>10, <1>11, <1>12, <1>13, <1>14,
       <1>15, <1>16, <1>17, <1>18, <1>20, <1>21, <1>22, <1>23, <1>24, <1>25, <1>26, <1>27, <1>28
    DEF Next, Rotate

LEMMA TypedAlways == Spec => [](TypeOK /\ Named)
  <1> QED
    BY TypeInit, TypeStep, PTL DEF Spec

(* Every reachable state is well typed. *)
THEOREM KeysTyped == Spec => []TypeOK
  <1> QED
    BY TypedAlways, PTL

-----------------------------------------------------------------------------
(* The strengthening.  The connection: whoever is inside the transaction   *)
(* is alone and ends it, and outside of it nothing is uncommitted.         *)
Inside(i) == save[i].pc = "commit"
Rekeying == rot.pc \in {"rekey", "commit"}

Connection ==
  /\ \A i, j \in Items : Inside(i) /\ Inside(j) => i = j
  /\ \A i \in Items : Inside(i) => open /\ ~Rekeying
  /\ Rekeying => open
  /\ open => Rekeying \/ \E i \in Items : Inside(i)
  /\ ~open => work = db
  /\ backend = "file" => ~open /\ rot.pc # "begin"

(* The key of the repository while a change of password runs.              *)
Keying ==
  /\ ~desktop => rust = NoKey
  /\ Rotating => rot.newKey.pw = rot.new
  /\ rot.pc = "begin" \/ Rekeying
       => rot.target.pw = rot.new /\ (desktop => rot.target = rot.newKey)
  /\ KeyOf(work) = IF Rekeying THEN rot.target ELSE KeyOf(db)
  /\ rot.pc = "reopen" => db.pw = rot.new /\ (desktop => KeyOf(db) = rot.newKey)
  /\ rot.pc = "reopen" /\ backend = "file" => desktop

(* What overlaps a change of password is on record ...                     *)
Overlaps ==
  Rotating =>
    /\ "save" \notin crossed => \A i \in Items : save[i].pc = "idle"
    /\ "attach" \notin crossed => \A a \in Atts : attach[a] = NoKey
    /\ "unlock" \notin crossed => unlock.pc = "idle"
    /\ "enroll" \notin crossed => enroll = NoPassword

(* ... and what does not has the key that is current.                      *)
Current ==
  "unlock" \notin crossed =>
    /\ rot.pc # "reopen" => session \in {NoKey, KeyOf(db)}
    /\ rot.pc = "change" => rust \in {NoKey, KeyOf(db)}
    /\ Rotating /\ rot.pc # "reopen" => rot.oldKey = KeyOf(db)
    /\ unlock.pc = "open" => IF desktop THEN unlock.salt = db.salt ELSE unlock.pw = db.pw
    /\ "save" \notin crossed => \A i \in Items : save[i].pc # "idle" => save[i].key = KeyOf(db)
    /\ "attach" \notin crossed => \A a \in Atts : attach[a] \in {NoKey, KeyOf(db)}
    /\ "enroll" \notin crossed => enroll \in {NoPassword, db.pw}

(* The rows, committed and not.                                            *)
Readable(d) == \A i \in Items : d.rows[i] \in {NoKey, KeyOf(d)}
Rows ==
  backend = "file" \/ crossed \cap {"save", "unlock"} = {} =>
    Readable(db) /\ (rot.pc # "rekey" => Readable(work))

(* Where the attachments are on their way.                                 *)
Under(key) == \A a \in Atts : atts[a] \in {NoKey, key}
Attachments ==
  /\ rot.pc = "undo" => rot.seen # {}
  /\ (desktop \/ backend = "file") /\ crossed \cap {"attach", "unlock"} = {} /\ "attach" \notin cut
     => /\ rot.pc \in {"idle", "verify", "change", "atts", "puts"} => Under(KeyOf(db))
        /\ rot.pc = "puts" => Held \subseteq rot.seen
        /\ rot.pc \in {"repo", "begin", "rekey", "commit"} =>
             IF rot.seen = {} THEN Held = {} ELSE Under(rot.newKey)
        /\ rot.pc \in {"undo", "reopen"} => Under(rot.newKey)

KeysInv ==
  Connection /\ Keying /\ Overlaps /\ Current /\ Rows /\ Attachments /\ BundleIsCurrent

LEMMA Rest ==
  ASSUME TypeOK
  PROVE  /\ KeyOf(db) \in Keys /\ KeyOf(work) \in Keys /\ NoKey \notin Keys
         /\ db.pw \in Passwords /\ NoPassword \notin Passwords
         /\ Abandoned.pc \in {"idle", "undo"}
  BY KeyType, KeysAssumption DEF TypeOK, NoKey, Keys, Database, Abandoned, NoRotation, KeysAssumption

(* Steps that touch neither the repository nor the change of password.     *)
Aside ==
  \/ \E p \in Passwords : StartUnlock(p)
  \/ FinishUnlock \/ Lock \/ StartEnroll \/ FinishEnroll
  \/ \E i \in Items : StartSave(i)
  \/ \E a \in Atts : StartAttach(a) \/ PutAttach(a) \/ DeleteAttachment(a)
  \/ UNCHANGED vars

LEMMA AsideFrame ==
  ASSUME Aside
  PROVE  UNCHANGED <<desktop, backend, db, work, open, rot, cut, minted>>
  BY DEF Aside, StartUnlock, FinishUnlock, Lock, StartEnroll, FinishEnroll, StartSave, StartAttach,
     PutAttach, DeleteAttachment, vars

LEMMA NextCases ==
  ASSUME [Next]_vars
  PROVE  \/ Aside
         \/ \E i \in Items : BeginSave(i) \/ EndSave(i) \/ SaveFile(i)
         \/ \E guess, new \in Passwords : AskRotation(guess, new)
         \/ Rotate
         \/ Crash
  BY Zenon DEF Next, Aside

LEMMA PrepareCases ==
  ASSUME TypeOK, Prepare
  PROVE  \/ rot' = NoRotation /\ UNCHANGED crossed
         \/ /\ session # NoKey /\ crossed' = crossed \cup UnderWay
            /\ rot'.pc = "atts" /\ rot'.new = rot.new
            /\ rot'.oldKey = session /\ rot'.newKey.pw = rot'.new
  <1>1. CASE Accepted /\ session # NoKey
    <2>1. /\ rot' = [rot EXCEPT !.pc = "atts", !.oldKey = session, !.newKey = NewKey]
          /\ crossed' = crossed \cup UnderWay
      BY <1>1 DEF Prepare
    <2>2. NewKey.pw = rot.new
      BY DEF NewKey
    <2> QED
      BY <1>1, <2>1, <2>2 DEF TypeOK, Rotation
  <1>2. CASE ~(Accepted /\ session # NoKey)
    BY <1>2 DEF Prepare
  <1> QED
    BY <1>1, <1>2

LEMMA ConnectionStep ==
  ASSUME TypeOK, Connection, [Next]_vars
  PROVE  Connection'
  <1> USE Rest DEF Inside, Rekeying
  <1>1. CASE Aside
    <2>1. ASSUME NEW i \in Items PROVE save'[i].pc = "commit" <=> save[i].pc = "commit"
      BY <1>1 DEF Aside, StartUnlock, FinishUnlock, Lock, StartEnroll, FinishEnroll, StartSave,
         StartAttach, PutAttach, DeleteAttachment, vars, TypeOK
    <2> QED
      BY <1>1, <2>1, AsideFrame DEF Connection
  <1>2. ASSUME NEW i \in Items, BeginSave(i) PROVE Connection'
    <2>1. CASE open
      <3>1. save' = [save EXCEPT ![i] = NoSave] /\ UNCHANGED <<backend, repo, rot>>
        BY <1>2, <2>1 DEF BeginSave
      <3> QED
        BY <1>2, <2>1, <3>1 DEF BeginSave, Connection, TypeOK, NoSave
    <2>2. CASE ~open
      <3>1. /\ save' = [save EXCEPT ![i].pc = "commit"] /\ open' = TRUE
            /\ backend = "sqlite" /\ UNCHANGED <<backend, rot>>
        BY <1>2, <2>2 DEF BeginSave
      <3>2. \A j \in Items : save'[j].pc = "commit" <=> j = i
        BY <2>2, <3>1 DEF Connection, TypeOK, Saving
      <3> QED
        BY <2>2, <3>1, <3>2 DEF Connection
    <2> QED
      BY <2>1, <2>2
  <1>3. ASSUME NEW i \in Items, EndSave(i) PROVE Connection'
    BY <1>3 DEF EndSave, Commit, Rollback, Connection, TypeOK, NoSave
  <1>4. ASSUME NEW i \in Items, SaveFile(i) PROVE Connection'
    BY <1>4 DEF SaveFile, Exec, Connection, TypeOK, NoSave
  <1>5. ASSUME NEW guess \in Passwords, NEW new \in Passwords, AskRotation(guess, new)
        PROVE  Connection'
    BY <1>5 DEF AskRotation, Connection, NoRotation
  <1>6. CASE VerifyOld \/ Prepare \/ ReadAttachments \/ WriteAttachments \/ Undo \/ Reopen
    <2> DEFINE Outside == /\ ~Rekeying /\ rot'.pc \notin {"begin", "rekey", "commit"}
                          /\ UNCHANGED <<backend, repo, save>>
    <2>1. CASE VerifyOld
      <3> Outside
        BY <2>1 DEF VerifyOld, Confirmed, TypeOK, Rotation, NoRotation
      <3> QED
        BY DEF Connection
    <2>2. CASE Prepare
      <3> Outside
        <4>1. rot.pc = "change" /\ UNCHANGED <<backend, repo, save>>
          BY <2>2 DEF Prepare
        <4>2. rot'.pc \in {"atts", "idle"}
          BY <2>2, PrepareCases DEF NoRotation
        <4> QED
          BY <4>1, <4>2
      <3> QED
        BY DEF Connection
    <2>3. CASE ReadAttachments
      <3> Outside
        BY <2>3 DEF ReadAttachments, TypeOK, Rotation, NoRotation
      <3> QED
        BY DEF Connection
    <2>4. CASE WriteAttachments
      <3> Outside
        BY <2>4 DEF WriteAttachments, TypeOK, Rotation, NoRotation
      <3> QED
        BY DEF Connection
    <2>5. CASE Undo \/ Reopen
      <3> Outside
        BY <2>5 DEF Undo, Reopen, TypeOK, Rotation, NoRotation
      <3> QED
        BY DEF Connection
    <2> QED
      BY <1>6, <2>1, <2>2, <2>3, <2>4, <2>5
  <1>7. CASE RotateFile
    <2>1. rot'.pc \notin {"begin", "rekey", "commit"}
      BY <1>7 DEF RotateFile, TypeOK, Rotation
    <2> QED
      BY <1>7, <2>1 DEF RotateFile, Exec, Connection
  <1>8. CASE ReadRows
    <2>1. rot'.pc \in {"begin", "idle", "undo"}
      BY <1>8 DEF ReadRows, TypeOK, Rotation
    <2> QED
      BY <1>8, <2>1 DEF ReadRows, Connection
  <1>9. CASE BeginRotation
    <2>1. CASE open
      BY <1>9, <2>1 DEF BeginRotation, Connection
    <2>2. CASE ~open
      <3>1. rot'.pc = "rekey" /\ open' = TRUE /\ backend # "file" /\ UNCHANGED <<save, backend>>
        BY <1>9, <2>2 DEF BeginRotation, TypeOK, Rotation, Connection
      <3> QED
        BY <2>2, <3>1 DEF Connection
    <2> QED
      BY <2>1, <2>2
  <1>10. CASE Rekey
    <2>1. rot'.pc = "commit"
      BY <1>10 DEF Rekey, TypeOK, Rotation
    <2> QED
      BY <1>10, <2>1 DEF Rekey, Exec, Connection
  <1>11. CASE CommitRotation
    <2>1. rot'.pc = "reopen"
      BY <1>11 DEF CommitRotation, TypeOK, Rotation
    <2> QED
      BY <1>11, <2>1 DEF CommitRotation, Commit, Connection
  <1>12. CASE FailRotation
    BY <1>12 DEF FailRotation, Rollback, Connection
  <1>13. CASE Crash
    BY <1>13 DEF Crash, Rollback, Connection, NoSave, NoRotation
  <1> QED
    BY <1>1, <1>2, <1>3, <1>4, <1>5, <1>6, <1>7, <1>8, <1>9, <1>10, <1>11, <1>12, <1>13, NextCases
    DEF Rotate

LEMMA KeyingStep ==
  ASSUME TypeOK, Named, Connection, Keying, [Next]_vars
  PROVE  Keying'
  <1> USE Rest DEF Rekeying, Rotating, KeyOf
  <1>1. CASE Aside
    <2>1. ~desktop => rust' = NoKey
      BY <1>1 DEF Aside, StartUnlock, FinishUnlock, OpenSession, Lock, StartEnroll, FinishEnroll,
         StartSave, StartAttach, PutAttach, DeleteAttachment, vars, Keying
    <2> QED
      BY <1>1, <2>1, AsideFrame DEF Keying
  <1>2. ASSUME NEW i \in Items, BeginSave(i) PROVE Keying'
    <2>1. KeyOf(work') = KeyOf(work)
      BY <1>2 DEF BeginSave, TypeOK, Database
    <2> QED
      BY <1>2, <2>1 DEF BeginSave, Keying
  <1>3. ASSUME NEW i \in Items, EndSave(i) PROVE Keying'
    <2>1. ~Rekeying
      BY <1>3 DEF EndSave, Connection, Inside
    <2> QED
      BY <1>3, <2>1 DEF EndSave, Commit, Rollback, Keying
  <1>4. ASSUME NEW i \in Items, SaveFile(i) PROVE Keying'
    <2>1. KeyOf(work') = KeyOf(work) /\ KeyOf(db') = KeyOf(db)
      BY <1>4 DEF SaveFile, Exec, TypeOK, Database, Connection
    <2> QED
      BY <1>4, <2>1 DEF SaveFile, Keying
  <1>5. ASSUME NEW guess \in Passwords, NEW new \in Passwords, AskRotation(guess, new)
        PROVE  Keying'
    BY <1>5 DEF AskRotation, Keying, NoRotation
  <1>6. CASE VerifyOld
    BY <1>6 DEF VerifyOld, Confirmed, OpenSession, Keying, NoRotation, TypeOK, Rotation
  <1>7. CASE Prepare
    <2>1. ~desktop => rust' = NoKey
      BY <1>7 DEF Prepare, Keying
    <2>2. \/ rot' = NoRotation
          \/ rot'.pc = "atts" /\ rot'.newKey.pw = rot'.new
      BY <1>7, PrepareCases
    <2> QED
      BY <1>7, <2>1, <2>2 DEF Prepare, Keying, NoRotation
  <1>8. CASE ReadAttachments \/ WriteAttachments \/ Undo
    <2>1. CASE ReadAttachments
      <3>1. \/ rot' = NoRotation
            \/ rot'.pc \in {"puts", "repo"} /\ rot'.newKey = rot.newKey /\ rot'.new = rot.new
        BY <2>1 DEF ReadAttachments, TypeOK, Rotation
      <3> QED
        BY <2>1, <3>1 DEF ReadAttachments, Keying, NoRotation
    <2>2. CASE WriteAttachments
      <3>1. \/ rot' = NoRotation
            \/ rot'.pc = "repo" /\ rot'.newKey = rot.newKey /\ rot'.new = rot.new
        BY <2>2 DEF WriteAttachments, TypeOK, Rotation
      <3> QED
        BY <2>2, <3>1 DEF WriteAttachments, Keying, NoRotation
    <2>3. CASE Undo
      BY <2>3 DEF Undo, Keying, NoRotation
    <2> QED
      BY <1>8, <2>1, <2>2, <2>3
  <1>9. CASE Reopen
    BY <1>9 DEF Reopen, Keying, NoRotation
  <1>10. ASSUME rot.pc \notin {"idle", "verify", "change"}, Keying
         PROVE  Abandoned.pc # "idle" => Abandoned.newKey.pw = Abandoned.new
    BY <1>10 DEF Abandoned, Keying, NoRotation, TypeOK, Rotation
  <1>11. CASE RotateFile
    <2>1. CASE rot' = Abandoned /\ UNCHANGED <<db, work>>
      BY <1>10, <1>11, <2>1 DEF RotateFile, Keying
    <2>2. CASE /\ desktop
               /\ Exec([pw |-> rot.new, salt |-> rot.newKey.salt,
                        rows |-> [i \in Items |-> IF i \in RowsOf(work) THEN rot.newKey ELSE NoKey]])
               /\ rot' = [rot EXCEPT !.pc = "reopen"]
      <3>1. ~open
        BY <1>11 DEF RotateFile, Connection
      <3>2. db'.pw = rot.new /\ db'.salt = rot.newKey.salt /\ work' = db'
        BY <2>2, <3>1 DEF Exec
      <3>3. rot'.pc = "reopen" /\ rot'.new = rot.new /\ rot'.newKey = rot.newKey
        BY <2>2 DEF TypeOK, Rotation
      <3>4. rot.newKey = [pw |-> rot.new, salt |-> rot.newKey.salt]
        BY <1>11 DEF RotateFile, Keying, TypeOK, Rotation, KeyOrNone, Keys, NoKey
      <3> QED
        BY <1>11, <2>2, <3>2, <3>3, <3>4 DEF RotateFile, Keying
    <2> QED
      BY <1>11, <2>1, <2>2 DEF RotateFile
  <1>12. CASE ReadRows
    <2>1. CASE rot' = Abandoned
      BY <1>10, <1>12, <2>1 DEF ReadRows, Keying
    <2>2. CASE \E salt \in {rot.newKey.salt, minted + 1} :
                 /\ desktop => salt = rot.newKey.salt
                 /\ rot' = [rot EXCEPT !.pc = "begin", !.kept = RowsOf(work),
                                       !.target = [pw |-> rot.new, salt |-> salt]]
      <3>1. rot.newKey = [pw |-> rot.new, salt |-> rot.newKey.salt]
        BY <1>12 DEF ReadRows, Keying, TypeOK, Rotation, KeyOrNone, Keys, NoKey
      <3>2. /\ rot'.pc = "begin" /\ rot'.new = rot.new /\ rot'.newKey = rot.newKey
            /\ rot'.target.pw = rot.new /\ (desktop => rot'.target = rot.newKey)
        BY <2>2, <3>1 DEF TypeOK, Rotation
      <3> QED
        BY <1>12, <3>1, <3>2 DEF ReadRows, Keying
    <2> QED
      BY <1>12, <2>1, <2>2 DEF ReadRows
  <1>13. CASE BeginRotation
    <2>1. CASE open
      BY <1>10, <1>13, <2>1 DEF BeginRotation, Keying
    <2>2. CASE ~open
      <3>1. /\ rot' = [rot EXCEPT !.pc = "rekey"]
            /\ work' = [work EXCEPT !.pw = rot.new, !.salt = rot.target.salt] /\ db' = db
        BY <1>13, <2>2 DEF BeginRotation
      <3>2. /\ rot'.pc = "rekey" /\ rot'.new = rot.new /\ rot'.newKey = rot.newKey
            /\ rot'.target = rot.target
        BY <3>1 DEF TypeOK, Rotation
      <3>3. rot.target = [pw |-> rot.new, salt |-> rot.target.salt]
        BY <1>13 DEF BeginRotation, Keying, TypeOK, Rotation, KeyOrNone, Keys, NoKey
      <3>4. work'.pw = rot.new /\ work'.salt = rot.target.salt
        BY <3>1 DEF TypeOK, Database
      <3> QED
        BY <1>13, <3>1, <3>2, <3>3, <3>4 DEF BeginRotation, Keying
    <2> QED
      BY <2>1, <2>2
  <1>14. CASE Rekey
    <2>1. /\ rot'.pc = "commit" /\ rot'.new = rot.new /\ rot'.newKey = rot.newKey
          /\ rot'.target = rot.target
      BY <1>14 DEF Rekey, TypeOK, Rotation
    <2>2. KeyOf(work') = KeyOf(work)
      BY <1>14 DEF Rekey, Exec, TypeOK, Database
    <2> QED
      BY <1>14, <2>1, <2>2 DEF Rekey, Keying
  <1>15. CASE CommitRotation
    <2>1. rot'.pc = "reopen" /\ rot'.new = rot.new /\ rot'.newKey = rot.newKey
      BY <1>15 DEF CommitRotation, TypeOK, Rotation
    <2>2. KeyOf(db') = rot.target /\ work' = db' /\ backend # "file"
      BY <1>15 DEF CommitRotation, Commit, Keying, Connection
    <2> QED
      BY <1>15, <2>1, <2>2 DEF CommitRotation, Keying
  <1>16. CASE FailRotation
    BY <1>10, <1>16 DEF FailRotation, Rollback, Keying
  <1>17. CASE Crash
    BY <1>17 DEF Crash, Rollback, Keying, NoRotation
  <1> QED
    BY <1>1, <1>2, <1>3, <1>4, <1>5, <1>6, <1>7, <1>8, <1>9, <1>11, <1>12, <1>13, <1>14, <1>15,
       <1>16, <1>17, NextCases
    DEF Rotate

LEMMA CrossedGrows ==
  ASSUME [Next]_vars
  PROVE  crossed \subseteq crossed' /\ cut \subseteq cut'
  <1> USE DEF Starts
  <1>1. CASE Aside
    BY <1>1 DEF Aside, StartUnlock, FinishUnlock, Lock, StartEnroll, FinishEnroll, StartSave,
       StartAttach, PutAttach, DeleteAttachment, vars
  <1>2. ASSUME NEW i \in Items, BeginSave(i) \/ EndSave(i) \/ SaveFile(i)
        PROVE  crossed \subseteq crossed' /\ cut \subseteq cut'
    BY <1>2 DEF BeginSave, EndSave, SaveFile
  <1>3. CASE Rotate
    <2>1. CASE Prepare
      BY <2>1 DEF Prepare
    <2> QED
      BY <1>3, <2>1 DEF Rotate, VerifyOld, Confirmed, ReadAttachments, WriteAttachments, RotateFile, ReadRows,
         BeginRotation, Rekey, CommitRotation, FailRotation, Undo, Reopen
  <1>4. ASSUME NEW guess \in Passwords, NEW new \in Passwords, AskRotation(guess, new)
        PROVE  crossed \subseteq crossed' /\ cut \subseteq cut'
    BY <1>4 DEF AskRotation
  <1>5. CASE Crash
    BY <1>5 DEF Crash
  <1> QED
    BY <1>1, <1>2, <1>3, <1>4, <1>5, NextCases

LEMMA UnderWayHas ==
  /\ "save" \notin UnderWay => \A i \in Items : save[i].pc = "idle"
  /\ "attach" \notin UnderWay => \A a \in Atts : attach[a] = NoKey
  /\ "unlock" \notin UnderWay => unlock.pc = "idle"
  /\ "enroll" \notin UnderWay => enroll = NoPassword
  BY DEF UnderWay

(* A step of the change of password after its head goes on, or ends.       *)
LEMMA RotatingSteps ==
  ASSUME TypeOK, \/ ReadAttachments \/ WriteAttachments \/ RotateFile \/ ReadRows \/ BeginRotation
                 \/ Rekey \/ CommitRotation \/ FailRotation \/ Undo \/ Reopen
  PROVE  /\ Rotating
         /\ UNCHANGED <<desktop, backend, save, attach, unlock, enroll, crossed, rust>>
         /\ rot'.pc \notin {"verify", "change"}
         /\ rot'.pc # "idle" => rot'.oldKey = rot.oldKey /\ rot'.newKey = rot.newKey
  <1> USE DEF Rotating, NoRotation
  <1>1. /\ Abandoned.pc \notin {"verify", "change"}
        /\ Abandoned.pc # "idle" => Abandoned.oldKey = rot.oldKey /\ Abandoned.newKey = rot.newKey
    BY DEF Abandoned, TypeOK, Rotation
  <1>2. CASE ReadAttachments
    BY <1>2 DEF ReadAttachments, TypeOK, Rotation
  <1>3. CASE WriteAttachments
    BY <1>3 DEF WriteAttachments, TypeOK, Rotation
  <1>4. CASE RotateFile
    BY <1>1, <1>4 DEF RotateFile, TypeOK, Rotation
  <1>5. CASE ReadRows
    <2>1. \/ rot' = Abandoned
          \/ \E key : rot' = [rot EXCEPT !.pc = "begin", !.kept = RowsOf(work), !.target = key]
      BY <1>5 DEF ReadRows
    <2> QED
      BY <1>1, <1>5, <2>1 DEF ReadRows, TypeOK, Rotation
  <1>6. CASE BeginRotation
    <2>1. rot' = Abandoned \/ rot' = [rot EXCEPT !.pc = "rekey"]
      BY <1>6 DEF BeginRotation
    <2> QED
      BY <1>1, <1>6, <2>1 DEF BeginRotation, TypeOK, Rotation
  <1>7. CASE Rekey
    BY <1>7 DEF Rekey, TypeOK, Rotation
  <1>8. CASE CommitRotation
    BY <1>8 DEF CommitRotation, TypeOK, Rotation
  <1>9. CASE FailRotation
    BY <1>1, <1>9 DEF FailRotation
  <1>10. CASE Undo
    BY <1>10 DEF Undo
  <1>11. CASE Reopen
    BY <1>11 DEF Reopen
  <1> QED
    BY <1>2, <1>3, <1>4, <1>5, <1>6, <1>7, <1>8, <1>9, <1>10, <1>11

LEMMA OverlapsStep ==
  ASSUME TypeOK, Overlaps, [Next]_vars
  PROVE  Overlaps'
  <1> USE DEF Rotating
  <1>1. CASE Aside
    <2>1. CASE \E p \in Passwords : StartUnlock(p)
      BY <2>1 DEF StartUnlock, Starts, Overlaps
    <2>2. CASE FinishUnlock \/ Lock \/ FinishEnroll \/ UNCHANGED vars
      BY <2>2 DEF FinishUnlock, Lock, FinishEnroll, vars, Overlaps, NoUnlock
    <2>3. CASE StartEnroll
      BY <2>3 DEF StartEnroll, Starts, Overlaps
    <2>4. CASE \E i \in Items : StartSave(i)
      BY <2>4 DEF StartSave, Starts, Overlaps
    <2>5. CASE \E a \in Atts : StartAttach(a)
      BY <2>5 DEF StartAttach, Starts, Overlaps
    <2>6. CASE \E a \in Atts : PutAttach(a) \/ DeleteAttachment(a)
      BY <2>6 DEF PutAttach, DeleteAttachment, Overlaps, TypeOK
    <2> QED
      BY <1>1, <2>1, <2>2, <2>3, <2>4, <2>5, <2>6 DEF Aside
  <1>2. ASSUME NEW i \in Items, BeginSave(i) \/ EndSave(i) \/ SaveFile(i) PROVE Overlaps'
    <2>1. save[i].pc # "idle"
      BY <1>2 DEF BeginSave, EndSave, SaveFile
    <2> QED
      BY <1>2, <2>1 DEF BeginSave, EndSave, SaveFile, Overlaps
  <1>3. ASSUME NEW guess \in Passwords, NEW new \in Passwords, AskRotation(guess, new)
        PROVE  Overlaps'
    BY <1>3 DEF AskRotation, Overlaps, NoRotation
  <1>4. CASE VerifyOld
    BY <1>4 DEF VerifyOld, Confirmed, Overlaps, NoRotation, TypeOK, Rotation
  <1>5. CASE Prepare
    BY <1>5, PrepareCases, UnderWayHas DEF Prepare, Overlaps, NoRotation
  <1>6. CASE /\ Rotate /\ ~VerifyOld /\ ~Prepare
    BY <1>6, RotatingSteps DEF Rotate, Overlaps
  <1>7. CASE Crash
    BY <1>7 DEF Crash, Overlaps, NoRotation
  <1> QED
    BY <1>1, <1>2, <1>3, <1>4, <1>5, <1>6, <1>7, NextCases

(* Nothing is under way in a change of password that nothing crossed.      *)
LEMMA NothingUnderWay ==
  ASSUME Overlaps, Rotating
  PROVE  /\ "save" \notin crossed => \A i \in Items : save[i].pc = "idle"
         /\ "attach" \notin crossed => \A a \in Atts : attach[a] = NoKey
         /\ "unlock" \notin crossed => unlock.pc = "idle"
         /\ "enroll" \notin crossed => enroll = NoPassword
  BY DEF Overlaps

(* The key of the database changes in two steps.                           *)
LEMMA KeyMoves ==
  ASSUME TypeOK, Connection, Keying, [Next]_vars
  PROVE  \/ KeyOf(db') = KeyOf(db)
         \/ (RotateFile \/ CommitRotation) /\ rot'.pc = "reopen"
  <1> USE Rest DEF KeyOf
  <1>1. CASE Aside
    BY <1>1, AsideFrame
  <1>2. ASSUME NEW i \in Items, BeginSave(i) PROVE KeyOf(db') = KeyOf(db)
    BY <1>2 DEF BeginSave
  <1>3. ASSUME NEW i \in Items, EndSave(i) PROVE KeyOf(db') = KeyOf(db)
    BY <1>3 DEF EndSave, Commit, Rollback, Connection, Inside, Keying
  <1>4. ASSUME NEW i \in Items, SaveFile(i) PROVE KeyOf(db') = KeyOf(db)
    BY <1>4 DEF SaveFile, Exec, TypeOK, Database, Connection
  <1>5. CASE Rekey
    BY <1>5 DEF Rekey, Exec, Connection, Rekeying
  <1>6. CASE RotateFile
    <2>1. KeyOf(db') = KeyOf(db) \/ rot' = [rot EXCEPT !.pc = "reopen"]
      BY <1>6 DEF RotateFile
    <2> QED
      BY <1>6, <2>1 DEF TypeOK, Rotation
  <1>7. CASE CommitRotation
    BY <1>7 DEF CommitRotation, TypeOK, Rotation
  <1>8. CASE BeginRotation
    BY <1>8 DEF BeginRotation
  <1>9. CASE VerifyOld \/ Prepare \/ ReadAttachments \/ WriteAttachments \/ ReadRows \/ FailRotation
             \/ Undo \/ Reopen
    BY <1>9 DEF VerifyOld, Confirmed, Prepare, ReadAttachments, WriteAttachments, ReadRows, FailRotation,
       Rollback, Undo, Reopen
  <1>10. CASE Crash
    BY <1>10 DEF Crash, Rollback
  <1>11. ASSUME NEW guess \in Passwords, NEW new \in Passwords, AskRotation(guess, new)
         PROVE  KeyOf(db') = KeyOf(db)
    BY <1>11 DEF AskRotation
  <1> QED
    BY <1>1, <1>2, <1>3, <1>4, <1>5, <1>6, <1>7, <1>8, <1>9, <1>10, <1>11, NextCases DEF Rotate

LEMMA CurrentStep ==
  ASSUME TypeOK, Named, Connection, Keying, Overlaps, Current, [Next]_vars
  PROVE  Current'
  <1> SUFFICES ASSUME "unlock" \notin crossed' PROVE Current'
    BY DEF Current
  <1>0. /\ "unlock" \notin crossed
        /\ "save" \notin crossed' => "save" \notin crossed
        /\ "attach" \notin crossed' => "attach" \notin crossed
        /\ "enroll" \notin crossed' => "enroll" \notin crossed
    BY CrossedGrows
  <1>00. /\ \A k : k = KeyOf(db) => k.pw = db.pw /\ k.salt = db.salt
         /\ db.pw \in Passwords
    BY Rest DEF KeyOf
  <1>000. ~Rotating => KeyOf(work) = KeyOf(db) /\ work.pw = db.pw /\ work.salt = db.salt
    <2>1. ~Rotating => KeyOf(work) = KeyOf(db)
      BY DEF Keying, Rotating, Rekeying
    <2> QED
      BY <2>1 DEF KeyOf
  <1> USE <1>0, <1>00, Rest
  <1>1. ASSUME NEW p \in Passwords, StartUnlock(p) PROVE Current'
    <2>1. ~Rotating
      BY <1>1 DEF StartUnlock, Starts
    <2>2. IF desktop THEN unlock'.salt = db.salt ELSE unlock'.pw = db.pw
      BY <1>1, <2>1, <1>000 DEF StartUnlock
    <2> QED
      BY <1>1, <2>1, <2>2 DEF StartUnlock, Starts, Current, Rotating
  <1>2. CASE FinishUnlock
    <2>1. ~Rotating
      BY <1>2, NothingUnderWay DEF FinishUnlock
    <2>2. /\ session' \in {session, KeyOf(db)}
          /\ rust' \in {rust, KeyOf(db)}
      BY <1>2, <2>1, <1>000 DEF FinishUnlock, OpenSession, Current, KeyOf
    <2>3. /\ unlock'.pc = "idle"
          /\ UNCHANGED <<desktop, db, rot, save, attach, enroll, crossed>>
      BY <1>2 DEF FinishUnlock, NoUnlock
    <2>4. rot.pc # "reopen"
      BY <2>1 DEF Rotating
    <2> QED
      BY <2>1, <2>2, <2>3, <2>4 DEF Current, Rotating
  <1>3. CASE Lock \/ FinishEnroll \/ UNCHANGED vars
    BY <1>3 DEF Lock, FinishEnroll, vars, Current, Rotating
  <1>4. CASE StartEnroll
    <2>1. "enroll" \notin crossed' => enroll' = db.pw
      BY <1>4 DEF StartEnroll, Starts, Current, Rotating
    <2> QED
      BY <1>4, <2>1 DEF StartEnroll, Starts, Current, Rotating
  <1>5. ASSUME NEW i \in Items, StartSave(i) PROVE Current'
    <2>1. "save" \notin crossed' => session = KeyOf(db)
      BY <1>5 DEF StartSave, Starts, Current, Rotating
    <2>2. "save" \notin crossed' => \A j \in Items : save'[j].pc # "idle" => save'[j].key = KeyOf(db)
      BY <1>5, <2>1 DEF StartSave, Current, TypeOK
    <2> QED
      BY <1>5, <2>2 DEF StartSave, Starts, Current, Rotating
  <1>6. ASSUME NEW a \in Atts, StartAttach(a) PROVE Current'
    <2>1. "attach" \notin crossed' => session = KeyOf(db)
      BY <1>6 DEF StartAttach, Starts, Current, Rotating
    <2>2. "attach" \notin crossed' => \A b \in Atts : attach'[b] \in {NoKey, KeyOf(db)}
      BY <1>6, <2>1 DEF StartAttach, Current, TypeOK
    <2> QED
      BY <1>6, <2>2 DEF StartAttach, Starts, Current, Rotating
  <1>7. ASSUME NEW a \in Atts, PutAttach(a) \/ DeleteAttachment(a) PROVE Current'
    BY <1>7 DEF PutAttach, DeleteAttachment, Current, Rotating, TypeOK
  <1>8. ASSUME NEW i \in Items, BeginSave(i) \/ EndSave(i) \/ SaveFile(i) PROVE Current'
    <2>1. KeyOf(db') = KeyOf(db)
      BY <1>8, KeyMoves DEF BeginSave, EndSave, SaveFile, RotateFile, CommitRotation
    <2>2. db'.pw = db.pw /\ db'.salt = db.salt
      BY <2>1 DEF KeyOf
    <2>3. \A j \in Items : save'[j].pc # "idle" => save[j].pc # "idle" /\ save'[j].key = save[j].key
      <3>1. \/ save' = [save EXCEPT ![i] = NoSave]
            \/ save' = [save EXCEPT ![i].pc = "commit"] /\ save[i].pc = "sealed"
        BY <1>8 DEF BeginSave, EndSave, SaveFile
      <3> QED
        BY <3>1 DEF TypeOK, Saving, NoSave
    <2>4. UNCHANGED <<desktop, session, rust, rot, attach, unlock, enroll, crossed>>
      BY <1>8 DEF BeginSave, EndSave, SaveFile
    <2> QED
      BY <2>1, <2>2, <2>3, <2>4 DEF Current, Rotating
  <1>9. ASSUME NEW guess \in Passwords, NEW new \in Passwords, AskRotation(guess, new)
        PROVE  Current'
    BY <1>9 DEF AskRotation, Current, Rotating, NoRotation
  <1>10. CASE VerifyOld
    <2>1. ~Rotating
      BY <1>10 DEF VerifyOld, Confirmed, Rotating
    <2>2. rot'.pc \in {"idle", "change"}
      BY <1>10 DEF VerifyOld, Confirmed, NoRotation, TypeOK, Rotation
    <2>3. session' \in {session, KeyOf(db)} /\ (rot'.pc = "change" => rust' \in {NoKey, KeyOf(db)})
      BY <1>10, <2>1, <1>000 DEF VerifyOld, Confirmed, OpenSession, Keying, NoRotation
    <2>4. UNCHANGED <<desktop, db, save, attach, unlock, enroll, crossed>> /\ rot.pc = "verify"
      BY <1>10 DEF VerifyOld, Confirmed
    <2> QED
      BY <2>1, <2>2, <2>3, <2>4 DEF Current, Rotating
  <1>11. CASE Prepare
    <2>1. /\ rot'.pc \in {"idle", "atts"} /\ rot.pc = "change"
          /\ rot'.pc = "atts" => rot'.oldKey = session /\ session # NoKey
      BY <1>11, PrepareCases DEF Prepare, NoRotation
    <2>2. UNCHANGED <<desktop, db, session, save, attach, unlock, enroll>>
      BY <1>11 DEF Prepare
    <2> QED
      BY <2>1, <2>2 DEF Current, Rotating
  <1>12. CASE (RotateFile \/ CommitRotation) /\ rot'.pc = "reopen"
    <2>1. Rotating /\ UNCHANGED <<save, attach, unlock, enroll, crossed>>
      BY <1>12, RotatingSteps
    <2> QED
      BY <1>12, <2>1, NothingUnderWay DEF Current
  <1>13. CASE /\ ReadAttachments \/ WriteAttachments \/ RotateFile \/ ReadRows \/ BeginRotation
                 \/ Rekey \/ CommitRotation \/ FailRotation \/ Undo
              /\ ~((RotateFile \/ CommitRotation) /\ rot'.pc = "reopen")
    <2>1. /\ Rotating /\ UNCHANGED <<desktop, save, attach, unlock, enroll, crossed>>
          /\ rot'.pc \notin {"verify", "change"}
          /\ rot'.pc # "idle" => rot'.oldKey = rot.oldKey
      BY <1>13, RotatingSteps
    <2>2. rot.pc # "reopen" /\ session' = session
      BY <1>13 DEF ReadAttachments, WriteAttachments, RotateFile, ReadRows, BeginRotation, Rekey,
         CommitRotation, FailRotation, Undo
    <2>3. KeyOf(db') = KeyOf(db)
      BY <1>13, KeyMoves
    <2> QED
      BY <2>1, <2>2, <2>3, NothingUnderWay DEF Current, Rotating
  <1>14. CASE Reopen
    <2>1. session' = KeyOf(db)
      BY <1>14 DEF Reopen, Keying, KeyOf, Rekeying
    <2>2. Rotating /\ rot'.pc = "idle" /\ UNCHANGED <<desktop, db, save, attach, unlock, enroll, crossed>>
      BY <1>14 DEF Reopen, Rotating, NoRotation
    <2> QED
      BY <2>1, <2>2, NothingUnderWay DEF Current, Rotating
  <1>15. CASE Crash
    BY <1>15 DEF Crash, Rollback, Current, Rotating, NoSave, NoUnlock, NoRotation
  <1> QED
    BY <1>1, <1>2, <1>3, <1>4, <1>5, <1>6, <1>7, <1>8, <1>9, <1>10, <1>11, <1>12, <1>13, <1>14,
       <1>15, NextCases
    DEF Aside, Rotate

LEMMA RowsStep ==
  ASSUME TypeOK, Named, Connection, Keying, Overlaps, Current, Rows, [Next]_vars
  PROVE  Rows'
  <1> DEFINE Gate == backend = "file" \/ crossed \cap {"save", "unlock"} = {}
  <1> SUFFICES ASSUME Gate' PROVE Readable(db)' /\ (rot'.pc # "rekey" => Readable(work)')
    BY DEF Rows
  <1>0. Gate /\ Readable(db) /\ (rot.pc # "rekey" => Readable(work)) /\ backend' = backend
    <2>1. backend' = backend
      BY NextCases, AsideFrame, RotatingSteps
      DEF BeginSave, EndSave, SaveFile, AskRotation, Rotate, VerifyOld, Confirmed, Prepare, Crash
    <2>2. Gate
      BY <2>1, CrossedGrows
    <2> QED
      BY <2>1, <2>2 DEF Rows
  <1> USE <1>0, Rest
  <1>1. CASE Aside
    BY <1>1, AsideFrame DEF Readable
  <1>2. ASSUME NEW i \in Items, BeginSave(i) PROVE Readable(db)' /\ (rot'.pc # "rekey" => Readable(work)')
    <2>1. CASE open
      BY <1>2, <2>1 DEF BeginSave, Readable
    <2>2. CASE ~open
      <3>1. work' = [work EXCEPT !.rows[i] = save[i].key] /\ db' = db /\ work = db
        BY <1>2, <2>2 DEF BeginSave, Connection
      <3>2. save[i].key = KeyOf(db) /\ save[i].key \in KeyOrNone
        BY <1>2 DEF BeginSave, Current, TypeOK, Saving
      <3>3. work'.rows = [db.rows EXCEPT ![i] = KeyOf(db)] /\ KeyOf(work') = KeyOf(db)
        BY <3>1, <3>2, RowsType DEF TypeOK
      <3>4. Readable(work)'
        BY <3>3 DEF Readable, TypeOK, Database
      <3> QED
        BY <3>1, <3>4 DEF Readable
    <2> QED
      BY <2>1, <2>2
  <1>3. ASSUME NEW i \in Items, EndSave(i) PROVE Readable(db)' /\ (rot'.pc # "rekey" => Readable(work)')
    <2>1. rot.pc # "rekey"
      BY <1>3 DEF EndSave, Connection, Inside, Rekeying
    <2> QED
      BY <1>3, <2>1 DEF EndSave, Commit, Rollback, Readable
  <1>4. ASSUME NEW i \in Items, SaveFile(i) PROVE Readable(db)' /\ (rot'.pc # "rekey" => Readable(work)')
    <2>1. CASE UNCHANGED <<db, work>>
      BY <1>4, <2>1 DEF SaveFile, Readable
    <2>2. CASE FileTakes(save[i].key) /\ Exec([work EXCEPT !.rows[i] = save[i].key])
      <3>1. work' = [work EXCEPT !.rows[i] = save[i].key] /\ db' = work' /\ work = db
        BY <1>4, <2>2 DEF SaveFile, Exec, Connection
      <3>2. save[i].key = KeyOf(db) /\ save[i].key \in KeyOrNone
        BY <2>2 DEF FileTakes, TypeOK, Saving
      <3>3. work'.rows = [db.rows EXCEPT ![i] = KeyOf(db)] /\ KeyOf(work') = KeyOf(db)
        BY <3>1, <3>2, RowsType DEF TypeOK
      <3>4. Readable(work)'
        BY <3>3 DEF Readable, TypeOK, Database
      <3> QED
        BY <3>1, <3>4 DEF Readable
    <2> QED
      BY <1>4, <2>1, <2>2 DEF SaveFile
  <1>5. CASE RotateFile
    <2>1. CASE UNCHANGED <<db, work>>
      BY <1>5, <2>1 DEF RotateFile, Readable
    <2>2. CASE Exec([pw |-> rot.new, salt |-> rot.newKey.salt,
                     rows |-> [i \in Items |-> IF i \in RowsOf(work) THEN rot.newKey ELSE NoKey]])
      <3>1. /\ work' = [pw |-> rot.new, salt |-> rot.newKey.salt,
                        rows |-> [i \in Items |-> IF i \in RowsOf(work) THEN rot.newKey ELSE NoKey]]
            /\ db' = work'
        BY <1>5, <2>2 DEF RotateFile, Exec, Connection
      <3>2. rot.newKey = [pw |-> rot.new, salt |-> rot.newKey.salt]
        BY <1>5 DEF RotateFile, Keying, Rotating, Named, TypeOK, Rotation, KeyOrNone, Keys, NoKey
      <3>3. KeyOf(work') = rot.newKey
        BY <3>1, <3>2 DEF KeyOf
      <3>4. Readable(work)'
        BY <3>1, <3>3 DEF Readable
      <3> QED
        BY <3>1, <3>4 DEF Readable
    <2> QED
      BY <1>5, <2>1, <2>2 DEF RotateFile
  <1>6. CASE BeginRotation
    BY <1>6 DEF BeginRotation, Readable, TypeOK, Rotation
  <1>7. CASE Rekey
    <2>1. work' = [work EXCEPT !.rows = [i \in Items |-> IF i \in rot.kept THEN rot.target ELSE NoKey]]
          /\ db' = db
      BY <1>7 DEF Rekey, Exec, Connection, Rekeying
    <2>2. KeyOf(work') = rot.target
      BY <1>7, <2>1 DEF Rekey, Keying, Rekeying, KeyOf, TypeOK, Database
    <2>3. work'.rows = [i \in Items |-> IF i \in rot.kept THEN rot.target ELSE NoKey]
      BY <2>1 DEF TypeOK, Database
    <2> QED
      BY <2>1, <2>2, <2>3 DEF Readable
  <1>8. CASE CommitRotation
    BY <1>8 DEF CommitRotation, Commit, Readable
  <1>9. CASE FailRotation
    BY <1>9 DEF FailRotation, Rollback, Readable
  <1>10. CASE VerifyOld \/ Prepare \/ ReadAttachments \/ WriteAttachments \/ ReadRows \/ Undo \/ Reopen
    BY <1>10 DEF VerifyOld, Confirmed, Prepare, ReadAttachments, WriteAttachments, ReadRows, Undo, Reopen,
       Readable
  <1>11. ASSUME NEW guess \in Passwords, NEW new \in Passwords, AskRotation(guess, new)
         PROVE  Readable(db)' /\ (rot'.pc # "rekey" => Readable(work)')
    BY <1>11 DEF AskRotation, Readable
  <1>12. CASE Crash
    BY <1>12 DEF Crash, Rollback, Readable
  <1> QED
    BY <1>1, <1>2, <1>3, <1>4, <1>5, <1>6, <1>7, <1>8, <1>9, <1>10, <1>11, <1>12, NextCases
    DEF Rotate

LEMMA BundleStep ==
  ASSUME TypeOK, Connection, Keying, Overlaps, Current, BundleIsCurrent, [Next]_vars
  PROVE  BundleIsCurrent'
  <1> SUFFICES ASSUME rot'.pc # "reopen", crossed' \cap {"enroll", "unlock"} = {}, "bundle" \notin cut'
               PROVE  bundle' \in {NoPassword, db'.pw}
    BY DEF BundleIsCurrent
  <1>1. crossed \cap {"enroll", "unlock"} = {} /\ "bundle" \notin cut
    BY CrossedGrows
  <1>2. db'.pw = db.pw
    BY KeyMoves DEF KeyOf
  <1>3. rot.pc # "reopen" => bundle \in {NoPassword, db.pw}
    BY <1>1 DEF BundleIsCurrent
  <1>4. CASE Reopen
    BY <1>4 DEF Reopen
  <1>5. CASE FinishEnroll
    <2>1. enroll = db.pw
      BY <1>1, <1>5 DEF FinishEnroll, Current
    <2>2. rot.pc # "reopen"
      BY <1>5 DEF FinishEnroll
    <2> QED
      BY <1>2, <1>3, <1>5, <2>1, <2>2 DEF FinishEnroll
  <1>6. CASE Crash
    <2>1. rot.pc # "reopen"
      BY <1>6 DEF Crash, HalfDone
    <2> QED
      BY <1>2, <1>3, <1>6, <2>1 DEF Crash
  <1>7. CASE Aside /\ ~FinishEnroll
    <2>1. bundle' = bundle
      BY <1>7 DEF Aside, StartUnlock, FinishUnlock, Lock, StartEnroll, StartSave, StartAttach,
         PutAttach, DeleteAttachment, vars
    <2> QED
      BY <1>2, <1>3, <1>7, <2>1, AsideFrame
  <1>8. ASSUME NEW i \in Items, BeginSave(i) \/ EndSave(i) \/ SaveFile(i)
        PROVE  bundle' \in {NoPassword, db'.pw}
    BY <1>2, <1>3, <1>8 DEF BeginSave, EndSave, SaveFile
  <1>9. ASSUME NEW guess \in Passwords, NEW new \in Passwords, AskRotation(guess, new)
        PROVE  bundle' \in {NoPassword, db'.pw}
    BY <1>2, <1>3, <1>9 DEF AskRotation
  <1>10. CASE Rotate /\ ~Reopen
    <2>1. bundle' = bundle /\ rot.pc # "reopen"
      BY <1>10 DEF Rotate, VerifyOld, Confirmed, Prepare, ReadAttachments, WriteAttachments, RotateFile,
         ReadRows, BeginRotation, Rekey, CommitRotation, FailRotation, Undo
    <2> QED
      BY <1>2, <1>3, <2>1
  <1> QED
    BY <1>4, <1>5, <1>6, <1>7, <1>8, <1>9, <1>10, NextCases

LEMMA AttachmentsStep ==
  ASSUME TypeOK, Named, Connection, Keying, Overlaps, Current, Attachments, [Next]_vars
  PROVE  Attachments'
  <1> DEFINE Gate == /\ desktop \/ backend = "file"
                     /\ crossed \cap {"attach", "unlock"} = {} /\ "attach" \notin cut
             Claim == /\ rot.pc \in {"idle", "verify", "change", "atts", "puts"} => Under(KeyOf(db))
                      /\ rot.pc = "puts" => Held \subseteq rot.seen
                      /\ rot.pc \in {"repo", "begin", "rekey", "commit"} =>
                           IF rot.seen = {} THEN Held = {} ELSE Under(rot.newKey)
                      /\ rot.pc \in {"undo", "reopen"} => Under(rot.newKey)
             Undone == rot.pc = "undo" => rot.seen # {}
  <1>a. /\ Attachments <=> Undone /\ (Gate => Claim)
        /\ Attachments' <=> Undone' /\ (Gate' => Claim')
    BY DEF Attachments
  <1>b. Undone
    BY <1>a
  <1>c. UNCHANGED <<desktop, backend>>
    BY NextCases, AsideFrame, RotatingSteps
    DEF BeginSave, EndSave, SaveFile, AskRotation, Rotate, VerifyOld, Confirmed, Prepare, Crash
  <1>d. Gate' => Gate
    BY <1>c, CrossedGrows
  <1>e. Gate' => Claim
    BY <1>a, <1>d
  <1> HIDE DEF Gate
  <1>f. Gate => \A a \in Atts : attach[a] \in {NoKey, KeyOf(db)}
    BY DEF Gate, Current
  <1>g. Gate /\ Rotating => \A a \in Atts : attach[a] = NoKey
    BY NothingUnderWay DEF Gate
  <1>h. Gate /\ Rotating /\ rot.pc # "reopen" => rot.oldKey = KeyOf(db)
    BY DEF Gate, Current
  <1>i. Under(NoKey) <=> Held = {}
    BY DEF Under, Held
  <1> SUFFICES Undone' /\ (Gate' => Claim')
    BY <1>a
  <1> USE <1>b, <1>d, <1>e, Rest
  <1>1. ASSUME NEW a \in Atts, PutAttach(a) PROVE Undone' /\ (Gate' => Claim')
    <2>1. UNCHANGED <<db, rot>> /\ atts' \in {[atts EXCEPT ![a] = attach[a]], atts} /\ attach[a] # NoKey
      BY <1>1 DEF PutAttach
    <2>2. Gate' => ~Rotating /\ attach[a] = KeyOf(db)
      BY <2>1, <1>f, <1>g
    <2>3. Gate' => Under(KeyOf(db))'
      BY <2>1, <2>2 DEF Under, Rotating, TypeOK, Rotation
    <2> QED
      BY <2>1, <2>2, <2>3 DEF Rotating
  <1>2. ASSUME NEW a \in Atts, DeleteAttachment(a) PROVE Undone' /\ (Gate' => Claim')
    <2>1. UNCHANGED <<db, rot>> /\ atts' = [atts EXCEPT ![a] = NoKey]
      BY <1>2 DEF DeleteAttachment
    <2>2. Held' \subseteq Held /\ \A key : Under(key) => Under(key)'
      BY <2>1 DEF Held, Under, TypeOK
    <2> QED
      BY <2>1, <2>2
  <1>3. CASE Aside /\ UNCHANGED atts
    BY <1>3, AsideFrame DEF Under, Held
  <1>4. ASSUME NEW i \in Items, BeginSave(i) \/ EndSave(i) \/ SaveFile(i)
        PROVE  Undone' /\ (Gate' => Claim')
    <2>1. KeyOf(db') = KeyOf(db)
      BY <1>4, KeyMoves DEF BeginSave, EndSave, SaveFile, RotateFile, CommitRotation
    <2> QED
      BY <1>4, <2>1 DEF BeginSave, EndSave, SaveFile, Under, Held
  <1>5. ASSUME NEW guess \in Passwords, NEW new \in Passwords, AskRotation(guess, new)
        PROVE  Undone' /\ (Gate' => Claim')
    BY <1>5 DEF AskRotation, NoRotation, Under, Held
  <1>6. CASE VerifyOld \/ Prepare
    <2>1. /\ rot.pc \in {"verify", "change"} /\ rot'.pc \in {"idle", "change", "atts"}
          /\ UNCHANGED <<db, atts>>
      BY <1>6, PrepareCases DEF VerifyOld, Confirmed, Prepare, NoRotation, TypeOK, Rotation
    <2> QED
      BY <2>1 DEF Under, Held
  <1>7. CASE ReadAttachments
    <2>1. CASE rot' = NoRotation
      BY <1>7, <2>1 DEF ReadAttachments, NoRotation, Under, Held
    <2>2. CASE rot' = [rot EXCEPT !.pc = IF Held = {} THEN "repo" ELSE "puts", !.seen = Held]
      <3>1. rot'.pc = (IF Held = {} THEN "repo" ELSE "puts") /\ rot'.seen = Held
        BY <2>2 DEF TypeOK, Rotation
      <3> QED
        BY <1>7, <3>1 DEF ReadAttachments, Under, Held
    <2> QED
      BY <1>7, <2>1, <2>2 DEF ReadAttachments
  <1>8. CASE WriteAttachments
    <2>1. CASE rot' = NoRotation /\ UNCHANGED atts
      BY <1>8, <2>1 DEF WriteAttachments, NoRotation, Under, Held
    <2>2. CASE atts' = Moved(atts, rot.seen, rot.newKey) /\ rot' = [rot EXCEPT !.pc = "repo"]
      <3>1. rot'.pc = "repo" /\ rot'.seen = rot.seen /\ rot'.newKey = rot.newKey
        BY <2>2 DEF TypeOK, Rotation
      <3>2. Gate' => Held \subseteq rot.seen
        BY <1>8 DEF WriteAttachments
      <3>3. Gate' => Under(rot.newKey)' /\ (rot.seen = {} => Held' = {})
        BY <2>2, <3>1, <3>2 DEF Moved, Under, Held
      <3> QED
        BY <3>1, <3>3
    <2> QED
      BY <1>8, <2>1, <2>2 DEF WriteAttachments
  <1>9. ASSUME rot.pc \in {"repo", "begin", "rekey", "commit"}, rot' = Abandoned,
               KeyOf(db') = KeyOf(db), UNCHANGED atts
        PROVE  Undone' /\ (Gate' => Claim')
    <2>1. CASE rot.seen = {}
      BY <1>9, <2>1 DEF Abandoned, NoRotation, Under, Held
    <2>2. CASE rot.seen # {}
      <3>1. rot'.pc = "undo" /\ rot'.seen = rot.seen /\ rot'.newKey = rot.newKey
        BY <1>9, <2>2 DEF Abandoned, TypeOK, Rotation
      <3> QED
        BY <1>9, <2>2, <3>1 DEF Under
    <2> QED
      BY <2>1, <2>2
  <1>10. ASSUME rot.pc \in {"repo", "begin", "rekey", "commit"},
                rot'.pc \in {"begin", "rekey", "commit"},
                rot'.seen = rot.seen, rot'.newKey = rot.newKey, UNCHANGED atts
         PROVE  Undone' /\ (Gate' => Claim')
    BY <1>10 DEF Under, Held
  <1>11. ASSUME rot.pc \in {"repo", "begin", "rekey", "commit"}, rot'.pc = "reopen",
                rot'.newKey = rot.newKey, UNCHANGED atts
         PROVE  Undone' /\ (Gate' => Claim')
    BY <1>11 DEF Under, Held
  <1>12. CASE RotateFile
    <2>1. CASE rot' = Abandoned /\ UNCHANGED <<db, work>>
      BY <1>9, <1>12, <2>1 DEF RotateFile
    <2>2. CASE rot' = [rot EXCEPT !.pc = "reopen"]
      BY <1>11, <1>12, <2>2 DEF RotateFile, TypeOK, Rotation
    <2> QED
      BY <1>12, <2>1, <2>2 DEF RotateFile
  <1>13. CASE ReadRows
    <2>1. CASE rot' = Abandoned
      BY <1>9, <1>13, <2>1 DEF ReadRows
    <2>2. CASE \E key : rot' = [rot EXCEPT !.pc = "begin", !.kept = RowsOf(work), !.target = key]
      BY <1>10, <1>13, <2>2 DEF ReadRows, TypeOK, Rotation
    <2> QED
      BY <1>13, <2>1, <2>2 DEF ReadRows
  <1>14. CASE BeginRotation
    <2>1. CASE rot' = Abandoned /\ UNCHANGED repo
      BY <1>9, <1>14, <2>1 DEF BeginRotation
    <2>2. CASE rot' = [rot EXCEPT !.pc = "rekey"]
      BY <1>10, <1>14, <2>2 DEF BeginRotation, TypeOK, Rotation
    <2> QED
      BY <1>14, <2>1, <2>2 DEF BeginRotation
  <1>15. CASE Rekey
    BY <1>10, <1>15 DEF Rekey, TypeOK, Rotation
  <1>16. CASE CommitRotation
    BY <1>11, <1>16 DEF CommitRotation, TypeOK, Rotation
  <1>17. CASE FailRotation
    BY <1>9, <1>17 DEF FailRotation, Rollback
  <1>18. CASE Undo
    <2>1. rot'.pc = "idle" /\ KeyOf(db') = KeyOf(db) /\ Rotating /\ rot.pc # "reopen"
      BY <1>18 DEF Undo, NoRotation, Rotating
    <2>2. Gate' => atts' = Moved(atts, Held, rot.oldKey) /\ rot.oldKey = KeyOf(db)
      BY <1>18, <2>1, <1>h DEF Undo, Gate
    <2>3. Gate' => Under(KeyOf(db))'
      BY <2>1, <2>2 DEF Moved, Under, Held
    <2> QED
      BY <2>1, <2>3
  <1>19. CASE Reopen
    <2>1. Gate' => desktop
      BY <1>19 DEF Gate, Reopen, Keying
    <2>2. rot'.pc = "idle" /\ UNCHANGED <<db, atts>>
      BY <1>19 DEF Reopen, NoRotation
    <2>3. Gate' => rot.newKey = KeyOf(db)
      BY <1>19, <2>1 DEF Reopen, Keying
    <2> QED
      BY <1>19, <2>2, <2>3 DEF Reopen, Under
  <1>20. CASE Crash
    <2>1. rot'.pc = "idle" /\ UNCHANGED <<db, atts>> /\ cut' = cut \cup HalfDone
      BY <1>20 DEF Crash, Rollback, NoRotation
    <2>2. Gate' => "attach" \notin HalfDone
      BY <2>1 DEF Gate
    <2>3. Gate' => /\ rot.pc \in {"repo", "begin", "rekey", "commit"} => rot.seen = {}
                   /\ rot.pc # "undo"
      BY <2>2 DEF HalfDone
    <2>4. Gate' /\ rot.pc = "reopen" => rot.newKey = KeyOf(db)
      BY DEF Gate, Keying
    <2>5. Gate' => Under(KeyOf(db))
      BY <2>3, <2>4 DEF Under, Held, TypeOK, Rotation
    <2> QED
      BY <2>1, <2>5 DEF Under
  <1> QED
    BY <1>1, <1>2, <1>3, <1>4, <1>5, <1>6, <1>7, <1>8, <1>12, <1>13, <1>14, <1>15, <1>16, <1>17,
       <1>18, <1>19, <1>20, NextCases
    DEF Rotate, Aside, StartUnlock, FinishUnlock, Lock, StartEnroll, FinishEnroll, StartSave,
        StartAttach, vars

LEMMA KeysInvInit ==
  ASSUME Init
  PROVE  KeysInv
  <1> USE Rest, TypeInit
  <1>1. PICK p \in Passwords :
          /\ \E rows \in [Items -> {[pw |-> p, salt |-> 1], NoKey}] :
               db = [pw |-> p, salt |-> 1, rows |-> rows]
          /\ atts \in [Atts -> {[pw |-> p, salt |-> 1], NoKey}]
          /\ bundle \in {NoPassword, p}
    BY DEF Init
  <1>2. KeyOf(db) = [pw |-> p, salt |-> 1] /\ db.pw = p
    BY <1>1 DEF KeyOf
  <1>3. Readable(db) /\ Under(KeyOf(db))
    BY <1>1, <1>2 DEF Readable, Under
  <1>4. Connection /\ Keying /\ Overlaps
    BY DEF Init, Connection, Keying, Overlaps, Inside, Rekeying, Rotating, NoRotation, NoSave
  <1>5. Current
    BY DEF Init, Current, Rotating, NoRotation, NoSave, NoUnlock
  <1>6. Rows /\ Attachments
    BY <1>3 DEF Init, Rows, Attachments, Readable, NoRotation
  <1>7. BundleIsCurrent
    BY <1>1, <1>2 DEF BundleIsCurrent
  <1> QED
    BY <1>4, <1>5, <1>6, <1>7 DEF KeysInv

LEMMA KeysInvAlways == Spec => [](TypeOK /\ Named /\ KeysInv)
  <1>1. TypeOK /\ Named /\ KeysInv /\ [Next]_vars => KeysInv'
    BY ConnectionStep, KeyingStep, OverlapsStep, CurrentStep, RowsStep, AttachmentsStep, BundleStep
    DEF KeysInv
  <1> QED
    BY <1>1, KeysInvInit, TypedAlways, PTL DEF Spec

(* No crash and no failure in a change of password leaves a row under a    *)
(* key that the stored verifier and salt do not stand for.                 *)
THEOREM RowsStayReadable == Spec => []RowsReadable
  <1>1. TypeOK /\ KeysInv => RowsReadable
    BY DEF KeysInv, Rows, Readable, RowsReadable, RowsOf
  <1> QED
    BY <1>1, KeysInvAlways, PTL

(* Every open transaction has exactly one caller that will end it.         *)
THEOREM NoTransactionOrphaned == Spec => []TransactionOwned
  <1>1. TypeOK /\ KeysInv => TransactionOwned
    <2> SUFFICES ASSUME Connection, open PROVE TransactionOwned
      BY DEF KeysInv, TransactionOwned
    <2> DEFINE Owners == {i \in Items : save[i].pc = "commit"}
                           \cup {r \in {rot} : r.pc \in {"rekey", "commit"}}
    <2>1. \E x : Owners = {x}
      <3>1. CASE Rekeying
        <4>1. Owners = {rot}
          BY <3>1 DEF Connection, Inside, Rekeying
        <4> QED
          BY <4>1
      <3>2. CASE ~Rekeying
        <4>1. PICK i \in Items : Inside(i)
          BY <3>2 DEF Connection
        <4>2. Owners = {i}
          BY <3>2, <4>1 DEF Connection, Inside, Rekeying
        <4> QED
          BY <4>2
      <3> QED
        BY <3>1, <3>2
    <2>2. Cardinality(Owners) = 1
      BY <2>1, FS_Singleton
    <2> QED
      BY <2>2 DEF TransactionOwned
  <1> QED
    BY <1>1, KeysInvAlways, PTL

(* The attachments open under the key of the vault between two changes of  *)
(* password, where the code keeps them together.                           *)
THEOREM AttachmentsStayWithVault == Spec => []AttachmentsFollowVault
  <1>1. TypeOK /\ KeysInv => AttachmentsFollowVault
    BY DEF KeysInv, Attachments, Under, AttachmentsFollowVault, Held, Rotating, TypeOK, Rotation
  <1> QED
    BY <1>1, KeysInvAlways, PTL

(* The session has the key of the vault, and so has the native session     *)
(* when a change of password asks it.                                      *)
THEOREM SessionStaysWithVault == Spec => []SessionFollowsVault
  <1>1. TypeOK /\ KeysInv => SessionFollowsVault
    BY DEF KeysInv, Current, SessionFollowsVault, Rotating
  <1> QED
    BY <1>1, KeysInvAlways, PTL

(* No bundle opens the vault with a previous password.                     *)
THEOREM BundleStaysCurrent == Spec => []BundleIsCurrent
  <1> QED
    BY KeysInvAlways, PTL DEF KeysInv

(* A session is opened only under the password the vault has by then.      *)
THEOREM OnlyTheCurrentPassword == Spec => OnlyTheCurrentPasswordOpens
  <1>1. TypeOK /\ Named /\ KeysInv /\ [Next]_vars
        => [("unlock" \notin crossed /\ session' \notin {session, NoKey}) => session'.pw = db.pw]_vars
    <2> SUFFICES ASSUME TypeOK, KeysInv, Next, "unlock" \notin crossed, session' \notin {session, NoKey}
                 PROVE  session'.pw = db.pw
      OBVIOUS
    <2>1. CASE FinishUnlock
      <3>1. ~Rekeying
        BY <2>1, NothingUnderWay DEF FinishUnlock, KeysInv, Rotating, Rekeying
      <3>2. work.pw = db.pw
        BY <3>1 DEF KeysInv, Keying, KeyOf
      <3> QED
        BY <2>1, <3>2 DEF FinishUnlock, OpenSession, KeysInv, Current
    <2>2. CASE VerifyOld
      <3>1. KeyOf(work) = KeyOf(db)
        BY <2>2 DEF VerifyOld, Confirmed, KeysInv, Keying, Rekeying
      <3> QED
        BY <2>2, <3>1 DEF VerifyOld, Confirmed, OpenSession, KeyOf
    <2>3. CASE Reopen
      BY <2>3 DEF Reopen, KeysInv, Keying, KeyOf
    <2>4. CASE Rotate /\ ~VerifyOld /\ ~Reopen
      BY <2>4 DEF Rotate, Prepare, ReadAttachments, WriteAttachments, RotateFile, ReadRows,
         BeginRotation, Rekey, CommitRotation, FailRotation, Undo
    <2> QED
      BY <2>1, <2>2, <2>3, <2>4 DEF Next, StartUnlock, Lock, StartEnroll, FinishEnroll, StartSave,
         BeginSave, EndSave, SaveFile, StartAttach, PutAttach, DeleteAttachment, AskRotation, Crash
  <1> QED
    BY <1>1, KeysInvAlways, PTL DEF Spec, OnlyTheCurrentPasswordOpens
===============================================================================
