------------------------- MODULE VaultMigrationProofs -------------------------
(***************************************************************************)
(* Proofs about VaultMigration, for any set of items, both runtimes and    *)
(* any bounds.                                                             *)
(***************************************************************************)
EXTENDS VaultMigration, TLAPS

LEMMA Domains ==
  /\ Nothing \in [Items -> 0..Garbled]
  /\ Empty \in Repository
  /\ NoMigration \in Migration
  BY MigrationAssumption DEF MigrationAssumption, Nothing, Empty, Repository, NoMigration,
     Migration, Garbled, Backends

LEMMA TypeInit == ASSUME Init PROVE TypeOK
  <1>1. content \in [Backends -> Repository]
    <2>1. ASSUME NEW b \in Backends
          PROVE  (IF b = "file" /\ flag THEN [salt |-> 1, rows |-> Nothing] ELSE Empty) \in Repository
      BY Domains DEF Repository
    <2> QED
      BY <2>1 DEF Init
  <1>2. told \in [Items -> 0..MaxEdits]
    BY MigrationAssumption DEF Init, Nothing, MigrationAssumption
  <1>3. desktop \in BOOLEAN /\ edits \in 0..MaxEdits
    BY MigrationAssumption DEF Init, MigrationAssumption
  <1> QED
    BY <1>1, <1>2, <1>3, Domains DEF Init, TypeOK

(* The choice at start leaves a repository active. *)
LEMMA TypeChoice ==
  ASSUME TypeOK, InitializeStorage
  PROVE  /\ active' \in Backends
         /\ marker' \in BOOLEAN /\ stored' \in BOOLEAN
         /\ odd' \subseteq {"mark", "edit", "again"}
  BY DEF TypeOK, InitializeStorage, Restored, KeptLegacy, ActivatedDefault, KeptFallback,
     WriteMarker, Kept, Occurs, Backends

LEMMA TypeRepository ==
  ASSUME NEW r \in Repository, NEW i \in Items, NEW value \in 0..Garbled
  PROVE  [r EXCEPT !.rows[i] = value] \in Repository
  BY DEF Repository

LEMMA TypeStep == ASSUME TypeOK, [Next]_vars PROVE TypeOK'
  <1> USE Domains, MigrationAssumption DEF MigrationAssumption
  <1>1. CASE UNCHANGED vars
    BY <1>1 DEF TypeOK, vars, choice
  <1>2. CASE Start
    <2>1. CASE InitializeStorage
      BY <1>2, <2>1, TypeChoice DEF TypeOK, Start
    <2>2. CASE Unavailable /\ UNCHANGED odd
      BY <1>2, <2>2 DEF TypeOK, Start, Unavailable, choice
    <2> QED
      BY <1>2, <2>1, <2>2 DEF Start
  <1>3. CASE Close
    BY <1>3 DEF TypeOK, Close
  <1>4. CASE Setup
    <2>1. [salt |-> minted + 1, rows |-> Nothing] \in Repository
      BY DEF TypeOK, Repository
    <2>2. content' \in [Backends -> Repository]
      BY <1>4, <2>1 DEF TypeOK, Setup
    <2>3. told' \in [Items -> 0..MaxEdits]
      BY <1>4 DEF Setup, Nothing
    <2> QED
      BY <1>4, <2>2, <2>3, TypeChoice DEF TypeOK, Setup, Backends
  <1>5. CASE Unlock
    BY <1>5, TypeChoice DEF TypeOK, Unlock, Repository, Backends
  <1>6. CASE Lock
    BY <1>6 DEF TypeOK, Lock, choice
  <1>7. CASE Reset
    <2>1. content' \in [Backends -> Repository]
      BY <1>7 DEF TypeOK, Reset
    <2>2. told' \in [Items -> 0..MaxEdits]
      BY <1>7 DEF Reset, Nothing
    <2> QED
      BY <1>7, <2>1, <2>2 DEF TypeOK, Reset, choice, Occurs
  <1>8. CASE ClearFlags
    BY <1>8 DEF TypeOK, ClearFlags
  <1>9. ASSUME NEW i \in Items, Edit(i) PROVE TypeOK'
    <2>1. active \in Backends
      BY <1>9 DEF TypeOK, Edit
    <2>2. PICK value \in {0, edits + 1} :
            /\ content' = [content EXCEPT ![active].rows[i] =
                             IF value = 0 \/ session = content[active].salt THEN value ELSE Garbled]
            /\ told' = [told EXCEPT ![i] = value]
      BY <1>9 DEF Edit
    <2>3. value \in 0..MaxEdits /\ value \in 0..Garbled /\ Garbled \in 0..Garbled
      BY <1>9 DEF TypeOK, Edit, Garbled
    <2>4. content' \in [Backends -> Repository]
      BY <2>1, <2>2, <2>3, TypeRepository DEF TypeOK
    <2>5. told' \in [Items -> 0..MaxEdits]
      BY <2>2, <2>3 DEF TypeOK
    <2> QED
      BY <1>9, <2>4, <2>5 DEF TypeOK, Edit, choice, Occurs
  <1>10. CASE Migrate
    <2>1. active \in Backends /\ content[active].rows \in [Items -> 0..Garbled]
      BY <1>10 DEF TypeOK, Migrate, Repository
    <2> QED
      BY <1>10, <2>1 DEF TypeOK, Migrate, Migration, choice, Occurs
  <1>11. ASSUME NEW pc \in {"reset", "setup", "copy", "check"}, Throws(pc) PROVE TypeOK'
    BY <1>11 DEF TypeOK, Throws, Goto, Migration, NoMigration, choice
  <1>12. CASE ResetTarget
    BY <1>12 DEF TypeOK, ResetTarget, Goto, Migration, NoMigration, choice
  <1>13. CASE SetupTarget
    <2>1. [salt |-> minted + 1, rows |-> Nothing] \in Repository
      BY DEF TypeOK, Repository
    <2>2. content' \in [Backends -> Repository]
      BY <1>13, <2>1 DEF TypeOK, SetupTarget, Backends
    <2> QED
      BY <1>13, <2>2 DEF TypeOK, SetupTarget, Goto, Migration, NoMigration, choice
  <1>14. CASE CopyItems
    <2>1. PICK kept \in {Items} \cup {Items \ {i} : i \in Items} :
            content' = [content EXCEPT !["lite"].rows =
                          [i \in Items |-> IF mig.copied[i] = 0 THEN @[i]
                                           ELSE IF i \in kept THEN mig.copied[i] ELSE 0]]
      BY <1>14 DEF CopyItems
    <2>2. [i \in Items |-> IF mig.copied[i] = 0 THEN content["lite"].rows[i]
                           ELSE IF i \in kept THEN mig.copied[i] ELSE 0] \in [Items -> 0..Garbled]
      BY DEF TypeOK, Repository, Migration, Backends, Garbled
    <2>3. content' \in [Backends -> Repository]
      BY <2>1, <2>2 DEF TypeOK, Repository, Backends
    <2> QED
      BY <1>14, <2>3 DEF TypeOK, CopyItems, Goto, Migration, NoMigration, choice
  <1>15. CASE CheckTarget
    BY <1>15 DEF TypeOK, CheckTarget, Goto, Migration, NoMigration, choice
  <1>16. CASE UndoTarget
    BY <1>16 DEF TypeOK, UndoTarget, choice
  <1>17. CASE DryRun
    BY <1>17 DEF TypeOK, DryRun, Goto, Migration, NoMigration, choice
  <1>18. CASE Promote
    BY <1>18 DEF TypeOK, Promote, WriteMarker, Occurs, Goto, Migration, NoMigration, choice, Backends
  <1>19. CASE Rekey
    BY <1>19 DEF TypeOK, Rekey, Repository, Backends, NoMigration, choice
  <1> QED
    BY <1>1, <1>2, <1>3, <1>4, <1>5, <1>6, <1>7, <1>8, <1>9, <1>10, <1>11, <1>12, <1>13, <1>14,
       <1>15, <1>16, <1>17, <1>18, <1>19 DEF Next, MigrationStep

(* Every reachable state is well typed. *)
THEOREM MigrationTyped == Spec => []TypeOK
  <1> QED
    BY TypeInit, TypeStep, PTL DEF Spec

-----------------------------------------------------------------------------
(* The strengthening.  What is chosen and what is remembered agree ...     *)
ChoiceFits ==
  /\ active # "none" => (marker <=> active = "lite")
  /\ active = "none" => marker = stored
  /\ "mark" \notin odd => marker = stored

(* ... whatever runs belongs to a vault that is set up, and the migration  *)
(* works beside the active repository until it promotes ...                *)
RunsBeside ==
  /\ session # 0 \/ wiping \/ mig.pc # "idle" => flag /\ active # "none"
  /\ mig.pc = "rekey" => active = "lite"
  /\ mig.pc \notin {"idle", "rekey"} /\ "again" \notin odd => active = "file"

(* ... with a copy that is what the user was told, and a target that is    *)
(* that copy once it was checked.                                          *)
CopyFits ==
  odd = {} /\ mig.pc # "idle" =>
    /\ mig.copied = told
    /\ mig.pc \in {"dry", "promote"} => content["lite"].rows = told

MigrationInv ==
  ChoiceFits /\ RunsBeside /\ CopyFits /\ SavedItemsActive /\ SavedItemsDurable /\ SessionFitsActive

LEMMA InvInit == ASSUME Init PROVE MigrationInv
  <1>1. content["file"].rows = Nothing /\ content["lite"].rows = Nothing
    BY DEF Init, Backends, Empty
  <1> QED
    BY <1>1 DEF Init, MigrationInv, ChoiceFits, RunsBeside, CopyFits, SavedItemsActive,
       SavedItemsDurable, SessionFitsActive, NextBackend, NoMigration

(* While a vault is set up, initializeStorage changes nothing in a page    *)
(* that has chosen, and chooses what is remembered in one that has not.    *)
LEMMA ChoiceKept ==
  ASSUME TypeOK, ChoiceFits, flag, InitializeStorage
  PROVE  /\ UNCHANGED <<marker, stored, odd>>
         /\ active' = IF active = "none" THEN IF marker THEN "lite" ELSE "file" ELSE active
         /\ ChoiceFits'
  BY DEF TypeOK, ChoiceFits, InitializeStorage, Restored, KeptLegacy, ActivatedDefault,
     KeptFallback, Kept, Backends

LEMMA ChoiceMade ==
  ASSUME TypeOK, ChoiceFits, InitializeStorage
  PROVE  ChoiceFits' /\ active' \in Backends /\ odd \subseteq odd' /\ odd' \subseteq odd \cup {"mark"}
  <1>1. CASE Restored
    BY <1>1 DEF TypeOK, ChoiceFits, Restored, Backends
  <1>2. CASE KeptLegacy
    BY <1>2 DEF TypeOK, ChoiceFits, KeptLegacy, Kept, Backends
  <1>3. CASE ActivatedDefault
    <2>1. odd' = IF ~stored' THEN odd \cup {"mark"} ELSE odd
      BY <1>3 DEF ActivatedDefault, WriteMarker, Occurs
    <2>2. active' = "lite" /\ marker' = TRUE /\ stored' \in BOOLEAN
      BY <1>3 DEF ActivatedDefault, WriteMarker, TypeOK
    <2> QED
      BY <2>1, <2>2 DEF ChoiceFits, Backends
  <1>4. CASE KeptFallback
    BY <1>4 DEF TypeOK, ChoiceFits, KeptFallback, Kept, Backends
  <1> QED
    BY <1>1, <1>2, <1>3, <1>4 DEF InitializeStorage

(* Emptying, setting up, filling and undoing write the target only, which  *)
(* is not the active repository unless the migration started from it.      *)
LEMMA TargetStep ==
  ASSUME TypeOK, TypeOK', MigrationInv, ResetTarget \/ SetupTarget \/ CopyItems \/ UndoTarget
  PROVE  MigrationInv'
  <1>1. /\ mig.pc \notin {"idle", "rekey", "dry", "promote"}
        /\ mig'.pc \notin {"rekey", "dry", "promote"}
        /\ mig'.pc # "idle" => mig'.copied = mig.copied
        /\ UNCHANGED <<active, marker, stored, flag, session, wiping, told, odd>>
    BY DEF TypeOK, ResetTarget, SetupTarget, CopyItems, UndoTarget, Goto, choice, Migration,
       NoMigration
  <1>2. content'["file"] = content["file"]
    BY DEF TypeOK, ResetTarget, SetupTarget, CopyItems, UndoTarget, Backends, Empty
  <1>3. "again" \notin odd => active = "file"
    BY <1>1 DEF MigrationInv, RunsBeside
  <1>4. odd = {} => NextBackend = "file"
    BY <1>3 DEF MigrationInv, ChoiceFits, NextBackend
  <1>5. odd \subseteq {"mark"} => "again" \notin odd
    OBVIOUS
  <1>6. ChoiceFits' /\ RunsBeside' /\ CopyFits'
    BY <1>1 DEF MigrationInv, ChoiceFits, RunsBeside, CopyFits
  <1>7. SavedItemsActive' /\ SavedItemsDurable' /\ SessionFitsActive'
    BY <1>1, <1>2, <1>3, <1>4, <1>5 DEF MigrationInv, SavedItemsActive, SavedItemsDurable,
       SessionFitsActive, NextBackend
  <1> QED
    BY <1>6, <1>7 DEF MigrationInv

LEMMA InvStep == ASSUME TypeOK, TypeOK', MigrationInv, [Next]_vars PROVE MigrationInv'
  <1> USE DEF MigrationInv, NextBackend
  <1>1. CASE UNCHANGED vars
    BY <1>1 DEF vars, choice, ChoiceFits, RunsBeside, CopyFits, SavedItemsActive,
       SavedItemsDurable, SessionFitsActive
  <1>2. CASE Start
    <2>1. mig.pc = "idle" /\ session = 0 /\ ~wiping
      BY <1>2 DEF Start, TypeOK, NoMigration
    <2>2. CASE InitializeStorage
      <3>1. ChoiceFits' /\ active' \in Backends
        BY <2>2, ChoiceMade
      <3>2. RunsBeside' /\ CopyFits' /\ SessionFitsActive'
        BY <1>2, <2>1 DEF Start, RunsBeside, CopyFits, SessionFitsActive
      <3>3. SavedItemsActive' /\ SavedItemsDurable'
        BY <1>2, <2>2, ChoiceKept DEF Start, SavedItemsActive, SavedItemsDurable, ChoiceFits
      <3> QED
        BY <3>1, <3>2, <3>3
    <2>3. CASE Unavailable /\ UNCHANGED odd
      BY <1>2, <2>1, <2>3 DEF Start, Unavailable, choice, ChoiceFits, RunsBeside, CopyFits,
         SavedItemsActive, SavedItemsDurable, SessionFitsActive
    <2> QED
      BY <1>2, <2>2, <2>3 DEF Start
  <1>3. CASE Close
    BY <1>3 DEF Close, ChoiceFits, RunsBeside, CopyFits, SavedItemsActive, SavedItemsDurable,
       SessionFitsActive, NoMigration
  <1>4. CASE Setup
    <2>1. mig.pc = "idle" /\ ~wiping
      BY <1>4 DEF Setup, RunsBeside
    <2>2. ChoiceFits' /\ active' \in Backends
      BY <1>4, ChoiceMade DEF Setup
    <2>3. content'[active'] = [salt |-> minted + 1, rows |-> Nothing]
      BY <1>4, <2>2 DEF Setup, TypeOK
    <2>4. RunsBeside' /\ CopyFits'
      BY <1>4, <2>1, <2>2 DEF Setup, RunsBeside, CopyFits, TypeOK, Backends
    <2>5. SavedItemsActive' /\ SavedItemsDurable' /\ SessionFitsActive'
      BY <1>4, <2>2, <2>3 DEF Setup, SavedItemsActive, SavedItemsDurable, SessionFitsActive,
         ChoiceFits, Backends
    <2> QED
      BY <2>2, <2>4, <2>5
  <1>5. CASE Unlock
    <2>1. ChoiceFits' /\ UNCHANGED <<marker, stored, odd, active>>
      BY <1>5, ChoiceKept DEF Unlock
    <2> QED
      BY <1>5, <2>1 DEF Unlock, RunsBeside, CopyFits, SavedItemsActive, SavedItemsDurable,
         SessionFitsActive
  <1>6. CASE Lock
    BY <1>6 DEF Lock, choice, ChoiceFits, RunsBeside, CopyFits, SavedItemsActive,
       SavedItemsDurable, SessionFitsActive
  <1>7. ASSUME NEW i \in Items, Edit(i) PROVE MigrationInv'
    <2>1. active \in Backends /\ flag
      BY <1>7 DEF Edit, RunsBeside, TypeOK
    <2>2. PICK value \in {0, edits + 1} :
            /\ content' = [content EXCEPT ![active].rows[i] =
                             IF value = 0 \/ session = content[active].salt THEN value ELSE Garbled]
            /\ told' = [told EXCEPT ![i] = value]
      BY <1>7 DEF Edit
    <2>3. /\ content'[active].salt = content[active].salt
          /\ value = 0 \/ session = content[active].salt
               => content'[active].rows = [content[active].rows EXCEPT ![i] = value]
      BY <2>1, <2>2 DEF TypeOK, Repository
    <2>4. odd' = {} => odd = {} /\ mig.pc = "idle" /\ ~wiping
      BY <1>7 DEF Edit, Occurs
    <2>5. ChoiceFits' /\ RunsBeside' /\ CopyFits'
      BY <1>7, <2>4 DEF Edit, Occurs, choice, ChoiceFits, RunsBeside, CopyFits
    <2>6. SessionFitsActive'
      BY <1>7, <2>3 DEF Edit, Occurs, choice, SessionFitsActive
    <2>7. odd' = {} => content'[active].rows = told'
      <3> SUFFICES ASSUME odd' = {} PROVE content'[active].rows = told'
        OBVIOUS
      <3>1. session = content[active].salt
        BY <1>7, <2>1, <2>4 DEF Edit, SessionFitsActive, Backends
      <3>2. content[active].rows = told
        BY <2>1, <2>4 DEF SavedItemsActive, Backends
      <3> QED
        BY <2>2, <2>3, <3>1, <3>2
    <2>8. odd' = {} => NextBackend = active
      BY <2>1, <2>4 DEF ChoiceFits, Backends
    <2> QED
      BY <1>7, <2>5, <2>6, <2>7, <2>8 DEF Edit, choice, SavedItemsActive, SavedItemsDurable
  <1>8. CASE Reset
    <2>1. active \in Backends /\ content'[active].rows = Nothing /\ told' = Nothing
      BY <1>8 DEF Reset, TypeOK, Empty
    <2>2. odd' = {} => odd = {} /\ mig.pc = "idle"
      BY <1>8 DEF Reset, Occurs
    <2>3. ChoiceFits' /\ RunsBeside' /\ CopyFits' /\ SessionFitsActive'
      BY <1>8, <2>2 DEF Reset, Occurs, choice, ChoiceFits, RunsBeside, CopyFits, SessionFitsActive
    <2>4. odd' = {} => NextBackend = active
      BY <2>1, <2>2 DEF ChoiceFits, Backends
    <2> QED
      BY <1>8, <2>1, <2>3, <2>4 DEF Reset, choice, SavedItemsActive, SavedItemsDurable
  <1>9. CASE ClearFlags
    BY <1>9 DEF ClearFlags, ChoiceFits, RunsBeside, CopyFits, SavedItemsActive, SavedItemsDurable,
       SessionFitsActive, NoMigration
  <1>10. CASE Migrate
    <2>1. flag /\ active \in Backends
      BY <1>10 DEF Migrate, RunsBeside, TypeOK
    <2> QED
      BY <1>10, <2>1 DEF Migrate, Occurs, choice, ChoiceFits, RunsBeside, CopyFits,
         SavedItemsActive, SavedItemsDurable, SessionFitsActive, Backends
  <1>11. ASSUME NEW pc \in {"reset", "setup", "copy", "check"}, Throws(pc) PROVE MigrationInv'
    BY <1>11 DEF Throws, Goto, choice, ChoiceFits, RunsBeside, CopyFits, SavedItemsActive,
       SavedItemsDurable, SessionFitsActive, TypeOK, Migration
  <1>12. CASE ResetTarget
    BY <1>12, TargetStep
  <1>13. CASE SetupTarget
    BY <1>13, TargetStep
  <1>14. CASE CopyItems
    BY <1>14, TargetStep
  <1>15. CASE CheckTarget
    BY <1>15 DEF CheckTarget, Goto, choice, ChoiceFits, RunsBeside, CopyFits, SavedItemsActive,
       SavedItemsDurable, SessionFitsActive, TypeOK, Migration
  <1>16. CASE UndoTarget
    BY <1>16, TargetStep
  <1>17. CASE DryRun
    BY <1>17 DEF DryRun, Goto, choice, ChoiceFits, RunsBeside, CopyFits, SavedItemsActive,
       SavedItemsDurable, SessionFitsActive, TypeOK, Migration, NoMigration
  <1>18. CASE Promote
    <2>1. CASE active' = "lite" /\ WriteMarker /\ Goto("rekey")
      BY <1>18, <2>1 DEF Promote, Goto, WriteMarker, Occurs, ChoiceFits, RunsBeside, CopyFits,
         SavedItemsActive, SavedItemsDurable, SessionFitsActive, TypeOK, Migration
    <2>2. CASE mig' = NoMigration /\ UNCHANGED <<choice, odd>>
      BY <1>18, <2>2 DEF Promote, choice, ChoiceFits, RunsBeside, CopyFits,
         SavedItemsActive, SavedItemsDurable, SessionFitsActive, NoMigration
    <2> QED
      BY <1>18, <2>1, <2>2 DEF Promote
  <1>19. CASE Rekey
    BY <1>19 DEF Rekey, choice, ChoiceFits, RunsBeside, CopyFits, SavedItemsActive,
       SavedItemsDurable, SessionFitsActive, NoMigration
  <1> QED
    BY <1>1, <1>2, <1>3, <1>4, <1>5, <1>6, <1>7, <1>8, <1>9, <1>10, <1>11, <1>12, <1>13, <1>14,
       <1>15, <1>16, <1>17, <1>18, <1>19 DEF Next, MigrationStep

LEMMA InvAlways == Spec => [](TypeOK /\ MigrationInv)
  <1>1. TypeOK /\ MigrationInv /\ [Next]_vars => (TypeOK /\ MigrationInv)'
    BY TypeStep, InvStep
  <1> QED
    BY TypeInit, InvInit, <1>1, PTL DEF Spec

(* No item that was saved goes missing from the repository in use, through *)
(* choices, migrations that are blocked, roll back or succeed, and resets. *)
THEOREM NothingLostInUse == Spec => []SavedItemsActive
  <1> QED
    BY InvAlways, PTL DEF MigrationInv

(* ... nor from the repository the next start chooses: no crash leaves the *)
(* marker pointing away from the vault.                                    *)
THEOREM NothingLostOverRestart == Spec => []SavedItemsDurable
  <1> QED
    BY InvAlways, PTL DEF MigrationInv

(* The key of an unlocked session is the active repository's.              *)
THEOREM SessionRekeyed == Spec => []SessionFitsActive
  <1> QED
    BY InvAlways, PTL DEF MigrationInv
===============================================================================
