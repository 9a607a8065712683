-------------------------- MODULE VaultBackupsProofs --------------------------
(***************************************************************************)
(* Proofs about VaultBackups, for any number of items, captures and jobs,  *)
(* any limits and periods, and any bounds.                                 *)
(***************************************************************************)
EXTENDS VaultBackups, FiniteSetTheorems, TLAPS

(* All of TypeOK but the count of events. *)
StateType == ContentType /\ ModeType /\ HistoryType /\ LocalsType

LEMMA ContentsType ==
  /\ NoItem \in [rev : Revs, file : Revs]
  /\ Empty \in Contents /\ Used \in Contents
  /\ \A x \in Files : x \in Revs
  BY BackupsAssumption DEF BackupsAssumption, NoItem, Revs, Files, Contents, Empty, Used

LEMMA OverType == ASSUME NEW a \in Contents, NEW b \in Contents PROVE Over(a, b) \in Contents
  BY DEF Over, Contents

LEMMA ReferredType == ASSUME NEW a PROVE Referred(a) \subseteq Files
  BY DEF Referred

LEMMA PutType ==
  ASSUME NEW a \in Contents, NEW i, NEW e \in [rev : Revs, file : Revs]
  PROVE  [a EXCEPT ![i] = e] \in Contents
  BY DEF Contents

(* The locals keep their types when more snapshots are stored. *)
LEMMA MoreSnapshots ==
  ASSUME NEW n \in Nat, NEW m \in Nat, n <= m
  PROVE  /\ CaptureLocals(n) \subseteq CaptureLocals(m)
         /\ JobLocals(n) \subseteq JobLocals(m)
  <1>1. 0..n \subseteq 0..m /\ SUBSET (1..n) \subseteq SUBSET (1..m)
    OBVIOUS
  <1> QED
    BY <1>1 DEF CaptureLocals, JobLocals

LEMMA CaptureTypes ==
  ASSUME NEW n \in Nat
  PROVE  /\ NoCapture \in CaptureLocals(n)
         /\ \A r \in CaptureLocals(n) : Cut(r) \in CaptureLocals(n)
  <1>1. NoCapture \in CaptureLocals(n)
    BY ContentsType DEF NoCapture, CaptureLocals, Roles
  <1>2. ASSUME NEW r \in CaptureLocals(n) PROVE Cut(r) \in CaptureLocals(n)
    BY DEF CaptureLocals, Cut
  <1> QED
    BY <1>1, <1>2

LEMMA BegunType ==
  ASSUME NEW n \in Nat, StateType, NEW role \in Roles
  PROVE  Begun(role) \in CaptureLocals(n)
  <1>1. vault \in Contents /\ Referred(vault) \cap files \in SUBSET Files
    BY DEF StateType, ContentType, Referred
  <1>2. (IF role \in {"interval", "lock"} THEN settings.limit ELSE DefaultLimit)
          \in {0, DefaultLimit} \cup Limits
    BY DEF StateType, ModeType, Settings
  <1>3. NoCapture \in CaptureLocals(n)
    BY CaptureTypes
  <1> QED
    BY <1>1, <1>2, <1>3 DEF Begun, NoCapture, CaptureLocals, Reading

LEMMA JobTypes ==
  ASSUME NEW n \in Nat
  PROVE  /\ NoJob \in JobLocals(n)
         /\ \A r \in JobLocals(n) : Disturbed(r) \in JobLocals(n)
  <1>1. NoJob \in JobLocals(n)
    BY BackupsAssumption, ContentsType DEF BackupsAssumption, NoJob, JobLocals, Revs
  <1>2. ASSUME NEW r \in JobLocals(n) PROVE Disturbed(r) \in JobLocals(n)
    BY <1>1 DEF JobLocals, Disturbed
  <1> QED
    BY <1>1, <1>2

LEMMA EndTypes ==
  ASSUME NEW n \in Nat, NEW j \in Jobs, job[j] \in JobLocals(n)
  PROVE  Done(j) \in JobLocals(n) /\ Failed(j) \in JobLocals(n) /\ RolledBack(j) \in JobLocals(n)
  <1>1. NoJob \in JobLocals(n)
    BY JobTypes
  <1>2. Present(job[j].items) \ Present(job[j].found) \subseteq Ids
    BY DEF Present
  <1>3. RolledBack(j) \in JobLocals(n)
    BY <1>2 DEF RolledBack, JobLocals, Steps
  <1>4. Done(j) \in JobLocals(n)
    BY <1>1 DEF Done, JobLocals
  <1>5. Failed(j) \in JobLocals(n)
    BY <1>1, ContentsType DEF Failed, JobLocals, NoJob, Revs
  <1> QED
    BY <1>3, <1>4, <1>5

(* What the lock, a restart and a write do to the other activities. *)
LEMMA OthersType ==
  ASSUME StateType
  PROVE  /\ Len(made) \in Nat
         /\ [c \in Slots |-> Cut(cap[c])] \in [Slots -> CaptureLocals(Len(made))]
         /\ [c \in Slots |-> NoCapture] \in [Slots -> CaptureLocals(Len(made))]
         /\ \A j \in Jobs : Disturbed(job[j]) \in JobLocals(Len(made))
         /\ Interrupted \in [Jobs -> JobLocals(Len(made))]
         /\ [j \in Jobs |-> NoJob] \in [Jobs -> JobLocals(Len(made))]
  <1>1. Len(made) \in Nat
    BY DEF StateType, HistoryType
  <1>2. ASSUME NEW c \in Slots
        PROVE  cap[c] \in CaptureLocals(Len(made)) /\ Cut(cap[c]) \in CaptureLocals(Len(made))
               /\ NoCapture \in CaptureLocals(Len(made))
    BY <1>1, CaptureTypes DEF StateType, LocalsType
  <1>3. ASSUME NEW j \in Jobs
        PROVE  job[j] \in JobLocals(Len(made)) /\ Disturbed(job[j]) \in JobLocals(Len(made))
               /\ NoJob \in JobLocals(Len(made))
    BY <1>1, JobTypes DEF StateType, LocalsType
  <1> QED
    BY <1>1, <1>2, <1>3 DEF Interrupted

(* A step that stores no snapshot has the right types when what it changes *)
(* has.                                                                    *)
LEMMA StepType ==
  ASSUME StateType, ContentType', ModeType', made' = made,
         stored' \subseteq 1..Len(made), erased' \subseteq 1..Len(made),
         cap' \in [Slots -> CaptureLocals(Len(made))], job' \in [Jobs -> JobLocals(Len(made))]
  PROVE  StateType'
  BY DEF StateType, HistoryType, LocalsType

LEMMA CaptureStepType ==
  ASSUME StateType, NEW c \in Slots, NEW r \in CaptureLocals(Len(made)), Now(c, r),
         UNCHANGED <<content, made, erased, session, damaged, backend, now>>,
         stored' \subseteq stored, settings' \in Settings,
         job' \in [Jobs -> JobLocals(Len(made))]
  PROVE  StateType'
  <1>1. ContentType' /\ ModeType'
    BY DEF StateType, ContentType, ModeType, content
  <1>2. cap' \in [Slots -> CaptureLocals(Len(made))]
    BY DEF StateType, LocalsType, Now
  <1>3. stored' \subseteq 1..Len(made) /\ erased' \subseteq 1..Len(made)
    BY DEF StateType, HistoryType
  <1> QED
    BY <1>1, <1>2, <1>3, StepType

(* A step of a job that changes the items, or nothing but its locals. *)
LEMMA JobStepType ==
  ASSUME StateType, NEW j \in Jobs, NEW items \in Contents, NEW r \in JobLocals(Len(made)),
         Write(j, items, r) \/ (Then(j, r) /\ UNCHANGED vault),
         UNCHANGED <<files, form, edits, history, session, damaged, backend, settings, now, cap>>
  PROVE  StateType'
  <1>1. \A k \in Jobs : Disturbed(job[k]) \in JobLocals(Len(made))
    BY OthersType
  <1>2. vault' \in Contents /\ job' \in [Jobs -> JobLocals(Len(made))]
    BY <1>1 DEF Write, Then, StateType, ContentType, LocalsType
  <1>3. ContentType' /\ ModeType'
    BY <1>2 DEF StateType, ContentType, ModeType
  <1>4. UNCHANGED <<made, stored, erased, cap>>
    BY DEF history
  <1> QED
    BY <1>2, <1>3, <1>4, StepType DEF StateType, HistoryType, LocalsType

-----------------------------------------------------------------------------
(* Type correctness, one lemma for each group of actions. *)

LEMMA TypeInit == ASSUME Init PROVE TypeOK
  <1> DEFINE first == [at |-> 1, items |-> Used, files |-> {1}, owed |-> {1}]
  <1>1. {1} \subseteq Files /\ first \in Snapshots
    BY BackupsAssumption, ContentsType DEF BackupsAssumption, Files, Snapshots
  <1>2. made \in {<< >>, <<first>>}
    BY DEF Init
  <1> HIDE DEF first
  <1>3. HistoryType
    <2>1. << >> \in Seq(Snapshots) /\ <<first>> \in Seq(Snapshots)
      BY <1>1
    <2>2. made \in Seq(Snapshots)
      BY <1>2, <2>1
    <2> QED
      BY <2>2 DEF Init, HistoryType
  <1>4. cap \in [Slots -> CaptureLocals(Len(made))]
    BY <1>3, CaptureTypes DEF Init, HistoryType
  <1>5. job \in [Jobs -> JobLocals(Len(made))]
    BY <1>3, JobTypes DEF Init, HistoryType
  <1>6. ContentType
    BY <1>1, ContentsType, BackupsAssumption DEF Init, ContentType, Revs, BackupsAssumption
  <1>7. settings \in Settings
    BY BackupsAssumption DEF Init, Settings, BackupsAssumption
  <1>8. ModeType
    BY <1>7 DEF Init, ModeType
  <1>9. events \in 0..MaxEvents
    BY BackupsAssumption DEF Init, BackupsAssumption
  <1> QED
    BY <1>3, <1>4, <1>5, <1>6, <1>8, <1>9 DEF TypeOK, LocalsType

LEMMA TypeRecord ==
  ASSUME StateType, NEW c \in Slots
  PROVE  Record(c) \in Snapshots
  BY DEF StateType, ModeType, LocalsType, Record, Snapshots, CaptureLocals

LEMMA TypeReading ==
  ASSUME StateType, NEW c \in Slots,
         ListFiles(c) \/ (\E f \in Files : DecryptFile(c, f))
  PROVE  StateType'
  <1>1. cap[c] \in CaptureLocals(Len(made)) /\ job \in [Jobs -> JobLocals(Len(made))]
        /\ settings \in Settings /\ files \subseteq Files
    BY DEF StateType, LocalsType, ModeType, ContentType
  <1>2. CASE ListFiles(c)
    <2> DEFINE r == [cap[c] EXCEPT !.stage = "decrypt", !.raw = files]
    <2>1. r \in CaptureLocals(Len(made))
      BY <1>1 DEF CaptureLocals, Reading
    <2>2. Now(c, r)
      BY <1>2 DEF ListFiles
    <2> HIDE DEF r
    <2> QED
      BY <1>1, <1>2, <2>1, <2>2, CaptureStepType DEF ListFiles, history
  <1>3. CASE \E f \in Files : DecryptFile(c, f)
    <2> PICK f \in Files : DecryptFile(c, f)
      BY <1>3
    <2> DEFINE r == [cap[c] EXCEPT !.raw = @ \ {f}, !.got = IF session THEN @ \cup {f} ELSE @]
    <2>1. r \in CaptureLocals(Len(made))
      BY <1>1 DEF CaptureLocals
    <2>2. Now(c, r)
      BY DEF DecryptFile
    <2> HIDE DEF r
    <2> QED
      BY <1>1, <2>1, <2>2, CaptureStepType DEF DecryptFile, history
  <1> QED
    BY <1>2, <1>3

LEMMA TypeStore ==
  ASSUME StateType, NEW c \in Slots, Store(c)
  PROVE  StateType'
  <1> DEFINE n == Len(made) + 1
             r == [NoCapture EXCEPT !.stage = "list", !.role = cap[c].role, !.live = cap[c].live,
                                    !.limit = cap[c].limit, !.index = Len(made) + 1]
  <1>1. Len(made) \in Nat /\ cap[c] \in CaptureLocals(Len(made))
    BY DEF StateType, HistoryType, LocalsType
  <1>2. made' \in Seq(Snapshots) /\ Len(made') = n
    BY TypeRecord DEF Store, StateType, HistoryType
  <1>3. HistoryType'
    BY <1>1, <1>2 DEF Store, StateType, HistoryType
  <1>4. r \in CaptureLocals(n)
    <2>1. NoCapture \in CaptureLocals(n) /\ Len(made) + 1 \in 0..n
      BY <1>1, CaptureTypes
    <2>2. cap[c].role \in Roles /\ cap[c].live \in BOOLEAN
          /\ cap[c].limit \in {0, DefaultLimit} \cup Limits
      BY <1>1 DEF CaptureLocals
    <2> HIDE DEF n
    <2> QED
      BY <2>1, <2>2 DEF CaptureLocals, Pruning
  <1>5. CaptureLocals(Len(made)) \subseteq CaptureLocals(n) /\ JobLocals(Len(made)) \subseteq JobLocals(n)
    BY <1>1, MoreSnapshots
  <1>6. cap' = [cap EXCEPT ![c] = r] /\ job' = job
    BY DEF Store, Now
  <1> HIDE DEF r
  <1>7. cap' \in [Slots -> CaptureLocals(n)] /\ job' \in [Jobs -> JobLocals(n)]
    BY <1>4, <1>5, <1>6 DEF StateType, LocalsType
  <1>8. ContentType' /\ ModeType'
    BY DEF Store, content, StateType, ContentType, ModeType
  <1> QED
    BY <1>2, <1>3, <1>7, <1>8 DEF StateType, LocalsType

LEMMA AgainType ==
  ASSUME NEW n \in Nat, NEW r \in CaptureLocals(n)
  PROVE  [r EXCEPT !.stage = "list", !.todo = {}, !.index = 0] \in CaptureLocals(n)
  <1>1. ASSUME NEW m, NEW q \in CaptureLocals(m), NEW x \in 0..m
        PROVE  [q EXCEPT !.stage = "list", !.todo = {}, !.index = x] \in CaptureLocals(m)
    BY DEF CaptureLocals, Pruning
  <1>2. 0 \in 0..n
    OBVIOUS
  <1> QED
    BY <1>1, <1>2

LEMMA TypePruned ==
  ASSUME StateType, NEW c \in Slots, NEW todo \in SUBSET (1..Len(made)), Pruned(c, todo),
         UNCHANGED <<content, made, erased, session, damaged, backend, now>>, stored' \subseteq stored
  PROVE  StateType'
  <1>1. /\ Len(made) \in Nat /\ cap[c] \in CaptureLocals(Len(made))
        /\ job \in [Jobs -> JobLocals(Len(made))] /\ settings \in Settings /\ now \in Nat
    BY DEF StateType, HistoryType, LocalsType, ModeType
  <1> DEFINE more == [cap[c] EXCEPT !.stage = "prune", !.todo = todo]
             again == [cap[c] EXCEPT !.stage = "list", !.todo = {}, !.index = 0]
  <1>2. more \in CaptureLocals(Len(made)) /\ again \in CaptureLocals(Len(made))
        /\ NoCapture \in CaptureLocals(Len(made))
    <2>1. more \in CaptureLocals(Len(made))
      BY <1>1 DEF CaptureLocals, Pruning
    <2>2. again \in CaptureLocals(Len(made))
      BY <1>1, AgainType
    <2> QED
      BY <1>1, <2>1, <2>2, CaptureTypes
  <1>3. settings' \in Settings
    BY <1>1 DEF Pruned, Settings
  <1>4. job' \in [Jobs -> JobLocals(Len(made))]
    <2>1. ASSUME c \in Jobs
          PROVE  [job[c] EXCEPT !.stage = "replace", !.safety = cap[c].index] \in JobLocals(Len(made))
      <3>1. cap[c].index \in 0..Len(made) /\ job[c] \in JobLocals(Len(made))
        BY <1>1, <2>1 DEF CaptureLocals
      <3> QED
        BY <3>1 DEF JobLocals, Steps
    <2>2. job' = job \/ (c \in Jobs /\ job' = [job EXCEPT ![c] =
                            [job[c] EXCEPT !.stage = "replace", !.safety = cap[c].index]])
      BY DEF Pruned, Then
    <2> QED
      BY <1>1, <2>1, <2>2
  <1>5. Now(c, more) \/ Now(c, again) \/ Now(c, NoCapture)
    BY DEF Pruned
  <1> HIDE DEF more, again
  <1> QED
    BY <1>2, <1>3, <1>4, <1>5, CaptureStepType

LEMMA TypeRetention ==
  ASSUME StateType, NEW c \in Slots,
         (\E kept \in SUBSET stored : List(c, kept)) \/ (\E s \in 1..Len(made) : Prune(c, s))
  PROVE  StateType'
  <1>1. stored \subseteq 1..Len(made) /\ cap[c].todo \subseteq 1..Len(made)
    BY DEF StateType, HistoryType, LocalsType, CaptureLocals
  <1>2. CASE \E kept \in SUBSET stored : List(c, kept)
    BY <1>1, <1>2, TypePruned DEF List, history
  <1>3. CASE \E s \in 1..Len(made) : Prune(c, s)
    BY <1>1, <1>3, TypePruned DEF Prune, history
  <1> QED
    BY <1>2, <1>3

(* The steps that start a capture or a prune, or end one. *)
LEMMA TypeBeginCapture ==
  ASSUME StateType, NEW c \in Slots,
         BeginManual(c) \/ BeginScheduled(c) \/ CaptureFails(c)
           \/ (\E n \in Limits : ChooseLimit(c, n))
  PROVE  StateType'
  <1>1. /\ Len(made) \in Nat /\ job \in [Jobs -> JobLocals(Len(made))] /\ settings \in Settings
        /\ NoCapture \in CaptureLocals(Len(made)) /\ NoJob \in JobLocals(Len(made))
    BY CaptureTypes, JobTypes DEF StateType, HistoryType, LocalsType, ModeType
  <1>2. \A role \in Roles : Begun(role) \in CaptureLocals(Len(made))
    BY <1>1, BegunType
  <1>3. CASE BeginManual(c) \/ BeginScheduled(c)
    <2>1. Now(c, Begun("manual")) \/ Now(c, Begun("interval"))
      BY <1>3 DEF BeginManual, BeginScheduled
    <2> QED
      BY <1>1, <1>2, <1>3, <2>1, CaptureStepType DEF BeginManual, BeginScheduled, history, Roles
  <1>4. CASE CaptureFails(c)
    <2>1. job' \in [Jobs -> JobLocals(Len(made))]
      BY <1>1, <1>4 DEF CaptureFails, Then
    <2> QED
      BY <1>1, <1>4, <2>1, CaptureStepType DEF CaptureFails, history
  <1>5. CASE \E n \in Limits : ChooseLimit(c, n)
    <2> PICK n \in Limits : ChooseLimit(c, n)
      BY <1>5
    <2> DEFINE r == [NoCapture EXCEPT !.stage = "list", !.role = "settings", !.limit = n]
    <2>1. r \in CaptureLocals(Len(made))
      BY <1>1 DEF CaptureLocals, Pruning, Roles
    <2>2. settings' \in Settings
      BY <1>1 DEF ChooseLimit, Settings
    <2>3. Now(c, r)
      BY DEF ChooseLimit
    <2> HIDE DEF r
    <2> QED
      BY <1>1, <2>1, <2>2, <2>3, CaptureStepType DEF ChooseLimit, history
  <1> QED
    BY <1>3, <1>4, <1>5

(* What the user does, the lock, a restart and the clock. *)
LEMMA TypeUser ==
  ASSUME StateType,
         \/ (\E s \in 1..Len(made) : Erase(s)) \/ EraseAll
         \/ (\E f \in Frequencies \cup {"off"} : ChooseFrequency(f))
         \/ Unlock \/ Clock
  PROVE  StateType'
  <1>1. settings' \in Settings
    BY DEF StateType, ModeType, Settings, Erase, EraseAll, ChooseFrequency, Unlock, Clock
  <1>2. ContentType' /\ ModeType'
    <2>1. UNCHANGED content /\ UNCHANGED <<damaged, backend>> /\ session' \in {session, TRUE}
          /\ now' \in {now} \cup 1..MaxTime
      BY DEF Erase, EraseAll, ChooseFrequency, Unlock, Clock
    <2>2. now' \in Nat
      BY <2>1, BackupsAssumption DEF BackupsAssumption, StateType, ModeType
    <2> QED
      BY <1>1, <2>1, <2>2 DEF StateType, ContentType, ModeType, content
  <1>3. /\ made' = made /\ stored' \subseteq 1..Len(made) /\ erased' \subseteq 1..Len(made)
        /\ cap' = cap /\ job' = job
    BY DEF StateType, HistoryType, history, Erase, EraseAll, ChooseFrequency, Unlock, Clock
  <1> QED
    BY <1>2, <1>3, StepType DEF StateType, LocalsType

LEMMA TypeEdit ==
  ASSUME StateType,
         Attach \/ (\E i \in Ids, f \in Revs : Edit(i, f)) \/ (\E i \in Ids : Delete(i))
  PROVE  StateType'
  <1>1. /\ vault \in Contents /\ files \subseteq Files /\ form \in Revs /\ edits \in Revs
        /\ job \in [Jobs -> JobLocals(Len(made))]
    BY DEF StateType, ContentType, LocalsType
  <1>2. 0 \in Revs /\ \A n \in Revs : n < MaxRev => n + 1 \in Revs /\ n + 1 \in Files
    BY BackupsAssumption DEF BackupsAssumption, Revs, Files
  <1>3. ContentType' /\ ModeType'
    <2>1. CASE Attach
      BY <1>1, <1>2, <2>1 DEF Attach, ContentType, ModeType, StateType
    <2>2. CASE \E i \in Ids, f \in Revs : Edit(i, f)
      <3> PICK i \in Ids, f \in Revs : Edit(i, f)
        BY <2>2
      <3>1. vault' \in Contents
        <4>1. edits + 1 \in Revs /\ f \in Revs
          BY <1>1, <1>2 DEF Edit
        <4> DEFINE e == [rev |-> edits + 1, file |-> f]
        <4>2. e \in [rev : Revs, file : Revs] /\ vault' = [vault EXCEPT ![i] = e]
          BY <4>1 DEF Edit
        <4> HIDE DEF e
        <4> QED
          BY <1>1, <4>2, PutType
      <3> QED
        BY <1>1, <1>2, <3>1 DEF Edit, ContentType, ModeType, StateType
    <2>3. CASE \E i \in Ids : Delete(i)
      <3> PICK i \in Ids : Delete(i)
        BY <2>3
      <3>1. vault' \in Contents
        BY <1>1, PutType, ContentsType DEF Delete
      <3> QED
        BY <1>1, <1>2, <3>1 DEF Delete, ContentType, ModeType, StateType
    <2> QED
      BY <2>1, <2>2, <2>3
  <1>4. job' \in [Jobs -> JobLocals(Len(made))]
    BY <1>1, OthersType DEF Attach, Edit, Delete, Disturb
  <1>5. UNCHANGED <<made, stored, erased, cap>>
    BY DEF Attach, Edit, Delete, history
  <1> QED
    BY <1>3, <1>4, <1>5, StepType DEF StateType, HistoryType, LocalsType

LEMMA TypeLock ==
  ASSUME StateType,
         Lock \/ Restart \/ (\E c \in Captures : LockAndCapture(c))
  PROVE  StateType'
  <1>1. ContentType' /\ ModeType'
    <2>1. UNCHANGED <<vault, files, edits, backend, settings, now>>
          /\ form' = 0 /\ session' = FALSE /\ damaged' \in {damaged, TRUE}
      BY DEF Lock, Shut, Restart, LockAndCapture
    <2>2. form' \in Revs
      BY <2>1, BackupsAssumption DEF BackupsAssumption, Revs
    <2> QED
      BY <2>1, <2>2 DEF StateType, ContentType, ModeType
  <1>2. UNCHANGED <<made, stored, erased>>
    BY DEF Lock, Restart, LockAndCapture, history
  <1>3. job' \in [Jobs -> JobLocals(Len(made))]
    BY OthersType DEF Lock, Restart, LockAndCapture
  <1>4. cap' \in [Slots -> CaptureLocals(Len(made))]
    <2>1. CASE Lock \/ Restart
      BY <2>1, OthersType DEF Lock, Shut, Restart
    <2>2. CASE \E c \in Captures : LockAndCapture(c)
      <3> PICK c \in Captures : LockAndCapture(c)
        BY <2>2
      <3>1. Begun("lock") \in CaptureLocals(Len(made)) /\ cap \in [Slots -> CaptureLocals(Len(made))]
        BY OthersType, BegunType DEF Roles, StateType, LocalsType
      <3>2. \A r \in CaptureLocals(Len(made)) : Cut(r) \in CaptureLocals(Len(made))
        BY OthersType, CaptureTypes
      <3>3. cap' = [d \in Slots |-> Cut(IF d = c THEN Begun("lock") ELSE cap[d])]
        BY DEF LockAndCapture
      <3> QED
        BY <3>1, <3>2, <3>3
    <2> QED
      BY <2>1, <2>2
  <1> QED
    BY <1>1, <1>2, <1>3, <1>4, StepType DEF StateType, HistoryType

-----------------------------------------------------------------------------
(* Jobs: what each of their steps makes of their locals. *)

LEMMA TypeBeginRestore ==
  ASSUME StateType, NEW j \in Jobs, NEW s \in 1..Len(made), BeginRestore(j, s) \/ BeginRebuild(j, s)
  PROVE  StateType'
  <1>1. /\ Len(made) \in Nat /\ made[s] \in Snapshots /\ edits \in Revs
        /\ cap \in [Slots -> CaptureLocals(Len(made))] /\ job \in [Jobs -> JobLocals(Len(made))]
        /\ NoJob \in JobLocals(Len(made)) /\ Begun("safety") \in CaptureLocals(Len(made))
    BY JobTypes, BegunType DEF StateType, HistoryType, ContentType, LocalsType, Roles
  <1>2. made[s].items \in Contents /\ made[s].files \in SUBSET Files
    BY <1>1 DEF Snapshots
  <1>3. ContentType' /\ ModeType'
    BY DEF BeginRestore, BeginRebuild, content, StateType, ContentType, ModeType
  <1>4. UNCHANGED <<made, stored, erased>>
    BY DEF BeginRestore, BeginRebuild, history
  <1>5. CASE BeginRestore(j, s)
    <2> DEFINE r == [NoJob EXCEPT !.kind = "restore", !.stage = "safety", !.clean = TRUE, !.since = edits,
                                  !.items = made[s].items, !.files = made[s].files]
    <2>1. r \in JobLocals(Len(made))
      BY <1>1, <1>2 DEF JobLocals
    <2>2. Then(j, r) /\ Now(j, Begun("safety"))
      BY <1>5 DEF BeginRestore
    <2> HIDE DEF r
    <2>3. job' \in [Jobs -> JobLocals(Len(made))] /\ cap' \in [Slots -> CaptureLocals(Len(made))]
      BY <1>1, <2>1, <2>2 DEF Then, Now
    <2> QED
      BY <1>3, <1>4, <2>3, StepType DEF StateType, HistoryType
  <1>6. CASE BeginRebuild(j, s)
    <2> DEFINE r == [NoJob EXCEPT !.kind = "rebuild", !.stage = "wipe", !.clean = TRUE,
                                  !.items = made[s].items, !.files = made[s].files]
    <2>1. r \in JobLocals(Len(made))
      BY <1>1, <1>2 DEF JobLocals, Steps
    <2>2. Then(j, r) /\ cap' = cap
      BY <1>6 DEF BeginRebuild
    <2> HIDE DEF r
    <2>3. job' \in [Jobs -> JobLocals(Len(made))]
      BY <1>1, <2>1, <2>2 DEF Then
    <2> QED
      BY <1>1, <1>3, <1>4, <2>2, <2>3, StepType DEF StateType, HistoryType
  <1> QED
    BY <1>5, <1>6

LEMMA TypeBeginImport ==
  ASSUME StateType, NEW j \in Jobs, NEW ids \in SUBSET Ids, NEW attached \in BOOLEAN,
         BeginImport(j, ids, attached)
  PROVE  StateType'
  <1> DEFINE f == IF attached THEN edits + 1 ELSE 0
             items == [i \in Ids |-> IF i \in ids THEN [rev |-> edits + 1, file |-> f] ELSE NoItem]
             r == [NoJob EXCEPT !.kind = "import", !.stage = "originals",
                                !.files = {f} \ {0}, !.items = items]
  <1>1. Then(j, r)
    BY DEF BeginImport
  <1>2. edits + 1 \in Revs /\ f \in Revs /\ {f} \ {0} \in SUBSET Files
    BY BackupsAssumption DEF BackupsAssumption, BeginImport, StateType, ContentType, Revs, Files
  <1> HIDE DEF f
  <1>3. items \in Contents
    BY <1>2, ContentsType DEF Contents
  <1> HIDE DEF items
  <1>4. r \in JobLocals(Len(made))
    <2>1. NoJob \in JobLocals(Len(made))
      BY OthersType, JobTypes
    <2> QED
      BY <1>2, <1>3, <2>1 DEF JobLocals, Steps
  <1> HIDE DEF r
  <1>5. job' \in [Jobs -> JobLocals(Len(made))]
    BY <1>1, <1>4 DEF Then, StateType, LocalsType
  <1>6. ContentType' /\ ModeType' /\ UNCHANGED <<made, stored, erased, cap>>
    BY <1>2 DEF BeginImport, history, StateType, ContentType, ModeType
  <1> QED
    BY <1>5, <1>6, StepType DEF StateType, HistoryType, LocalsType

LEMMA TypeReplace ==
  ASSUME StateType, NEW j \in Jobs,
         Replace(j) \/ SaveTarget(j) \/ SaveItems(j) \/ ReadOriginals(j)
  PROVE  StateType'
  <1>1. vault \in Contents /\ job[j] \in JobLocals(Len(made)) /\ session \in BOOLEAN
    BY DEF StateType, ContentType, ModeType, LocalsType
  <1>2. job[j].items \in Contents
    BY <1>1 DEF JobLocals
  <1>3. Over(job[j].items, vault) \in Contents
    BY <1>1, <1>2, OverType
  <1> DEFINE files_ == [job[j] EXCEPT !.stage = "files"]
             delete_ == [job[j] EXCEPT !.stage = "delete",
                                       !.todo = Present(vault) \ Present(job[j].items)]
             save_ == [job[j] EXCEPT !.stage = "save", !.clean = session,
                                     !.found = IF session THEN vault ELSE Empty]
  <1>4. files_ \in JobLocals(Len(made))
    BY <1>1 DEF JobLocals, Steps
  <1>5. delete_ \in JobLocals(Len(made))
    <2>1. Present(vault) \ Present(job[j].items) \in SUBSET Ids
      BY DEF Present
    <2> QED
      BY <1>1, <2>1 DEF JobLocals, Steps
  <1>6. save_ \in JobLocals(Len(made))
    <2>1. (IF session THEN vault ELSE Empty) \in Contents
      BY <1>1, ContentsType
    <2> QED
      BY <1>1, <2>1 DEF JobLocals, Steps
  <1>7. \/ Write(j, job[j].items, files_) \/ Write(j, Over(job[j].items, vault), files_)
        \/ (Then(j, files_) /\ UNCHANGED vault) \/ (Then(j, delete_) /\ UNCHANGED vault)
        \/ (Then(j, save_) /\ UNCHANGED vault)
    BY DEF Replace, SaveTarget, SaveItems, ReadOriginals, content
  <1>8. UNCHANGED <<files, form, edits, history, session, damaged, backend, settings, now, cap>>
    BY DEF Replace, SaveTarget, SaveItems, ReadOriginals, content
  <1> HIDE DEF files_, delete_, save_
  <1> QED
    BY <1>1, <1>2, <1>3, <1>4, <1>5, <1>6, <1>7, <1>8, JobStepType

LEMMA TypeDelete ==
  ASSUME StateType, NEW j \in Jobs,
         (\E i \in Ids : DeleteSurplus(j, i) \/ UndoInsert(j, i)) \/ UndoUpdates(j)
  PROVE  StateType'
  <1>1. vault \in Contents /\ job[j] \in JobLocals(Len(made)) /\ Len(made) \in Nat
    BY DEF StateType, ContentType, LocalsType, HistoryType
  <1>2. CASE \E i \in Ids : DeleteSurplus(j, i) \/ UndoInsert(j, i)
    <2> PICK i \in Ids : DeleteSurplus(j, i) \/ UndoInsert(j, i)
      BY <1>2
    <2> DEFINE r == [job[j] EXCEPT !.todo = @ \ {i}]
    <2>1. r \in JobLocals(Len(made))
      BY <1>1 DEF JobLocals
    <2>2. [vault EXCEPT ![i] = NoItem] \in Contents
      BY <1>1, ContentsType, PutType
    <2>3. Write(j, [vault EXCEPT ![i] = NoItem], r) \/ (Then(j, r) /\ UNCHANGED vault)
      BY DEF DeleteSurplus, UndoInsert
    <2>4. UNCHANGED <<files, form, edits, history, session, damaged, backend, settings, now, cap>>
      BY DEF DeleteSurplus, UndoInsert
    <2> HIDE DEF r
    <2> QED
      BY <2>1, <2>2, <2>3, <2>4, JobStepType
  <1>3. CASE UndoUpdates(j)
    <2>1. Failed(j) \in JobLocals(Len(made))
      BY <1>1, EndTypes
    <2>2. Replaced(j) \in Contents
      BY <1>1, ContentsType DEF JobLocals, Replaced, Contents
    <2>3. Over(Replaced(j), vault) \in Contents
      BY <1>1, <2>2, OverType
    <2> QED
      BY <1>3, <2>1, <2>3, <1>1, JobStepType DEF UndoUpdates
  <1> QED
    BY <1>2, <1>3

LEMMA TypeRebuild ==
  ASSUME StateType, NEW j \in Jobs, Wipe(j) \/ OpenRebuilt(j)
  PROVE  StateType'
  <1>1. /\ job[j] \in JobLocals(Len(made)) /\ 0 \in Revs /\ Len(made) \in Nat
        /\ job \in [Jobs -> JobLocals(Len(made))]
    BY BackupsAssumption DEF BackupsAssumption, StateType, HistoryType, LocalsType, Revs
  <1> DEFINE r(stage) == [job[j] EXCEPT !.stage = stage]
  <1>2. r("open") \in JobLocals(Len(made)) /\ r("save") \in JobLocals(Len(made))
    BY <1>1 DEF JobLocals, Steps
  <1>3. UNCHANGED <<made, stored, erased>>
    BY DEF Wipe, OpenRebuilt, history
  <1>4. CASE Wipe(j)
    <2>1. Write(j, Empty, r("open"))
      BY <1>4 DEF Wipe
    <2>2. job' \in [Jobs -> JobLocals(Len(made))] /\ vault' \in Contents
      BY <1>1, <1>2, <2>1, OthersType, ContentsType DEF Write
    <2>3. cap' \in [Slots -> CaptureLocals(Len(made))]
      BY <1>4, OthersType DEF Wipe, Shut
    <2>4. ContentType' /\ ModeType'
      BY <1>1, <1>4, <2>2 DEF Wipe, Shut, StateType, ContentType, ModeType
    <2> QED
      BY <1>3, <2>2, <2>3, <2>4, StepType DEF StateType, HistoryType
  <1>5. CASE OpenRebuilt(j)
    <2>1. Then(j, r("save"))
      BY <1>5 DEF OpenRebuilt
    <2>2. job' \in [Jobs -> JobLocals(Len(made))]
      BY <1>1, <1>2, <2>1 DEF Then
    <2>3. ContentType' /\ ModeType' /\ cap' = cap
      BY <1>5 DEF OpenRebuilt, content, StateType, ContentType, ModeType
    <2> QED
      BY <1>3, <2>2, <2>3, StepType DEF StateType, HistoryType, LocalsType
  <1> QED
    BY <1>4, <1>5

LEMMA TypeLeave ==
  ASSUME StateType, NEW j \in Jobs, PutFiles(j) \/ JobFails(j)
  PROVE  StateType'
  <1>1. /\ job[j] \in JobLocals(Len(made)) /\ 0 \in Revs /\ Len(made) \in Nat
        /\ job \in [Jobs -> JobLocals(Len(made))] /\ NoJob \in JobLocals(Len(made))
    BY BackupsAssumption, OthersType, JobTypes
       DEF BackupsAssumption, StateType, HistoryType, LocalsType, Revs
  <1>2. PICK r \in JobLocals(Len(made)) : Leave(j, r)
    BY <1>1, EndTypes DEF PutFiles, JobFails
  <1>3. job' \in [Jobs -> JobLocals(Len(made))]
    BY <1>1, <1>2, OthersType DEF Leave, Then
  <1>4. cap' \in [Slots -> CaptureLocals(Len(made))] /\ session' \in BOOLEAN /\ form' \in Revs
    BY <1>1, <1>2, OthersType DEF Leave, Shut, StateType, LocalsType, ModeType, ContentType
  <1>5. files' \subseteq Files
    BY <1>1 DEF PutFiles, JobFails, StateType, ContentType, JobLocals
  <1>6. ContentType' /\ ModeType' /\ UNCHANGED <<made, stored, erased>>
    BY <1>4, <1>5 DEF PutFiles, JobFails, history, StateType, ContentType, ModeType
  <1> QED
    BY <1>3, <1>4, <1>6, StepType DEF StateType, HistoryType

(* Nothing but the count of events changes in a step that stutters. *)
LEMMA TypeStep == ASSUME StateType, [Next]_vars PROVE StateType'
  <1>1. CASE UNCHANGED vars
    BY <1>1 DEF vars, content, history, StateType, ContentType, ModeType, HistoryType, LocalsType
  <1>2. ASSUME NEW c \in Slots, Continue(c) PROVE StateType'
    BY <1>2, TypeReading, TypeStore, TypeRetention DEF Continue
  <1>3. ASSUME NEW j \in Jobs, Proceed(j) PROVE StateType'
    BY <1>3, TypeReplace, TypeDelete, TypeRebuild, TypeLeave DEF Proceed
  <1>4. ASSUME NEW j \in Jobs, Begin(j) PROVE StateType'
    BY <1>4, TypeBeginRestore, TypeBeginImport DEF Begin
  <1>5. CASE User
    BY <1>4, <1>5, TypeBeginCapture, TypeUser, TypeEdit, TypeLock DEF User, Slots
  <1>6. CASE Happens
    BY <1>5, <1>6, TypeBeginCapture, TypeUser, TypeLock, TypeLeave DEF Happens, Slots
  <1> QED
    BY <1>1, <1>2, <1>3, <1>6, TypeUser DEF Next

(* TypeOK: what captures, prunes and jobs keep across their awaits are     *)
(* snapshots that were stored, items of the vault and settings on offer.   *)
THEOREM TypeCorrect == Spec => []TypeOK
  <1>1. Init => TypeOK
    BY TypeInit
  <1>2. TypeOK /\ [Next]_vars => TypeOK'
    <2> SUFFICES ASSUME TypeOK, [Next]_vars PROVE TypeOK'
      OBVIOUS
    <2>1. StateType'
      BY TypeStep DEF TypeOK, StateType
    <2>2. events' \in 0..MaxEvents
      BY BackupsAssumption DEF BackupsAssumption, TypeOK, Next, vars
    <2> QED
      BY <2>1, <2>2 DEF TypeOK, StateType
  <1> QED
    BY <1>1, <1>2, PTL DEF Spec

-----------------------------------------------------------------------------
(* Retention and the attachments of snapshots: the inductive invariants. *)

(* What a prune has marked is outnumbered, and every prune has a limit     *)
(* that is on offer.                                                       *)
Pruner(r) ==
  /\ \A s \in r.todo : Outnumbered(s)
  /\ r.stage # "idle" => r.limit \in Limits \cup {DefaultLimit}

RetentionInv == RecentSurvive /\ \A c \in Slots : Pruner(cap[c])

(* What a capture owes is there, or read already; the lock takes the debt. *)
Owing(r) ==
  /\ r.owed # {} => session
  /\ r.stage = "files" => r.owed \subseteq files
  /\ r.stage = "decrypt" => r.owed \subseteq r.raw \cup r.got

FilesInv == SnapshotsHoldTheFiles /\ \A c \in Slots : Owing(cap[c])

CaptureInv == RetentionInv /\ FilesInv

(* The snapshots that rank a given one. *)
Later(s) == {o \in 1..Len(made) \ {s} : made[s].at <= made[o].at}

LEMMA LaterFinite ==
  ASSUME made \in Seq(Snapshots), NEW s
  PROVE  IsFiniteSet(Later(s)) /\ Cardinality(Later(s)) \in Nat
  <1>1. IsFiniteSet(1..Len(made))
    BY FS_Interval
  <1>2. Later(s) \in SUBSET (1..Len(made))
    BY DEF Later
  <1>3. IsFiniteSet(Later(s))
    BY <1>1, <1>2, FS_Subset
  <1> QED
    BY <1>3, FS_CardinalityType

LEMMA SameRanks ==
  ASSUME made' = made
  PROVE  \A s : Outnumbered(s) <=> Outnumbered(s)'
  BY DEF Outnumbered

(* Another snapshot never makes one less outnumbered. *)
LEMMA MoreRanks ==
  ASSUME made \in Seq(Snapshots), NEW x \in Snapshots, made' = Append(made, x),
         NEW s \in 1..Len(made), Outnumbered(s)
  PROVE  Outnumbered(s)'
  <1>1. made' \in Seq(Snapshots) /\ \A o \in 1..Len(made) : o \in 1..Len(made') /\ made'[o] = made[o]
    OBVIOUS
  <1>2. Later(s) \in SUBSET (Later(s)')
    BY <1>1 DEF Later
  <1>3. IsFiniteSet(Later(s)) /\ Cardinality(Later(s)) \in Nat
    BY LaterFinite
  <1>4. IsFiniteSet(Later(s)') /\ Cardinality(Later(s)') \in Nat
    <2>1. IsFiniteSet(1..Len(made'))
      BY <1>1, FS_Interval
    <2>2. Later(s)' \in SUBSET (1..Len(made'))
      BY DEF Later
    <2>3. IsFiniteSet(Later(s)')
      BY <2>1, <2>2, FS_Subset
    <2> QED
      BY <2>3, FS_CardinalityType
  <1>5. Cardinality(Later(s)) <= Cardinality(Later(s)')
    BY <1>2, <1>4, FS_Subset
  <1>6. Cardinality(Later(s)) >= Least
    BY DEF Outnumbered, Later
  <1>7. Cardinality(Later(s)') >= Least
    BY <1>3, <1>4, <1>5, <1>6, BackupsAssumption DEF BackupsAssumption
  <1> QED
    BY <1>7 DEF Outnumbered, Later

(* What a prune takes: whatever is not among the newest is outnumbered. *)
LEMMA SurplusOutnumbered ==
  ASSUME StateType, NEW n \in Limits \cup {DefaultLimit}, NEW kept \in SUBSET stored, Newest(kept, n),
         NEW s \in stored \ kept
  PROVE  Outnumbered(s)
  <1>1. made \in Seq(Snapshots) /\ Len(made) \in Nat /\ stored \subseteq 1..Len(made)
    BY DEF StateType, HistoryType
  <1>2. IsFiniteSet(stored) /\ IsFiniteSet(kept) /\ Cardinality(kept) \in Nat
    <2>1. IsFiniteSet(1..Len(made)) /\ stored \in SUBSET (1..Len(made))
      BY <1>1, FS_Interval
    <2>2. IsFiniteSet(stored)
      BY <2>1, FS_Subset
    <2> QED
      BY <2>2, FS_Subset, FS_CardinalityType
  <1>3. Cardinality(kept) # Cardinality(stored)
    BY <1>2, FS_Subset
  <1>4. Cardinality(kept) = n
    BY <1>3 DEF Newest
  <1>5. kept \in SUBSET Later(s)
    BY <1>1 DEF Newest, Later
  <1>6. IsFiniteSet(Later(s)) /\ Cardinality(Later(s)) \in Nat
    BY <1>1, LaterFinite
  <1>7. Cardinality(kept) <= Cardinality(Later(s))
    BY <1>5, <1>6, FS_Subset
  <1>8. Least <= n /\ Least \in Nat
    BY BackupsAssumption DEF BackupsAssumption
  <1>9. Cardinality(Later(s)) >= Least
    BY <1>2, <1>4, <1>6, <1>7, <1>8
  <1> QED
    BY <1>9 DEF Outnumbered, Later

(* Four kinds of step.  The first leaves the captures alone. *)
LEMMA QuietStep ==
  ASSUME StateType, CaptureInv, made' = made, cap' = cap,
         stored \cup erased \subseteq stored' \cup erased',
         session' = session \/ session' = TRUE, files \subseteq files'
  PROVE  CaptureInv'
  <1>1. \A s : Outnumbered(s) <=> Outnumbered(s)'
    BY SameRanks
  <1>2. RetentionInv'
    BY <1>1 DEF CaptureInv, RetentionInv, RecentSurvive, Pruner
  <1>3. FilesInv'
    BY DEF CaptureInv, FilesInv, SnapshotsHoldTheFiles, Owing
  <1> QED
    BY <1>2, <1>3 DEF CaptureInv

(* The second closes the session. *)
LEMMA ShutStep ==
  ASSUME StateType, CaptureInv, UNCHANGED history, cap' \in [Slots -> CaptureLocals(Len(made))],
         \A c \in Slots : cap'[c].owed = {} /\ Pruner(cap'[c])
  PROVE  CaptureInv'
  <1>1. \A s : Outnumbered(s) <=> Outnumbered(s)'
    BY SameRanks DEF history
  <1>2. RetentionInv'
    BY <1>1 DEF CaptureInv, RetentionInv, RecentSurvive, Pruner, history
  <1>3. FilesInv'
    BY DEF CaptureInv, FilesInv, SnapshotsHoldTheFiles, Owing, history
  <1> QED
    BY <1>2, <1>3 DEF CaptureInv

LEMMA ShutIsShut ==
  ASSUME StateType, CaptureInv, Shut
  PROVE  \A c \in Slots : cap'[c].owed = {} /\ Pruner(cap'[c])
  <1> SUFFICES ASSUME NEW c \in Slots PROVE cap'[c].owed = {} /\ Pruner(cap'[c])
    OBVIOUS
  <1>1. cap'[c] = Cut(cap[c]) /\ cap[c] \in CaptureLocals(Len(made)) /\ Pruner(cap[c])
    BY DEF Shut, StateType, LocalsType, CaptureInv, RetentionInv
  <1>2. Cut(cap[c]).owed = {} /\ Cut(cap[c]).todo = cap[c].todo /\ Cut(cap[c]).limit = cap[c].limit
        /\ Cut(cap[c]).stage = cap[c].stage
    BY <1>1 DEF Cut, CaptureLocals
  <1> QED
    BY <1>1, <1>2 DEF Pruner

(* The third changes the locals of one capture, and may take snapshots. *)
LEMMA NowStep ==
  ASSUME StateType, CaptureInv, NEW c \in Slots, NEW r \in CaptureLocals(Len(made)), Now(c, r),
         Owing(r), Pruner(r), UNCHANGED <<made, files, session, erased>>,
         \A s \in stored : s \in stored' \/ Outnumbered(s)
  PROVE  CaptureInv'
  <1>1. \A s : Outnumbered(s) <=> Outnumbered(s)'
    BY SameRanks
  <1>2. \A d \in Slots : cap'[d] = r \/ cap'[d] = cap[d]
    BY DEF Now, StateType, LocalsType
  <1>3. RetentionInv'
    BY <1>1, <1>2 DEF CaptureInv, RetentionInv, RecentSurvive, Pruner
  <1>4. FilesInv'
    BY <1>2 DEF CaptureInv, FilesInv, SnapshotsHoldTheFiles, Owing
  <1> QED
    BY <1>3, <1>4 DEF CaptureInv

(* The fourth stores a snapshot. *)
LEMMA StoreStep ==
  ASSUME StateType, CaptureInv, NEW c \in Slots, Store(c)
  PROVE  CaptureInv'
  <1> DEFINE r == [NoCapture EXCEPT !.stage = "list", !.role = cap[c].role, !.live = cap[c].live,
                                    !.limit = cap[c].limit, !.index = Len(made) + 1]
  <1>1. /\ made \in Seq(Snapshots) /\ Len(made) \in Nat /\ stored \subseteq 1..Len(made)
        /\ cap \in [Slots -> CaptureLocals(Len(made))]
    BY DEF StateType, HistoryType, LocalsType
  <1>2. Record(c) \in Snapshots /\ made' = Append(made, Record(c))
        /\ stored' = stored \cup {Len(made) + 1} /\ erased' = erased
    BY TypeRecord DEF Store
  <1>3. Record(c).owed = cap[c].owed /\ Record(c).files = cap[c].got
    BY DEF Record
  <1>4. /\ made' \in Seq(Snapshots) /\ Len(made') = Len(made) + 1
        /\ made'[Len(made) + 1] = Record(c)
        /\ \A s \in 1..Len(made) : made'[s] = made[s]
    BY <1>1, <1>2
  <1>5. \A s \in 1..Len(made') : s \in 1..Len(made) \/ s = Len(made) + 1
    BY <1>1, <1>4
  <1>6. \A s \in 1..Len(made) : Outnumbered(s) => Outnumbered(s)'
    BY <1>1, <1>2, MoreRanks
  <1>7. cap' = [cap EXCEPT ![c] = r] /\ session' = session /\ files' = files
    BY DEF Store, Now, content
  <1>8. r.owed = {} /\ r.todo = {} /\ r.stage = "list" /\ r.limit = cap[c].limit
    BY DEF NoCapture
  <1> HIDE DEF r
  <1>9. \A d \in Slots : cap'[d] = cap[d] \/ (d = c /\ cap'[d] = r)
    BY <1>1, <1>7
  <1>10. RecentSurvive'
    BY <1>1, <1>2, <1>5, <1>6 DEF CaptureInv, RetentionInv, RecentSurvive
  <1>11. \A d \in Slots : Pruner(cap[d])' 
    <2> SUFFICES ASSUME NEW d \in Slots PROVE Pruner(cap[d])'
      OBVIOUS
    <2>1. CASE cap'[d] = cap[d]
      <3>1. cap[d].todo \subseteq 1..Len(made) /\ Pruner(cap[d])
        BY <1>1 DEF CaptureInv, RetentionInv, CaptureLocals
      <3> QED
        BY <1>6, <2>1, <3>1 DEF Pruner
    <2>2. CASE d = c /\ cap'[d] = r
      <3>1. cap[c].limit \in Limits \cup {DefaultLimit}
        BY DEF Store, CaptureInv, RetentionInv, Pruner
      <3> QED
        BY <1>8, <2>2, <3>1 DEF Pruner
    <2> QED
      BY <1>9, <2>1, <2>2
  <1>12. SnapshotsHoldTheFiles'
    <2>1. cap[c].owed \subseteq cap[c].got
      BY <1>1 DEF Store, CaptureInv, FilesInv, Owing
    <2> QED
      BY <1>3, <1>4, <1>5, <2>1 DEF CaptureInv, FilesInv, SnapshotsHoldTheFiles
  <1>13. \A d \in Slots : Owing(cap[d])'
    BY <1>7, <1>8, <1>9 DEF CaptureInv, FilesInv, Owing
  <1> QED
    BY <1>10, <1>11, <1>12, <1>13 DEF CaptureInv, RetentionInv, FilesInv

LEMMA CaptureInit == ASSUME Init PROVE CaptureInv
  <1>1. \A s \in 1..Len(made) : made[s].owed \subseteq made[s].files
    BY DEF Init
  <1>2. \A c \in Slots : Pruner(cap[c]) /\ Owing(cap[c])
    BY DEF Init, NoCapture, Pruner, Owing
  <1> QED
    BY <1>1, <1>2 DEF Init, CaptureInv, RetentionInv, FilesInv, RecentSurvive, SnapshotsHoldTheFiles

LEMMA NoCaptureStands == Pruner(NoCapture) /\ Owing(NoCapture)
  BY DEF NoCapture, Pruner, Owing

LEMMA BegunStands ==
  ASSUME StateType, NEW role \in Roles
  PROVE  /\ session => Owing(Begun(role))
         /\ Pruner(Begun(role)) /\ Pruner(Cut(Begun(role))) /\ Cut(Begun(role)).owed = {}
  <1>1. /\ Begun(role).stage = "files" /\ Begun(role).todo = {}
        /\ Begun(role).owed = Referred(vault) \cap files
        /\ Begun(role).limit \in Limits \cup {DefaultLimit}
    BY DEF Begun, NoCapture, StateType, ModeType, Settings
  <1>2. Begun(role) \in CaptureLocals(Len(made))
    BY OthersType, BegunType
  <1>3. LET q == Cut(Begun(role)) IN
        q.owed = {} /\ q.todo = Begun(role).todo /\ q.limit = Begun(role).limit
    BY <1>2 DEF Cut, CaptureLocals
  <1> QED
    BY <1>1, <1>3 DEF Pruner, Owing

LEMMA CaptureReading ==
  ASSUME StateType, CaptureInv, NEW c \in Slots,
         ListFiles(c) \/ (\E f \in Files : DecryptFile(c, f))
  PROVE  CaptureInv'
  <1>1. /\ cap[c] \in CaptureLocals(Len(made)) /\ files \subseteq Files
        /\ Pruner(cap[c]) /\ Owing(cap[c])
    BY DEF StateType, LocalsType, ContentType, CaptureInv, RetentionInv, FilesInv
  <1>2. CASE ListFiles(c)
    <2> DEFINE r == [cap[c] EXCEPT !.stage = "decrypt", !.raw = files]
    <2>1. r \in CaptureLocals(Len(made))
      BY <1>1 DEF CaptureLocals, Reading
    <2>2. r.stage = "decrypt" /\ r.raw = files /\ r.owed = cap[c].owed /\ r.todo = cap[c].todo
          /\ r.limit = cap[c].limit
      BY <1>1 DEF CaptureLocals
    <2>3. Now(c, r) /\ cap[c].stage = "files"
      BY <1>2 DEF ListFiles
    <2> HIDE DEF r
    <2>4. Owing(r) /\ Pruner(r)
      BY <1>1, <2>2, <2>3 DEF Owing, Pruner
    <2> QED
      BY <1>2, <2>1, <2>3, <2>4, NowStep DEF ListFiles, history, content
  <1>3. CASE \E f \in Files : DecryptFile(c, f)
    <2> PICK f \in Files : DecryptFile(c, f)
      BY <1>3
    <2> DEFINE got == IF session THEN cap[c].got \cup {f} ELSE cap[c].got
               r == [cap[c] EXCEPT !.raw = @ \ {f}, !.got = IF session THEN @ \cup {f} ELSE @]
    <2>1. r \in CaptureLocals(Len(made))
      BY <1>1 DEF CaptureLocals
    <2>2. r.stage = cap[c].stage /\ r.raw = cap[c].raw \ {f} /\ r.got = got /\ r.owed = cap[c].owed
          /\ r.todo = cap[c].todo /\ r.limit = cap[c].limit
      BY <1>1 DEF CaptureLocals
    <2>3. Now(c, r) /\ cap[c].stage = "decrypt"
      BY DEF DecryptFile
    <2> HIDE DEF r
    <2>4. Owing(r) /\ Pruner(r)
      BY <1>1, <2>2, <2>3 DEF Owing, Pruner
    <2> QED
      BY <2>1, <2>3, <2>4, NowStep DEF DecryptFile, history, content
  <1> QED
    BY <1>2, <1>3

LEMMA CapturePruned ==
  ASSUME StateType, CaptureInv, NEW c \in Slots, cap[c].stage \in Pruning,
         NEW todo \in SUBSET (1..Len(made)), \A s \in todo : Outnumbered(s), Pruned(c, todo),
         UNCHANGED <<made, files, session, erased>>, \A s \in stored : s \in stored' \/ Outnumbered(s)
  PROVE  CaptureInv'
  <1>1. /\ cap[c] \in CaptureLocals(Len(made)) /\ Len(made) \in Nat
        /\ Pruner(cap[c]) /\ Owing(cap[c])
    BY DEF StateType, LocalsType, HistoryType, CaptureInv, RetentionInv, FilesInv
  <1>2. cap[c].limit \in Limits \cup {DefaultLimit}
    BY <1>1 DEF Pruner, Pruning
  <1> DEFINE more == [cap[c] EXCEPT !.stage = "prune", !.todo = todo]
             again == [cap[c] EXCEPT !.stage = "list", !.todo = {}, !.index = 0]
  <1>3. more \in CaptureLocals(Len(made)) /\ again \in CaptureLocals(Len(made))
        /\ NoCapture \in CaptureLocals(Len(made))
    <2>1. more \in CaptureLocals(Len(made))
      BY <1>1 DEF CaptureLocals, Pruning
    <2> QED
      BY <1>1, <2>1, AgainType, CaptureTypes
  <1>4. /\ more.stage = "prune" /\ more.todo = todo /\ more.limit = cap[c].limit /\ more.owed = cap[c].owed
        /\ again.stage = "list" /\ again.todo = {} /\ again.limit = cap[c].limit
        /\ again.owed = cap[c].owed
    BY <1>1 DEF CaptureLocals
  <1>5. Now(c, more) \/ Now(c, again) \/ Now(c, NoCapture)
    BY DEF Pruned
  <1> HIDE DEF more, again
  <1>6. Owing(more) /\ Pruner(more) /\ Owing(again) /\ Pruner(again)
    BY <1>1, <1>2, <1>4 DEF Owing, Pruner
  <1> QED
    BY <1>3, <1>5, <1>6, NoCaptureStands, NowStep

LEMMA CaptureRetention ==
  ASSUME StateType, CaptureInv, NEW c \in Slots,
         (\E kept \in SUBSET stored : List(c, kept)) \/ (\E s \in 1..Len(made) : Prune(c, s))
  PROVE  CaptureInv'
  <1>1. /\ stored \subseteq 1..Len(made) /\ cap[c].todo \subseteq 1..Len(made) /\ Pruner(cap[c])
    BY DEF StateType, HistoryType, LocalsType, CaptureLocals, CaptureInv, RetentionInv
  <1>2. CASE \E kept \in SUBSET stored : List(c, kept)
    <2> PICK kept \in SUBSET stored : List(c, kept)
      BY <1>2
    <2>1. Limit(c) \in Limits \cup {DefaultLimit}
      BY <1>1 DEF List, Limit, Pruner
    <2>2. \A s \in stored \ kept : Outnumbered(s)
      BY <2>1, SurplusOutnumbered DEF List
    <2> QED
      BY <1>1, <2>2, CapturePruned DEF List, Pruning, history, content
  <1>3. CASE \E s \in 1..Len(made) : Prune(c, s)
    <2> PICK s \in 1..Len(made) : Prune(c, s)
      BY <1>3
    <2>1. \A d \in cap[c].todo : Outnumbered(d)
      BY <1>1 DEF Pruner
    <2> QED
      BY <1>1, <2>1, CapturePruned DEF Prune, Pruning, content
  <1> QED
    BY <1>2, <1>3

LEMMA CaptureBegins ==
  ASSUME StateType, CaptureInv, NEW c \in Slots,
         \/ BeginManual(c) \/ BeginScheduled(c) \/ CaptureFails(c)
         \/ (\E n \in Limits : ChooseLimit(c, n))
         \/ (\E s \in 1..Len(made) : BeginRestore(c, s))
  PROVE  CaptureInv'
  <1>1. Len(made) \in Nat /\ NoCapture \in CaptureLocals(Len(made))
    BY OthersType, CaptureTypes
  <1>2. \A role \in Roles : Begun(role) \in CaptureLocals(Len(made))
    BY <1>1, BegunType
  <1>3. CASE \/ BeginManual(c) \/ BeginScheduled(c)
             \/ (\E s \in 1..Len(made) : BeginRestore(c, s))
    <2>1. session /\ \E role \in Roles : Now(c, Begun(role))
      BY <1>3 DEF BeginManual, BeginScheduled, BeginRestore, Roles
    <2>2. PICK role \in Roles : Now(c, Begun(role))
      BY <2>1
    <2>3. Owing(Begun(role)) /\ Pruner(Begun(role))
      BY <2>1, BegunStands
    <2>4. UNCHANGED <<made, files, session, erased, stored>>
      BY <1>3 DEF BeginManual, BeginScheduled, BeginRestore, history, content
    <2> QED
      BY <1>2, <2>2, <2>3, <2>4, NowStep
  <1>4. CASE CaptureFails(c)
    BY <1>1, <1>4, NoCaptureStands, NowStep DEF CaptureFails, history, content
  <1>5. CASE \E n \in Limits : ChooseLimit(c, n)
    <2> PICK n \in Limits : ChooseLimit(c, n)
      BY <1>5
    <2> DEFINE r == [NoCapture EXCEPT !.stage = "list", !.role = "settings", !.limit = n]
    <2>1. r \in CaptureLocals(Len(made))
      BY <1>1 DEF CaptureLocals, Pruning, Roles
    <2>2. r.stage = "list" /\ r.owed = {} /\ r.todo = {} /\ r.limit = n
      BY DEF NoCapture
    <2>3. Now(c, r)
      BY DEF ChooseLimit
    <2> HIDE DEF r
    <2>4. Owing(r) /\ Pruner(r)
      BY <2>2 DEF Owing, Pruner
    <2> QED
      BY <2>1, <2>3, <2>4, NowStep DEF ChooseLimit, history, content
  <1> QED
    BY <1>3, <1>4, <1>5

LEMMA CaptureShut ==
  ASSUME StateType, CaptureInv, StateType',
         \/ Lock \/ Restart \/ (\E c \in Captures : LockAndCapture(c))
         \/ (\E j \in Jobs : Wipe(j)) \/ (Shut /\ UNCHANGED history)
  PROVE  CaptureInv'
  <1>1. UNCHANGED history
    BY DEF Lock, Restart, LockAndCapture, Wipe
  <1>2. cap' \in [Slots -> CaptureLocals(Len(made))]
    BY <1>1 DEF history, StateType, LocalsType
  <1>3. CASE Lock \/ (\E j \in Jobs : Wipe(j)) \/ (Shut /\ UNCHANGED history)
    <2>1. Shut
      BY <1>3 DEF Lock, Wipe
    <2> QED
      BY <1>1, <1>2, <2>1, ShutIsShut, ShutStep
  <1>4. CASE Restart
    <2>1. \A c \in Slots : cap'[c] = NoCapture
      BY <1>4 DEF Restart
    <2>2. NoCapture.owed = {}
      BY DEF NoCapture
    <2> QED
      BY <1>1, <1>2, <2>1, <2>2, NoCaptureStands, ShutStep
  <1>5. CASE \E c \in Captures : LockAndCapture(c)
    <2> PICK c \in Captures : LockAndCapture(c)
      BY <1>5
    <2>1. cap' = [d \in Slots |-> Cut(IF d = c THEN Begun("lock") ELSE cap[d])]
      BY DEF LockAndCapture
    <2>2. ASSUME NEW d \in Slots PROVE cap'[d].owed = {} /\ Pruner(cap'[d])
      <3>1. CASE d = c
        BY <2>1, <3>1, BegunStands DEF Roles
      <3>2. CASE d # c
        <4>1. cap'[d] = Cut(cap[d]) /\ cap[d] \in CaptureLocals(Len(made)) /\ Pruner(cap[d])
          BY <2>1, <3>2 DEF StateType, LocalsType, CaptureInv, RetentionInv
        <4>2. LET q == Cut(cap[d]) IN
              q.owed = {} /\ q.todo = cap[d].todo /\ q.limit = cap[d].limit /\ q.stage = cap[d].stage
          BY <4>1 DEF Cut, CaptureLocals
        <4> QED
          BY <4>1, <4>2 DEF Pruner
      <3> QED
        BY <3>1, <3>2
    <2> QED
      BY <1>1, <1>2, <2>2, ShutStep
  <1> QED
    BY <1>3, <1>4, <1>5

LEMMA CaptureQuiet ==
  ASSUME StateType, CaptureInv,
         \/ (\E s \in 1..Len(made) : Erase(s)) \/ EraseAll
         \/ (\E f \in Frequencies \cup {"off"} : ChooseFrequency(f))
         \/ Unlock \/ Clock \/ Attach
         \/ (\E i \in Ids, f \in Revs : Edit(i, f)) \/ (\E i \in Ids : Delete(i))
  PROVE  CaptureInv'
  <1>1. made' = made /\ cap' = cap /\ (session' = session \/ session' = TRUE) /\ files \subseteq files'
    BY DEF Erase, EraseAll, ChooseFrequency, Unlock, Clock, Attach, Edit, Delete, history, content
  <1>2. stored \cup erased \subseteq stored' \cup erased'
    BY DEF Erase, EraseAll, ChooseFrequency, Unlock, Clock, Attach, Edit, Delete, history
  <1> QED
    BY <1>1, <1>2, QuietStep

LEMMA CaptureJobs ==
  ASSUME StateType, CaptureInv, StateType', NEW j \in Jobs, Proceed(j) \/ Begin(j) \/ JobFails(j)
  PROVE  CaptureInv'
  <1>1. CASE \E s \in 1..Len(made) : BeginRestore(j, s)
    BY <1>1, CaptureBegins DEF Slots
  <1>2. CASE Wipe(j)
    BY <1>2, CaptureShut
  <1>3. CASE PutFiles(j) \/ JobFails(j)
    <2>1. UNCHANGED history /\ files \subseteq files'
      BY <1>3 DEF PutFiles, JobFails
    <2>2. Shut \/ UNCHANGED <<session, form, cap>>
      BY <1>3 DEF PutFiles, JobFails, Leave
    <2> QED
      BY <2>1, <2>2, CaptureShut, QuietStep DEF history
  <1>4. CASE \/ (\E i \in Ids : DeleteSurplus(j, i) \/ UndoInsert(j, i))
             \/ Replace(j) \/ SaveTarget(j) \/ ReadOriginals(j) \/ SaveItems(j) \/ UndoUpdates(j)
             \/ OpenRebuilt(j) \/ (\E s \in 1..Len(made) : BeginRebuild(j, s))
             \/ (\E ids \in SUBSET Ids \ {{}}, attached \in BOOLEAN : BeginImport(j, ids, attached))
    <2>1. made' = made /\ stored' = stored /\ erased' = erased /\ cap' = cap /\ files' = files
          /\ (session' = session \/ session' = TRUE)
      BY <1>4 DEF DeleteSurplus, UndoInsert, Replace, SaveTarget, ReadOriginals, SaveItems,
         UndoUpdates, OpenRebuilt, BeginRebuild, BeginImport, history, content
    <2> QED
      BY <2>1, QuietStep
  <1> QED
    BY <1>1, <1>2, <1>3, <1>4 DEF Proceed, Begin

LEMMA CaptureStep == ASSUME StateType, StateType', CaptureInv, [Next]_vars PROVE CaptureInv'
  <1>1. CASE UNCHANGED vars
    BY <1>1, QuietStep DEF vars, content, history
  <1>2. ASSUME NEW c \in Slots, Continue(c) PROVE CaptureInv'
    BY <1>2, CaptureReading, StoreStep, CaptureRetention DEF Continue
  <1>3. CASE User
    BY <1>3, CaptureBegins, CaptureQuiet, CaptureJobs, CaptureShut DEF User, Slots
  <1>4. CASE Happens
    BY <1>3, <1>4, CaptureBegins, CaptureQuiet, CaptureJobs, CaptureShut DEF Happens, Slots
  <1> QED
    BY <1>1, <1>2, <1>4, CaptureJobs, CaptureQuiet DEF Next

LEMMA CaptureInvariant == Spec => [](TypeOK /\ CaptureInv)
  <1>1. Init => CaptureInv
    BY CaptureInit
  <1>2. CaptureInv /\ TypeOK /\ TypeOK' /\ [Next]_vars => CaptureInv'
    BY CaptureStep DEF TypeOK, StateType
  <1> QED
    BY <1>1, <1>2, TypeCorrect, PTL DEF Spec

(* RecentSurvive: retention takes only from the old end. *)
THEOREM RetentionTakesTheOldest == Spec => []RecentSurvive
  <1>1. CaptureInv => RecentSurvive
    BY DEF CaptureInv, RetentionInv
  <1> QED
    BY <1>1, CaptureInvariant, PTL

(* SnapshotsHoldTheFiles: a snapshot taken while the vault stayed open,    *)
(* beside no change of its password, holds the attachments of its items    *)
(* that the key of the session opens.                                      *)
THEOREM SnapshotsAreWhole == Spec => []SnapshotsHoldTheFiles
  <1>1. CaptureInv => SnapshotsHoldTheFiles
    BY DEF CaptureInv, FilesInv
  <1> QED
    BY <1>1, CaptureInvariant, PTL

-----------------------------------------------------------------------------
(* Jobs: where an undisturbed job stands between its steps. *)

(* In a rollback (r the locals, v the items): what it need not touch is as *)
(* it was found, and of what the import inserted only todo is left.        *)
Undone(r, v) ==
  /\ r.todo \subseteq Present(r.items) \ Present(r.found)
  /\ \A i \in Ids : /\ r.items[i] = NoItem => v[i] = r.found[i]
                    /\ r.items[i] # NoItem /\ r.found[i] = NoItem /\ i \notin r.todo => v[i] = NoItem

(* fs are the attachments, open says whether the vault is. *)
Standing(r, v, fs, open) ==
  /\ r.stage # "originals"
  /\ r.stage \in {"safety", "replace", "delete", "save", "files", "undo"} => open
  /\ r.stage \in {"safety", "replace", "delete", "wipe", "open"} => r.found = Empty /\ r.kind # "import"
  /\ r.stage = "delete" => Present(v) \subseteq Present(r.items) \cup r.todo
  /\ r.stage = "open" => v = Empty
  /\ r.stage = "save" => v = r.found
  /\ r.stage = "files" => v = Over(r.items, r.found)
  /\ r.stage = "undo" => Undone(r, v)
  /\ r.stage = "done" => v = Over(r.items, r.found) /\ r.files \subseteq fs
  /\ r.stage = "failed" /\ r.kind = "import" => v = r.found

(* The capture in a job's slot is the safety snapshot the job waits for. *)
Awaited(j) == cap[j].stage # "idle" => job[j].stage = "safety" /\ cap[j].role = "safety"

JobInv ==
  \A j \in Jobs : Awaited(j) /\ (job[j].clean => Standing(job[j], vault, files, session))

LEMMA StandingMonotone ==
  ASSUME NEW r, NEW v, NEW fs, NEW gs, fs \subseteq gs, NEW open \in BOOLEAN, NEW wide \in BOOLEAN,
         open => wide, Standing(r, v, fs, open)
  PROVE  Standing(r, v, gs, wide)
  BY DEF Standing

LEMMA DisturbedStands ==
  ASSUME NEW n, NEW r \in JobLocals(n)
  PROVE  Disturbed(r).clean = FALSE /\ (r.stage = "safety" => Disturbed(r).stage = "safety")
  BY DEF Disturbed, NoJob, JobLocals

LEMMA CutStands ==
  ASSUME NEW n, NEW r \in CaptureLocals(n)
  PROVE  Cut(r).stage = r.stage /\ Cut(r).role = r.role
  BY DEF Cut, CaptureLocals

LEMMA NoJobStands == NoJob.clean = FALSE /\ NoJob.stage = "idle"
  BY DEF NoJob

(* No capture of a job goes on but those that did. *)
SlotsKept ==
  \A j \in Jobs : cap'[j].stage # "idle" => cap[j].stage # "idle" /\ cap'[j].role = cap[j].role

LEMMA SlotsShut == ASSUME StateType, Shut PROVE SlotsKept
  <1> SUFFICES ASSUME NEW j \in Jobs
               PROVE  cap'[j].stage = cap[j].stage /\ cap'[j].role = cap[j].role
    BY DEF SlotsKept
  <1>1. cap[j] \in CaptureLocals(Len(made)) /\ cap'[j] = Cut(cap[j])
    BY DEF StateType, LocalsType, Shut, Slots
  <1> QED
    BY <1>1, CutStands

(* Steps that leave items and jobs alone. *)
LEMMA JobQuiet ==
  ASSUME StateType, StateType', JobInv, vault' = vault, job' = job, files \subseteq files',
         session' = session \/ session' = TRUE, SlotsKept
  PROVE  JobInv'
  <1> SUFFICES ASSUME NEW j \in Jobs
               PROVE  Awaited(j)' /\ (job[j].clean => Standing(job[j], vault, files', session'))
    BY DEF JobInv
  <1>1. Awaited(j)'
    BY DEF JobInv, Awaited, SlotsKept
  <1>2. session \in BOOLEAN /\ session' \in BOOLEAN
    BY DEF StateType, ModeType
  <1>3. job[j].clean => Standing(job[j], vault, files', session')
    BY <1>2, StandingMonotone DEF JobInv
  <1> QED
    BY <1>1, <1>3

(* Steps that lock the vault. *)
LEMMA InterruptedStands ==
  ASSUME StateType, JobInv, NEW j \in Jobs, NEW open \in BOOLEAN
  PROVE  /\ Interrupted[j].clean => Standing(Interrupted[j], vault, files, open)
         /\ job[j].stage = "safety" => Interrupted[j].stage = "safety"
  <1>1. job[j] \in JobLocals(Len(made)) /\ (job[j].clean => Standing(job[j], vault, files, session))
    BY DEF StateType, LocalsType, JobInv
  <1>2. CASE Running(j)
    <2>1. Interrupted[j] = Disturbed(job[j])
      BY <1>2 DEF Interrupted
    <2> QED
      BY <1>1, <2>1, DisturbedStands
  <1>3. CASE ~Running(j)
    <2>1. Interrupted[j] = job[j]
      BY <1>3 DEF Interrupted
    <2>2. job[j].stage \notin {"safety", "replace", "delete", "save", "files", "undo"}
      BY <1>3 DEF Running, Steps
    <2> QED
      BY <1>1, <2>1, <2>2 DEF Standing
  <1> QED
    BY <1>2, <1>3

LEMMA JobLock ==
  ASSUME StateType, StateType', JobInv, vault' = vault, files' = files, job' = Interrupted, SlotsKept
  PROVE  JobInv'
  <1>1. session' \in BOOLEAN
    BY DEF StateType, ModeType
  <1> SUFFICES ASSUME NEW j \in Jobs
               PROVE  Awaited(j)' /\ (job'[j].clean => Standing(job'[j], vault, files, session'))
    BY DEF JobInv
  <1>2. Awaited(j)'
    BY InterruptedStands DEF JobInv, Awaited, SlotsKept
  <1> QED
    BY <1>1, <1>2, InterruptedStands

(* Steps that change the items disturb every other job. *)
LEMMA JobWrites ==
  ASSUME StateType, JobInv, NEW j, NEW items, NEW r, Write(j, items, r), SlotsKept,
         j \in Jobs => /\ job[j].stage # "safety"
                       /\ r.clean => Standing(r, items, files', session')
  PROVE  JobInv'
  <1> SUFFICES ASSUME NEW k \in Jobs
               PROVE  Awaited(k)' /\ (job'[k].clean => Standing(job'[k], items, files', session'))
    BY DEF JobInv, Write
  <1>1. job[k] \in JobLocals(Len(made)) /\ Awaited(k)
    BY DEF StateType, LocalsType, JobInv
  <1>2. CASE k = j
    <2>1. cap'[k].stage = "idle"
      BY <1>1, <1>2 DEF Awaited, SlotsKept
    <2>2. job'[k] = r
      BY <1>2 DEF Write
    <2> QED
      BY <1>2, <2>1, <2>2 DEF Awaited
  <1>3. CASE k # j
    <2>1. job'[k] = Disturbed(job[k])
      BY <1>3 DEF Write
    <2> QED
      BY <1>1, <2>1, DisturbedStands DEF Awaited, SlotsKept
  <1> QED
    BY <1>2, <1>3

(* Steps that change the locals of one job. *)
LEMMA JobMoves ==
  ASSUME StateType, StateType', JobInv, NEW j \in Jobs, NEW r, Then(j, r), vault' = vault,
         files \subseteq files', session' = session \/ session' = TRUE,
         \A k \in Jobs \ {j} : cap'[k] = cap[k],
         cap'[j].stage # "idle" => r.stage = "safety" /\ cap'[j].role = "safety",
         r.clean => Standing(r, vault, files', session')
  PROVE  JobInv'
  <1> SUFFICES ASSUME NEW k \in Jobs
               PROVE  Awaited(k)' /\ (job'[k].clean => Standing(job'[k], vault, files', session'))
    BY DEF JobInv
  <1>1. session \in BOOLEAN /\ session' \in BOOLEAN /\ job \in [Jobs -> JobLocals(Len(made))]
    BY DEF StateType, ModeType, LocalsType
  <1>2. CASE k = j
    BY <1>1, <1>2 DEF Then, Awaited
  <1>3. CASE k # j
    <2>1. job'[k] = job[k] /\ cap'[k] = cap[k] /\ Awaited(k)
          /\ (job[k].clean => Standing(job[k], vault, files, session))
      BY <1>1, <1>3 DEF Then, JobInv
    <2> QED
      BY <1>1, <2>1, StandingMonotone DEF Awaited
  <1> QED
    BY <1>2, <1>3

LEMMA JobDisturb ==
  ASSUME StateType, JobInv, Disturb, cap' = cap
  PROVE  JobInv'
  <1> SUFFICES ASSUME NEW j \in Jobs
               PROVE  Awaited(j)' /\ job'[j].clean = FALSE
    BY DEF JobInv
  <1>1. job[j] \in JobLocals(Len(made)) /\ Awaited(j) /\ job'[j] = Disturbed(job[j])
    BY DEF StateType, LocalsType, JobInv, Disturb
  <1> QED
    BY <1>1, DisturbedStands DEF Awaited

LEMMA OverEmpty == ASSUME NEW a \in Contents PROVE Over(a, Empty) = a
  BY DEF Over, Empty, Contents

LEMMA JobFacts ==
  ASSUME StateType, JobInv, NEW j \in Jobs
  PROVE  /\ job[j] \in JobLocals(Len(made)) /\ vault \in Contents /\ session \in BOOLEAN
         /\ job[j].items \in Contents /\ job[j].found \in Contents /\ job[j].todo \subseteq Ids
         /\ job[j].clean \in BOOLEAN
         /\ job[j].clean => Standing(job[j], vault, files, session)
  BY DEF StateType, ContentType, ModeType, LocalsType, JobLocals, JobInv

LEMMA JobReplace ==
  ASSUME StateType, StateType', JobInv, NEW j \in Jobs, Replace(j)
  PROVE  JobInv'
  <1> DEFINE q == job[j]
             saved == [job[j] EXCEPT !.stage = "files"]
             rest == [job[j] EXCEPT !.stage = "delete",
                                    !.todo = Present(vault) \ Present(job[j].items)]
  <1>1. /\ q.stage = "replace" /\ q.items \in Contents /\ (q.clean => Standing(q, vault, files, session))
        /\ q \in JobLocals(Len(made))
    BY JobFacts DEF Replace
  <1>2. /\ saved.stage = "files" /\ saved.clean = q.clean /\ saved.items = q.items /\ saved.found = q.found
        /\ rest.stage = "delete" /\ rest.clean = q.clean /\ rest.items = q.items /\ rest.found = q.found
        /\ rest.todo = Present(vault) \ Present(q.items) /\ rest.kind = q.kind
    BY <1>1 DEF JobLocals
  <1>3. UNCHANGED <<files, session, cap>>
    BY DEF Replace
  <1>4. cap[j].stage = "idle"
    BY <1>1 DEF JobInv, Awaited
  <1>5. q.clean => q.found = Empty /\ q.kind # "import" /\ session
    BY <1>1 DEF Standing
  <1>6. \/ ~session /\ Then(j, saved) /\ vault' = vault
        \/ session /\ Write(j, q.items, saved)
        \/ session /\ Then(j, rest) /\ vault' = vault
    BY DEF Replace
  <1> HIDE DEF q, saved, rest
  <1>7. q.clean => Standing(saved, q.items, files, session)
    BY <1>1, <1>2, <1>5, OverEmpty DEF Standing
  <1>8. q.clean => Standing(rest, vault, files, session)
    BY <1>2, <1>5 DEF Standing
  <1>9. SlotsKept
    BY <1>3 DEF SlotsKept
  <1>10. job[j].stage # "safety"
    BY <1>1 DEF q
  <1>11. CASE ~session /\ Then(j, saved) /\ vault' = vault
    BY <1>11, <1>2, <1>3, <1>4, <1>5, JobMoves
  <1>12. CASE session /\ Write(j, q.items, saved)
    BY <1>12, <1>2, <1>3, <1>7, <1>9, <1>10, JobWrites
  <1>13. CASE session /\ Then(j, rest) /\ vault' = vault
    BY <1>13, <1>2, <1>3, <1>4, <1>8, JobMoves
  <1> QED
    BY <1>6, <1>11, <1>12, <1>13

LEMMA JobDeletes ==
  ASSUME StateType, StateType', JobInv, NEW j \in Jobs,
         (\E i \in Ids : DeleteSurplus(j, i)) \/ SaveTarget(j)
  PROVE  JobInv'
  <1> DEFINE q == job[j]
             saved == [job[j] EXCEPT !.stage = "files"]
             less(i) == [job[j] EXCEPT !.todo = @ \ {i}]
  <1>1. /\ q.stage = "delete" /\ q.items \in Contents /\ (q.clean => Standing(q, vault, files, session))
        /\ q \in JobLocals(Len(made)) /\ vault \in Contents
    BY JobFacts DEF DeleteSurplus, SaveTarget
  <1>2. /\ saved.stage = "files" /\ saved.clean = q.clean /\ saved.items = q.items /\ saved.found = q.found
        /\ \A i : /\ less(i).stage = "delete" /\ less(i).clean = q.clean /\ less(i).items = q.items
                  /\ less(i).found = q.found /\ less(i).todo = q.todo \ {i} /\ less(i).kind = q.kind
    BY <1>1 DEF JobLocals
  <1>3. UNCHANGED <<files, session, cap>>
    BY DEF DeleteSurplus, SaveTarget
  <1>4. q.clean => /\ q.found = Empty /\ q.kind # "import" /\ session
                   /\ Present(vault) \subseteq Present(q.items) \cup q.todo
    BY <1>1 DEF Standing
  <1>5. SlotsKept /\ job[j].stage # "safety"
    BY <1>1, <1>3 DEF SlotsKept
  <1>6. \/ q.todo = {} /\ Write(j, Over(q.items, vault), saved)
        \/ \E i \in q.todo : Write(j, [vault EXCEPT ![i] = NoItem], less(i))
    BY DEF DeleteSurplus, SaveTarget
  <1> HIDE DEF q, saved, less
  <1>7. CASE q.todo = {} /\ Write(j, Over(q.items, vault), saved)
    <2>1. q.clean => Over(q.items, vault) = Over(q.items, Empty)
      <3> SUFFICES ASSUME q.clean, NEW i \in Ids
                   PROVE  q.items[i] # NoItem \/ vault[i] = Empty[i]
        BY DEF Over
      <3> QED
        BY <1>4, <1>7 DEF Present, Empty
    <2>2. q.clean => Standing(saved, Over(q.items, vault), files, session)
      BY <1>2, <1>4, <2>1 DEF Standing
    <2> QED
      BY <1>2, <1>3, <1>5, <1>7, <2>2, JobWrites
  <1>8. CASE \E i \in q.todo : Write(j, [vault EXCEPT ![i] = NoItem], less(i))
    <2> PICK i \in q.todo : Write(j, [vault EXCEPT ![i] = NoItem], less(i))
      BY <1>8
    <2>1. Present([vault EXCEPT ![i] = NoItem]) \subseteq Present(vault) \ {i}
      BY <1>1 DEF Present, Contents
    <2>2. q.clean => Standing(less(i), [vault EXCEPT ![i] = NoItem], files, session)
      BY <1>2, <1>4, <2>1 DEF Standing
    <2> QED
      BY <1>2, <1>3, <1>5, <2>2, JobWrites
  <1> QED
    BY <1>6, <1>7, <1>8

LEMMA JobSaves ==
  ASSUME StateType, StateType', JobInv, NEW j \in Jobs, ReadOriginals(j) \/ SaveItems(j)
  PROVE  JobInv'
  <1> DEFINE q == job[j]
             saved == [job[j] EXCEPT !.stage = "files"]
             read == [job[j] EXCEPT !.stage = "save", !.clean = session,
                                    !.found = IF session THEN vault ELSE Empty]
  <1>1. /\ q.stage \in {"originals", "save"} /\ q.items \in Contents
        /\ (q.clean => Standing(q, vault, files, session))
        /\ q \in JobLocals(Len(made)) /\ vault \in Contents /\ session \in BOOLEAN
    BY JobFacts DEF ReadOriginals, SaveItems
  <1>2. /\ saved.stage = "files" /\ saved.clean = q.clean /\ saved.items = q.items /\ saved.found = q.found
        /\ read.stage = "save" /\ read.clean = session
        /\ read.found = IF session THEN vault ELSE Empty
    BY <1>1 DEF JobLocals
  <1>3. UNCHANGED <<files, session, cap>>
    BY DEF ReadOriginals, SaveItems, content
  <1>4. q.clean => session /\ vault = q.found
    BY <1>1 DEF Standing
  <1>5. SlotsKept /\ job[j].stage # "safety" /\ cap[j].stage = "idle"
    BY <1>1, <1>3 DEF SlotsKept, JobInv, Awaited
  <1>6. \/ Then(j, read) /\ vault' = vault
        \/ session /\ Write(j, Over(q.items, vault), saved)
        \/ ~session /\ Then(j, saved) /\ vault' = vault
    BY DEF ReadOriginals, SaveItems, content
  <1> HIDE DEF q, saved, read
  <1>7. session => Standing(read, vault, files, session)
    BY <1>2 DEF Standing
  <1>8. q.clean => Standing(saved, Over(q.items, vault), files, session)
    BY <1>2, <1>4 DEF Standing
  <1>9. CASE Then(j, read) /\ vault' = vault
    BY <1>2, <1>3, <1>5, <1>7, <1>9, JobMoves
  <1>10. CASE session /\ Write(j, Over(q.items, vault), saved)
    BY <1>2, <1>3, <1>5, <1>8, <1>10, JobWrites
  <1>11. CASE ~session /\ Then(j, saved) /\ vault' = vault
    BY <1>2, <1>3, <1>4, <1>5, <1>11, JobMoves
  <1> QED
    BY <1>6, <1>9, <1>10, <1>11

LEMMA JobUndoes ==
  ASSUME StateType, StateType', JobInv, NEW j \in Jobs, (\E i \in Ids : UndoInsert(j, i)) \/ UndoUpdates(j)
  PROVE  JobInv'
  <1>1. /\ job[j].stage = "undo" /\ job[j].items \in Contents /\ job[j].found \in Contents
        /\ (job[j].clean => Standing(job[j], vault, files, session))
        /\ job[j] \in JobLocals(Len(made)) /\ vault \in Contents /\ session \in BOOLEAN
    BY JobFacts DEF UndoInsert, UndoUpdates
  <1>2. UNCHANGED <<files, session, cap>>
    BY DEF UndoInsert, UndoUpdates
  <1>3. job[j].clean => session /\ Undone(job[j], vault)
    BY <1>1 DEF Standing
  <1>4. SlotsKept /\ job[j].stage # "safety" /\ cap[j].stage = "idle"
    BY <1>1, <1>2 DEF SlotsKept, JobInv, Awaited
  <1>5. CASE \E i \in Ids : UndoInsert(j, i)
    <2> PICK i \in Ids : UndoInsert(j, i)
      BY <1>5
    <2> DEFINE r == [job[j] EXCEPT !.todo = @ \ {i}]
    <2>1. /\ r.stage = "undo" /\ r.clean = job[j].clean /\ r.items = job[j].items /\ r.found = job[j].found
          /\ r.todo = job[j].todo \ {i}
      BY <1>1 DEF JobLocals
    <2>2. \/ session /\ Write(j, [vault EXCEPT ![i] = NoItem], r)
          \/ ~session /\ Then(j, r) /\ vault' = vault
      BY DEF UndoInsert
    <2>3. i \in job[j].todo
      BY DEF UndoInsert
    <2> HIDE DEF r
    <2>4. job[j].clean => Undone(r, [vault EXCEPT ![i] = NoItem])
      BY <1>1, <1>3, <2>1, <2>3 DEF Undone, Present, Contents
    <2>5. job[j].clean => Standing(r, [vault EXCEPT ![i] = NoItem], files, session)
      BY <1>3, <2>1, <2>4 DEF Standing
    <2>6. CASE session /\ Write(j, [vault EXCEPT ![i] = NoItem], r)
      BY <1>2, <1>4, <2>1, <2>5, <2>6, JobWrites
    <2>7. CASE ~session /\ Then(j, r) /\ vault' = vault
      BY <1>2, <1>3, <1>4, <2>1, <2>7, JobMoves
    <2> QED
      BY <2>2, <2>6, <2>7
  <1>6. CASE UndoUpdates(j)
    <2>1. Failed(j).clean => /\ job[j].clean /\ Failed(j).stage = "failed" /\ Failed(j).found = job[j].found
      BY DEF Failed, NoJob
    <2>2. job[j].clean => Over(Replaced(j), vault) = job[j].found
      <3> SUFFICES ASSUME job[j].clean PROVE Over(Replaced(j), vault) = job[j].found
        OBVIOUS
      <3>1. \A i \in Ids : Over(Replaced(j), vault)[i] = job[j].found[i]
        BY <1>3, <1>6 DEF UndoUpdates, Undone, Over, Replaced
      <3> QED
        BY <1>1, <3>1 DEF Contents, Over
    <2>3. Failed(j).clean => Standing(Failed(j), Over(Replaced(j), vault), files, session)
      BY <2>1, <2>2 DEF Standing
    <2>4. CASE session
      BY <1>2, <1>4, <1>6, <2>3, <2>4, JobWrites DEF UndoUpdates
    <2>5. CASE ~session
      BY <1>2, <1>3, <1>4, <1>6, <2>1, <2>5, JobMoves DEF UndoUpdates
    <2> QED
      BY <1>1, <2>4, <2>5
  <1> QED
    BY <1>5, <1>6

LEMMA JobBegins ==
  ASSUME StateType, StateType', JobInv, NEW j \in Jobs, Begin(j)
  PROVE  JobInv'
  <1>1. job[j].stage # "safety" /\ cap[j].stage = "idle"
    BY DEF Begin, BeginRestore, BeginRebuild, BeginImport, Running, JobInv, Awaited
  <1>2. vault' = vault /\ files' = files /\ session' = session
    BY DEF Begin, BeginRestore, BeginRebuild, BeginImport, content
  <1>3. CASE \E s \in 1..Len(made) : BeginRestore(j, s)
    <2> PICK s \in 1..Len(made) : BeginRestore(j, s)
      BY <1>3
    <2> DEFINE r == [NoJob EXCEPT !.kind = "restore", !.stage = "safety", !.clean = TRUE, !.since = edits,
                                  !.items = made[s].items, !.files = made[s].files]
    <2>1. r.stage = "safety" /\ r.found = Empty /\ r.kind = "restore"
      BY DEF NoJob
    <2>2. Then(j, r) /\ Now(j, Begun("safety")) /\ session
      BY DEF BeginRestore
    <2> HIDE DEF r
    <2>3. Standing(r, vault, files, session)
      BY <2>1, <2>2 DEF Standing
    <2>4. \A k \in Jobs \ {j} : cap'[k] = cap[k]
      BY <2>2 DEF Now, StateType, LocalsType, Slots
    <2>5. cap'[j].role = "safety"
      BY <2>2 DEF Now, Begun, NoCapture, StateType, LocalsType, Slots
    <2> QED
      BY <1>2, <2>1, <2>2, <2>3, <2>4, <2>5, JobMoves
  <1>4. CASE \E s \in 1..Len(made) : BeginRebuild(j, s)
    <2> PICK s \in 1..Len(made) : BeginRebuild(j, s)
      BY <1>4
    <2> DEFINE r == [NoJob EXCEPT !.kind = "rebuild", !.stage = "wipe", !.clean = TRUE,
                                  !.items = made[s].items, !.files = made[s].files]
    <2>1. r.stage = "wipe" /\ r.found = Empty /\ r.kind = "rebuild"
      BY DEF NoJob
    <2>2. Then(j, r) /\ cap' = cap
      BY DEF BeginRebuild
    <2> HIDE DEF r
    <2>3. Standing(r, vault, files, session)
      BY <2>1 DEF Standing
    <2> QED
      BY <1>1, <1>2, <2>2, <2>3, JobMoves
  <1>5. CASE \E ids \in SUBSET Ids \ {{}}, attached \in BOOLEAN : BeginImport(j, ids, attached)
    <2> PICK ids \in SUBSET Ids \ {{}}, attached \in BOOLEAN : BeginImport(j, ids, attached)
      BY <1>5
    <2> DEFINE f == IF attached THEN edits + 1 ELSE 0
               r == [NoJob EXCEPT !.kind = "import", !.stage = "originals", !.files = {f} \ {0},
                                  !.items = [i \in Ids |-> IF i \in ids
                                                           THEN [rev |-> edits + 1, file |-> f]
                                                           ELSE NoItem]]
    <2>1. Then(j, r) /\ r.clean = FALSE
      BY DEF BeginImport, NoJob
    <2>2. cap' = cap
      BY DEF BeginImport
    <2> HIDE DEF r
    <2> QED
      BY <1>1, <1>2, <2>1, <2>2, JobMoves
  <1> QED
    BY <1>3, <1>4, <1>5 DEF Begin

LEMMA JobRebuilds ==
  ASSUME StateType, StateType', JobInv, NEW j \in Jobs, Wipe(j) \/ OpenRebuilt(j)
  PROVE  JobInv'
  <1>1. /\ job[j] \in JobLocals(Len(made)) /\ (job[j].clean => Standing(job[j], vault, files, session))
        /\ job[j].stage \in {"wipe", "open"}
    BY JobFacts DEF Wipe, OpenRebuilt
  <1>2. job[j].stage # "safety" /\ cap[j].stage = "idle"
    BY <1>1 DEF JobInv, Awaited
  <1>3. job[j].clean => job[j].found = Empty /\ job[j].kind # "import"
    BY <1>1 DEF Standing
  <1>4. CASE Wipe(j)
    <2> DEFINE r == [job[j] EXCEPT !.stage = "open"]
    <2>1. r.stage = "open" /\ r.clean = job[j].clean /\ r.found = job[j].found /\ r.kind = job[j].kind
      BY <1>1 DEF JobLocals
    <2>2. Write(j, Empty, r) /\ Shut
      BY <1>4 DEF Wipe
    <2> HIDE DEF r
    <2>3. r.clean => Standing(r, Empty, files', session')
      BY <1>3, <2>1 DEF Standing
    <2> QED
      BY <1>2, <2>2, <2>3, SlotsShut, JobWrites
  <1>5. CASE OpenRebuilt(j)
    <2> DEFINE r == [job[j] EXCEPT !.stage = "save"]
    <2>1. r.stage = "save" /\ r.clean = job[j].clean /\ r.found = job[j].found
      BY <1>1 DEF JobLocals
    <2>2. Then(j, r) /\ session' = TRUE /\ UNCHANGED <<vault, files, cap>> /\ job[j].stage = "open"
      BY <1>5 DEF OpenRebuilt, content
    <2> HIDE DEF r
    <2>3. job[j].clean => vault = Empty
      BY <1>1, <2>2 DEF Standing
    <2>4. r.clean => Standing(r, vault, files', session')
      BY <1>3, <2>1, <2>2, <2>3 DEF Standing
    <2> QED
      BY <1>2, <2>2, <2>4, JobMoves
  <1> QED
    BY <1>4, <1>5

(* A job that ends: r is what is kept of it. *)
LEMMA JobLeaves ==
  ASSUME StateType, StateType', JobInv, NEW j \in Jobs, NEW r, Leave(j, r), vault' = vault,
         files \subseteq files', job[j].stage \in Steps, r.clean => Standing(r, vault, files', session')
  PROVE  JobInv'
  <1>1. cap[j].stage = "idle" /\ job[j].stage # "safety"
    BY DEF JobInv, Awaited, Steps
  <1>2. CASE Shut /\ job' = [Interrupted EXCEPT ![j] = r]
    <2> SUFFICES ASSUME NEW k \in Jobs
                 PROVE  Awaited(k)' /\ (job'[k].clean => Standing(job'[k], vault, files', session'))
      BY DEF JobInv
    <2>1. SlotsKept /\ session' \in BOOLEAN
      BY <1>2, SlotsShut DEF StateType, ModeType
    <2>2. CASE k = j
      <3>1. job'[k] = r
        BY <1>2, <2>2 DEF Interrupted
      <3>2. cap'[k].stage = "idle"
        BY <1>1, <2>1, <2>2 DEF SlotsKept
      <3> QED
        BY <2>2, <3>1, <3>2 DEF Awaited
    <2>3. CASE k # j
      <3>1. job'[k] = Interrupted[k]
        BY <1>2, <2>3 DEF Interrupted
      <3>2. Interrupted[k].clean => Standing(Interrupted[k], vault, files, session')
        BY <2>1, InterruptedStands
      <3>3. Awaited(k)'
        BY <2>1, <3>1, InterruptedStands DEF JobInv, Awaited, SlotsKept
      <3> QED
        BY <2>1, <3>1, <3>2, <3>3, StandingMonotone
    <2> QED
      BY <2>2, <2>3
  <1>3. CASE Then(j, r) /\ UNCHANGED <<session, form, cap>>
    BY <1>1, <1>3, JobMoves
  <1> QED
    BY <1>2, <1>3 DEF Leave

LEMMA JobEnds ==
  ASSUME StateType, StateType', JobInv, NEW j \in Jobs, PutFiles(j) \/ JobFails(j)
  PROVE  JobInv'
  <1>1. /\ job[j] \in JobLocals(Len(made)) /\ (job[j].clean => Standing(job[j], vault, files, session))
        /\ vault \in Contents /\ job[j].items \in Contents /\ job[j].found \in Contents
        /\ job[j].stage \in Steps
    BY JobFacts DEF PutFiles, JobFails, Steps
  <1>2. vault' = vault /\ files \subseteq files'
    BY DEF PutFiles, JobFails
  <1>3. CASE PutFiles(j)
    <2>1. Done(j).clean => /\ job[j].clean /\ Done(j).stage = "done" /\ Done(j).items = job[j].items
                           /\ Done(j).found = job[j].found /\ Done(j).files = job[j].files
      BY <1>1 DEF Done, NoJob, JobLocals
    <2>2. job[j].clean => vault = Over(job[j].items, job[j].found)
      BY <1>1, <1>3 DEF PutFiles, Standing
    <2>3. Done(j).clean => Standing(Done(j), vault, files', session')
      BY <1>3, <2>1, <2>2 DEF PutFiles, Standing
    <2> QED
      BY <1>1, <1>2, <1>3, <2>3, JobLeaves DEF PutFiles
  <1>4. CASE JobFails(j) /\ job[j].kind = "import" /\ job[j].stage = "files"
    <2>1. /\ RolledBack(j).stage = "undo" /\ RolledBack(j).items = job[j].items
          /\ RolledBack(j).found = job[j].found /\ RolledBack(j).clean = job[j].clean
          /\ RolledBack(j).todo = Present(job[j].items) \ Present(job[j].found)
      BY <1>1 DEF RolledBack, JobLocals
    <2>2. Leave(j, RolledBack(j)) /\ session' = session
      BY <1>4 DEF JobFails, Leave
    <2>3. job[j].clean => session /\ vault = Over(job[j].items, job[j].found)
      BY <1>1, <1>4 DEF Standing
    <2>4. job[j].clean => Undone(RolledBack(j), vault)
      BY <1>1, <2>1, <2>3 DEF Undone, Over, Present
    <2>5. RolledBack(j).clean => Standing(RolledBack(j), vault, files', session')
      BY <2>1, <2>2, <2>3, <2>4 DEF Standing
    <2> QED
      BY <1>1, <1>2, <2>2, <2>5, JobLeaves
  <1>5. CASE JobFails(j) /\ ~(job[j].kind = "import" /\ job[j].stage = "files")
    <2>1. (Leave(j, NoJob) \/ Leave(j, Failed(j))) /\ (job[j].stage = "undo" => Leave(j, NoJob))
      BY <1>5 DEF JobFails
    <2>2. CASE Leave(j, NoJob)
      BY <1>1, <1>2, <2>2, NoJobStands, JobLeaves
    <2>3. CASE Leave(j, Failed(j)) /\ job[j].stage # "undo"
      <3>1. Failed(j).clean => /\ job[j].clean /\ job[j].kind = "import" /\ Failed(j).stage = "failed"
                               /\ Failed(j).found = job[j].found
        BY DEF Failed, NoJob
      <3>2. job[j].clean /\ job[j].kind = "import" => vault = job[j].found
        BY <1>1, <1>5, <2>3 DEF Standing, Steps
      <3>3. Failed(j).clean => Standing(Failed(j), vault, files', session')
        BY <3>1, <3>2 DEF Standing
      <3> QED
        BY <1>1, <1>2, <2>3, <3>3, JobLeaves
    <2> QED
      BY <2>1, <2>2, <2>3
  <1> QED
    BY <1>3, <1>4, <1>5

(* Captures: the steps of one in a slot of its own, and of a job's. *)
LEMMA JobCaptures ==
  ASSUME StateType, StateType', JobInv, NEW c \in Slots,
         \/ ListFiles(c) \/ (\E f \in Files : DecryptFile(c, f)) \/ Store(c)
         \/ (c \in Captures /\ (BeginManual(c) \/ BeginScheduled(c) \/ \E n \in Limits : ChooseLimit(c, n)))
  PROVE  JobInv'
  <1>1. UNCHANGED <<vault, files, session, job>>
    BY DEF ListFiles, DecryptFile, Store, BeginManual, BeginScheduled, ChooseLimit, content
  <1>2. PICK r : Now(c, r) /\ (c \in Jobs => cap[c].stage # "idle" /\ r.role = cap[c].role)
    <2>1. cap[c] \in CaptureLocals(Len(made)) /\ (c \in Captures => c \notin Jobs)
      BY BackupsAssumption DEF BackupsAssumption, StateType, LocalsType
    <2>2. CASE ListFiles(c)
      <3> WITNESS [cap[c] EXCEPT !.stage = "decrypt", !.raw = files]
      <3> QED
        BY <2>1, <2>2 DEF ListFiles, CaptureLocals
    <2>3. CASE \E f \in Files : DecryptFile(c, f)
      <3> PICK f \in Files : DecryptFile(c, f)
        BY <2>3
      <3> WITNESS [cap[c] EXCEPT !.raw = @ \ {f}, !.got = IF session THEN @ \cup {f} ELSE @]
      <3> QED
        BY <2>1 DEF DecryptFile, CaptureLocals
    <2>4. CASE Store(c)
      <3> WITNESS [NoCapture EXCEPT !.stage = "list", !.role = cap[c].role, !.live = cap[c].live,
                                    !.limit = cap[c].limit, !.index = Len(made) + 1]
      <3> QED
        BY <2>4 DEF Store, NoCapture
    <2>5. CASE c \in Captures /\ (BeginManual(c) \/ BeginScheduled(c) \/ \E n \in Limits : ChooseLimit(c, n))
      BY <2>1, <2>5 DEF BeginManual, BeginScheduled, ChooseLimit
    <2> QED
      BY <2>2, <2>3, <2>4, <2>5
  <1>3. SlotsKept
    BY <1>2 DEF SlotsKept, Now, StateType, LocalsType, Slots
  <1> QED
    BY <1>1, <1>3, JobQuiet

LEMMA JobPruned ==
  ASSUME StateType, StateType', JobInv, NEW c \in Slots, NEW todo, Pruned(c, todo),
         cap[c].stage \in Pruning, UNCHANGED <<vault, files, session>>
  PROVE  JobInv'
  <1> DEFINE more == [cap[c] EXCEPT !.stage = "prune", !.todo = todo]
             again == [cap[c] EXCEPT !.stage = "list", !.todo = {}, !.index = 0]
             r == [job[c] EXCEPT !.stage = "replace", !.safety = cap[c].index]
  <1>1. cap[c] \in CaptureLocals(Len(made)) /\ cap \in [Slots -> CaptureLocals(Len(made))]
    BY DEF StateType, LocalsType
  <1>2. CASE c \in Jobs /\ todo = {}
    <2>1. cap[c].role = "safety" /\ job[c].stage = "safety"
      BY <1>2 DEF JobInv, Awaited, Pruning
    <2>2. Now(c, NoCapture) /\ Then(c, r)
      BY <1>2, <2>1 DEF Pruned
    <2>3. /\ r.stage = "replace" /\ r.found = job[c].found /\ r.kind = job[c].kind
          /\ r.clean = job[c].clean
      BY <1>2, JobFacts DEF JobLocals
    <2> HIDE DEF r
    <2>4. r.clean => Standing(r, vault, files, session)
      BY <1>2, <2>1, <2>3, JobFacts DEF Standing
    <2>5. cap'[c].stage = "idle" /\ \A k \in Jobs \ {c} : cap'[k] = cap[k]
      BY <1>1, <2>2 DEF Now, NoCapture, Slots
    <2> QED
      BY <1>2, <2>2, <2>4, <2>5, JobMoves
  <1>3. CASE ~(c \in Jobs /\ todo = {})
    <2>1. job' = job
      BY <1>3 DEF Pruned
    <2>2. Now(c, more) \/ (c \notin Jobs /\ \E q : Now(c, q))
      BY <1>3 DEF Pruned
    <2>3. more.role = cap[c].role
      BY <1>1 DEF CaptureLocals
    <2> HIDE DEF more
    <2>4. SlotsKept
      BY <1>1, <2>2, <2>3 DEF SlotsKept, Now, Slots, Pruning
    <2> QED
      BY <2>1, <2>4, JobQuiet
  <1> QED
    BY <1>2, <1>3

LEMMA JobCaptureFails ==
  ASSUME StateType, StateType', JobInv, NEW c \in Slots, CaptureFails(c)
  PROVE  JobInv'
  <1>1. UNCHANGED <<vault, files, session>> /\ Now(c, NoCapture)
    BY DEF CaptureFails, content
  <1>2. cap'[c].stage = "idle" /\ \A k \in Jobs \ {c} : cap'[k] = cap[k]
    BY <1>1 DEF Now, NoCapture, StateType, LocalsType, Slots
  <1>3. CASE c \in Jobs
    BY <1>1, <1>2, <1>3, NoJobStands, JobMoves DEF CaptureFails
  <1>4. CASE c \notin Jobs
    <2>1. SlotsKept
      BY <1>2, <1>4 DEF SlotsKept
    <2> QED
      BY <1>1, <1>4, <2>1, JobQuiet DEF CaptureFails
  <1> QED
    BY <1>3, <1>4

LEMMA JobInit == ASSUME Init PROVE JobInv
  BY DEF Init, JobInv, Awaited, NoCapture, NoJob, Slots

LEMMA JobOthers ==
  ASSUME StateType, StateType', JobInv,
         \/ User \/ Restart \/ Clock \/ Unlock
         \/ (\E c \in Captures : BeginScheduled(c) \/ LockAndCapture(c))
         \/ (\E c \in Slots : CaptureFails(c)) \/ (\E j \in Jobs : JobFails(j))
  PROVE  JobInv'
  <1>1. CASE \/ (\E s \in 1..Len(made) : Erase(s)) \/ EraseAll
             \/ (\E f \in Frequencies \cup {"off"} : ChooseFrequency(f))
             \/ Unlock \/ Clock \/ Attach
    <2>1. /\ vault' = vault /\ job' = job /\ files \subseteq files' /\ cap' = cap
          /\ (session' = session \/ session' = TRUE)
      BY <1>1 DEF Erase, EraseAll, ChooseFrequency, Unlock, Clock, Attach, content
    <2> QED
      BY <2>1, JobQuiet DEF SlotsKept
  <1>2. CASE (\E i \in Ids, f \in Revs : Edit(i, f)) \/ (\E i \in Ids : Delete(i))
    BY <1>2, JobDisturb DEF Edit, Delete
  <1>3. CASE Lock
    BY <1>3, SlotsShut, JobLock DEF Lock, Shut
  <1>4. CASE \E c \in Captures : LockAndCapture(c)
    <2> PICK c \in Captures : LockAndCapture(c)
      BY <1>4
    <2>1. SlotsKept
      <3> SUFFICES ASSUME NEW j \in Jobs
                   PROVE  cap'[j].stage = cap[j].stage /\ cap'[j].role = cap[j].role
        BY DEF SlotsKept
      <3>1. j # c /\ cap[j] \in CaptureLocals(Len(made))
        BY BackupsAssumption DEF BackupsAssumption, StateType, LocalsType, Slots
      <3>2. cap'[j] = Cut(cap[j])
        BY <3>1 DEF LockAndCapture, Slots
      <3> QED
        BY <3>1, <3>2, CutStands
    <2> QED
      BY <2>1, JobLock DEF LockAndCapture
  <1>5. CASE Restart
    BY <1>5, NoJobStands DEF Restart, JobInv, Awaited, NoCapture, Slots
  <1>6. CASE \E c \in Captures : BeginScheduled(c) \/ BeginManual(c) \/ (\E n \in Limits : ChooseLimit(c, n))
    BY <1>6, JobCaptures DEF Slots
  <1>7. CASE (\E c \in Slots : CaptureFails(c)) \/ (\E j \in Jobs : JobFails(j) \/ Begin(j))
    BY <1>7, JobCaptureFails, JobEnds, JobBegins
  <1> QED
    BY <1>1, <1>2, <1>3, <1>4, <1>5, <1>6, <1>7 DEF User

LEMMA JobStep == ASSUME StateType, StateType', JobInv, [Next]_vars PROVE JobInv'
  <1>1. CASE UNCHANGED vars
    BY <1>1, JobQuiet DEF vars, content, SlotsKept
  <1>2. ASSUME NEW c \in Slots, Continue(c) PROVE JobInv'
    <2>1. CASE ListFiles(c) \/ (\E f \in Files : DecryptFile(c, f)) \/ Store(c)
      BY <2>1, JobCaptures
    <2>2. CASE \E kept \in SUBSET stored : List(c, kept)
      BY <2>2, JobPruned DEF List, Pruning, content
    <2>3. CASE \E s \in 1..Len(made) : Prune(c, s)
      BY <2>3, JobPruned DEF Prune, Pruning, content
    <2> QED
      BY <1>2, <2>1, <2>2, <2>3 DEF Continue
  <1>3. ASSUME NEW j \in Jobs, Proceed(j) PROVE JobInv'
    BY <1>3, JobReplace, JobDeletes, JobSaves, JobUndoes, JobRebuilds, JobEnds DEF Proceed
  <1>4. CASE Happens
    BY <1>4, JobOthers DEF Happens
  <1> QED
    BY <1>1, <1>2, <1>3, <1>4, JobOthers DEF Next

(* JobsKeepTheirWord: an undisturbed restore, import or rebuild that       *)
(* reports success did what it says, and an import that reports failure    *)
(* left the items as they were.                                            *)
THEOREM JobsAreHonest == Spec => []JobsKeepTheirWord
  <1>1. Init => JobInv
    BY JobInit
  <1>2. JobInv /\ TypeOK /\ TypeOK' /\ [Next]_vars => JobInv'
    BY JobStep DEF TypeOK, StateType
  <1>3. JobInv => JobsKeepTheirWord
    BY DEF JobInv, Standing, JobsKeepTheirWord
  <1> QED
    BY <1>1, <1>2, <1>3, TypeCorrect, PTL DEF Spec
-----------------------------------------------------------------------------
(* What a restore has in hand for what it takes away: the inductive        *)
(* invariant of NothingLostByRestore.                                      *)

(* Nothing else restores, imports or rebuilds at the same time: a rollback *)
(* of an import beside it would bring items back that no snapshot saw.     *)
SingleJob == \A j, k \in Jobs : j = k

Guarding(r) == r.kind = "restore" /\ r.stage \in {"safety", "replace", "delete"}

(* What the vault has from before edit n, these items have as well. *)
Covers(items, n) == \A i \in Ids : vault[i].rev \in 1..n => items[i] = vault[i]
Holds(s, n) == s \in 1..Len(made) /\ Covers(made[s].items, n)

Kept(j) ==
  Guarding(job[j]) =>
    /\ job[j].since <= edits
    /\ job[j].stage = "safety" =>
         /\ cap[j].stage \in Reading => Covers(cap[j].items, job[j].since)
         /\ cap[j].stage \in Pruning => Holds(cap[j].index, job[j].since)
    /\ job[j].stage # "safety" => Holds(job[j].safety, job[j].since)

RestoreInv == \A j \in Jobs : Kept(j)

(* Snapshots that were stored stay what they were, and edits are counted.  *)
HistoryGrows ==
  /\ Len(made) <= Len(made') /\ \A s \in 1..Len(made) : made'[s] = made[s]
  /\ edits <= edits'

(* Only later edits, or nothing, take the place of an item.                *)
VaultMovesOn ==
  \A i \in Ids : vault'[i] = vault[i] \/ vault'[i].rev = 0 \/ vault'[i].rev = edits + 1

(* A restore under way stays on the same side of its safety snapshot.      *)
Carries(j) ==
  Guarding(job'[j]) =>
    /\ Guarding(job[j]) /\ (job'[j].stage = "safety" <=> job[j].stage = "safety")
    /\ job'[j].since = job[j].since /\ job'[j].safety = job[j].safety
    /\ VaultMovesOn
    /\ cap'[j].stage \in Reading => cap[j].stage \in Reading /\ cap'[j].items = cap[j].items
    /\ cap'[j].stage \in Pruning => cap[j].stage \in Pruning /\ cap'[j].index = cap[j].index

LEMMA CoversCarries ==
  ASSUME StateType, NEW items, NEW n \in Nat, n <= edits, VaultMovesOn, Covers(items, n)
  PROVE  Covers(items, n)'
  <1> SUFFICES ASSUME NEW i \in Ids, vault'[i].rev \in 1..n PROVE items[i] = vault'[i]
    BY DEF Covers
  <1>1. edits \in Nat
    BY DEF StateType, ContentType, Revs
  <1>2. vault'[i] = vault[i]
    BY <1>1 DEF VaultMovesOn
  <1> QED
    BY <1>2 DEF Covers

LEMMA HoldsCarries ==
  ASSUME StateType, StateType', NEW s, NEW n \in Nat, n <= edits, VaultMovesOn, HistoryGrows, Holds(s, n)
  PROVE  Holds(s, n)'
  <1>1. Len(made) \in Nat /\ Len(made') \in Nat
    BY DEF StateType, HistoryType
  <1>2. s \in 1..Len(made') /\ made'[s] = made[s]
    BY <1>1 DEF Holds, HistoryGrows
  <1>3. Covers(made[s].items, n)'
    <2> DEFINE it == made[s].items
    <2>1. Covers(it, n)
      BY DEF Holds
    <2>2. \A i \in Ids : vault'[i].rev \in 1..n => it[i] = vault'[i]
      <3> HIDE DEF it
      <3>1. edits \in Nat
        BY DEF StateType, ContentType, Revs
      <3> QED
        BY <2>1, <3>1 DEF VaultMovesOn, Covers
    <2> QED
      BY <1>2, <2>2 DEF Covers
  <1> QED
    BY <1>2, <1>3 DEF Holds, Covers

LEMMA Grows ==
  ASSUME StateType, made' = made, edits' = edits \/ edits' = edits + 1
  PROVE  HistoryGrows
  <1>1. Len(made) \in Nat /\ edits \in Nat
    BY DEF StateType, HistoryType, ContentType, Revs
  <1> QED
    BY <1>1 DEF HistoryGrows

LEMMA KeptCarries ==
  ASSUME StateType, StateType', NEW j \in Jobs, Kept(j), HistoryGrows, Carries(j)
  PROVE  Kept(j)'
  <1> SUFFICES ASSUME Guarding(job'[j])
               PROVE  /\ job'[j].since <= edits'
                      /\ job'[j].stage = "safety" =>
                           /\ cap'[j].stage \in Reading => Covers(cap[j].items, job[j].since)'
                           /\ cap'[j].stage \in Pruning => Holds(cap[j].index, job[j].since)'
                      /\ job'[j].stage # "safety" => Holds(job[j].safety, job[j].since)'
    BY DEF Kept, Guarding
  <1> DEFINE n == job[j].since
             it == cap[j].items
  <1>1. n \in Nat /\ edits \in Nat /\ edits' \in Nat
    BY DEF StateType, ContentType, LocalsType, JobLocals, Revs
  <1>2. /\ Guarding(job[j]) /\ (job'[j].stage = "safety" <=> job[j].stage = "safety") /\ VaultMovesOn
        /\ job'[j].since = n /\ job'[j].safety = job[j].safety
        /\ cap'[j].stage \in Reading => cap[j].stage \in Reading /\ cap'[j].items = it
        /\ cap'[j].stage \in Pruning => cap[j].stage \in Pruning /\ cap'[j].index = cap[j].index
    BY DEF Carries
  <1>3. n <= edits
    BY <1>2 DEF Kept
  <1>4. n <= edits'
    BY <1>1, <1>3 DEF HistoryGrows
  <1>5. ASSUME job[j].stage = "safety", cap'[j].stage \in Reading
        PROVE  Covers(cap[j].items, job[j].since)'
    <2>1. Covers(it, n)
      BY <1>2, <1>5 DEF Kept
    <2>2. \A i \in Ids : vault'[i].rev \in 1..n => it[i] = vault'[i]
      BY <1>1, <1>2, <1>3, <2>1 DEF VaultMovesOn, Covers
    <2> QED
      BY <1>2, <1>5, <2>2 DEF Covers
  <1>6. ASSUME NEW s, Holds(s, n)
        PROVE  s \in 1..Len(made') /\ \A i \in Ids : vault'[i].rev \in 1..n => made'[s].items[i] = vault'[i]
    <2>1. s \in 1..Len(made') /\ made'[s] = made[s]
      BY <1>6 DEF Holds, HistoryGrows, StateType, HistoryType
    <2>2. \A i \in Ids : vault[i].rev \in 1..n => made[s].items[i] = vault[i]
      BY <1>6 DEF Holds, Covers
    <2> QED
      BY <1>1, <1>2, <1>3, <2>1, <2>2 DEF VaultMovesOn
  <1>7. ASSUME job[j].stage = "safety", cap'[j].stage \in Pruning
        PROVE  Holds(cap[j].index, job[j].since)'
    <2>1. Holds(cap[j].index, n)
      BY <1>2, <1>7 DEF Kept
    <2> QED
      BY <1>2, <1>6, <1>7, <2>1 DEF Holds, Covers
  <1>8. ASSUME job[j].stage # "safety" PROVE Holds(job[j].safety, job[j].since)'
    <2>1. Holds(job[j].safety, n)
      BY <1>2, <1>8 DEF Kept
    <2> QED
      BY <1>2, <1>6, <2>1 DEF Holds, Covers
  <1> QED
    BY <1>2, <1>4, <1>5, <1>7, <1>8

(* Steps that leave the items, and what the jobs wait for, as they are. *)
LEMMA RestoreCarries ==
  ASSUME StateType, StateType', RestoreInv, HistoryGrows, \A j \in Jobs : Carries(j)
  PROVE  RestoreInv'
  BY KeptCarries DEF RestoreInv

(* The safety snapshot is stored: it is what the capture has read. *)
LEMMA RestoreStore ==
  ASSUME StateType, StateType', JobInv, RestoreInv, NEW c \in Slots, Store(c)
  PROVE  RestoreInv'
  <1>1. /\ made \in Seq(Snapshots) /\ Len(made) \in Nat
        /\ made' = Append(made, Record(c)) /\ Record(c).items = cap[c].items
        /\ UNCHANGED <<vault, edits, job>> /\ cap[c].stage = "decrypt"
    BY DEF Store, Record, content, StateType, HistoryType
  <1>2. Record(c) \in Snapshots
    BY TypeRecord DEF Store
  <1>3. /\ Len(made') = Len(made) + 1 /\ made'[Len(made) + 1] = Record(c)
        /\ \A s \in 1..Len(made) : made'[s] = made[s]
    BY <1>1, <1>2
  <1>4. HistoryGrows /\ VaultMovesOn
    BY <1>1, <1>3 DEF HistoryGrows, VaultMovesOn, StateType, ContentType, Revs
  <1>5. cap'[c].stage = "list" /\ cap'[c].index = Len(made) + 1 /\ \A d \in Slots \ {c} : cap'[d] = cap[d]
    BY DEF Store, Now, NoCapture, StateType, LocalsType
  <1> SUFFICES ASSUME NEW j \in Jobs PROVE Kept(j)'
    BY DEF RestoreInv
  <1>6. CASE j # c
    <2>1. Carries(j)
      BY <1>1, <1>4, <1>5, <1>6 DEF Carries, Slots
    <2> QED
      BY <1>4, <2>1, KeptCarries DEF RestoreInv
  <1>7. CASE j = c
    <2> SUFFICES ASSUME Guarding(job[c])
                 PROVE  job[c].since <= edits /\ job[c].stage = "safety"
                        /\ Holds(cap[c].index, job[c].since)'
      BY <1>1, <1>5, <1>7 DEF Kept, Reading, Pruning
    <2>1. job[c].stage = "safety"
      BY <1>1, <1>7 DEF JobInv, Awaited
    <2>2. job[c].since <= edits /\ Covers(cap[c].items, job[c].since)
      BY <1>1, <1>7, <2>1 DEF RestoreInv, Kept, Reading
    <2>3. Holds(cap[c].index, job[c].since)'
      BY <1>1, <1>3, <1>5, <2>2 DEF Holds, Covers
    <2> QED
      BY <2>1, <2>2, <2>3
  <1> QED
    BY <1>6, <1>7

(* Its retention is over: the restore goes on, and keeps its number. *)
LEMMA RestorePruned ==
  ASSUME StateType, StateType', JobInv, RestoreInv, NEW c \in Slots, NEW todo, Pruned(c, todo),
         cap[c].stage \in Pruning, UNCHANGED <<vault, edits, made>>
  PROVE  RestoreInv'
  <1> DEFINE more == [cap[c] EXCEPT !.stage = "prune", !.todo = todo]
             r == [job[c] EXCEPT !.stage = "replace", !.safety = cap[c].index]
  <1>1. /\ cap[c] \in CaptureLocals(Len(made)) /\ cap \in [Slots -> CaptureLocals(Len(made))]
        /\ job \in [Jobs -> JobLocals(Len(made))]
    BY DEF StateType, LocalsType
  <1>2. HistoryGrows /\ VaultMovesOn
    BY DEF HistoryGrows, VaultMovesOn, StateType, ContentType, HistoryType, Revs
  <1> SUFFICES ASSUME NEW j \in Jobs PROVE Kept(j)'
    BY DEF RestoreInv
  <1>3. CASE j # c
    <2>1. cap'[j] = cap[j] /\ job'[j] = job[j]
      BY <1>1, <1>3 DEF Pruned, Now, Then, Slots
    <2>2. Carries(j)
      BY <1>2, <2>1 DEF Carries
    <2> QED
      BY <1>2, <2>2, KeptCarries DEF RestoreInv
  <1>4. CASE j = c /\ todo # {}
    <2>1. cap'[c] = more /\ job' = job
      BY <1>1, <1>4 DEF Pruned, Now
    <2>2. more.stage = "prune" /\ more.index = cap[c].index
      BY <1>1 DEF CaptureLocals
    <2>3. Carries(c)
      BY <1>2, <2>1, <2>2 DEF Carries, Reading, Pruning
    <2> QED
      BY <1>2, <1>4, <2>3, KeptCarries DEF RestoreInv
  <1>5. CASE j = c /\ todo = {}
    <2>1. cap[c].role = "safety" /\ job[c].stage = "safety"
      BY <1>5 DEF JobInv, Awaited, Pruning
    <2>2. cap'[c] = NoCapture /\ job'[c] = r
      BY <1>1, <1>5, <2>1 DEF Pruned, Now, Then
    <2>3. r.stage = "replace" /\ r.safety = cap[c].index /\ r.since = job[c].since /\ r.kind = job[c].kind
      BY <1>1, <1>5 DEF JobLocals
    <2> SUFFICES ASSUME job[c].kind = "restore"
                 PROVE  job[c].since <= edits /\ Holds(job[c].safety, job[c].since)'
      BY <1>5, <2>2, <2>3 DEF Kept, Guarding
    <2>4. job[c].since <= edits /\ Holds(cap[c].index, job[c].since)
      BY <1>5, <2>1 DEF RestoreInv, Kept, Guarding
    <2> QED
      BY <2>2, <2>3, <2>4 DEF Holds, Covers
  <1> QED
    BY <1>3, <1>4, <1>5

(* A restore begins by reading the items it may take. *)
LEMMA RestoreBegins ==
  ASSUME StateType, StateType', RestoreInv, NEW j \in Jobs, NEW s \in 1..Len(made), BeginRestore(j, s)
  PROVE  RestoreInv'
  <1>1. UNCHANGED <<vault, edits, made>> /\ edits \in Nat
    BY DEF BeginRestore, content, history, StateType, ContentType, Revs
  <1>2. HistoryGrows /\ VaultMovesOn
    BY <1>1 DEF HistoryGrows, VaultMovesOn, StateType, HistoryType
  <1>3. cap'[j] = Begun("safety") /\ job'[j].stage = "safety" /\ job'[j].since = edits
    BY DEF BeginRestore, Now, Then, NoJob, StateType, LocalsType, Slots
  <1>4. Begun("safety").stage = "files" /\ Begun("safety").items = vault
    BY DEF Begun, NoCapture
  <1> SUFFICES ASSUME NEW k \in Jobs PROVE Kept(k)'
    BY DEF RestoreInv
  <1>5. CASE k = j
    BY <1>1, <1>3, <1>4, <1>5 DEF Kept, Covers, Pruning
  <1>6. CASE k # j
    <2>1. cap'[k] = cap[k] /\ job'[k] = job[k]
      BY <1>6 DEF BeginRestore, Now, Then, StateType, LocalsType, Slots
    <2>2. Carries(k)
      BY <1>2, <2>1 DEF Carries
    <2> QED
      BY <1>2, <2>2, KeptCarries DEF RestoreInv
  <1> QED
    BY <1>5, <1>6

(* What the locals of a job are after a step of that job: no longer those  *)
(* of a restore that is taking items, or still those with the items of the *)
(* snapshot not yet put back.                                              *)
LEMMA RestoreProceeds ==
  ASSUME StateType, NEW j \in Jobs, Proceed(j) \/ JobFails(j)
  PROVE  \/ ~Guarding(job'[j])
         \/ /\ Guarding(job[j]) /\ job[j].stage # "safety" /\ job'[j].stage # "safety"
            /\ job'[j].since = job[j].since /\ job'[j].safety = job[j].safety
            /\ cap' = cap /\ VaultMovesOn
  <1>1. job[j] \in JobLocals(Len(made)) /\ vault \in Contents /\ job \in [Jobs -> JobLocals(Len(made))]
    BY DEF StateType, LocalsType, ContentType
  <1>2. ASSUME NEW i \in Ids, DeleteSurplus(j, i)
        PROVE  \/ ~Guarding(job'[j])
               \/ /\ Guarding(job[j]) /\ job[j].stage # "safety" /\ job'[j].stage # "safety"
                  /\ job'[j].since = job[j].since /\ job'[j].safety = job[j].safety
                  /\ cap' = cap /\ VaultMovesOn
    <2> DEFINE r == [job[j] EXCEPT !.todo = @ \ {i}]
    <2>1. r.kind = job[j].kind /\ r.stage = job[j].stage /\ r.since = job[j].since /\ r.safety = job[j].safety
      BY <1>1 DEF JobLocals
    <2>2. job'[j] = r /\ vault' = [vault EXCEPT ![i] = NoItem] /\ cap' = cap /\ job[j].stage = "delete"
      BY <1>2 DEF DeleteSurplus, Write
    <2>3. VaultMovesOn
      BY <1>1, <2>2 DEF VaultMovesOn, Contents, NoItem
    <2> QED
      BY <2>1, <2>2, <2>3 DEF Guarding
  <1>3. CASE Replace(j)
    <2> DEFINE rest == [job[j] EXCEPT !.stage = "delete",
                                      !.todo = Present(vault) \ Present(job[j].items)]
               saved == [job[j] EXCEPT !.stage = "files"]
    <2>1. saved.stage = "files" /\ rest.stage = "delete" /\ rest.kind = job[j].kind
          /\ rest.since = job[j].since /\ rest.safety = job[j].safety
      BY <1>1 DEF JobLocals
    <2>2. job'[j] = saved \/ (job'[j] = rest /\ vault' = vault)
      BY <1>1, <1>3 DEF Replace, Write, Then
    <2>3. job[j].stage = "replace" /\ cap' = cap
      BY <1>3 DEF Replace
    <2> HIDE DEF saved, rest
    <2> QED
      BY <2>1, <2>2, <2>3 DEF Guarding, VaultMovesOn
  <1>4. ~Guarding(NoJob) /\ ~Guarding(Done(j)) /\ ~Guarding(Failed(j)) /\ ~Guarding(RolledBack(j))
    BY <1>1 DEF NoJob, Done, Failed, RolledBack, Guarding, JobLocals
  <1>5. CASE \/ SaveTarget(j) \/ SaveItems(j) \/ ReadOriginals(j) \/ Wipe(j) \/ OpenRebuilt(j)
    <2>1. job'[j].stage \in {"files", "save", "open"}
      <3>1. CASE SaveTarget(j) \/ SaveItems(j)
        BY <1>1, <3>1 DEF SaveTarget, SaveItems, Write, Then, JobLocals
      <3>2. CASE ReadOriginals(j)
        BY <1>1, <3>2 DEF ReadOriginals, Then, JobLocals
      <3>3. CASE Wipe(j) \/ OpenRebuilt(j)
        BY <1>1, <3>3 DEF Wipe, OpenRebuilt, Write, Then, JobLocals
      <3> QED
        BY <1>5, <3>1, <3>2, <3>3
    <2> QED
      BY <2>1 DEF Guarding
  <1>6. CASE \E i \in Ids : UndoInsert(j, i)
    <2>1. job'[j].stage = "undo"
      BY <1>1, <1>6 DEF UndoInsert, Write, Then, JobLocals
    <2> QED
      BY <2>1 DEF Guarding
  <1>7. CASE UndoUpdates(j)
    BY <1>1, <1>4, <1>7 DEF UndoUpdates, Write, Then
  <1>8. CASE PutFiles(j) \/ JobFails(j)
    <2>1. Interrupted \in [Jobs -> JobLocals(Len(made))]
      BY OthersType
    <2>2. job'[j] \in {NoJob, Done(j), Failed(j), RolledBack(j)}
      BY <1>1, <1>8, <2>1 DEF PutFiles, JobFails, Leave, Then
    <2> QED
      BY <1>4, <2>2
  <1> QED
    BY <1>2, <1>3, <1>5, <1>6, <1>7, <1>8 DEF Proceed

LEMMA RestoreJobs ==
  ASSUME SingleJob, StateType, StateType', RestoreInv, NEW j \in Jobs, Proceed(j) \/ JobFails(j) \/ Begin(j)
  PROVE  RestoreInv'
  <1>1. CASE \E s \in 1..Len(made) : BeginRestore(j, s)
    BY <1>1, RestoreBegins
  <1>2. CASE Proceed(j) \/ JobFails(j)
    <2>1. made' = made /\ edits' = edits
      BY <1>2 DEF Proceed, JobFails, DeleteSurplus, UndoInsert, Replace, SaveTarget, ReadOriginals,
         SaveItems, UndoUpdates, Wipe, OpenRebuilt, PutFiles, history, content
    <2>2. Carries(j)
      BY <1>2, RestoreProceeds DEF Carries
    <2> QED
      BY <2>1, <2>2, Grows, RestoreCarries DEF SingleJob
  <1>3. CASE \/ (\E s \in 1..Len(made) : BeginRebuild(j, s))
             \/ (\E ids \in SUBSET Ids \ {{}}, attached \in BOOLEAN : BeginImport(j, ids, attached))
    <2>1. job \in [Jobs -> JobLocals(Len(made))]
      BY DEF StateType, LocalsType
    <2>2. CASE \E s \in 1..Len(made) : BeginRebuild(j, s)
      <3>1. job'[j].kind = "rebuild" /\ made' = made /\ edits' = edits
        BY <2>1, <2>2 DEF BeginRebuild, Then, NoJob, history, content
      <3> QED
        BY <3>1, Grows, RestoreCarries DEF SingleJob, Carries, Guarding
    <2>3. CASE \E ids \in SUBSET Ids \ {{}}, attached \in BOOLEAN : BeginImport(j, ids, attached)
      <3> PICK ids \in SUBSET Ids \ {{}}, attached \in BOOLEAN : BeginImport(j, ids, attached)
        BY <2>3
      <3>1. job'[j].kind = "import"
        BY <2>1 DEF BeginImport, Then, NoJob
      <3>2. made' = made /\ edits' = edits + 1
        BY DEF BeginImport, history
      <3> QED
        BY <3>1, <3>2, Grows, RestoreCarries DEF SingleJob, Carries, Guarding
    <2> QED
      BY <1>3, <2>2, <2>3
  <1> QED
    BY <1>1, <1>2, <1>3 DEF Begin

(* Locks, restarts and the user's own edits. *)
LEMMA RestoreOthers ==
  ASSUME StateType, StateType', JobInv, RestoreInv,
         \/ (\E s \in 1..Len(made) : Erase(s)) \/ EraseAll
         \/ (\E f \in Frequencies \cup {"off"} : ChooseFrequency(f))
         \/ Unlock \/ Clock \/ Attach \/ Lock \/ Restart
         \/ (\E i \in Ids, f \in Revs : Edit(i, f)) \/ (\E i \in Ids : Delete(i))
         \/ (\E c \in Captures : \/ BeginManual(c) \/ BeginScheduled(c) \/ LockAndCapture(c)
                                 \/ (\E n \in Limits : ChooseLimit(c, n)))
         \/ UNCHANGED vars
  PROVE  RestoreInv'
  <1>1. /\ job \in [Jobs -> JobLocals(Len(made))] /\ cap \in [Slots -> CaptureLocals(Len(made))]
        /\ Len(made) \in Nat /\ edits \in Nat /\ vault \in Contents /\ Captures \cap Jobs = {}
    BY BackupsAssumption DEF BackupsAssumption, StateType, LocalsType, HistoryType, ContentType, Revs
  <1>2. HistoryGrows
    <2>1. made' = made
      BY DEF Erase, EraseAll, ChooseFrequency, Unlock, Clock, Attach, Lock, Restart, Edit, Delete,
         BeginManual, BeginScheduled, LockAndCapture, ChooseLimit, history, vars
    <2>2. edits' = edits \/ edits' = edits + 1
      BY DEF Erase, EraseAll, ChooseFrequency, Unlock, Clock, Attach, Lock, Restart, Edit, Delete,
         BeginManual, BeginScheduled, LockAndCapture, ChooseLimit, content, vars
    <2> QED
      BY <2>1, <2>2, Grows
  <1>3. VaultMovesOn
    <2>1. CASE \E i \in Ids, f \in Revs : Edit(i, f)
      BY <1>1, <2>1 DEF Edit, VaultMovesOn, Contents
    <2>2. CASE \E i \in Ids : Delete(i)
      BY <1>1, <2>2 DEF Delete, VaultMovesOn, Contents, NoItem
    <2>3. CASE vault' = vault
      BY <2>3 DEF VaultMovesOn
    <2> QED
      BY <2>1, <2>2, <2>3 DEF Erase, EraseAll, ChooseFrequency, Unlock, Clock, Attach, Lock, Restart,
         BeginManual, BeginScheduled, LockAndCapture, ChooseLimit, content, vars
  <1>4. ASSUME NEW j \in Jobs PROVE Carries(j)
    <2>1. /\ Disturbed(job[j]).kind = job[j].kind \/ ~Guarding(Disturbed(job[j]))
          /\ Guarding(Disturbed(job[j])) =>
               /\ Guarding(job[j]) /\ Disturbed(job[j]).stage = job[j].stage
               /\ Disturbed(job[j]).since = job[j].since /\ Disturbed(job[j]).safety = job[j].safety
      BY <1>1 DEF Disturbed, NoJob, Guarding, JobLocals
    <2>2. job'[j] \in {job[j], Disturbed(job[j]), NoJob}
      BY <1>1 DEF Erase, EraseAll, ChooseFrequency, Unlock, Clock, Attach, Lock, Restart, Edit, Delete,
         BeginManual, BeginScheduled, LockAndCapture, ChooseLimit, vars, Disturb, Interrupted
    <2>3. ~Guarding(NoJob)
      BY DEF NoJob, Guarding
    <2>4. cap'[j] \in {cap[j], Cut(cap[j]), NoCapture}
      BY <1>1 DEF Erase, EraseAll, ChooseFrequency, Unlock, Clock, Attach, Lock, Restart, Edit, Delete,
         BeginManual, BeginScheduled, LockAndCapture, ChooseLimit, vars, Shut, Now, Slots
    <2>5. /\ Cut(cap[j]).stage = cap[j].stage /\ Cut(cap[j]).items = cap[j].items
          /\ Cut(cap[j]).index = cap[j].index /\ NoCapture.stage = "idle"
      BY <1>1 DEF Cut, CaptureLocals, NoCapture, Slots
    <2> QED
      BY <1>3, <2>1, <2>2, <2>3, <2>4, <2>5 DEF Carries, Reading, Pruning
  <1> QED
    BY <1>2, <1>4, RestoreCarries

LEMMA RestoreCaptures ==
  ASSUME StateType, StateType', JobInv, RestoreInv, NEW c \in Slots, Continue(c) \/ CaptureFails(c)
  PROVE  RestoreInv'
  <1>1. /\ job \in [Jobs -> JobLocals(Len(made))] /\ cap \in [Slots -> CaptureLocals(Len(made))]
        /\ Len(made) \in Nat /\ edits \in Nat
    BY DEF StateType, LocalsType, HistoryType, ContentType, Revs
  <1>2. CASE Store(c)
    BY <1>2, RestoreStore
  <1>3. CASE \E kept \in SUBSET stored : List(c, kept)
    BY <1>3, RestorePruned DEF List, Pruning, content, history
  <1>4. CASE \E s \in 1..Len(made) : Prune(c, s)
    BY <1>4, RestorePruned DEF Prune, Pruning, content
  <1>5. CASE ListFiles(c) \/ (\E f \in Files : DecryptFile(c, f)) \/ CaptureFails(c)
    <2>1. HistoryGrows /\ VaultMovesOn
      <3>1. made' = made /\ edits' = edits /\ vault' = vault
        BY <1>5 DEF ListFiles, DecryptFile, CaptureFails, content, history
      <3> QED
        BY <3>1, Grows DEF VaultMovesOn
    <2>2. /\ NoCapture.stage = "idle" /\ ~Guarding(NoJob)
          /\ \A j \in Jobs : job'[j] = job[j] \/ job'[j] = NoJob
      BY <1>1, <1>5 DEF ListFiles, DecryptFile, CaptureFails, NoCapture, NoJob, Guarding, Then
    <2>3. ASSUME NEW j \in Jobs
          PROVE  /\ cap'[j].stage \in Reading => cap[j].stage \in Reading /\ cap'[j].items = cap[j].items
                 /\ cap'[j].stage \in Pruning => cap[j].stage \in Pruning /\ cap'[j].index = cap[j].index
      <3>1. cap[j] \in CaptureLocals(Len(made)) /\ cap[c] \in CaptureLocals(Len(made)) /\ j \in Slots
        BY <1>1 DEF Slots
      <3>2. CASE ListFiles(c)
        <4> DEFINE r == [cap[c] EXCEPT !.stage = "decrypt", !.raw = files]
        <4>1. r.stage = "decrypt" /\ r.items = cap[c].items /\ cap[c].stage = "files"
          BY <3>1, <3>2 DEF CaptureLocals, ListFiles
        <4>2. cap'[j] = cap[j] \/ (j = c /\ cap'[j] = r)
          BY <1>1, <3>1, <3>2 DEF ListFiles, Now
        <4> QED
          BY <4>1, <4>2 DEF Reading, Pruning
      <3>3. CASE \E f \in Files : DecryptFile(c, f)
        <4> PICK f \in Files : DecryptFile(c, f)
          BY <3>3
        <4> DEFINE r == [cap[c] EXCEPT !.raw = @ \ {f}, !.got = IF session THEN @ \cup {f} ELSE @]
        <4>1. r.stage = cap[c].stage /\ r.items = cap[c].items /\ cap[c].stage = "decrypt"
          BY <3>1 DEF CaptureLocals, DecryptFile
        <4>2. cap'[j] = cap[j] \/ (j = c /\ cap'[j] = r)
          BY <1>1, <3>1 DEF DecryptFile, Now
        <4> QED
          BY <4>1, <4>2 DEF Reading, Pruning
      <3>4. CASE CaptureFails(c)
        <4>1. cap'[j] = cap[j] \/ cap'[j] = NoCapture
          BY <1>1, <3>1, <3>4 DEF CaptureFails, Now
        <4> QED
          BY <2>2, <4>1 DEF Reading, Pruning
      <3> QED
        BY <1>5, <3>2, <3>3, <3>4
    <2>4. \A j \in Jobs : Carries(j)
      BY <2>1, <2>2, <2>3 DEF Carries
    <2> QED
      BY <2>1, <2>4, RestoreCarries
  <1> QED
    BY <1>2, <1>3, <1>4, <1>5 DEF Continue

LEMMA RestoreInit == ASSUME Init PROVE RestoreInv
  BY DEF Init, RestoreInv, Kept, Guarding, NoJob

LEMMA RestoreStep ==
  ASSUME SingleJob, StateType, StateType', JobInv, RestoreInv, [Next]_vars
  PROVE  RestoreInv'
  <1>1. CASE User
    BY <1>1, RestoreOthers, RestoreJobs DEF User
  <1>2. CASE Happens
    BY <1>1, <1>2, RestoreOthers, RestoreJobs, RestoreCaptures DEF Happens
  <1> QED
    BY <1>2, RestoreOthers, RestoreJobs, RestoreCaptures DEF Next

(* JobInv and RestoreInv are inductive, given the types; RestoreInv when   *)
(* there is one job.                                                       *)
THEOREM RestoreInductive == ASSUME SingleJob PROVE Spec => [](TypeOK /\ JobInv /\ RestoreInv)
  <1>1. Init => JobInv /\ RestoreInv
    BY JobInit, RestoreInit
  <1>2. JobInv /\ RestoreInv /\ TypeOK /\ TypeOK' /\ [Next]_vars => JobInv' /\ RestoreInv'
    BY JobStep, RestoreStep DEF TypeOK, StateType
  <1> QED
    BY <1>1, <1>2, TypeCorrect, PTL DEF Spec

(* NothingLostByRestore: whatever a restore takes from the vault is in its *)
(* safety snapshot, and retention, the clock and crashes leave this        *)
(* snapshot there.                                                         *)
THEOREM RestoresLoseNothing == ASSUME SingleJob PROVE Spec => NothingLostByRestore
  <1> DEFINE Taken == \A j \in Jobs, i \in Ids :
               Restores(j) /\ vault'[i] # vault[i] /\ vault[i].rev \in 1..job[j].since =>
                 \E s \in 1..Len(made) :
                   /\ s = job[j].safety /\ made[s].items[i] = vault[i]
                   /\ s \in stored \/ s \in erased \/ Outnumbered(s)
  <1>1. RestoreInv /\ RecentSurvive => Taken
    <2> SUFFICES ASSUME RestoreInv, RecentSurvive, NEW j \in Jobs, NEW i \in Ids,
                        Restores(j), vault[i].rev \in 1..job[j].since
                 PROVE  \E s \in 1..Len(made) :
                          /\ s = job[j].safety /\ made[s].items[i] = vault[i]
                          /\ s \in stored \/ s \in erased \/ Outnumbered(s)
      OBVIOUS
    <2>1. Holds(job[j].safety, job[j].since)
      BY DEF RestoreInv, Kept, Guarding, Restores
    <2>2. job[j].safety \in 1..Len(made) /\ made[job[j].safety].items[i] = vault[i]
      BY <2>1 DEF Holds, Covers
    <2> QED
      BY <2>2 DEF RecentSurvive
  <1>2. RestoreInv /\ RecentSurvive /\ [Next]_vars => [Taken]_vars
    BY <1>1
  <1> HIDE DEF Taken
  <1>3. Spec => [][Taken]_vars
    BY <1>2, RestoreInductive, RetentionTakesTheOldest, PTL DEF Spec
  <1> QED
    BY <1>3 DEF NothingLostByRestore, Taken
===============================================================================
