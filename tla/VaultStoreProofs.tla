--------------------------- MODULE VaultStoreProofs ---------------------------
(***************************************************************************)
(* Theorems about VaultStore for any set of tabs, operations and ids: its  *)
(* types, and the integrity gate with the verdict of a read, by which rows *)
(* that another program put into a sealed vault are neither signed nor     *)
(* shown.                                                                  *)
(***************************************************************************)
EXTENDS VaultForgery, SequenceTheorems, FiniteSetTheorems, TLAPS

(* The row edits, the tags and the verdict of VaultIntegrity. *)

(* Choosing the n-th position of a set of positions stays inside the set.  *)
LEMMA NthInSet ==
  ASSUME NEW K, NEW n, K # {}
  PROVE  Nth(K, n) \in K
<1> DEFINE rank(i) == Cardinality({k \in K : k <= i})
<1>1. \E i \in K : (\E k \in K : rank(k) = n) => rank(i) = n
  <2>1. CASE \E k \in K : rank(k) = n
    BY <2>1
  <2>2. CASE ~\E k \in K : rank(k) = n
    BY <2>2
  <2> QED BY <2>1, <2>2
<1>2. Nth(K, n) = CHOOSE i \in K : (\E k \in K : rank(k) = n) => rank(i) = n
  BY DEF Nth
<1> HIDE DEF rank
<1> QED BY <1>1, <1>2

(* Counting the positions up to each one numbers a finite set of them, and  *)
(* Nth finds every number again: no position is skipped and none is taken   *)
(* twice.                                                                   *)
LEMMA NthEnumerates ==
  ASSUME NEW m \in Nat, NEW K \in SUBSET (1..m)
  PROVE  LET rank(i) == Cardinality({k \in K : k <= i})
         IN  /\ \A i \in K : rank(i) \in 1..Cardinality(K) /\ Nth(K, rank(i)) = i
             /\ \A n \in 1..Cardinality(K) : Nth(K, n) \in K /\ rank(Nth(K, n)) = n
<1> DEFINE upTo(i) == {k \in K : k <= i}
           rank(i) == Cardinality(upTo(i))
           number == [i \in K |-> rank(i)]
<1>1. IsFiniteSet(K) /\ Cardinality(K) \in Nat
  <2>1. IsFiniteSet(1..m)
    BY FS_Interval
  <2>2. IsFiniteSet(K)
    BY <2>1, FS_Subset
  <2> QED BY <2>2, FS_CardinalityType
<1>2. ASSUME NEW i \in K
      PROVE  IsFiniteSet(upTo(i)) /\ rank(i) \in 1..Cardinality(K)
  <2>1. IsFiniteSet(upTo(i)) /\ rank(i) <= Cardinality(K) /\ rank(i) \in Nat
    BY <1>1, FS_Subset, FS_CardinalityType
  <2>2. i \in upTo(i)
    OBVIOUS
  <2>3. rank(i) # 0
    BY <2>1, <2>2, FS_EmptySet
  <2> QED BY <1>1, <2>1, <2>3
<1>3. ASSUME NEW i \in K, NEW j \in K, i < j
      PROVE  rank(i) < rank(j)
  <2>0. i \in Int /\ j \in Int /\ \A k \in K : k \in Int
    OBVIOUS
  <2>1. upTo(i) \in SUBSET upTo(j) /\ j \in upTo(j) /\ j \notin upTo(i)
    <3>1. \A k \in K : k <= i => k <= j
      BY <1>3, <2>0
    <3>2. j <= j /\ ~(j <= i)
      BY <1>3, <2>0
    <3> QED BY <3>1, <3>2
  <2>2. rank(i) <= rank(j) /\ (rank(i) = rank(j) => upTo(i) = upTo(j))
    BY <1>2, <2>1, FS_Subset
  <2> QED BY <1>1, <1>2, <2>1, <2>2
<1>4. ASSUME NEW i \in K, NEW j \in K, rank(i) = rank(j)
      PROVE  i = j
  <2>1. i \in Int /\ j \in Int /\ rank(i) \in Int
    BY <1>1, <1>2
  <2> QED BY <1>3, <1>4, <2>1
<1>5. number \in Injection(K, 1..Cardinality(K))
  BY <1>2, <1>4 DEF Injection, IsInjective
<1>6. number \in Surjection(K, 1..Cardinality(K))
  <2>1. IsFiniteSet(1..Cardinality(K)) /\ Cardinality(1..Cardinality(K)) = Cardinality(K)
    BY <1>1, FS_Interval
  <2> QED BY <1>5, <2>1, FS_Injection
<1>7. \A n \in 1..Cardinality(K) : \E i \in K : rank(i) = n
  BY <1>6 DEF Surjection
<1>8. ASSUME NEW n, \E i \in K : rank(i) = n
      PROVE  Nth(K, n) \in K /\ rank(Nth(K, n)) = n
  <2>1. Nth(K, n) = CHOOSE i \in K : (\E k \in K : rank(k) = n) => rank(i) = n
    BY DEF Nth
  <2>2. \E i \in K : (\E k \in K : rank(k) = n) => rank(i) = n
    BY <1>8
  <2> HIDE DEF rank
  <2> QED BY <1>8, <2>1, <2>2
<1>9. \A i \in K : Nth(K, rank(i)) = i
  BY <1>4, <1>8
<1> QED BY <1>2, <1>7, <1>8, <1>9

(* Filtering a sequence gives a sequence of elements of the original: the  *)
(* permanent deletion of an item and the release of a dead tab's locks     *)
(* never invent an entry.                                                  *)
LEMMA KeepingIsASelection ==
  ASSUME NEW S, NEW s \in Seq(S), NEW K \in SUBSET (DOMAIN s)
  PROVE  /\ Keeping(s, K) \in Seq(S)
         /\ \A n \in DOMAIN Keeping(s, K) : \E i \in DOMAIN s : Keeping(s, K)[n] = s[i]
<1>1. DOMAIN s = 1..Len(s) /\ Len(s) \in Nat /\ s \in [1..Len(s) -> S]
  BY LenProperties
<1>2. IsFiniteSet(K) /\ Cardinality(K) \in Nat
  <2>1. IsFiniteSet(DOMAIN s)
    BY <1>1, FS_Interval
  <2>2. IsFiniteSet(K)
    BY <2>1, FS_Subset
  <2> QED BY <2>2, FS_CardinalityType
<1>3. ASSUME NEW n \in 1..Cardinality(K)
      PROVE  Nth(K, n) \in DOMAIN s
  <2>1. K # {}
    BY <1>2, FS_EmptySet
  <2> QED BY <2>1, NthInSet
<1>4. \A n \in 1..Cardinality(K) : s[Nth(K, n)] \in S
  BY <1>1, <1>3
<1>5. Keeping(s, K) \in [1..Cardinality(K) -> S]
  BY <1>4 DEF Keeping
<1>6. Keeping(s, K) \in Seq(S)
  BY <1>2, <1>5, SeqDef
<1>7. \A n \in DOMAIN Keeping(s, K) : Keeping(s, K)[n] = s[Nth(K, n)]
  BY DEF Keeping
<1>8. DOMAIN Keeping(s, K) = 1..Cardinality(K)
  BY DEF Keeping
<1> QED BY <1>3, <1>6, <1>7, <1>8

(* Deleting an id leaves only rows that were there. *)
LEMMA PurgeType ==
  ASSUME NEW S, NEW rows \in Seq(S), NEW id
  PROVE  /\ Purge(rows, id) \in Seq(S)
         /\ \A n \in DOMAIN Purge(rows, id) : \E i \in DOMAIN rows : Purge(rows, id)[n] = rows[i]
<1> DEFINE K == DOMAIN rows \ PositionsOf(rows, id)
<1>1. K \in SUBSET (DOMAIN rows)
  OBVIOUS
<1>2. Purge(rows, id) = Keeping(rows, K)
  BY DEF Purge
<1> HIDE DEF K
<1> QED BY <1>1, <1>2, KeepingIsASelection

(* Writing a row at an index adds at most that row. *)
LEMMA PutAtType ==
  ASSUME NEW S, NEW rows \in Seq(S), NEW i, NEW row \in S
  PROVE  /\ PutAt(rows, i, row) \in Seq(S)
         /\ \A n \in DOMAIN PutAt(rows, i, row) :
              PutAt(rows, i, row)[n] = row \/ \E m \in DOMAIN rows : PutAt(rows, i, row)[n] = rows[m]
<1>1. DOMAIN rows = 1..Len(rows) /\ Len(rows) \in Nat
  BY LenProperties
<1>2. CASE i \in DOMAIN rows
  <2>1. PutAt(rows, i, row) = [rows EXCEPT ![i] = row]
    BY <1>2 DEF PutAt
  <2>2. PutAt(rows, i, row) \in Seq(S)
    BY <1>1, <1>2, <2>1, ExceptSeq
  <2> QED BY <2>1, <2>2
<1>3. CASE i \notin DOMAIN rows
  <2>1. PutAt(rows, i, row) = Append(rows, row)
    BY <1>3 DEF PutAt
  <2>2. /\ Append(rows, row) \in Seq(S)
        /\ Len(Append(rows, row)) = Len(rows) + 1
        /\ \A j \in 1..Len(rows) : Append(rows, row)[j] = rows[j]
        /\ Append(rows, row)[Len(rows) + 1] = row
    BY AppendProperties
  <2>3. DOMAIN Append(rows, row) = 1..(Len(rows) + 1)
    BY <2>2, LenProperties
  <2> QED BY <1>1, <2>1, <2>2, <2>3
<1> QED BY <1>2, <1>3

(* An index into the rows is a number. *)
LEMMA IndexOfType ==
  ASSUME NEW S, NEW rows \in Seq(S), NEW id
  PROVE  IndexOf(rows, id) \in Int
<1>1. DOMAIN rows = 1..Len(rows) /\ Len(rows) \in Nat
  BY LenProperties
<1>2. CASE Has(rows, id)
  <2>1. Nth(PositionsOf(rows, id), 1) \in PositionsOf(rows, id)
    BY <1>2, NthInSet DEF Has
  <2> QED BY <1>1, <1>2, <2>1 DEF IndexOf, PositionsOf
<1>3. CASE ~Has(rows, id)
  BY <1>3 DEF IndexOf
<1> QED BY <1>2, <1>3

(* The rows of a typed state are a set of rows. *)
LEMMA ContentType ==
  ASSUME NEW s \in State
  PROVE  Content(s) \in SUBSET Row
BY LenProperties DEF State, Content

(* Signing gives a tag that covers the rows of the state and nothing else. *)
LEMMA SignV2Type ==
  ASSUME NEW s \in State, NEW key \in Keys
  PROVE  SignV2(s, key) \in Tag /\ SignV2(s, key).rows = Content(s)
<1>1. s.ver \in Int /\ s.sealedAt \in Int
  BY DEF State
<1> QED BY <1>1, ContentType DEF SignV2, Tag

(* A verdict that lets a state be re-signed, once a tag is required, means  *)
(* that the stored tag covers exactly the rows of the state: the gate never *)
(* passes rows the tag does not vouch for (K-3, Y-5).                       *)
THEOREM ReSignedMeansCovered ==
  ASSUME NEW s, NEW key, NEW minVersion,
         MayReSign(EvaluateIntegrity(s, key, minVersion, TRUE))
  PROVE  HasTag(s) /\ s.tag.rows = Content(s)
<1>1. HasTag(s)
  BY DEF EvaluateIntegrity, MayReSign
<1>2. s.tag = SignV2(s, key) \/ s.tag = SignV1(s, key)
  BY <1>1 DEF EvaluateIntegrity, MayReSign
<1> QED BY <1>1, <1>2 DEF SignV2, SignV1

-----------------------------------------------------------------------------
USE StoreAssumption

OpOK(r) ==
  /\ r \in OpRecord
  /\ r.pc \in Running => r.tab \in Tabs
  /\ r.pc \in Undoable => r.prev \in State /\ r.id \in Ids
  /\ r.pc = "writing" => r.image \in State

TypeInv == TypeOK /\ \A o \in Ops : OpOK(op[o])

-----------------------------------------------------------------------------
LEMMA NoTagType == NoTag \in Tag /\ NoTag.rows = {} /\ NoTag.scheme = "none"
<1>1. (CHOOSE k \in Keys : TRUE) \in Keys
  OBVIOUS
<1> QED BY <1>1 DEF NoTag, Tag, NoSeal

LEMMA RowType == ASSUME NEW o \in Ops \cup {Seed, Forged}, NEW id \in Ids
                 PROVE  [id |-> id, val |-> o] \in Row
BY DEF Row

LEMMA StateUpdate ==
  ASSUME NEW s \in State
  PROVE  /\ s.rows \in Seq(Row) /\ s.ver \in Int /\ s.sealedAt \in Int /\ s.tag \in Tag
         /\ \A rows \in Seq(Row) : [s EXCEPT !.rows = rows] \in State
         /\ \A n \in Int : [s EXCEPT !.ver = n] \in State
         /\ \A n \in Int : [s EXCEPT !.sealedAt = n] \in State
         /\ \A g \in Tag : [s EXCEPT !.tag = g] \in State
BY DEF State

LEMMA StateRecord ==
  ASSUME NEW rows \in Seq(Row), NEW ver \in Int, NEW sealedAt \in Int, NEW g \in Tag
  PROVE  [rows |-> rows, ver |-> ver, sealedAt |-> sealedAt, tag |-> g] \in State
BY DEF State

LEMMA AtType == ASSUME NEW pc \in {"idle"} \cup Outcomes
                PROVE  OpOK(At(pc))
<1>1. At(pc) \in OpRecord
  BY NoTagType DEF At, OpRecord
<1> QED BY <1>1 DEF OpOK, At, Running, Undoable, Outcomes

LEMMA FreshFileType ==
  ASSUME NEW rows \in Seq(Row)
  PROVE  FreshFile(rows) \in State
<1>1. 2 \in Int /\ NoSeal \in Int
  BY DEF NoSeal
<1> QED BY <1>1, NoTagType, StateRecord DEF FreshFile

LEMMA BlankType == Blank \in State
<1>1. <<>> \in Seq(Row)
  BY EmptySeq
<1> QED BY <1>1, FreshFileType DEF Blank

LEMMA SignType ==
  ASSUME NEW s \in State
  PROVE  SignV1(s, Key) \in Tag /\ SignV2(s, Key) \in Tag
<1>1. s.ver \in Int /\ s.sealedAt \in Int /\ NoSeal \in Int
  BY StateUpdate DEF NoSeal
<1>2. Content(s) \in SUBSET Row
  BY ContentType
<1>3. Key \in Keys
  OBVIOUS
<1> QED BY <1>1, <1>2, <1>3 DEF SignV1, SignV2, Tag

LEMMA InitialFilesType ==
  ASSUME NEW start \in InitialFiles
  PROVE  start[1] \in State /\ start[2] \in Int
<1> DEFINE empty == FreshFile(<<>>)
           some  == {FreshFile(<<[id |-> i, val |-> Seed]>>) : i \in Ids}
           bind(s) == [s EXCEPT !.sealedAt = s.ver]
           seal(s) == [bind(s) EXCEPT !.tag = SignV2(bind(s), Key)]
           sealV1(s) == [s EXCEPT !.tag = SignV1(s, Key)]
<1>1. empty \in State
  BY BlankType DEF Blank
<1>2. some \subseteq State
  <2>1. ASSUME NEW i \in Ids
        PROVE  <<[id |-> i, val |-> Seed]>> \in Seq(Row)
    <3>1. [id |-> i, val |-> Seed] \in Row
      BY RowType
    <3> QED BY <3>1
  <2> QED BY <2>1, FreshFileType
<1>3. ASSUME NEW s \in State
      PROVE  seal(s) \in State /\ sealV1(s) \in State /\ s.ver \in Int
  <2>1. s.ver \in Int /\ bind(s) \in State
    BY StateUpdate
  <2>2. seal(s) \in State
    BY <2>1, SignType, StateUpdate
  <2>3. sealV1(s) \in State
    BY SignType, StateUpdate
  <2> QED BY <2>1, <2>2, <2>3
<1>4. InitialFiles = {<<s, 0>> : s \in {empty} \cup some}
                       \cup {<<seal(s), s.ver>> : s \in {empty} \cup some}
                       \cup {<<sealV1(s), 0>> : s \in some}
  BY DEF InitialFiles
<1> HIDE DEF empty, some, seal, sealV1
<1> QED BY <1>1, <1>2, <1>3, <1>4

LEMMA InitType == Init => TypeInv
<1> SUFFICES ASSUME Init PROVE TypeInv
  OBVIOUS
<1>1. file \in State /\ ledger \in Int
  BY InitialFilesType DEF Init
<1>2. Blank \in State
  BY BlankType
<1>3. lock \in Seq(Ops)
  BY EmptySeq DEF Init
<1>4. \A o \in Ops : op[o] = At("idle") /\ OpOK(op[o])
  BY AtType DEF Init
<1>5. op \in [Ops -> OpRecord]
  <2>1. At("idle") \in OpRecord
    BY AtType DEF OpOK
  <2>2. op = [o \in Ops |-> At("idle")]
    BY DEF Init
  <2> QED BY <2>1, <2>2
<1>6. mem \in [Tabs -> State]
  BY <1>2 DEF Init
<1>7. /\ snap \in [Tabs -> State \cup {NoState}]
      /\ status \in [Tabs -> {"closed", "resaving", "open", "failed"}]
      /\ cache \in [Tabs -> Int]
      /\ observed \in [Tabs -> Int]
  BY DEF Init, NotCached
<1>8. backend \in Backends /\ late \subseteq State /\ past \subseteq State /\ tampered \in BOOLEAN
  BY DEF Init
<1> QED BY <1>1, <1>3, <1>4, <1>5, <1>6, <1>7, <1>8 DEF TypeInv, TypeOK

-----------------------------------------------------------------------------
(* Type correctness is inductive.  The lemmas follow the pieces of state    *)
(* that the actions share.                                                  *)

LEMMA OpUpdate ==
  ASSUME TypeInv, NEW o \in Ops, NEW r, OpOK(r), op' = [op EXCEPT ![o] = r]
  PROVE  op' \in [Ops -> OpRecord] /\ \A x \in Ops : OpOK(op'[x])
<1>1. op \in [Ops -> OpRecord] /\ \A x \in Ops : OpOK(op[x])
  BY DEF TypeInv, TypeOK
<1>2. r \in OpRecord
  BY DEF OpOK
<1>3. \A x \in Ops : op'[x] = IF x = o THEN r ELSE op[x]
  BY <1>1
<1>4. \A x \in Ops : OpOK(op'[x])
  BY <1>1, <1>3
<1> QED BY <1>1, <1>2, <1>4

LEMMA PcUpdate ==
  ASSUME NEW r, OpOK(r), NEW pc \in Running \ {"writing"},
         r.pc \in Running, pc \in Undoable => r.pc \in Undoable
  PROVE  OpOK([r EXCEPT !.pc = pc])
<1>1. [r EXCEPT !.pc = pc] \in OpRecord
  BY DEF OpOK, OpRecord
<1>2. /\ [r EXCEPT !.pc = pc].pc = pc /\ [r EXCEPT !.pc = pc].tab = r.tab
      /\ [r EXCEPT !.pc = pc].prev = r.prev /\ [r EXCEPT !.pc = pc].id = r.id
  BY DEF OpOK, OpRecord
<1> QED BY <1>1, <1>2 DEF OpOK

LEMMA FailType ==
  ASSUME TypeInv, NEW o \in Ops, NEW outcome \in Outcomes,
         op[o].pc \in Undoable, Holds(o), Fail(o, outcome)
  PROVE  /\ mem' \in [Tabs -> State]
         /\ lock' \in Seq(Ops)
         /\ op' \in [Ops -> OpRecord] /\ \A x \in Ops : OpOK(op'[x])
<1>1. op[o].prev \in State /\ op[o].tab \in Tabs
  BY DEF TypeInv, OpOK, Undoable, Running
<1>2. mem' \in [Tabs -> State]
  BY <1>1 DEF Fail, TypeInv, TypeOK
<1>3. lock' \in Seq(Ops)
  BY HeadTailProperties DEF Fail, Holds, TypeInv, TypeOK
<1>4. OpOK(At(outcome))
  BY AtType
<1>5. op' \in [Ops -> OpRecord] /\ \A x \in Ops : OpOK(op'[x])
  BY <1>4, OpUpdate DEF Fail
<1> QED BY <1>2, <1>3, <1>5

LEMMA CommittedType ==
  ASSUME TypeInv, NEW t \in Tabs, NEW s \in State, Committed(t, s)
  PROVE  /\ snap' \in [Tabs -> State \cup {NoState}]
         /\ observed' \in [Tabs -> Int]
         /\ cache' \in [Tabs -> Int]
         /\ ledger' \in Int
<1>1. s.ver \in Int
  BY StateUpdate
<1>2. Larger(Mark(t), s.ver) \in Int
  BY <1>1 DEF Larger, Mark, TypeInv, TypeOK
<1> QED BY <1>1, <1>2 DEF Committed, TypeInv, TypeOK

LEMMA StoreType ==
  ASSUME TypeInv, NEW s \in State, Store(s)
  PROVE  file' \in State /\ past' \subseteq State
BY DEF Store, TypeInv, TypeOK

LEMMA EditType ==
  ASSUME TypeInv, NEW o \in Ops, op[o].pc = "encrypting", NEW rows \in Seq(Row)
  PROVE  Edit(o, rows) \in Seq(Row)
<1> DEFINE row == [id |-> op[o].id, val |-> o]
<1>1. op[o].id \in Ids
  BY DEF TypeInv, OpOK, Undoable
<1>2. row \in Row
  BY <1>1, RowType
<1>3. \A i : PutAt(rows, i, row) \in Seq(Row)
  BY <1>2, PutAtType
<1>4. <<row>> \in Seq(Row)
  BY <1>2
<1> QED BY <1>3, <1>4 DEF Edit, Upsert

LEMMA BeginType ==
  ASSUME TypeInv, NEW t \in Tabs, NEW o \in Ops, NEW kind \in Kinds, NEW id \in Ids,
         NEW pc \in {"encrypting", "queued", "reading"}, kind = "read" <=> pc = "reading",
         Begin(t, o, kind, id, pc)
  PROVE  op' \in [Ops -> OpRecord] /\ \A x \in Ops : OpOK(op'[x])
<1> DEFINE at == IF kind = "save" THEN IndexOf(mem[t].rows, id) ELSE 0
           prev == IF kind = "read" THEN NoState ELSE mem[t]
           r == [pc |-> pc, tab |-> t, kind |-> kind, id |-> id, at |-> at,
                 prev |-> prev, sig |-> NoTag, image |-> NoState]
<1>1. mem[t] \in State /\ mem[t].rows \in Seq(Row)
  BY StateUpdate DEF TypeInv, TypeOK
<1>2. at \in Int
  BY <1>1, IndexOfType
<1>3. prev \in State \cup {NoState} /\ (pc # "reading" => prev \in State)
  BY <1>1
<1> HIDE DEF at, prev
<1>5. r \in OpRecord
  BY <1>2, <1>3, NoTagType DEF OpRecord, Running
<1>6. OpOK(r)
  BY <1>3, <1>5 DEF OpOK, Undoable
<1>7. op' = [op EXCEPT ![o] = r]
  BY Zenon DEF Begin, at, prev
<1> QED BY <1>6, <1>7, OpUpdate

LEMMA RowsType ==
  ASSUME TypeInv, NEW t \in Tabs, NEW rows \in Seq(Row),
         mem' = [mem EXCEPT ![t].rows = rows]
  PROVE  mem' \in [Tabs -> State]
<1>1. [mem[t] EXCEPT !.rows = rows] \in State
  BY StateUpdate DEF TypeInv, TypeOK
<1> QED BY <1>1 DEF TypeInv, TypeOK

LEMMA TabStepType ==
  ASSUME TypeInv, NEW t \in Tabs, TabStep(t)
  PROVE  TypeInv'
<1> USE DEF TypeInv, TypeOK
<1>1. CASE Open(t)
  <2>1. file.ver \in Int
    BY StateUpdate
  <2>2. snap' \in [Tabs -> State \cup {NoState}]
    <3>1. snap' = snap \/ snap' = [snap EXCEPT ![t] = file]
      BY <1>1 DEF Open
    <3> QED BY <3>1
  <2>3. observed' \in [Tabs -> Int]
    <3>1. (IF file.ver < Larger(Mark(t), observed[t]) THEN observed[t] ELSE file.ver) \in Int
      BY <2>1
    <3> QED BY <1>1, <3>1 DEF Open
  <2>4. status' \in [Tabs -> {"closed", "resaving", "open", "failed"}]
    BY <1>1 DEF Open
  <2> QED BY <1>1, <2>2, <2>3, <2>4 DEF Open
<1>2. CASE ResaveRefused(t)
  BY <1>2 DEF ResaveRefused
<1>3. CASE Resave(t)
  <2> DEFINE next == [mem[t] EXCEPT !.ver = @ + 1]
  <2>1. next \in State
    <3>1. mem[t].ver + 1 \in Int
      BY StateUpdate
    <3> QED BY <3>1, StateUpdate
  <2>2. Store(next) /\ Committed(t, next) /\ mem' = [mem EXCEPT ![t] = next]
        /\ status' = [status EXCEPT ![t] = "open"]
        /\ UNCHANGED <<backend, lock, late, op, tampered>>
    BY <1>3 DEF Resave
  <2> HIDE DEF next
  <2>3. file' \in State /\ past' \subseteq State
    BY <2>1, <2>2, StoreType
  <2>4. /\ snap' \in [Tabs -> State \cup {NoState}] /\ observed' \in [Tabs -> Int]
        /\ cache' \in [Tabs -> Int] /\ ledger' \in Int
    BY <2>1, <2>2, CommittedType
  <2> QED BY <2>1, <2>2, <2>3, <2>4
<1>4. CASE ResaveFails(t)
  <2>1. mem[t].ver + 1 \in Int
    BY StateUpdate
  <2>2. [mem[t] EXCEPT !.ver = @ + 1] \in State
    BY <2>1, StateUpdate
  <2>3. late' \subseteq State
    BY <1>4, <2>2 DEF ResaveFails, Abandon
  <2> QED BY <1>4, <2>2, <2>3 DEF ResaveFails
<1>5. CASE Close(t)
  <2>1. lock' \in Seq(Ops)
    <3> DEFINE K == {i \in DOMAIN lock : op[lock[i]].tab # t}
    <3>1. K \in SUBSET (DOMAIN lock) /\ lock' = Keeping(lock, K)
      BY <1>5 DEF Close
    <3> HIDE DEF K
    <3> QED BY <3>1, KeepingIsASelection
  <2>2. OpOK(At("lost")) /\ At("lost") \in OpRecord
    BY AtType DEF OpOK, Outcomes
  <2>3. op' \in [Ops -> OpRecord] /\ \A x \in Ops : OpOK(op'[x])
    BY <1>5, <2>2 DEF Close
  <2>4. mem' \in [Tabs -> State]
    BY <1>5, BlankType DEF Close
  <2> QED BY <1>5, <2>1, <2>3, <2>4 DEF Close, NotCached
<1> QED BY <1>1, <1>2, <1>3, <1>4, <1>5 DEF TabStep

LEMMA StartType ==
  ASSUME TypeInv, NEW t \in Tabs, NEW o \in Ops, Start(t, o)
  PROVE  TypeInv'
<1>1. CASE BeginWrite(t, o)
  <2>1. op' \in [Ops -> OpRecord] /\ \A x \in Ops : OpOK(op'[x])
    BY <1>1, BeginType DEF BeginWrite, Kinds
  <2> QED BY <1>1, <2>1 DEF BeginWrite, shared, perTab, history, TypeInv, TypeOK
<1>2. CASE BeginPurge(t, o)
  <2>1. PICK id \in Ids : /\ Begin(t, o, "purge", id, "queued")
                          /\ mem' = [mem EXCEPT ![t].rows = Purge(@, id)]
    BY <1>2 DEF BeginPurge
  <2>2. op' \in [Ops -> OpRecord] /\ \A x \in Ops : OpOK(op'[x])
    BY <2>1, BeginType DEF Kinds
  <2>3. Purge(mem[t].rows, id) \in Seq(Row)
    BY PurgeType, StateUpdate DEF TypeInv, TypeOK
  <2>4. mem' \in [Tabs -> State]
    BY <2>1, <2>3, RowsType
  <2>5. lock' \in Seq(Ops)
    BY <1>2, AppendProperties DEF BeginPurge, TypeInv, TypeOK
  <2> QED BY <1>2, <2>2, <2>4, <2>5 DEF BeginPurge, TypeInv, TypeOK
<1>3. CASE BeginTrash(t, o)
  <2>1. PICK id \in Ids : /\ Begin(t, o, "trash", id, "queued")
                          /\ mem' = [mem EXCEPT ![t].rows = Upsert(@, [id |-> id, val |-> o])]
    BY <1>3 DEF BeginTrash
  <2>2. op' \in [Ops -> OpRecord] /\ \A x \in Ops : OpOK(op'[x])
    BY <2>1, BeginType DEF Kinds
  <2>3. Upsert(mem[t].rows, [id |-> id, val |-> o]) \in Seq(Row)
    BY RowType, PutAtType, StateUpdate DEF Upsert, TypeInv, TypeOK
  <2>4. mem' \in [Tabs -> State]
    BY <2>1, <2>3, RowsType
  <2>5. lock' \in Seq(Ops)
    BY <1>3, AppendProperties DEF BeginTrash, TypeInv, TypeOK
  <2> QED BY <1>3, <2>2, <2>4, <2>5 DEF BeginTrash, TypeInv, TypeOK
<1>4. CASE BeginRead(t, o)
  <2>1. op' \in [Ops -> OpRecord] /\ \A x \in Ops : OpOK(op'[x])
    BY <1>4, BeginType DEF BeginRead, Kinds
  <2> QED BY <1>4, <2>1 DEF BeginRead, shared, perTab, history, TypeInv, TypeOK
<1> QED BY <1>1, <1>2, <1>3, <1>4 DEF Start

LEMMA RunningType ==
  ASSUME TypeInv, NEW o \in Ops, op[o].pc \in Running
  PROVE  /\ OpOK(op[o]) /\ op[o] \in OpRecord
         /\ op[o].tab \in Tabs
         /\ mem[op[o].tab] \in State
BY DEF TypeInv, TypeOK, OpOK

LEMMA GotoType ==
  ASSUME TypeInv, NEW o \in Ops, NEW pc \in Running \ {"writing"}, Goto(o, pc),
         op[o].pc \in Running, pc \in Undoable => op[o].pc \in Undoable
  PROVE  op' \in [Ops -> OpRecord] /\ \A x \in Ops : OpOK(op'[x])
<1>1. OpOK([op[o] EXCEPT !.pc = pc])
  BY RunningType, PcUpdate
<1> QED BY <1>1, OpUpdate DEF Goto

LEMMA FailStepType ==
  ASSUME TypeInv, NEW o \in Ops, NEW outcome \in Outcomes,
         op[o].pc \in Undoable, Holds(o), Fail(o, outcome),
         UNCHANGED <<backend, file, ledger, status, snap, cache, observed, past, tampered>>,
         late' \subseteq State
  PROVE  TypeInv'
BY FailType DEF TypeInv, TypeOK

LEMMA StepType ==
  ASSUME TypeInv, NEW o \in Ops, Step(o)
  PROVE  TypeInv'
<1>1. CASE Mutate(o)
  <2>1. op[o].pc = "encrypting" /\ op[o].pc \in Running
    BY <1>1 DEF Mutate, Running
  <2>2. Edit(o, mem[op[o].tab].rows) \in Seq(Row)
    BY <2>1, RunningType, StateUpdate, EditType
  <2>3. mem' \in [Tabs -> State]
    BY <1>1, <2>1, <2>2, RunningType, RowsType DEF Mutate
  <2>4. op' \in [Ops -> OpRecord] /\ \A x \in Ops : OpOK(op'[x])
    BY <1>1, <2>1, GotoType DEF Mutate, Goto, Running, Undoable
  <2>5. lock' \in Seq(Ops)
    BY <1>1, AppendProperties DEF Mutate, TypeInv, TypeOK
  <2> QED BY <1>1, <2>3, <2>4, <2>5 DEF Mutate, TypeInv, TypeOK
<1>2. CASE Conflict(o)
  BY <1>2, FailStepType DEF Conflict, Undoable, Outcomes, TypeInv, TypeOK
<1>3. CASE Gate(o)
  <2>1. op' \in [Ops -> OpRecord] /\ \A x \in Ops : OpOK(op'[x])
    BY <1>3, GotoType DEF Gate, Running, Undoable
  <2> QED BY <1>3, <2>1 DEF Gate, shared, perTab, history, TypeInv, TypeOK
<1>4. CASE Bar(o)
  BY <1>4, FailStepType DEF Bar, Undoable, Outcomes, TypeInv, TypeOK
<1>5. CASE Bump(o)
  <2>1. op[o].pc \in Running
    BY <1>5 DEF Bump, Running
  <2>2. mem[op[o].tab].ver + 1 \in Int
    BY <2>1, RunningType, StateUpdate
  <2>3. [mem[op[o].tab] EXCEPT !.ver = @ + 1] \in State
    BY <2>1, <2>2, RunningType, StateUpdate
  <2>4. mem' \in [Tabs -> State]
    BY <1>5, <2>1, <2>3, RunningType DEF Bump, TypeInv, TypeOK
  <2>5. op' \in [Ops -> OpRecord] /\ \A x \in Ops : OpOK(op'[x])
    BY <1>5, GotoType DEF Bump, Running, Undoable
  <2> QED BY <1>5, <2>4, <2>5 DEF Bump, shared, history, TypeInv, TypeOK
<1>6. CASE Seal(o)
  <2> DEFINE t == op[o].tab
             s == [mem[t] EXCEPT !.sealedAt = mem[t].ver]
             r == [op[o] EXCEPT !.pc = "sealed", !.sig = SignV2(s, Key)]
  <2>1. op[o].pc = "bumped" /\ op[o].pc \in Running
    BY <1>6 DEF Seal, Running
  <2>2. s \in State
    BY <2>1, RunningType, StateUpdate
  <2>3. mem' = [mem EXCEPT ![t] = s] /\ op' = [op EXCEPT ![o] = r]
    BY <1>6 DEF Seal
  <2>4. SignV2(s, Key) \in Tag
    BY <2>2, SignType
  <2> HIDE DEF s
  <2>5. OpOK(r)
    <3>1. OpOK(op[o]) /\ op[o] \in OpRecord
      BY <2>1, RunningType
    <3>2. r \in OpRecord
      BY <2>4, <3>1 DEF OpRecord, Running
    <3>3. r.pc = "sealed" /\ r.tab = op[o].tab /\ r.prev = op[o].prev /\ r.id = op[o].id
      BY <3>1 DEF OpRecord
    <3> QED BY <2>1, <3>1, <3>2, <3>3 DEF OpOK, Running, Undoable
  <2>6. op' \in [Ops -> OpRecord] /\ \A x \in Ops : OpOK(op'[x])
    BY <2>3, <2>5, OpUpdate
  <2>7. mem' \in [Tabs -> State]
    BY <2>1, <2>2, <2>3, RunningType DEF TypeInv, TypeOK
  <2> QED BY <1>6, <2>6, <2>7 DEF Seal, shared, history, TypeInv, TypeOK
<1>7. CASE Attach(o)
  <2> DEFINE t == op[o].tab
             s == [mem[t] EXCEPT !.tag = op[o].sig]
             r == [op[o] EXCEPT !.pc = "writing", !.image = s]
  <2>1. op[o].pc = "sealed" /\ op[o].pc \in Running
    BY <1>7 DEF Attach, Running
  <2>2. op[o].sig \in Tag
    BY <2>1, RunningType DEF OpRecord
  <2>3. s \in State
    BY <2>1, <2>2, RunningType, StateUpdate
  <2>4. mem' = [mem EXCEPT ![t] = s] /\ op' = [op EXCEPT ![o] = r]
    BY <1>7 DEF Attach
  <2> HIDE DEF s
  <2>5. OpOK(r)
    <3>1. OpOK(op[o]) /\ op[o] \in OpRecord
      BY <2>1, RunningType
    <3>2. r \in OpRecord
      BY <2>3, <3>1 DEF OpRecord, Running
    <3>3. r.pc = "writing" /\ r.tab = op[o].tab /\ r.prev = op[o].prev /\ r.id = op[o].id
          /\ r.image = s
      BY <3>1 DEF OpRecord
    <3> QED BY <2>1, <2>3, <3>1, <3>2, <3>3 DEF OpOK, Running, Undoable
  <2>6. op' \in [Ops -> OpRecord] /\ \A x \in Ops : OpOK(op'[x])
    BY <2>4, <2>5, OpUpdate
  <2>7. mem' \in [Tabs -> State]
    BY <2>1, <2>3, <2>4, RunningType DEF TypeInv, TypeOK
  <2> QED BY <1>7, <2>6, <2>7 DEF Attach, shared, history, TypeInv, TypeOK
<1>8. CASE SealFails(o)
  <2> DEFINE s == mem[op[o].tab]
             r == [op[o] EXCEPT !.pc = "writing", !.image = s]
  <2>1. op[o].pc \in {"bumped", "sealed"} /\ op[o].pc \in Running
    BY <1>8 DEF SealFails, Running
  <2>2. s \in State
    BY <2>1, RunningType
  <2>3. op' = [op EXCEPT ![o] = r]
    BY <1>8 DEF SealFails
  <2> HIDE DEF s
  <2>4. OpOK(r)
    <3>1. OpOK(op[o]) /\ op[o] \in OpRecord
      BY <2>1, RunningType
    <3>2. r \in OpRecord
      BY <2>2, <3>1 DEF OpRecord, Running
    <3>3. r.pc = "writing" /\ r.tab = op[o].tab /\ r.prev = op[o].prev /\ r.id = op[o].id
          /\ r.image = s
      BY <3>1 DEF OpRecord
    <3> QED BY <2>1, <2>2, <3>1, <3>2, <3>3 DEF OpOK, Running, Undoable
  <2>5. op' \in [Ops -> OpRecord] /\ \A x \in Ops : OpOK(op'[x])
    BY <2>3, <2>4, OpUpdate
  <2> QED BY <1>8, <2>5 DEF SealFails, shared, perTab, history, TypeInv, TypeOK
<1>9. CASE WriteLands(o)
  <2>1. op[o].pc = "writing" /\ op[o].image \in State
    BY <1>9 DEF WriteLands, TypeInv, OpOK
  <2>2. file' \in State /\ past' \subseteq State
    BY <1>9, <2>1, StoreType DEF WriteLands
  <2>3. op' \in [Ops -> OpRecord] /\ \A x \in Ops : OpOK(op'[x])
    BY <1>9, <2>1, GotoType DEF WriteLands, Running, Undoable
  <2> QED BY <1>9, <2>2, <2>3 DEF WriteLands, perTab, TypeInv, TypeOK
<1>10. CASE WriteFails(o)
  BY <1>10, FailStepType DEF WriteFails, Undoable, Outcomes, TypeInv, TypeOK
<1>11. CASE WriteTimesOut(o)
  <2>1. late' \subseteq State
    BY <1>11 DEF WriteTimesOut, Abandon, TypeInv, TypeOK, OpOK
  <2> QED BY <1>11, <2>1, FailStepType DEF WriteTimesOut, Undoable, Outcomes
<1>12. CASE Complete(o)
  <2> DEFINE r == [op[o] EXCEPT !.pc = "reading", !.prev = NoState, !.sig = NoTag,
                                !.image = NoState]
  <2>1. op[o].pc \in Running
    BY <1>12 DEF Complete, Running
  <2>2. /\ snap' \in [Tabs -> State \cup {NoState}] /\ observed' \in [Tabs -> Int]
        /\ cache' \in [Tabs -> Int] /\ ledger' \in Int
    BY <1>12, <2>1, RunningType, CommittedType DEF Complete
  <2>3. lock' \in Seq(Ops)
    BY <1>12, HeadTailProperties DEF Complete, Holds, TypeInv, TypeOK
  <2>4. OpOK(r)
    <3>1. op[o] \in OpRecord /\ op[o].tab \in Tabs
      BY <2>1, RunningType
    <3>2. r \in OpRecord
      BY <3>1, NoTagType DEF OpRecord, Running
    <3>3. r.pc = "reading" /\ r.tab = op[o].tab
      BY <3>1 DEF OpRecord
    <3> QED BY <3>1, <3>2, <3>3 DEF OpOK, Undoable
  <2>5. op' \in [Ops -> OpRecord] /\ \A x \in Ops : OpOK(op'[x])
    <3>1. CASE op[o].kind = "bulk"
      BY <1>12, <3>1, AtType, OpUpdate DEF Complete, Outcomes
    <3>2. CASE op[o].kind # "bulk"
      BY <1>12, <3>2, <2>4, OpUpdate DEF Complete
    <3> QED BY <3>1, <3>2
  <2> QED BY <1>12, <2>2, <2>3, <2>5 DEF Complete, TypeInv, TypeOK
<1>13. CASE ReadEmpty(o)
  <2>1. op' \in [Ops -> OpRecord] /\ \A x \in Ops : OpOK(op'[x])
    BY <1>13, AtType, OpUpdate DEF ReadEmpty, Outcomes
  <2> QED BY <1>13, <2>1 DEF ReadEmpty, shared, perTab, history, TypeInv, TypeOK
<1>14. CASE ReadVerdict(o)
  <2>1. op' \in [Ops -> OpRecord] /\ \A x \in Ops : OpOK(op'[x])
    BY <1>14, GotoType DEF ReadVerdict, Running, Undoable
  <2> QED BY <1>14, <2>1 DEF ReadVerdict, shared, perTab, history, TypeInv, TypeOK
<1>15. CASE ReadEnds(o)
  <2>1. op[o].pc \in Running
    BY <1>15 DEF ReadEnds, Running
  <2>2. snap' \in [Tabs -> State \cup {NoState}]
    BY <1>15, <2>1, RunningType DEF ReadEnds, TypeInv, TypeOK
  <2>3. op' \in [Ops -> OpRecord] /\ \A x \in Ops : OpOK(op'[x])
    BY <1>15, AtType, OpUpdate DEF ReadEnds, Outcomes
  <2> QED BY <1>15, <2>2, <2>3 DEF ReadEnds, shared, history, TypeInv, TypeOK
<1> QED BY <1>1, <1>2, <1>3, <1>4, <1>5, <1>6, <1>7, <1>8, <1>9, <1>10, <1>11, <1>12,
            <1>13, <1>14, <1>15 DEF Step

LEMMA OutsideType ==
  ASSUME TypeInv, LateWriteLands \/ Tamper \/ Replay
  PROVE  TypeInv'
<1>1. CASE LateWriteLands
  <2>1. PICK s \in late : late' = late \ {s} /\ Store(s)
                          /\ UNCHANGED <<backend, ledger, lock, perTab, op, tampered>>
    BY <1>1 DEF LateWriteLands
  <2>2. file' \in State /\ past' \subseteq State
    BY <2>1, StoreType DEF TypeInv, TypeOK
  <2> QED BY <2>1, <2>2 DEF perTab, TypeInv, TypeOK
<1>2. CASE Tamper
  <2>1. PICK rows \in {<<>>} \cup {<<[id |-> i, val |-> Forged]>> : i \in Ids},
             ver \in {file.ver, file.ver + 1},
             sealedAt \in {NoSeal, file.ver, file.ver + 1},
             g \in {file.tag, NoTag} :
          file' = [rows |-> rows, ver |-> ver, sealedAt |-> sealedAt, tag |-> g]
    BY <1>2 DEF Tamper
  <2>2. rows \in Seq(Row)
    <3>1. <<>> \in Seq(Row)
      BY EmptySeq
    <3>2. ASSUME NEW i \in Ids
          PROVE  <<[id |-> i, val |-> Forged]>> \in Seq(Row)
      <4>1. [id |-> i, val |-> Forged] \in Row
        BY RowType
      <4> QED BY <4>1
    <3> QED BY <3>1, <3>2
  <2>3. ver \in Int /\ sealedAt \in Int /\ g \in Tag
    BY StateUpdate, NoTagType DEF TypeInv, TypeOK, NoSeal
  <2>4. file' \in State
    BY <2>1, <2>2, <2>3, StateRecord
  <2>5. past' \subseteq State /\ tampered' \in BOOLEAN
    BY <1>2 DEF Tamper
  <2>6. UNCHANGED <<backend, ledger, lock, late, status, mem, snap, cache, observed, op>>
    BY <1>2 DEF Tamper, perTab
  <2> QED BY <2>4, <2>5, <2>6 DEF TypeInv, TypeOK
<1>3. CASE Replay
  BY <1>3 DEF Replay, perTab, TypeInv, TypeOK
<1> QED BY <1>1, <1>2, <1>3

LEMMA StutterType == TypeInv /\ UNCHANGED vars => TypeInv'
BY DEF TypeInv, TypeOK, vars

(* Every variable keeps the shape of the code's state, whatever the tabs,   *)
(* the operations, their overlap, the failures and the tampering.           *)
THEOREM TypeCorrect == Spec => []TypeOK
<1>1. Init => TypeInv
  BY InitType
<1>2. TypeInv /\ [Next]_vars => TypeInv'
  <2> SUFFICES ASSUME TypeInv, [Next]_vars PROVE TypeInv'
    OBVIOUS
  <2>1. CASE \E t \in Tabs : TabStep(t)
    BY <2>1, TabStepType
  <2>2. CASE \E t \in Tabs, o \in Ops : Start(t, o)
    BY <2>2, StartType
  <2>3. CASE \E o \in Ops : Step(o)
    BY <2>3, StepType
  <2>4. CASE LateWriteLands \/ Tamper \/ Replay
    BY <2>4, OutsideType
  <2>5. CASE UNCHANGED vars
    BY <2>5, StutterType
  <2> QED BY <2>1, <2>2, <2>3, <2>4, <2>5 DEF Next
<1>3. TypeInv => TypeOK
  BY DEF TypeInv
<1> QED BY <1>1, <1>2, <1>3, PTL DEF Spec

-----------------------------------------------------------------------------
(* The gate and the verdict. *)
Inv == TypeInv /\ ForgeryInv

-----------------------------------------------------------------------------
(* The set a tag covers and the sequence of rows agree on what is forged. *)
LEMMA ContentForged ==
  ASSUME NEW s
  PROVE  HoldsForged(Content(s)) <=> RowsForged(s.rows)
BY DEF HoldsForged, Content, RowsForged

LEMMA NoTagClean == ~HoldsForged(NoTag.rows)
BY NoTagType DEF HoldsForged

LEMMA AtFine == ASSUME NEW pc, NEW b PROVE FineOp(At(pc), b)
BY NoTagClean DEF FineOp, At, Fine

LEMMA FreshFine ==
  ASSUME NEW rows, NEW b, ~RowsForged(rows)
  PROVE  Fine(FreshFile(rows), b)
BY NoTagClean, Zenon DEF Fine, FreshFile

(* Changing the counters of a state, or giving it a clean tag, keeps it fine. *)
LEMMA FineUpdate ==
  ASSUME NEW s \in State, NEW b, Fine(s, b)
  PROVE  /\ \A n \in Int : /\ Fine([s EXCEPT !.ver = n], b)
                           /\ [s EXCEPT !.ver = n].rows = s.rows
         /\ \A n \in Int : /\ Fine([s EXCEPT !.sealedAt = n], b)
                           /\ [s EXCEPT !.sealedAt = n].rows = s.rows
         /\ \A g \in Tag : ~HoldsForged(g.rows) => /\ Fine([s EXCEPT !.tag = g], b)
                                                   /\ [s EXCEPT !.tag = g].rows = s.rows
         /\ \A rows \in Seq(Row) : (RowsForged(rows) => RowsForged(s.rows))
                                     => /\ Fine([s EXCEPT !.rows = rows], b)
                                        /\ [s EXCEPT !.rows = rows].rows = rows
<1>1. s # NoState
  OBVIOUS
<1>2. ~HoldsForged(s.tag.rows) /\ (b \/ ~RowsForged(s.rows))
  BY <1>1 DEF Fine
<1>3. ASSUME NEW n \in Int
      PROVE  /\ [s EXCEPT !.ver = n].rows = s.rows /\ [s EXCEPT !.ver = n].tag = s.tag
             /\ [s EXCEPT !.sealedAt = n].rows = s.rows /\ [s EXCEPT !.sealedAt = n].tag = s.tag
  BY DEF State
<1>4. ASSUME NEW g \in Tag
      PROVE  [s EXCEPT !.tag = g].rows = s.rows /\ [s EXCEPT !.tag = g].tag = g
  BY DEF State
<1>5. ASSUME NEW rows \in Seq(Row)
      PROVE  [s EXCEPT !.rows = rows].rows = rows /\ [s EXCEPT !.rows = rows].tag = s.tag
  BY DEF State
<1>6. ASSUME NEW u, ~HoldsForged(u.tag.rows), RowsForged(u.rows) => RowsForged(s.rows)
      PROVE  Fine(u, b)
  BY <1>2, <1>6 DEF Fine
<1>7. \A n \in Int : Fine([s EXCEPT !.ver = n], b) /\ Fine([s EXCEPT !.sealedAt = n], b)
  BY <1>2, <1>3, <1>6, Zenon
<1>8. \A g \in Tag : ~HoldsForged(g.rows) => Fine([s EXCEPT !.tag = g], b)
  BY <1>4, <1>6, Zenon
<1>9. \A rows \in Seq(Row) : (RowsForged(rows) => RowsForged(s.rows))
                                => Fine([s EXCEPT !.rows = rows], b)
  BY <1>2, <1>5, <1>6, Zenon
<1> QED BY <1>3, <1>4, <1>5, <1>7, <1>8, <1>9, Zenon

(* A state the rule lets the repository sign or show has no forged row, once *)
(* the vault has a mark; before another program came, no state has.          *)
LEMMA VerdictClean ==
  ASSUME Inv, NEW t \in Tabs, NEW s \in State, Fine(s, tampered), MayReSign(Verdict(t, s))
  PROVE  ~RowsForged(s.rows)
<1>1. CASE ~tampered
  BY <1>1 DEF Fine
<1>2. CASE tampered
  <2>1. Mark(t) > 0
    BY <1>2 DEF Mark, Inv, ForgeryInv, MarkKept
  <2>2. (Mark(t) > 0) = TRUE
    BY <2>1
  <2>3. s.tag.rows = Content(s)
    BY <2>2, ReSignedMeansCovered DEF Verdict
  <2>4. ~HoldsForged(s.tag.rows)
    BY DEF Fine
  <2> QED BY <2>3, <2>4, ContentForged
<1> QED BY <1>1, <1>2

-----------------------------------------------------------------------------
(* What a step of operation o in tab t leaves to check: its own record and  *)
(* the states of its tab; no other operation is running there.              *)
LEMMA Frame ==
  ASSUME Inv, NEW t \in Tabs, NEW o \in Ops, NEW r, NEW live \in State,
         NEW base \in State \cup {NoState},
         status[t] = "open",
         \A p \in Ops \ {o} : op[p].pc \in Running => op[p].tab # t,
         r.pc \in Running => r.tab = t,
         op' = [op EXCEPT ![o] = r],
         mem' = [mem EXCEPT ![t] = live],
         snap' = [snap EXCEPT ![t] = base],
         UNCHANGED <<status, tampered>>,
         FineOp(r, tampered), Fine(live, tampered), Fine(base, tampered),
         Fine(file', tampered), \A s \in late' \cup past' : Fine(s, tampered),
         MarkKept', base # NoState,
         RowsForged(live.rows) => RowsForged(base.rows),
         Cleared(r, live, base)
  PROVE  ForgeryInv'
<1>1. /\ op \in [Ops -> OpRecord] /\ mem \in [Tabs -> State]
      /\ snap \in [Tabs -> State \cup {NoState}]
  BY DEF Inv, TypeInv, TypeOK
<1>2. /\ op'[o] = r /\ \A p \in Ops \ {o} : op'[p] = op[p]
      /\ mem'[t] = live /\ \A u \in Tabs \ {t} : mem'[u] = mem[u]
      /\ snap'[t] = base /\ \A u \in Tabs \ {t} : snap'[u] = snap[u]
  BY <1>1
<1>3. StatesFine'
  <2>1. \A u \in Tabs : Fine(mem'[u], tampered) /\ Fine(snap'[u], tampered)
    BY <1>2 DEF Inv, ForgeryInv, StatesFine
  <2>2. \A p \in Ops : FineOp(op'[p], tampered)
    BY <1>2 DEF Inv, ForgeryInv, StatesFine
  <2> QED BY <2>1, <2>2 DEF StatesFine
<1>4. OneAtATime'
  BY <1>2 DEF Inv, ForgeryInv, OneAtATime
<1>5. BaselineTells'
  BY <1>2 DEF Inv, ForgeryInv, BaselineTells
<1>6. GatePassed'
  <2>1. ASSUME NEW p \in Ops
        PROVE  Cleared(op'[p], mem'[op'[p].tab], snap'[op'[p].tab])
    <3>1. CASE op'[p].pc \notin Running
      BY <3>1 DEF Cleared, Undoable, Running
    <3>2. CASE op'[p].pc \in Running /\ p = o
      BY <1>2, <3>2
    <3>3. CASE op'[p].pc \in Running /\ p # o
      <4>1. op'[p] = op[p] /\ op[p].tab # t /\ op[p].tab \in Tabs
        BY <1>2, <3>3, RunningType DEF Inv
      <4> QED BY <1>2, <4>1 DEF Inv, ForgeryInv, GatePassed
    <3> QED BY <3>1, <3>2, <3>3
  <2> QED BY <2>1 DEF GatePassed
<1> QED BY <1>3, <1>4, <1>5, <1>6 DEF ForgeryInv

(* A running operation has its tab for itself. *)
LEMMA Alone ==
  ASSUME Inv, NEW o \in Ops, op[o].pc \in Running
  PROVE  /\ op[o].tab \in Tabs /\ status[op[o].tab] = "open"
         /\ \A p \in Ops \ {o} : op[p].pc \in Running => op[p].tab # op[o].tab
         /\ mem[op[o].tab] \in State /\ snap[op[o].tab] \in State
         /\ snap[op[o].tab] # NoState
         /\ op[o] \in OpRecord /\ Cleared(op[o], mem[op[o].tab], snap[op[o].tab])
         /\ FineOp(op[o], tampered)
         /\ Fine(mem[op[o].tab], tampered) /\ Fine(snap[op[o].tab], tampered)
         /\ RowsForged(mem[op[o].tab].rows) => RowsForged(snap[op[o].tab].rows)
<1>1. op[o].tab \in Tabs /\ op[o] \in OpRecord
  BY RunningType DEF Inv
<1>2. /\ status[op[o].tab] = "open"
      /\ \A p \in Ops \ {o} : op[p].pc \in Running => op[p].tab # op[o].tab
  BY DEF Inv, ForgeryInv, OneAtATime
<1>3. /\ snap[op[o].tab] # NoState
      /\ RowsForged(mem[op[o].tab].rows) => RowsForged(snap[op[o].tab].rows)
  BY <1>1, <1>2 DEF Inv, ForgeryInv, BaselineTells
<1>4. mem[op[o].tab] \in State /\ snap[op[o].tab] \in State
  BY <1>1, <1>3 DEF Inv, TypeInv, TypeOK
<1>5. FineOp(op[o], tampered) /\ Fine(mem[op[o].tab], tampered) /\ Fine(snap[op[o].tab], tampered)
  BY <1>1 DEF Inv, ForgeryInv, StatesFine
<1>6. Cleared(op[o], mem[op[o].tab], snap[op[o].tab])
  BY DEF Inv, ForgeryInv, GatePassed
<1> QED BY <1>1, <1>2, <1>3, <1>4, <1>5, <1>6

(* What stays as it is satisfies what Frame asks of it. *)
LEMMA Unmoved ==
  ASSUME Inv
  PROVE  /\ Fine(file, tampered) /\ (\A s \in late \cup past : Fine(s, tampered)) /\ MarkKept
         /\ \A t \in Tabs : /\ mem = [mem EXCEPT ![t] = mem[t]]
                            /\ snap = [snap EXCEPT ![t] = snap[t]]
BY DEF Inv, TypeInv, TypeOK, ForgeryInv, StatesFine

LEMMA MarkStays ==
  ASSUME Inv, UNCHANGED <<tampered, ledger, cache>>
  PROVE  MarkKept'
BY DEF Inv, ForgeryInv, MarkKept

-----------------------------------------------------------------------------
(* The beginning: an untouched file, every tab closed. *)
LEMMA InitForgery == Init => ForgeryInv
<1> SUFFICES ASSUME Init PROVE ForgeryInv
  OBVIOUS
<1>1. /\ late = {} /\ past = {} /\ tampered = FALSE
      /\ mem = [t \in Tabs |-> Blank] /\ snap = [t \in Tabs |-> NoState]
      /\ cache = [t \in Tabs |-> NotCached] /\ status = [t \in Tabs |-> "closed"]
      /\ op = [o \in Ops |-> At("idle")]
  BY DEF Init
<1>2. \A o \in Ops : op[o].pc = "idle" /\ FineOp(op[o], tampered)
  BY <1>1, AtFine DEF At
<1>3. ~RowsForged(Blank.rows) /\ Fine(Blank, FALSE)
  <2>1. ~RowsForged(<<>>)
    BY DEF RowsForged
  <2> QED BY <2>1, FreshFine DEF Blank, FreshFile
<1>4. Fine(file, FALSE)
  <2> DEFINE empty == FreshFile(<<>>)
             some  == {FreshFile(<<[id |-> i, val |-> Seed]>>) : i \in Ids}
             bind(s) == [s EXCEPT !.sealedAt = s.ver]
             seal(s) == [bind(s) EXCEPT !.tag = SignV2(bind(s), Key)]
             sealV1(s) == [s EXCEPT !.tag = SignV1(s, Key)]
  <2>1. empty \in State /\ Fine(empty, FALSE)
    BY <1>3, BlankType DEF Blank
  <2>2. ASSUME NEW s \in some
        PROVE  s \in State /\ Fine(s, FALSE)
    <3>1. PICK i \in Ids : s = FreshFile(<<[id |-> i, val |-> Seed]>>)
      OBVIOUS
    <3>2. [id |-> i, val |-> Seed] \in Row
      BY RowType
    <3>3. ~RowsForged(<<[id |-> i, val |-> Seed]>>)
      BY DEF RowsForged
    <3>4. <<[id |-> i, val |-> Seed]>> \in Seq(Row)
      BY <3>2
    <3>5. FreshFile(<<[id |-> i, val |-> Seed]>>) \in State
      BY <3>4, FreshFileType
    <3>6. Fine(FreshFile(<<[id |-> i, val |-> Seed]>>), FALSE)
      BY <3>3, FreshFine
    <3> QED BY <3>1, <3>5, <3>6
  <2>3. ASSUME NEW s \in State, Fine(s, FALSE)
        PROVE  Fine(seal(s), FALSE) /\ Fine(sealV1(s), FALSE)
    <3>1. s.ver \in Int /\ s # NoState
      BY StateUpdate
    <3>2. bind(s) \in State /\ bind(s) # NoState
      BY <3>1, StateUpdate
    <3>3. Fine(bind(s), FALSE)
      BY <2>3, <3>1, FineUpdate
    <3>4. bind(s) \in State /\ Fine(bind(s), FALSE) /\ bind(s) # NoState
      BY <3>2, <3>3
    <3>5. ~RowsForged(s.rows) /\ ~RowsForged(bind(s).rows)
      BY <2>3, <3>1, <3>4 DEF Fine
    <3>6. SignV1(s, Key) \in Tag /\ SignV2(bind(s), Key) \in Tag
      BY <3>4, SignType
    <3>7. ~HoldsForged(SignV1(s, Key).rows) /\ ~HoldsForged(SignV2(bind(s), Key).rows)
      BY <3>5, ContentForged DEF SignV1, SignV2
    <3> QED BY <2>3, <3>4, <3>6, <3>7, FineUpdate
  <2>4. \E start \in InitialFiles : file = start[1]
    BY DEF Init
  <2>5. InitialFiles = {<<s, 0>> : s \in {empty} \cup some}
                         \cup {<<seal(s), s.ver>> : s \in {empty} \cup some}
                         \cup {<<sealV1(s), 0>> : s \in some}
    BY DEF InitialFiles
  <2> HIDE DEF empty, some, seal, sealV1
  <2>6. PICK start \in InitialFiles : file = start[1]
    BY <2>4
  <2>7. CASE start \in {<<s, 0>> : s \in {empty} \cup some}
    <3>1. PICK s \in {empty} \cup some : start = <<s, 0>>
      BY <2>7
    <3>2. file = s
      BY <2>6, <3>1
    <3> QED BY <2>1, <2>2, <3>1, <3>2
  <2>8. CASE start \in {<<seal(s), s.ver>> : s \in {empty} \cup some}
    <3>1. PICK s \in {empty} \cup some : start = <<seal(s), s.ver>>
      BY <2>8
    <3>2. file = seal(s)
      BY <2>6, <3>1
    <3> QED BY <2>1, <2>2, <2>3, <3>1, <3>2
  <2>9. CASE start \in {<<sealV1(s), 0>> : s \in some}
    <3>1. PICK s \in some : start = <<sealV1(s), 0>>
      BY <2>9
    <3>2. file = sealV1(s)
      BY <2>6, <3>1
    <3> QED BY <2>2, <2>3, <3>1, <3>2
  <2> QED BY <2>5, <2>7, <2>8, <2>9
<1>5. StatesFine
  BY <1>1, <1>2, <1>3, <1>4 DEF StatesFine, Fine
<1>6. MarkKept /\ BaselineTells
  BY <1>1, <1>3 DEF MarkKept, BaselineTells
<1>7. OneAtATime /\ GatePassed
  BY <1>2, Zenon DEF OneAtATime, GatePassed, Cleared, Undoable, Running
<1> QED BY <1>5, <1>6, <1>7 DEF ForgeryInv

(* A persist of a fine state leaves a fine file, and a mark once there was one. *)
LEMMA StoreFine ==
  ASSUME Inv, NEW s, Fine(s, tampered), Store(s)
  PROVE  Fine(file', tampered) /\ \A x \in past' : Fine(x, tampered)
BY Unmoved DEF Store

LEMMA CommittedMark ==
  ASSUME Inv, NEW t \in Tabs, NEW s \in State, Committed(t, s), tampered' = tampered
  PROVE  MarkKept'
<1>1. s.ver \in Int
  BY StateUpdate
<1>2. CASE HasTag(s) /\ s.ver > 0
  <2>1. Larger(Mark(t), s.ver) > 0
    <3>1. Mark(t) \in Int
      BY DEF Mark, Inv, TypeInv, TypeOK
    <3> QED BY <1>1, <1>2, <3>1 DEF Larger
  <2>2. /\ ledger' = Larger(Mark(t), s.ver)
        /\ cache' = [cache EXCEPT ![t] = Larger(Mark(t), s.ver)]
    BY <1>2 DEF Committed
  <2>3. \A u \in Tabs : cache'[u] = IF u = t THEN ledger' ELSE cache[u]
    BY <2>2 DEF Inv, TypeInv, TypeOK
  <2> QED BY <2>1, <2>2, <2>3 DEF Inv, ForgeryInv, MarkKept
<1>3. CASE ~(HasTag(s) /\ s.ver > 0)
  <2>1. UNCHANGED <<cache, ledger>>
    BY <1>3, Zenon DEF Committed
  <2> QED BY <2>1, MarkStays
<1> QED BY <1>2, <1>3

-----------------------------------------------------------------------------
(* A tab that runs no operation changes its own states only. *)
LEMMA TabFrame ==
  ASSUME Inv, NEW t \in Tabs, NEW live \in State, NEW base \in State \cup {NoState},
         status[t] # "open",
         mem' = [mem EXCEPT ![t] = live],
         snap' = [snap EXCEPT ![t] = base],
         \A u \in Tabs \ {t} : status'[u] = status[u],
         UNCHANGED <<op, tampered>>,
         Fine(live, tampered), Fine(base, tampered), base # NoState,
         Fine(file', tampered), \A s \in late' \cup past' : Fine(s, tampered),
         MarkKept',
         RowsForged(live.rows) => RowsForged(base.rows)
  PROVE  ForgeryInv'
<1>1. /\ mem \in [Tabs -> State] /\ snap \in [Tabs -> State \cup {NoState}]
  BY DEF Inv, TypeInv, TypeOK
<1>2. /\ mem'[t] = live /\ \A u \in Tabs \ {t} : mem'[u] = mem[u]
      /\ snap'[t] = base /\ \A u \in Tabs \ {t} : snap'[u] = snap[u]
  BY <1>1
<1>3. \A o \in Ops : op[o].pc \in Running => op[o].tab \in Tabs \ {t}
  BY Alone
<1>4. StatesFine'
  <2>1. StatesFine
    BY DEF Inv, ForgeryInv
  <2> QED BY <1>2, <2>1, ZenonT(30) DEF StatesFine
<1>5. OneAtATime'
  BY <1>3 DEF Inv, ForgeryInv, OneAtATime
<1>6. BaselineTells'
  BY <1>2 DEF Inv, ForgeryInv, BaselineTells
<1>7. GatePassed'
  <2>1. ASSUME NEW o \in Ops
        PROVE  Cleared(op[o], mem'[op[o].tab], snap'[op[o].tab])
    <3>1. CASE op[o].pc \notin Running
      BY <3>1 DEF Cleared, Undoable, Running
    <3>2. CASE op[o].pc \in Running
      BY <1>2, <1>3, <3>2, Alone
    <3> QED BY <3>1, <3>2
  <2> QED BY <2>1 DEF GatePassed
<1> QED BY <1>4, <1>5, <1>6, <1>7 DEF ForgeryInv

LEMMA TabStepForgery ==
  ASSUME Inv, Awaited, NEW t \in Tabs, TabStep(t)
  PROVE  ForgeryInv'
<1>1. mem[t] \in State /\ Fine(mem[t], tampered) /\ Fine(snap[t], tampered)
      /\ mem \in [Tabs -> State] /\ snap \in [Tabs -> State \cup {NoState}]
      /\ (RowsForged(mem[t].rows) => RowsForged(snap[t].rows))
      /\ (status[t] # "closed" => snap[t] # NoState)
      /\ snap[t] \in State \cup {NoState}
      /\ status \in [Tabs -> {"closed", "resaving", "open", "failed"}]
  BY DEF Inv, TypeInv, TypeOK, ForgeryInv, StatesFine, BaselineTells
<1> DEFINE next == [mem[t] EXCEPT !.ver = @ + 1]
<1>3. next \in State /\ Fine(next, tampered) /\ next.rows = mem[t].rows /\ next # NoState
  <2>1. mem[t].ver + 1 \in Int
    BY <1>1, StateUpdate
  <2>2. next \in State
    BY <1>1, <2>1, StateUpdate
  <2>3. Fine(next, tampered) /\ next.rows = mem[t].rows
    BY <1>1, <2>1, FineUpdate
  <2> QED BY <2>2, <2>3
<1> HIDE DEF next
<1>4. CASE Open(t)
  <2>1. backend # "mirror"
    BY DEF Awaited, Inv, TypeInv, TypeOK
  <2>2. /\ status[t] = "closed"
        /\ mem' = [mem EXCEPT ![t] = file] /\ snap' = [snap EXCEPT ![t] = file]
        /\ UNCHANGED <<file, ledger, late, cache, op, past, tampered>>
        /\ \A u \in Tabs \ {t} : status'[u] = status[u]
    BY <1>1, <1>4, <2>1 DEF Open
  <2>3. file \in State /\ file # NoState
    BY DEF Inv, TypeInv, TypeOK
  <2> QED BY <2>2, <2>3, Unmoved, MarkStays, TabFrame
<1>5. CASE ResaveRefused(t)
  <2>1. /\ status[t] = "resaving"
        /\ UNCHANGED <<file, ledger, late, mem, snap, cache, op, past, tampered>>
        /\ \A u \in Tabs \ {t} : status'[u] = status[u]
    BY <1>1, <1>5 DEF ResaveRefused
  <2>2. mem' = [mem EXCEPT ![t] = mem[t]] /\ snap' = [snap EXCEPT ![t] = snap[t]]
    BY <2>1, Unmoved
  <2> QED BY <1>1, <2>1, <2>2, Unmoved, MarkStays, TabFrame
<1>6. CASE Resave(t)
  <2>1. /\ status[t] = "resaving"
        /\ mem' = [mem EXCEPT ![t] = next] /\ Store(next) /\ Committed(t, next)
        /\ UNCHANGED <<late, op, tampered>>
        /\ \A u \in Tabs \ {t} : status'[u] = status[u]
    BY <1>1, <1>6 DEF Resave, next
  <2>2. snap' = [snap EXCEPT ![t] = next]
    BY <2>1 DEF Committed
  <2>3. MarkKept'
    BY <1>3, <2>1, CommittedMark
  <2>4. Fine(file', tampered) /\ \A s \in late' \cup past' : Fine(s, tampered)
    BY <1>3, <2>1, StoreFine, Unmoved
  <2> QED BY <1>3, <2>1, <2>2, <2>3, <2>4, TabFrame
<1>7. CASE ResaveFails(t)
  <2>1. /\ status[t] = "resaving"
        /\ mem' = [mem EXCEPT ![t] = next]
        /\ late' \subseteq late \cup {next}
        /\ UNCHANGED <<file, ledger, snap, cache, op, past, tampered>>
        /\ \A u \in Tabs \ {t} : status'[u] = status[u]
    BY <1>1, <1>7 DEF ResaveFails, Abandon, next
  <2>2. snap' = [snap EXCEPT ![t] = snap[t]]
    BY <2>1, Unmoved
  <2>3. Fine(file', tampered) /\ \A s \in late' \cup past' : Fine(s, tampered)
    BY <1>3, <2>1, Unmoved
  <2>4. MarkKept'
    BY <2>1, MarkStays
  <2> QED BY <1>1, <1>3, <2>1, <2>2, <2>3, <2>4, TabFrame
<1>8. CASE Close(t)
  <2>1. /\ mem' = [mem EXCEPT ![t] = Blank] /\ snap' = [snap EXCEPT ![t] = NoState]
        /\ status' = [status EXCEPT ![t] = "closed"]
        /\ cache' = [cache EXCEPT ![t] = NotCached]
        /\ op' = [o \in Ops |-> IF o \in InFlight(t) THEN At("lost") ELSE op[o]]
        /\ UNCHANGED <<file, ledger, late, past, tampered>>
    BY <1>8 DEF Close
  <2>2. ~RowsForged(Blank.rows) /\ Fine(Blank, tampered) /\ Fine(NoState, tampered)
    <3>1. ~RowsForged(<<>>)
      BY DEF RowsForged
    <3> QED BY <3>1, FreshFine DEF Blank, FreshFile, Fine
  <2>3. \A u \in Tabs \ {t} : mem'[u] = mem[u] /\ snap'[u] = snap[u] /\ status'[u] = status[u]
    BY <1>1, <2>1
  <2>4. mem'[t] = Blank /\ snap'[t] = NoState /\ status'[t] = "closed"
    BY <1>1, <2>1
  <2>5. \A o \in Ops : \/ op'[o] = At("lost")
                       \/ op'[o] = op[o] /\ (op[o].pc \in Running => op[o].tab \in Tabs \ {t})
    BY <2>1, Alone DEF InFlight
  <2>6. At("lost").pc \notin Running /\ FineOp(At("lost"), tampered)
    BY AtFine DEF At, Running
  <2>7. StatesFine'
    <3>1. \A u \in Tabs : Fine(mem'[u], tampered) /\ Fine(snap'[u], tampered)
      BY <2>2, <2>3, <2>4 DEF Inv, ForgeryInv, StatesFine
    <3>2. \A o \in Ops : FineOp(op'[o], tampered)
      BY <2>5, <2>6 DEF Inv, ForgeryInv, StatesFine
    <3> QED BY <2>1, <3>1, <3>2, Unmoved DEF StatesFine
  <2>8. MarkKept'
    <3>1. \A u \in Tabs : cache'[u] = NotCached \/ cache'[u] = cache[u]
      BY <2>1 DEF Inv, TypeInv, TypeOK
    <3> QED BY <2>1, <3>1 DEF Inv, ForgeryInv, MarkKept
  <2>9. OneAtATime'
    BY <2>3, <2>5, <2>6 DEF Inv, ForgeryInv, OneAtATime
  <2>10. BaselineTells'
    BY <2>2, <2>3, <2>4 DEF Inv, ForgeryInv, BaselineTells
  <2>11. GatePassed'
    <3>1. ASSUME NEW o \in Ops
          PROVE  Cleared(op'[o], mem'[op'[o].tab], snap'[op'[o].tab])
      <4>1. CASE op'[o].pc \notin Running
        BY <4>1 DEF Cleared, Undoable, Running
      <4>2. CASE op'[o].pc \in Running
        BY <2>3, <2>5, <2>6, <4>2, Alone
      <4> QED BY <4>1, <4>2
    <3> QED BY <3>1 DEF GatePassed
  <2> QED BY <2>7, <2>8, <2>9, <2>10, <2>11 DEF ForgeryInv
<1> QED BY <1>4, <1>5, <1>6, <1>7, <1>8 DEF TabStep

-----------------------------------------------------------------------------
(* A tab that starts an operation runs no other.  The rows it holds may lose *)
(* one or gain one of its own.                                               *)
LEMMA StartForgery ==
  ASSUME Inv, Awaited, NEW t \in Tabs, NEW o \in Ops, Start(t, o)
  PROVE  ForgeryInv'
<1>1. MayBegin(t, o)
  BY DEF Start, BeginWrite, BeginPurge, BeginTrash, BeginRead
<1>2. /\ status[t] = "open"
      /\ \A p \in Ops \ {o} : op[p].pc \in Running => op[p].tab # t
  BY <1>1 DEF MayBegin, InFlight, Awaited
<1>3. /\ mem[t] \in State /\ snap[t] \in State \cup {NoState} /\ snap[t] # NoState
      /\ Fine(mem[t], tampered) /\ Fine(snap[t], tampered)
      /\ (RowsForged(mem[t].rows) => RowsForged(snap[t].rows))
  BY <1>2 DEF Inv, TypeInv, TypeOK, ForgeryInv, StatesFine, BaselineTells
<1>4. ASSUME NEW kind \in Kinds, NEW id, NEW pc \in {"encrypting", "queued", "reading"},
             NEW rows \in Seq(Row), RowsForged(rows) => RowsForged(mem[t].rows),
             kind = "read" <=> pc = "reading",
             Begin(t, o, kind, id, pc),
             mem' = [mem EXCEPT ![t] = [mem[t] EXCEPT !.rows = rows]],
             UNCHANGED <<file, ledger, late, status, snap, cache, past, tampered>>
      PROVE  ForgeryInv'
  <2> DEFINE live == [mem[t] EXCEPT !.rows = rows]
             at == IF kind = "save" THEN IndexOf(mem[t].rows, id) ELSE 0
             prev == IF kind = "read" THEN NoState ELSE mem[t]
             r == [pc |-> pc, tab |-> t, kind |-> kind, id |-> id, at |-> at,
                   prev |-> prev, sig |-> NoTag, image |-> NoState]
  <2>1. op' = [op EXCEPT ![o] = r]
    BY <1>4, Zenon DEF Begin
  <2>2. live \in State /\ live.rows = rows /\ Fine(live, tampered)
    BY <1>3, <1>4, StateUpdate, FineUpdate
  <2>3. Fine(prev, tampered) /\ (pc # "reading" => prev = mem[t])
    BY <1>3, <1>4 DEF Fine
  <2> HIDE DEF live, at, prev
  <2>4. FineOp(r, tampered)
    BY <2>3, NoTagClean DEF FineOp, Fine
  <2>5. Cleared(r, live, snap[t])
    BY <1>3, <2>3 DEF Cleared, Undoable
  <2>6. mem' = [mem EXCEPT ![t] = live] /\ snap' = [snap EXCEPT ![t] = snap[t]]
    BY <1>4, Unmoved DEF live
  <2>7. r.tab = t /\ (RowsForged(live.rows) => RowsForged(snap[t].rows))
    BY <1>3, <1>4, <2>2
  <2> HIDE DEF r
  <2> QED BY <1>2, <1>3, <1>4, <2>1, <2>2, <2>4, <2>5, <2>6, <2>7, Unmoved, MarkStays, Frame
<1>5. mem = [mem EXCEPT ![t] = [mem[t] EXCEPT !.rows = mem[t].rows]] /\ mem[t].rows \in Seq(Row)
  BY <1>3 DEF State, Inv, TypeInv, TypeOK
<1>6. CASE BeginWrite(t, o)
  <2>1. PICK kind \in {"save", "bulk", "replace"}, id \in Ids : Begin(t, o, kind, id, "encrypting")
    BY <1>6 DEF BeginWrite
  <2>2. UNCHANGED <<file, ledger, late, status, mem, snap, cache, past, tampered>>
    BY <1>6 DEF BeginWrite, shared, perTab, history
  <2> QED BY <1>4, <1>5, <2>1, <2>2 DEF Kinds
<1>7. CASE BeginPurge(t, o)
  <2>1. PICK id \in Ids : /\ Begin(t, o, "purge", id, "queued")
                          /\ mem' = [mem EXCEPT ![t].rows = Purge(@, id)]
    BY <1>7 DEF BeginPurge
  <2>2. Purge(mem[t].rows, id) \in Seq(Row)
        /\ (RowsForged(Purge(mem[t].rows, id)) => RowsForged(mem[t].rows))
    BY <1>5, PurgeType DEF RowsForged
  <2>3. UNCHANGED <<file, ledger, late, status, snap, cache, past, tampered>>
    BY <1>7 DEF BeginPurge
  <2> QED BY <1>4, <2>1, <2>2, <2>3 DEF Kinds
<1>8. CASE BeginTrash(t, o)
  <2>1. PICK id \in Ids : /\ Begin(t, o, "trash", id, "queued")
                          /\ mem' = [mem EXCEPT ![t].rows = Upsert(@, [id |-> id, val |-> o])]
    BY <1>8 DEF BeginTrash
  <2> DEFINE row == [id |-> id, val |-> o]
  <2>2. row \in Row /\ row.val # Forged
    BY RowType
  <2>3. Upsert(mem[t].rows, row) \in Seq(Row)
        /\ (RowsForged(Upsert(mem[t].rows, row)) => RowsForged(mem[t].rows))
    BY <1>5, <2>2, PutAtType DEF Upsert, RowsForged
  <2>4. UNCHANGED <<file, ledger, late, status, snap, cache, past, tampered>>
    BY <1>8 DEF BeginTrash
  <2> QED BY <1>4, <2>1, <2>3, <2>4 DEF Kinds
<1>9. CASE BeginRead(t, o)
  <2>1. PICK id \in Ids : Begin(t, o, "read", id, "reading")
    BY <1>9 DEF BeginRead
  <2>2. UNCHANGED <<file, ledger, late, status, mem, snap, cache, past, tampered>>
    BY <1>9 DEF BeginRead, shared, perTab, history
  <2> QED BY <1>4, <1>5, <2>1, <2>2 DEF Kinds
<1> QED BY <1>6, <1>7, <1>8, <1>9 DEF Start

-----------------------------------------------------------------------------
(* A failure gives the tab the state the operation had kept. *)
LEMMA FailForgery ==
  ASSUME Inv, NEW o \in Ops, op[o].pc \in Undoable, NEW outcome \in Outcomes, Fail(o, outcome),
         UNCHANGED <<file, ledger, status, snap, cache, past, tampered>>,
         \A s \in late' : Fine(s, tampered)
  PROVE  ForgeryInv'
<1> DEFINE t == op[o].tab
           live == op[o].prev
           r == At(outcome)
<1>1. op[o].pc \in Running
  BY DEF Undoable, Running
<1>2. live \in State
  BY DEF Inv, TypeInv, OpOK
<1>3. /\ t \in Tabs /\ status[t] = "open"
      /\ \A p \in Ops \ {o} : op[p].pc \in Running => op[p].tab # t
      /\ snap[t] \in State /\ snap[t] # NoState /\ Fine(snap[t], tampered)
      /\ Cleared(op[o], mem[t], snap[t]) /\ FineOp(op[o], tampered)
  BY <1>1, Alone
<1>4. Fine(live, tampered) /\ (RowsForged(live.rows) => RowsForged(snap[t].rows))
  BY <1>3 DEF FineOp, Cleared, Undoable
<1>5. FineOp(r, tampered) /\ r.pc \notin Running /\ Cleared(r, live, snap[t])
  BY AtFine DEF At, Outcomes, Running, Cleared, Undoable
<1>6. op' = [op EXCEPT ![o] = r] /\ mem' = [mem EXCEPT ![t] = live]
      /\ snap' = [snap EXCEPT ![t] = snap[t]]
  BY <1>3, Unmoved DEF Fail
<1> HIDE DEF t, live, r
<1> QED BY <1>2, <1>3, <1>4, <1>5, <1>6, Unmoved, MarkStays, Frame

(* A step of an operation that leaves its tab's rows and baseline alone. *)
LEMMA RowsKept ==
  ASSUME Inv, NEW o \in Ops, op[o].pc \in Running,
         NEW t \in Tabs, op[o].tab = t,
         NEW r, r.tab = t, FineOp(r, tampered), op' = [op EXCEPT ![o] = r],
         NEW live \in State, Fine(live, tampered), live.rows = mem[t].rows,
         mem' = [mem EXCEPT ![t] = live],
         Cleared(r, mem[t], snap[t]),
         Fine(file', tampered), \A s \in past' : Fine(s, tampered),
         UNCHANGED <<ledger, late, status, snap, cache, tampered>>
  PROVE  ForgeryInv'
<1>1. /\ status[t] = "open"
      /\ \A p \in Ops \ {o} : op[p].pc \in Running => op[p].tab # t
      /\ snap[t] \in State /\ snap[t] # NoState /\ Fine(snap[t], tampered)
      /\ (RowsForged(live.rows) => RowsForged(snap[t].rows))
  BY Alone
<1>2. Cleared(r, live, snap[t])
  BY DEF Cleared, Undoable
<1>3. snap' = [snap EXCEPT ![t] = snap[t]]
  BY <1>1, Unmoved
<1>4. \A s \in late' \cup past' : Fine(s, tampered)
  BY Unmoved
<1>5. MarkKept'
  BY MarkStays
<1> QED BY <1>1, <1>2, <1>3, <1>4, <1>5, Frame

LEMMA PcOnly ==
  ASSUME NEW r \in OpRecord, NEW pc, NEW b, FineOp(r, b)
  PROVE  /\ FineOp([r EXCEPT !.pc = pc], b)
         /\ [r EXCEPT !.pc = pc].tab = r.tab /\ [r EXCEPT !.pc = pc].pc = pc
         /\ [r EXCEPT !.pc = pc].prev = r.prev
<1>1. /\ [r EXCEPT !.pc = pc].tab = r.tab /\ [r EXCEPT !.pc = pc].pc = pc
      /\ [r EXCEPT !.pc = pc].prev = r.prev /\ [r EXCEPT !.pc = pc].image = r.image
      /\ [r EXCEPT !.pc = pc].sig = r.sig
  BY DEF OpRecord
<1> QED BY <1>1, Zenon DEF FineOp

(* A step that moves the operation on and changes nothing else. *)
LEMMA GotoForgery ==
  ASSUME Inv, NEW o \in Ops, op[o].pc \in Running, NEW pc, Goto(o, pc),
         pc \in Undoable => op[o].pc \in Undoable,
         pc \in {"gated", "bumped", "verified"} => ~RowsForged(mem[op[o].tab].rows),
         Fine(file', tampered), \A s \in past' : Fine(s, tampered),
         UNCHANGED <<ledger, late, status, mem, snap, cache, tampered>>
  PROVE  ForgeryInv'
<1> DEFINE r == [op[o] EXCEPT !.pc = pc]
           t == op[o].tab
<1>1. /\ op[o] \in OpRecord /\ FineOp(op[o], tampered) /\ t \in Tabs /\ mem[t] \in State
      /\ Fine(mem[t], tampered) /\ Cleared(op[o], mem[t], snap[t])
  BY Alone
<1>2. r.tab = t /\ r.pc = pc /\ r.prev = op[o].prev /\ FineOp(r, tampered)
  BY <1>1, PcOnly
<1>3. op' = [op EXCEPT ![o] = r] /\ mem' = [mem EXCEPT ![t] = mem[t]]
  BY <1>1, Unmoved DEF Goto
<1> HIDE DEF r
<1>4. Cleared(r, mem[t], snap[t])
  BY <1>1, <1>2 DEF Cleared, Undoable
<1>5. op[o].tab = t
  OBVIOUS
<1> HIDE DEF t
<1> QED BY <1>1, <1>2, <1>3, <1>4, <1>5, RowsKept

LEMMA StepForgery ==
  ASSUME Inv, Awaited, NEW o \in Ops, Step(o)
  PROVE  ForgeryInv'
<1> DEFINE t == op[o].tab
<1>1. op[o].pc \in Running /\ op[o].tab = t
  BY DEF Step, Mutate, Conflict, Gate, Bar, Bump, Seal, SealFails, Attach, WriteLands,
         WriteFails, WriteTimesOut, Complete, ReadEmpty, ReadVerdict, ReadEnds, Running
<1>2. /\ t \in Tabs /\ status[t] = "open"
      /\ \A p \in Ops \ {o} : op[p].pc \in Running => op[p].tab # t
      /\ mem[t] \in State /\ snap[t] \in State /\ snap[t] # NoState
      /\ op[o] \in OpRecord /\ Cleared(op[o], mem[t], snap[t]) /\ FineOp(op[o], tampered)
      /\ Fine(mem[t], tampered) /\ Fine(snap[t], tampered)
      /\ (RowsForged(mem[t].rows) => RowsForged(snap[t].rows))
  BY <1>1, Alone
<1>3. /\ mem[t].rows \in Seq(Row) /\ mem[t].ver \in Int /\ mem[t].sealedAt \in Int
      /\ mem[t].tag \in Tag /\ mem[t] # NoState /\ op[o].sig \in Tag
  BY <1>2 DEF State, OpRecord
<1>4. CASE Mutate(o)
  <2> DEFINE live == [mem[t] EXCEPT !.rows = Edit(o, mem[t].rows)]
             r == [op[o] EXCEPT !.pc = "queued"]
  <2>1. op[o].pc = "encrypting"
    BY <1>4 DEF Mutate
  <2>2. Edit(o, mem[t].rows) \in Seq(Row)
    BY <1>3, <2>1, EditType DEF Inv
  <2>3. RowsForged(Edit(o, mem[t].rows)) => RowsForged(mem[t].rows)
    <3> DEFINE row == [id |-> op[o].id, val |-> o]
    <3>1. row \in Row /\ row.val # Forged
      BY <2>1, RowType DEF Inv, TypeInv, OpOK, Undoable
    <3>2. \A i : RowsForged(PutAt(mem[t].rows, i, row)) => RowsForged(mem[t].rows)
      BY <1>3, <3>1, PutAtType DEF RowsForged
    <3>3. ~RowsForged(<<row>>)
      BY <3>1 DEF RowsForged
    <3> QED BY <3>2, <3>3 DEF Edit, Upsert
  <2>4. live \in State /\ live.rows = Edit(o, mem[t].rows) /\ Fine(live, tampered)
    BY <1>2, <2>2, <2>3, StateUpdate, FineUpdate
  <2>5. r.tab = t /\ r.pc = "queued" /\ r.prev = op[o].prev /\ FineOp(r, tampered)
    BY <1>2, PcOnly
  <2>6. /\ op' = [op EXCEPT ![o] = r] /\ mem' = [mem EXCEPT ![t] = live]
        /\ snap' = [snap EXCEPT ![t] = snap[t]]
        /\ UNCHANGED <<file, ledger, late, status, cache, past, tampered>>
    BY <1>2, <1>4, Unmoved DEF Mutate
  <2>7. RowsForged(live.rows) => RowsForged(snap[t].rows)
    BY <1>2, <2>3, <2>4
  <2> HIDE DEF live, r, t
  <2>8. Cleared(r, live, snap[t])
    BY <1>2, <2>1, <2>5 DEF Cleared, Undoable
  <2> QED BY <1>2, <2>4, <2>5, <2>6, <2>7, <2>8, Unmoved, MarkStays, Frame
<1>5. CASE Conflict(o)
  BY <1>5, Unmoved, FailForgery DEF Conflict, Undoable, Outcomes
<1>6. CASE Gate(o)
  <2>1. \/ Goto(o, "barred")
        \/ Goto(o, "gated") /\ (snap[t] = NoState \/ MayReSign(Verdict(t, snap[t])))
    BY <1>6 DEF Gate
  <2>2. MayReSign(Verdict(t, snap[t])) => ~RowsForged(mem[t].rows)
    BY <1>2, VerdictClean
  <2>3. /\ op[o].pc = "queued"
        /\ UNCHANGED <<file, ledger, late, status, mem, snap, cache, past, tampered>>
    BY <1>6 DEF Gate, shared, perTab, history
  <2> QED BY <1>1, <1>2, <2>1, <2>2, <2>3, Unmoved, GotoForgery DEF Undoable
<1>7. CASE Bar(o)
  BY <1>7, Unmoved, FailForgery DEF Bar, Undoable, Outcomes
<1>8. CASE Bump(o)
  <2> DEFINE live == [mem[t] EXCEPT !.ver = @ + 1]
             r == [op[o] EXCEPT !.pc = "bumped"]
  <2>1. live \in State /\ live.rows = mem[t].rows /\ Fine(live, tampered)
    <3>1. mem[t].ver + 1 \in Int
      BY <1>3
    <3> QED BY <1>2, <3>1, StateUpdate, FineUpdate
  <2>2. r.tab = t /\ r.pc = "bumped" /\ r.prev = op[o].prev /\ FineOp(r, tampered)
    <3>1. op[o] \in OpRecord /\ FineOp(op[o], tampered)
      BY <1>2
    <3> QED BY <3>1, PcOnly
  <2>3. /\ op' = [op EXCEPT ![o] = r] /\ mem' = [mem EXCEPT ![t] = live]
        /\ op[o].pc = "gated"
        /\ UNCHANGED <<file, ledger, late, status, snap, cache, past, tampered>>
    BY <1>8 DEF Bump, Goto, shared, history
  <2> HIDE DEF live, r
  <2>4. Cleared(r, mem[t], snap[t])
    BY <1>2, <2>2, <2>3 DEF Cleared, Undoable
  <2>5. Fine(file', tampered) /\ \A s \in past' : Fine(s, tampered)
    BY <2>3, Unmoved
  <2> HIDE DEF t
  <2> QED BY <1>1, <1>2, <2>1, <2>2, <2>3, <2>4, <2>5, RowsKept
<1>9. CASE Seal(o)
  <2> DEFINE live == [mem[t] EXCEPT !.sealedAt = mem[t].ver]
             r == [op[o] EXCEPT !.pc = "sealed", !.sig = SignV2(live, Key)]
  <2>1. live \in State /\ live.rows = mem[t].rows /\ Fine(live, tampered)
    BY <1>2, <1>3, StateUpdate, FineUpdate
  <2>2. /\ op' = [op EXCEPT ![o] = r] /\ mem' = [mem EXCEPT ![t] = live]
        /\ op[o].pc = "bumped"
        /\ UNCHANGED <<file, ledger, late, status, snap, cache, past, tampered>>
    BY <1>9 DEF Seal, shared, history
  <2>3. ~HoldsForged(SignV2(live, Key).rows)
    <3>1. ~RowsForged(live.rows)
      BY <1>2, <2>1, <2>2 DEF Cleared, Undoable
    <3> QED BY <3>1, ContentForged DEF SignV2
  <2> HIDE DEF live
  <2>4. /\ r.tab = t /\ r.pc = "sealed" /\ r.prev = op[o].prev /\ r.image = op[o].image
        /\ r.sig = SignV2(live, Key)
    BY <1>2 DEF OpRecord
  <2> HIDE DEF r
  <2>5. FineOp(r, tampered)
    BY <1>2, <2>3, <2>4 DEF FineOp
  <2>6. Cleared(r, mem[t], snap[t])
    BY <1>2, <2>2, <2>4 DEF Cleared, Undoable
  <2>7. Fine(file', tampered) /\ \A s \in past' : Fine(s, tampered)
    BY <2>2, Unmoved
  <2> HIDE DEF t
  <2> QED BY <1>1, <1>2, <2>1, <2>2, <2>4, <2>5, <2>6, <2>7, RowsKept
<1>10. CASE Attach(o)
  <2> DEFINE live == [mem[t] EXCEPT !.tag = op[o].sig]
             r == [op[o] EXCEPT !.pc = "writing", !.image = live]
  <2>1. live \in State /\ live.rows = mem[t].rows /\ Fine(live, tampered)
    <3>1. ~HoldsForged(op[o].sig.rows)
      BY <1>2 DEF FineOp
    <3> QED BY <1>2, <1>3, <3>1, StateUpdate, FineUpdate
  <2>2. /\ op' = [op EXCEPT ![o] = r] /\ mem' = [mem EXCEPT ![t] = live]
        /\ op[o].pc = "sealed"
        /\ UNCHANGED <<file, ledger, late, status, snap, cache, past, tampered>>
    BY <1>10 DEF Attach, shared, history
  <2> HIDE DEF live
  <2>3. /\ r.tab = t /\ r.pc = "writing" /\ r.prev = op[o].prev /\ r.image = live
        /\ r.sig = op[o].sig
    BY <1>2 DEF OpRecord
  <2> HIDE DEF r
  <2>4. FineOp(r, tampered)
    BY <1>2, <2>1, <2>3 DEF FineOp
  <2>5. Cleared(r, mem[t], snap[t])
    BY <1>2, <2>2, <2>3 DEF Cleared, Undoable
  <2>6. Fine(file', tampered) /\ \A s \in past' : Fine(s, tampered)
    BY <2>2, Unmoved
  <2> HIDE DEF t
  <2> QED BY <1>1, <1>2, <2>1, <2>2, <2>3, <2>4, <2>5, <2>6, RowsKept
<1>11. CASE SealFails(o)
  <2> DEFINE r == [op[o] EXCEPT !.pc = "writing", !.image = mem[t]]
  <2>1. /\ op' = [op EXCEPT ![o] = r] /\ op[o].pc \in {"bumped", "sealed"}
        /\ UNCHANGED <<file, ledger, late, status, mem, snap, cache, past, tampered>>
    BY <1>11 DEF SealFails, shared, perTab, history
  <2>2. /\ r.tab = t /\ r.pc = "writing" /\ r.prev = op[o].prev /\ r.image = mem[t]
        /\ r.sig = op[o].sig
    BY <1>2 DEF OpRecord
  <2> HIDE DEF r
  <2>3. FineOp(r, tampered)
    BY <1>2, <2>2 DEF FineOp
  <2>4. Cleared(r, mem[t], snap[t])
    BY <1>2, <2>1, <2>2 DEF Cleared, Undoable
  <2>5. mem' = [mem EXCEPT ![t] = mem[t]]
    BY <1>2, <2>1, Unmoved
  <2>6. Fine(file', tampered) /\ \A s \in past' : Fine(s, tampered)
    BY <2>1, Unmoved
  <2> HIDE DEF t
  <2> QED BY <1>1, <1>2, <2>1, <2>2, <2>3, <2>4, <2>5, <2>6, RowsKept
<1>12. CASE WriteLands(o)
  <2>1. /\ op[o].pc = "writing" /\ Goto(o, "landed") /\ Store(op[o].image)
        /\ UNCHANGED <<ledger, late, status, mem, snap, cache, tampered>>
    BY <1>12 DEF WriteLands, perTab
  <2>2. Fine(file', tampered) /\ \A s \in past' : Fine(s, tampered)
    BY <1>2, <2>1, StoreFine DEF FineOp
  <2> QED BY <1>1, <2>1, <2>2, GotoForgery DEF Undoable
<1>13. CASE WriteFails(o)
  BY <1>13, Unmoved, FailForgery DEF WriteFails, Undoable, Outcomes
<1>14. CASE WriteTimesOut(o)
  <2>1. \A s \in late' : Fine(s, tampered)
    BY <1>2, <1>14, Unmoved DEF WriteTimesOut, Abandon, FineOp
  <2> QED BY <1>14, <2>1, FailForgery DEF WriteTimesOut, Undoable, Outcomes
<1>15. CASE Complete(o)
  <2> DEFINE back == [op[o] EXCEPT !.pc = "reading", !.prev = NoState, !.sig = NoTag,
                                   !.image = NoState]
             r == IF op[o].kind = "bulk" THEN At("acked") ELSE back
  <2>1. /\ Committed(t, mem[t]) /\ op' = [op EXCEPT ![o] = r]
        /\ UNCHANGED <<file, late, status, mem, past, tampered>>
    BY <1>15 DEF Complete
  <2>2. snap' = [snap EXCEPT ![t] = mem[t]] /\ mem' = [mem EXCEPT ![t] = mem[t]]
    BY <1>2, <2>1, Unmoved DEF Committed
  <2>3. MarkKept'
    BY <1>2, <2>1, CommittedMark
  <2>4. /\ back.tab = t /\ back.pc = "reading" /\ back.prev = NoState
        /\ back.image = NoState /\ back.sig = NoTag
    BY <1>2 DEF OpRecord
  <2> HIDE DEF back
  <2>5. FineOp(r, tampered)
    BY <2>4, AtFine, NoTagClean DEF FineOp, Fine
  <2>6. /\ r.pc \in Running => r.tab = t
        /\ r.pc \in {"acked", "reading"}
    BY <2>4 DEF At, Running
  <2>7. Cleared(r, mem[t], mem[t])
    BY <2>6 DEF Cleared, Undoable
  <2> HIDE DEF r, t
  <2> QED BY <1>2, <1>3, <2>1, <2>2, <2>3, <2>5, <2>6, <2>7, Unmoved, Frame
<1>16. CASE ReadEmpty(o)
  <2> DEFINE r == At("acked")
  <2>1. /\ op' = [op EXCEPT ![o] = r]
        /\ UNCHANGED <<file, ledger, late, status, mem, snap, cache, past, tampered>>
    BY <1>16 DEF ReadEmpty, shared, perTab, history
  <2>2. FineOp(r, tampered) /\ r.pc \notin Running /\ Cleared(r, mem[t], snap[t])
    BY AtFine DEF At, Running, Cleared, Undoable
  <2>3. snap' = [snap EXCEPT ![t] = snap[t]] /\ mem' = [mem EXCEPT ![t] = mem[t]]
    BY <1>2, <2>1, Unmoved
  <2> HIDE DEF r, t
  <2> QED BY <1>2, <2>1, <2>2, <2>3, Unmoved, MarkStays, Frame
<1>17. CASE ReadVerdict(o)
  <2>1. \/ Goto(o, "corrupt")
        \/ Goto(o, "verified") /\ MayReSign(Verdict(t, mem[t]))
    BY <1>17 DEF ReadVerdict
  <2>2. MayReSign(Verdict(t, mem[t])) => ~RowsForged(mem[t].rows)
    BY <1>2, VerdictClean
  <2>3. UNCHANGED <<file, ledger, late, status, mem, snap, cache, past, tampered>>
    BY <1>17 DEF ReadVerdict, shared, perTab, history
  <2> QED BY <1>1, <2>1, <2>2, <2>3, Unmoved, GotoForgery DEF Undoable
<1>18. CASE ReadEnds(o)
  <2> DEFINE r == At(IF op[o].pc = "verified" THEN "acked" ELSE "refused")
  <2>1. /\ op' = [op EXCEPT ![o] = r] /\ snap' = [snap EXCEPT ![t] = mem[t]]
        /\ UNCHANGED <<file, ledger, late, status, mem, cache, past, tampered>>
    BY <1>18 DEF ReadEnds, shared, history
  <2>2. FineOp(r, tampered) /\ r.pc \notin Running /\ Cleared(r, mem[t], mem[t])
    BY AtFine DEF At, Running, Cleared, Undoable
  <2>3. mem' = [mem EXCEPT ![t] = mem[t]]
    BY <1>2, <2>1, Unmoved
  <2> HIDE DEF r, t
  <2> QED BY <1>2, <1>3, <2>1, <2>2, <2>3, Unmoved, MarkStays, Frame
<1> QED BY <1>4, <1>5, <1>6, <1>7, <1>8, <1>9, <1>10, <1>11, <1>12, <1>13, <1>14, <1>15,
            <1>16, <1>17, <1>18 DEF Step

-----------------------------------------------------------------------------
(* Another program can write rows and counters, but only an old tag. *)
LEMMA OutsideForgery ==
  ASSUME Inv, LateWriteLands \/ Tamper \/ Replay
  PROVE  ForgeryInv'
<1>1. UNCHANGED <<ledger, status, mem, snap, cache, op>>
  BY DEF LateWriteLands, Tamper, Replay, perTab
<1>2. OneAtATime' /\ BaselineTells' /\ GatePassed'
  BY <1>1 DEF Inv, ForgeryInv, OneAtATime, BaselineTells, GatePassed
<1>3. CASE LateWriteLands
  <2>1. PICK s \in late : late' = late \ {s} /\ Store(s) /\ tampered' = tampered
    BY <1>3 DEF LateWriteLands
  <2>2. Fine(file', tampered) /\ \A x \in late' \cup past' : Fine(x, tampered)
    BY <2>1, StoreFine, Unmoved
  <2>3. StatesFine'
    BY <1>1, <2>1, <2>2 DEF Inv, ForgeryInv, StatesFine
  <2> QED BY <1>1, <1>2, <2>1, <2>3, MarkStays DEF ForgeryInv
<1>4. ASSUME Tamper \/ Replay
      PROVE  ForgeryInv'
  <2>1. tampered = FALSE /\ tampered' = TRUE /\ past' = {} /\ late' = late /\ ledger > 0
    BY <1>4 DEF Tamper, Replay, Inv, TypeInv, TypeOK
  <2>2. \A s : Fine(s, FALSE) => Fine(s, TRUE)
    BY DEF Fine
  <2>3. Fine(file', TRUE)
    <3>1. CASE Replay
      BY <2>1, <2>2, <3>1, Unmoved DEF Replay
    <3>2. CASE Tamper
      <4>1. PICK rows \in {<<>>} \cup {<<[id |-> i, val |-> Forged]>> : i \in Ids},
                 ver \in {file.ver, file.ver + 1},
                 sealedAt \in {NoSeal, file.ver, file.ver + 1},
                 g \in {file.tag, NoTag} :
              file' = [rows |-> rows, ver |-> ver, sealedAt |-> sealedAt, tag |-> g]
        BY <3>2 DEF Tamper
      <4>2. ~HoldsForged(g.rows)
        BY NoTagClean, Unmoved DEF Fine, Inv, TypeInv, TypeOK
      <4> QED BY <4>1, <4>2 DEF Fine
    <3> QED BY <1>4, <3>1, <3>2
  <2>4. \A o \in Ops : FineOp(op'[o], TRUE)
    BY <1>1, <2>1, <2>2 DEF Inv, ForgeryInv, StatesFine, FineOp
  <2>5. StatesFine'
    BY <1>1, <2>1, <2>2, <2>3, <2>4 DEF Inv, ForgeryInv, StatesFine
  <2>6. MarkKept'
    BY <1>1, <2>1 DEF Inv, ForgeryInv, MarkKept
  <2> QED BY <1>2, <2>5, <2>6 DEF ForgeryInv
<1> QED BY <1>3, <1>4

LEMMA StutterForgery == Inv /\ UNCHANGED vars => ForgeryInv'
BY DEF Inv, ForgeryInv, StatesFine, MarkKept, OneAtATime, BaselineTells, GatePassed, vars

-----------------------------------------------------------------------------
(* The strengthening is inductive where each tab awaits its operations. *)
THEOREM ForgeryInductive == Awaited => (Spec => []Inv)
<1> SUFFICES ASSUME Awaited PROVE Spec => []Inv
  OBVIOUS
<1>1. Init => Inv
  BY InitType, InitForgery DEF Inv
<1>2. Inv /\ [Next]_vars => Inv'
  <2> SUFFICES ASSUME Inv, [Next]_vars PROVE Inv'
    OBVIOUS
  <2>1. CASE \E t \in Tabs : TabStep(t)
    BY <2>1, TabStepType, TabStepForgery DEF Inv
  <2>2. CASE \E t \in Tabs, o \in Ops : Start(t, o)
    BY <2>2, StartType, StartForgery DEF Inv
  <2>3. CASE \E o \in Ops : Step(o)
    BY <2>3, StepType, StepForgery DEF Inv
  <2>4. CASE LateWriteLands \/ Tamper \/ Replay
    BY <2>4, OutsideType, OutsideForgery DEF Inv
  <2>5. CASE UNCHANGED vars
    BY <2>5, StutterType, StutterForgery DEF Inv
  <2> QED BY <2>1, <2>2, <2>3, <2>4, <2>5 DEF Next
<1> QED BY <1>1, <1>2, PTL DEF Spec

(* K-3, the writing half: no signature the repository makes ever covers a row *)
(* another program put into a sealed vault, whatever the tabs, the crashes,   *)
(* the failed signatures and the late writes.                                 *)
THEOREM ForgeryIsNeverSealed == Awaited => (Spec => []ForgeryNeverSealed)
<1>1. Inv => ForgeryNeverSealed
  <2> SUFFICES ASSUME Inv PROVE ForgeryNeverSealed
    OBVIOUS
  <2>1. file \in State /\ \A t \in Tabs : mem[t] \in State
    BY DEF Inv, TypeInv, TypeOK
  <2>2. file # NoState /\ \A t \in Tabs : mem[t] # NoState
    BY <2>1
  <2> QED BY <2>2 DEF Inv, ForgeryInv, StatesFine, Fine, FineOp, ForgeryNeverSealed
<1> QED BY <1>1, ForgeryInductive, PTL

(* K-3, the reading half: what a read returns as verified has no such row. *)
THEOREM ForgeryIsNeverShown == Awaited => (Spec => []ForgeryNeverShown)
<1>1. Inv => ForgeryNeverShown
  BY ContentForged DEF Inv, ForgeryInv, GatePassed, Cleared, Undoable, ForgeryNeverShown
<1> QED BY <1>1, ForgeryInductive, PTL

=============================================================================
