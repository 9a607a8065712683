-------------------------- MODULE VaultBaselineProofs --------------------------
(***************************************************************************)
(* What the baseline of a tab, the mark and the lock give: theorems about  *)
(* VaultStore that follow an operation through its awaits, and the proof   *)
(* that the repository implements VaultRegister.                           *)
(***************************************************************************)
EXTENDS VaultBaselines, VaultStoreRefinement, VaultStoreProofs

USE StoreAssumption

-----------------------------------------------------------------------------
(* What each action does to the one operation and the one tab it is about.  *)
(* The proofs of the invariants argue from these facts alone.               *)

(* The fields of a state after one of them is replaced. *)
LEMMA Fields ==
  ASSUME NEW s \in State
  PROVE  /\ \A x : LET u == [s EXCEPT !.ver = x]
                   IN  u.ver = x /\ u.rows = s.rows /\ u.sealedAt = s.sealedAt /\ u.tag = s.tag
         /\ \A x : LET u == [s EXCEPT !.rows = x]
                   IN  u.rows = x /\ u.ver = s.ver /\ u.sealedAt = s.sealedAt /\ u.tag = s.tag
         /\ \A x : LET u == [s EXCEPT !.sealedAt = x]
                   IN  u.sealedAt = x /\ u.rows = s.rows /\ u.ver = s.ver /\ u.tag = s.tag
         /\ \A x : LET u == [s EXCEPT !.tag = x]
                   IN  u.tag = x /\ u.rows = s.rows /\ u.ver = s.ver /\ u.sealedAt = s.sealedAt
BY DEF State

(* An operation keeps what it is about. *)
SameRequest(r, q) == r.tab = q.tab /\ r.kind = q.kind /\ r.id = q.id /\ r.at = q.at

(* ... and what it would restore, sign and write. *)
SameLocals(r, q) == SameRequest(r, q) /\ r.prev = q.prev /\ r.sig = q.sig /\ r.image = q.image

LEMMA OpDomain ==
  ASSUME TypeInv, NEW o \in Ops, NEW r, op' = [op EXCEPT ![o] = r]
  PROVE  op'[o] = r /\ \A p \in Ops \ {o} : op'[p] = op[p]
BY DEF TypeInv, TypeOK

LEMMA GotoEffect ==
  ASSUME TypeInv, NEW o \in Ops, NEW pc, Goto(o, pc)
  PROVE  /\ op'[o].pc = pc /\ SameLocals(op'[o], op[o])
         /\ \A p \in Ops \ {o} : op'[p] = op[p]
<1>1. op' = [op EXCEPT ![o] = [op[o] EXCEPT !.pc = pc]]
  BY DEF Goto
<1>2. op[o] \in OpRecord
  BY DEF TypeInv, TypeOK
<1>3. op'[o] = [op[o] EXCEPT !.pc = pc] /\ \A p \in Ops \ {o} : op'[p] = op[p]
  BY <1>1, OpDomain
<1>4. op'[o].pc = pc /\ SameLocals(op'[o], op[o])
  BY <1>2, <1>3 DEF OpRecord, SameLocals, SameRequest
<1> QED BY <1>3, <1>4

LEMMA MemDomain ==
  ASSUME TypeInv, NEW t \in Tabs, NEW s, mem' = [mem EXCEPT ![t] = s]
  PROVE  mem'[t] = s /\ \A u \in Tabs \ {t} : mem'[u] = mem[u]
BY DEF TypeInv, TypeOK

(* An error: the operation ends and the tab holds what it held before. *)
LEMMA FailEffect ==
  ASSUME TypeInv, NEW o \in Ops, op[o].tab \in Tabs, NEW outcome, Fail(o, outcome)
  PROVE  /\ op'[o] = At(outcome) /\ op'[o].pc = outcome
         /\ \A p \in Ops \ {o} : op'[p] = op[p]
         /\ mem'[op[o].tab] = op[o].prev
         /\ \A u \in Tabs \ {op[o].tab} : mem'[u] = mem[u]
         /\ lock' = Tail(lock)
<1>1. op' = [op EXCEPT ![o] = At(outcome)] /\ mem' = [mem EXCEPT ![op[o].tab] = op[o].prev]
  BY DEF Fail
<1>2. op'[o] = At(outcome) /\ \A p \in Ops \ {o} : op'[p] = op[p]
  BY <1>1, OpDomain
<1>3. op'[o].pc = outcome
  BY <1>2 DEF At
<1>4. mem'[op[o].tab] = op[o].prev /\ \A u \in Tabs \ {op[o].tab} : mem'[u] = mem[u]
  BY <1>1, MemDomain
<1> QED BY <1>2, <1>3, <1>4 DEF Fail

LEMMA MutateEffect ==
  ASSUME TypeInv, NEW o \in Ops, Mutate(o)
  PROVE  LET t == op[o].tab
         IN  /\ op[o].pc = "encrypting" /\ op'[o].pc = "queued" /\ SameLocals(op'[o], op[o])
             /\ \A p \in Ops \ {o} : op'[p] = op[p]
             /\ mem'[t].rows = Edit(o, mem[t].rows) /\ mem'[t].ver = mem[t].ver
             /\ mem'[t].sealedAt = mem[t].sealedAt /\ mem'[t].tag = mem[t].tag
             /\ \A u \in Tabs \ {t} : mem'[u] = mem[u]
             /\ lock' = Append(lock, o)
             /\ UNCHANGED <<backend, file, ledger, late, status, snap, cache, observed, past,
                            tampered>>
<1> DEFINE t == op[o].tab
<1>1. op[o].pc = "encrypting" /\ op[o].pc \in Running
  BY DEF Mutate, Running
<1>2. t \in Tabs /\ mem[t] \in State
  BY <1>1, RunningType
<1>3. mem' = [mem EXCEPT ![t] = [mem[t] EXCEPT !.rows = Edit(o, mem[t].rows)]]
  BY DEF Mutate
<1>4. Goto(o, "queued")
  BY DEF Mutate, Goto
<1>5. /\ mem'[t] = [mem[t] EXCEPT !.rows = Edit(o, mem[t].rows)]
      /\ \A u \in Tabs \ {t} : mem'[u] = mem[u]
  BY <1>2, <1>3, MemDomain
<1>6. /\ mem'[t].rows = Edit(o, mem[t].rows) /\ mem'[t].ver = mem[t].ver
      /\ mem'[t].sealedAt = mem[t].sealedAt /\ mem'[t].tag = mem[t].tag
  BY <1>2, <1>5, Fields
<1> QED BY <1>1, <1>4, <1>5, <1>6, GotoEffect DEF Mutate

LEMMA BumpEffect ==
  ASSUME TypeInv, NEW o \in Ops, Bump(o)
  PROVE  LET t == op[o].tab
         IN  /\ op[o].pc = "gated" /\ op'[o].pc = "bumped" /\ SameLocals(op'[o], op[o])
             /\ \A p \in Ops \ {o} : op'[p] = op[p]
             /\ mem'[t].ver = mem[t].ver + 1 /\ mem'[t].rows = mem[t].rows
             /\ mem'[t].sealedAt = mem[t].sealedAt /\ mem'[t].tag = mem[t].tag
             /\ \A u \in Tabs \ {t} : mem'[u] = mem[u]
             /\ UNCHANGED <<shared, status, snap, cache, observed, history>>
<1> DEFINE t == op[o].tab
<1>1. op[o].pc = "gated" /\ op[o].pc \in Running
  BY DEF Bump, Running
<1>2. t \in Tabs /\ mem[t] \in State
  BY <1>1, RunningType
<1>3. mem' = [mem EXCEPT ![t] = [mem[t] EXCEPT !.ver = mem[t].ver + 1]]
  BY DEF Bump
<1>4. /\ mem'[t] = [mem[t] EXCEPT !.ver = mem[t].ver + 1]
      /\ \A u \in Tabs \ {t} : mem'[u] = mem[u]
  BY <1>2, <1>3, MemDomain
<1>5. /\ mem'[t].rows = mem[t].rows /\ mem'[t].ver = mem[t].ver + 1
      /\ mem'[t].sealedAt = mem[t].sealedAt /\ mem'[t].tag = mem[t].tag
  BY <1>2, <1>4, Fields
<1> QED BY <1>1, <1>4, <1>5, GotoEffect DEF Bump

LEMMA SealEffect ==
  ASSUME TypeInv, NEW o \in Ops, Seal(o)
  PROVE  LET t == op[o].tab
         IN  /\ op[o].pc = "bumped" /\ op'[o].pc = "sealed" /\ SameRequest(op'[o], op[o])
             /\ op'[o].prev = op[o].prev /\ op'[o].sig = SignV2(mem'[t], Key)
             /\ \A p \in Ops \ {o} : op'[p] = op[p]
             /\ mem'[t].ver = mem[t].ver /\ mem'[t].rows = mem[t].rows
             /\ mem'[t].sealedAt = mem[t].ver /\ mem'[t].tag = mem[t].tag
             /\ \A u \in Tabs \ {t} : mem'[u] = mem[u]
             /\ UNCHANGED <<shared, status, snap, cache, observed, history>>
<1> DEFINE t == op[o].tab
           s == [mem[t] EXCEPT !.sealedAt = mem[t].ver]
<1>1. op[o].pc = "bumped" /\ op[o].pc \in Running
  BY DEF Seal, Running
<1>2. t \in Tabs /\ mem[t] \in State /\ op[o] \in OpRecord
  BY <1>1, RunningType
<1>3. /\ mem' = [mem EXCEPT ![t] = s]
      /\ op' = [op EXCEPT ![o] = [op[o] EXCEPT !.pc = "sealed", !.sig = SignV2(s, Key)]]
  BY DEF Seal
<1>4. /\ s.rows = mem[t].rows /\ s.ver = mem[t].ver
      /\ s.sealedAt = mem[t].ver /\ s.tag = mem[t].tag
  BY <1>2, Fields
<1> HIDE DEF s
<1>5. mem'[t] = s /\ \A u \in Tabs \ {t} : mem'[u] = mem[u]
  BY <1>2, <1>3, MemDomain
<1>6. /\ op'[o] = [op[o] EXCEPT !.pc = "sealed", !.sig = SignV2(s, Key)]
      /\ \A p \in Ops \ {o} : op'[p] = op[p]
  BY <1>3, OpDomain
<1>7. op'[o].pc = "sealed" /\ op'[o].sig = SignV2(s, Key) /\ SameRequest(op'[o], op[o])
      /\ op'[o].prev = op[o].prev
  BY <1>2, <1>6 DEF OpRecord, SameRequest
<1> QED BY <1>1, <1>4, <1>5, <1>6, <1>7 DEF Seal

LEMMA AttachEffect ==
  ASSUME TypeInv, NEW o \in Ops, Attach(o)
  PROVE  LET t == op[o].tab
         IN  /\ op[o].pc = "sealed" /\ op'[o].pc = "writing" /\ SameRequest(op'[o], op[o])
             /\ op'[o].prev = op[o].prev /\ op'[o].image = mem'[t]
             /\ \A p \in Ops \ {o} : op'[p] = op[p]
             /\ mem'[t].ver = mem[t].ver /\ mem'[t].rows = mem[t].rows
             /\ mem'[t].sealedAt = mem[t].sealedAt /\ mem'[t].tag = op[o].sig
             /\ \A u \in Tabs \ {t} : mem'[u] = mem[u]
             /\ UNCHANGED <<shared, status, snap, cache, observed, history>>
<1> DEFINE t == op[o].tab
           s == [mem[t] EXCEPT !.tag = op[o].sig]
<1>1. op[o].pc = "sealed" /\ op[o].pc \in Running
  BY DEF Attach, Running
<1>2. t \in Tabs /\ mem[t] \in State /\ op[o] \in OpRecord
  BY <1>1, RunningType
<1>3. /\ mem' = [mem EXCEPT ![t] = s]
      /\ op' = [op EXCEPT ![o] = [op[o] EXCEPT !.pc = "writing", !.image = s]]
  BY DEF Attach
<1>4. /\ s.rows = mem[t].rows /\ s.ver = mem[t].ver
      /\ s.sealedAt = mem[t].sealedAt /\ s.tag = op[o].sig
  BY <1>2, Fields
<1> HIDE DEF s
<1>5. mem'[t] = s /\ \A u \in Tabs \ {t} : mem'[u] = mem[u]
  BY <1>2, <1>3, MemDomain
<1>6. /\ op'[o] = [op[o] EXCEPT !.pc = "writing", !.image = s]
      /\ \A p \in Ops \ {o} : op'[p] = op[p]
  BY <1>3, OpDomain
<1>7. op'[o].pc = "writing" /\ op'[o].image = s /\ SameRequest(op'[o], op[o])
      /\ op'[o].prev = op[o].prev
  BY <1>2, <1>6 DEF OpRecord, SameRequest
<1> QED BY <1>1, <1>4, <1>5, <1>6, <1>7 DEF Attach

LEMMA SealFailsEffect ==
  ASSUME TypeInv, NEW o \in Ops, SealFails(o)
  PROVE  /\ MaySealFail /\ op[o].pc \in {"bumped", "sealed"}
         /\ op'[o].pc = "writing" /\ SameRequest(op'[o], op[o])
         /\ op'[o].prev = op[o].prev /\ op'[o].image = mem[op[o].tab]
         /\ \A p \in Ops \ {o} : op'[p] = op[p]
         /\ UNCHANGED <<shared, perTab, history>>
<1>1. op[o].pc \in {"bumped", "sealed"} /\ op[o].pc \in Running
  BY DEF SealFails, Running
<1>2. op[o] \in OpRecord
  BY <1>1, RunningType
<1>3. op' = [op EXCEPT ![o] = [op[o] EXCEPT !.pc = "writing", !.image = mem[op[o].tab]]]
  BY DEF SealFails
<1>4. /\ op'[o] = [op[o] EXCEPT !.pc = "writing", !.image = mem[op[o].tab]]
      /\ \A p \in Ops \ {o} : op'[p] = op[p]
  BY <1>3, OpDomain
<1>5. op'[o].pc = "writing" /\ SameRequest(op'[o], op[o])
      /\ op'[o].prev = op[o].prev /\ op'[o].image = mem[op[o].tab]
  BY <1>2, <1>4 DEF OpRecord, SameRequest
<1> QED BY <1>1, <1>4, <1>5 DEF SealFails

LEMMA LandsEffect ==
  ASSUME TypeInv, NEW o \in Ops, WriteLands(o)
  PROVE  /\ op[o].pc = "writing" /\ Holds(o) /\ op'[o].pc = "landed" /\ SameLocals(op'[o], op[o])
         /\ \A p \in Ops \ {o} : op'[p] = op[p]
         /\ file' = op[o].image
         /\ UNCHANGED <<backend, ledger, lock, late, perTab, tampered>>
<1>1. Goto(o, "landed")
  BY DEF WriteLands
<1> QED BY <1>1, GotoEffect DEF WriteLands, Store

(* What a persist leaves with its tab and with the mark. *)
LEMMA CommittedEffect ==
  ASSUME TypeInv, NEW t \in Tabs, NEW s \in State, Committed(t, s)
  PROVE  /\ snap'[t] = s /\ \A u \in Tabs \ {t} : snap'[u] = snap[u]
         /\ observed'[t] \in {observed[t], s.ver}
         /\ \A u \in Tabs \ {t} : observed'[u] = observed[u] /\ cache'[u] = cache[u]
         /\ \/ /\ HasTag(s) /\ s.ver > 0
               /\ ledger' = Larger(Mark(t), s.ver) /\ cache'[t] = ledger'
            \/ ~(HasTag(s) /\ s.ver > 0) /\ UNCHANGED <<cache, ledger>>
<1>1. /\ snap \in [Tabs -> State \cup {NoState}] /\ observed \in [Tabs -> Int]
      /\ cache \in [Tabs -> Int]
  BY DEF TypeInv, TypeOK
<1>2. snap'[t] = s /\ \A u \in Tabs \ {t} : snap'[u] = snap[u]
  BY <1>1 DEF Committed
<1>3. observed'[t] \in {observed[t], s.ver} /\ \A u \in Tabs \ {t} : observed'[u] = observed[u]
  BY <1>1 DEF Committed
<1>4. CASE HasTag(s) /\ s.ver > 0
  <2>1. /\ ledger' = Larger(Mark(t), s.ver)
        /\ cache' = [cache EXCEPT ![t] = Larger(Mark(t), s.ver)]
    BY <1>4 DEF Committed
  <2> QED BY <1>1, <1>2, <1>3, <1>4, <2>1
<1>5. CASE ~(HasTag(s) /\ s.ver > 0)
  <2>1. UNCHANGED <<cache, ledger>>
    BY <1>5, Zenon DEF Committed
  <2> QED BY <1>2, <1>3, <1>5, <2>1
<1> QED BY <1>4, <1>5

LEMMA CompleteEffect ==
  ASSUME TypeInv, NEW o \in Ops, Complete(o)
  PROVE  LET t == op[o].tab
         IN  /\ op[o].pc = "landed" /\ Holds(o) /\ Committed(t, mem[t])
             /\ \/ op[o].kind = "bulk" /\ op'[o] = At("acked") /\ op'[o].pc = "acked"
                \/ op[o].kind # "bulk" /\ op'[o].pc = "reading" /\ SameRequest(op'[o], op[o])
             /\ \A p \in Ops \ {o} : op'[p] = op[p]
             /\ lock' = Tail(lock)
             /\ UNCHANGED <<backend, file, late, status, mem, past, tampered>>
<1> DEFINE r == [op[o] EXCEPT !.pc = "reading", !.prev = NoState, !.sig = NoTag,
                              !.image = NoState]
<1>1. op[o] \in OpRecord
  BY DEF TypeInv, TypeOK
<1>2. r.pc = "reading" /\ SameRequest(r, op[o])
  BY <1>1 DEF OpRecord, SameRequest
<1>3. op' = [op EXCEPT ![o] = IF op[o].kind = "bulk" THEN At("acked") ELSE r]
  BY DEF Complete
<1> HIDE DEF r
<1>4. /\ op'[o] = IF op[o].kind = "bulk" THEN At("acked") ELSE r
      /\ \A p \in Ops \ {o} : op'[p] = op[p]
  BY <1>3, OpDomain
<1>5. At("acked").pc = "acked"
  BY DEF At
<1> QED BY <1>2, <1>4, <1>5 DEF Complete

LEMMA ReadEndsEffect ==
  ASSUME TypeInv, NEW o \in Ops, ReadEnds(o)
  PROVE  LET t == op[o].tab
         IN  /\ op[o].pc \in {"verified", "corrupt"}
             /\ op'[o] = At(op'[o].pc)
             /\ op'[o].pc = IF op[o].pc = "verified" THEN "acked" ELSE "refused"
             /\ \A p \in Ops \ {o} : op'[p] = op[p]
             /\ snap'[t] = mem[t] /\ \A u \in Tabs \ {t} : snap'[u] = snap[u]
             /\ UNCHANGED <<shared, status, mem, cache, observed, history>>
<1>1. op[o].pc \in {"verified", "corrupt"} /\ op[o].tab \in Tabs
  BY RunningType DEF ReadEnds, Running
<1>2. op' = [op EXCEPT ![o] = At(IF op[o].pc = "verified" THEN "acked" ELSE "refused")]
  BY DEF ReadEnds
<1>3. /\ op'[o] = At(IF op[o].pc = "verified" THEN "acked" ELSE "refused")
      /\ \A p \in Ops \ {o} : op'[p] = op[p]
  BY <1>2, OpDomain
<1>4. op'[o].pc = IF op[o].pc = "verified" THEN "acked" ELSE "refused"
  BY <1>3 DEF At
<1>5. snap'[op[o].tab] = mem[op[o].tab] /\ \A u \in Tabs \ {op[o].tab} : snap'[u] = snap[u]
  BY <1>1 DEF ReadEnds, TypeInv, TypeOK
<1> QED BY <1>1, <1>3, <1>4, <1>5 DEF ReadEnds

LEMMA ReadEmptyEffect ==
  ASSUME TypeInv, NEW o \in Ops, ReadEmpty(o)
  PROVE  /\ op[o].pc = "reading" /\ op'[o] = At("acked") /\ op'[o].pc = "acked"
         /\ \A p \in Ops \ {o} : op'[p] = op[p]
         /\ UNCHANGED <<shared, perTab, history>>
<1>1. op'[o] = At("acked") /\ \A p \in Ops \ {o} : op'[p] = op[p]
  BY OpDomain DEF ReadEmpty
<1>2. op'[o].pc = "acked"
  BY <1>1 DEF At
<1> QED BY <1>1, <1>2 DEF ReadEmpty

(* A new operation, and the tab that starts it. *)
LEMMA BeginEffect ==
  ASSUME TypeInv, NEW t \in Tabs, NEW o \in Ops, NEW kind, NEW id, NEW pc,
         Begin(t, o, kind, id, pc)
  PROVE  /\ op'[o].pc = pc /\ op'[o].tab = t /\ op'[o].kind = kind /\ op'[o].id = id
         /\ op'[o].at = (IF kind = "save" THEN IndexOf(mem[t].rows, id) ELSE 0)
         /\ kind # "read" => op'[o].prev = mem[t]
         /\ \A p \in Ops \ {o} : op'[p] = op[p]
<1> DEFINE at == IF kind = "save" THEN IndexOf(mem[t].rows, id) ELSE 0
           prev == IF kind = "read" THEN NoState ELSE mem[t]
           r == [pc |-> pc, tab |-> t, kind |-> kind, id |-> id, at |-> at,
                 prev |-> prev, sig |-> NoTag, image |-> NoState]
<1>1. op' = [op EXCEPT ![o] = r]
  BY Zenon DEF Begin
<1> HIDE DEF at, prev
<1>2. r.pc = pc /\ r.tab = t /\ r.kind = kind /\ r.id = id /\ r.at = at /\ r.prev = prev
  OBVIOUS
<1> HIDE DEF r
<1>3. op'[o] = r /\ \A p \in Ops \ {o} : op'[p] = op[p]
  BY <1>1, OpDomain
<1>4. kind # "read" => prev = mem[t]
  BY DEF prev
<1> QED BY <1>2, <1>3, <1>4 DEF at

(* The edit of a deletion or of the trash flag, made as the operation starts. *)
LEMMA RowsEffect ==
  ASSUME TypeInv, NEW t \in Tabs, NEW rows, mem' = [mem EXCEPT ![t].rows = rows]
  PROVE  /\ mem'[t].rows = rows /\ mem'[t].ver = mem[t].ver
         /\ mem'[t].sealedAt = mem[t].sealedAt /\ mem'[t].tag = mem[t].tag
         /\ \A u \in Tabs \ {t} : mem'[u] = mem[u]
<1>1. mem[t] \in State
  BY DEF TypeInv, TypeOK
<1>2. mem' = [mem EXCEPT ![t] = [mem[t] EXCEPT !.rows = rows]]
  OBVIOUS
<1>3. mem'[t] = [mem[t] EXCEPT !.rows = rows] /\ \A u \in Tabs \ {t} : mem'[u] = mem[u]
  BY <1>2, MemDomain
<1>4. /\ mem'[t].rows = rows /\ mem'[t].ver = mem[t].ver
      /\ mem'[t].sealedAt = mem[t].sealedAt /\ mem'[t].tag = mem[t].tag
  BY <1>1, <1>3 DEF State
<1> QED BY <1>3, <1>4

LEMMA StartFrame ==
  ASSUME TypeInv, NEW t \in Tabs, NEW o \in Ops, Start(t, o)
  PROVE  /\ status[t] = "open" /\ op[o].pc = "idle" /\ (~Overlap => InFlight(t) = {})
         /\ op'[o].tab = t
         /\ \A p \in Ops \ {o} : op'[p] = op[p]
         /\ \A u \in Tabs \ {t} : mem'[u] = mem[u]
         /\ UNCHANGED <<backend, file, ledger, late, status, snap, cache, observed, past, tampered>>
<1>1. MayBegin(t, o)
  BY Zenon DEF Start, BeginWrite, BeginPurge, BeginTrash, BeginRead
<1>2. status[t] = "open" /\ op[o].pc = "idle" /\ (~Overlap => InFlight(t) = {})
  BY <1>1, Zenon DEF MayBegin
<1>3. PICK kind, id, pc : Begin(t, o, kind, id, pc)
  BY Zenon DEF Start, BeginWrite, BeginPurge, BeginTrash, BeginRead
<1>4. op'[o].tab = t /\ \A p \in Ops \ {o} : op'[p] = op[p]
  BY <1>3, BeginEffect
<1>5. UNCHANGED <<backend, file, ledger, late, status, snap, cache, observed, past, tampered>>
  BY DEF Start, BeginWrite, BeginPurge, BeginTrash, BeginRead, shared, perTab, history
<1>6. \A u \in Tabs \ {t} : mem'[u] = mem[u]
  BY DEF Start, BeginWrite, BeginPurge, BeginTrash, BeginRead, perTab, TypeInv, TypeOK
<1> QED BY <1>2, <1>4, <1>5, <1>6

LEMMA StartEffect ==
  ASSUME TypeInv, NEW t \in Tabs, NEW o \in Ops, Start(t, o)
  PROVE  /\ op'[o].id \in Ids
         /\ \/ op'[o].pc = "encrypting" /\ op'[o].kind \in {"save", "bulk", "replace"}
            \/ op'[o].pc = "queued" /\ op'[o].kind \in {"purge", "trash"}
            \/ op'[o].pc = "reading" /\ op'[o].kind = "read"
         /\ op'[o].pc # "reading" => op'[o].prev = mem[t]
         /\ op'[o].kind = "save" => op'[o].at = IndexOf(mem[t].rows, op'[o].id)
         /\ op'[o].pc # "queued" => mem' = mem /\ lock' = lock
         /\ op'[o].pc = "queued" => lock' = Append(lock, o)
         /\ mem'[t].ver = mem[t].ver /\ mem'[t].sealedAt = mem[t].sealedAt
         /\ mem'[t].tag = mem[t].tag
         /\ op'[o].kind = "purge" => mem'[t].rows = Purge(mem[t].rows, op'[o].id)
         /\ op'[o].kind = "trash" =>
              /\ Has(mem[t].rows, op'[o].id)
              /\ mem'[t].rows = Upsert(mem[t].rows, [id |-> op'[o].id, val |-> o])
<1>1. CASE BeginWrite(t, o)
  <2>1. PICK kind \in {"save", "bulk", "replace"}, id \in Ids :
               Begin(t, o, kind, id, "encrypting")
    BY <1>1 DEF BeginWrite
  <2>2. UNCHANGED <<shared, perTab>>
    BY <1>1 DEF BeginWrite
  <2> QED BY <2>1, <2>2, BeginEffect DEF shared, perTab
<1>2. CASE BeginPurge(t, o)
  <2>1. PICK id \in Ids : /\ Begin(t, o, "purge", id, "queued")
                          /\ mem' = [mem EXCEPT ![t].rows = Purge(@, id)]
    BY <1>2 DEF BeginPurge
  <2>2. mem' = [mem EXCEPT ![t].rows = Purge(mem[t].rows, id)]
    BY <2>1
  <2>3. /\ op'[o].pc = "queued" /\ op'[o].tab = t /\ op'[o].kind = "purge" /\ op'[o].id = id
        /\ op'[o].prev = mem[t]
    BY <2>1, BeginEffect
  <2>4. /\ mem'[t].rows = Purge(mem[t].rows, id) /\ mem'[t].ver = mem[t].ver
        /\ mem'[t].sealedAt = mem[t].sealedAt /\ mem'[t].tag = mem[t].tag
        /\ \A u \in Tabs \ {t} : mem'[u] = mem[u]
    BY <2>2, RowsEffect
  <2> QED BY <1>2, <2>1, <2>3, <2>4 DEF BeginPurge
<1>3. CASE BeginTrash(t, o)
  <2>1. PICK id \in Ids :
          /\ Has(mem[t].rows, id)
          /\ Begin(t, o, "trash", id, "queued")
          /\ mem' = [mem EXCEPT ![t].rows = Upsert(@, [id |-> id, val |-> o])]
    BY <1>3 DEF BeginTrash
  <2>2. mem' = [mem EXCEPT ![t].rows = Upsert(mem[t].rows, [id |-> id, val |-> o])]
    BY <2>1
  <2>3. /\ op'[o].pc = "queued" /\ op'[o].tab = t /\ op'[o].kind = "trash" /\ op'[o].id = id
        /\ op'[o].prev = mem[t]
    BY <2>1, BeginEffect
  <2>4. /\ mem'[t].rows = Upsert(mem[t].rows, [id |-> id, val |-> o]) /\ mem'[t].ver = mem[t].ver
        /\ mem'[t].sealedAt = mem[t].sealedAt /\ mem'[t].tag = mem[t].tag
        /\ \A u \in Tabs \ {t} : mem'[u] = mem[u]
    BY <2>2, RowsEffect
  <2> QED BY <1>3, <2>1, <2>3, <2>4 DEF BeginTrash
<1>4. CASE BeginRead(t, o)
  <2>1. PICK id \in Ids : Begin(t, o, "read", id, "reading")
    BY <1>4 DEF BeginRead
  <2>2. UNCHANGED <<shared, perTab>>
    BY <1>4 DEF BeginRead
  <2> QED BY <2>1, <2>2, BeginEffect DEF shared, perTab
<1> QED BY <1>1, <1>2, <1>3, <1>4 DEF Start

(* ... what is asked of it. *)
LEMMA StartRequest ==
  ASSUME TypeInv, NEW t \in Tabs, NEW o \in Ops, Start(t, o)
  PROVE  /\ op'[o].id \in Ids
         /\ \/ op'[o].pc = "encrypting" /\ op'[o].kind \in {"save", "bulk", "replace"}
            \/ op'[o].pc = "queued" /\ op'[o].kind \in {"purge", "trash"}
            \/ op'[o].pc = "reading" /\ op'[o].kind = "read"
<1>1. CASE BeginWrite(t, o)
  <2>1. PICK kind \in {"save", "bulk", "replace"}, id \in Ids :
               Begin(t, o, kind, id, "encrypting")
    BY <1>1 DEF BeginWrite
  <2> QED BY <2>1, BeginEffect
<1>2. CASE BeginPurge(t, o)
  <2>1. PICK id \in Ids : Begin(t, o, "purge", id, "queued")
    BY <1>2 DEF BeginPurge
  <2> QED BY <2>1, BeginEffect
<1>3. CASE BeginTrash(t, o)
  <2>1. PICK id \in Ids : Begin(t, o, "trash", id, "queued")
    BY <1>3 DEF BeginTrash
  <2> QED BY <2>1, BeginEffect
<1>4. CASE BeginRead(t, o)
  <2>1. PICK id \in Ids : Begin(t, o, "read", id, "reading")
    BY <1>4 DEF BeginRead
  <2> QED BY <2>1, BeginEffect
<1> QED BY <1>1, <1>2, <1>3, <1>4 DEF Start

(* ... and what most of the invariants need to know of it. *)
LEMMA StartBrief ==
  ASSUME TypeInv, NEW t \in Tabs, NEW o \in Ops, Start(t, o)
  PROVE  /\ op'[o].pc \in {"encrypting", "queued", "reading"}
         /\ op'[o].pc # "reading" => op'[o].prev = mem[t]
         /\ op'[o].pc # "queued" => mem' = mem
         /\ mem'[t].ver = mem[t].ver
         /\ lock' = lock \/ lock' = Append(lock, o)
<1>1. op'[o].pc \in {"encrypting", "queued", "reading"}
  BY StartRequest
<1>2. op'[o].pc # "reading" => op'[o].prev = mem[t]
  BY StartEffect
<1>3. op'[o].pc # "queued" => mem' = mem /\ lock' = lock
  <2>1. CASE BeginWrite(t, o) \/ BeginRead(t, o)
    BY <2>1 DEF BeginWrite, BeginRead, shared, perTab
  <2>2. CASE BeginPurge(t, o) \/ BeginTrash(t, o)
    <3>1. PICK kind, id : Begin(t, o, kind, id, "queued")
      BY <2>2, Zenon DEF BeginPurge, BeginTrash
    <3> QED BY <3>1, BeginEffect
  <2> QED BY <2>1, <2>2 DEF Start
<1>4. op'[o].pc = "queued" => lock' = Append(lock, o)
  BY StartEffect
<1>5. mem'[t].ver = mem[t].ver
  BY StartEffect
<1> QED BY <1>1, <1>2, <1>3, <1>4, <1>5

(* A step of an operation concerns that operation and its tab. *)
LEMMA StepFrame ==
  ASSUME TypeInv, NEW o \in Ops, Step(o)
  PROVE  /\ op[o].pc \in Running /\ op[o].tab \in Tabs
         /\ op'[o].pc \in Running => SameRequest(op'[o], op[o])
         /\ \A p \in Ops \ {o} : op'[p] = op[p]
         /\ \A u \in Tabs \ {op[o].tab} : /\ mem'[u] = mem[u] /\ snap'[u] = snap[u]
                                          /\ cache'[u] = cache[u] /\ observed'[u] = observed[u]
         /\ UNCHANGED <<backend, status, tampered>>
<1> DEFINE t == op[o].tab
           Others == /\ \A p \in Ops \ {o} : op'[p] = op[p]
                     /\ \A u \in Tabs \ {t} : /\ mem'[u] = mem[u] /\ snap'[u] = snap[u]
                                              /\ cache'[u] = cache[u] /\ observed'[u] = observed[u]
           Ended == op'[o].pc \notin Running
<1>1. op[o].pc \in Running /\ t \in Tabs /\ mem[t] \in State /\ UNCHANGED <<backend, status, tampered>>
  <2>1. op[o].pc \in Running /\ UNCHANGED <<backend, status, tampered>>
    BY DEF Step, Mutate, Conflict, Gate, Bar, Bump, Seal, SealFails, Attach, WriteLands, WriteFails,
           WriteTimesOut, Complete, ReadEmpty, ReadVerdict, ReadEnds, shared, perTab, history,
           Running
  <2> QED BY <2>1, RunningType
<1>2. CASE Mutate(o)
  BY <1>1, <1>2, MutateEffect DEF SameLocals
<1>3. CASE Conflict(o) \/ Bar(o) \/ WriteFails(o) \/ WriteTimesOut(o)
  <2>1. PICK outcome \in Outcomes : Fail(o, outcome)
    BY <1>3 DEF Conflict, Bar, WriteFails, WriteTimesOut, Outcomes
  <2>2. UNCHANGED <<snap, cache, observed>>
    BY <1>3 DEF Conflict, Bar, WriteFails, WriteTimesOut
  <2>3. Ended /\ Others
    BY <1>1, <2>1, <2>2, FailEffect DEF Outcomes, Running
  <2> QED BY <1>1, <2>3
<1>4. CASE Gate(o) \/ ReadVerdict(o)
  <2>1. PICK pc : Goto(o, pc)
    BY <1>4, Zenon DEF Gate, ReadVerdict
  <2>2. UNCHANGED perTab
    BY <1>4 DEF Gate, ReadVerdict
  <2> QED BY <1>1, <2>1, <2>2, GotoEffect DEF perTab, SameLocals
<1>5. CASE Bump(o)
  BY <1>1, <1>5, BumpEffect DEF SameLocals
<1>6. CASE Seal(o)
  BY <1>1, <1>6, SealEffect
<1>7. CASE SealFails(o)
  BY <1>1, <1>7, SealFailsEffect DEF perTab
<1>8. CASE Attach(o)
  BY <1>1, <1>8, AttachEffect
<1>9. CASE WriteLands(o)
  BY <1>1, <1>9, LandsEffect DEF perTab, SameLocals
<1>10. CASE Complete(o)
  <2>1. \A u \in Tabs \ {t} : snap'[u] = snap[u] /\ cache'[u] = cache[u] /\ observed'[u] = observed[u]
    BY <1>1, <1>10, CompleteEffect, CommittedEffect
  <2> QED BY <1>1, <1>10, <2>1, CompleteEffect DEF Running
<1>11. CASE ReadEmpty(o)
  BY <1>1, <1>11, ReadEmptyEffect DEF perTab, Running
<1>12. CASE ReadEnds(o)
  BY <1>1, <1>12, ReadEndsEffect DEF Running
<1> QED BY <1>2, <1>3, <1>4, <1>5, <1>6, <1>7, <1>8, <1>9, <1>10, <1>11, <1>12 DEF Step

-----------------------------------------------------------------------------
(* The tabs. *)

LEMMA OpenEffect ==
  ASSUME TypeInv, NEW t \in Tabs, Open(t)
  PROVE  /\ status[t] = "closed" /\ status'[t] = IF backend = "opfs" THEN "resaving" ELSE "open"
         /\ \A u \in Tabs \ {t} : status'[u] = status[u]
         /\ mem'[t] = file /\ \A u \in Tabs \ {t} : mem'[u] = mem[u]
         /\ snap'[t] = IF backend = "mirror" THEN snap[t] ELSE file
         /\ \A u \in Tabs \ {t} : snap'[u] = snap[u]
         /\ observed'[t] \in {observed[t], file.ver}
         /\ \A u \in Tabs \ {t} : observed'[u] = observed[u]
         /\ UNCHANGED <<backend, file, ledger, lock, late, cache, op, past, tampered>>
BY DEF Open, TypeInv, TypeOK

LEMMA ResaveEffect ==
  ASSUME TypeInv, NEW t \in Tabs, Resave(t)
  PROVE  /\ status[t] = "resaving" /\ status'[t] = "open"
         /\ \A u \in Tabs \ {t} : status'[u] = status[u]
         /\ mem'[t] \in State /\ mem'[t].ver = mem[t].ver + 1
         /\ \A u \in Tabs \ {t} : mem'[u] = mem[u]
         /\ file' = mem'[t] /\ Committed(t, mem'[t])
         /\ UNCHANGED <<backend, lock, late, op, tampered>>
<1> DEFINE next == [mem[t] EXCEPT !.ver = @ + 1]
<1>1. mem[t] \in State /\ mem[t].ver + 1 \in Int
  BY StateUpdate DEF TypeInv, TypeOK
<1>2. next \in State /\ next.ver = mem[t].ver + 1
  BY <1>1 DEF State
<1>3. /\ mem' = [mem EXCEPT ![t] = next] /\ Store(next) /\ Committed(t, next)
      /\ status' = [status EXCEPT ![t] = "open"] /\ status[t] = "resaving"
      /\ UNCHANGED <<backend, lock, late, op, tampered>>
  BY DEF Resave
<1> HIDE DEF next
<1>4. mem'[t] = next /\ \A u \in Tabs \ {t} : mem'[u] = mem[u]
  BY <1>3, MemDomain
<1>5. status'[t] = "open" /\ \A u \in Tabs \ {t} : status'[u] = status[u]
  BY <1>3 DEF TypeInv, TypeOK
<1> QED BY <1>2, <1>3, <1>4, <1>5 DEF Store

LEMMA ResaveFailsEffect ==
  ASSUME TypeInv, NEW t \in Tabs, ResaveFails(t)
  PROVE  /\ status[t] = "resaving" /\ status'[t] = "open"
         /\ \A u \in Tabs \ {t} : status'[u] = status[u]
         /\ mem'[t].ver = mem[t].ver + 1
         /\ \A u \in Tabs \ {t} : mem'[u] = mem[u]
         /\ UNCHANGED <<backend, file, ledger, lock, snap, cache, observed, op, past, tampered>>
<1>1. mem[t] \in State
  BY DEF TypeInv, TypeOK
<1>2. mem' = [mem EXCEPT ![t] = [mem[t] EXCEPT !.ver = mem[t].ver + 1]]
  BY DEF ResaveFails
<1>3. /\ mem'[t] = [mem[t] EXCEPT !.ver = mem[t].ver + 1]
      /\ \A u \in Tabs \ {t} : mem'[u] = mem[u]
  BY <1>2, MemDomain
<1>4. mem'[t].ver = mem[t].ver + 1
  BY <1>1, <1>3 DEF State
<1>5. status'[t] = "open" /\ \A u \in Tabs \ {t} : status'[u] = status[u]
  BY DEF ResaveFails, TypeInv, TypeOK
<1> QED BY <1>3, <1>4, <1>5 DEF ResaveFails

LEMMA ResaveRefusedEffect ==
  ASSUME TypeInv, NEW t \in Tabs, ResaveRefused(t)
  PROVE  /\ status[t] = "resaving" /\ status'[t] = "failed"
         /\ \A u \in Tabs \ {t} : status'[u] = status[u]
         /\ UNCHANGED <<backend, file, ledger, lock, late, mem, snap, cache, observed, op,
                        past, tampered>>
BY DEF ResaveRefused, TypeInv, TypeOK

LEMMA CloseTabs ==
  ASSUME TypeInv, NEW t \in Tabs, Close(t)
  PROVE  /\ status'[t] = "closed" /\ \A u \in Tabs \ {t} : status'[u] = status[u]
         /\ mem'[t] = Blank /\ \A u \in Tabs \ {t} : mem'[u] = mem[u]
         /\ snap'[t] = NoState /\ \A u \in Tabs \ {t} : snap'[u] = snap[u]
         /\ cache'[t] = NotCached /\ \A u \in Tabs \ {t} : cache'[u] = cache[u]
         /\ observed'[t] = 0 /\ \A u \in Tabs \ {t} : observed'[u] = observed[u]
         /\ UNCHANGED <<backend, file, ledger, late, past, tampered>>
<1>1. /\ status'[t] = "closed" /\ \A u \in Tabs \ {t} : status'[u] = status[u]
      /\ mem'[t] = Blank /\ \A u \in Tabs \ {t} : mem'[u] = mem[u]
      /\ snap'[t] = NoState /\ \A u \in Tabs \ {t} : snap'[u] = snap[u]
  BY DEF Close, TypeInv, TypeOK
<1>2. /\ cache'[t] = NotCached /\ \A u \in Tabs \ {t} : cache'[u] = cache[u]
      /\ observed'[t] = 0 /\ \A u \in Tabs \ {t} : observed'[u] = observed[u]
  BY DEF Close, TypeInv, TypeOK
<1>3. UNCHANGED <<backend, file, ledger, late, past, tampered>>
  BY DEF Close
<1> QED BY <1>1, <1>2, <1>3

LEMMA CloseOps ==
  ASSUME NEW t \in Tabs, Close(t)
  PROVE  /\ \A o \in InFlight(t) : op'[o] = At("lost") /\ op'[o].pc = "lost"
         /\ \A o \in Ops \ InFlight(t) : op'[o] = op[o]
         /\ MayCrash \/ InFlight(t) = {}
<1>1. \A o \in Ops : op'[o] = IF o \in InFlight(t) THEN At("lost") ELSE op[o]
  BY DEF Close
<1>2. MayCrash \/ InFlight(t) = {}
  BY DEF Close
<1>3. InFlight(t) \subseteq Ops
  BY DEF InFlight
<1>4. At("lost").pc = "lost"
  BY DEF At
<1> QED BY <1>1, <1>2, <1>3, <1>4

-----------------------------------------------------------------------------
(* A tab that awaits its operations runs one at a time, in whatever tab and *)
(* on whatever backend, crashes included.                                   *)
AwaitInv == TypeInv /\ OneAtATime

LEMMA AwaitStep == ~Overlap /\ AwaitInv /\ [Next]_vars => AwaitInv'
<1> SUFFICES ASSUME ~Overlap, AwaitInv, [Next]_vars PROVE AwaitInv'
  OBVIOUS
<1>1. TypeInv /\ OneAtATime
  BY DEF AwaitInv
<1>2. CASE \E t \in Tabs : TabStep(t)
  <2>1. PICK t \in Tabs : TabStep(t)
    BY <1>2
  <2>2. TypeInv'
    BY <1>1, <2>1, TabStepType
  <2>3. CASE Close(t)
    <3>1. \A o \in Ops : op'[o].pc \in Running => op'[o] = op[o] /\ o \notin InFlight(t)
      BY <2>3, CloseOps DEF Running
    <3>2. \A o \in Ops : op'[o].pc \in Running => op[o].tab \in Tabs \ {t}
      BY <1>1, <3>1, RunningType DEF InFlight
    <3>3. \A u \in Tabs \ {t} : status'[u] = status[u]
      BY <1>1, <2>3, CloseTabs
    <3>4. OneAtATime'
      BY <1>1, <3>1, <3>2, <3>3 DEF OneAtATime
    <3> QED BY <2>2, <3>4 DEF AwaitInv
  <2>4. CASE ~Close(t)
    <3>1. status[t] # "open" /\ op' = op /\ \A u \in Tabs \ {t} : status'[u] = status[u]
      BY <1>1, <2>1, <2>4, OpenEffect, ResaveEffect, ResaveFailsEffect, ResaveRefusedEffect
         DEF TabStep
    <3>2. \A o \in Ops : op[o].pc \in Running => op[o].tab \in Tabs \ {t}
      BY <1>1, <3>1, RunningType DEF OneAtATime
    <3> QED BY <1>1, <2>2, <3>1, <3>2 DEF AwaitInv, OneAtATime
  <2> QED BY <2>3, <2>4
<1>3. CASE \E t \in Tabs, o \in Ops : Start(t, o)
  <2>1. PICK t \in Tabs, o \in Ops : Start(t, o)
    BY <1>3
  <2>2. TypeInv'
    BY <1>1, <2>1, StartType
  <2>3. /\ status[t] = "open" /\ InFlight(t) = {} /\ status' = status
        /\ op'[o].tab = t /\ \A p \in Ops \ {o} : op'[p] = op[p]
    BY <1>1, <2>1, StartFrame
  <2> QED BY <1>1, <2>2, <2>3 DEF AwaitInv, OneAtATime, InFlight
<1>4. CASE \E o \in Ops : Step(o)
  <2>1. PICK o \in Ops : Step(o)
    BY <1>4
  <2>2. TypeInv'
    BY <1>1, <2>1, StepType
  <2>3. /\ op[o].pc \in Running
        /\ op'[o].pc \in Running => op'[o].tab = op[o].tab
        /\ \A p \in Ops \ {o} : op'[p] = op[p]
        /\ status' = status
    BY <1>1, <2>1, StepFrame DEF SameRequest
  <2>4. OneAtATime'
    BY <1>1, <2>3 DEF OneAtATime
  <2> QED BY <2>2, <2>4 DEF AwaitInv
<1>5. CASE LateWriteLands \/ Tamper \/ Replay
  BY <1>1, <1>5, OutsideType DEF AwaitInv, OneAtATime, LateWriteLands, Tamper, Replay, perTab
<1>6. CASE UNCHANGED vars
  BY <1>1, <1>6, StutterType DEF AwaitInv, OneAtATime, vars
<1> QED BY <1>2, <1>3, <1>4, <1>5, <1>6 DEF Next

LEMMA AwaitInit == Init => AwaitInv
<1> SUFFICES ASSUME Init PROVE AwaitInv
  OBVIOUS
<1>1. \A o \in Ops : op[o].pc = "idle"
  BY DEF Init, At
<1> QED BY <1>1, InitType DEF AwaitInv, OneAtATime, Running

-----------------------------------------------------------------------------
(* Y-5: what a sole tab writes in time is a generation above the mark. *)

LEMMA SoleFrame ==
  ASSUME SoleTab, AwaitInv, NEW o \in Ops, op[o].pc \in Running
  PROVE  /\ \A u \in Tabs : u = op[o].tab
         /\ op[o].tab \in Tabs /\ status[op[o].tab] = "open"
         /\ \A p \in Ops \ {o} : op[p].pc \notin Running
         /\ mem[op[o].tab] \in State /\ mem[op[o].tab].ver \in Int
<1>1. op[o].tab \in Tabs /\ mem[op[o].tab] \in State
  BY RunningType DEF AwaitInv
<1>2. \A p \in Ops \ {o} : op[p].pc \in Running => op[p].tab \in Tabs
  BY RunningType DEF AwaitInv
<1> QED BY <1>1, <1>2, StateUpdate DEF SoleTab, AwaitInv, OneAtATime

(* For a sole tab the invariant is four facts about it and its operation. *)
LEMMA MarkFrame ==
  ASSUME SoleTab, AwaitInv', NEW t \in Tabs, NEW o \in Ops,
         \A p \in Ops \ {o} : op'[p].pc \notin Running,
         op'[o].pc \in Running => op'[o].tab = t,
         cache'[t] \in {NotCached, ledger'},
         status'[t] # "closed" => snap'[t] # NoState /\ mem'[t].ver >= snap'[t].ver,
         op'[o].pc \in Undoable => op'[o].prev.ver >= snap'[t].ver,
         op'[o].pc = "gated" => mem'[t].ver >= ledger',
         op'[o].pc \in {"bumped", "sealed"} => mem'[t].ver > ledger',
         op'[o].pc = "writing" => op'[o].image.ver > ledger'
  PROVE  MarkInv'
<1>1. \A u \in Tabs : u = t
  BY DEF SoleTab
<1>2. OneAtATime' /\ MarkCurrent'
  BY <1>1 DEF AwaitInv, MarkCurrent
<1>3. LiveNotOlder'
  <2>1. \A p \in Ops : op'[p].pc \in Undoable => p = o /\ op'[p].tab = t
    BY DEF Undoable, Running
  <2> QED BY <1>1, <2>1 DEF LiveNotOlder
<1>4. \A p \in Ops : Advancing(op[p], mem[op[p].tab])'
  <2>1. ASSUME NEW p \in Ops, p # o
        PROVE  op'[p].pc \notin {"gated", "bumped", "sealed", "writing"}
    BY <2>1 DEF Running
  <2>2. op'[o].pc \in {"gated", "bumped", "sealed", "writing"} => op'[o].tab = t
    BY DEF Running
  <2> QED BY <2>1, <2>2 DEF Advancing
<1> QED BY <1>2, <1>3, <1>4 DEF MarkInv

LEMMA MarkInit == Init => MarkInv
<1> SUFFICES ASSUME Init PROVE MarkInv
  OBVIOUS
<1>1. \A o \in Ops : op[o].pc = "idle"
  BY DEF Init, At
<1>2. OneAtATime
  BY AwaitInit DEF AwaitInv
<1>3. MarkCurrent /\ LiveNotOlder
  BY <1>1 DEF Init, MarkCurrent, LiveNotOlder, Undoable
<1> QED BY <1>1, <1>2, <1>3 DEF MarkInv, Advancing

LEMMA MarkStep ==
  ASSUME SoleTab, "mirror" \notin Backends, AwaitInv, AwaitInv', MarkInv, NEW o \in Ops, Step(o)
  PROVE  MarkInv'
<1> DEFINE t == op[o].tab
<1>1. /\ op[o].pc \in Running /\ t \in Tabs /\ status' = status /\ status[t] = "open"
      /\ \A p \in Ops \ {o} : op'[p].pc \notin Running
      /\ op'[o].pc \in Running => op'[o].tab = t
      /\ \A u \in Tabs : u = t
      /\ mem[t] \in State /\ mem[t].ver \in Int
  BY StepFrame, SoleFrame DEF AwaitInv, SameRequest
<1>2. /\ cache[t] \in {NotCached, ledger} /\ ledger \in Int
      /\ snap[t] # NoState /\ snap[t] \in State /\ snap[t].ver \in Int
      /\ mem[t].ver >= snap[t].ver
      /\ op[o].pc \in Undoable => op[o].prev.ver >= snap[t].ver
      /\ Advancing(op[o], mem[t])
  <2>1. snap[t] # NoState /\ ledger \in Int /\ snap[t] \in State
    BY <1>1 DEF MarkInv, LiveNotOlder, AwaitInv, TypeInv, TypeOK
  <2> QED BY <1>1, <2>1, StateUpdate DEF MarkInv, MarkCurrent, LiveNotOlder
<1>3. CASE Mutate(o)
  <2>1. /\ op'[o].pc = "queued" /\ op'[o].prev = op[o].prev /\ op[o].pc \in Undoable
        /\ mem'[t].ver = mem[t].ver
        /\ UNCHANGED <<cache, ledger, snap>>
    BY <1>3, MutateEffect DEF AwaitInv, SameLocals, Undoable
  <2> QED BY <1>1, <1>2, <2>1, MarkFrame
<1>4. CASE Conflict(o) \/ Bar(o) \/ WriteFails(o) \/ WriteTimesOut(o)
  <2>1. PICK outcome \in Outcomes : Fail(o, outcome)
    BY <1>4 DEF Conflict, Bar, WriteFails, WriteTimesOut, Outcomes
  <2>2. UNCHANGED <<snap, cache, ledger>> /\ op[o].pc \in Undoable
    BY <1>4 DEF Conflict, Bar, WriteFails, WriteTimesOut, Undoable
  <2>3. op'[o].pc \notin Running /\ mem'[t] = op[o].prev
    BY <1>1, <2>1, FailEffect DEF AwaitInv, Outcomes, Running
  <2>4. op'[o].pc \notin Undoable /\ op'[o].pc \notin {"gated", "bumped", "sealed", "writing"}
    BY <2>3 DEF Undoable, Running
  <2> QED BY <1>1, <1>2, <2>2, <2>3, <2>4, MarkFrame
<1>5. CASE Gate(o)
  <2>1. /\ op[o].pc \in Undoable /\ op'[o].pc \in {"gated", "barred"}
        /\ op'[o].prev = op[o].prev /\ UNCHANGED <<mem, cache, ledger, snap>>
    <3>1. PICK pc \in {"gated", "barred"} : Goto(o, pc)
      BY <1>5 DEF Gate
    <3> QED BY <1>5, <3>1, GotoEffect DEF Gate, AwaitInv, SameLocals, Undoable, shared, perTab
  <2>2. snap[t].ver >= ledger
    <3>1. ~(Mark(t) > snap[t].ver)
      BY <1>2, <1>5 DEF Gate, StaleBaseline
    <3>2. Mark(t) = ledger
      BY <1>2 DEF Mark
    <3> QED BY <1>2, <3>1, <3>2
  <2>3. mem[t].ver >= ledger
    BY <1>1, <1>2, <2>2
  <2> QED BY <1>1, <1>2, <2>1, <2>3, MarkFrame
<1>6. CASE Bump(o)
  <2>1. /\ op[o].pc = "gated" /\ op'[o].pc = "bumped" /\ op'[o].prev = op[o].prev
        /\ mem'[t].ver = mem[t].ver + 1 /\ UNCHANGED <<cache, ledger, snap>>
    BY <1>6, BumpEffect DEF AwaitInv, SameLocals, shared
  <2>2. mem[t].ver >= ledger /\ op[o].prev.ver >= snap[t].ver
    BY <1>2, <2>1 DEF Advancing, Undoable
  <2>3. mem'[t].ver > ledger /\ mem'[t].ver >= snap[t].ver
    BY <1>1, <1>2, <2>1, <2>2
  <2> QED BY <1>1, <1>2, <2>1, <2>2, <2>3, MarkFrame
<1>7. CASE Seal(o)
  <2>1. /\ op[o].pc = "bumped" /\ op'[o].pc = "sealed" /\ op'[o].prev = op[o].prev
        /\ mem'[t].ver = mem[t].ver /\ UNCHANGED <<cache, ledger, snap>>
    BY <1>7, SealEffect DEF AwaitInv, shared
  <2>2. mem[t].ver > ledger /\ op[o].prev.ver >= snap[t].ver
    BY <1>2, <2>1 DEF Advancing, Undoable
  <2> QED BY <1>1, <1>2, <2>1, <2>2, MarkFrame
<1>8. CASE Attach(o)
  <2>1. /\ op[o].pc = "sealed" /\ op'[o].pc = "writing" /\ op'[o].prev = op[o].prev
        /\ mem'[t].ver = mem[t].ver /\ op'[o].image = mem'[t] /\ UNCHANGED <<cache, ledger, snap>>
    BY <1>8, AttachEffect DEF AwaitInv, shared
  <2>2. mem[t].ver > ledger /\ op[o].prev.ver >= snap[t].ver
    BY <1>2, <2>1 DEF Advancing, Undoable
  <2> QED BY <1>1, <1>2, <2>1, <2>2, MarkFrame
<1>9. CASE SealFails(o)
  <2>1. /\ op[o].pc \in {"bumped", "sealed"} /\ op'[o].pc = "writing" /\ op'[o].prev = op[o].prev
        /\ op'[o].image = mem[t] /\ UNCHANGED <<mem, cache, ledger, snap>>
    BY <1>9, SealFailsEffect DEF AwaitInv, shared, perTab
  <2>2. mem[t].ver > ledger /\ op[o].prev.ver >= snap[t].ver
    BY <1>2, <2>1 DEF Advancing, Undoable
  <2> QED BY <1>1, <1>2, <2>1, <2>2, MarkFrame
<1>10. CASE WriteLands(o)
  <2>1. op'[o].pc = "landed" /\ UNCHANGED <<mem, cache, ledger, snap>>
    BY <1>10, LandsEffect DEF AwaitInv, perTab
  <2> QED BY <1>1, <1>2, <2>1, MarkFrame DEF Undoable
<1>11. CASE Complete(o)
  <2>1. /\ Committed(t, mem[t]) /\ mem' = mem /\ op'[o].pc \in {"acked", "reading"}
    BY <1>11, CompleteEffect DEF AwaitInv
  <2>2. snap'[t] = mem[t] /\ cache'[t] \in {NotCached, ledger'}
    BY <1>1, <1>2, <2>1, CommittedEffect DEF AwaitInv
  <2>3. mem[t] # NoState /\ mem'[t].ver >= snap'[t].ver
    BY <1>1, <2>1, <2>2
  <2> QED BY <1>1, <2>1, <2>2, <2>3, MarkFrame DEF Undoable
<1>12. CASE ReadEmpty(o) \/ ReadVerdict(o)
  <2>1. op'[o].pc \in {"acked", "verified", "corrupt"} /\ UNCHANGED <<mem, cache, ledger, snap>>
    <3>1. CASE ReadEmpty(o)
      BY <3>1, ReadEmptyEffect DEF AwaitInv, shared, perTab
    <3>2. CASE ReadVerdict(o)
      <4>1. PICK pc \in {"verified", "corrupt"} : Goto(o, pc)
        BY <3>2 DEF ReadVerdict
      <4> QED BY <3>2, <4>1, GotoEffect DEF ReadVerdict, AwaitInv, shared, perTab
    <3> QED BY <1>12, <3>1, <3>2
  <2> QED BY <1>1, <1>2, <2>1, MarkFrame DEF Undoable
<1>13. CASE ReadEnds(o)
  <2>1. /\ op'[o].pc \in {"acked", "refused"} /\ snap'[t] = mem[t]
        /\ UNCHANGED <<mem, cache, ledger>>
    BY <1>13, ReadEndsEffect DEF AwaitInv, shared
  <2>2. mem[t] # NoState /\ mem'[t].ver >= snap'[t].ver
    BY <1>1, <2>1
  <2> QED BY <1>1, <1>2, <2>1, <2>2, MarkFrame DEF Undoable
<1> QED BY <1>3, <1>4, <1>5, <1>6, <1>7, <1>8, <1>9, <1>10, <1>11, <1>12, <1>13 DEF Step

(* ... and two when it runs none. *)
LEMMA MarkIdle ==
  ASSUME SoleTab, AwaitInv', NEW t \in Tabs,
         \A p \in Ops : op'[p].pc \notin Running,
         cache'[t] \in {NotCached, ledger'},
         status'[t] # "closed" => snap'[t] # NoState /\ mem'[t].ver >= snap'[t].ver
  PROVE  MarkInv'
<1>1. \A u \in Tabs : u = t
  BY DEF SoleTab
<1>2. OneAtATime' /\ MarkCurrent'
  BY <1>1 DEF AwaitInv, MarkCurrent
<1>3. \A p \in Ops : op'[p].pc \notin Undoable
  BY DEF Undoable, Running
<1>4. LiveNotOlder'
  BY <1>1, <1>3 DEF LiveNotOlder
<1>5. \A p \in Ops : op'[p].pc \notin {"gated", "bumped", "sealed", "writing"}
  BY DEF Running
<1>6. \A p \in Ops : Advancing(op[p], mem[op[p].tab])'
  BY <1>5 DEF Advancing
<1> QED BY <1>2, <1>4, <1>6 DEF MarkInv

(* No operation runs while a sole tab is anything but open. *)
LEMMA SoleIdle ==
  ASSUME SoleTab, AwaitInv, NEW t \in Tabs, status[t] # "open" \/ InFlight(t) = {}
  PROVE  \A p \in Ops : op[p].pc \notin Running
<1>1. \A p \in Ops : op[p].pc \in Running => op[p].tab = t
  BY RunningType DEF AwaitInv, SoleTab
<1> QED BY <1>1 DEF AwaitInv, OneAtATime, InFlight

LEMMA MarkStart ==
  ASSUME SoleTab, ~Overlap, AwaitInv, AwaitInv', MarkInv, NEW t \in Tabs, NEW o \in Ops, Start(t, o)
  PROVE  MarkInv'
<1>1. /\ status[t] = "open" /\ InFlight(t) = {} /\ op'[o].tab = t
      /\ \A p \in Ops \ {o} : op'[p] = op[p]
      /\ UNCHANGED <<ledger, status, snap, cache>>
  BY StartFrame DEF AwaitInv
<1>2. \A p \in Ops \ {o} : op'[p].pc \notin Running
  BY <1>1, SoleIdle
<1>3. /\ op'[o].pc \in {"encrypting", "queued", "reading"}
      /\ op'[o].pc # "reading" => op'[o].prev = mem[t]
      /\ mem'[t].ver = mem[t].ver
  BY StartBrief DEF AwaitInv
<1>4. cache[t] \in {NotCached, ledger} /\ snap[t] # NoState /\ mem[t].ver >= snap[t].ver
  BY <1>1 DEF MarkInv, MarkCurrent, LiveNotOlder
<1>5. op'[o].pc \in Undoable => op'[o].prev.ver >= snap'[t].ver
  BY <1>1, <1>3, <1>4 DEF Undoable
<1> QED BY <1>1, <1>2, <1>3, <1>4, <1>5, MarkFrame

LEMMA MarkTab ==
  ASSUME SoleTab, "mirror" \notin Backends, AwaitInv, AwaitInv', MarkInv, NEW t \in Tabs, TabStep(t)
  PROVE  MarkInv'
<1>1. /\ cache[t] \in {NotCached, ledger} /\ file \in State /\ mem[t] \in State
      /\ mem[t].ver \in Int /\ backend # "mirror"
      /\ status[t] # "closed" => snap[t] \in State /\ snap[t].ver \in Int
  <2>1. mem[t] \in State /\ file \in State /\ backend # "mirror"
        /\ snap[t] \in State \cup {NoState}
    BY DEF AwaitInv, TypeInv, TypeOK
  <2> QED BY <2>1, StateUpdate DEF MarkInv, MarkCurrent, LiveNotOlder
<1>2. CASE Close(t)
  <2>1. \A p \in Ops : op'[p].pc \notin Running
    <3>1. \A p \in Ops \ InFlight(t) : op[p].pc \notin Running
      BY RunningType DEF AwaitInv, SoleTab, InFlight
    <3> QED BY <1>2, <3>1, CloseOps DEF Running
  <2>2. cache'[t] = NotCached /\ status'[t] = "closed"
    BY <1>2, CloseTabs DEF AwaitInv
  <2> QED BY <2>1, <2>2, MarkIdle
<1>3. CASE Open(t)
  <2>1. /\ status[t] # "open" /\ op' = op /\ mem'[t] = file /\ snap'[t] = file
        /\ UNCHANGED <<cache, ledger>>
    BY <1>1, <1>3, OpenEffect DEF AwaitInv
  <2>2. file # NoState /\ file.ver >= file.ver
    BY <1>1, StateUpdate
  <2> QED BY <1>1, <2>1, <2>2, SoleIdle, MarkIdle
<1>4. CASE ResaveRefused(t)
  <2>1. status[t] = "resaving" /\ UNCHANGED <<op, mem, snap, cache, ledger>>
    BY <1>4, ResaveRefusedEffect DEF AwaitInv
  <2>2. snap[t] # NoState /\ mem[t].ver >= snap[t].ver
    BY <2>1 DEF MarkInv, LiveNotOlder
  <2> QED BY <1>1, <2>1, <2>2, SoleIdle, MarkIdle
<1>5. CASE ResaveFails(t)
  <2>1. /\ status[t] = "resaving" /\ UNCHANGED <<op, snap, cache, ledger>>
        /\ mem'[t].ver = mem[t].ver + 1
    BY <1>5, ResaveFailsEffect DEF AwaitInv
  <2>2. snap[t] # NoState /\ mem[t].ver >= snap[t].ver
    BY <2>1 DEF MarkInv, LiveNotOlder
  <2>3. mem'[t].ver >= snap'[t].ver
    BY <1>1, <2>1, <2>2
  <2> QED BY <1>1, <2>1, <2>2, <2>3, SoleIdle, MarkIdle
<1>6. CASE Resave(t)
  <2>1. status[t] = "resaving" /\ op' = op /\ mem'[t] \in State /\ Committed(t, mem'[t])
    BY <1>6, ResaveEffect DEF AwaitInv
  <2>2. snap'[t] = mem'[t] /\ cache'[t] \in {NotCached, ledger'}
    BY <1>1, <2>1, CommittedEffect DEF AwaitInv
  <2>3. mem'[t] # NoState /\ mem'[t].ver \in Int
    BY <2>1, StateUpdate
  <2> QED BY <2>1, <2>2, <2>3, SoleIdle, MarkIdle
<1> QED BY <1>2, <1>3, <1>4, <1>5, <1>6 DEF TabStep

(* Where one tab uses the vault, with a baseline and awaiting its operations. *)
SoleReader == SoleTab /\ Awaited

LEMMA MarkNext ==
  ASSUME SoleReader, AwaitInv, AwaitInv', MarkInv, [Next]_vars
  PROVE  MarkInv'
<1>1. SoleTab /\ ~Overlap /\ "mirror" \notin Backends
  BY DEF SoleReader, Awaited
<1>2. CASE \E t \in Tabs : TabStep(t)
  BY <1>1, <1>2, MarkTab
<1>3. CASE \E t \in Tabs, o \in Ops : Start(t, o)
  BY <1>1, <1>3, MarkStart
<1>4. CASE \E o \in Ops : Step(o)
  BY <1>1, <1>4, MarkStep
<1>5. CASE LateWriteLands \/ Tamper \/ Replay \/ UNCHANGED vars
  <2>1. UNCHANGED <<ledger, status, mem, snap, cache, op>>
    BY <1>5 DEF LateWriteLands, Tamper, Replay, perTab, vars
  <2> QED BY <2>1 DEF MarkInv, OneAtATime, MarkCurrent, LiveNotOlder, Advancing
<1> QED BY <1>2, <1>3, <1>4, <1>5 DEF Next

THEOREM MarkInductive == SoleReader => (Spec => [](AwaitInv /\ MarkInv))
<1> SUFFICES ASSUME SoleReader PROVE Spec => [](AwaitInv /\ MarkInv)
  OBVIOUS
<1>1. Init => AwaitInv /\ MarkInv
  BY AwaitInit, MarkInit
<1>2. AwaitInv /\ MarkInv /\ [Next]_vars => (AwaitInv /\ MarkInv)'
  BY AwaitStep, MarkNext DEF SoleReader, Awaited
<1> QED BY <1>1, <1>2, PTL DEF Spec

(* Y-5: where one tab with a baseline uses the vault, a write that lands     *)
(* while its operation waits for it puts a generation above the mark into    *)
(* the file, whatever crashes, failed signatures, late OPFS writers and      *)
(* other programs have done before.  What a late OPFS writer itself puts     *)
(* there (LateWriteLands) is not meant: that may be at the mark or below it. *)
THEOREM AwaitedWritesAdvance == SoleReader => (Spec => WritesAdvanceTheMark)
<1> SUFFICES ASSUME SoleReader PROVE Spec => WritesAdvanceTheMark
  OBVIOUS
<1>1. AwaitInv /\ MarkInv /\ [Next]_vars
        => [\A o \in Ops : WriteLands(o) => op[o].image.ver > ledger]_vars
  BY DEF MarkInv, Advancing, WriteLands
<1> QED BY <1>1, MarkInductive, PTL DEF Spec, WritesAdvanceTheMark

-----------------------------------------------------------------------------
(* The tab of a desktop build follows the file. *)

LEMMA FollowFrame ==
  ASSUME SoleTab, AwaitInv', Settled', NEW t \in Tabs, NEW o \in Ops,
         \A p \in Ops \ {o} : op'[p].pc \notin Running,
         op'[o].pc \in Running => op'[o].tab = t,
         ~tampered' /\ op'[o].pc \in Running => Follows(op[o], mem[t], snap[t])',
         ~tampered' /\ status'[t] = "open" /\ op'[o].pc \notin Running
           => mem'[t] = file' /\ snap'[t] = file'
  PROVE  FollowInv'
<1>1. \A u \in Tabs : u = t
  BY DEF SoleTab
<1>2. \A p \in Ops : p \in InFlight(t)' <=> p = o /\ op'[o].pc \in Running
  BY DEF InFlight
<1>3. InFlight(t)' = {} => op'[o].pc \notin Running
  BY <1>2
<1>4. ASSUME ~tampered' PROVE TabFollowsFile'
  <2>1. ASSUME status'[t] = "open"
        PROVE  /\ InFlight(t)' = {} => mem'[t] = file' /\ snap'[t] = file'
               /\ \A p \in InFlight(t)' : Follows(op[p], mem[t], snap[t])'
    <3>1. InFlight(t)' = {} => mem'[t] = file' /\ snap'[t] = file'
      BY <1>3, <1>4, <2>1
    <3>2. ASSUME NEW p \in InFlight(t)' PROVE Follows(op[p], mem[t], snap[t])'
      <4>1. p = o /\ op'[o].pc \in Running
        BY <1>2 DEF InFlight
      <4> QED BY <1>4, <4>1
    <3> QED BY <3>1, <3>2
  <2> QED BY <1>1, <2>1 DEF TabFollowsFile
<1> QED BY <1>4 DEF FollowInv, AwaitInv

LEMMA FollowInit == Init => FollowInv
<1> SUFFICES ASSUME Init PROVE FollowInv
  OBVIOUS
<1>1. OneAtATime
  BY AwaitInit DEF AwaitInv
<1>2. Settled /\ TabFollowsFile
  BY DEF Init, Settled, TabFollowsFile
<1> QED BY <1>1, <1>2 DEF FollowInv

LEMMA SettledStep ==
  ASSUME "opfs" \notin Backends, AwaitInv, Settled, [Next]_vars
  PROVE  Settled'
<1>1. backend # "opfs"
  BY DEF AwaitInv, TypeInv, TypeOK
<1>2. CASE \E t \in Tabs : TabStep(t)
  <2>1. PICK t \in Tabs : TabStep(t)
    BY <1>2
  <2>2. status[t] # "resaving"
    BY DEF Settled
  <2>3. Open(t) \/ Close(t)
    BY <2>1, <2>2 DEF TabStep, ResaveRefused, Resave, ResaveFails
  <2>4. late' = late /\ status'[t] \in {"closed", "open"}
        /\ \A u \in Tabs \ {t} : status'[u] = status[u]
    BY <1>1, <2>3, OpenEffect, CloseTabs DEF AwaitInv
  <2> QED BY <2>4 DEF Settled
<1>3. CASE \E t \in Tabs, o \in Ops : Start(t, o)
  <2>1. PICK t \in Tabs, o \in Ops : Start(t, o)
    BY <1>3
  <2>2. late' = late /\ status' = status
    BY <2>1, StartFrame DEF AwaitInv
  <2> QED BY <2>2 DEF Settled
<1>4. CASE \E o \in Ops : Step(o)
  <2>1. PICK o \in Ops : Step(o)
    BY <1>4
  <2>2. status' = status
    BY <2>1, StepFrame DEF AwaitInv
  <2>3. late' = late
    <3>1. CASE Mutate(o) \/ Conflict(o) \/ Gate(o) \/ Bar(o) \/ Bump(o) \/ Seal(o) \/ SealFails(o)
      BY <3>1 DEF Mutate, Conflict, Gate, Bar, Bump, Seal, SealFails, shared
    <3>2. CASE Attach(o) \/ WriteLands(o) \/ WriteFails(o) \/ Complete(o)
      BY <3>2 DEF Attach, WriteLands, WriteFails, Complete, shared
    <3>3. CASE WriteTimesOut(o)
      BY <1>1, <3>3 DEF WriteTimesOut
    <3>4. CASE ReadEmpty(o) \/ ReadVerdict(o) \/ ReadEnds(o)
      BY <3>4 DEF ReadEmpty, ReadVerdict, ReadEnds, shared
    <3> QED BY <2>1, <3>1, <3>2, <3>3, <3>4 DEF Step
  <2> QED BY <2>2, <2>3 DEF Settled
<1>5. CASE LateWriteLands
  BY <1>5 DEF LateWriteLands, Settled
<1>6. CASE Tamper \/ Replay \/ UNCHANGED vars
  BY <1>6 DEF Tamper, Replay, perTab, vars, Settled
<1> QED BY <1>2, <1>3, <1>4, <1>5, <1>6 DEF Next

LEMMA FollowStep ==
  ASSUME SoleDesktop, AwaitInv, AwaitInv', Settled', FollowInv, NEW o \in Ops, Step(o)
  PROVE  FollowInv'
<1>0. PICK t \in Tabs : op[o].tab = t
  BY StepFrame DEF AwaitInv
<1>1. /\ op[o].pc \in Running /\ op[o].tab = t /\ status[t] = "open"
      /\ \A p \in Ops \ {o} : op'[p].pc \notin Running
      /\ op'[o].pc \in Running => op'[o].tab = t
      /\ SoleTab /\ backend = "native" /\ tampered' = tampered
  BY <1>0, StepFrame, SoleFrame DEF AwaitInv, SameRequest, SoleDesktop, TypeInv, TypeOK
<1>2. ~tampered => Follows(op[o], mem[t], snap[t])
  BY <1>1 DEF FollowInv, TabFollowsFile, InFlight
<1> SUFFICES ASSUME ~tampered
             PROVE  /\ op'[o].pc \in Running => Follows(op[o], mem[t], snap[t])'
                    /\ op'[o].pc \notin Running => mem'[t] = file' /\ snap'[t] = file'
  BY <1>1, FollowFrame
<1>3. CASE Mutate(o)
  <2>1. /\ op[o].pc = "encrypting" /\ op'[o].pc = "queued" /\ op'[o].prev = op[o].prev
        /\ UNCHANGED <<file, snap>>
    BY <1>1, <1>3, MutateEffect DEF AwaitInv, SameLocals
  <2> QED BY <1>2, <2>1 DEF Follows, Undoable, Running
<1>4. CASE Conflict(o) \/ Bar(o) \/ WriteFails(o)
  <2>1. PICK outcome \in Outcomes : Fail(o, outcome)
    BY <1>4 DEF Conflict, Bar, WriteFails, Outcomes
  <2>2. UNCHANGED <<snap, file>> /\ op[o].pc \in Undoable
    BY <1>4 DEF Conflict, Bar, WriteFails, Undoable
  <2>3. op'[o].pc \notin Running /\ mem'[t] = op[o].prev
    BY <1>1, <2>1, FailEffect DEF AwaitInv, Outcomes, Running
  <2> QED BY <1>2, <2>2, <2>3 DEF Follows
<1>5. CASE WriteTimesOut(o)
  BY <1>1, <1>5 DEF WriteTimesOut
<1>6. CASE Gate(o)
  <2>1. PICK pc \in {"gated", "barred"} : Goto(o, pc)
    BY <1>6 DEF Gate
  <2>2. /\ op[o].pc = "queued" /\ op'[o].pc \in {"gated", "barred"} /\ op'[o].prev = op[o].prev
        /\ UNCHANGED <<file, snap>>
    BY <1>6, <2>1, GotoEffect DEF Gate, AwaitInv, SameLocals, shared, perTab
  <2> QED BY <1>2, <2>2 DEF Follows, Undoable, Running
<1>7. CASE Bump(o)
  <2>1. /\ op[o].pc = "gated" /\ op'[o].pc = "bumped" /\ op'[o].prev = op[o].prev
        /\ UNCHANGED <<file, snap>>
    BY <1>1, <1>7, BumpEffect DEF AwaitInv, SameLocals, shared
  <2> QED BY <1>2, <2>1 DEF Follows, Undoable, Running
<1>8. CASE Seal(o)
  <2>1. /\ op[o].pc = "bumped" /\ op'[o].pc = "sealed" /\ op'[o].prev = op[o].prev
        /\ UNCHANGED <<file, snap>>
    BY <1>1, <1>8, SealEffect DEF AwaitInv, shared
  <2> QED BY <1>2, <2>1 DEF Follows, Undoable, Running
<1>9. CASE Attach(o)
  <2>1. /\ op[o].pc = "sealed" /\ op'[o].pc = "writing" /\ op'[o].prev = op[o].prev
        /\ op'[o].image = mem'[t] /\ UNCHANGED <<file, snap>>
    BY <1>1, <1>9, AttachEffect DEF AwaitInv, shared
  <2> QED BY <1>2, <2>1 DEF Follows, Undoable, Running
<1>10. CASE SealFails(o)
  <2>1. /\ op[o].pc \in {"bumped", "sealed"} /\ op'[o].pc = "writing"
        /\ op'[o].prev = op[o].prev /\ op'[o].image = mem[t] /\ UNCHANGED <<file, mem, snap>>
    BY <1>1, <1>10, SealFailsEffect DEF AwaitInv, shared, perTab
  <2> QED BY <1>2, <2>1 DEF Follows, Undoable, Running
<1>11. CASE WriteLands(o)
  <2>1. /\ op[o].pc = "writing" /\ op'[o].pc = "landed" /\ file' = op[o].image
        /\ UNCHANGED <<mem, snap>>
    BY <1>1, <1>11, LandsEffect DEF AwaitInv, perTab
  <2> QED BY <1>2, <2>1 DEF Follows, Undoable, Running
<1>12. CASE Complete(o)
  <2>1. /\ op[o].pc = "landed" /\ Committed(t, mem[t]) /\ UNCHANGED <<file, mem>>
        /\ op'[o].pc \in {"acked", "reading"}
    BY <1>1, <1>12, CompleteEffect DEF AwaitInv
  <2>2. snap'[t] = mem[t] /\ mem[t] = file
    BY <1>1, <1>2, <2>1, CommittedEffect DEF AwaitInv, TypeInv, TypeOK, Follows
  <2> QED BY <2>1, <2>2 DEF Follows, Undoable
<1>13. CASE ReadEmpty(o)
  <2>1. op[o].pc = "reading" /\ op'[o].pc = "acked" /\ UNCHANGED <<file, mem, snap>>
    BY <1>1, <1>13, ReadEmptyEffect DEF AwaitInv, shared, perTab
  <2> QED BY <1>2, <2>1 DEF Follows, Running
<1>14. CASE ReadVerdict(o)
  <2>1. PICK pc \in {"verified", "corrupt"} : Goto(o, pc)
    BY <1>14 DEF ReadVerdict
  <2>2. op[o].pc = "reading" /\ op'[o].pc \in {"verified", "corrupt"} /\ UNCHANGED <<file, mem, snap>>
    BY <1>14, <2>1, GotoEffect DEF ReadVerdict, AwaitInv, shared, perTab
  <2> QED BY <1>2, <2>2 DEF Follows, Undoable, Running
<1>15. CASE ReadEnds(o)
  <2>1. /\ op[o].pc \in {"verified", "corrupt"} /\ op'[o].pc \in {"acked", "refused"}
        /\ snap'[t] = mem[t] /\ UNCHANGED <<file, mem>>
    BY <1>1, <1>15, ReadEndsEffect DEF AwaitInv, shared
  <2> QED BY <1>2, <2>1 DEF Follows, Running
<1> QED BY <1>3, <1>4, <1>5, <1>6, <1>7, <1>8, <1>9, <1>10, <1>11, <1>12, <1>13, <1>14, <1>15
        DEF Step

LEMMA FollowStart ==
  ASSUME SoleDesktop, AwaitInv, AwaitInv', Settled', FollowInv,
         NEW t \in Tabs, NEW o \in Ops, Start(t, o)
  PROVE  FollowInv'
<1>1. /\ SoleTab /\ status[t] = "open" /\ InFlight(t) = {} /\ op'[o].tab = t
      /\ \A p \in Ops \ {o} : op'[p] = op[p]
      /\ UNCHANGED <<file, snap, tampered>>
  BY StartFrame DEF AwaitInv, SoleDesktop
<1>2. \A p \in Ops \ {o} : op'[p].pc \notin Running
  BY <1>1, SoleIdle
<1>3. ~tampered => mem[t] = file /\ snap[t] = file
  BY <1>1 DEF FollowInv, TabFollowsFile
<1>4. /\ op'[o].pc \in {"encrypting", "queued", "reading"}
      /\ op'[o].pc # "reading" => op'[o].prev = mem[t]
      /\ op'[o].pc # "queued" => mem' = mem
  BY StartBrief DEF AwaitInv
<1>5. ~tampered => Follows(op[o], mem[t], snap[t])'
  BY <1>1, <1>3, <1>4 DEF Follows, Undoable
<1>6. op'[o].pc \in Running
  BY <1>4 DEF Running
<1> QED BY <1>1, <1>2, <1>5, <1>6, FollowFrame

LEMMA FollowTab ==
  ASSUME SoleDesktop, AwaitInv, AwaitInv', Settled, Settled', FollowInv,
         NEW t \in Tabs, TabStep(t)
  PROVE  FollowInv'
<1>1. SoleTab /\ backend = "native" /\ status[t] # "resaving"
  BY DEF SoleDesktop, AwaitInv, TypeInv, TypeOK, Settled
<1>2. \A u \in Tabs : u = t
  BY <1>1 DEF SoleTab
<1>3. CASE Open(t)
  <2>1. /\ status[t] = "closed" /\ op' = op /\ mem'[t] = file /\ snap'[t] = file /\ file' = file
    BY <1>1, <1>3, OpenEffect DEF AwaitInv
  <2>2. \A p \in Ops : op[p].pc \notin Running
    BY <1>1, <2>1, SoleIdle
  <2>3. InFlight(t)' = {}
    BY <2>1, <2>2 DEF InFlight
  <2>4. TabFollowsFile'
    BY <1>2, <2>1, <2>3 DEF TabFollowsFile
  <2> QED BY <2>4 DEF FollowInv, AwaitInv
<1>4. CASE Close(t)
  <2>1. status'[t] = "closed"
    BY <1>4, CloseTabs DEF AwaitInv
  <2>2. TabFollowsFile'
    BY <1>2, <2>1 DEF TabFollowsFile
  <2> QED BY <2>2 DEF FollowInv, AwaitInv
<1> QED BY <1>1, <1>3, <1>4 DEF TabStep, ResaveRefused, Resave, ResaveFails

LEMMA FollowNext ==
  ASSUME SoleDesktop, AwaitInv, AwaitInv', FollowInv, [Next]_vars
  PROVE  FollowInv'
<1>1. Settled /\ Settled'
  BY SettledStep DEF FollowInv, SoleDesktop
<1>2. CASE \E t \in Tabs : TabStep(t)
  BY <1>1, <1>2, FollowTab
<1>3. CASE \E t \in Tabs, o \in Ops : Start(t, o)
  BY <1>1, <1>3, FollowStart
<1>4. CASE \E o \in Ops : Step(o)
  BY <1>1, <1>4, FollowStep
<1>5. CASE LateWriteLands
  BY <1>1, <1>5 DEF LateWriteLands, Settled
<1>6. CASE Tamper \/ Replay
  <2>1. tampered'
    BY <1>6 DEF Tamper, Replay
  <2> QED BY <1>1, <2>1 DEF FollowInv, AwaitInv
<1>7. CASE UNCHANGED vars
  <2>1. UNCHANGED <<file, status, mem, snap, op, tampered>>
    BY <1>7 DEF vars
  <2> QED BY <1>1, <2>1 DEF FollowInv, AwaitInv, TabFollowsFile, InFlight, Follows
<1> QED BY <1>2, <1>3, <1>4, <1>5, <1>6, <1>7 DEF Next

THEOREM FollowInductive == SoleDesktop => (Spec => [](AwaitInv /\ FollowInv))
<1> SUFFICES ASSUME SoleDesktop PROVE Spec => [](AwaitInv /\ FollowInv)
  OBVIOUS
<1>1. Init => AwaitInv /\ FollowInv
  BY AwaitInit, FollowInit
<1>2. AwaitInv /\ FollowInv /\ [Next]_vars => (AwaitInv /\ FollowInv)'
  BY AwaitStep, FollowNext DEF SoleDesktop
<1> QED BY <1>1, <1>2, PTL DEF Spec

(* Nobody else writes the file. *)
LEMMA UntouchedStep ==
  ASSUME ~MayTamper, ~tampered, [Next]_vars
  PROVE  ~tampered'
<1>1. CASE \E t \in Tabs : TabStep(t)
  BY <1>1 DEF TabStep, Open, ResaveRefused, Resave, ResaveFails, Close
<1>2. CASE \E t \in Tabs, o \in Ops : Start(t, o)
  BY <1>2 DEF Start, BeginWrite, BeginPurge, BeginTrash, BeginRead, history
<1>3. CASE \E o \in Ops : Step(o)
  <2>1. PICK o \in Ops : Step(o)
    BY <1>3
  <2>2. CASE Mutate(o) \/ Conflict(o) \/ Gate(o) \/ Bar(o) \/ Bump(o) \/ Seal(o) \/ SealFails(o)
    BY <2>2 DEF Mutate, Conflict, Gate, Bar, Bump, Seal, SealFails, history
  <2>3. CASE Attach(o) \/ WriteLands(o) \/ WriteFails(o) \/ WriteTimesOut(o) \/ Complete(o)
    BY <2>3 DEF Attach, WriteLands, WriteFails, WriteTimesOut, Complete, history
  <2>4. CASE ReadEmpty(o) \/ ReadVerdict(o) \/ ReadEnds(o)
    BY <2>4 DEF ReadEmpty, ReadVerdict, ReadEnds, history
  <2> QED BY <2>1, <2>2, <2>3, <2>4 DEF Step
<1>4. CASE LateWriteLands \/ Tamper \/ Replay \/ UNCHANGED vars
  BY <1>4 DEF LateWriteLands, Tamper, Replay, vars
<1> QED BY <1>1, <1>2, <1>3, <1>4 DEF Next

LEMMA Untouched == ~MayTamper => (Spec => []~tampered)
<1> SUFFICES ASSUME ~MayTamper PROVE Spec => []~tampered
  OBVIOUS
<1>1. Init => ~tampered
  BY DEF Init
<1>2. ~tampered /\ [Next]_vars => ~tampered'
  BY UntouchedStep
<1> QED BY <1>1, <1>2, PTL DEF Spec

(* On a desktop build, after any failures, crashes and unsigned saves, a tab *)
(* that runs no operation holds exactly the durable file.                    *)
THEOREM IdleTabsHoldTheFile == SoleDesktop /\ ~MayTamper => (Spec => []IdleTabHoldsTheFile)
<1> SUFFICES ASSUME SoleDesktop, ~MayTamper PROVE Spec => []IdleTabHoldsTheFile
  OBVIOUS
<1>1. FollowInv /\ ~tampered => IdleTabHoldsTheFile
  BY DEF FollowInv, TabFollowsFile, IdleTabHoldsTheFile
<1> QED BY <1>1, FollowInductive, Untouched, PTL

-----------------------------------------------------------------------------
(* A file that only the repository has written is healthy.                  *)

(* What a tag covers does not depend on the tag the state has now. *)
LEMMA SameSignature ==
  ASSUME NEW s, NEW u, s.rows = u.rows, s.ver = u.ver, s.sealedAt = u.sealedAt
  PROVE  /\ SignV2(s, Key) = SignV2(u, Key)
         /\ s.sealedAt = NoSeal => SignV1(s, Key) = SignV1(u, Key)
BY DEF SignV2, SignV1, Content

LEMMA FirstFile ==
  ASSUME NEW start \in InitialFiles
  PROVE  /\ start[1].ver = SetupVersion /\ Healthy(start[1])
         /\ start[2] \in {0, SetupVersion} /\ (start[2] > 0 => HasTag(start[1]))
         /\ start[1].rows = <<>> \/ \E i \in Ids : start[1].rows = <<[id |-> i, val |-> Seed]>>
<1> DEFINE empty == FreshFile(<<>>)
           some  == {FreshFile(<<[id |-> i, val |-> Seed]>>) : i \in Ids}
           bind(s) == [s EXCEPT !.sealedAt = s.ver]
           seal(s) == [bind(s) EXCEPT !.tag = SignV2(bind(s), Key)]
           sealV1(s) == [s EXCEPT !.tag = SignV1(s, Key)]
           First(s, rows) == s \in State /\ s.ver = SetupVersion /\ s.sealedAt = NoSeal
                               /\ ~HasTag(s) /\ s.rows = rows
<1>1. First(empty, <<>>)
  <2>1. empty \in State
    BY BlankType DEF Blank
  <2> QED BY <2>1, NoTagType DEF FreshFile, SetupVersion, HasTag
<1>2. ASSUME NEW i \in Ids
      PROVE  First(FreshFile(<<[id |-> i, val |-> Seed]>>), <<[id |-> i, val |-> Seed]>>)
  <2>1. [id |-> i, val |-> Seed] \in Row
    BY RowType
  <2>2. <<[id |-> i, val |-> Seed]>> \in Seq(Row)
    BY <2>1
  <2>3. FreshFile(<<[id |-> i, val |-> Seed]>>) \in State
    BY <2>2, FreshFileType
  <2> QED BY <2>3, NoTagType DEF FreshFile, SetupVersion, HasTag
<1>3. ASSUME NEW s, NEW rows, First(s, rows)
      PROVE  /\ Healthy(s)
             /\ seal(s).rows = rows /\ seal(s).ver = SetupVersion
             /\ Healthy(seal(s)) /\ HasTag(seal(s))
             /\ sealV1(s).rows = rows /\ sealV1(s).ver = SetupVersion
             /\ Healthy(sealV1(s)) /\ HasTag(sealV1(s))
  <2>1. s \in State /\ s.ver = SetupVersion /\ s.sealedAt = NoSeal /\ s.rows = rows /\ ~HasTag(s)
    BY <1>3
  <2>2. bind(s) \in State /\ bind(s).ver = SetupVersion /\ bind(s).sealedAt = SetupVersion
        /\ bind(s).rows = rows
    BY <2>1 DEF State, SetupVersion
  <2>3. /\ seal(s).rows = rows /\ seal(s).ver = SetupVersion /\ seal(s).sealedAt = SetupVersion
        /\ seal(s).tag = SignV2(bind(s), Key)
    BY <2>2 DEF State
  <2>4. seal(s).tag = SignV2(seal(s), Key)
    BY <2>2, <2>3, SameSignature
  <2>5. /\ sealV1(s).rows = rows /\ sealV1(s).ver = SetupVersion /\ sealV1(s).sealedAt = NoSeal
        /\ sealV1(s).tag = SignV1(s, Key)
    BY <2>1 DEF State
  <2>6. sealV1(s).tag = SignV1(sealV1(s), Key)
    BY <2>1, <2>5, SameSignature
  <2> HIDE DEF bind, seal, sealV1
  <2>7. Healthy(s)
    BY <2>1 DEF Healthy, SetupVersion
  <2>8. Healthy(seal(s)) /\ HasTag(seal(s))
    BY <2>3, <2>4 DEF Healthy, HasTag, SignV2, SetupVersion
  <2>9. Healthy(sealV1(s)) /\ HasTag(sealV1(s))
    BY <2>5, <2>6 DEF Healthy, HasTag, SignV1, SetupVersion
  <2> QED BY <2>3, <2>5, <2>7, <2>8, <2>9
<1>4. InitialFiles = {<<s, 0>> : s \in {empty} \cup some}
                       \cup {<<seal(s), s.ver>> : s \in {empty} \cup some}
                       \cup {<<sealV1(s), 0>> : s \in some}
  BY DEF InitialFiles
<1>5. PICK s \in {empty} \cup some :
        \/ start = <<s, 0>> \/ start = <<seal(s), s.ver>> \/ start = <<sealV1(s), 0>>
  <2> HIDE DEF empty, some, seal, sealV1
  <2> QED BY <1>4
<1>6. PICK rows : First(s, rows) /\ (rows = <<>> \/ \E i \in Ids : rows = <<[id |-> i, val |-> Seed]>>)
  <2>1. CASE s = empty
    BY <1>1, <2>1
  <2>2. CASE s \in some
    BY <1>2, <2>2
  <2> QED BY <1>5, <2>1, <2>2
<1>7. s.ver = SetupVersion /\ s.rows = rows
  BY <1>6
<1> HIDE DEF empty, some, seal, sealV1, First
<1> QED BY <1>3, <1>5, <1>6, <1>7 DEF SetupVersion

(* The verdict and the freshness check accept a healthy state that is as new *)
(* as everything the tab remembers.                                          *)
LEMMA HealthyAccepted ==
  ASSUME NEW t \in Tabs, NEW s, Healthy(s), s.ver \in Int, s.sealedAt \in Int, Mark(t) \in Int,
         observed[t] \in Int, Mark(t) <= s.ver, observed[t] <= s.ver, ~HasTag(s) => Mark(t) <= 0
  PROVE  MayReSign(Verdict(t, s))
<1> DEFINE least == Larger(Mark(t), observed[t])
<1>1. ~(least > 0 /\ s.ver < least)
  BY DEF Larger
<1>2. ~HasTag(s) => ~(Mark(t) > 0)
  OBVIOUS
<1> HIDE DEF least
<1>3. CASE ~HasTag(s)
  BY <1>2, <1>3 DEF EvaluateIntegrity, MayReSign, Verdict
<1>4. CASE HasTag(s)
  <2>1. CASE s.sealedAt \in {NoSeal, s.ver} /\ s.tag = SignV2(s, Key)
    <3>1. EvaluateIntegrity(s, Key, least, Mark(t) > 0) = "trusted"
      BY <1>1, <1>4, <2>1 DEF EvaluateIntegrity
    <3> QED BY <3>1 DEF MayReSign, Verdict, least
  <2>2. CASE s.sealedAt = NoSeal /\ s.tag = SignV1(s, Key)
    <3>1. s.tag # SignV2(s, Key)
      BY <2>2 DEF SignV1, SignV2
    <3>2. EvaluateIntegrity(s, Key, least, Mark(t) > 0) = "needs-reseal"
      BY <1>1, <1>4, <2>2, <3>1 DEF EvaluateIntegrity
    <3> QED BY <3>2 DEF MayReSign, Verdict, least
  <2> QED BY <1>4, <2>1, <2>2 DEF Healthy
<1> QED BY <1>3, <1>4

Alarms == {"barred", "corrupt", "refused", "conflict"}

LEMMA HealthFrame ==
  ASSUME SoleTab, HealthInv, NEW t \in Tabs, NEW o \in Ops,
         \A p \in Ops \ {o} : op'[p].pc \notin Running /\ op'[p] = op[p],
         op'[o].pc \in Running => op'[o].tab = t,
         ~tampered' => /\ ~tampered
                       /\ FileHealthy' /\ op'[o].pc \notin Alarms
                       /\ op'[o].pc \in Running => Sealing(op[o], mem[t])'
  PROVE  HealthInv'
<1> SUFFICES ASSUME ~tampered', NEW p \in Ops
             PROVE  /\ op'[p].pc \in Running => Sealing(op[p], mem[op[p].tab])'
                    /\ op'[p].pc \notin {"barred", "corrupt", "refused", "conflict"}
  BY DEF HealthInv
<1>1. CASE p = o
  BY <1>1 DEF Alarms
<1>2. CASE p # o
  BY <1>2 DEF HealthInv
<1> QED BY <1>1, <1>2

LEMMA HealthInit == Init => HealthInv
<1> SUFFICES ASSUME Init PROVE HealthInv
  OBVIOUS
<1>1. \A o \in Ops : op[o].pc = "idle"
  BY DEF Init, At
<1>2. PICK start \in InitialFiles : file = start[1] /\ ledger = start[2]
  BY DEF Init
<1>3. /\ file.ver = SetupVersion /\ Healthy(file)
      /\ ledger \in {0, SetupVersion} /\ (ledger > 0 => HasTag(file))
  BY <1>2, FirstFile
<1>4. \A t \in Tabs : cache[t] = -1 /\ observed[t] = 0
  BY DEF Init, NotCached
<1>5. FileHealthy
  BY <1>3, <1>4 DEF FileHealthy, SetupVersion
<1> QED BY <1>1, <1>5 DEF HealthInv, Running

LEMMA HealthStep ==
  ASSUME SoleDesktop, ~MaySealFail, AwaitInv, AwaitInv', FollowInv, HealthInv,
         NEW o \in Ops, Step(o)
  PROVE  HealthInv'
<1>0. PICK t \in Tabs : op[o].tab = t
  BY StepFrame DEF AwaitInv
<1>1. /\ op[o].pc \in Running /\ op[o].tab = t /\ status[t] = "open"
      /\ \A p \in Ops \ {o} : op'[p].pc \notin Running /\ op'[p] = op[p]
      /\ op'[o].pc \in Running => op'[o].tab = t
      /\ SoleTab /\ backend = "native" /\ tampered' = tampered
      /\ \A u \in Tabs : u = t
  BY <1>0, StepFrame, SoleFrame DEF AwaitInv, SameRequest, SoleDesktop, TypeInv, TypeOK
<1> SUFFICES ASSUME ~tampered
             PROVE  /\ FileHealthy' /\ op'[o].pc \notin Alarms
                    /\ op'[o].pc \in Running => Sealing(op[o], mem[t])'
  BY <1>1, HealthFrame
<1>2. /\ Follows(op[o], mem[t], snap[t]) /\ Sealing(op[o], mem[t]) /\ FileHealthy
      /\ op[o].pc \notin Alarms
  BY <1>1 DEF FollowInv, TabFollowsFile, InFlight, HealthInv, Alarms
<1>3. /\ mem[t] \in State /\ mem[t].ver \in Int /\ mem[t].sealedAt \in Int
      /\ file \in State /\ file.ver \in Int /\ file.sealedAt \in Int
      /\ ledger \in Int /\ cache[t] \in Int /\ observed[t] \in Int /\ Mark(t) \in Int
  BY StateUpdate DEF AwaitInv, TypeInv, TypeOK, Mark
<1>4. /\ Mark(t) <= file.ver /\ observed[t] <= file.ver /\ (~HasTag(file) => Mark(t) <= 0)
      /\ Healthy(file) /\ file.ver > 0
  BY <1>2 DEF FileHealthy, Mark, Healthy
<1>5. MayReSign(Verdict(t, file))
  BY <1>3, <1>4, HealthyAccepted
<1>6. UNCHANGED <<file, ledger, cache, observed>> => FileHealthy'
  BY <1>2 DEF FileHealthy, Healthy
<1>7. CASE Mutate(o)
  <2>1. /\ op[o].pc = "encrypting" /\ op'[o].pc = "queued" /\ mem'[t].ver = mem[t].ver
        /\ UNCHANGED <<file, ledger, cache, observed>>
    BY <1>1, <1>7, MutateEffect DEF AwaitInv
  <2>2. mem'[t].ver = file'.ver
    BY <1>2, <2>1 DEF Follows
  <2> QED BY <1>6, <2>1, <2>2 DEF Alarms, Sealing
<1>8. CASE Conflict(o)
  <2>1. snap[t] = file
    BY <1>2, <1>8 DEF Conflict, Follows, Undoable
  <2> QED BY <1>1, <1>3, <1>4, <1>8, <2>1 DEF Conflict, StaleBaseline
<1>9. CASE Bar(o)
  BY <1>2, <1>9 DEF Bar, Alarms
<1>10. CASE WriteTimesOut(o)
  BY <1>1, <1>10 DEF WriteTimesOut
<1>11. CASE WriteFails(o)
  <2>1. op'[o].pc = "failed"
    BY <1>1, <1>11, FailEffect DEF WriteFails, AwaitInv
  <2>2. UNCHANGED <<file, ledger, cache, observed>>
    BY <1>11 DEF WriteFails
  <2> QED BY <1>6, <2>1, <2>2 DEF Alarms, Running
<1>12. CASE Gate(o)
  <2>1. op[o].pc = "queued" /\ snap[t] = file
    BY <1>2, <1>12 DEF Gate, Follows, Undoable
  <2>2. Goto(o, "gated")
    BY <1>1, <1>5, <1>12, <2>1 DEF Gate
  <2>3. op'[o].pc = "gated" /\ UNCHANGED <<file, mem, ledger, cache, observed>>
    BY <1>12, <2>2, GotoEffect DEF Gate, AwaitInv, shared, perTab
  <2> QED BY <1>2, <1>6, <2>1, <2>3 DEF Alarms, Sealing
<1>13. CASE Bump(o)
  <2>1. /\ op[o].pc = "gated" /\ op'[o].pc = "bumped" /\ mem'[t].ver = mem[t].ver + 1
        /\ UNCHANGED <<file, ledger, cache, observed>>
    BY <1>1, <1>13, BumpEffect DEF AwaitInv, shared
  <2>2. mem'[t].ver > file'.ver
    BY <1>2, <1>3, <2>1 DEF Sealing
  <2> QED BY <1>6, <2>1, <2>2 DEF Alarms, Sealing
<1>14. CASE Seal(o)
  <2>1. /\ op[o].pc = "bumped" /\ op'[o].pc = "sealed" /\ mem'[t].ver = mem[t].ver
        /\ mem'[t].sealedAt = mem[t].ver /\ op'[o].sig = SignV2(mem'[t], Key)
        /\ UNCHANGED <<file, ledger, cache, observed>>
    BY <1>1, <1>14, SealEffect DEF AwaitInv, shared
  <2>2. mem'[t].ver > file'.ver
    BY <1>2, <2>1 DEF Sealing
  <2> QED BY <1>6, <2>1, <2>2 DEF Alarms, Sealing
<1>15. CASE SealFails(o)
  BY <1>15 DEF SealFails
<1>16. CASE Attach(o)
  <2>1. /\ op[o].pc = "sealed" /\ op'[o].pc = "writing"
        /\ mem'[t].ver = mem[t].ver /\ mem'[t].rows = mem[t].rows
        /\ mem'[t].sealedAt = mem[t].sealedAt /\ mem'[t].tag = op[o].sig
        /\ UNCHANGED <<file, ledger, cache, observed>>
    BY <1>1, <1>16, AttachEffect DEF AwaitInv, shared
  <2>2. /\ mem[t].ver > file.ver /\ mem[t].sealedAt = mem[t].ver
        /\ op[o].sig = SignV2(mem[t], Key)
    BY <1>2, <2>1 DEF Sealing
  <2>3. mem'[t].tag = SignV2(mem'[t], Key)
    BY <2>1, <2>2, SameSignature
  <2>4. HasTag(mem[t])' /\ Healthy(mem[t])'
    BY <1>3, <1>4, <2>1, <2>2, <2>3 DEF HasTag, Healthy, SignV2
  <2> QED BY <1>6, <2>1, <2>2, <2>4 DEF Alarms, Sealing
<1>17. CASE WriteLands(o)
  <2>1. /\ op[o].pc = "writing" /\ op'[o].pc = "landed" /\ file' = op[o].image
        /\ UNCHANGED <<ledger, cache, observed>>
    BY <1>1, <1>17, LandsEffect DEF AwaitInv, perTab
  <2>2. file' = mem[t] /\ mem[t].ver > file.ver /\ Healthy(mem[t]) /\ HasTag(mem[t])
    BY <1>2, <2>1 DEF Sealing, Follows
  <2>3. file'.ver > file.ver /\ Healthy(file)' /\ HasTag(file)'
    BY <2>2 DEF Healthy, HasTag, SignV1, SignV2, Content
  <2>4. FileHealthy'
    BY <1>1, <1>2, <1>3, <2>1, <2>2, <2>3 DEF FileHealthy
  <2> QED BY <2>1, <2>4 DEF Alarms, Sealing
<1>18. CASE Complete(o)
  <2>1. /\ op[o].pc = "landed" /\ Committed(t, mem[t]) /\ UNCHANGED <<file, mem>>
        /\ op'[o].pc \in {"acked", "reading"}
    BY <1>1, <1>18, CompleteEffect DEF AwaitInv
  <2>2. mem[t] = file
    BY <1>2, <2>1 DEF Follows
  <2>3. /\ observed'[t] \in {observed[t], file.ver}
        /\ \/ HasTag(file) /\ ledger' = Larger(Mark(t), file.ver) /\ cache'[t] = ledger'
           \/ UNCHANGED <<cache, ledger>>
    BY <1>1, <1>3, <2>1, <2>2, CommittedEffect DEF AwaitInv
  <2>4. Larger(Mark(t), file.ver) = file.ver
    BY <1>3, <1>4 DEF Larger
  <2>5. Healthy(file)' /\ HasTag(file)' = HasTag(file)
    BY <1>4, <2>1
  <2>6. CASE HasTag(file) /\ ledger' = file.ver /\ cache'[t] = file.ver
    BY <1>1, <1>3, <1>4, <2>1, <2>3, <2>5, <2>6 DEF FileHealthy, Alarms, Sealing
  <2>7. CASE UNCHANGED <<cache, ledger>>
    BY <1>1, <1>2, <1>3, <1>4, <2>1, <2>3, <2>5, <2>7 DEF FileHealthy, Alarms, Sealing
  <2> QED BY <2>3, <2>4, <2>6, <2>7
<1>19. CASE ReadEmpty(o)
  <2>1. op'[o].pc = "acked" /\ UNCHANGED <<file, ledger, cache, observed>>
    BY <1>19, ReadEmptyEffect DEF AwaitInv, shared, perTab
  <2> QED BY <1>6, <2>1 DEF Alarms, Running
<1>20. CASE ReadVerdict(o)
  <2>1. op[o].pc = "reading" /\ mem[t] = file
    BY <1>2, <1>20 DEF ReadVerdict, Follows
  <2>2. Goto(o, "verified")
    BY <1>1, <1>5, <1>20, <2>1 DEF ReadVerdict
  <2>3. op'[o].pc = "verified" /\ UNCHANGED <<file, ledger, cache, observed>>
    BY <1>20, <2>2, GotoEffect DEF ReadVerdict, AwaitInv, shared, perTab
  <2> QED BY <1>6, <2>3 DEF Alarms, Sealing
<1>21. CASE ReadEnds(o)
  <2>1. op[o].pc = "verified"
    BY <1>2, <1>21 DEF ReadEnds, Alarms
  <2>2. op'[o].pc = "acked" /\ UNCHANGED <<file, ledger, cache, observed>>
    BY <1>21, <2>1, ReadEndsEffect DEF AwaitInv, shared
  <2> QED BY <1>6, <2>2 DEF Alarms, Running
<1> QED BY <1>7, <1>8, <1>9, <1>10, <1>11, <1>12, <1>13, <1>14, <1>15, <1>16, <1>17, <1>18,
           <1>19, <1>20, <1>21 DEF Step

LEMMA HealthStart ==
  ASSUME SoleDesktop, AwaitInv, AwaitInv', FollowInv, HealthInv,
         NEW t \in Tabs, NEW o \in Ops, Start(t, o)
  PROVE  HealthInv'
<1>1. /\ SoleTab /\ status[t] = "open" /\ InFlight(t) = {} /\ op'[o].tab = t
      /\ \A p \in Ops \ {o} : op'[p] = op[p]
      /\ UNCHANGED <<file, ledger, cache, observed, tampered>>
  BY StartFrame DEF AwaitInv, SoleDesktop
<1>2. \A p \in Ops \ {o} : op'[p].pc \notin Running
  BY <1>1, SoleIdle
<1>3. op'[o].pc \in {"encrypting", "queued", "reading"} /\ mem'[t].ver = mem[t].ver
  BY StartBrief DEF AwaitInv
<1>4. ASSUME ~tampered
      PROVE  FileHealthy' /\ op'[o].pc \notin Alarms /\ Sealing(op[o], mem[t])'
  <2>1. mem[t] = file /\ FileHealthy
    BY <1>1, <1>4 DEF FollowInv, TabFollowsFile, HealthInv
  <2>2. FileHealthy'
    BY <1>1, <2>1 DEF FileHealthy, Healthy
  <2> QED BY <1>1, <1>3, <2>1, <2>2 DEF Alarms, Sealing
<1> QED BY <1>1, <1>2, <1>4, HealthFrame

LEMMA HealthTab ==
  ASSUME SoleDesktop, AwaitInv, AwaitInv', Settled, HealthInv, NEW t \in Tabs, TabStep(t)
  PROVE  HealthInv'
<1>1. SoleTab /\ backend = "native" /\ status[t] # "resaving" /\ file \in State /\ file.ver \in Int
  BY StateUpdate DEF SoleDesktop, AwaitInv, TypeInv, TypeOK, Settled
<1>2. \A u \in Tabs : u = t
  BY <1>1 DEF SoleTab
<1>3. CASE Open(t)
  <2>1. /\ status[t] = "closed" /\ observed'[t] \in {observed[t], file.ver}
        /\ UNCHANGED <<file, ledger, cache, op, tampered>>
    BY <1>3, OpenEffect DEF AwaitInv
  <2>2. \A p \in Ops : op[p].pc \notin Running
    BY <1>1, <2>1, SoleIdle
  <2>3. FileHealthy => FileHealthy'
    BY <1>1, <1>2, <2>1 DEF FileHealthy, Healthy
  <2> QED BY <2>1, <2>2, <2>3 DEF HealthInv
<1>4. CASE Close(t)
  <2>1. cache'[t] = NotCached /\ observed'[t] = 0 /\ UNCHANGED <<file, ledger, tampered>>
    BY <1>4, CloseTabs DEF AwaitInv
  <2>2. /\ \A o \in InFlight(t) : op'[o].pc = "lost"
        /\ \A o \in Ops \ InFlight(t) : op'[o] = op[o]
    BY <1>4, CloseOps
  <2>3. \A o \in Ops : op'[o].pc \notin Running
    BY <1>2, <2>2, RunningType DEF AwaitInv, InFlight, Running
  <2>4. \A o \in Ops : op[o].pc \notin Alarms => op'[o].pc \notin Alarms
    BY <2>2 DEF Alarms
  <2>5. FileHealthy => FileHealthy'
    BY <1>1, <1>2, <2>1 DEF FileHealthy, Healthy, NotCached
  <2> QED BY <2>1, <2>3, <2>4, <2>5 DEF HealthInv, Alarms
<1> QED BY <1>1, <1>3, <1>4 DEF TabStep, ResaveRefused, Resave, ResaveFails

LEMMA HealthNext ==
  ASSUME SoleDesktop, ~MaySealFail, AwaitInv, AwaitInv', FollowInv, HealthInv, [Next]_vars
  PROVE  HealthInv'
<1>1. Settled
  BY DEF FollowInv
<1>2. CASE \E t \in Tabs : TabStep(t)
  BY <1>1, <1>2, HealthTab
<1>3. CASE \E t \in Tabs, o \in Ops : Start(t, o)
  BY <1>3, HealthStart
<1>4. CASE \E o \in Ops : Step(o)
  BY <1>4, HealthStep
<1>5. CASE LateWriteLands
  BY <1>1, <1>5 DEF LateWriteLands, Settled
<1>6. CASE Tamper \/ Replay
  BY <1>6 DEF Tamper, Replay, HealthInv
<1>7. CASE UNCHANGED vars
  <2>1. UNCHANGED <<file, ledger, mem, cache, observed, op, tampered>>
    BY <1>7 DEF vars
  <2> QED BY <2>1 DEF HealthInv, FileHealthy, Healthy, Sealing
<1> QED BY <1>2, <1>3, <1>4, <1>5, <1>6, <1>7 DEF Next

DesktopInv == AwaitInv /\ FollowInv /\ HealthInv

THEOREM HealthInductive == SoleDesktop /\ ~MaySealFail => (Spec => []DesktopInv)
<1> SUFFICES ASSUME SoleDesktop, ~MaySealFail PROVE Spec => []DesktopInv
  OBVIOUS
<1>1. Init => DesktopInv
  BY AwaitInit, FollowInit, HealthInit DEF DesktopInv
<1>2. DesktopInv /\ [Next]_vars => DesktopInv'
  BY AwaitStep, FollowNext, HealthNext DEF DesktopInv, SoleDesktop
<1> QED BY <1>1, <1>2, PTL DEF Spec

(* On a desktop build whose signatures succeed, no file that only the        *)
(* repository has written is reported as corrupted, stale or not to be       *)
(* re-signed, after any crash and any failed write.                          *)
THEOREM NeverFalseAlarm == SoleDesktop /\ ~MaySealFail => (Spec => []NoFalseAlarm)
<1> SUFFICES ASSUME SoleDesktop, ~MaySealFail PROVE Spec => []NoFalseAlarm
  OBVIOUS
<1>1. DesktopInv => NoFalseAlarm
  BY DEF DesktopInv, HealthInv, NoFalseAlarm
<1> QED BY <1>1, HealthInductive, PTL

-----------------------------------------------------------------------------
(* The lock, and the first write of a tab.                                  *)

(* A waiting queue keeps its head when others leave it. *)
LEMMA HeadKept ==
  ASSUME NEW S, NEW s \in Seq(S), s # <<>>, NEW K \in SUBSET (DOMAIN s), 1 \in K
  PROVE  Keeping(s, K) # <<>> /\ Head(Keeping(s, K)) = s[1]
<1> DEFINE rank(i) == Cardinality({k \in K : k <= i})
<1>1. Len(s) \in Nat /\ DOMAIN s = 1..Len(s)
  OBVIOUS
<1>2. {k \in K : k <= 1} = {1}
  BY <1>1
<1>3. rank(1) = 1
  BY <1>2, FS_Singleton
<1>4. rank(1) \in 1..Cardinality(K) /\ Nth(K, rank(1)) = 1
  BY <1>1, NthEnumerates
<1>5. Nth(K, 1) = 1 /\ 1 \in 1..Cardinality(K)
  BY <1>3, <1>4
<1>6. Keeping(s, K) \in Seq(S)
  BY KeepingIsASelection
<1>7. DOMAIN Keeping(s, K) = 1..Cardinality(K) /\ Keeping(s, K)[1] = s[1]
  BY <1>5 DEF Keeping
<1>8. ASSUME NEW q \in Seq(S), 1 \in DOMAIN q
      PROVE  q # <<>> /\ Head(q) = q[1]
  BY <1>8
<1> QED BY <1>5, <1>6, <1>7, <1>8

LEMMA HolderWaitsFirst ==
  ASSUME TypeInv, NEW o \in Ops, NEW p \in Ops, Holds(p)
  PROVE  /\ lock' = Append(lock, o) => Holds(p)'
         /\ lock' = lock => Holds(p)'
         /\ Holds(o) => p = o
<1>1. lock \in Seq(Ops) /\ lock # <<>> /\ Head(lock) = p
  BY DEF Holds, TypeInv, TypeOK
<1>2. Append(lock, o) # <<>> /\ Head(Append(lock, o)) = p
  BY <1>1
<1> QED BY <1>1, <1>2 DEF Holds

LEMMA FenceFrame ==
  ASSUME AwaitInv, AwaitInv', FenceInv, Settled', ~tampered', NEW t \in Tabs, NEW o \in Ops,
         \A p \in Ops \ {o} : op'[p] = op[p] /\ (op[p].pc \in Running => op[p].tab # t),
         op'[o].pc \in Running => op'[o].tab = t,
         \A u \in Tabs \ {t} : mem'[u] = mem[u] /\ snap'[u] = snap[u] /\ cache'[u] = cache[u],
         lock' = lock \/ lock' = Append(lock, o) \/ Holds(o),
         UNCHANGED <<file, ledger>> \/ Holds(o),
         op'[o].pc \in PastFreshness => Holds(o)',
         file'.ver >= SetupVersion, mem'[t].ver >= SetupVersion,
         snap'[t] # NoState => snap'[t].ver >= SetupVersion,
         op'[o].pc \in Undoable => op'[o].prev.ver >= SetupVersion,
         (UNCHANGED <<file, ledger>> /\ op[o].pc # "landed") \/ MarkCovers',
         Committing(op[o], mem[t], snap[t], cache[t])'
  PROVE  FenceInv'
<1>1. ASSUME NEW p \in Ops \ {o}, op[p].pc \in PastFreshness
      PROVE  Holds(p) /\ ~Holds(o) /\ op[p].tab \in Tabs \ {t}
  <2>1. Holds(p)
    BY <1>1 DEF FenceInv, LockHeld
  <2>2. op[p].pc \in Running
    BY <1>1 DEF PastFreshness, Running
  <2> QED BY <2>1, <2>2, RunningType, HolderWaitsFirst DEF AwaitInv
<1>2. LockHeld'
  <2> SUFFICES ASSUME NEW p \in Ops, op'[p].pc \in PastFreshness PROVE Holds(p)'
    BY DEF LockHeld
  <2>1. CASE p = o
    BY <2>1
  <2>2. CASE p # o
    <3>1. Holds(p) /\ ~Holds(o)
      BY <1>1, <2>2
    <3> QED BY <3>1, HolderWaitsFirst DEF AwaitInv
  <2> QED BY <2>1, <2>2
<1>3. NotBeforeSetup'
  <2>1. \A p \in Ops \ {o} : op'[p].pc \in Undoable => op'[p].prev.ver >= SetupVersion
    BY DEF FenceInv, NotBeforeSetup
  <2>2. \A u \in Tabs \ {t} : /\ mem'[u].ver >= SetupVersion
                              /\ snap'[u] # NoState => snap'[u].ver >= SetupVersion
    BY DEF FenceInv, NotBeforeSetup
  <2> QED BY <2>1, <2>2 DEF NotBeforeSetup
<1>4. MarkCovers'
  <2>1. ASSUME UNCHANGED <<file, ledger>>, op[o].pc # "landed"
        PROVE  MarkCovers'
    BY <2>1 DEF FenceInv, MarkCovers
  <2> QED BY <2>1
<1>5. ASSUME NEW p \in Ops
      PROVE  Committing(op[p], mem[op[p].tab], snap[op[p].tab], cache[op[p].tab])'
  <2>1. CASE op'[p].pc \notin PastFreshness
    BY <2>1 DEF Committing, PastFreshness
  <2>2. CASE p = o /\ op'[p].pc \in PastFreshness
    <3>1. op'[o].tab = t
      BY <2>2 DEF PastFreshness, Running
    <3> QED BY <2>2, <3>1
  <2>3. CASE p # o /\ op'[p].pc \in PastFreshness
    <3>1. /\ op'[p] = op[p] /\ op[p].tab \in Tabs \ {t} /\ UNCHANGED <<file, ledger>>
      BY <1>1, <2>3
    <3>2. Committing(op[p], mem[op[p].tab], snap[op[p].tab], cache[op[p].tab])
      BY DEF FenceInv
    <3> QED BY <3>1, <3>2 DEF Committing
  <2> QED BY <2>1, <2>2, <2>3
<1> QED BY <1>2, <1>3, <1>4, <1>5 DEF FenceInv, AwaitInv

LEMMA FenceInit == Init => FenceInv
<1> SUFFICES ASSUME Init PROVE FenceInv
  OBVIOUS
<1>1. \A o \in Ops : op[o].pc = "idle"
  BY DEF Init, At
<1>2. PICK start \in InitialFiles : file = start[1] /\ ledger = start[2]
  BY DEF Init
<1>3. file.ver = SetupVersion /\ ledger \in {0, SetupVersion}
  BY <1>2, FirstFile
<1>4. \A t \in Tabs : mem[t].ver = SetupVersion /\ snap[t] = NoState
  BY DEF Init, Blank, FreshFile, SetupVersion
<1>5. OneAtATime
  BY AwaitInit DEF AwaitInv
<1>6. LockHeld /\ NotBeforeSetup /\ Settled /\ ~tampered
  BY <1>1, <1>3, <1>4 DEF Init, LockHeld, NotBeforeSetup, Settled, PastFreshness, Undoable,
                          SetupVersion
<1>7. MarkCovers
  BY <1>3 DEF MarkCovers, Larger, SetupVersion
<1>8. \A o \in Ops : Committing(op[o], mem[op[o].tab], snap[op[o].tab], cache[op[o].tab])
  BY <1>1 DEF Committing, PastFreshness
<1> QED BY <1>5, <1>6, <1>7, <1>8 DEF FenceInv

LEMMA FenceStep ==
  ASSUME Fenced, AwaitInv, AwaitInv', FenceInv, Settled', ~tampered', NEW o \in Ops, Step(o)
  PROVE  FenceInv'
<1>0. PICK t \in Tabs : op[o].tab = t
  BY StepFrame DEF AwaitInv
<1>1. /\ op[o].pc \in Running /\ status[t] = "open"
      /\ \A p \in Ops \ {o} : op'[p] = op[p] /\ (op[p].pc \in Running => op[p].tab # t)
      /\ op'[o].pc \in Running => op'[o].tab = t
      /\ \A u \in Tabs \ {t} : mem'[u] = mem[u] /\ snap'[u] = snap[u] /\ cache'[u] = cache[u]
      /\ backend # "opfs"
  <2>1. /\ op[o].pc \in Running /\ status[t] = "open"
        /\ \A p \in Ops \ {o} : op'[p] = op[p]
        /\ op'[o].pc \in Running => op'[o].tab = t
        /\ \A u \in Tabs \ {t} : mem'[u] = mem[u] /\ snap'[u] = snap[u] /\ cache'[u] = cache[u]
    BY <1>0, StepFrame DEF AwaitInv, OneAtATime, SameRequest
  <2>2. \A p \in Ops \ {o} : op[p].pc \in Running => op[p].tab # t
    BY <1>0, <2>1 DEF AwaitInv, OneAtATime
  <2>3. backend # "opfs"
    BY DEF Fenced, AwaitInv, TypeInv, TypeOK
  <2> QED BY <2>1, <2>2, <2>3
<1>2. /\ mem[t] \in State /\ mem[t].ver \in Int /\ mem[t].ver >= SetupVersion
      /\ file.ver \in Int /\ file.ver >= SetupVersion /\ ledger \in Int
      /\ snap[t] # NoState => snap[t].ver >= SetupVersion
      /\ op[o].pc \in Undoable => op[o].prev.ver >= SetupVersion
      /\ Committing(op[o], mem[t], snap[t], cache[t])
  BY <1>0, StateUpdate DEF AwaitInv, TypeInv, TypeOK, FenceInv, NotBeforeSetup
<1>3. op[o].pc \in PastFreshness => Holds(o)
  BY DEF FenceInv, LockHeld
<1>4. lock' = lock /\ Holds(o) => Holds(o)'
  BY HolderWaitsFirst DEF AwaitInv
<1>5. CASE Mutate(o)
  <2>1. /\ op[o].pc = "encrypting" /\ op'[o].pc = "queued" /\ op'[o].prev = op[o].prev
        /\ mem'[t].ver = mem[t].ver /\ lock' = Append(lock, o)
        /\ UNCHANGED <<file, ledger, snap>>
    BY <1>0, <1>5, MutateEffect DEF AwaitInv, SameLocals
  <2>2. Committing(op[o], mem[t], snap[t], cache[t])'
    BY <2>1 DEF Committing, PastFreshness
  <2> QED BY <1>1, <1>2, <2>1, <2>2, FenceFrame DEF Undoable, PastFreshness
<1>6. CASE Conflict(o) \/ Bar(o) \/ WriteFails(o)
  <2>1. PICK outcome \in Outcomes : Fail(o, outcome)
    BY <1>6 DEF Conflict, Bar, WriteFails, Outcomes
  <2>2. UNCHANGED <<file, ledger, snap, cache>> /\ op[o].pc \in Undoable /\ Holds(o)
        /\ op[o].pc # "landed"
    BY <1>6 DEF Conflict, Bar, WriteFails, Undoable
  <2>3. op'[o].pc \notin Running /\ mem'[t] = op[o].prev
    BY <1>0, <1>1, <2>1, FailEffect DEF AwaitInv, Outcomes, Running
  <2>4. op'[o].pc \notin Undoable /\ op'[o].pc \notin PastFreshness
    BY <2>3 DEF Undoable, PastFreshness, Running
  <2>5. Committing(op[o], mem[t], snap[t], cache[t])'
    BY <2>4 DEF Committing, PastFreshness
  <2> QED BY <1>1, <1>2, <2>2, <2>3, <2>4, <2>5, FenceFrame
<1>7. CASE WriteTimesOut(o)
  BY <1>1, <1>7 DEF WriteTimesOut
<1>8. CASE Gate(o)
  <2>1. PICK pc \in {"gated", "barred"} : Goto(o, pc)
    BY <1>8 DEF Gate
  <2>2. /\ op[o].pc = "queued" /\ op'[o].pc \in {"gated", "barred"} /\ op'[o].prev = op[o].prev
        /\ Holds(o) /\ lock' = lock /\ UNCHANGED <<file, ledger, mem, snap, cache>>
    BY <1>8, <2>1, GotoEffect DEF Gate, AwaitInv, SameLocals, shared, perTab
  <2>3. cache[t] = NotCached /\ snap[t] # NoState => ledger <= snap[t].ver
    <3>1. ~StaleBaseline(t)
      BY <1>0, <1>8 DEF Gate
    <3>2. ASSUME cache[t] = NotCached, snap[t] # NoState PROVE ledger <= snap[t].ver
      <4>1. Mark(t) = ledger /\ ~(Mark(t) > snap[t].ver)
        BY <3>1, <3>2 DEF Mark, StaleBaseline
      <4>2. snap[t].ver \in Int
        BY <3>2, StateUpdate DEF AwaitInv, TypeInv, TypeOK
      <4> QED BY <1>2, <4>1, <4>2
    <3> QED BY <3>2
  <2>4. Committing(op[o], mem[t], snap[t], cache[t])'
    BY <2>2, <2>3 DEF Committing
  <2> QED BY <1>1, <1>2, <1>4, <2>2, <2>4, FenceFrame DEF Undoable
<1>9. CASE Bump(o)
  <2>1. /\ op[o].pc = "gated" /\ op'[o].pc = "bumped" /\ op'[o].prev = op[o].prev
        /\ mem'[t].ver = mem[t].ver + 1 /\ lock' = lock
        /\ UNCHANGED <<file, ledger, snap, cache>>
    BY <1>0, <1>9, BumpEffect DEF AwaitInv, SameLocals, shared
  <2>2. mem'[t].ver >= SetupVersion /\ Holds(o)'
    BY <1>2, <1>3, <1>4, <2>1 DEF SetupVersion, PastFreshness
  <2>3. Committing(op[o], mem[t], snap[t], cache[t])'
    BY <1>2, <2>1 DEF Committing, PastFreshness
  <2> QED BY <1>1, <1>2, <2>1, <2>2, <2>3, FenceFrame DEF Undoable
<1>10. CASE Seal(o)
  <2>1. /\ op[o].pc = "bumped" /\ op'[o].pc = "sealed" /\ op'[o].prev = op[o].prev
        /\ op'[o].sig = SignV2(mem'[t], Key) /\ mem'[t].ver = mem[t].ver /\ lock' = lock
        /\ UNCHANGED <<file, ledger, snap, cache>>
    BY <1>0, <1>10, SealEffect DEF AwaitInv, shared
  <2>2. Holds(o)'
    BY <1>3, <1>4, <2>1 DEF PastFreshness
  <2>3. Committing(op[o], mem[t], snap[t], cache[t])'
    BY <1>2, <2>1 DEF Committing, PastFreshness, SignV2
  <2> QED BY <1>1, <1>2, <2>1, <2>2, <2>3, FenceFrame DEF Undoable
<1>11. CASE SealFails(o)
  BY <1>11 DEF SealFails, Fenced
<1>12. CASE Attach(o)
  <2>1. /\ op[o].pc = "sealed" /\ op'[o].pc = "writing" /\ op'[o].prev = op[o].prev
        /\ op'[o].image = mem'[t] /\ mem'[t].ver = mem[t].ver /\ mem'[t].tag = op[o].sig
        /\ lock' = lock /\ UNCHANGED <<file, ledger, snap, cache>>
    BY <1>0, <1>12, AttachEffect DEF AwaitInv, shared
  <2>2. Holds(o)'
    BY <1>3, <1>4, <2>1 DEF PastFreshness
  <2>3. HasTag(mem[t])'
    BY <1>2, <2>1 DEF Committing, HasTag
  <2>4. Committing(op[o], mem[t], snap[t], cache[t])'
    BY <1>2, <2>1, <2>3 DEF Committing, PastFreshness
  <2> QED BY <1>1, <1>2, <2>1, <2>2, <2>4, FenceFrame DEF Undoable
<1>13. CASE WriteLands(o)
  <2>1. /\ op[o].pc = "writing" /\ op'[o].pc = "landed" /\ file' = op[o].image
        /\ Holds(o) /\ lock' = lock /\ UNCHANGED <<ledger, mem, snap, cache>>
    BY <1>13, LandsEffect DEF AwaitInv, perTab
  <2>2. file' = mem[t] /\ HasTag(mem[t])
    BY <1>2, <2>1 DEF Committing
  <2>3. HasTag(mem[t])'
    BY <2>1, <2>2
  <2>4. Committing(op[o], mem[t], snap[t], cache[t])'
    BY <1>2, <2>1, <2>2, <2>3 DEF Committing, PastFreshness
  <2>5. MarkCovers'
    BY <2>1 DEF MarkCovers
  <2> QED BY <1>1, <1>2, <1>4, <2>1, <2>2, <2>4, <2>5, FenceFrame DEF Undoable
<1>14. CASE Complete(o)
  <2>1. /\ op[o].pc = "landed" /\ Holds(o) /\ Committed(t, mem[t])
        /\ op'[o].pc \in {"acked", "reading"} /\ UNCHANGED <<file, mem>>
    BY <1>0, <1>14, CompleteEffect DEF AwaitInv
  <2>2. HasTag(mem[t]) /\ mem[t].ver = file.ver /\ mem[t].ver > 0
    BY <1>2, <2>1 DEF Committing, PastFreshness, SetupVersion
  <2>3. snap'[t] = mem[t] /\ ledger' = Larger(Mark(t), mem[t].ver)
    BY <1>2, <2>1, <2>2, CommittedEffect DEF AwaitInv
  <2>4. MarkCovers'
    <3>1. ledger' >= file.ver
      BY <1>2, <2>2, <2>3 DEF Larger, Mark, AwaitInv, TypeInv, TypeOK
    <3>2. ledger' \in Int
      BY DEF AwaitInv, TypeInv, TypeOK
    <3> QED BY <1>2, <2>1, <3>1, <3>2 DEF MarkCovers, Larger, SetupVersion
  <2>5. Committing(op[o], mem[t], snap[t], cache[t])'
    BY <2>1 DEF Committing, PastFreshness
  <2> QED BY <1>1, <1>2, <2>1, <2>3, <2>4, <2>5, FenceFrame DEF Undoable, PastFreshness
<1>15. CASE ReadEmpty(o)
  <2>1. /\ op[o].pc = "reading" /\ op'[o].pc = "acked" /\ lock' = lock
        /\ UNCHANGED <<file, ledger, mem, snap, cache>>
    BY <1>15, ReadEmptyEffect DEF AwaitInv, shared, perTab
  <2>2. Committing(op[o], mem[t], snap[t], cache[t])'
    BY <2>1 DEF Committing, PastFreshness
  <2> QED BY <1>1, <1>2, <2>1, <2>2, FenceFrame DEF Undoable, PastFreshness
<1>16. CASE ReadVerdict(o)
  <2>1. PICK pc \in {"verified", "corrupt"} : Goto(o, pc)
    BY <1>16 DEF ReadVerdict
  <2>2. /\ op[o].pc = "reading" /\ op'[o].pc \in {"verified", "corrupt"} /\ lock' = lock
        /\ UNCHANGED <<file, ledger, mem, snap, cache>>
    BY <1>16, <2>1, GotoEffect DEF ReadVerdict, AwaitInv, shared, perTab
  <2>3. Committing(op[o], mem[t], snap[t], cache[t])'
    BY <2>2 DEF Committing, PastFreshness
  <2> QED BY <1>1, <1>2, <2>2, <2>3, FenceFrame DEF Undoable, PastFreshness
<1>17. CASE ReadEnds(o)
  <2>1. /\ op[o].pc \in {"verified", "corrupt"} /\ op'[o].pc \in {"acked", "refused"}
        /\ snap'[t] = mem[t] /\ lock' = lock /\ UNCHANGED <<file, ledger, mem, cache>>
    BY <1>0, <1>17, ReadEndsEffect DEF AwaitInv, shared
  <2>2. Committing(op[o], mem[t], snap[t], cache[t])'
    BY <2>1 DEF Committing, PastFreshness
  <2> QED BY <1>1, <1>2, <2>1, <2>2, FenceFrame DEF Undoable, PastFreshness
<1> QED BY <1>5, <1>6, <1>7, <1>8, <1>9, <1>10, <1>11, <1>12, <1>13, <1>14, <1>15, <1>16, <1>17
        DEF Step

LEMMA FenceStart ==
  ASSUME Fenced, AwaitInv, AwaitInv', FenceInv, Settled', ~tampered',
         NEW t \in Tabs, NEW o \in Ops, Start(t, o)
  PROVE  FenceInv'
<1>1. /\ op[o].pc = "idle" /\ InFlight(t) = {} /\ op'[o].tab = t
      /\ \A p \in Ops \ {o} : op'[p] = op[p]
      /\ \A u \in Tabs \ {t} : mem'[u] = mem[u]
      /\ UNCHANGED <<file, ledger, snap, cache>>
  BY StartFrame DEF AwaitInv, Fenced
<1>2. \A p \in Ops \ {o} : op[p].pc \in Running => op[p].tab # t
  BY <1>1 DEF InFlight
<1>3. /\ op'[o].pc \in {"encrypting", "queued", "reading"} /\ mem'[t].ver = mem[t].ver
      /\ op'[o].pc # "reading" => op'[o].prev = mem[t]
      /\ lock' = lock \/ lock' = Append(lock, o)
  BY StartBrief DEF AwaitInv
<1>4. /\ mem[t].ver >= SetupVersion /\ file.ver >= SetupVersion
      /\ snap[t] # NoState => snap[t].ver >= SetupVersion
  BY DEF FenceInv, NotBeforeSetup
<1>5. Committing(op[o], mem[t], snap[t], cache[t])'
  BY <1>3 DEF Committing, PastFreshness
<1> QED BY <1>1, <1>2, <1>3, <1>4, <1>5, FenceFrame DEF Undoable, PastFreshness

LEMMA FenceTab ==
  ASSUME Fenced, AwaitInv, AwaitInv', FenceInv, Settled', ~tampered', NEW t \in Tabs, TabStep(t)
  PROVE  FenceInv'
<1>1. backend # "opfs" /\ status[t] # "resaving"
  BY DEF Fenced, AwaitInv, TypeInv, TypeOK, FenceInv, Settled
<1>2. /\ \A p \in Ops : op'[p] = op[p] /\ (op[p].pc \in Running => op[p].tab \in Tabs \ {t})
      /\ UNCHANGED <<file, ledger>>
      /\ \A u \in Tabs \ {t} : mem'[u] = mem[u] /\ snap'[u] = snap[u] /\ cache'[u] = cache[u]
      /\ mem'[t].ver >= SetupVersion
      /\ snap'[t] # NoState => snap'[t].ver >= SetupVersion
  <2>1. file.ver >= SetupVersion /\ (snap[t] # NoState => snap[t].ver >= SetupVersion)
    BY DEF FenceInv, NotBeforeSetup
  <2>2. CASE Open(t)
    <3>1. /\ status[t] = "closed" /\ op' = op /\ mem'[t] = file /\ snap'[t] \in {snap[t], file}
          /\ \A u \in Tabs \ {t} : mem'[u] = mem[u] /\ snap'[u] = snap[u]
          /\ UNCHANGED <<file, ledger, cache>>
      BY <2>2, OpenEffect DEF AwaitInv
    <3>2. \A p \in Ops : op[p].pc \in Running => op[p].tab \in Tabs \ {t}
      BY <3>1, RunningType DEF AwaitInv, OneAtATime
    <3> QED BY <2>1, <3>1, <3>2
  <2>3. CASE Close(t)
    <3>1. InFlight(t) = {}
      BY <2>3, CloseOps DEF Fenced
    <3>2. /\ mem'[t] = Blank /\ snap'[t] = NoState /\ UNCHANGED <<file, ledger>>
          /\ \A u \in Tabs \ {t} : mem'[u] = mem[u] /\ snap'[u] = snap[u] /\ cache'[u] = cache[u]
      BY <2>3, CloseTabs DEF AwaitInv
    <3>3. \A p \in Ops : op[p].pc \in Running => op[p].tab \in Tabs \ {t}
      BY <3>1, RunningType DEF AwaitInv, InFlight
    <3>4. mem'[t].ver >= SetupVersion
      BY <3>2 DEF Blank, FreshFile, SetupVersion
    <3>5. \A p \in Ops : op'[p] = op[p]
      BY <2>3, <3>1, CloseOps
    <3> QED BY <3>2, <3>3, <3>4, <3>5
  <2> QED BY <1>1, <2>2, <2>3 DEF TabStep, ResaveRefused, Resave, ResaveFails
<1>3. ASSUME NEW p \in Ops, Holds(p), op[p].tab # t
      PROVE  Holds(p)'
  <2>1. lock \in Seq(Ops) /\ lock # <<>> /\ Head(lock) = p
    BY <1>3 DEF Holds, AwaitInv, TypeInv, TypeOK
  <2>2. CASE Open(t)
    BY <1>3, <2>2, OpenEffect, HolderWaitsFirst DEF AwaitInv
  <2>3. CASE Close(t)
    <3> DEFINE K == {i \in DOMAIN lock : op[lock[i]].tab # t}
    <3>1. lock' = Keeping(lock, K)
      BY <2>3 DEF Close
    <3>2. lock[1] = p /\ 1 \in DOMAIN lock
      BY <2>1
    <3>3. 1 \in K /\ K \in SUBSET (DOMAIN lock)
      BY <1>3, <3>2
    <3> HIDE DEF K
    <3>4. lock' # <<>> /\ Head(lock') = p
      BY <2>1, <3>1, <3>2, <3>3, HeadKept
    <3> QED BY <3>4 DEF Holds
  <2> QED BY <1>1, <2>2, <2>3 DEF TabStep, ResaveRefused, Resave, ResaveFails
<1>4. ASSUME NEW p \in Ops, op[p].pc \in PastFreshness
      PROVE  op[p].tab \in Tabs \ {t}
  BY <1>2, <1>4 DEF PastFreshness, Running
<1>5. LockHeld'
  BY <1>2, <1>3, <1>4 DEF FenceInv, LockHeld
<1>6. NotBeforeSetup' /\ MarkCovers'
  BY <1>2 DEF FenceInv, NotBeforeSetup, MarkCovers
<1>7. ASSUME NEW p \in Ops
      PROVE  Committing(op[p], mem[op[p].tab], snap[op[p].tab], cache[op[p].tab])'
  <2>1. CASE op[p].pc \notin PastFreshness
    BY <1>2, <2>1 DEF Committing, PastFreshness
  <2>2. CASE op[p].pc \in PastFreshness
    <3>1. Committing(op[p], mem[op[p].tab], snap[op[p].tab], cache[op[p].tab])
      BY DEF FenceInv
    <3>2. op'[p] = op[p] /\ op[p].tab \in Tabs \ {t}
      BY <1>2, <1>4, <2>2
    <3> QED BY <1>2, <3>1, <3>2 DEF Committing
  <2> QED BY <2>1, <2>2
<1> QED BY <1>5, <1>6, <1>7 DEF FenceInv, AwaitInv

LEMMA FenceNext ==
  ASSUME Fenced, AwaitInv, AwaitInv', FenceInv, [Next]_vars
  PROVE  FenceInv'
<1>1. Settled' /\ ~tampered'
  BY SettledStep, UntouchedStep DEF Fenced, FenceInv
<1>2. CASE \E t \in Tabs : TabStep(t)
  BY <1>1, <1>2, FenceTab
<1>3. CASE \E t \in Tabs, o \in Ops : Start(t, o)
  BY <1>1, <1>3, FenceStart
<1>4. CASE \E o \in Ops : Step(o)
  BY <1>1, <1>4, FenceStep
<1>5. CASE LateWriteLands \/ Tamper \/ Replay
  BY <1>5 DEF LateWriteLands, Tamper, Replay, FenceInv, Settled, Fenced
<1>6. CASE UNCHANGED vars
  <2>1. UNCHANGED <<file, ledger, lock, mem, snap, cache, op>>
    BY <1>6 DEF vars
  <2>2. LockHeld' /\ NotBeforeSetup' /\ MarkCovers'
    BY <2>1 DEF FenceInv, LockHeld, NotBeforeSetup, MarkCovers, Holds
  <2>3. \A p \in Ops : Committing(op[p], mem[op[p].tab], snap[op[p].tab], cache[op[p].tab])'
    BY <2>1 DEF FenceInv, Committing, HasTag
  <2> QED BY <1>1, <2>2, <2>3 DEF FenceInv, AwaitInv
<1> QED BY <1>2, <1>3, <1>4, <1>5, <1>6 DEF Next

THEOREM FenceInductive == Fenced => (Spec => [](AwaitInv /\ FenceInv))
<1> SUFFICES ASSUME Fenced PROVE Spec => [](AwaitInv /\ FenceInv)
  OBVIOUS
<1>1. Init => AwaitInv /\ FenceInv
  BY AwaitInit, FenceInit
<1>2. AwaitInv /\ FenceInv /\ [Next]_vars => (AwaitInv /\ FenceInv)'
  BY AwaitStep, FenceNext DEF Fenced
<1> QED BY <1>1, <1>2, PTL DEF Spec

(* Y-15: any number of tabs, on a backend whose every commit raises the      *)
(* mark: the first write of a tab that has a baseline replaces no generation *)
(* above that baseline.                                                      *)
THEOREM FirstWritesFenced == Fenced => (Spec => FirstWriteFenced)
<1> SUFFICES ASSUME Fenced PROVE Spec => FirstWriteFenced
  OBVIOUS
<1> DEFINE Step1 == \A o \in Ops :
                      WriteLands(o) /\ cache[op[o].tab] = NotCached /\ snap[op[o].tab] # NoState
                        => file.ver <= snap[op[o].tab].ver
<1>1. ASSUME AwaitInv, FenceInv, NEW o \in Ops, WriteLands(o),
             cache[op[o].tab] = NotCached, snap[op[o].tab] # NoState
      PROVE  file.ver <= snap[op[o].tab].ver
  <2>1. op[o].pc = "writing" /\ Holds(o) /\ op[o].tab \in Tabs
    BY <1>1, LandsEffect, StepFrame DEF AwaitInv, Step
  <2>2. \A p \in Ops : op[p].pc # "landed"
    <3>1. \A p \in Ops : op[p].pc = "landed" => p = o
      BY <1>1, <2>1, HolderWaitsFirst DEF FenceInv, LockHeld, PastFreshness, AwaitInv
    <3> QED BY <2>1, <3>1
  <2>3. file.ver <= Larger(ledger, SetupVersion)
    BY <1>1, <2>2 DEF FenceInv, MarkCovers
  <2>4. ledger <= snap[op[o].tab].ver /\ SetupVersion <= snap[op[o].tab].ver
    BY <1>1, <2>1 DEF FenceInv, Committing, PastFreshness, NotBeforeSetup
  <2>5. ledger \in Int /\ file.ver \in Int /\ snap[op[o].tab].ver \in Int
    BY <1>1, <2>1, StateUpdate DEF AwaitInv, TypeInv, TypeOK
  <2> QED BY <2>3, <2>4, <2>5 DEF Larger, SetupVersion
<1>2. AwaitInv /\ FenceInv /\ [Next]_vars => [Step1]_vars
  BY <1>1
<1> QED BY <1>2, FenceInductive, PTL DEF Spec, FirstWriteFenced

-----------------------------------------------------------------------------
(* What the row edits do to the map the rows stand for.                     *)

LEMMA LookupValue ==
  ASSUME NEW rows \in Seq(Row), Unique(rows)
  PROVE  /\ \A k \in DOMAIN rows : Lookup(rows, rows[k].id) = rows[k].val
         /\ \A id : ~Has(rows, id) => Lookup(rows, id) = NoId
<1>1. ASSUME NEW k \in DOMAIN rows
      PROVE  Lookup(rows, rows[k].id) = rows[k].val
  <2>1. PositionsOf(rows, rows[k].id) = {k}
    BY DEF PositionsOf, Unique
  <2>2. Cardinality({k}) = 1 /\ {k} # {}
    BY FS_Singleton
  <2>3. Nth({k}, 1) = k
    BY <2>2, NthInSet
  <2>4. IndexOf(rows, rows[k].id) = k
    BY <2>1, <2>2, <2>3 DEF IndexOf, Has
  <2> QED BY <2>1, <2>2, <2>4 DEF Lookup
<1>2. \A id : ~Has(rows, id) => Lookup(rows, id) = NoId
  BY DEF Has, Lookup
<1> QED BY <1>1, <1>2

LEMMA IndexFound ==
  ASSUME NEW rows \in Seq(Row), NEW id
  PROVE  IF Has(rows, id) THEN IndexOf(rows, id) \in DOMAIN rows /\ rows[IndexOf(rows, id)].id = id
                          ELSE IndexOf(rows, id) = 0 /\ \A k \in DOMAIN rows : rows[k].id # id
<1>1. CASE Has(rows, id)
  <2>1. Nth(PositionsOf(rows, id), 1) \in PositionsOf(rows, id)
    BY <1>1, NthInSet DEF Has
  <2> QED BY <1>1, <2>1 DEF IndexOf, PositionsOf
<1>2. CASE ~Has(rows, id)
  BY <1>2 DEF Has, IndexOf, PositionsOf
<1> QED BY <1>1, <1>2

(* A row is put in the place of the row of its id, or at the end. *)
LEMMA LookupUpsert ==
  ASSUME NEW rows \in Seq(Row), Unique(rows), NEW row \in Row
  PROVE  /\ Unique(Upsert(rows, row)) /\ Upsert(rows, row) \in Seq(Row)
         /\ \A id : Lookup(Upsert(rows, row), id)
                      = IF id = row.id THEN row.val ELSE Lookup(rows, id)
<1> DEFINE n == IndexOf(rows, row.id)
           new == Upsert(rows, row)
<1>1. DOMAIN rows = 1..Len(rows) /\ Len(rows) \in Nat
  OBVIOUS
<1>2. CASE Has(rows, row.id)
  <2>1. n \in DOMAIN rows /\ rows[n].id = row.id
    BY <1>2, IndexFound
  <2>2. new = [rows EXCEPT ![n] = row]
    BY <2>1 DEF Upsert, PutAt
  <2>3. /\ new \in Seq(Row) /\ DOMAIN new = DOMAIN rows /\ new[n] = row
        /\ \A k \in DOMAIN rows \ {n} : new[k] = rows[k]
    BY <2>1, <2>2
  <2>4. Unique(new)
    BY <2>1, <2>3 DEF Unique
  <2>5. \A id : Has(new, id) <=> Has(rows, id)
    BY <2>1, <2>3 DEF Has, PositionsOf
  <2> HIDE DEF n, new
  <2>6. ASSUME NEW id
        PROVE  Lookup(new, id) = IF id = row.id THEN row.val ELSE Lookup(rows, id)
    <3>1. CASE id = row.id
      BY <2>1, <2>3, <2>4, <3>1, LookupValue
    <3>2. CASE id # row.id /\ Has(rows, id)
      <4>1. PICK k \in DOMAIN rows : rows[k].id = id
        BY <3>2 DEF Has, PositionsOf
      <4>2. k # n /\ new[k] = rows[k]
        BY <2>1, <2>3, <3>2, <4>1
      <4>3. Lookup(new, id) = rows[k].val /\ Lookup(rows, id) = rows[k].val
        BY <2>3, <2>4, <4>1, <4>2, LookupValue
      <4> QED BY <3>2, <4>3
    <3>3. CASE id # row.id /\ ~Has(rows, id)
      BY <2>3, <2>4, <2>5, <3>3, LookupValue
    <3> QED BY <3>1, <3>2, <3>3
  <2> QED BY <2>3, <2>4, <2>6 DEF new
<1>3. CASE ~Has(rows, row.id)
  <2>1. n = 0 /\ \A k \in DOMAIN rows : rows[k].id # row.id
    BY <1>3, IndexFound
  <2>2. new = Append(rows, row)
    BY <1>1, <2>1 DEF Upsert, PutAt
  <2>3. /\ new \in Seq(Row) /\ DOMAIN new = DOMAIN rows \cup {Len(rows) + 1}
        /\ new[Len(rows) + 1] = row /\ \A k \in DOMAIN rows : new[k] = rows[k]
    BY <1>1, <2>2
  <2>4. Unique(new)
    BY <2>1, <2>3 DEF Unique
  <2>5. \A id : Has(new, id) <=> Has(rows, id) \/ id = row.id
    BY <2>3 DEF Has, PositionsOf
  <2> HIDE DEF n, new
  <2>6. ASSUME NEW id
        PROVE  Lookup(new, id) = IF id = row.id THEN row.val ELSE Lookup(rows, id)
    <3>1. CASE id = row.id
      BY <2>3, <2>4, <3>1, LookupValue
    <3>2. CASE id # row.id /\ Has(rows, id)
      <4>1. PICK k \in DOMAIN rows : rows[k].id = id
        BY <3>2 DEF Has, PositionsOf
      <4>2. k \in DOMAIN new /\ new[k] = rows[k]
        BY <2>3, <4>1
      <4>3. Lookup(new, id) = rows[k].val /\ Lookup(rows, id) = rows[k].val
        BY <2>3, <2>4, <4>1, <4>2, LookupValue
      <4> QED BY <3>2, <4>3
    <3>3. CASE id # row.id /\ ~Has(rows, id)
      BY <2>3, <2>4, <2>5, <3>3, LookupValue
    <3> QED BY <3>1, <3>2, <3>3
  <2> QED BY <2>3, <2>4, <2>6 DEF new
<1> QED BY <1>2, <1>3

LEMMA LookupSingle ==
  ASSUME NEW row \in Row
  PROVE  /\ Unique(<<row>>) /\ <<row>> \in Seq(Row)
         /\ \A id : Lookup(<<row>>, id) = IF id = row.id THEN row.val ELSE NoId
<1> DEFINE new == <<row>>
<1>1. new \in Seq(Row) /\ DOMAIN new = {1} /\ new[1] = row
  OBVIOUS
<1> HIDE DEF new
<1>2. Unique(new)
  BY <1>1 DEF Unique
<1>3. \A id : Has(new, id) <=> id = row.id
  BY <1>1 DEF Has, PositionsOf
<1>4. \A id : Lookup(new, id) = IF id = row.id THEN row.val ELSE NoId
  BY <1>1, <1>2, <1>3, LookupValue
<1> QED BY <1>1, <1>2, <1>4 DEF new

LEMMA LookupEmpty == Unique(<<>>) /\ \A id : Lookup(<<>>, id) = NoId
<1>1. \A id : ~Has(<<>>, id)
  BY DEF Has, PositionsOf
<1> QED BY <1>1 DEF Unique, Lookup, Has

(* A deletion leaves every other row with its value. *)
LEMMA LookupPurge ==
  ASSUME NEW rows \in Seq(Row), Unique(rows), NEW gone
  PROVE  /\ Unique(Purge(rows, gone)) /\ Purge(rows, gone) \in Seq(Row)
         /\ \A id : Lookup(Purge(rows, gone), id) = IF id = gone THEN NoId ELSE Lookup(rows, id)
<1> DEFINE K == DOMAIN rows \ PositionsOf(rows, gone)
           rank(i) == Cardinality({k \in K : k <= i})
           new == Purge(rows, gone)
<1>1. DOMAIN rows = 1..Len(rows) /\ Len(rows) \in Nat /\ K \in SUBSET (1..Len(rows))
  OBVIOUS
<1>2. /\ \A i \in K : rank(i) \in 1..Cardinality(K) /\ Nth(K, rank(i)) = i
      /\ \A n \in 1..Cardinality(K) : Nth(K, n) \in K /\ rank(Nth(K, n)) = n
  BY <1>1, NthEnumerates
<1>3. new = Keeping(rows, K)
  BY DEF Purge
<1>4. DOMAIN new = 1..Cardinality(K) /\ \A n \in 1..Cardinality(K) : new[n] = rows[Nth(K, n)]
  BY <1>3 DEF Keeping
<1>5. new \in Seq(Row)
  BY <1>1, <1>3, KeepingIsASelection
<1>6. \A k \in DOMAIN rows : k \in K <=> rows[k].id # gone
  BY DEF PositionsOf
<1> HIDE DEF K, rank, new
<1>7. ASSUME NEW i \in DOMAIN new, NEW j \in DOMAIN new, new[i].id = new[j].id
      PROVE  i = j
  <2>1. Nth(K, i) \in DOMAIN rows /\ Nth(K, j) \in DOMAIN rows
        /\ rows[Nth(K, i)].id = rows[Nth(K, j)].id
    BY <1>1, <1>2, <1>4, <1>7
  <2>2. Nth(K, i) = Nth(K, j)
    BY <2>1 DEF Unique
  <2> QED BY <1>2, <1>4, <2>2
<1>8. Unique(new)
  BY <1>7 DEF Unique
<1>9. ASSUME NEW id
      PROVE  Lookup(new, id) = IF id = gone THEN NoId ELSE Lookup(rows, id)
  <2>1. CASE id = gone
    <3>1. \A n \in DOMAIN new : new[n].id # gone
      BY <1>1, <1>2, <1>4, <1>6
    <3>2. ~Has(new, id)
      BY <2>1, <3>1 DEF Has, PositionsOf
    <3> QED BY <1>5, <1>8, <2>1, <3>2, LookupValue
  <2>2. CASE id # gone /\ Has(rows, id)
    <3>1. PICK k \in DOMAIN rows : rows[k].id = id
      BY <2>2 DEF Has, PositionsOf
    <3>2. k \in K
      BY <1>6, <2>2, <3>1
    <3>3. rank(k) \in DOMAIN new /\ new[rank(k)] = rows[k]
      BY <1>2, <1>4, <3>2
    <3>4. Lookup(new, id) = rows[k].val /\ Lookup(rows, id) = rows[k].val
      BY <1>5, <1>8, <3>1, <3>3, LookupValue
    <3> QED BY <2>2, <3>4
  <2>3. CASE id # gone /\ ~Has(rows, id)
    <3>1. \A n \in DOMAIN new : new[n].id # id
      BY <1>1, <1>2, <1>4, <2>3 DEF Has, PositionsOf
    <3>2. ~Has(new, id)
      BY <3>1 DEF Has, PositionsOf
    <3> QED BY <1>5, <1>8, <2>3, <3>2, LookupValue
  <2> QED BY <2>1, <2>2, <2>3
<1> QED BY <1>5, <1>8, <1>9 DEF new

LEMMA EditedRows ==
  ASSUME NEW rows \in Seq(Row), Unique(rows), NEW o \in Ops, NEW r, r.id \in Ids,
         r.kind \in {"save", "bulk", "replace", "purge", "trash"}
  PROVE  /\ Unique(Edited(o, r, rows))
         /\ r.kind \in {"save", "bulk", "trash"} =>
              \A i : Lookup(Edited(o, r, rows), i) = IF i = r.id THEN o ELSE Lookup(rows, i)
         /\ r.kind = "replace" =>
              \A i : Lookup(Edited(o, r, rows), i) = IF i = r.id THEN o ELSE NoId
         /\ r.kind = "purge" =>
              \A i : Lookup(Edited(o, r, rows), i) = IF i = r.id THEN NoId ELSE Lookup(rows, i)
<1> DEFINE row == [id |-> r.id, val |-> o]
<1>1. row \in Row /\ row.id = r.id /\ row.val = o
  BY RowType
<1>2. CASE r.kind \in {"save", "bulk", "trash"}
  <2>1. Edited(o, r, rows) = Upsert(rows, row)
    BY <1>2 DEF Edited
  <2> HIDE DEF row
  <2> QED BY <1>1, <1>2, <2>1, LookupUpsert
<1>3. CASE r.kind = "replace"
  <2>1. Edited(o, r, rows) = <<row>>
    BY <1>3 DEF Edited
  <2> HIDE DEF row
  <2> QED BY <1>1, <1>3, <2>1, LookupSingle
<1>4. CASE r.kind = "purge"
  <2>1. Edited(o, r, rows) = Purge(rows, r.id)
    BY <1>4 DEF Edited
  <2> QED BY <1>4, <2>1, LookupPurge
<1> QED BY <1>2, <1>3, <1>4

LEMMA EditedSame ==
  ASSUME NEW o, NEW r, NEW q, SameRequest(r, q), NEW rows
  PROVE  Edited(o, r, rows) = Edited(o, q, rows)
BY DEF Edited, SameRequest

(* Between its edit and its write, an operation and its rows stay the same. *)
LEMMA PendingKept ==
  ASSUME NEW o \in Ops, NEW t \in Tabs, op[o].tab = t, Pending(o, op[o], mem[t]),
         SameRequest(op'[o], op[o]), file' = file, mem'[t].rows = mem[t].rows,
         op'[o].pc # "encrypting",
         op'[o].pc \in Undoable => op[o].pc \in Undoable \ {"encrypting"}
  PROVE  Pending(o, op[o], mem[t])'
<1>1. \A rows : Edited(o, op'[o], rows) = Edited(o, op[o], rows)
  BY EditedSame
<1>2. op'[o].id = op[o].id /\ op'[o].kind = op[o].kind
  BY DEF SameRequest
<1>3. (Edited(o, op[o], file.rows))' = Edited(o, op'[o], file.rows)
  BY DEF Edited, Upsert, PutAt, IndexOf, Has, PositionsOf, Nth, Purge, Keeping
<1> QED BY <1>1, <1>2, <1>3 DEF Pending

LEMMA EditFrame ==
  ASSUME NEW t \in Tabs, NEW o \in Ops,
         \A p \in Ops \ {o} : op'[p].pc \notin Running,
         op'[o].pc \in Running => op'[o].tab = t /\ Pending(o, op[o], mem[t])',
         Unique(file.rows)'
  PROVE  EditInv'
BY DEF EditInv

LEMMA EditInit == Init => EditInv
<1> SUFFICES ASSUME Init PROVE EditInv
  OBVIOUS
<1>1. \A o \in Ops : op[o].pc = "idle"
  BY DEF Init, At
<1>2. PICK start \in InitialFiles : file = start[1]
  BY DEF Init
<1>3. file.rows = <<>> \/ \E i \in Ids : file.rows = <<[id |-> i, val |-> Seed]>>
  BY <1>2, FirstFile
<1>4. Unique(file.rows)
  <2>1. CASE file.rows = <<>>
    BY <2>1, LookupEmpty
  <2>2. ASSUME NEW i \in Ids, file.rows = <<[id |-> i, val |-> Seed]>>
        PROVE  Unique(file.rows)
    <3>1. [id |-> i, val |-> Seed] \in Row
      BY RowType
    <3> QED BY <2>2, <3>1, LookupSingle
  <2> QED BY <1>3, <2>1, <2>2
<1> QED BY <1>1, <1>4 DEF EditInv, Running

LEMMA EditStep ==
  ASSUME SoleDesktop, ~MaySealFail, DesktopInv, ~tampered, EditInv, NEW o \in Ops, Step(o)
  PROVE  EditInv'
<1>0. PICK t \in Tabs : op[o].tab = t
  BY StepFrame DEF DesktopInv, AwaitInv
<1>1. /\ op[o].pc \in Running /\ op[o].tab = t /\ status[t] = "open"
      /\ \A p \in Ops \ {o} : op'[p].pc \notin Running
      /\ op'[o].pc \in Running => SameRequest(op'[o], op[o]) /\ op'[o].tab = t
      /\ AwaitInv /\ TypeInv /\ backend # "opfs"
  BY <1>0, StepFrame, SoleFrame
     DEF DesktopInv, AwaitInv, SameRequest, SoleDesktop, TypeInv, TypeOK
<1>2. /\ Follows(op[o], mem[t], snap[t]) /\ Pending(o, op[o], mem[t]) /\ Unique(file.rows)
      /\ mem[t] \in State /\ file \in State /\ file.rows \in Seq(Row)
  BY <1>1, StateUpdate DEF DesktopInv, FollowInv, TabFollowsFile, InFlight, EditInv, TypeInv, TypeOK
<1>3. file' = file => Unique(file.rows)'
  BY <1>2 DEF Unique
<1>4. CASE Mutate(o)
  <2>1. /\ op[o].pc = "encrypting" /\ op'[o].pc = "queued" /\ SameRequest(op'[o], op[o])
        /\ mem'[t].rows = Edit(o, mem[t].rows) /\ file' = file
    BY <1>1, <1>4, MutateEffect DEF SameLocals
  <2>2. mem[t] = file /\ op[o].kind \in {"save", "bulk", "replace"} /\ op[o].id \in Ids
        /\ (op[o].kind = "save" => op[o].at = IndexOf(file.rows, op[o].id))
    BY <1>2, <2>1 DEF Follows, Pending
  <2>3. Edit(o, file.rows) = Edited(o, op[o], file.rows)
    BY <2>2 DEF Edit, Edited, Upsert
  <2>4. Edited(o, op[o], file.rows)' = Edited(o, op[o], file.rows)
    BY <2>1 DEF Edited, Upsert, PutAt, IndexOf, Has, PositionsOf, Nth, Purge, Keeping, SameRequest
  <2>5. Pending(o, op[o], mem[t])'
    BY <2>1, <2>2, <2>3, <2>4 DEF Pending, SameRequest
  <2> QED BY <1>1, <1>3, <2>1, <2>5, EditFrame DEF Running
<1>5. CASE Conflict(o) \/ Bar(o) \/ WriteFails(o)
  <2>1. PICK outcome \in Outcomes : Fail(o, outcome)
    BY <1>5 DEF Conflict, Bar, WriteFails, Outcomes
  <2>2. op'[o].pc \notin Running /\ file' = file
    BY <1>1, <1>5, <2>1, FailEffect DEF Conflict, Bar, WriteFails, Outcomes, Running
  <2> QED BY <1>1, <1>3, <2>2, EditFrame
<1>6. CASE WriteTimesOut(o) \/ SealFails(o)
  BY <1>1, <1>6 DEF WriteTimesOut, SealFails
<1>7. CASE Gate(o)
  <2>1. PICK pc \in {"gated", "barred"} : Goto(o, pc)
    BY <1>7 DEF Gate
  <2>2. /\ op[o].pc = "queued" /\ op'[o].pc \in {"gated", "barred"} /\ SameRequest(op'[o], op[o])
        /\ UNCHANGED <<file, mem>>
    BY <1>1, <1>7, <2>1, GotoEffect DEF Gate, SameLocals, shared, perTab
  <2> QED BY <1>1, <1>2, <1>3, <2>2, PendingKept, EditFrame DEF Undoable
<1>8. CASE Bump(o) \/ Seal(o) \/ Attach(o)
  <2>1. /\ op[o].pc \in {"gated", "bumped", "sealed"} /\ op'[o].pc \in {"bumped", "sealed", "writing"}
        /\ SameRequest(op'[o], op[o]) /\ mem'[t].rows = mem[t].rows /\ file' = file
    BY <1>1, <1>8, BumpEffect, SealEffect, AttachEffect DEF SameLocals, shared
  <2> QED BY <1>1, <1>2, <1>3, <2>1, PendingKept, EditFrame DEF Undoable
<1>9. CASE WriteLands(o)
  <2>1. /\ op[o].pc = "writing" /\ op'[o].pc = "landed" /\ file' = op[o].image
        /\ SameRequest(op'[o], op[o])
    BY <1>1, <1>9, LandsEffect DEF SameLocals
  <2>2. /\ file'.rows = Edited(o, op[o], file.rows) /\ op[o].id \in Ids
        /\ op[o].kind \in {"save", "bulk", "replace", "purge", "trash"}
    BY <1>2, <2>1 DEF Follows, Pending, Undoable
  <2>3. Unique(file'.rows)
    BY <1>2, <2>2, EditedRows
  <2>4. Unique(file.rows)'
    BY <2>3 DEF Unique
  <2>5. Pending(o, op[o], mem[t])'
    BY <2>1, <2>2 DEF Pending, Undoable, SameRequest
  <2> QED BY <1>1, <2>4, <2>5, EditFrame
<1>10. CASE Complete(o) \/ ReadEmpty(o) \/ ReadVerdict(o) \/ ReadEnds(o)
  <2>1. /\ op'[o].pc \in Running => op'[o].pc \in {"reading", "verified", "corrupt"}
        /\ file' = file
    <3>1. CASE Complete(o)
      BY <1>1, <3>1, CompleteEffect DEF Running
    <3>2. CASE ReadEmpty(o)
      BY <1>1, <3>2, ReadEmptyEffect DEF Running, shared
    <3>3. CASE ReadVerdict(o)
      <4>1. PICK pc \in {"verified", "corrupt"} : Goto(o, pc)
        BY <3>3 DEF ReadVerdict
      <4> QED BY <1>1, <3>3, <4>1, GotoEffect DEF ReadVerdict, shared
    <3>4. CASE ReadEnds(o)
      BY <1>1, <3>4, ReadEndsEffect DEF Running, shared
    <3> QED BY <1>10, <3>1, <3>2, <3>3, <3>4
  <2>2. op'[o].pc \in Running => Pending(o, op[o], mem[t])'
    BY <1>1, <1>2, <2>1 DEF Pending, Undoable, SameRequest
  <2> QED BY <1>1, <1>3, <2>1, <2>2, EditFrame
<1> QED BY <1>4, <1>5, <1>6, <1>7, <1>8, <1>9, <1>10 DEF Step

LEMMA EditStart ==
  ASSUME SoleDesktop, DesktopInv, ~tampered, EditInv, NEW t \in Tabs, NEW o \in Ops, Start(t, o)
  PROVE  EditInv'
<1>1. /\ SoleTab /\ AwaitInv /\ TypeInv /\ status[t] = "open" /\ InFlight(t) = {} /\ op'[o].tab = t
      /\ \A p \in Ops \ {o} : op'[p] = op[p]
      /\ file' = file
  BY StartFrame DEF DesktopInv, AwaitInv, SoleDesktop
<1>2. \A p \in Ops \ {o} : op'[p].pc \notin Running
  BY <1>1, SoleIdle
<1>3. mem[t] = file /\ Unique(file.rows)
  BY <1>1 DEF DesktopInv, FollowInv, TabFollowsFile, EditInv
<1>4. /\ op'[o].id \in Ids
      /\ \/ op'[o].pc = "encrypting" /\ op'[o].kind \in {"save", "bulk", "replace"}
         \/ op'[o].pc = "queued" /\ op'[o].kind \in {"purge", "trash"}
         \/ op'[o].pc = "reading" /\ op'[o].kind = "read"
  BY <1>1, StartRequest
<1>5. /\ op'[o].kind = "save" => op'[o].at = IndexOf(file.rows, op'[o].id)
      /\ op'[o].kind = "purge" => mem'[t].rows = Purge(file.rows, op'[o].id)
      /\ op'[o].kind = "trash" =>
           /\ Has(file.rows, op'[o].id)
           /\ mem'[t].rows = Upsert(file.rows, [id |-> op'[o].id, val |-> o])
  <2>1. op'[o].kind = "save" => op'[o].at = IndexOf(mem[t].rows, op'[o].id)
    BY <1>1, StartEffect
  <2>2. op'[o].kind = "purge" => mem'[t].rows = Purge(mem[t].rows, op'[o].id)
    BY <1>1, StartEffect
  <2>3. op'[o].kind = "trash" =>
          /\ Has(mem[t].rows, op'[o].id)
          /\ mem'[t].rows = Upsert(mem[t].rows, [id |-> op'[o].id, val |-> o])
    BY <1>1, StartEffect
  <2> QED BY <1>3, <2>1, <2>2, <2>3
<1>6. op'[o].pc = "queued" => mem'[t].rows = Edited(o, op'[o], file.rows)
  BY <1>4, <1>5 DEF Edited
<1>7. Edited(o, op[o], file.rows)' = Edited(o, op'[o], file.rows)
  BY <1>1 DEF Edited, Upsert, PutAt, IndexOf, Has, PositionsOf, Nth, Purge, Keeping
<1>8. Pending(o, op[o], mem[t])'
  BY <1>1, <1>4, <1>5, <1>6, <1>7 DEF Pending, Undoable, IndexOf, Has, PositionsOf, Nth
<1>9. Unique(file.rows)'
  BY <1>1, <1>3 DEF Unique
<1> QED BY <1>1, <1>2, <1>8, <1>9, EditFrame

LEMMA EditNext ==
  ASSUME SoleDesktop, ~MaySealFail, DesktopInv, ~tampered, ~tampered', EditInv, [Next]_vars
  PROVE  EditInv'
<1>1. AwaitInv /\ TypeInv /\ Settled /\ SoleTab
  BY DEF DesktopInv, AwaitInv, FollowInv, SoleDesktop
<1>2. CASE \E t \in Tabs : TabStep(t)
  <2>1. PICK t \in Tabs : TabStep(t)
    BY <1>2
  <2>2. Open(t) \/ Close(t)
    BY <1>1, <2>1 DEF TabStep, ResaveRefused, Resave, ResaveFails, Settled
  <2>3. file' = file /\ \A o \in Ops : op'[o].pc \notin Running
    <3>1. CASE Open(t)
      <4>1. status[t] = "closed" /\ op' = op /\ file' = file
        BY <1>1, <3>1, OpenEffect
      <4> QED BY <1>1, <4>1, SoleIdle
    <3>2. CASE Close(t)
      <4>1. \A o \in Ops \ InFlight(t) : op[o].pc \notin Running
        BY <1>1, RunningType DEF SoleTab, InFlight
      <4>2. file' = file
        BY <1>1, <3>2, CloseTabs
      <4> QED BY <3>2, <4>1, <4>2, CloseOps DEF Running
    <3> QED BY <2>2, <3>1, <3>2
  <2> QED BY <2>3 DEF EditInv, Unique
<1>3. CASE \E t \in Tabs, o \in Ops : Start(t, o)
  BY <1>3, EditStart
<1>4. CASE \E o \in Ops : Step(o)
  BY <1>4, EditStep
<1>5. CASE LateWriteLands \/ Tamper \/ Replay
  BY <1>1, <1>5 DEF LateWriteLands, Tamper, Replay, Settled
<1>6. CASE UNCHANGED vars
  <2>1. UNCHANGED <<file, mem, op>>
    BY <1>6 DEF vars
  <2>2. \A o \in Ops : /\ Edited(o, op[o], file.rows)' = Edited(o, op[o], file.rows)
                      /\ IndexOf(file.rows, op[o].id)' = IndexOf(file.rows, op[o].id)
                      /\ Has(file.rows, op[o].id)' = Has(file.rows, op[o].id)
    BY <2>1 DEF Edited, Upsert, PutAt, IndexOf, Has, PositionsOf, Nth, Purge, Keeping
  <2>3. Unique(file.rows)'
    BY <2>1 DEF EditInv, Unique
  <2> QED BY <2>1, <2>2, <2>3 DEF EditInv, Pending
<1> QED BY <1>2, <1>3, <1>4, <1>5, <1>6 DEF Next

RegisterInv == DesktopInv /\ EditInv /\ ~tampered

(* One desktop tab whose signatures succeed, and nobody else writes the file. *)
SoleWriter == SoleDesktop /\ ~MaySealFail /\ ~MayTamper

THEOREM EditInductive == SoleWriter => (Spec => []RegisterInv)
<1> SUFFICES ASSUME SoleWriter PROVE Spec => []RegisterInv
  OBVIOUS
<1> USE DEF SoleWriter
<1>1. Init => EditInv
  BY EditInit
<1>2. DesktopInv /\ ~tampered /\ (~tampered)' /\ EditInv /\ [Next]_vars => EditInv'
  BY EditNext
<1> QED BY <1>1, <1>2, HealthInductive, Untouched, PTL DEF Spec, RegisterInv

-----------------------------------------------------------------------------
(* The refinement of VaultRegister, action by action. *)

LEMMA RegisterInit == Init => Register!Init
<1> SUFFICES ASSUME Init PROVE Register!Init
  OBVIOUS
<1>1. PICK start \in InitialFiles : file = start[1]
  BY DEF Init
<1>2. file.rows = <<>> \/ \E i \in Ids : file.rows = <<[id |-> i, val |-> Seed]>>
  BY <1>1, FirstFile
<1>3. ASSUME NEW j \in Ids
      PROVE  Lookup(file.rows, j) \in {Seed} \cup {NoId}
  <2>1. CASE file.rows = <<>>
    BY <2>1, LookupEmpty
  <2>2. ASSUME NEW i \in Ids, file.rows = <<[id |-> i, val |-> Seed]>>
        PROVE  Lookup(file.rows, j) \in {Seed} \cup {NoId}
    <3>1. [id |-> i, val |-> Seed] \in Row
      BY RowType
    <3> QED BY <2>2, <3>1, LookupSingle
  <2> QED BY <1>2, <2>1, <2>2
<1>4. \A o \in Ops : PhaseOf(op[o]) = "idle" /\ RequestOf(op[o]) = [kind |-> "none", id |-> NoId]
  BY DEF Init, At, PhaseOf, RequestOf, Running
<1> QED BY <1>3, <1>4 DEF Register!Init, Register!None

(* A step of one operation changes the abstract state of that operation only. *)
Phases == [o \in Ops |-> PhaseOf(op[o])]
Requested == [o \in Ops |-> RequestOf(op[o])]
Stored == [i \in Ids |-> Lookup(file.rows, i)]

LEMMA PhaseFrame ==
  ASSUME NEW o \in Ops, \A p \in Ops \ {o} : op'[p] = op[p]
  PROVE  /\ Phases' = [Phases EXCEPT ![o] = PhaseOf(op'[o])]
         /\ Requested' = [Requested EXCEPT ![o] = RequestOf(op'[o])]
<1>1. \A p \in Ops : /\ Phases'[p] = [Phases EXCEPT ![o] = PhaseOf(op'[o])][p]
                     /\ Requested'[p] = [Requested EXCEPT ![o] = RequestOf(op'[o])][p]
  BY DEF Phases, Requested, PhaseOf, RequestOf
<1> QED BY <1>1 DEF Phases, Requested

LEMMA StoredSame == file' = file => Stored' = Stored
BY DEF Stored, Lookup, PositionsOf, IndexOf, Has, Nth

LEMMA PhaseRunning ==
  ASSUME NEW r \in OpRecord
  PROVE  /\ r.pc \in Undoable => PhaseOf(r) = "running"
         /\ r.pc \in {"landed", "reading", "verified", "corrupt"} =>
              PhaseOf(r) = IF r.kind = "read" THEN "running" ELSE "committed"
         /\ PhaseOf(r) \in {"running", "committed"} => r.pc \in Running
         /\ r.pc \in Running => PhaseOf(r) \in {"running", "committed"}
         /\ r.pc \in {"idle", "acked", "failed", "lost"} => PhaseOf(r) = r.pc
         /\ r.pc \in {"conflict", "refused"} => PhaseOf(r) = "failed"
<1>1. r.pc \in {"idle"} \cup Running \cup Outcomes
  BY DEF OpRecord
<1>2. CASE r.pc \in Undoable
  BY <1>2 DEF PhaseOf, Undoable, Running
<1>3. CASE r.pc \in {"landed", "reading", "verified", "corrupt"}
  BY <1>3 DEF PhaseOf, Undoable, Running
<1>4. CASE r.pc \in {"idle", "acked", "failed", "lost", "conflict", "refused"}
  BY <1>4 DEF PhaseOf, Undoable, Running
<1> QED BY <1>1, <1>2, <1>3, <1>4 DEF Undoable, Running, Outcomes

LEMMA EndedRequest ==
  ASSUME NEW o \in Ops, NEW pc, op'[o] = At(pc)
  PROVE  RequestOf(op'[o]) = [kind |-> "none", id |-> NoId]
BY DEF At, RequestOf

LEMMA RegisterStart ==
  ASSUME TypeInv, TypeInv', NEW t \in Tabs, NEW o \in Ops, Start(t, o)
  PROVE  Register!Start(o)
<1>1. op[o].pc = "idle" /\ (\A p \in Ops \ {o} : op'[p] = op[p]) /\ file' = file
  BY StartFrame
<1>2. /\ op'[o].id \in Ids
      /\ \/ op'[o].pc = "encrypting" /\ op'[o].kind \in {"save", "bulk", "replace"}
         \/ op'[o].pc = "queued" /\ op'[o].kind \in {"purge", "trash"}
         \/ op'[o].pc = "reading" /\ op'[o].kind = "read"
  BY StartRequest
<1>3. op[o] \in OpRecord /\ op'[o] \in OpRecord
  BY DEF TypeInv, TypeOK
<1>4. PhaseOf(op[o]) = "idle" /\ PhaseOf(op'[o]) = "running"
  BY <1>1, <1>2, <1>3, PhaseRunning DEF Undoable
<1>5. RequestOf(op'[o]) \in Register!Requests
  BY <1>2 DEF RequestOf, Register!Requests
<1>6. /\ Phases' = [Phases EXCEPT ![o] = "running"]
      /\ Requested' = [Requested EXCEPT ![o] = RequestOf(op'[o])]
      /\ Stored' = Stored /\ Phases[o] = "idle"
  BY <1>1, <1>4, PhaseFrame, StoredSame DEF Phases
<1> QED BY <1>5, <1>6 DEF Register!Start, Phases, Requested, Stored

(* The steps that only the code can see. *)
LEMMA RegisterStutters ==
  ASSUME NEW o \in Ops, \A p \in Ops \ {o} : op'[p] = op[p], file' = file,
         PhaseOf(op'[o]) = PhaseOf(op[o]), RequestOf(op'[o]) = RequestOf(op[o])
  PROVE  UNCHANGED Register!vars
<1>1. Phases' = Phases /\ Requested' = Requested /\ Stored' = Stored
  BY PhaseFrame, StoredSame DEF Phases, Requested
<1> QED BY <1>1 DEF Register!vars, Phases, Requested, Stored

LEMMA RegisterEnds ==
  ASSUME NEW o \in Ops, \A p \in Ops \ {o} : op'[p] = op[p], file' = file,
         NEW pc, op'[o] = At(pc)
  PROVE  Register!End(o, PhaseOf(op'[o]))
<1>1. /\ Phases' = [Phases EXCEPT ![o] = PhaseOf(op'[o])]
      /\ Requested' = [Requested EXCEPT ![o] = [kind |-> "none", id |-> NoId]]
      /\ Stored' = Stored
  BY PhaseFrame, EndedRequest, StoredSame
<1> QED BY <1>1 DEF Register!End, Register!None, Phases, Requested, Stored

(* The payload lands: the map takes the effect of the request. *)
LEMMA RegisterCommit ==
  ASSUME RegisterInv, TypeInv', NEW o \in Ops, WriteLands(o), op[o].tab \in Tabs,
         status[op[o].tab] = "open"
  PROVE  Register!Commit(o)
<1> DEFINE t == op[o].tab
           r == op[o]
<1>1. /\ r.pc = "writing" /\ op'[o].pc = "landed" /\ SameLocals(op'[o], r)
      /\ \A p \in Ops \ {o} : op'[p] = op[p]
      /\ file' = r.image /\ r.pc \in Running /\ r \in OpRecord /\ op'[o] \in OpRecord
  BY LandsEffect DEF RegisterInv, DesktopInv, AwaitInv, TypeInv, TypeOK, Running
<1>2. /\ Follows(r, mem[t], snap[t]) /\ Pending(o, r, mem[t]) /\ Unique(file.rows)
      /\ file.rows \in Seq(Row)
  BY <1>1, StateUpdate
     DEF RegisterInv, DesktopInv, FollowInv, TabFollowsFile, InFlight, EditInv, AwaitInv,
         TypeInv, TypeOK
<1>3. /\ file'.rows = Edited(o, r, file.rows) /\ r.id \in Ids
      /\ r.kind \in {"save", "bulk", "replace", "purge", "trash"}
      /\ r.kind = "trash" => Has(file.rows, r.id)
  BY <1>1, <1>2 DEF Follows, Pending, Undoable
<1>4. PhaseOf(r) = "running" /\ PhaseOf(op'[o]) = "committed" /\ RequestOf(op'[o]) = RequestOf(r)
  <2>1. op'[o].kind = r.kind /\ op'[o].id = r.id
    BY <1>1 DEF SameLocals, SameRequest
  <2> QED BY <1>1, <1>3, <2>1, PhaseRunning DEF Undoable, RequestOf
<1>5. /\ Phases' = [Phases EXCEPT ![o] = "committed"] /\ Phases[o] = "running"
      /\ Requested' = Requested /\ Requested[o] = RequestOf(r)
  BY <1>1, <1>4, PhaseFrame DEF Phases, Requested
<1>6. /\ RequestOf(r).id = r.id /\ RequestOf(r).kind # "read"
      /\ RequestOf(r).kind = IF r.kind \in {"save", "bulk"} THEN "write" ELSE r.kind
  BY <1>3 DEF RequestOf
<1>7. \A i \in Ids : Stored'[i] = Lookup(Edited(o, r, file.rows), i) /\ Stored[i] = Lookup(file.rows, i)
  <2>1. \A i \in Ids : Stored'[i] = Lookup(file'.rows, i)
    BY DEF Stored, Lookup, PositionsOf, IndexOf, Has, Nth
  <2> QED BY <1>3, <2>1 DEF Stored
<1>8. /\ r.kind \in {"save", "bulk", "trash"} =>
              \A i \in Ids : Stored'[i] = IF i = r.id THEN o ELSE Stored[i]
      /\ r.kind = "replace" => \A i \in Ids : Stored'[i] = IF i = r.id THEN o ELSE NoId
      /\ r.kind = "purge" => \A i \in Ids : Stored'[i] = IF i = r.id THEN NoId ELSE Stored[i]
  BY <1>2, <1>3, <1>7, EditedRows
<1>9. r.kind = "trash" => Stored[r.id] # NoId
  <2> SUFFICES ASSUME r.kind = "trash" PROVE Lookup(file.rows, r.id) # NoId
    BY <1>3, <1>7
  <2>1. PICK k \in DOMAIN file.rows : file.rows[k].id = r.id
    BY <1>3 DEF Has, PositionsOf
  <2>2. Lookup(file.rows, r.id) = file.rows[k].val
    BY <1>2, <2>1, LookupValue
  <2>3. file.rows[k] \in Row
    BY <1>2, <2>1
  <2> QED BY <2>2, <2>3, RefinementAssumption DEF Row
<1>10. Stored' = Register!Effect(o)
  <2> DEFINE i == RequestOf(r).id
  <2>1. Register!Effect(o) =
          CASE RequestOf(r).kind = "write"   -> [Stored EXCEPT ![i] = o]
            [] RequestOf(r).kind = "replace" -> [j \in Ids |-> IF j = i THEN o ELSE NoId]
            [] RequestOf(r).kind = "purge"   -> [Stored EXCEPT ![i] = NoId]
            [] RequestOf(r).kind = "trash"   -> [Stored EXCEPT ![i] = IF @ = NoId THEN NoId ELSE o]
    BY DEF Register!Effect, Stored
  <2>2. Stored = [j \in Ids |-> Stored[j]] /\ Stored' = [j \in Ids |-> Stored'[j]]
    BY DEF Stored
  <2> HIDE DEF r
  <2>3. CASE r.kind \in {"save", "bulk"}
    <3>1. Register!Effect(o) = [Stored EXCEPT ![r.id] = o]
      BY <1>6, <2>1, <2>3
    <3> QED BY <1>8, <2>2, <2>3, <3>1
  <2>4. CASE r.kind = "replace"
    <3>1. Register!Effect(o) = [j \in Ids |-> IF j = r.id THEN o ELSE NoId]
      BY <1>6, <2>1, <2>4
    <3> QED BY <1>8, <2>2, <2>4, <3>1
  <2>5. CASE r.kind = "purge"
    <3>1. Register!Effect(o) = [Stored EXCEPT ![r.id] = NoId]
      BY <1>6, <2>1, <2>5
    <3> QED BY <1>8, <2>2, <2>5, <3>1
  <2>6. CASE r.kind = "trash"
    <3>1. Register!Effect(o) = [Stored EXCEPT ![r.id] = IF @ = NoId THEN NoId ELSE o]
      BY <1>6, <2>1, <2>6
    <3>2. Register!Effect(o) = [Stored EXCEPT ![r.id] = o]
      BY <1>9, <2>6, <3>1
    <3> QED BY <1>8, <2>2, <2>6, <3>2
  <2> QED BY <1>3, <2>3, <2>4, <2>5, <2>6
<1> QED BY <1>5, <1>6, <1>10 DEF Register!Commit, Phases, Requested, Stored

(* The close of a sole tab is the death of the process. *)
LEMMA RegisterDies ==
  ASSUME SoleTab, TypeInv, TypeInv', NEW t \in Tabs, Close(t)
  PROVE  Register!Die
<1> DEFINE gone == {o \in Ops : Phases[o] \in {"running", "committed"}}
<1>1. /\ file' = file
      /\ \A o \in InFlight(t) : op'[o] = At("lost") /\ op'[o].pc = "lost"
      /\ \A o \in Ops \ InFlight(t) : op'[o] = op[o]
  BY CloseTabs, CloseOps
<1>2. \A o \in Ops : op[o] \in OpRecord /\ op'[o] \in OpRecord
  BY DEF TypeInv, TypeOK
<1>3. \A o \in Ops : o \in gone <=> o \in InFlight(t)
  <2>1. \A o \in Ops : o \in InFlight(t) <=> op[o].pc \in Running
    BY RunningType DEF SoleTab, InFlight
  <2>2. \A o \in Ops : op[o].pc \in Running <=> PhaseOf(op[o]) \in {"running", "committed"}
    BY <1>2, PhaseRunning
  <2> QED BY <2>1, <2>2 DEF Phases
<1>4. ASSUME NEW o \in Ops
      PROVE  /\ Phases'[o] = IF o \in gone THEN "lost" ELSE Phases[o]
             /\ Requested'[o] = IF o \in gone THEN [kind |-> "none", id |-> NoId]
                                              ELSE Requested[o]
  <2>1. CASE o \in InFlight(t)
    <3>1. op'[o] = At("lost") /\ op'[o].pc = "lost"
      BY <1>1, <2>1
    <3>2. PhaseOf(op'[o]) = "lost" /\ RequestOf(op'[o]) = [kind |-> "none", id |-> NoId]
      BY <1>2, <3>1, PhaseRunning, EndedRequest
    <3> QED BY <1>3, <2>1, <3>2 DEF Phases, Requested
  <2>2. CASE o \notin InFlight(t)
    <3>1. op'[o] = op[o]
      BY <1>1, <2>2
    <3> QED BY <1>3, <2>2, <3>1 DEF Phases, Requested, PhaseOf, RequestOf
  <2> QED BY <2>1, <2>2
<1>5. /\ Phases' = [o \in Ops |-> IF o \in gone THEN "lost" ELSE Phases[o]]
      /\ Requested' = [o \in Ops |-> IF o \in gone THEN [kind |-> "none", id |-> NoId]
                                                   ELSE Requested[o]]
      /\ Stored' = Stored
  <2> HIDE DEF gone
  <2>1. Phases' = [o \in Ops |-> Phases'[o]] /\ Requested' = [o \in Ops |-> Requested'[o]]
    BY DEF Phases, Requested
  <2> QED BY <1>1, <1>4, <2>1, StoredSame
<1> QED BY <1>5 DEF Register!Die, Register!None, Phases, Requested, Stored

LEMMA RegisterStep ==
  ASSUME SoleWriter, RegisterInv, TypeInv', HealthInv', ~tampered', NEW o \in Ops, Step(o)
  PROVE  Register!Next \/ UNCHANGED Register!vars
<1>0. PICK t \in Tabs : op[o].tab = t
  BY StepFrame DEF RegisterInv, DesktopInv, AwaitInv
<1>1. /\ op[o].pc \in Running /\ op[o].tab = t /\ status[t] = "open"
      /\ \A p \in Ops \ {o} : op'[p] = op[p]
      /\ TypeInv /\ backend # "opfs" /\ op[o] \in OpRecord /\ op'[o] \in OpRecord
      /\ op'[o].pc # "refused"
  BY <1>0, StepFrame, SoleFrame
     DEF RegisterInv, DesktopInv, AwaitInv, SoleWriter, SoleDesktop, TypeInv, TypeOK, HealthInv
<1>2. ASSUME op[o].pc \in Undoable, op'[o].pc \in Undoable, SameRequest(op'[o], op[o]), file' = file
      PROVE  UNCHANGED Register!vars
  <2>1. PhaseOf(op[o]) = "running" /\ PhaseOf(op'[o]) = "running"
    BY <1>1, <1>2, PhaseRunning
  <2>2. RequestOf(op'[o]) = RequestOf(op[o])
    BY <1>2 DEF SameRequest, RequestOf
  <2> QED BY <1>1, <1>2, <2>1, <2>2, RegisterStutters
<1>3. ASSUME op[o].pc \in {"landed", "reading"}, op'[o].pc \in {"reading", "verified", "corrupt"},
             SameRequest(op'[o], op[o]), file' = file
      PROVE  UNCHANGED Register!vars
  <2>1. PhaseOf(op'[o]) = PhaseOf(op[o])
    BY <1>1, <1>3, PhaseRunning DEF SameRequest
  <2>2. RequestOf(op'[o]) = RequestOf(op[o])
    BY <1>3 DEF SameRequest, RequestOf
  <2> QED BY <1>1, <1>3, <2>1, <2>2, RegisterStutters
<1>4. ASSUME op[o].pc \in {"landed", "reading", "verified"}, op'[o] = At("acked"), file' = file
      PROVE  Register!Next
  <2>1. PhaseOf(op'[o]) = "acked"
    <3>1. op'[o].pc = "acked"
      BY <1>4 DEF At
    <3> QED BY <1>1, <3>1, PhaseRunning
  <2>2. Register!End(o, "acked")
    BY <1>1, <1>4, <2>1, RegisterEnds
  <2>3. \/ PhaseOf(op[o]) = "committed"
        \/ PhaseOf(op[o]) = "running" /\ RequestOf(op[o]).kind = "read"
    BY <1>1, <1>4, PhaseRunning DEF RequestOf
  <2>4. Register!Succeed(o)
    BY <2>2, <2>3 DEF Register!Succeed
  <2> QED BY <2>4 DEF Register!Next
<1>5. CASE Mutate(o)
  <2>1. op[o].pc = "encrypting" /\ op'[o].pc = "queued" /\ SameRequest(op'[o], op[o]) /\ file' = file
    BY <1>1, <1>5, MutateEffect DEF SameLocals
  <2> QED BY <1>2, <2>1 DEF Undoable
<1>6. CASE Conflict(o) \/ Bar(o) \/ WriteFails(o)
  <2>1. PICK outcome \in {"conflict", "refused", "failed"} : Fail(o, outcome)
    BY <1>6 DEF Conflict, Bar, WriteFails
  <2>2. op[o].pc \in Undoable /\ file' = file
    BY <1>6 DEF Conflict, Bar, WriteFails, Undoable
  <2>3. op'[o] = At(outcome) /\ op'[o].pc = outcome
    BY <1>1, <2>1, FailEffect
  <2>4. PhaseOf(op[o]) = "running" /\ PhaseOf(op'[o]) = "failed"
    BY <1>1, <2>2, <2>3, PhaseRunning
  <2>5. Register!End(o, "failed")
    BY <1>1, <2>2, <2>3, <2>4, RegisterEnds
  <2>6. Register!Fail(o)
    BY <2>4, <2>5 DEF Register!Fail
  <2> QED BY <2>6 DEF Register!Next
<1>7. CASE WriteTimesOut(o) \/ SealFails(o)
  BY <1>1, <1>7 DEF WriteTimesOut, SealFails, SoleWriter
<1>8. CASE Gate(o)
  <2>1. PICK pc \in {"gated", "barred"} : Goto(o, pc)
    BY <1>8 DEF Gate
  <2>2. /\ op[o].pc = "queued" /\ op'[o].pc \in {"gated", "barred"} /\ SameRequest(op'[o], op[o])
        /\ file' = file
    BY <1>1, <1>8, <2>1, GotoEffect DEF Gate, SameLocals, shared
  <2> QED BY <1>2, <2>2 DEF Undoable
<1>9. CASE Bump(o) \/ Seal(o) \/ Attach(o)
  <2>1. /\ op[o].pc \in {"gated", "bumped", "sealed"} /\ op'[o].pc \in {"bumped", "sealed", "writing"}
        /\ SameRequest(op'[o], op[o]) /\ file' = file
    BY <1>1, <1>9, BumpEffect, SealEffect, AttachEffect DEF SameLocals, shared
  <2> QED BY <1>2, <2>1 DEF Undoable
<1>10. CASE WriteLands(o)
  BY <1>1, <1>10, RegisterCommit DEF Register!Next
<1>11. CASE Complete(o)
  <2>1. /\ op[o].pc = "landed" /\ file' = file
        /\ \/ op'[o] = At("acked")
           \/ op'[o].pc = "reading" /\ SameRequest(op'[o], op[o])
    BY <1>1, <1>11, CompleteEffect
  <2> QED BY <1>3, <1>4, <2>1
<1>12. CASE ReadEmpty(o)
  <2>1. op[o].pc = "reading" /\ op'[o] = At("acked") /\ file' = file
    BY <1>1, <1>12, ReadEmptyEffect DEF shared
  <2> QED BY <1>4, <2>1
<1>13. CASE ReadVerdict(o)
  <2>1. PICK pc \in {"verified", "corrupt"} : Goto(o, pc)
    BY <1>13 DEF ReadVerdict
  <2>2. /\ op[o].pc = "reading" /\ op'[o].pc \in {"verified", "corrupt"} /\ SameRequest(op'[o], op[o])
        /\ file' = file
    BY <1>1, <1>13, <2>1, GotoEffect DEF ReadVerdict, SameLocals, shared
  <2> QED BY <1>3, <2>2
<1>14. CASE ReadEnds(o)
  <2>1. /\ op[o].pc \in {"verified", "corrupt"} /\ op'[o] = At(op'[o].pc) /\ file' = file
        /\ op'[o].pc = IF op[o].pc = "verified" THEN "acked" ELSE "refused"
    BY <1>1, <1>14, ReadEndsEffect DEF shared
  <2> QED BY <1>1, <1>4, <2>1
<1> QED BY <1>5, <1>6, <1>7, <1>8, <1>9, <1>10, <1>11, <1>12, <1>13, <1>14 DEF Step

LEMMA RegisterNext ==
  ASSUME SoleWriter, RegisterInv, RegisterInv', [Next]_vars
  PROVE  Register!Next \/ UNCHANGED Register!vars
<1>1. /\ SoleTab /\ AwaitInv /\ TypeInv /\ TypeInv' /\ HealthInv' /\ ~tampered' /\ Settled
  BY DEF SoleWriter, SoleDesktop, RegisterInv, DesktopInv, AwaitInv, FollowInv
<1>2. CASE \E t \in Tabs : TabStep(t)
  <2>1. PICK t \in Tabs : TabStep(t)
    BY <1>2
  <2>2. Open(t) \/ Close(t)
    BY <1>1, <2>1 DEF TabStep, ResaveRefused, Resave, ResaveFails, Settled
  <2>3. CASE Open(t)
    <3>1. file' = file /\ op' = op
      BY <1>1, <2>3, OpenEffect
    <3>2. Phases' = Phases /\ Requested' = Requested /\ Stored' = Stored
      BY <3>1, StoredSame DEF Phases, Requested, PhaseOf, RequestOf
    <3> QED BY <3>2 DEF Register!vars, Phases, Requested, Stored
  <2>4. CASE Close(t)
    BY <1>1, <2>4, RegisterDies DEF Register!Next
  <2> QED BY <2>2, <2>3, <2>4
<1>3. CASE \E t \in Tabs, o \in Ops : Start(t, o)
  BY <1>1, <1>3, RegisterStart DEF Register!Next
<1>4. CASE \E o \in Ops : Step(o)
  BY <1>1, <1>4, RegisterStep
<1>5. CASE LateWriteLands \/ Tamper \/ Replay
  BY <1>1, <1>5 DEF LateWriteLands, Tamper, Replay, Settled
<1>6. CASE UNCHANGED vars
  <2>1. file' = file /\ op' = op
    BY <1>6 DEF vars
  <2>2. Phases' = Phases /\ Requested' = Requested /\ Stored' = Stored
    BY <2>1, StoredSame DEF Phases, Requested, PhaseOf, RequestOf
  <2> QED BY <2>2 DEF Register!vars, Phases, Requested, Stored
<1> QED BY <1>2, <1>3, <1>4, <1>5, <1>6 DEF Next

(* The repository on a desktop build, with one tab that awaits its           *)
(* operations and whose signatures succeed, is an atomic register: every     *)
(* operation takes effect in the durable file at one moment before it        *)
(* reports success, one that reports an error has no effect, and a crash     *)
(* leaves each running operation done or not done.                           *)
THEOREM RefinesRegister == SoleWriter => (Spec => ImplementsRegister)
<1> SUFFICES ASSUME SoleWriter PROVE Spec => ImplementsRegister
  OBVIOUS
<1>1. Init => Register!Init
  BY RegisterInit
<1>2. RegisterInv /\ RegisterInv' /\ [Next]_vars => [Register!Next]_Register!vars
  BY RegisterNext
<1> QED BY <1>1, <1>2, EditInductive, PTL DEF Spec, ImplementsRegister, Register!Spec

=============================================================================
