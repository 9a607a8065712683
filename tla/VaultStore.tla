------------------------------ MODULE VaultStore ------------------------------
(***************************************************************************)
(* The whole-file vault repository (sqlite_opfs.ts) as several tabs of one *)
(* origin use it: every tab keeps the database in memory, an operation     *)
(* edits that copy and rewrites the one durable file inside a lock, after  *)
(* a freshness check (vaultWriteCoordination.ts) and an integrity gate     *)
(* (vaultDatabaseFormat.ts, vaultIntegrityLedger.ts).                      *)
(*                                                                         *)
(* Each action is one stretch of code between two awaits.                  *)
(***************************************************************************)
EXTENDS VaultIntegrity

CONSTANTS
  Tabs,        \* JavaScript contexts that share the origin's storage
  Ops,         \* operation invocations; each is used at most once
  Backends,    \* where the file lives: a subset of {"native", "opfs", "mirror"}
  Overlap,     \* may a tab start an operation while another of its own is running?
  MayTamper,   \* may another program edit or replace the file?
  MaySealFail, \* may computing the HMAC throw?
  MayCrash,    \* may a tab go away in the middle of an operation?
  MaxVersion,  \* bound: no tab is opened on a file at this versionCounter
  MaxLate,     \* bound: how many OPFS writers are given up on and not done
  Key,         \* the vault key of the session; credential rotation is not modelled
  Seed,        \* the value of a row that the initial file holds
  Forged,      \* the value of a row another program wrote into the file
  NoState, NoTab, NoId

ASSUME StoreAssumption ==
  /\ Values = Ops \cup {Seed, Forged}
  /\ Forged \notin Ops \cup {Seed}
  /\ Keys = {Key}
  /\ Backends \subseteq {"native", "opfs", "mirror"}
  /\ {Overlap, MayTamper, MaySealFail, MayCrash} \subseteq BOOLEAN
  /\ NoState \notin State
  /\ NoTab \notin Tabs
  /\ NoId \notin Ids

VARIABLES
  backend,   \* the backend of this installation
  file,      \* the durable vault file
  ledger,    \* highestVersionCounter in localStorage; 0 when there is no ledger
  lock,      \* the operations that hold (head) or wait for the vault write lock
  late,      \* OPFS payloads whose writer has given up waiting for them
  status,    \* status[t]: "closed", "resaving", "open" or "failed"
  mem,       \* mem[t]: this.state
  snap,      \* snap[t]: this.loadedStateSnapshot, NoState for null
  cache,     \* cache[t]: the ledger as inMemoryCache holds it, NotCached at first
  observed,  \* observed[t]: lastObservedVersionCounter
  op,        \* op[o]: the locals of a running operation, its outcome after that
  past,      \* history: what the file has held, for the program that puts it back
  tampered     \* history: another program has changed the file

shared  == <<backend, file, ledger, lock, late>>
perTab  == <<status, mem, snap, cache, observed>>
history == <<past, tampered>>
vars    == <<backend, file, ledger, lock, late, status, mem, snap, cache, observed,
             op, past, tampered>>

NotCached == -1

Kinds == {"save", "bulk", "replace", "purge", "trash", "read"}

Running == {"encrypting", "queued", "gated", "barred", "bumped", "writing", "sealed",
            "landed", "reading", "verified", "corrupt"}

(* An operation ends in one of these; "lost" when its tab goes away. *)
Outcomes == {"acked", "failed", "conflict", "refused", "lost"}

(* prev is previousState, at the index found before the awaits, image the  *)
(* payload handed to the storage, sig the HMAC being computed.             *)
OpRecord == [pc : {"idle"} \cup Running \cup Outcomes, tab : Tabs \cup {NoTab},
             kind : Kinds \cup {"none"}, id : Ids \cup {NoId}, at : Int,
             prev : State \cup {NoState}, sig : Tag, image : State \cup {NoState}]

At(pc) == [pc |-> pc, tab |-> NoTab, kind |-> "none", id |-> NoId, at |-> 0,
           prev |-> NoState, sig |-> NoTag, image |-> NoState]

-----------------------------------------------------------------------------
InFlight(t) == {o \in Ops : op[o].pc \in Running /\ op[o].tab = t}

Holds(o) == lock # <<>> /\ Head(lock) = o

Larger(a, b) == IF a >= b THEN a ELSE b

(* Mutant of Mark: a tab whose cache is cold forgets the durable ledger. *)
MarkInCacheOnly(t) == IF cache[t] # NotCached THEN cache[t] ELSE 0

(* readVaultIntegrityLedger: the tab's own cached copy wins over localStorage. *)
Mark(t) == IF cache[t] # NotCached THEN cache[t] ELSE ledger

(* readIntegrityExpectations, then evaluateIntegrityState. *)
Verdict(t, s) ==
  EvaluateIntegrity(s, Key, Larger(Mark(t), observed[t]), Mark(t) > 0)

(* assertFreshWriteBaseline throws. *)
StaleBaseline(t) == snap[t] # NoState /\ Mark(t) > snap[t].ver

(* What tab t keeps of a successful persist of s: the new baseline and, for *)
(* a state that carries a tag, the raised mark (recordVaultSeal).           *)
Committed(t, s) ==
  /\ snap' = [snap EXCEPT ![t] = s]
  /\ observed' = IF HasTag(s) THEN [observed EXCEPT ![t] = s.ver] ELSE observed
  /\ LET mark == Larger(Mark(t), s.ver)
     IN  IF HasTag(s) /\ s.ver > 0
         THEN cache' = [cache EXCEPT ![t] = mark] /\ ledger' = mark
         ELSE UNCHANGED <<cache, ledger>>

(* The OPFS writer of s did not finish within a second: its caller gives up,  *)
(* the writer goes on.                                                       *)
Abandon(s) ==
  /\ Cardinality(late) < MaxLate
  /\ late' = late \cup {s}

(* The file takes the given contents, keeping what it held for a replay. *)
Store(s) ==
  /\ file' = s
  /\ past' = IF MayTamper /\ ~tampered THEN past \cup {file} ELSE {}

-----------------------------------------------------------------------------
(* The vault has been set up and every tab is closed.  The web build leaves  *)
(* the first file unsigned, the desktop build seals it, a build from before  *)
(* the v2 scheme has left a v1 tag and no ledger.                            *)
FreshFile(rows) == [rows |-> rows, ver |-> 2, sealedAt |-> NoSeal, tag |-> NoTag]

InitialFiles ==
  LET empty == FreshFile(<<>>)
      some  == {FreshFile(<<[id |-> i, val |-> Seed]>>) : i \in Ids}
      seal(s) == LET g == [s EXCEPT !.sealedAt = s.ver] IN [g EXCEPT !.tag = SignV2(g, Key)]
      sealV1(s) == [s EXCEPT !.tag = SignV1(s, Key)]
  IN  {<<s, 0>> : s \in {empty} \cup some}
        \cup {<<seal(s), s.ver>> : s \in {empty} \cup some}
        \cup {<<sealV1(s), 0>> : s \in some}

Blank == FreshFile(<<>>)

Init ==
  /\ backend \in Backends
  /\ \E start \in InitialFiles : file = start[1] /\ ledger = start[2]
  /\ lock = <<>>
  /\ late = {}
  /\ status = [t \in Tabs |-> "closed"]
  /\ mem = [t \in Tabs |-> Blank]
  /\ snap = [t \in Tabs |-> NoState]
  /\ cache = [t \in Tabs |-> NotCached]
  /\ observed = [t \in Tabs |-> 0]
  /\ op = [o \in Ops |-> At("idle")]
  /\ past = {}
  /\ tampered = FALSE

-----------------------------------------------------------------------------
(* loadFromPersistentStorage.  The mirror is read without a snapshot and    *)
(* without the load-time rollback check; the OPFS load writes back before   *)
(* the repository is usable.                                                *)
Open(t) ==
  /\ status[t] = "closed"
  /\ file.ver < MaxVersion
  /\ mem' = [mem EXCEPT ![t] = file]
  /\ IF backend = "mirror"
     THEN UNCHANGED <<snap, observed>>
     ELSE /\ snap' = [snap EXCEPT ![t] = file]
          /\ observed' = [observed EXCEPT ![t] =
               IF file.ver < Larger(Mark(t), observed[t]) THEN observed[t] ELSE file.ver]
  /\ status' = [status EXCEPT ![t] = IF backend = "opfs" THEN "resaving" ELSE "open"]
  /\ UNCHANGED <<backend, file, ledger, lock, late, cache, op, past, tampered>>

(* The save without a key that follows an OPFS load: no gate, no new tag,   *)
(* but a new versionCounter.  A stale baseline fails the start of the tab.  *)
ResaveRefused(t) ==
  /\ status[t] = "resaving" /\ lock = <<>> /\ StaleBaseline(t)
  /\ status' = [status EXCEPT ![t] = "failed"]
  /\ UNCHANGED <<backend, file, ledger, lock, late, mem, snap, cache, observed, op,
                 past, tampered>>

Resave(t) ==
  /\ status[t] = "resaving" /\ lock = <<>> /\ ~StaleBaseline(t)
  /\ LET next == [mem[t] EXCEPT !.ver = @ + 1]
     IN  /\ mem' = [mem EXCEPT ![t] = next]
         /\ Store(next)
         /\ Committed(t, next)
  /\ status' = [status EXCEPT ![t] = "open"]
  /\ UNCHANGED <<backend, lock, late, op, tampered>>

(* The write failed or did not finish in time: the load ignores the result   *)
(* and nothing is rolled back.                                               *)
ResaveFails(t) ==
  /\ status[t] = "resaving" /\ lock = <<>> /\ ~StaleBaseline(t)
  /\ LET next == [mem[t] EXCEPT !.ver = @ + 1]
     IN  /\ mem' = [mem EXCEPT ![t] = next]
         /\ \/ UNCHANGED late
            \/ Abandon(next)
  /\ status' = [status EXCEPT ![t] = "open"]
  /\ UNCHANGED <<backend, file, ledger, lock, snap, cache, observed, op, past, tampered>>

(* Mutant of Close: the lock a dead tab holds is not released. *)
CloseKeepsLock(t) ==
  /\ status[t] # "closed"
  /\ MayCrash \/ InFlight(t) = {}
  /\ status' = [status EXCEPT ![t] = "closed"]
  /\ mem' = [mem EXCEPT ![t] = Blank]
  /\ snap' = [snap EXCEPT ![t] = NoState]
  /\ cache' = [cache EXCEPT ![t] = NotCached]
  /\ observed' = [observed EXCEPT ![t] = 0]
  /\ op' = [o \in Ops |-> IF o \in InFlight(t) THEN At("lost") ELSE op[o]]
  /\ UNCHANGED <<backend, file, ledger, lock, late, past, tampered>>

(* The tab is closed or crashes: its memory and its operations are gone and  *)
(* the browser releases its locks.                                           *)
Close(t) ==
  /\ status[t] # "closed"
  /\ MayCrash \/ InFlight(t) = {}
  /\ status' = [status EXCEPT ![t] = "closed"]
  /\ mem' = [mem EXCEPT ![t] = Blank]
  /\ snap' = [snap EXCEPT ![t] = NoState]
  /\ cache' = [cache EXCEPT ![t] = NotCached]
  /\ observed' = [observed EXCEPT ![t] = 0]
  /\ lock' = Keeping(lock, {i \in DOMAIN lock : op[lock[i]].tab # t})
  /\ op' = [o \in Ops |-> IF o \in InFlight(t) THEN At("lost") ELSE op[o]]
  /\ UNCHANGED <<backend, file, ledger, late, past, tampered>>

-----------------------------------------------------------------------------
(* A tab starts an operation.  Without Overlap the caller awaits each one.   *)
MayBegin(t, o) ==
  /\ status[t] = "open"
  /\ op[o].pc = "idle"
  /\ Overlap \/ InFlight(t) = {}

(* Mutant of Begin: the previous state is not cloned. *)
BeginWithoutClone(t, o, kind, id, pc) ==
  op' = [op EXCEPT ![o] =
          [pc |-> pc, tab |-> t, kind |-> kind, id |-> id, at |-> 0,
           prev |-> NoState, sig |-> NoTag, image |-> NoState]]

Begin(t, o, kind, id, pc) ==
  op' = [op EXCEPT ![o] =
          [pc |-> pc, tab |-> t, kind |-> kind, id |-> id,
           at |-> IF kind = "save" THEN IndexOf(mem[t].rows, id) ELSE 0,
           prev |-> IF kind = "read" THEN NoState ELSE mem[t],
           sig |-> NoTag, image |-> NoState]]

(* saveVaultItem, saveVaultItems and replaceAllVaultItems clone the state,   *)
(* then encrypt; the first has looked up its index before it does.           *)
BeginWrite(t, o) ==
  /\ MayBegin(t, o)
  /\ \E kind \in {"save", "bulk", "replace"}, id \in Ids : Begin(t, o, kind, id, "encrypting")
  /\ UNCHANGED <<shared, perTab, history>>

(* deletePermanently and setItemTrashed edit the rows and ask for the lock   *)
(* in the same stretch.                                                      *)
BeginPurge(t, o) ==
  /\ MayBegin(t, o)
  /\ \E id \in Ids :
       /\ Begin(t, o, "purge", id, "queued")
       /\ mem' = [mem EXCEPT ![t].rows = Purge(@, id)]
  /\ lock' = Append(lock, o)
  /\ UNCHANGED <<backend, file, ledger, late, status, snap, cache, observed, past, tampered>>

BeginTrash(t, o) ==
  /\ MayBegin(t, o)
  /\ \E id \in Ids :
       /\ Has(mem[t].rows, id)
       /\ Begin(t, o, "trash", id, "queued")
       /\ mem' = [mem EXCEPT ![t].rows = Upsert(@, [id |-> id, val |-> o])]
  /\ lock' = Append(lock, o)
  /\ UNCHANGED <<backend, file, ledger, late, status, snap, cache, observed, past, tampered>>

(* getVaultItems; also setItemTrashed on an id that has no row. *)
BeginRead(t, o) ==
  /\ MayBegin(t, o)
  /\ \E id \in Ids : Begin(t, o, "read", id, "reading")
  /\ UNCHANGED <<shared, perTab, history>>

(* What a write makes of the rows once its row is encrypted: a save puts it  *)
(* at the index it looked up before, a bulk save looks the index up now.     *)
Edit(o, rows) ==
  LET row == [id |-> op[o].id, val |-> o]
  IN  IF op[o].kind = "save" THEN PutAt(rows, op[o].at, row)
      ELSE IF op[o].kind = "bulk" THEN Upsert(rows, row)
      ELSE <<row>>

(* The edit of this.state and the lock request. *)
Mutate(o) ==
  /\ op[o].pc = "encrypting"
  /\ mem' = [mem EXCEPT ![op[o].tab].rows = Edit(o, @)]
  /\ op' = [op EXCEPT ![o].pc = "queued"]
  /\ lock' = Append(lock, o)
  /\ UNCHANGED <<backend, file, ledger, late, status, snap, cache, observed, past, tampered>>

-----------------------------------------------------------------------------
Goto(o, pc) == op' = [op EXCEPT ![o].pc = pc]

(* Mutant of Fail: the rows come back, the bumped counter stays. *)
FailKeepsCounter(o, outcome) ==
  /\ mem' = [mem EXCEPT ![op[o].tab] = [op[o].prev EXCEPT !.ver = mem[op[o].tab].ver]]
  /\ op' = [op EXCEPT ![o] = At(outcome)]
  /\ lock' = Tail(lock)

(* restoreTransactionalState: the whole previous state comes back, and the   *)
(* lock goes to the next operation.                                          *)
Fail(o, outcome) ==
  /\ mem' = [mem EXCEPT ![op[o].tab] = op[o].prev]
  /\ op' = [op EXCEPT ![o] = At(outcome)]
  /\ lock' = Tail(lock)

Conflict(o) ==
  /\ op[o].pc = "queued" /\ Holds(o) /\ StaleBaseline(op[o].tab)
  /\ Fail(o, "conflict")
  /\ UNCHANGED <<backend, file, ledger, late, status, snap, cache, observed, past, tampered>>

(* Mutant of Gate: everything may be re-signed. *)
GateOpen(o) ==
  /\ op[o].pc = "queued" /\ Holds(o)
  /\ ~StaleBaseline(op[o].tab)
  /\ Goto(o, "gated")
  /\ UNCHANGED <<shared, perTab, history>>

(* The gate judges the snapshot, not the live state; there is no gate when   *)
(* there is no snapshot.                                                     *)
Gate(o) ==
  /\ op[o].pc = "queued" /\ Holds(o)
  /\ LET t == op[o].tab
     IN  /\ ~StaleBaseline(t)
         /\ Goto(o, IF snap[t] = NoState \/ MayReSign(Verdict(t, snap[t]))
                    THEN "gated" ELSE "barred")
  /\ UNCHANGED <<shared, perTab, history>>

Bar(o) ==
  /\ op[o].pc = "barred" /\ Holds(o)
  /\ Fail(o, "refused")
  /\ UNCHANGED <<backend, file, ledger, late, status, snap, cache, observed, past, tampered>>

Bump(o) ==
  /\ op[o].pc = "gated" /\ Holds(o)
  /\ mem' = [mem EXCEPT ![op[o].tab].ver = @ + 1]
  /\ Goto(o, "bumped")
  /\ UNCHANGED <<shared, status, snap, cache, observed, history>>

(* Mutant of Seal: the signed generation keeps the older sealedAt. *)
SealUnbound(o) ==
  /\ op[o].pc = "bumped" /\ Holds(o)
  /\ op' = [op EXCEPT ![o].pc = "sealed", ![o].sig = SignV2(mem[op[o].tab], Key)]
  /\ UNCHANGED <<shared, perTab, history>>

(* The HMAC key is there: the generation is bound and the canonical string   *)
(* taken; the signature itself is still to come.                             *)
Seal(o) ==
  /\ op[o].pc = "bumped" /\ Holds(o)
  /\ LET t == op[o].tab
         s == [mem[t] EXCEPT !.sealedAt = mem[t].ver]
     IN  /\ mem' = [mem EXCEPT ![t] = s]
         /\ op' = [op EXCEPT ![o].pc = "sealed", ![o].sig = SignV2(s, Key)]
  /\ UNCHANGED <<shared, status, snap, cache, observed, history>>

(* The signature is attached and the payload handed to the storage. *)
Attach(o) ==
  /\ op[o].pc = "sealed" /\ Holds(o)
  /\ LET t == op[o].tab
         s == [mem[t] EXCEPT !.tag = op[o].sig]
     IN  /\ mem' = [mem EXCEPT ![t] = s]
         /\ op' = [op EXCEPT ![o].pc = "writing", ![o].image = s]
  /\ UNCHANGED <<shared, status, snap, cache, observed, history>>

(* Deriving the HMAC key or computing the HMAC threw: the code logs it and    *)
(* persists with the tag it has.                                             *)
SealFails(o) ==
  /\ MaySealFail
  /\ op[o].pc \in {"bumped", "sealed"} /\ Holds(o)
  /\ op' = [op EXCEPT ![o].pc = "writing", ![o].image = mem[op[o].tab]]
  /\ UNCHANGED <<shared, perTab, history>>

WriteLands(o) ==
  /\ op[o].pc = "writing" /\ Holds(o)
  /\ Store(op[o].image)
  /\ Goto(o, "landed")
  /\ UNCHANGED <<backend, ledger, lock, late, perTab, tampered>>

(* Mutant of WriteFails: the result of the persist is not looked at. *)
FailedWriteIgnored(o) ==
  /\ op[o].pc = "writing" /\ Holds(o)
  /\ Goto(o, "landed")
  /\ UNCHANGED <<shared, perTab, history>>

(* Nothing was written: the native command failed, the OPFS writer threw, or *)
(* the write was blocked by a degraded Argon2 profile.                       *)
WriteFails(o) ==
  /\ op[o].pc = "writing" /\ Holds(o)
  /\ Fail(o, "failed")
  /\ UNCHANGED <<backend, file, ledger, late, status, snap, cache, observed, past, tampered>>

(* The OPFS writer did not finish in time.  The operation fails.             *)
WriteTimesOut(o) ==
  /\ backend = "opfs"
  /\ op[o].pc = "writing" /\ Holds(o)
  /\ Abandon(op[o].image)
  /\ Fail(o, "failed")
  /\ UNCHANGED <<backend, file, ledger, status, snap, cache, observed, past, tampered>>

LateWriteLands ==
  \E s \in late :
    /\ late' = late \ {s}
    /\ Store(s)
    /\ UNCHANGED <<backend, ledger, lock, perTab, op, tampered>>

(* The snapshot is taken of what this.state holds now, the mark raised, the   *)
(* lock released.  A bulk save returns; the others read the vault back.       *)
Complete(o) ==
  /\ op[o].pc = "landed" /\ Holds(o)
  /\ Committed(op[o].tab, mem[op[o].tab])
  /\ op' = [op EXCEPT ![o] = IF op[o].kind = "bulk" THEN At("acked")
                             ELSE [@ EXCEPT !.pc = "reading", !.prev = NoState,
                                            !.sig = NoTag, !.image = NoState]]
  /\ lock' = Tail(lock)
  /\ UNCHANGED <<backend, file, late, status, mem, past, tampered>>

-----------------------------------------------------------------------------
(* getVaultItemsWithDerivedKey.  An empty vault is returned unexamined; any   *)
(* other is judged live, and the snapshot is refreshed with either verdict.   *)
ReadEmpty(o) ==
  /\ op[o].pc = "reading" /\ mem[op[o].tab].rows = <<>>
  /\ op' = [op EXCEPT ![o] = At("acked")]
  /\ UNCHANGED <<shared, perTab, history>>

ReadVerdict(o) ==
  /\ op[o].pc = "reading"
  /\ LET t == op[o].tab
     IN  /\ mem[t].rows # <<>>
         /\ Goto(o, IF MayReSign(Verdict(t, mem[t])) THEN "verified" ELSE "corrupt")
  /\ UNCHANGED <<shared, perTab, history>>

ReadEnds(o) ==
  /\ op[o].pc \in {"verified", "corrupt"}
  /\ snap' = [snap EXCEPT ![op[o].tab] = mem[op[o].tab]]
  /\ op' = [op EXCEPT ![o] = At(IF op[o].pc = "verified" THEN "acked" ELSE "refused")]
  /\ UNCHANGED <<shared, status, mem, cache, observed, history>>

-----------------------------------------------------------------------------
(* Another program edits the file of a vault that has been sealed: rows of    *)
(* its own, the counters it likes, with the old tag or none.                  *)
Tamper ==
  /\ MayTamper /\ ~tampered /\ ledger > 0 /\ HasTag(file)
  /\ \E rows \in {<<>>} \cup {<<[id |-> i, val |-> Forged]>> : i \in Ids},
        ver \in {file.ver, file.ver + 1},
        sealedAt \in {NoSeal, file.ver, file.ver + 1},
        tag \in {file.tag, NoTag} :
       file' = [rows |-> rows, ver |-> ver, sealedAt |-> sealedAt, tag |-> tag]
  /\ tampered' = TRUE
  /\ past' = {}
  /\ UNCHANGED <<backend, ledger, lock, late, perTab, op>>

(* ... or puts back an older file. *)
Replay ==
  /\ MayTamper /\ ~tampered /\ ledger > 0
  /\ file' \in past
  /\ tampered' = TRUE
  /\ past' = {}
  /\ UNCHANGED <<backend, ledger, lock, late, perTab, op>>

-----------------------------------------------------------------------------
TabStep(t) ==
  Open(t) \/ ResaveRefused(t) \/ Resave(t) \/ ResaveFails(t) \/ Close(t)

Start(t, o) ==
  BeginWrite(t, o) \/ BeginPurge(t, o) \/ BeginTrash(t, o) \/ BeginRead(t, o)

Step(o) ==
  \/ Mutate(o) \/ Conflict(o) \/ Gate(o) \/ Bar(o) \/ Bump(o) \/ Seal(o) \/ SealFails(o)
  \/ Attach(o) \/ WriteLands(o) \/ WriteFails(o) \/ WriteTimesOut(o) \/ Complete(o)
  \/ ReadEmpty(o) \/ ReadVerdict(o) \/ ReadEnds(o)

Next ==
  \/ \E t \in Tabs : TabStep(t)
  \/ \E t \in Tabs, o \in Ops : Start(t, o)
  \/ \E o \in Ops : Step(o)
  \/ LateWriteLands
  \/ Tamper
  \/ Replay

Spec == Init /\ [][Next]_vars

(* The JavaScript engine runs what an await resumes, and a write is answered  *)
(* or times out: no operation that can take its next step waits forever.      *)
FairSpec == Spec /\ \A o \in Ops : WF_vars(Step(o))

-----------------------------------------------------------------------------
(* Every variable has the shape of the code's state. *)
TypeOK ==
  /\ backend \in Backends
  /\ file \in State
  /\ ledger \in Int
  /\ lock \in Seq(Ops)
  /\ late \subseteq State
  /\ status \in [Tabs -> {"closed", "resaving", "open", "failed"}]
  /\ mem \in [Tabs -> State]
  /\ snap \in [Tabs -> State \cup {NoState}]
  /\ cache \in [Tabs -> Int]
  /\ observed \in [Tabs -> Int]
  /\ op \in [Ops -> OpRecord]
  /\ past \subseteq State
  /\ tampered \in BOOLEAN

HoldsForged(rows) == \E r \in rows : r.val = Forged

(* K-3: once a vault has been sealed, no write gives a tag to a row that     *)
(* another program put into the file: neither the file, nor the memory of a  *)
(* tab, nor a signature in the making covers one (sqlite_opfs.ts, the gate   *)
(* of saveToPersistentStorage and the verdict of getVaultItems).             *)
ForgeryNeverSealed ==
  /\ ~HoldsForged(file.tag.rows)
  /\ \A t \in Tabs : ~HoldsForged(mem[t].tag.rows)
  /\ \A o \in Ops : ~HoldsForged(op[o].sig.rows)

(* K-3: a row that another program put into a sealed vault is never handed   *)
(* to the caller of a read as verified.                                      *)
ForgeryNeverShown ==
  \A o \in Ops : op[o].pc = "verified" => ~HoldsForged(Content(mem[op[o].tab]))

(* Y-5: no operation writes on a file older than the durable mark: a write   *)
(* that lands while its operation waits for it puts a generation above the   *)
(* mark into the file (vaultWriteCoordination.ts:102-115).  A payload whose  *)
(* operation has given up waiting is not meant: LateWriteLands may well put  *)
(* one at the mark or below it into the file (sqliteOpfsPersistence.ts:586). *)
WritesAdvanceTheMark ==
  [][\A o \in Ops : WriteLands(o) => op[o].image.ver > ledger]_vars

(* Whatever failed before, a tab that runs no operation holds exactly the    *)
(* durable file, in the live state and in the baseline of the next gate      *)
(* (restoreTransactionalState, the snapshot taken after a persist).          *)
IdleTabHoldsTheFile ==
  \A t \in Tabs : status[t] = "open" /\ InFlight(t) = {} => mem[t] = file /\ snap[t] = file

(* A file that only the repository has written is never reported as          *)
(* corrupted or stale to the only tab that uses it.                          *)
NoFalseAlarm ==
  ~tampered => \A o \in Ops : op[o].pc \notin {"barred", "corrupt", "refused", "conflict"}

(* Y-15: a tab that missed the news of a commit cannot lose data: the file a *)
(* write replaces holds the rows its tab last knew the file to hold          *)
(* (vaultWriteCoordination.ts).                                              *)
NoLostUpdate ==
  [][\A o \in Ops :
       WriteLands(o) /\ snap[op[o].tab] # NoState
         => Content(file) = Content(snap[op[o].tab])]_vars

(* Y-15, as far as the code carries it: a tab that has a baseline and has not *)
(* committed since it was opened, so that it still reads the shared ledger,   *)
(* never overwrites a generation above the one it was built on.  Only the    *)
(* counter is compared, there and here: a tab with an old mark may have      *)
(* written a generation of the same number in between.                       *)
FirstWriteFenced ==
  [][\A o \in Ops :
       WriteLands(o) /\ cache[op[o].tab] = NotCached /\ snap[op[o].tab] # NoState
         => file.ver <= snap[op[o].tab].ver]_vars

(* Every operation ends, with success or an error: the lock is always        *)
(* released, by a failure and by the death of its holder as well.            *)
OperationsEnd ==
  \A o \in Ops : op[o].pc \in Running ~> op[o].pc \notin Running

=============================================================================
