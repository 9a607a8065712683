---------------------------- MODULE VaultBaselines ----------------------------
(***************************************************************************)
(* The inductive invariants behind IdleTabHoldsTheFile, NoFalseAlarm,      *)
(* WritesAdvanceTheMark, FirstWriteFenced and the refinement of            *)
(* VaultRegister: how the live state and the baseline of a tab follow the  *)
(* durable file and the mark while an operation runs.                      *)
(***************************************************************************)
EXTENDS VaultForgery

(* One tab uses the vault. *)
SoleTab == \A t, u \in Tabs : t = u

(* ... on a desktop build, and awaits its operations. *)
SoleDesktop == SoleTab /\ ~Overlap /\ Backends \subseteq {"native"}

-----------------------------------------------------------------------------
(* Behind WritesAdvanceTheMark.  What a sole tab has cached of the mark is    *)
(* the mark; neither its live state nor the one it would restore is older    *)
(* than the baseline the freshness check compares with the mark.             *)
MarkCurrent == \A t \in Tabs : cache[t] \in {NotCached, ledger}

LiveNotOlder ==
  /\ \A t \in Tabs : status[t] # "closed" => snap[t] # NoState /\ mem[t].ver >= snap[t].ver
  /\ \A o \in Ops : op[o].pc \in Undoable => op[o].prev.ver >= snap[op[o].tab].ver

Advancing(r, live) ==
  /\ r.pc = "gated" => live.ver >= ledger
  /\ r.pc \in {"bumped", "sealed"} => live.ver > ledger
  /\ r.pc = "writing" => r.image.ver > ledger

MarkInv ==
  OneAtATime /\ MarkCurrent /\ LiveNotOlder /\ \A o \in Ops : Advancing(op[o], mem[op[o].tab])

-----------------------------------------------------------------------------
(* Behind IdleTabHoldsTheFile.  An open tab and the file differ only by what *)
(* the running operation has done and not yet undone or written.             *)
Follows(r, live, base) ==
  /\ r.pc \in Undoable => r.prev = file /\ base = file
  /\ r.pc \in {"encrypting", "reading", "verified", "corrupt"} => live = file
  /\ r.pc \in {"reading", "verified", "corrupt"} => base = file
  /\ r.pc = "writing" => r.image = live
  /\ r.pc = "landed" => live = file

(* No writer has been given up on and no tab is still opening: so it stays    *)
(* where the file is not in OPFS.                                            *)
Settled == late = {} /\ \A t \in Tabs : status[t] \in {"closed", "open"}

TabFollowsFile ==
  \A t \in Tabs : status[t] = "open" =>
    /\ InFlight(t) = {} => mem[t] = file /\ snap[t] = file
    /\ \A o \in InFlight(t) : Follows(op[o], mem[t], snap[t])

FollowInv == OneAtATime /\ Settled /\ (~tampered => TabFollowsFile)

-----------------------------------------------------------------------------
(* Behind NoFalseAlarm.  A state the verdict accepts when no tag is demanded. *)
Healthy(s) ==
  /\ s.ver > 0
  /\ HasTag(s) => \/ s.sealedAt \in {NoSeal, s.ver} /\ s.tag = SignV2(s, Key)
                  \/ s.sealedAt = NoSeal /\ s.tag = SignV1(s, Key)

(* Nothing a tab remembers is ahead of the file, and where a tag is demanded *)
(* the file has one.                                                         *)
FileHealthy ==
  /\ Healthy(file)
  /\ ledger <= file.ver /\ (~HasTag(file) => ledger <= 0)
  /\ \A t \in Tabs : /\ cache[t] <= file.ver /\ (~HasTag(file) => cache[t] <= 0)
                     /\ observed[t] <= file.ver

(* On its way to the file a generation is new and gets a tag that covers it. *)
Sealing(r, live) ==
  /\ r.pc \in {"queued", "gated"} => live.ver = file.ver
  /\ r.pc \in {"bumped", "sealed", "writing"} => live.ver > file.ver
  /\ r.pc = "sealed" => live.sealedAt = live.ver /\ r.sig = SignV2(live, Key)
  /\ r.pc = "writing" => Healthy(live) /\ HasTag(live)

HealthInv ==
  ~tampered => /\ FileHealthy
               /\ \A o \in Ops : /\ op[o].pc \in Running => Sealing(op[o], mem[op[o].tab])
                                 /\ op[o].pc \notin {"barred", "corrupt", "refused", "conflict"}

-----------------------------------------------------------------------------
(* Behind FirstWriteFenced, for any number of tabs where every commit raises *)
(* the mark: only the holder of the lock is past the freshness check, and    *)
(* between commits the file is no newer than the mark, or it is the file of  *)
(* the setup.                                                                *)
Fenced ==
  /\ ~Overlap /\ ~MaySealFail /\ ~MayCrash /\ ~MayTamper
  /\ "opfs" \notin Backends

PastFreshness == {"gated", "barred", "bumped", "sealed", "writing", "landed"}

LockHeld == \A o \in Ops : op[o].pc \in PastFreshness => Holds(o)

SetupVersion == 2

NotBeforeSetup ==
  /\ file.ver >= SetupVersion
  /\ \A t \in Tabs : /\ mem[t].ver >= SetupVersion
                     /\ snap[t] # NoState => snap[t].ver >= SetupVersion
  /\ \A o \in Ops : op[o].pc \in Undoable => op[o].prev.ver >= SetupVersion

MarkCovers ==
  (\A o \in Ops : op[o].pc # "landed") => file.ver <= Larger(ledger, SetupVersion)

Committing(r, live, base, cached) ==
  /\ r.pc \in PastFreshness \ {"landed"} =>
       (cached = NotCached /\ base # NoState => ledger <= base.ver)
  /\ r.pc = "sealed" => r.sig.scheme # "none"
  /\ r.pc = "writing" => r.image = live
  /\ r.pc \in {"writing", "landed"} => HasTag(live)
  /\ r.pc = "landed" => live.ver = file.ver

FenceInv ==
  /\ OneAtATime /\ LockHeld /\ NotBeforeSetup /\ MarkCovers /\ Settled /\ ~tampered
  /\ \A o \in Ops : Committing(op[o], mem[op[o].tab], snap[op[o].tab], cache[op[o].tab])

-----------------------------------------------------------------------------
(* Behind ImplementsRegister.  The rows of a running operation's tab are the *)
(* file's with the one edit the operation is about: the index it looked up   *)
(* before its awaits is still the right one when it is used.                 *)
Unique(rows) == \A i, j \in DOMAIN rows : rows[i].id = rows[j].id => i = j

Edited(o, r, rows) ==
  LET row == [id |-> r.id, val |-> o]
  IN  CASE r.kind \in {"save", "bulk", "trash"} -> Upsert(rows, row)
        [] r.kind = "replace"                   -> <<row>>
        [] r.kind = "purge"                     -> Purge(rows, r.id)

Pending(o, r, live) ==
  /\ r.id \in Ids
  /\ r.pc = "encrypting" => /\ r.kind \in {"save", "bulk", "replace"}
                            /\ r.kind = "save" => r.at = IndexOf(file.rows, r.id)
  /\ r.pc \in Undoable \ {"encrypting"} =>
       /\ r.kind \in {"save", "bulk", "replace", "purge", "trash"}
       /\ live.rows = Edited(o, r, file.rows)
       /\ r.kind = "trash" => Has(file.rows, r.id)

EditInv ==
  /\ Unique(file.rows)
  /\ \A o \in Ops : op[o].pc \in Running => Pending(o, op[o], mem[op[o].tab])

=============================================================================
