----------------------------- MODULE VaultForgery -----------------------------
(***************************************************************************)
(* The inductive invariant behind ForgeryNeverSealed and ForgeryNeverShown. *)
(* It holds where a tab awaits its operations and every load takes a        *)
(* snapshot.                                                                *)
(***************************************************************************)
EXTENDS VaultStore

(* A tab awaits each operation, and no load is from the mirror. *)
Awaited == ~Overlap /\ "mirror" \notin Backends

RowsForged(rows) == \E i \in DOMAIN rows : rows[i].val = Forged

(* An operation that can still fail holds the state it would restore. *)
Undoable == {"encrypting", "queued", "gated", "barred", "bumped", "sealed", "writing"}

(* A state whose tag covers no forged row and which, before another program *)
(* has changed the file, has none.  NoState, the code's null, holds nothing. *)
Fine(s, changed) ==
  s # NoState => ~HoldsForged(s.tag.rows) /\ (changed \/ ~RowsForged(s.rows))

FineOp(r, changed) ==
  Fine(r.prev, changed) /\ Fine(r.image, changed) /\ ~HoldsForged(r.sig.rows)

(* ... wherever a state is held. *)
StatesFine ==
  /\ Fine(file, tampered)
  /\ \A s \in late \cup past : Fine(s, tampered)
  /\ \A t \in Tabs : Fine(mem[t], tampered) /\ Fine(snap[t], tampered)
  /\ \A o \in Ops : FineOp(op[o], tampered)

(* The mark of a sealed vault is never forgotten, in localStorage or in a   *)
(* tab: from then on every tab demands a tag.                               *)
MarkKept ==
  /\ tampered => ledger > 0
  /\ \A t \in Tabs : cache[t] = NotCached \/ cache[t] > 0

OneAtATime ==
  /\ \A o \in Ops : op[o].pc \in Running => status[op[o].tab] = "open"
  /\ \A o, p \in Ops : op[o].pc \in Running /\ op[p].pc \in Running /\ op[o].tab = op[p].tab
                         => o = p

(* The baseline the gate judges shows every forgery the live rows hold. *)
BaselineTells ==
  \A t \in Tabs : /\ status[t] # "closed" => snap[t] # NoState
                  /\ RowsForged(mem[t].rows) => snap[t] # NoState /\ RowsForged(snap[t].rows)

(* ... and every forgery in the state an operation would restore.  Past the  *)
(* gate, and past the verdict of a read, the live rows are clean.            *)
Cleared(r, live, base) ==
  /\ r.pc \in Undoable => (RowsForged(r.prev.rows) => RowsForged(base.rows))
  /\ r.pc \in {"gated", "bumped", "verified"} => ~RowsForged(live.rows)

GatePassed == \A o \in Ops : Cleared(op[o], mem[op[o].tab], snap[op[o].tab])

ForgeryInv == StatesFine /\ MarkKept /\ OneAtATime /\ BaselineTells /\ GatePassed

=============================================================================
