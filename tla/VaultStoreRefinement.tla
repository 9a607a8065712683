------------------------- MODULE VaultStoreRefinement -------------------------
(***************************************************************************)
(* VaultStore, for one tab that awaits its operations, implements          *)
(* VaultRegister.  The abstract vault is what the durable file holds, so   *)
(* the moment an operation takes effect is the moment its payload lands.   *)
(***************************************************************************)
EXTENDS VaultStore

(* No row holds the value that stands for no row. *)
ASSUME RefinementAssumption == NoId \notin Values

(* The value the file holds for an id; a file with two rows of one id has   *)
(* no counterpart in the abstract map.                                     *)
Lookup(rows, id) ==
  LET found == PositionsOf(rows, id)
  IN  IF found = {} THEN NoId
      ELSE IF Cardinality(found) = 1 THEN rows[IndexOf(rows, id)].val ELSE "duplicate"

PhaseOf(r) ==
  CASE r.pc \in {"conflict", "refused"} -> "failed"
    [] r.pc \in {"landed", "reading", "verified", "corrupt"} ->
         IF r.kind = "read" THEN "running" ELSE "committed"
    [] r.pc \in Running \ {"landed", "reading", "verified", "corrupt"} -> "running"
    [] OTHER -> r.pc

RequestOf(r) ==
  [kind |-> IF r.kind \in {"save", "bulk"} THEN "write" ELSE r.kind, id |-> r.id]

Register ==
  INSTANCE VaultRegister WITH
    InitialValues <- {Seed},
    NoRow <- NoId,
    vault <- [i \in Ids |-> Lookup(file.rows, i)],
    phase <- [o \in Ops |-> PhaseOf(op[o])],
    request <- [o \in Ops |-> RequestOf(op[o])]

(* Every operation of the repository is atomic and durable: it takes effect *)
(* in the file at one moment, before it reports success, and an operation   *)
(* that reports an error has no effect (persistVaultDatabase and the        *)
(* rollback in the catch of every operation).                               *)
ImplementsRegister == Register!Spec
=============================================================================
