---------------------------- MODULE VaultIntegrity ----------------------------
(***************************************************************************)
(* The persisted vault state, its integrity tag and the rule that decides  *)
(* whether a state may be read and re-signed (vaultDatabaseFormat.ts).     *)
(*                                                                         *)
(* A row is abstracted to the id of the item and one value that stands for *)
(* its ciphertext and flags.  A tag is abstracted to what it covers: two   *)
(* tags are equal exactly when scheme, key and covered content are, which  *)
(* is what an HMAC over the canonical string gives.                        *)
(***************************************************************************)
EXTENDS Integers, Sequences, FiniteSets

CONSTANTS Ids,      \* item ids
          Values,   \* row values
          Keys      \* vault encryption keys

Row == [id : Ids, val : Values]

(* sealedAtVersionCounter is absent: the code's undefined. *)
NoSeal == 0

Tag == [scheme : {"none", "v1", "v2"}, key : Keys, rows : SUBSET Row,
        ver : Int, sealedAt : Int]

State == [rows : Seq(Row), ver : Int, sealedAt : Int, tag : Tag]

(* integrityHmac is absent or blank. *)
NoTag == [scheme |-> "none", key |-> CHOOSE k \in Keys : TRUE, rows |-> {},
          ver |-> 0, sealedAt |-> NoSeal]

HasTag(s) == s.tag.scheme # "none"

(* Both canonical strings sort the items by id: they cover the set of rows. *)
Content(s) == {s.rows[i] : i \in DOMAIN s.rows}

SignV2(s, key) ==
  [scheme |-> "v2", key |-> key, rows |-> Content(s), ver |-> s.ver, sealedAt |-> s.sealedAt]

(* The v1 canonical string leaves sealedAtVersionCounter out. *)
SignV1(s, key) ==
  [scheme |-> "v1", key |-> key, rows |-> Content(s), ver |-> s.ver, sealedAt |-> NoSeal]

(* Mutant of EvaluateIntegrity: a state that has lost its tag is a new vault. *)
UntaggedIsUnsigned(s, key, minVersion, tagRequired) ==
  IF ~HasTag(s) THEN "unsigned"
  ELSE IF minVersion > 0 /\ s.ver < minVersion THEN "rolled-back"
  ELSE IF s.sealedAt # NoSeal /\ s.sealedAt # s.ver THEN "tampered"
  ELSE IF s.tag \in {SignV2(s, key), SignV1(s, key)} THEN "trusted"
  ELSE "tampered"

(* The cascade of evaluateIntegrityState, in the order of the code: tag,  *)
(* rollback, generation, v2 tag, v1 tag.                                  *)
EvaluateIntegrity(s, key, minVersion, tagRequired) ==
  IF ~HasTag(s) THEN IF tagRequired THEN "tampered" ELSE "unsigned"
  ELSE IF minVersion > 0 /\ s.ver < minVersion THEN "rolled-back"
  ELSE IF s.sealedAt # NoSeal /\ s.sealedAt # s.ver THEN "tampered"
  ELSE IF s.tag = SignV2(s, key) THEN "trusted"
  ELSE IF s.sealedAt = NoSeal /\ s.tag = SignV1(s, key) THEN "needs-reseal"
  ELSE "tampered"

MayReSign(verdict) == verdict \in {"trusted", "needs-reseal", "unsigned"}

-----------------------------------------------------------------------------
(* vault_items: the row edits of the repository.  Rows are a sequence, as  *)
(* the array is, because one operation keeps an index into it while others *)
(* edit it.                                                                *)

PositionsOf(rows, id) == {i \in DOMAIN rows : rows[i].id = id}

Has(rows, id) == PositionsOf(rows, id) # {}

(* The n-th smallest position of K; the implication makes the choice total. *)
Nth(K, n) ==
  LET rank(i) == Cardinality({k \in K : k <= i})
  IN  CHOOSE i \in K : (\E k \in K : rank(k) = n) => rank(i) = n

(* findIndex: the first position that holds the id, 0 when there is none. *)
IndexOf(rows, id) == IF Has(rows, id) THEN Nth(PositionsOf(rows, id), 1) ELSE 0

(* vault_items[index] = row, or push when index is -1.  An index one past *)
(* the end appends, as it does in a JavaScript array.                     *)
PutAt(rows, i, row) ==
  IF i \in DOMAIN rows THEN [rows EXCEPT ![i] = row] ELSE Append(rows, row)

Upsert(rows, row) == PutAt(rows, IndexOf(rows, row.id), row)

(* Array.filter, given the positions that pass. *)
Keeping(s, K) == [n \in 1..Cardinality(K) |-> s[Nth(K, n)]]

(* filter(row => row.id !== id). *)
Purge(rows, id) == Keeping(rows, DOMAIN rows \ PositionsOf(rows, id))

=============================================================================
