------------------------------- MODULE VaultSync -------------------------------
(***************************************************************************)
(* "Sync now" (useSettingsSync.ts, sync/syncEngine.ts) run by several      *)
(* devices against one remote folder that holds two objects: vault.ks, the *)
(* encrypted items, and metadata.json, its label.  Each action is one      *)
(* request to the remote, one call of the local repository or one edit.    *)
(*                                                                         *)
(* An item is abstracted to its updatedAt and the number of the edit that  *)
(* made it what it is; edits are numbered in the order they are made.  A   *)
(* checksum is abstracted to the number of the upload: every envelope is   *)
(* encrypted under fresh randomness, so no two uploads share one.          *)
(***************************************************************************)
EXTENDS Integers, FiniteSets

CONSTANTS
  Devices,
  Ids,         \* item ids
  MaxTime,     \* bound: the clocks of the devices run from 1 to MaxTime
  MaxUploads,  \* bound: how often vault.ks is replaced
  MaxEdits,    \* bound: how many items the users create, edit or delete
  Backend,     \* Backend[d]: the storage backend of device d
  Skewed,      \* are the clocks of the devices arbitrary, or one clock?
  Conditional, \* may the remote show ETags and honour If-Match? a set of BOOLEANs
  MayTruncate, \* may the remote keep a truncated metadata.json?
  MaxLost      \* bound: which uploads of vault.ks may be lost behind the devices,
               \* the first MaxLost

ASSUME SyncAssumption ==
  /\ IsFiniteSet(Ids)
  /\ MaxTime \in Nat \ {0}
  /\ MaxUploads \in Nat
  /\ MaxEdits \in Nat
  /\ Conditional \subseteq BOOLEAN
  /\ Backend \in [Devices -> {"file", "wa-sqlite"}]
  /\ Skewed \in BOOLEAN
  /\ MayTruncate \in BOOLEAN
  /\ MaxLost \in Nat

VARIABLES
  etags,   \* the remote shows ETags and honours If-Match
  local,   \* local[d]: the vault of device d, as getVaultItems returns it
  vault,   \* vault.ks: here, unless it is missing or empty; sum numbers the uploads
  label,   \* metadata.json; ver counts its versions
  sync,    \* sync[d]: the locals of a running sync
  edits,   \* how many edits and deletions there have been
  clock    \* the time of the last stamp, when there is one clock

vars == <<etags, local, vault, label, sync, edits, clock>>

Times == 1..MaxTime

(* What a device may read on its clock, and the clock once it has stamped t. *)
Now == IF Skewed THEN Times ELSE {t \in Times : t > clock}
Stamped(t) == clock' = IF Skewed THEN clock ELSE t

NoItem == [at |-> 0, rev |-> 0]
Item == [at : Times, rev : Nat] \cup {NoItem}
Items == [Ids -> Item]

Held(items) == {i \in Ids : items[i] # NoItem}

(* The newest updatedAt, 0 when there is no item. *)
Latest(items) ==
  LET times == {items[i].at : i \in Ids} \cup {0}
  IN  CHOOSE n \in times : \A m \in times : m <= n

Vault == [items : Items, sum : Nat, here : BOOLEAN]

Label == [kind : {"absent", "ok", "unreadable"}, stamp : 0..MaxTime, sum : Nat,
          count : Nat, ver : Nat]

NoItems == [i \in Ids |-> NoItem]
NoLabel == [kind |-> "absent", stamp |-> 0, sum |-> 0, count |-> 0, ver |-> 0]

(* mine is localItems, merged mergedItems, seen the metadata that was read,  *)
(* sum the upload the device has made; blank: downloadVault brought nothing. *)
Sync == [pc : {"idle", "reading", "downloading", "uploading", "labelling", "saving"},
         mine : Items, merged : Items, seen : Label, sum : Nat, blank : BOOLEAN]

Idle == [pc |-> "idle", mine |-> NoItems, merged |-> NoItems, seen |-> NoLabel, sum |-> 0,
         blank |-> FALSE]

Init ==
  /\ etags \in Conditional
  /\ local = [d \in Devices |-> NoItems]
  /\ vault = [items |-> NoItems, sum |-> 0, here |-> FALSE]
  /\ label = NoLabel
  /\ sync = [d \in Devices |-> Idle]
  /\ edits = 0
  /\ clock = 0

-----------------------------------------------------------------------------
(* The user creates, imports or edits an item.  An import keeps the ids of   *)
(* the backup, so that two devices may come to have the same item without a  *)
(* sync.                                                                     *)
Edit(d) ==
  /\ edits < MaxEdits
  /\ edits' = edits + 1
  /\ \E i \in Ids, t \in Now :
       /\ local' = [local EXCEPT ![d][i] = [at |-> t, rev |-> edits + 1]]
       /\ Stamped(t)
  /\ UNCHANGED <<etags, vault, label, sync>>

(* The user trashes or restores an item, which leaves its updatedAt alone. *)
Trash(d) ==
  /\ edits < MaxEdits
  /\ edits' = edits + 1
  /\ \E i \in Held(local[d]) : local' = [local EXCEPT ![d][i].rev = edits + 1]
  /\ UNCHANGED <<etags, vault, label, sync, clock>>

(* The user deletes an item for good. *)
Purge(d) ==
  /\ edits < MaxEdits
  /\ edits' = edits + 1
  /\ \E i \in Held(local[d]) : local' = [local EXCEPT ![d][i] = NoItem]
  /\ UNCHANGED <<etags, vault, label, sync, clock>>

-----------------------------------------------------------------------------
(* handleSyncNow: one sync at a time on a device, on a copy of its items. *)
Start(d) ==
  /\ sync[d].pc = "idle"
  /\ sync' = [sync EXCEPT ![d] = [Idle EXCEPT !.pc = "reading", !.mine = local[d],
                                              !.merged = local[d]]]
  /\ UNCHANGED <<etags, local, vault, label, edits, clock>>

(* A request, the decryption or the local save fails, or the process dies:   *)
(* every early return of performSync and the catch of handleSyncNow.         *)
Abandon(d) ==
  /\ sync[d].pc # "idle"
  /\ sync' = [sync EXCEPT ![d] = Idle]
  /\ UNCHANGED <<etags, local, vault, label, edits, clock>>

(* remoteTs > latestLocalTs, or there is nothing local. *)
WorthDownloading(d) ==
  label.kind = "ok" /\ (label.stamp > Latest(sync[d].mine) \/ Held(sync[d].mine) = {})

(* Mutant of ReadLabel: a label that cannot be read is taken for none. *)
ReadAnyLabel(d) ==
  /\ sync[d].pc = "reading"
  /\ sync' = [sync EXCEPT ![d].seen = label,
                          ![d].pc = IF WorthDownloading(d) THEN "downloading" ELSE "uploading"]
  /\ UNCHANGED <<etags, local, vault, label, edits, clock>>

(* getRemoteMetadata, on which performSync decides.  A label that is there   *)
(* and cannot be read ends the sync: only Abandon is left.                   *)
ReadLabel(d) ==
  /\ sync[d].pc = "reading" /\ label.kind # "unreadable"
  /\ sync' = [sync EXCEPT ![d].seen = label,
                          ![d].pc = IF WorthDownloading(d) THEN "downloading" ELSE "uploading"]
  /\ UNCHANGED <<etags, local, vault, label, edits, clock>>

(* Mutant of Merge: the remote item always wins. *)
RemoteWins(mine, remote) ==
  [i \in Ids |-> IF remote[i] # NoItem THEN remote[i] ELSE mine[i]]

(* Mutant of Merge: the items that are only local are dropped. *)
RemoteItemsOnly(mine, remote) ==
  [i \in Held(remote) |-> IF remote[i].at > mine[i].at THEN remote[i] ELSE mine[i]]

(* resolveLWWConflicts: the remote item wins when it is strictly newer, or   *)
(* when there is no local one.                                               *)
Merge(mine, remote) ==
  [i \in Ids |-> IF remote[i].at > mine[i].at THEN remote[i] ELSE mine[i]]

(* What a download leaves the sync with. *)
Blank(d) == sync' = [sync EXCEPT ![d].pc = "uploading", ![d].blank = TRUE]

Merging(d) == sync' = [sync EXCEPT ![d].pc = "uploading",
                                   ![d].merged = Merge(sync[d].mine, vault.items)]

(* Mutant of Download: the checksum is not compared. *)
DownloadUnchecked(d) ==
  /\ sync[d].pc = "downloading"
  /\ IF vault.here THEN Merging(d) ELSE Blank(d)
  /\ UNCHANGED <<etags, local, vault, label, edits, clock>>

(* downloadVault and parseSyncEnvelope: an envelope that is not the one the  *)
(* label describes ends the sync.  Without one (a 404, an empty body) the    *)
(* sync goes on to upload the local items as they are.                       *)
Download(d) ==
  /\ sync[d].pc = "downloading"
  /\ \/ ~vault.here /\ Blank(d)
     \/ vault.here /\ vault.sum = sync[d].seen.sum /\ Merging(d)
  /\ UNCHANGED <<etags, local, vault, label, edits, clock>>

(* vault.ks is removed or emptied at the remote, metadata.json is not. *)
LoseVault ==
  /\ vault.here /\ vault.sum <= MaxLost
  /\ vault' = [vault EXCEPT !.here = FALSE, !.items = NoItems]
  /\ UNCHANGED <<etags, local, label, sync, edits, clock>>

-----------------------------------------------------------------------------
(* The ETag of metadata.json is sent as the precondition of vault.ks; the    *)
(* ETags of two objects differ.                                              *)
IfMatch(d) ==
  IF etags /\ sync[d].seen.kind = "ok" THEN {<<"metadata.json", sync[d].seen.ver>>} ELSE {}

Accepted(d) == IfMatch(d) \subseteq {<<"vault.ks", vault.sum>>}

(* The first half of uploadVault.  The answer may be lost after the object   *)
(* was replaced.                                                             *)
PutVault(d) ==
  /\ sync[d].pc = "uploading" /\ Accepted(d)
  /\ vault.sum < MaxUploads
  /\ vault' = [items |-> sync[d].merged, sum |-> vault.sum + 1, here |-> TRUE]
  /\ \E answered \in BOOLEAN :
       sync' = [sync EXCEPT ![d] = IF answered
                                   THEN [@ EXCEPT !.pc = "labelling", !.sum = vault.sum + 1]
                                   ELSE Idle]
  /\ UNCHANGED <<etags, local, label, edits, clock>>

(* 412: remoteModified. *)
Reject(d) ==
  /\ sync[d].pc = "uploading" /\ ~Accepted(d)
  /\ sync' = [sync EXCEPT ![d] = Idle]
  /\ UNCHANGED <<etags, local, vault, label, edits, clock>>

(* The stamp of an envelope without items is the clock of the device. *)
Stamps(items) == IF Latest(items) = 0 THEN Now ELSE {Latest(items)}

(* The second half, unconditional. *)
PutLabel(d) ==
  /\ sync[d].pc = "labelling"
  /\ \E stamp \in Stamps(sync[d].merged) :
       label' = [kind |-> "ok", stamp |-> stamp, sum |-> sync[d].sum,
                 count |-> Cardinality(Held(sync[d].merged)), ver |-> label.ver + 1]
  /\ \E answered \in BOOLEAN :
       sync' = [sync EXCEPT ![d] = IF answered THEN [@ EXCEPT !.pc = "saving"] ELSE Idle]
  /\ UNCHANGED <<etags, local, vault, edits, clock>>

(* The connection breaks while metadata.json is sent, and the remote keeps    *)
(* what it has got.                                                          *)
TruncateLabel(d) ==
  /\ MayTruncate
  /\ sync[d].pc = "labelling"
  /\ label' = [NoLabel EXCEPT !.kind = "unreadable", !.ver = label.ver + 1]
  /\ sync' = [sync EXCEPT ![d] = Idle]
  /\ UNCHANGED <<etags, local, vault, edits, clock>>

(* saveVaultItems(mergedItems), an upsert of every merged item.  The file    *)
(* repository stamps all of them, wa-sqlite keeps the stamps they have.      *)
Saved(d, items) == [i \in Ids |-> IF items[i] # NoItem THEN items[i] ELSE local[d][i]]

Restamped(items, t) ==
  [i \in Ids |-> IF items[i] # NoItem THEN [at |-> t, rev |-> items[i].rev] ELSE NoItem]

Save(d) ==
  /\ sync[d].pc = "saving"
  /\ \/ /\ Backend[d] = "file"
        /\ \E t \in Now :
             /\ local' = [local EXCEPT ![d] = Saved(d, Restamped(sync[d].merged, t))]
             /\ Stamped(t)
     \/ /\ Backend[d] = "wa-sqlite"
        /\ local' = [local EXCEPT ![d] = Saved(d, sync[d].merged)]
        /\ UNCHANGED clock
  /\ sync' = [sync EXCEPT ![d] = Idle]
  /\ UNCHANGED <<etags, vault, label, edits>>

-----------------------------------------------------------------------------
SyncStep(d) ==
  \/ Start(d) \/ ReadLabel(d) \/ Download(d)
  \/ PutVault(d) \/ Reject(d) \/ PutLabel(d) \/ TruncateLabel(d)
  \/ Save(d) \/ Abandon(d)

Next ==
  \/ LoseVault
  \/ \E d \in Devices : Edit(d) \/ Trash(d) \/ Purge(d) \/ SyncStep(d)

Spec == Init /\ [][Next]_vars

-----------------------------------------------------------------------------
(* Every variable has the shape of the code's state. *)
TypeOK ==
  /\ etags \in BOOLEAN
  /\ local \in [Devices -> Items]
  /\ vault \in Vault
  /\ label \in Label
  /\ sync \in [Devices -> Sync]
  /\ edits \in Nat
  /\ clock \in 0..MaxTime

(* A sync that has read the label of a remote with items, and did not find   *)
(* vault.ks gone or empty when it came to download it, goes on to upload     *)
(* only a vault that is at least as new as that label says: it has the newer *)
(* data itself or has merged exactly the envelope the label describes, never *)
(* an older one that another device's upload has put beside it               *)
(* (performSync, parseSyncEnvelope).  One that did find it gone uploads what *)
(* it has, unmerged, however new the label (syncEngine.ts:247).              *)
UploadsAreUpToDate ==
  \A d \in Devices :
    /\ sync[d].pc \in {"uploading", "labelling", "saving"}
    /\ sync[d].seen.count > 0 /\ ~sync[d].blank
    => Latest(sync[d].merged) >= sync[d].seen.stamp

(* Why it is an invariant: a label, as it is now or as a sync has read it,   *)
(* tells how new vault.ks (v) is when it carries the number of vault.ks.     *)
Tells(l, v) ==
  /\ l.kind # "ok" => l.count = 0
  /\ l.sum <= v.sum
  /\ v.here /\ l.sum = v.sum /\ l.count > 0 => Latest(v.items) >= l.stamp

(* ... and a device that is about to write a label knows what it uploaded. *)
SyncUpToDate(s, v) ==
  /\ s.pc \in {"uploading", "labelling", "saving"} /\ s.seen.count > 0 /\ ~s.blank
       => Latest(s.merged) >= s.seen.stamp
  /\ Tells(s.seen, v)
  /\ s.pc = "reading" => s.merged = s.mine
  /\ s.sum <= v.sum
  /\ s.pc = "labelling" /\ s.sum = v.sum /\ v.here => s.merged = v.items

UpToDateInv == Tells(label, vault) /\ \A d \in Devices : SyncUpToDate(sync[d], vault)

(* What a sync will save is never older than what the device had. *)
MergedIsNewer ==
  \A d \in Devices, i \in Ids :
    \/ sync[d].merged[i] = sync[d].mine[i]
    \/ sync[d].merged[i].at > sync[d].mine[i].at

(* A sync past its decision has read a label it could read, of the present   *)
(* version or an earlier one.                                                *)
SeenIsReadable ==
  \A d \in Devices :
    sync[d].pc \in {"downloading", "uploading", "labelling", "saving"} =>
      /\ sync[d].seen.ver <= label.ver
      /\ sync[d].seen.ver = label.ver => label.kind # "unreadable"

(* Y-11: while the label of the remote cannot be read, vault.ks is replaced  *)
(* only by a sync that had read an earlier label (performSync, unreadable).  *)
UnknownRemoteKept ==
  [][\A d \in Devices :
       PutVault(d) /\ label.kind = "unreadable" => sync[d].seen.ver < label.ver]_vars

(* What a device held when it began to sync is replaced on it only by        *)
(* something whose updatedAt is strictly newer (resolveLWWConflicts).        *)
SyncNeverMovesBack ==
  [][\A d \in Devices, i \in Ids :
       Save(d) /\ sync[d].mine[i] # NoItem =>
         \/ local'[d][i].rev = sync[d].mine[i].rev
         \/ sync[d].merged[i].at > sync[d].mine[i].at]_vars

(* "Last-Write-Wins" (resolveLWWConflicts): when the devices read one clock, *)
(* a sync replaces what the device held only by a later edit.                *)
LastWriteWins ==
  [][\A d \in Devices, i \in Ids :
       Save(d) => local'[d][i].rev >= sync[d].mine[i].rev]_vars

=============================================================================
