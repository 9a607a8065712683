--------------------------- MODULE VaultSyncProofs ---------------------------
(***************************************************************************)
(* Type correctness of VaultSync, and that a sync uploads nothing older    *)
(* than the label it has read and moves nothing back on its device, for    *)
(* any number of devices, items, clock readings and uploads.               *)
(***************************************************************************)
EXTENDS VaultSync, FiniteSetTheorems, WellFoundedInduction, TLAPS

USE SyncAssumption DEF SyncAssumption, Times

-----------------------------------------------------------------------------
(* Every nonempty set of readings of a clock has a newest one. *)
LEMMA NewestExists ==
  ASSUME NEW T \in SUBSET (0..MaxTime), T # {}
  PROVE  \E n \in T : \A m \in T : m <= n
<1> DEFINE Below == {MaxTime - n : n \in T}
<1>0. \A n \in T : n \in Int /\ MaxTime - n \in Nat
  OBVIOUS
<1>1. Below \subseteq Nat /\ Below # {}
  BY <1>0
<1>2. PICK x \in Below : \A y \in Below : ~(<<y, x>> \in OpToRel(<, Nat))
  BY <1>1, NatLessThanWellFounded, WFMin
<1>3. \A y \in Below : ~(y < x)
  BY <1>1, <1>2 DEF OpToRel
<1>4. PICK n \in T : x = MaxTime - n
  BY DEF Below
<1>5. \A m \in T : m <= n
  <2> TAKE m \in T
  <2>1. MaxTime - m \in Below
    OBVIOUS
  <2>2. ~(MaxTime - m < MaxTime - n)
    BY <1>3, <1>4, <2>1
  <2> QED BY <1>0, <2>2
<1> QED BY <1>5

LEMMA ItemTimes ==
  ASSUME NEW items \in Items, NEW i \in Ids
  PROVE  /\ items[i] \in Item
         /\ items[i].at \in 0..MaxTime
         /\ items[i] # NoItem <=> items[i].at > 0
BY DEF Items, Item, NoItem

(* Latest is the newest timestamp of a vault, 0 when it has no item. *)
LEMMA LatestIsNewest ==
  ASSUME NEW items \in Items
  PROVE  /\ Latest(items) \in 0..MaxTime
         /\ \A i \in Ids : items[i].at <= Latest(items)
         /\ Latest(items) > 0 => \E i \in Ids : items[i].at = Latest(items)
<1> DEFINE T == {items[i].at : i \in Ids} \cup {0}
<1>1. T \in SUBSET (0..MaxTime) /\ T # {}
  BY ItemTimes
<1>2. \E n \in T : \A m \in T : m <= n
  BY <1>1, NewestExists
<1>3. Latest(items) \in T /\ \A m \in T : m <= Latest(items)
  BY <1>2 DEF Latest
<1> QED BY <1>1, <1>3

LEMMA HeldMeansLatest ==
  ASSUME NEW items \in Items, Held(items) # {}
  PROVE  Latest(items) > 0
BY LatestIsNewest, ItemTimes DEF Held

LEMMA HeldCount ==
  ASSUME NEW items \in Items
  PROVE  /\ Cardinality(Held(items)) \in Nat
         /\ Cardinality(Held(items)) > 0 => Held(items) # {}
<1>1. IsFiniteSet(Held(items))
  BY FS_Subset DEF Held
<1> QED BY <1>1, FS_CardinalityType, FS_EmptySet

(* A merge has every item of both sides, each as new as the newer of the two. *)
LEMMA MergeIsNewest ==
  ASSUME NEW mine \in Items, NEW remote \in Items
  PROVE  /\ Merge(mine, remote) \in Items
         /\ \A i \in Ids : \/ Merge(mine, remote)[i] = mine[i]
                           \/ Merge(mine, remote)[i].at > mine[i].at
         /\ \A i \in Ids : Merge(mine, remote)[i].at >= remote[i].at
<1>1. Merge(mine, remote) \in Items
  BY DEF Merge, Items
<1>2. ASSUME NEW i \in Ids
      PROVE  /\ \/ Merge(mine, remote)[i] = mine[i]
                \/ Merge(mine, remote)[i].at > mine[i].at
             /\ Merge(mine, remote)[i].at >= remote[i].at
  <2>1. mine[i].at \in 0..MaxTime /\ remote[i].at \in 0..MaxTime
    BY ItemTimes
  <2> QED BY <2>1 DEF Merge
<1> QED BY <1>1, <1>2

LEMMA LatestGrows ==
  ASSUME NEW old \in Items, NEW new \in Items, \A i \in Ids : new[i].at >= old[i].at
  PROVE  Latest(new) >= Latest(old)
<1>1. CASE Latest(old) = 0
  BY <1>1, LatestIsNewest
<1>2. CASE Latest(old) > 0
  <2>1. PICK i \in Ids : old[i].at = Latest(old)
    BY <1>2, LatestIsNewest
  <2>2. new[i].at >= Latest(old) /\ new[i].at <= Latest(new)
    BY <2>1, LatestIsNewest
  <2>3. Latest(old) \in 0..MaxTime /\ Latest(new) \in 0..MaxTime /\ new[i].at \in 0..MaxTime
    BY LatestIsNewest, ItemTimes
  <2> QED BY <2>2, <2>3
<1> QED BY <1>1, <1>2, LatestIsNewest

(* A stamp is a time, and the clock shows one after it. *)
LEMMA StampIsTime ==
  ASSUME TypeOK
  PROVE  Now \subseteq Times /\ \A t \in Now : Stamped(t) => clock' \in 0..MaxTime
BY DEF Now, Stamped, TypeOK

(* What a sync saves is a vault again, and no item it had gets another edit. *)
LEMMA SavedItems ==
  ASSUME TypeOK, NEW d \in Devices, NEW items \in Items, NEW t \in Times
  PROVE  /\ Saved(d, items) \in Items /\ Saved(d, Restamped(items, t)) \in Items
         /\ \A i \in Ids : items[i] # NoItem =>
              /\ Saved(d, items)[i].rev = items[i].rev
              /\ Saved(d, Restamped(items, t))[i].rev = items[i].rev
<1>1. local[d] \in Items
  BY DEF TypeOK
<1>2. Restamped(items, t) \in Items
  BY DEF Restamped, Items, Item
<1>3. Saved(d, items) \in Items /\ Saved(d, Restamped(items, t)) \in Items
  BY <1>1, <1>2 DEF Saved, Items
<1>4. ASSUME NEW i \in Ids, items[i] # NoItem
      PROVE  /\ Saved(d, items)[i].rev = items[i].rev
             /\ Saved(d, Restamped(items, t))[i].rev = items[i].rev
  <2>1. Restamped(items, t)[i] = [at |-> t, rev |-> items[i].rev]
    BY <1>4 DEF Restamped
  <2>2. [at |-> t, rev |-> items[i].rev] # NoItem
    BY DEF NoItem
  <2> QED BY <1>4, <2>1, <2>2 DEF Saved
<1> QED BY <1>3, <1>4

-----------------------------------------------------------------------------
LEMMA IdleType == NoItem \in Item /\ NoItems \in Items /\ NoLabel \in Label /\ Idle \in Sync
BY DEF NoItem, Item, NoItems, Items, NoLabel, Label, Idle, Sync

LEMMA SyncFields ==
  ASSUME TypeOK, NEW d \in Devices
  PROVE  /\ sync[d] \in Sync
         /\ sync[d].mine \in Items /\ sync[d].merged \in Items
         /\ sync[d].seen \in Label /\ sync[d].sum \in Nat
         /\ vault.items \in Items /\ vault.sum \in Nat /\ label \in Label
         /\ label.ver \in Nat /\ label.sum \in Nat
BY DEF TypeOK, Sync, Vault, Label

LEMMA NewLabel ==
  ASSUME NEW stamp \in 0..MaxTime, NEW sum \in Nat, NEW count \in Nat, NEW ver \in Nat
  PROVE  [kind |-> "ok", stamp |-> stamp, sum |-> sum, count |-> count, ver |-> ver] \in Label
BY DEF Label

LEMMA Replaced ==
  ASSUME TypeOK, NEW d \in Devices, NEW r \in Sync, sync' = [sync EXCEPT ![d] = r]
  PROVE  sync' \in [Devices -> Sync]
BY DEF TypeOK

(* The two records a download can leave: with the merge, or as it was. *)
Downloaded(d) == [sync[d] EXCEPT !.pc = "uploading",
                                 !.merged = Merge(sync[d].mine, vault.items)]

Unmerged(d) == [sync[d] EXCEPT !.pc = "uploading", !.blank = TRUE]

LEMMA DownloadRecords ==
  ASSUME TypeOK, NEW d \in Devices
  PROVE  /\ Downloaded(d) \in Sync /\ Downloaded(d).pc = "uploading"
         /\ Downloaded(d).merged = Merge(sync[d].mine, vault.items)
         /\ Downloaded(d).mine = sync[d].mine /\ Downloaded(d).seen = sync[d].seen
         /\ Downloaded(d).sum = sync[d].sum
         /\ Unmerged(d) \in Sync /\ Unmerged(d).pc = "uploading" /\ Unmerged(d).blank
         /\ Unmerged(d).merged = sync[d].merged /\ Unmerged(d).mine = sync[d].mine
         /\ Unmerged(d).seen = sync[d].seen /\ Unmerged(d).sum = sync[d].sum
<1>1. Merge(sync[d].mine, vault.items) \in Items
  BY SyncFields, MergeIsNewest
<1> QED BY <1>1, SyncFields DEF Sync, Downloaded, Unmerged

LEMMA DownloadEffect ==
  ASSUME NEW d \in Devices, Download(d)
  PROVE  /\ sync[d].pc = "downloading" /\ vault' = vault /\ label' = label
         /\ \/ vault.here /\ vault.sum = sync[d].seen.sum
                /\ sync' = [sync EXCEPT ![d] = Downloaded(d)]
            \/ sync' = [sync EXCEPT ![d] = Unmerged(d)]
BY DEF Download, Blank, Merging, Downloaded, Unmerged

LEMMA TypeInit == Init => TypeOK
BY IdleType DEF Init, TypeOK, Vault

(* One step for each action that changes something. *)
LEMMA TypeStep == TypeOK /\ [Next]_vars => TypeOK'
<1> SUFFICES ASSUME TypeOK, [Next]_vars PROVE TypeOK'
  OBVIOUS
<1>1. ASSUME NEW d \in Devices, Edit(d) PROVE TypeOK'
  <2>1. PICK i \in Ids, t \in Now :
          local' = [local EXCEPT ![d][i] = [at |-> t, rev |-> edits + 1]] /\ Stamped(t)
    BY <1>1 DEF Edit
  <2>2. [at |-> t, rev |-> edits + 1] \in Item /\ clock' \in 0..MaxTime
    BY <2>1, StampIsTime DEF Item, TypeOK
  <2>3. local' \in [Devices -> Items]
    BY <2>1, <2>2 DEF TypeOK, Items
  <2> QED BY <1>1, <2>2, <2>3 DEF Edit, TypeOK
<1>1a. ASSUME NEW d \in Devices, Trash(d) PROVE TypeOK'
  <2>1. PICK i \in Held(local[d]) : local' = [local EXCEPT ![d][i].rev = edits + 1]
    BY <1>1a DEF Trash
  <2>2. i \in Ids /\ local[d] \in Items /\ local[d][i] \in Item /\ local[d][i] # NoItem
    BY <2>1 DEF Held, TypeOK, Items
  <2>3. [local[d][i] EXCEPT !.rev = edits + 1] \in Item
    BY <2>2 DEF Item, TypeOK
  <2>4. local' \in [Devices -> Items]
    BY <2>1, <2>2, <2>3 DEF TypeOK, Items
  <2> QED BY <1>1a, <2>4 DEF Trash, TypeOK
<1>2. ASSUME NEW d \in Devices, Purge(d) PROVE TypeOK'
  <2>1. local' \in [Devices -> Items]
    BY <1>2, IdleType DEF Purge, TypeOK, Items, Held
  <2> QED BY <1>2, <2>1 DEF Purge, TypeOK
<1>3. ASSUME NEW d \in Devices, Start(d) PROVE TypeOK'
  <2>1. local[d] \in Items
    BY DEF TypeOK
  <2>2. [Idle EXCEPT !.pc = "reading", !.mine = local[d], !.merged = local[d]] \in Sync
    BY <2>1, IdleType DEF Sync
  <2> QED BY <1>3, <2>2 DEF Start, TypeOK
<1>4. ASSUME NEW d \in Devices, Abandon(d) \/ Reject(d) PROVE TypeOK'
  BY <1>4, IdleType DEF Abandon, Reject, TypeOK
<1>5. ASSUME NEW d \in Devices, ReadLabel(d) PROVE TypeOK'
  <2>1. [sync[d] EXCEPT !.seen = label,
                        !.pc = IF WorthDownloading(d) THEN "downloading" ELSE "uploading"] \in Sync
    BY SyncFields DEF Sync
  <2>2. sync' \in [Devices -> Sync]
    BY <1>5, <2>1 DEF ReadLabel, TypeOK
  <2> QED BY <1>5, <2>2 DEF ReadLabel, TypeOK
<1>6. ASSUME NEW d \in Devices, Download(d) PROVE TypeOK'
  <2>1. Downloaded(d) \in Sync /\ Unmerged(d) \in Sync
    BY DownloadRecords
  <2>2. sync' \in [Devices -> Sync]
    BY <1>6, <2>1, DownloadEffect, Replaced
  <2> QED BY <1>6, <2>2 DEF Download, TypeOK
<1>6a. ASSUME LoseVault PROVE TypeOK'
  <2>1. [vault EXCEPT !.here = FALSE, !.items = NoItems] \in Vault
    BY IdleType DEF TypeOK, Vault
  <2> QED BY <1>6a, <2>1 DEF LoseVault, TypeOK
<1>7. ASSUME NEW d \in Devices, PutVault(d) PROVE TypeOK'
  <2>1. vault' \in Vault
    BY <1>7, SyncFields DEF PutVault, Vault
  <2>2. [sync[d] EXCEPT !.pc = "labelling", !.sum = vault.sum + 1] \in Sync
    <3>1. vault.sum + 1 \in Nat
      BY SyncFields
    <3> QED BY <3>1, SyncFields DEF Sync
  <2>3. \E r \in Sync : sync' = [sync EXCEPT ![d] = r]
    BY <1>7, <2>2, IdleType DEF PutVault
  <2>4. sync' \in [Devices -> Sync]
    BY <2>3, Replaced
  <2> QED BY <1>7, <2>1, <2>4 DEF PutVault, TypeOK
<1>8. ASSUME NEW d \in Devices, PutLabel(d) PROVE TypeOK'
  <2>1. Stamps(sync[d].merged) \subseteq 0..MaxTime
    BY SyncFields, LatestIsNewest, StampIsTime DEF Stamps
  <2>2. Cardinality(Held(sync[d].merged)) \in Nat
    BY SyncFields, HeldCount
  <2>3. label' \in Label
    <3>1. PICK stamp \in Stamps(sync[d].merged) :
            label' = [kind |-> "ok", stamp |-> stamp, sum |-> sync[d].sum,
                      count |-> Cardinality(Held(sync[d].merged)), ver |-> label.ver + 1]
      BY <1>8 DEF PutLabel
    <3>2. stamp \in 0..MaxTime
      BY <2>1
    <3>3. sync[d].sum \in Nat /\ label.ver + 1 \in Nat
      BY SyncFields
    <3> QED BY <2>2, <3>1, <3>2, <3>3, NewLabel
  <2>4. sync' \in [Devices -> Sync]
    BY <1>8, SyncFields, IdleType DEF PutLabel, TypeOK, Sync
  <2> QED BY <1>8, <2>3, <2>4 DEF PutLabel, TypeOK
<1>9. ASSUME NEW d \in Devices, Save(d) PROVE TypeOK'
  <2>1. sync[d].merged \in Items
    BY SyncFields
  <2>2. local' \in [Devices -> Items] /\ clock' \in 0..MaxTime
    <3>1. CASE Backend[d] = "file"
      <4>1. PICK t \in Now :
              /\ local' = [local EXCEPT ![d] = Saved(d, Restamped(sync[d].merged, t))]
              /\ Stamped(t)
        BY <1>9, <3>1 DEF Save
      <4>2. t \in Times /\ clock' \in 0..MaxTime
        BY <4>1, StampIsTime
      <4>3. Saved(d, Restamped(sync[d].merged, t)) \in Items
        BY <2>1, <4>2, SavedItems
      <4> QED BY <4>1, <4>2, <4>3 DEF TypeOK
    <3>2. CASE Backend[d] # "file"
      <4>1. local' = [local EXCEPT ![d] = Saved(d, sync[d].merged)] /\ clock' = clock
        BY <1>9, <3>2 DEF Save
      <4>2. 1 \in Times
        OBVIOUS
      <4>3. Saved(d, sync[d].merged) \in Items
        BY <2>1, <4>2, SavedItems
      <4> QED BY <4>1, <4>3 DEF TypeOK
    <3> QED BY <3>1, <3>2
  <2> QED BY <1>9, <2>2, IdleType DEF Save, TypeOK
<1>10. ASSUME NEW d \in Devices, TruncateLabel(d) PROVE TypeOK'
  <2>1. label.ver + 1 \in Nat
    BY DEF TypeOK, Label
  <2>2. label' = [kind |-> "unreadable", stamp |-> 0, sum |-> 0, count |-> 0,
                  ver |-> label.ver + 1]
    BY <1>10 DEF TruncateLabel, NoLabel
  <2>3. label' \in Label
    BY <2>1, <2>2 DEF Label
  <2> QED BY <1>10, <2>3, IdleType DEF TruncateLabel, TypeOK
<1>11. CASE UNCHANGED vars
  BY <1>11 DEF vars, TypeOK
<1> QED
  BY <1>1, <1>2, <1>3, <1>4, <1>5, <1>6, <1>7, <1>8, <1>9, <1>10, <1>11,
     <1>1a, <1>6a DEF Next, SyncStep

(* Every reachable state has the shape of the code's state. *)
THEOREM SyncTypeCorrect == Spec => []TypeOK
BY TypeInit, TypeStep, PTL DEF Spec

-----------------------------------------------------------------------------
(* UpToDateInv.  A step of one device leaves the record of every other        *)
(* device, and vault.ks either alone or with a new number; or it is lost.     *)

NewNumber(v) ==
  v = vault \/ (v \in Vault /\ (v.sum = vault.sum + 1 \/ (v.sum = vault.sum /\ ~v.here)))

LEMMA TellsNothing == ASSUME NEW v \in Vault PROVE Tells(NoLabel, v)
BY DEF Tells, NoLabel, Vault

(* A label that told the truth still does when vault.ks gets a new number. *)
LEMMA TellsLater ==
  ASSUME TypeOK, NEW l \in Label, NEW v, NewNumber(v), Tells(l, vault)
  PROVE  Tells(l, v)
BY DEF NewNumber, Tells, TypeOK, Vault, Label

LEMMA IdleUpToDate == ASSUME NEW v \in Vault PROVE SyncUpToDate(Idle, v)
BY TellsNothing DEF SyncUpToDate, Idle, NoLabel, Vault

LEMMA UpToDateLater ==
  ASSUME TypeOK, NEW s \in Sync, NEW v, NewNumber(v), SyncUpToDate(s, vault)
  PROVE  SyncUpToDate(s, v)
<1>1. s.seen \in Label /\ s.sum \in Nat /\ vault.sum \in Nat
  BY DEF Sync, TypeOK, Vault
<1>2. Tells(s.seen, v)
  BY <1>1, TellsLater DEF SyncUpToDate
<1> QED BY <1>1, <1>2 DEF SyncUpToDate, NewNumber

LEMMA UpToDateInit == Init => UpToDateInv
<1> SUFFICES ASSUME Init PROVE UpToDateInv
  OBVIOUS
<1>1. vault \in Vault
  BY TypeInit DEF TypeOK
<1> QED BY <1>1, TellsNothing, IdleUpToDate DEF Init, UpToDateInv

(* What is left to show of a step in which device d takes the record r. *)
LEMMA OneRecord ==
  ASSUME TypeOK, UpToDateInv, NEW d \in Devices, NEW r, sync' = [sync EXCEPT ![d] = r],
         NewNumber(vault'), label' = label, SyncUpToDate(r, vault')
  PROVE  UpToDateInv'
<1>1. Tells(label, vault')
  BY TellsLater DEF UpToDateInv, TypeOK
<1>2. ASSUME NEW e \in Devices PROVE SyncUpToDate(sync'[e], vault')
  <2>1. CASE e = d
    BY <2>1 DEF TypeOK
  <2>2. CASE e # d
    BY <2>2, UpToDateLater, SyncFields DEF TypeOK, UpToDateInv
  <2> QED BY <2>1, <2>2
<1> QED BY <1>1, <1>2 DEF UpToDateInv

LEMMA UpToDateStep == TypeOK /\ UpToDateInv /\ [Next]_vars => UpToDateInv'
<1> SUFFICES ASSUME TypeOK, UpToDateInv, [Next]_vars PROVE UpToDateInv'
  OBVIOUS
<1>v. vault \in Vault /\ NewNumber(vault) /\ (vault' = vault => NewNumber(vault'))
  BY DEF TypeOK, NewNumber
<1>1. CASE (UNCHANGED vars) \/ (\E d \in Devices : Edit(d) \/ Trash(d) \/ Purge(d))
  BY <1>1 DEF vars, Edit, Trash, Purge, UpToDateInv
<1>2. ASSUME NEW d \in Devices, Start(d) PROVE UpToDateInv'
  <2> DEFINE r == [Idle EXCEPT !.pc = "reading", !.mine = local[d], !.merged = local[d]]
  <2>1. SyncUpToDate(r, vault)
    BY <1>v, IdleUpToDate DEF SyncUpToDate, Idle, NoLabel
  <2> QED BY <1>2, <1>v, <2>1, OneRecord DEF Start
<1>3. ASSUME NEW d \in Devices, Abandon(d) \/ Reject(d) PROVE UpToDateInv'
  BY <1>3, <1>v, IdleUpToDate, OneRecord DEF Abandon, Reject
<1>4. ASSUME NEW d \in Devices, ReadLabel(d) PROVE UpToDateInv'
  <2> DEFINE r == [sync[d] EXCEPT !.seen = label,
                     !.pc = IF WorthDownloading(d) THEN "downloading" ELSE "uploading"]
  <2>1. r \in Sync /\ r.seen = label /\ r.merged = sync[d].merged /\ r.sum = sync[d].sum
        /\ r.pc = IF WorthDownloading(d) THEN "downloading" ELSE "uploading"
    BY SyncFields DEF Sync
  <2>2. ~WorthDownloading(d) /\ label.count > 0 => Latest(sync[d].merged) >= label.stamp
    <3>1. SyncUpToDate(sync[d], vault) /\ Tells(label, vault)
      BY DEF UpToDateInv
    <3>2. label.kind # "ok" => ~(label.count > 0)
      BY <3>1 DEF Tells
    <3>3. Latest(sync[d].mine) \in 0..MaxTime /\ label.stamp \in 0..MaxTime
      BY SyncFields, LatestIsNewest DEF Label
    <3> QED BY <1>4, <3>1, <3>2, <3>3 DEF SyncUpToDate, WorthDownloading, ReadLabel
  <2>3. SyncUpToDate(r, vault)
    BY <2>1, <2>2 DEF SyncUpToDate, UpToDateInv
  <2>4. sync' = [sync EXCEPT ![d] = r]
    BY <1>4 DEF ReadLabel
  <2> QED BY <1>4, <1>v, <2>3, <2>4, OneRecord DEF ReadLabel
<1>5. ASSUME NEW d \in Devices, Download(d) PROVE UpToDateInv'
  <2> DEFINE m == Merge(sync[d].mine, vault.items)
  <2>0. vault' = vault /\ label' = label /\ NewNumber(vault')
    BY <1>5, <1>v, DownloadEffect
  <2>1. CASE vault.here /\ vault.sum = sync[d].seen.sum /\ sync' = [sync EXCEPT ![d] = Downloaded(d)]
    <3>1. Latest(m) >= Latest(vault.items)
      BY SyncFields, MergeIsNewest, LatestGrows
    <3>2. /\ Latest(m) \in 0..MaxTime /\ Latest(vault.items) \in 0..MaxTime
          /\ sync[d].seen.stamp \in 0..MaxTime
      BY SyncFields, MergeIsNewest, LatestIsNewest DEF Label
    <3>3. sync[d].seen.count > 0 => Latest(vault.items) >= sync[d].seen.stamp
      BY <2>1 DEF UpToDateInv, SyncUpToDate, Tells
    <3>4. SyncUpToDate(Downloaded(d), vault)
      BY <3>1, <3>2, <3>3, SyncFields, DownloadRecords DEF SyncUpToDate, UpToDateInv
    <3> QED BY <2>0, <2>1, <3>4, OneRecord
  <2>2. CASE sync' = [sync EXCEPT ![d] = Unmerged(d)]
    <3>1. SyncUpToDate(Unmerged(d), vault)
      BY SyncFields, DownloadRecords DEF SyncUpToDate, UpToDateInv
    <3> QED BY <2>0, <2>2, <3>1, OneRecord
  <2> QED BY <1>5, <2>1, <2>2, DownloadEffect
<1>5a. ASSUME LoseVault PROVE UpToDateInv'
  <2>1. NewNumber(vault') /\ label' = label /\ sync' = sync
    <3>1. vault' = [vault EXCEPT !.here = FALSE, !.items = NoItems] /\ vault' \in Vault
      BY <1>5a, IdleType DEF LoseVault, TypeOK, Vault
    <3> QED BY <1>5a, <3>1 DEF LoseVault, NewNumber, Vault, TypeOK
  <2>2. Tells(label, vault')
    BY <2>1, TellsLater DEF UpToDateInv, TypeOK
  <2>3. \A e \in Devices : SyncUpToDate(sync[e], vault')
    BY <2>1, UpToDateLater, SyncFields DEF UpToDateInv
  <2> QED BY <2>1, <2>2, <2>3 DEF UpToDateInv
<1>6. ASSUME NEW d \in Devices, PutVault(d) PROVE UpToDateInv'
  <2> DEFINE r == [sync[d] EXCEPT !.pc = "labelling", !.sum = vault.sum + 1]
  <2>1. /\ vault' \in Vault /\ NewNumber(vault')
        /\ vault'.sum = vault.sum + 1 /\ vault'.items = sync[d].merged
    <3>1. vault' = [items |-> sync[d].merged, sum |-> vault.sum + 1, here |-> TRUE]
      BY <1>6 DEF PutVault
    <3>2. vault' \in Vault
      BY <3>1, SyncFields DEF Vault
    <3> QED BY <3>1, <3>2 DEF NewNumber
  <2>2. /\ r.pc = "labelling" /\ r.seen = sync[d].seen
        /\ r.merged = sync[d].merged /\ r.sum = vault.sum + 1
    BY SyncFields DEF Sync
  <2>3. Tells(sync[d].seen, vault')
    BY <2>1, TellsLater, SyncFields DEF UpToDateInv, SyncUpToDate
  <2>4. SyncUpToDate(r, vault')
    BY <1>6, <2>1, <2>2, <2>3, SyncFields DEF SyncUpToDate, UpToDateInv, PutVault
  <2>5. SyncUpToDate(Idle, vault')
    BY <2>1, IdleUpToDate
  <2>6. sync' = [sync EXCEPT ![d] = r] \/ sync' = [sync EXCEPT ![d] = Idle]
    BY <1>6 DEF PutVault
  <2>7. label' = label
    BY <1>6 DEF PutVault
  <2> QED BY <2>1, <2>4, <2>5, <2>6, <2>7, OneRecord
<1>7. ASSUME NEW d \in Devices, PutLabel(d) PROVE UpToDateInv'
  <2> DEFINE items == sync[d].merged
             r == [sync[d] EXCEPT !.pc = "saving"]
  <2>1. SyncUpToDate(sync[d], vault) /\ sync[d].pc = "labelling" /\ vault' = vault
    BY <1>7 DEF UpToDateInv, PutLabel
  <2>2. PICK stamp \in Stamps(items) :
          label' = [kind |-> "ok", stamp |-> stamp, sum |-> sync[d].sum,
                    count |-> Cardinality(Held(items)), ver |-> label.ver + 1]
    BY <1>7 DEF PutLabel
  <2>3. Cardinality(Held(items)) > 0 => stamp = Latest(items)
    BY SyncFields, HeldCount, HeldMeansLatest DEF Stamps
  <2>4. Tells(label', vault')
    BY <2>1, <2>2, <2>3, SyncFields, LatestIsNewest DEF Tells, SyncUpToDate
  <2>5. /\ r.pc = "saving" /\ r.seen = sync[d].seen
        /\ r.merged = sync[d].merged /\ r.sum = sync[d].sum
    BY SyncFields DEF Sync
  <2>6. SyncUpToDate(r, vault) /\ SyncUpToDate(Idle, vault)
    BY <1>v, <2>1, <2>5, IdleUpToDate DEF SyncUpToDate
  <2>7. sync' = [sync EXCEPT ![d] = r] \/ sync' = [sync EXCEPT ![d] = Idle]
    BY <1>7 DEF PutLabel
  <2>8. \A e \in Devices : SyncUpToDate(sync'[e], vault)
    BY <2>6, <2>7 DEF TypeOK, UpToDateInv
  <2> QED BY <2>1, <2>4, <2>8 DEF UpToDateInv
<1>8. ASSUME NEW d \in Devices, Save(d) PROVE UpToDateInv'
  BY <1>8, <1>v, IdleUpToDate, OneRecord DEF Save
<1>9. ASSUME NEW d \in Devices, TruncateLabel(d) PROVE UpToDateInv'
  <2>1. /\ label' = [NoLabel EXCEPT !.kind = "unreadable", !.ver = label.ver + 1]
        /\ vault' = vault /\ sync' = [sync EXCEPT ![d] = Idle]
    BY <1>9 DEF TruncateLabel
  <2>2. Tells(label', vault)
    BY <2>1, <1>v DEF Tells, NoLabel, Vault
  <2>3. \A e \in Devices : SyncUpToDate(sync'[e], vault)
    BY <2>1, <1>v, IdleUpToDate DEF TypeOK, UpToDateInv
  <2> QED BY <2>1, <2>2, <2>3 DEF UpToDateInv
<1> QED
  BY <1>1, <1>2, <1>3, <1>4, <1>5, <1>5a, <1>6, <1>7, <1>8, <1>9 DEF Next, SyncStep

(* A sync that has read the label of a remote with items, and did not find    *)
(* vault.ks gone or empty, goes on to upload only a vault that is at least as *)
(* new as that label says (performSync).                                      *)
THEOREM SyncUploadsAreUpToDate == Spec => []UploadsAreUpToDate
<1>1. UpToDateInv => UploadsAreUpToDate
  BY DEF UpToDateInv, SyncUpToDate, UploadsAreUpToDate
<1> QED BY <1>1, TypeInit, TypeStep, UpToDateInit, UpToDateStep, PTL DEF Spec

-----------------------------------------------------------------------------
(* MergedIsNewer: only a merge changes what a sync will save. *)

LEMMA MergedInit == Init => MergedIsNewer
BY DEF Init, MergedIsNewer, Idle

Newer(s) == \A i \in Ids : s.merged[i] = s.mine[i] \/ s.merged[i].at > s.mine[i].at

LEMMA NewerByDevice == MergedIsNewer <=> \A d \in Devices : Newer(sync[d])
BY DEF MergedIsNewer, Newer

LEMMA NewerRecord ==
  ASSUME TypeOK, MergedIsNewer, NEW d \in Devices, NEW r, sync' = [sync EXCEPT ![d] = r],
         Newer(r)
  PROVE  MergedIsNewer'
<1>1. ASSUME NEW e \in Devices PROVE Newer(sync'[e])
  BY NewerByDevice DEF TypeOK
<1> QED BY <1>1 DEF MergedIsNewer, Newer

LEMMA MergedStep == TypeOK /\ MergedIsNewer /\ [Next]_vars => MergedIsNewer'
<1> SUFFICES ASSUME TypeOK, MergedIsNewer, [Next]_vars PROVE MergedIsNewer'
  OBVIOUS
<1>i. Newer(Idle)
  BY DEF Newer, Idle
<1>1. CASE UNCHANGED sync
  BY <1>1 DEF MergedIsNewer
<1>2. ASSUME NEW d \in Devices, Start(d) PROVE MergedIsNewer'
  <2> DEFINE r == [Idle EXCEPT !.pc = "reading", !.mine = local[d], !.merged = local[d]]
  <2>1. Newer(r)
    BY DEF Newer, Idle
  <2> QED BY <1>2, <2>1, NewerRecord DEF Start
<1>3. ASSUME NEW d \in Devices, Abandon(d) \/ Reject(d) \/ TruncateLabel(d) \/ Save(d)
      PROVE  MergedIsNewer'
  BY <1>3, <1>i, NewerRecord DEF Abandon, Reject, TruncateLabel, Save
<1>4. ASSUME NEW d \in Devices, Download(d) PROVE MergedIsNewer'
  <2>1. Newer(Downloaded(d))
    BY DownloadRecords, SyncFields, MergeIsNewest DEF Newer
  <2>2. Newer(Unmerged(d))
    BY DownloadRecords, NewerByDevice DEF Newer
  <2> QED BY <1>4, <2>1, <2>2, DownloadEffect, NewerRecord
<1>5. ASSUME NEW d \in Devices, ReadLabel(d) \/ PutVault(d) \/ PutLabel(d) PROVE MergedIsNewer'
  <2>1. PICK r : /\ sync' = [sync EXCEPT ![d] = r]
                 /\ r = Idle \/ (r.merged = sync[d].merged /\ r.mine = sync[d].mine)
    <3>1. CASE ReadLabel(d)
      <4> DEFINE r == [sync[d] EXCEPT !.seen = label,
                         !.pc = IF WorthDownloading(d) THEN "downloading" ELSE "uploading"]
      <4>1. r.merged = sync[d].merged /\ r.mine = sync[d].mine
        BY SyncFields DEF Sync
      <4>2. sync' = [sync EXCEPT ![d] = r]
        BY <3>1 DEF ReadLabel
      <4> QED BY <4>1, <4>2
    <3>2. CASE PutVault(d)
      <4> DEFINE r == [sync[d] EXCEPT !.pc = "labelling", !.sum = vault.sum + 1]
      <4>1. r.merged = sync[d].merged /\ r.mine = sync[d].mine
        BY SyncFields DEF Sync
      <4>2. sync' = [sync EXCEPT ![d] = r] \/ sync' = [sync EXCEPT ![d] = Idle]
        BY <3>2 DEF PutVault
      <4> QED BY <4>1, <4>2
    <3>3. CASE PutLabel(d)
      <4> DEFINE r == [sync[d] EXCEPT !.pc = "saving"]
      <4>1. r.merged = sync[d].merged /\ r.mine = sync[d].mine
        BY SyncFields DEF Sync
      <4>2. sync' = [sync EXCEPT ![d] = r] \/ sync' = [sync EXCEPT ![d] = Idle]
        BY <3>3 DEF PutLabel
      <4> QED BY <4>1, <4>2
    <3> QED BY <1>5, <3>1, <3>2, <3>3
  <2>2. Newer(r)
    BY <1>i, <2>1, NewerByDevice DEF Newer
  <2> QED BY <2>1, <2>2, NewerRecord
<1> QED
  BY <1>1, <1>2, <1>3, <1>4, <1>5 DEF Next, SyncStep, Edit, Trash, Purge, LoseVault, vars

(* What a device held when it began to sync is replaced on it only by         *)
(* something whose updatedAt is strictly newer (resolveLWWConflicts).         *)
THEOREM SyncMovesNothingBack == Spec => SyncNeverMovesBack
<1> DEFINE Kept == \A d \in Devices, i \in Ids :
             Save(d) /\ sync[d].mine[i] # NoItem =>
               \/ local'[d][i].rev = sync[d].mine[i].rev
               \/ sync[d].merged[i].at > sync[d].mine[i].at
<1>1. TypeOK /\ MergedIsNewer => Kept
  <2> SUFFICES ASSUME TypeOK, MergedIsNewer, NEW d \in Devices, NEW i \in Ids, Save(d),
                      sync[d].mine[i] # NoItem,
                      ~(sync[d].merged[i].at > sync[d].mine[i].at)
               PROVE  local'[d][i].rev = sync[d].mine[i].rev
    OBVIOUS
  <2> DEFINE m == sync[d].merged
  <2>1. m \in Items /\ m[i] = sync[d].mine[i] /\ m[i] # NoItem /\ 1 \in Times
    BY SyncFields DEF MergedIsNewer
  <2>2. \E t \in Times : local'[d] = Saved(d, m) \/ local'[d] = Saved(d, Restamped(m, t))
    <3>1. \/ local' = [local EXCEPT ![d] = Saved(d, m)]
          \/ \E t \in Now : local' = [local EXCEPT ![d] = Saved(d, Restamped(m, t))]
      BY DEF Save
    <3> QED BY <2>1, <3>1, StampIsTime DEF TypeOK
  <2>3. local'[d][i].rev = m[i].rev
    BY <2>1, <2>2, SavedItems
  <2> QED BY <2>1, <2>3
<1>2. TypeOK /\ MergedIsNewer /\ [Next]_vars => [Kept]_vars
  BY <1>1
<1>3. Spec => [][Kept]_vars
  BY <1>2, TypeInit, TypeStep, MergedInit, MergedStep, PTL DEF Spec
<1> QED BY <1>3 DEF SyncNeverMovesBack

-----------------------------------------------------------------------------
(* SeenIsReadable: a new version of the label outdates what was read. *)

Readable(s, l) ==
  s.pc \in {"downloading", "uploading", "labelling", "saving"} =>
    s.seen.ver <= l.ver /\ (s.seen.ver = l.ver => l.kind # "unreadable")

LEMMA SeenInit == Init => SeenIsReadable
BY DEF Init, SeenIsReadable, Idle

LEMMA SeenRecord ==
  ASSUME TypeOK, SeenIsReadable, NEW d \in Devices, NEW r, sync' = [sync EXCEPT ![d] = r],
         label' = label \/ label'.ver = label.ver + 1, Readable(r, label')
  PROVE  SeenIsReadable'
<1>1. ASSUME NEW e \in Devices PROVE Readable(sync'[e], label')
  <2>1. CASE e = d
    BY <2>1 DEF TypeOK
  <2>2. CASE e # d
    <3>1. sync'[e] = sync[e] /\ Readable(sync[e], label)
      BY <2>2 DEF TypeOK, SeenIsReadable, Readable
    <3>2. sync[e].seen.ver \in Nat /\ label.ver \in Nat
      BY SyncFields DEF Label
    <3> QED BY <3>1, <3>2 DEF Readable
  <2> QED BY <2>1, <2>2
<1> QED BY <1>1 DEF SeenIsReadable, Readable

LEMMA SeenStep == TypeOK /\ SeenIsReadable /\ [Next]_vars => SeenIsReadable'
<1> SUFFICES ASSUME TypeOK, SeenIsReadable, [Next]_vars PROVE SeenIsReadable'
  OBVIOUS
<1>1. CASE UNCHANGED <<sync, label>>
  BY <1>1 DEF SeenIsReadable
<1>2. ASSUME NEW d \in Devices, Start(d) \/ Abandon(d) \/ Reject(d) \/ Save(d)
      PROVE  SeenIsReadable'
  <2>1. Readable(Idle, label)
        /\ Readable([Idle EXCEPT !.pc = "reading", !.mine = local[d], !.merged = local[d]], label)
    BY DEF Readable, Idle
  <2> QED BY <1>2, <2>1, SeenRecord DEF Start, Abandon, Reject, Save
<1>3. ASSUME NEW d \in Devices, ReadLabel(d) PROVE SeenIsReadable'
  <2> DEFINE r == [sync[d] EXCEPT !.seen = label,
                     !.pc = IF WorthDownloading(d) THEN "downloading" ELSE "uploading"]
  <2>1. r.seen = label /\ label.ver \in Nat
    BY SyncFields DEF Sync
  <2>2. Readable(r, label)
    BY <1>3, <2>1 DEF Readable, ReadLabel
  <2> QED BY <1>3, <2>2, SeenRecord DEF ReadLabel
<1>4. ASSUME NEW d \in Devices, Download(d) \/ PutVault(d) PROVE SeenIsReadable'
  <2> DEFINE q == [sync[d] EXCEPT !.pc = "labelling", !.sum = vault.sum + 1]
  <2>1. q.seen = sync[d].seen
    BY SyncFields DEF Sync
  <2>2. Readable(sync[d], label) /\ sync[d].pc \in {"downloading", "uploading"}
    BY <1>4, DownloadEffect DEF SeenIsReadable, Readable, PutVault
  <2>3. /\ Readable(Downloaded(d), label) /\ Readable(Unmerged(d), label)
        /\ Readable(q, label) /\ Readable(Idle, label)
    BY <2>1, <2>2, DownloadRecords DEF Readable, Idle
  <2>4. /\ label' = label
        /\ \/ sync' = [sync EXCEPT ![d] = Downloaded(d)]
           \/ sync' = [sync EXCEPT ![d] = Unmerged(d)]
           \/ sync' = [sync EXCEPT ![d] = q]
           \/ sync' = [sync EXCEPT ![d] = Idle]
    BY <1>4, DownloadEffect DEF PutVault
  <2> QED BY <2>3, <2>4, SeenRecord
<1>5. ASSUME NEW d \in Devices, PutLabel(d) PROVE SeenIsReadable'
  <2> DEFINE r == [sync[d] EXCEPT !.pc = "saving"]
  <2>1. r.seen = sync[d].seen /\ sync[d].seen.ver \in Nat /\ label.ver \in Nat
    BY SyncFields DEF Sync, Label
  <2>2. label'.ver = label.ver + 1 /\ sync[d].pc = "labelling"
    BY <1>5 DEF PutLabel
  <2>3. Readable(r, label') /\ Readable(Idle, label')
    BY <2>1, <2>2 DEF Readable, Idle, SeenIsReadable
  <2>4. sync' = [sync EXCEPT ![d] = r] \/ sync' = [sync EXCEPT ![d] = Idle]
    BY <1>5 DEF PutLabel
  <2> QED BY <2>2, <2>3, <2>4, SeenRecord
<1>6. ASSUME NEW d \in Devices, TruncateLabel(d) PROVE SeenIsReadable'
  <2>1. Readable(Idle, label') /\ label'.ver = label.ver + 1
    BY <1>6 DEF Readable, Idle, TruncateLabel, NoLabel
  <2> QED BY <1>6, <2>1, SeenRecord DEF TruncateLabel
<1> QED
  BY <1>1, <1>2, <1>3, <1>4, <1>5, <1>6 DEF Next, SyncStep, Edit, Trash, Purge, LoseVault, vars

(* Y-11: while the label of the remote cannot be read, vault.ks is replaced   *)
(* only by a sync that had read an earlier label (performSync, unreadable).   *)
THEOREM UnknownRemoteIsKept == Spec => UnknownRemoteKept
<1> DEFINE Kept == \A d \in Devices :
             PutVault(d) /\ label.kind = "unreadable" => sync[d].seen.ver < label.ver
<1>1. TypeOK /\ SeenIsReadable => Kept
  <2> SUFFICES ASSUME TypeOK, SeenIsReadable, NEW d \in Devices, PutVault(d),
                      label.kind = "unreadable"
               PROVE  sync[d].seen.ver < label.ver
    OBVIOUS
  <2>1. sync[d].seen.ver \in Nat /\ label.ver \in Nat
    BY SyncFields DEF Label
  <2> QED BY <2>1 DEF SeenIsReadable, PutVault
<1>2. TypeOK /\ SeenIsReadable /\ [Next]_vars => [Kept]_vars
  BY <1>1
<1>3. Spec => [][Kept]_vars
  BY <1>2, TypeInit, TypeStep, SeenInit, SeenStep, PTL DEF Spec
<1> QED BY <1>3 DEF UnknownRemoteKept

=============================================================================
