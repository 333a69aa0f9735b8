------------------------------ MODULE DiskMenu ------------------------------
(***************************************************************************)
(* The disk menu: the layout, LVM on top of it, encryption of either and   *)
(* btrfs snapshots are four items that can be visited in any order and any *)
(* number of times, each with menus of its own, and a choice in one may    *)
(* invalidate another.  What leaves the menu is applied by the             *)
(* FilesystemHandler.                                                      *)
(*                                                                         *)
(* A partition is                                                          *)
(*   [id, obj, at, boot, swap, exists, subvols, size]                      *)
(* where id is the identifier that equality compares and obj tells apart   *)
(* the Python objects that are equal: the editor of a manual layout works  *)
(* on deep copies.  Sizes are in GiB.                                      *)
(***************************************************************************)
EXTENDS Integers, FiniteSetsExt

CONSTANTS
  None,
  Disks,          \* the disks of the machine
  SizeOf,         \* their sizes
  ManualTables,   \* what may be put together in the editor: sets of partitions
  ManualMounts,   \* mount points that may be assigned there
  Mounted,        \* what is mounted where the user says it is
  MaxLayouts      \* bound: layouts that are made

ASSUME DiskMenuAssumption ==
  /\ SizeOf \in [Disks -> Nat]
  /\ MaxLayouts \in Nat
  /\ \A table \in ManualTables \cup {Mounted} : \A p \in table :
       /\ DOMAIN p = {"name", "at", "boot", "swap", "exists", "subvols", "size"}
       /\ {p.boot, p.swap, p.exists, p.subvols} \subseteq BOOLEAN
  /\ \A p \in Mounted : p.exists
  /\ None \notin {"NO_ENCRYPTION", "LUKS", "LVM_ON_LUKS", "LUKS_ON_LVM"}

VARIABLES
  pc,         \* "closed", "disk", "encryption", "crashed", "applied"
  layout,     \* item disk_config: [type, parts] or None
  lvm,        \* item lvm_config: [id, pvs, volumes] or None
  enc,        \* item disk_encryption: [type, parts, volumes] or None
  snapshots,  \* item btrfs_snapshot_config
  kept,       \* whether the layout is the object of the configuration
  items,      \* items of the encryption menu
  config,     \* what the configuration holds
  made,       \* layouts made so far
  encrypted   \* partitions and volumes that were encrypted

vars == <<pc, layout, lvm, enc, snapshots, kept, items, config, made, encrypted>>

NoItems == [type |-> "NO_ENCRYPTION", password |-> FALSE, parts |-> {}, volumes |-> {}]

Init ==
  /\ pc = "closed"
  /\ layout = None
  /\ lvm = None
  /\ enc = None
  /\ snapshots = FALSE
  /\ kept = FALSE
  /\ items = NoItems
  /\ config = None
  /\ made = 0
  /\ encrypted = {}

----------------------------------------------------------------------------
(* Suggestions *)

Distance(a, b) == IF a < b THEN b - a ELSE a - b

RootSize(total) ==
  IF total > 500 THEN 50 ELSE IF total < 320 THEN 32 ELSE total \div 10

New(name, at, size) ==
  [id |-> <<made, name>>, obj |-> made, at |-> at, boot |-> name = "boot", swap |-> FALSE,
   exists |-> FALSE, subvols |-> FALSE, size |-> size]

Boot == New("boot", "/boot", 1)

\* suggest_single_disk_layout()
SingleLayouts(d) ==
  LET total == SizeOf[d]
      whole == New("root", "/", Distance(total, 1))
      root  == New("root", "/", RootSize(total))
      home  == New("home", "/home", Distance(total - 1, RootSize(total)))
  IN  {{Boot, whole}, {Boot, [whole EXCEPT !.at = "none", !.subvols = TRUE]}}
      \cup (IF total >= 64 THEN {{Boot, root, home}} ELSE {})

\* suggest_multi_disk_layout(): home on the largest disk, the root on the one
\* whose size is nearest to 32 GiB.
HomeDisks(ds) == {d \in ds : SizeOf[d] >= 40 /\ \A e \in ds : SizeOf[e] <= SizeOf[d]}
RootDisks(ds, home) ==
  {d \in ds \ {home} : \A e \in ds \ {home} : Distance(SizeOf[d], 32) <= Distance(SizeOf[e], 32)}

MultiLayouts(ds) ==
  UNION { { {Boot, New("root", "/", Distance(SizeOf[r], 1)), New("home", "/home", SizeOf[h])} :
              r \in RootDisks(ds, h) } : h \in HomeDisks(ds) }

TotalSize(xs) == MapThenSumSet(LAMBDA x : x.size, xs)

\* The home volume takes the whole group.
LvmLayoutsOverlapping ==
  LET pvs   == {p \in layout.parts : ~p.boot}
      total == TotalSize(pvs)
      root  == [name |-> "root", size |-> RootSize(total)]
      home  == [name |-> "home", size |-> total]
  IN  { [id |-> made, pvs |-> pvs, volumes |-> v] : v \in {{root}, {root, home}} }

\* suggest_lvm_layout(): everything but the boot partition becomes a physical
\* volume; the lengths of the volumes are those of a group without overhead.
LvmLayouts ==
  LET pvs   == {p \in layout.parts : ~p.boot}
      total == TotalSize(pvs)
      root  == [name |-> "root", size |-> RootSize(total)]
      home  == [name |-> "home", size |-> Distance(total, RootSize(total))]
  IN  { [id |-> made, pvs |-> pvs, volumes |-> v] : v \in {{root}, {root, home}} }

----------------------------------------------------------------------------
(* The items of the disk menu *)

Untouched == UNCHANGED <<items, config, encrypted>>

Bare(p) == [p EXCEPT !.obj = 0]
SameParts(a, b) == {Bare(p) : p \in a} = {Bare(p) : p \in b}

\* Two layouts of one kind taken for the same.
EqualKinds(new) == layout # None /\ new # None /\ new.type = layout.type

\* The configuration's own layout carries the rest of the configuration since
\* it left the menu, and a layout made anew carries nothing.
Equal(new) ==
  IF layout = None THEN new = None
  ELSE new # None /\ ~kept /\ new.type = layout.type /\ SameParts(new.parts, layout.parts)

\* _select_disk_layout_config()
Choose(new) ==
  /\ pc = "disk"
  /\ layout' = new
  /\ kept' = FALSE
  /\ IF Equal(new) THEN UNCHANGED <<lvm, enc>> ELSE lvm' = None /\ enc' = None
  /\ UNCHANGED <<pc, snapshots>>
  /\ Untouched

\* The selection was reset, the directory was not given, or no disk is large
\* enough.
ChooseNone == Choose(None) /\ UNCHANGED made

ChooseDefault ==
  /\ made < MaxLayouts
  /\ \E ds \in SUBSET Disks :
       \E parts \in IF Cardinality(ds) = 1 THEN UNION {SingleLayouts(d) : d \in ds} ELSE MultiLayouts(ds) :
         Choose([type |-> "default", parts |-> parts])
  /\ made' = made + 1

WithIds(table) ==
  { [id |-> <<made, p.name>>, obj |-> made, at |-> p.at, boot |-> p.boot, swap |-> p.swap,
     exists |-> p.exists, subvols |-> p.subvols, size |-> p.size] : p \in table }

ChooseMounted ==
  /\ made < MaxLayouts
  /\ Choose([type |-> "mounted", parts |-> WithIds(Mounted)])
  /\ made' = made + 1

\* The editor of an empty layout, or of another disk.
ChooseManual ==
  /\ made < MaxLayouts
  /\ \E table \in ManualTables : Choose([type |-> "manual", parts |-> WithIds(table)])
  /\ made' = made + 1

\* Copies, the identifiers included, with one mount point changed or none.
ChooseManualAgain ==
  /\ made < MaxLayouts
  /\ layout # None
  /\ LET copies == {[p EXCEPT !.obj = made] : p \in layout.parts}
     IN  \/ Choose([type |-> "manual", parts |-> copies])
         \/ \E p \in copies, at \in ManualMounts :
              /\ ~p.exists /\ ~p.swap
              /\ Choose([type |-> "manual", parts |-> (copies \ {p}) \cup {[p EXCEPT !.at = at]}])
  /\ made' = made + 1

\* _select_lvm_config(); a configuration made anew is never equal to another.
ChooseLvm ==
  /\ pc = "disk"
  /\ layout # None
  /\ layout.type = "default"
  /\ \/ /\ made < MaxLayouts
        /\ lvm' \in LvmLayouts
        /\ enc' = None
        /\ made' = made + 1
     \/ /\ lvm' = None
        /\ enc' = IF lvm = None THEN enc ELSE None
        /\ UNCHANGED made
  /\ UNCHANGED <<pc, layout, snapshots, kept>>
  /\ Untouched

\* has_default_btrfs_vols(), when the item is shown; its value stays when the
\* item is not shown any more.
ChooseSnapshots ==
  /\ pc = "disk"
  /\ layout # None
  /\ \E p \in layout.parts : ~p.exists /\ p.subvols
  /\ snapshots' \in BOOLEAN
  /\ UNCHANGED <<pc, layout, lvm, enc, kept, made>>
  /\ Untouched

----------------------------------------------------------------------------
(* The encryption menu *)

\* One partition more.
ValidateEncLoosely == lvm = None \/ Cardinality(layout.parts) <= 3

\* validate_enc(): one boot partition and one other on LVM.
ValidateEnc == lvm = None \/ Cardinality(layout.parts) <= 2

Encryption(type, parts, volumes) == [type |-> type, parts |-> parts, volumes |-> volumes]

OpenEncryption ==
  /\ pc = "disk"
  /\ layout # None
  /\ IF ValidateEnc
     THEN /\ items' = IF enc = None THEN NoItems
                      ELSE [type |-> enc.type, password |-> TRUE, parts |-> enc.parts, volumes |-> enc.volumes]
          /\ pc' = "encryption"
          /\ UNCHANGED enc
     ELSE /\ enc' = None
          /\ UNCHANGED <<pc, items>>
  /\ UNCHANGED <<layout, lvm, snapshots, kept, config, made, encrypted>>

Item(new) ==
  /\ pc = "encryption"
  /\ items' = new
  /\ UNCHANGED <<pc, layout, lvm, enc, snapshots, kept, config, made, encrypted>>

TypesOffered == IF lvm # None THEN {"LVM_ON_LUKS", "LUKS_ON_LVM"} ELSE {"LUKS"}
Chosen == items.type \notin {None, "NO_ENCRYPTION"}

\* select_encryption_type(): a reset leaves no type at all, and skipping the
\* question then takes the first one offered.
SelectType ==
  \/ \E t \in TypesOffered \cup {None} : Item([items EXCEPT !.type = t])
  \/ items.type = None /\ Item([items EXCEPT !.type = IF lvm # None THEN "LVM_ON_LUKS" ELSE "LUKS"])

\* Skipping the question is no password.
SelectPassword == Chosen /\ \E b \in BOOLEAN : Item([items EXCEPT !.password = b])

\* The boot partition among them.
AvailableWithBoot == {p \in layout.parts : ~p.swap /\ ~p.exists}

\* select_partitions_to_encrypt()
Available == {p \in layout.parts : p.at # "/boot" /\ ~p.swap /\ ~p.exists}
SelectPartitions ==
  /\ items.type \in {"LUKS", "LVM_ON_LUKS"}
  /\ \E ps \in SUBSET Available : Item([items EXCEPT !.parts = ps])

SelectVolumes ==
  /\ items.type = "LUKS_ON_LVM"
  /\ \E vs \in SUBSET lvm.volumes : Item([items EXCEPT !.volumes = vs])

LeaveEncryption ==
  /\ pc = "encryption"
  /\ LET luks    == items.type \in {"LUKS", "LVM_ON_LUKS"}
         parts   == IF items.type = "LUKS_ON_LVM" THEN {} ELSE items.parts
         volumes == IF luks /\ parts # {} THEN {} ELSE items.volumes
         given   == Chosen /\ items.password /\ (parts # {} \/ volumes # {})
         raises  == \/ items.type = None
                    \/ given /\ luks /\ parts = {}
     IN  IF raises
         THEN pc' = "crashed" /\ UNCHANGED enc
         ELSE /\ enc' = IF given THEN Encryption(items.type, parts, volumes) ELSE None
              /\ pc' = "disk"
  /\ items' = NoItems
  /\ UNCHANGED <<layout, lvm, snapshots, kept, config, made, encrypted>>

ResetEncryption ==
  /\ pc = "encryption"
  /\ enc' = None
  /\ items' = NoItems
  /\ pc' = "disk"
  /\ UNCHANGED <<layout, lvm, snapshots, kept, config, made, encrypted>>

----------------------------------------------------------------------------
(* The menu as a whole *)

\* The items are gone with the menu.
Closed ==
  /\ layout' = None /\ lvm' = None /\ enc' = None /\ snapshots' = FALSE
  /\ kept' = FALSE

Open ==
  /\ pc = "closed"
  /\ pc' = "disk"
  /\ IF config = None
     THEN Closed
     ELSE /\ layout' = config.layout /\ lvm' = config.lvm /\ enc' = config.enc /\ snapshots' = config.snapshots
          /\ kept' = TRUE
  /\ UNCHANGED <<items, config, made, encrypted>>

\* show(): without a layout the rest is dropped.
Leave ==
  /\ pc = "disk"
  /\ pc' = "closed"
  /\ config' = IF layout = None THEN None
               ELSE [layout |-> layout, lvm |-> lvm, enc |-> enc, snapshots |-> snapshots]
  /\ Closed
  /\ UNCHANGED <<items, made, encrypted>>

ResetMenu ==
  /\ pc = "disk"
  /\ pc' = "closed"
  /\ config' = None
  /\ Closed
  /\ UNCHANGED <<items, made, encrypted>>

\* FilesystemHandler: partition() notes the paths of new partitions in the
\* layout's objects, and equality compares paths.
Applied(p, q) == Bare(p) = Bare(q) /\ (p.exists \/ p.obj = q.obj)

Apply ==
  /\ pc = "closed"
  /\ config # None
  /\ config.layout.type # "mounted"
  /\ encrypted' = IF config.enc = None THEN {}
                  ELSE {p \in config.layout.parts : ~p.exists /\ \E q \in config.enc.parts : Applied(p, q)}
                       \cup (IF config.enc.type = "LUKS_ON_LVM" THEN config.enc.volumes ELSE {})
  /\ pc' = "applied"
  /\ UNCHANGED <<layout, lvm, enc, snapshots, kept, items, config, made>>

Next ==
  \/ Open \/ Leave \/ ResetMenu \/ Apply
  \/ ChooseNone \/ ChooseDefault \/ ChooseMounted \/ ChooseManual \/ ChooseManualAgain
  \/ ChooseLvm \/ ChooseSnapshots
  \/ OpenEncryption \/ LeaveEncryption \/ ResetEncryption
  \/ SelectType \/ SelectPassword \/ SelectPartitions \/ SelectVolumes

Spec == Init /\ [][Next]_vars

----------------------------------------------------------------------------
(* Properties *)

EncryptionTypes == {"LUKS", "LVM_ON_LUKS", "LUKS_ON_LVM"}

\* Whatever was chosen, changed and reset in whatever order: LVM lies on a
\* suggested layout and takes its partitions, the kind of encryption is one for
\* LVM exactly when there is LVM, and what is to be encrypted is a volume of
\* that LVM or a new partition of that layout, never swap space and never
\* /boot.
EncryptionFits ==
  config # None =>
    /\ config.lvm # None =>
         /\ config.layout.type = "default"
         /\ config.lvm.pvs \subseteq config.layout.parts
    /\ config.enc # None =>
         /\ config.enc.type \in EncryptionTypes
         /\ (config.enc.type # "LUKS") <=> (config.lvm # None)
         /\ config.enc.type = "LUKS_ON_LVM" =>
              config.enc.parts = {} /\ config.enc.volumes # {} /\ config.enc.volumes \subseteq config.lvm.volumes
         /\ config.enc.type # "LUKS_ON_LVM" => config.enc.parts # {}
         /\ \A p \in config.enc.parts :
              /\ \E q \in config.layout.parts : Bare(p) = Bare(q)
              /\ ~p.exists /\ ~p.swap /\ p.at # "/boot"

\* LVM on LUKS never leaves a part of the group unencrypted: the count of
\* partitions by which the menu refuses it is enough.
WholeGroupEncrypted ==
  (config # None /\ config.enc # None /\ config.enc.type = "LVM_ON_LUKS") =>
    config.lvm.pvs \subseteq config.enc.parts

\* The volumes that are suggested fit the group, from the least size the
\* suggestion is made for on.
VolumesFit ==
  (lvm # None /\ TotalSize(lvm.pvs) >= 32) => TotalSize(lvm.volumes) <= TotalSize(lvm.pvs)

\* What is encrypted on the disk is what the menu showed as selected, on any
\* layout that was not confirmed twice in the editor.
SuggestionsAreEncryptedAsSelected ==
  (pc = "applied" /\ config.layout.type = "default" /\ config.enc # None) =>
    encrypted = IF config.enc.type = "LUKS_ON_LVM" THEN config.enc.volumes ELSE config.enc.parts

\* _format_partitions says of a partition that is in the encryption's list:
\* "partition will be encrypted".
SelectedIsEncrypted ==
  (pc = "applied" /\ config.enc # None) =>
    \A p \in config.enc.parts : \E q \in encrypted : Bare(p) = Bare(q)

=============================================================================
