----------------------------- MODULE MCDiskSetup -----------------------------
(***************************************************************************)
(* Layouts for DiskSetup, with the machines they meet: what the automated  *)
(* preset and the suggested layouts build, manual layouts that keep,       *)
(* format, delete and create partitions, two devices, LVM and encryption   *)
(* in every combination, and machines that are not at rest.                *)
(***************************************************************************)
EXTENDS DiskSetup

CONSTANTS sda, sdb, usb, vg, old, root, home

Boot == <<1>>
Srv  == <<3>>

Part(id, dev, num, state, fs, at) ==
  [id |-> id, lv |-> FALSE, dev |-> dev, num |-> num, status |-> state, fs |-> fs,
   at |-> at, subvols |-> {}, boot |-> at = Boot]
New(id, dev, fs, at) == Part(id, dev, Nowhere, "create", fs, at)
Subvols(x, places)   == [x EXCEPT !.subvols = places]
Vol(id, grp, name, fs, at) == [Part(id, grp, name, "create", fs, at) EXCEPT !.lv = TRUE]

Dev(name, wipe, parts) == [dev |-> name, wipe |-> wipe, parts |-> parts]
Plainly == [type |-> "NO_ENCRYPTION", ids |-> <<>>]
Luks(type, ids) == [type |-> type, ids |-> ids]

Disks(devices, enc) == [devices |-> devices, groups |-> <<>>, encryption |-> enc]
Lvm(devices, pvs, volumes, enc) ==
  [devices |-> devices, groups |-> <<[name |-> vg, pvs |-> pvs, volumes |-> volumes]>>,
   encryption |-> enc]

None == <<>>
\* Two partitions of an earlier system; a second disk the layout does not mention.
Old == <<sda, 1>> :> <<"fat32">> @@ <<sda, 2>> :> <<old>> @@ <<usb, 1>> :> <<"luks", "btrfs">>
Rest(l) == [layout |-> l, layers |-> Old, open |-> None, group |-> None, mounts |-> <<>>]

Esp  == New(1, sda, "fat32", Boot)
Wiped(parts) == <<Dev(sda, TRUE, <<Esp>> \o parts)>>

\* Partition layouts of the whole disk.
Suggested == Disks(Wiped(<<New(2, sda, "ext4", Root), New(3, sda, "ext4", Home)>>), Plainly)
Btrfs     == Disks(Wiped(<<Subvols(New(2, sda, "btrfs", Nowhere), {Root, Home})>>), Plainly)
BtrfsLuks == Disks(Wiped(<<Subvols(New(2, sda, "btrfs", Nowhere), {Root, Home}),
                           New(3, sda, "ext4", Srv)>>), Luks("LUKS", <<2, 3>>))
Ext4Luks  == Disks(Wiped(<<New(2, sda, "ext4", Root), New(3, sda, "ext4", Home)>>),
                   Luks("LUKS", <<2, 3>>))
HomeLuks  == Disks(Wiped(<<New(2, sda, "ext4", Root), New(3, sda, "btrfs", Home)>>),
                   Luks("LUKS", <<3>>))
WithSwap  == Disks(Wiped(<<New(2, sda, "swap", Nowhere), New(3, sda, "ext4", Root)>>), Plainly)

\* Manual layouts on a disk with partitions 1, 2, 3.
Manual(parts) ==
  [Rest(Disks(<<Dev(sda, FALSE, parts)>>, Plainly)) EXCEPT
     !.layers = Old @@ <<sda, 3>> :> <<"ext4">>]
Keeps    == Manual(<<Part(2, sda, 2, "modify", "ext4", Root), Part(3, sda, 3, "exist", "ext4", Home),
                     New(4, sda, "fat32", Srv)>>)
Replaces == Manual(<<Part(1, sda, 1, "delete", "fat32", Nowhere), Part(2, sda, 2, "modify", "ext4", Root),
                     Part(3, sda, 3, "exist", "ext4", Home), New(4, sda, "fat32", Boot)>>)
Deletes  == Manual(<<Part(1, sda, 1, "delete", "fat32", Nowhere),
                     Part(3, sda, 3, "exist", "ext4", Root)>>)

\* LVM
Pv == New(2, sda, "ext4", Nowhere)
RootAndHome == <<Vol(11, vg, root, "ext4", Root), Vol(12, vg, home, "ext4", Home)>>
BtrfsVolume == <<Subvols(Vol(11, vg, root, "btrfs", Root), {Root, Home}),
                 Vol(12, vg, home, "ext4", Srv)>>
BareVolumes == <<Vol(11, vg, root, "btrfs", Root), Vol(12, vg, home, "btrfs", Home)>>
OnLvm      == Lvm(Wiped(<<Pv>>), {2}, RootAndHome, Plainly)
LvmOnLuks  == Lvm(Wiped(<<Pv>>), {2}, RootAndHome, Luks("LVM_ON_LUKS", <<2>>))
LuksOnLvm  == Lvm(Wiped(<<Pv>>), {2}, BtrfsVolume, Luks("LUKS_ON_LVM", <<11, 12>>))
BareOnLvm  == Lvm(Wiped(<<Pv>>), {2}, BareVolumes, Plainly)
BareLuks   == Lvm(Wiped(<<Pv>>), {2}, BareVolumes, Luks("LUKS_ON_LVM", <<11, 12>>))
LuksOnRoot == Lvm(Wiped(<<Pv>>), {2}, RootAndHome, Luks("LUKS_ON_LVM", <<11>>))
Beside     == Lvm(Wiped(<<Pv, New(3, sda, "ext4", Srv)>>), {2}, RootAndHome, Plainly)
TwoPvs     == Lvm(<<Dev(sda, TRUE, <<Esp, Pv>>), Dev(sdb, TRUE, <<New(3, sdb, "ext4", Nowhere)>>)>>,
                  {2, 3}, RootAndHome, Luks("LVM_ON_LUKS", <<2, 3>>))

\* Two devices: the root on the second.
TwoDisks == Disks(<<Dev(sdb, TRUE, <<New(3, sdb, "ext4", Home)>>),
                    Dev(sda, TRUE, <<Esp, New(2, sda, "ext4", Root)>>)>>, Plainly)
\* Machines that are not at rest: a container of another disk is open as "root", an
\* old volume group is active, or the old system is still mounted.
RootTaken == [Rest(Ext4Luks) EXCEPT !.open = <<"root">> :> <<usb, 1>>]
OldGroup  == [Rest(OnLvm) EXCEPT !.layers = @ @@ <<usb, 2>> :> <<"pv">> @@ <<old, root>> :> <<"ext4">>,
                                 !.group  = old :> {<<usb, 2>>}]
StillMounted == [Rest(Suggested) EXCEPT !.mounts = <<[file |-> <<sda, 1>>, at |-> Target(Root)]>>]

MCScenarios ==
  {Rest(l) : l \in {Suggested, Btrfs, BtrfsLuks, Ext4Luks, HomeLuks, WithSwap, OnLvm, LvmOnLuks,
                    LuksOnLvm, LuksOnRoot, BareOnLvm, BareLuks, Beside, TwoPvs, TwoDisks}}
  \cup {Keeps, Replaces, Deletes, RootTaken, OldGroup, StillMounted}

=============================================================================
