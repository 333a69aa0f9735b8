--------------------------- MODULE MCBootLoader ---------------------------
(***************************************************************************)
(* Instances of BootLoader: each loader on the suggested layout and on the *)
(* layouts that the editor's flags lead to, with every encryption.         *)
(***************************************************************************)
EXTENDS BootLoader

P(at, boot, esp, fs) == [at |-> at, boot |-> boot, esp |-> esp, fs |-> fs, luks |-> FALSE]
Root(luks) == [at |-> "/", boot |-> FALSE, esp |-> FALSE, fs |-> "ext4", luks |-> luks]

Suggested     == <<P("/boot", TRUE, TRUE, "FAT")>>
Separate(fs)  == <<P("/efi", FALSE, TRUE, "FAT"), P("/boot", TRUE, FALSE, fs)>>
BootableEsp   == <<P("/efi", TRUE, TRUE, "FAT")>>
Unflagged     == <<P("/boot/efi", FALSE, TRUE, "FAT")>>
Bios(fs)      == <<P("/boot", TRUE, FALSE, fs)>>

UefiBoots == {Suggested, Separate("FAT"), Separate("ext4"), BootableEsp, Unflagged}
BiosBoots == {Bios("ext4"), Bios("FAT"), Suggested}

\* [encryption, hsm, lvm, luks]
Disks ==
  { [encryption |-> "NO_ENCRYPTION", hsm |-> FALSE, lvm |-> FALSE],
    [encryption |-> "NO_ENCRYPTION", hsm |-> FALSE, lvm |-> TRUE],
    [encryption |-> "LUKS", hsm |-> FALSE, lvm |-> FALSE],
    [encryption |-> "LUKS", hsm |-> TRUE, lvm |-> FALSE],
    [encryption |-> "LVM_ON_LUKS", hsm |-> FALSE, lvm |-> TRUE],
    [encryption |-> "LVM_ON_LUKS", hsm |-> TRUE, lvm |-> TRUE],
    [encryption |-> "LUKS_ON_LVM", hsm |-> FALSE, lvm |-> TRUE] }

\* [uki, plymouth, zram, subvolumes, snapshots, removable]
Extras ==
  { [uki |-> u, plymouth |-> p, zram |-> z, subvolumes |-> b, snapshots |-> b, removable |-> FALSE] :
      u, p, z, b \in BOOLEAN }

MCRequests ==
  { [uefi |-> m.uefi, plugin |-> FALSE, loader |-> l, kernels |-> <<"linux", "linux-lts">>,
     parts |-> m.boots \o (IF d.lvm THEN <<>> ELSE <<Root(d.encryption = "LUKS")>>),
     lvm |-> d.lvm, encryption |-> d.encryption, hsm |-> d.hsm,
     uki |-> x.uki, plymouth |-> x.plymouth, zram |-> x.zram, subvolumes |-> x.subvolumes,
     snapshots |-> x.snapshots, removable |-> x.removable] :
       m \in {[uefi |-> TRUE, boots |-> b] : b \in UefiBoots} \cup {[uefi |-> FALSE, boots |-> b] : b \in BiosBoots},
       l \in Loaders, d \in Disks,
       x \in {y \in Extras : y.zram = y.plymouth \/ ~y.subvolumes} }

\* A plugin that takes over, a root that was marked bootable, and a bootable ESP beside
\* a boot partition without the flag.
OddRequests ==
  { [r EXCEPT !.plugin = TRUE] : r \in {r \in MCRequests : r.parts = Suggested \o <<Root(FALSE)>> /\ r.loader = "Grub" /\ ~r.zram} }
  \cup
  { [r EXCEPT !.parts = <<P("/efi", FALSE, TRUE, "FAT"), [Root(FALSE) EXCEPT !.boot = TRUE]>>] :
      r \in {r \in MCRequests : r.uefi /\ r.parts = Suggested \o <<Root(FALSE)>> /\ ~r.zram} }
  \cup
  { [r EXCEPT !.parts = BootableEsp \o <<P("/boot", FALSE, FALSE, "FAT"), Root(FALSE)>>] :
      r \in {r \in MCRequests : r.uefi /\ r.parts = Suggested \o <<Root(FALSE)>> /\ ~r.zram} }
AllRequests == MCRequests \cup OddRequests
=============================================================================
