--------------------------- MODULE MCGuidedSession ---------------------------
(***************************************************************************)
(* Small instances of GuidedSession: two devices, two users, six loaded    *)
(* configurations and the environments in which the control differs.       *)
(***************************************************************************)
EXTENDS GuidedSession, TLC

CONSTANTS d1, d2, u1, u2

MCDisks == {d1, d2}
MCUsers == {u1, u2}

BtrfsLayout    == [dev |-> d2, kind |-> "btrfs", snapshots |-> TRUE,
                   boot |-> "esp", esp |-> "/efi"]
PremountLayout == [dev |-> d1, kind |-> "premount", snapshots |-> FALSE,
                   boot |-> "none", esp |-> "/boot"]
ManualLayout   == [dev |-> d1, kind |-> "ext4", snapshots |-> FALSE,
                   boot |-> "other", esp |-> "/efi"]
MCLayouts == {BtrfsLayout, PremountLayout}

Desktop(d) == [desktop |-> d, greeter |-> "Sddm"]

\* A complete file, one that only describes the machine, and four that name a boot
\* loader: one without unified images that cannot read its layout and one with them
\* that can, one whose kernels are not on FAT, and one for UEFI only.
MCLoadedConfigs ==
  { [BlankConfig EXCEPT !.disk = BtrfsLayout, !.profile = Desktop("KDE"), !.swap = "off",
                        !.user = u1, !.packages = {"own"}, !.loader = "Grub"],
    [BlankConfig EXCEPT !.swap = "off", !.packages = {"own"}],
    [BlankConfig EXCEPT !.disk = BtrfsLayout, !.loader = "Limine"],
    [BlankConfig EXCEPT !.disk = BtrfsLayout, !.loader = "Limine", !.uki = TRUE],
    [BlankConfig EXCEPT !.disk = ManualLayout, !.loader = "Efistub"],
    [BlankConfig EXCEPT !.disk = ManualLayout, !.loader = "Refind"] }

Switches == [silent |-> FALSE, advanced |-> FALSE, dryRun |-> FALSE, source |-> "none",
             skipBoot |-> FALSE, uefi |-> TRUE, gcc |-> TRUE, level |-> "V3"]

MCEnvironments ==
  {Switches}
  \cup {[Switches EXCEPT !.source = s, !.silent = q] : s \in {"file", "url"}, q \in BOOLEAN}
  \cup {[Switches EXCEPT !.gcc = FALSE], [Switches EXCEPT !.dryRun = TRUE],
        [Switches EXCEPT !.advanced = TRUE, !.source = "file"],
        [Switches EXCEPT !.uefi = FALSE, !.level = "Generic", !.source = "url"],
        [Switches EXCEPT !.skipBoot = TRUE]}
=============================================================================
