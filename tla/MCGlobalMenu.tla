----------------------------- MODULE MCGlobalMenu -----------------------------
(* Instances of GlobalMenu: two disks, layouts of every kind, and the command *)
(* lines that differ in what they load and ask.                               *)
EXTENDS GlobalMenu

Layout(t, ds, enc, boot, sub, al, sn) ==
  [config_type |-> t, disks |-> ds, encrypted |-> enc, boot |-> boot,
   subvols |-> sub, aligned |-> al, snapshots |-> sn]

\* Suggestions on one and two disks, with encryption and snapshots, layouts made
\* by hand with an ext4 boot partition, with the EFI partition at another place,
\* without a boot partition or with a typed length, and mounted ones.
MCLayouts(d1, d2) ==
  {Layout("default", {d1}, {}, "fat", "path", TRUE, TRUE),
   Layout("default", {d1, d2}, {d1}, "fat", "none", TRUE, FALSE),
   Layout("manual", {d1}, {d1}, "ext4", "none", TRUE, FALSE),
   Layout("manual", {d1}, {}, "efi", "none", TRUE, FALSE),
   Layout("manual", {d1}, {}, "none", "none", TRUE, FALSE),
   Layout("manual", {d2}, {}, "fat", "none", FALSE, FALSE),
   Layout("pre_mounted", {d2}, {}, "fat", "path", TRUE, FALSE)}

Run(c, cr, k, s, dry, skip, p) ==
  [config |-> c, creds |-> cr, key |-> k, silent |-> s, dry_run |-> dry,
   skip_boot |-> skip, present |-> p]

\* The first run loads nothing; later ones load what it left, on the same
\* machine or on one without the second disk.
MCRuns(d1, d2) ==
  {Run(None, FALSE, "asked", FALSE, FALSE, FALSE, {d1, d2}),
   Run(None, FALSE, "asked", FALSE, TRUE, TRUE, {d1, d2}),
   Run("dest", TRUE, "right", FALSE, FALSE, FALSE, {d1, d2}),
   Run("dest", TRUE, "asked", TRUE, FALSE, FALSE, {d1, d2}),
   Run("dest", TRUE, "wrong", TRUE, FALSE, TRUE, {d2}),
   Run("log", TRUE, "right", TRUE, FALSE, FALSE, {d1, d2}),
   Run("log", FALSE, "asked", TRUE, FALSE, FALSE, {d1})}

\* A complete configuration of an earlier run: an encrypted layout on both disks,
\* a desktop and a user with sudo.
MCEarlier(d1, d2) ==
  {[ArchConfig EXCEPT
      !.disk_config = Layout("default", {d1, d2}, {d1}, "fat", "none", TRUE, FALSE),
      !.bootloader_config = [bootloader |-> "Limine", uki |-> FALSE, removable |-> TRUE],
      !.auth_config = [root |-> FALSE, users |-> "sudo", u2f |-> "u2f"],
      !.profile_config = [default |-> "sddm", greeter |-> "sddm"],
      !.archinstall_language = "de", !.hostname = None,
      !.plain = [p \in Plain |-> "chosen"]]}

CONSTANTS sda, sdb
OneKernel  == {"linux"}
MCKeys     == DOMAIN ArchConfig \ {"archinstall_language", "profile_config", "plain"}
AllDevices == {sda, sdb}
AllLayouts == MCLayouts(sda, sdb)
AllRuns    == MCRuns(sda, sdb)
AllEarlier == MCEarlier(sda, sdb)
================================================================================
