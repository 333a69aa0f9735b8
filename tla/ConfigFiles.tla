------------------------------ MODULE ConfigFiles ------------------------------
(***************************************************************************)
(* The configuration of a run and its two files: lib/args.py and the json, *)
(* parse_arg and parse_args methods of lib/models.  A file is a function   *)
(* on the JSON keys it holds; what a key stands for is a small set of      *)
(* values that tell the round trip's cases apart.  Keys whose values come  *)
(* back as they were written stand for one "setting" each.                 *)
(***************************************************************************)
EXTENDS FiniteSets

CONSTANTS
  Devices,   \* the disks a layout can be for
  Plain,     \* settings without a special case: swap, mirror_config, ...
  Kernels,   \* the kernels that are offered
  None       \* Python's None

ASSUME FilesAssumption ==
  /\ "linux" \in Kernels
  /\ None \notin {"archlinux", "chosen", "en", "de", "u2f", "u2f_passwordless_sudo"}

\* DiskLayoutConfiguration: the disks it partitions and those whose partitions
\* its DiskEncryption lists, the file system of the boot partition ("efi": the EFI
\* partition at another place than /boot), the default btrfs subvolumes and how their
\* names are held (Path or str), whether every length is aligned, and the snapshot
\* tool of btrfs_options.
AnyLayout ==
  {d \in [config_type : {"default", "manual", "pre_mounted"},
          disks : SUBSET Devices, encrypted : SUBSET Devices,
          boot : {"fat", "efi", "ext4", "none"}, subvols : {"none", "path", "str"},
          aligned : BOOLEAN, snapshots : BOOLEAN] :
     d.encrypted \subseteq d.disks}

Loaders    == {"Systemd", "Grub", "Efistub", "Limine", "Refind", "NoBootloader"}
UefiOnly   == {"Systemd", "Efistub", "Refind"}
BootConfig == [bootloader : Loaders, uki : BOOLEAN, removable : BOOLEAN]

\* U2FLoginConfiguration: None, or whether sudo asks for no password.
U2F  == {None, "u2f", "u2f_passwordless_sudo"}
Auth == [root : BOOLEAN, users : {"none", "regular", "sudo"}, u2f : U2F]

\* ProfileConfiguration of a desktop: the greeter its selection comes with and
\* the one chosen for it.
Greeters == {"sddm", "other"}
Profile  == [default : Greeters, greeter : Greeters]

Config ==
  [archinstall_language : {"en", "de"}, hostname : {None, "archlinux", "chosen"},
   kernels : SUBSET Kernels, disk_config : AnyLayout \cup {None},
   bootloader_config : BootConfig \cup {None}, auth_config : Auth \cup {None},
   profile_config : Profile \cup {None},
   plain : [Plain -> {"default", "chosen"}]]

\* ArchConfig() as it is created.
ArchConfig ==
  [archinstall_language |-> "en", hostname |-> "archlinux", kernels |-> {"linux"},
   disk_config |-> None, bootloader_config |-> None, auth_config |-> None,
   profile_config |-> None, plain |-> [p \in Plain |-> "default"]]

-----------------------------------------------------------------------------
(* Writing *)

\* json() of a layout: one that is mounted already is stored as its mount point
\* only, and the password of an encryption is never part of it.
LayoutJson(d) ==
  IF d.config_type = "pre_mounted"
  THEN [d EXCEPT !.encrypted = {}, !.snapshots = FALSE]
  ELSE [d EXCEPT !.subvols = IF @ = "none" THEN "none" ELSE "str"]

\* AuthenticationConfiguration.json: the U2F setting only.
AuthJson(a) == [root |-> FALSE, users |-> "none", u2f |-> a.u2f]

\* sub_cfg and plain_cfg, before values that are None are dropped.  The language
\* is stored under another key than the one that is read.
Entries(c) ==
  [archinstall_language |-> c.archinstall_language, hostname |-> c.hostname,
   kernels |-> c.kernels,
   disk_config |-> IF c.disk_config = None THEN None ELSE LayoutJson(c.disk_config),
   bootloader_config |-> c.bootloader_config,
   auth_config |-> IF c.auth_config = None THEN None ELSE AuthJson(c.auth_config),
   profile_config |-> c.profile_config, plain |-> c.plain]

\* safe_config, and _cleanup_config of what is read back: the null of a hostname
\* that was cleared is no entry.
SafeConfig(c) ==
  [k \in {k \in DOMAIN Entries(c) : Entries(c)[k] # None} |-> Entries(c)[k]]

\* Mutant of UnsafeConfig: the password of an encryption is written for layouts
\* made by hand only.
UnsafeConfigOfManualLayouts(c) ==
  [users    |-> IF c.auth_config = None THEN "none" ELSE c.auth_config.users,
   root     |-> IF c.auth_config = None THEN FALSE ELSE c.auth_config.root,
   password |-> IF c.disk_config = None THEN FALSE
                ELSE c.disk_config.encrypted # {} /\ c.disk_config.config_type = "manual"]

\* unsafe_config: the accounts and the password of an encryption that has one.
UnsafeConfig(c) ==
  [users    |-> IF c.auth_config = None THEN "none" ELSE c.auth_config.users,
   root     |-> IF c.auth_config = None THEN FALSE ELSE c.auth_config.root,
   password |-> IF c.disk_config = None THEN FALSE
                ELSE c.disk_config.encrypted # {}]

NoCreds == [users |-> "none", root |-> FALSE, password |-> FALSE]

-----------------------------------------------------------------------------
(* Reading, on a machine that has the disks in present *)

\* has_default_btrfs_vols: is_default_root compares the name with Path('@'), and
\* a name that was read from a file is a str.
HasDefaultVols(d) == d.config_type # "pre_mounted" /\ d.subvols = "path"

\* DiskLayoutConfiguration.parse_arg: entries of disks that are not there are
\* skipped, an encryption without its password is dropped.
ParseLayout(j, password, present) ==
  LET kept == [j EXCEPT !.disks = @ \cap present,
                        !.encrypted = IF password THEN @ \cap present ELSE {},
                        !.snapshots = FALSE]
  IN [kept EXCEPT !.snapshots = HasDefaultVols(kept) /\ j.snapshots]

\* Mutant of LayoutRefused: an encryption whose partitions are all gone is no error.
LayoutRefusedIfMisaligned(j, password, present) ==
  j.config_type # "pre_mounted" /\ j.disks \cap present # {} /\ ~j.aligned

\* The ValueErrors of parse_arg and of DiskEncryption.__post_init__.
LayoutRefused(j, password, present) ==
  \/ j.config_type # "pre_mounted" /\ j.disks \cap present # {} /\ ~j.aligned
  \/ password /\ j.encrypted # {} /\ j.encrypted \cap present = {}

\* Mutant of ParseU2F: the stored flag is negated.
ParseU2FNegated(u) ==
  CASE u = "u2f" -> "u2f_passwordless_sudo"
    [] u = "u2f_passwordless_sudo" -> "u2f"
    [] OTHER -> None

\* U2FLoginConfiguration.parse_arg: "args.get(...) is not None" turns a stored
\* False into True.
ParseU2F(u) == IF u = None THEN None ELSE "u2f_passwordless_sudo"

\* Mutant of ParseAuth: the hash of the root password is not read.
ParseAuthWithoutRoot(f, creds) ==
  IF creds.users = "none" THEN None
  ELSE [root |-> FALSE, users |-> creds.users, u2f |-> None]

\* AuthenticationConfiguration.parse_arg and the accounts that from_config adds.
ParseAuth(f, creds) ==
  LET u2f == IF "auth_config" \in DOMAIN f THEN ParseU2F(f.auth_config.u2f) ELSE None
  IN IF u2f = None /\ ~creds.root /\ creds.users = "none" THEN None
     ELSE [root |-> creds.root, users |-> creds.users, u2f |-> u2f]

Get(f, k, default) == IF k \in DOMAIN f THEN f[k] ELSE default

\* ArchConfig.from_config.  An empty list of kernels counts as none given.
FromConfig(f, creds, present) ==
  [archinstall_language |-> "en",
   hostname |-> Get(f, "hostname", "archlinux"),
   kernels |-> IF Get(f, "kernels", {}) = {} THEN {"linux"} ELSE f.kernels,
   disk_config |-> IF "disk_config" \in DOMAIN f
                   THEN ParseLayout(f.disk_config, creds.password, present) ELSE None,
   bootloader_config |-> Get(f, "bootloader_config", None),
   auth_config |-> ParseAuth(f, creds),
   profile_config |-> Get(f, "profile_config", None),
   plain |-> Get(f, "plain", [p \in Plain |-> "default"])]

\* What ends the process while the files are parsed.
Refused(f, creds, present, skipBoot) ==
  \/ /\ "disk_config" \in DOMAIN f
     /\ LayoutRefused(f.disk_config, creds.password, present)
  \/ /\ "bootloader_config" \in DOMAIN f
     /\ f.bootloader_config.bootloader = "NoBootloader"
     /\ ~skipBoot
================================================================================
