----------------------------- MODULE BootLoader -----------------------------
(***************************************************************************)
(* How the installed system gets to boot: the hooks of the initial RAM     *)
(* disk, the kernel parameters, unified images and the five boot loaders,  *)
(* in the order in which minimal_installation, setup_swap, add_bootloader  *)
(* and Installer.__exit__ deal with them, and what the firmware makes of   *)
(* the result.                                                             *)
(*                                                                         *)
(* A request is what was configured:                                       *)
(*   [uefi, plugin, uki, removable, plymouth, zram, snapshots, lvm, hsm,   *)
(*    subvolumes : BOOLEAN, loader, encryption, kernels, parts : Seq]      *)
(* and a partition is [at, boot, esp, fs, luks], at being the mount point. *)
(* Mount points, files and images are told apart by what a loader has to   *)
(* find: on which partition, in its top directory or below boot/.          *)
(***************************************************************************)
EXTENDS Integers, Sequences, SequencesExt

CONSTANTS
  None,
  Requests   \* what may be configured

Loaders == {"Systemd", "Grub", "Efistub", "Limine", "Refind"}
EncryptionTypes == {"NO_ENCRYPTION", "LUKS", "LVM_ON_LUKS", "LUKS_ON_LVM"}
MountPoints == {"/", "/boot", "/efi", "/boot/efi", "/home", "none"}

Partition == [at : MountPoints, boot : BOOLEAN, esp : BOOLEAN,
              fs : {"FAT", "ext4", "btrfs", "xfs", "none"}, luks : BOOLEAN]

HookNames == {"base", "systemd", "udev", "autodetect", "microcode", "modconf", "kms", "keyboard",
              "sd-vconsole", "keymap consolefont", "block", "lvm2", "encrypt", "sd-encrypt",
              "plymouth", "filesystems", "fsck"}

KernelParameters == [open : {"none", "cryptdevice", "rd.luks"}, root : {"none", "partition", "volume", "mapper"},
                     zswap : BOOLEAN, flags : {"none", "subvol"}, extra : Seq({"quiet", "splash"})]

\* A unified image: an initial RAM disk with its kernel's command line.
UnifiedImages == [hooks : Seq(HookNames), params : KernelParameters]

\* The root that is mounted has a file system.
ASSUME BootAssumption ==
  \A r \in Requests :
    /\ r.loader \in Loaders
    /\ r.encryption \in EncryptionTypes
    /\ r.parts \in Seq(Partition)
    /\ r.kernels # <<>>
    /\ {r.uefi, r.plugin, r.uki, r.removable, r.plymouth, r.zram, r.snapshots, r.lvm, r.hsm, r.subvolumes} \subseteq BOOLEAN
    /\ \A i \in DOMAIN r.parts : r.parts[i].at = "/" => r.parts[i].fs # "none"

\* No partition, loader or image is None.
ASSUME NoneAssumption ==
  /\ None \notin Nat
  /\ None \notin Loaders
  /\ None \notin Seq(HookNames)
  /\ None \notin UnifiedImages

VARIABLES
  request,
  pc,
  hooks,      \* Installer._hooks
  extra,      \* Installer._kernel_params
  zswap,      \* whether zswap is turned off: Installer._zram_enabled
  classic,    \* initial RAM disk of each kernel below /boot: its hooks, or None
  unified,    \* unified image of each kernel on the ESP: [hooks, params], or None
  entries,    \* what the loader or the firmware was told to start
  installed,  \* the loader that can be started, or None
  helper,     \* Installer._helper_flags['bootloader']
  reported    \* build errors that were logged and passed over

vars == <<request, pc, hooks, extra, zswap, classic, unified, entries, installed, helper, reported>>

Kernels == ToSet(request.kernels)

Init ==
  /\ request \in Requests
  /\ pc = "prepare"
  /\ hooks = <<"base", "systemd", "autodetect", "microcode", "modconf", "kms",
               "keyboard", "sd-vconsole", "block", "filesystems", "fsck">>
  /\ extra = <<>>
  /\ zswap = FALSE
  /\ classic = [k \in Kernels |-> None]
  /\ unified = [k \in Kernels |-> None]
  /\ entries = {}
  /\ installed = None
  /\ helper = None
  /\ reported = FALSE

----------------------------------------------------------------------------
(* The layout *)

Numbers == DOMAIN request.parts
At(i) == request.parts[i].at

\* The first of some partitions, by their numbers.
FirstOf(found) == IF found = {} THEN None ELSE CHOOSE i \in found : \A j \in found : i <= j

EfiPartition == FirstOf({i \in Numbers : request.parts[i].esp /\ At(i) # "none"})
BootPartition == FirstOf({i \in Numbers : request.parts[i].boot /\ At(i) # "none"})
RootPartition == FirstOf({i \in Numbers : At(i) = "/"})

\* The root is a volume, which the run takes to exist, or a partition.
HasRoot == request.lvm \/ RootPartition # None

\* The file system /boot is on: a partition, or the root, 0 being a volume.
OwnBoot == FirstOf({i \in Numbers : At(i) = "/boot"})
KernelPart == IF OwnBoot # None THEN OwnBoot ELSE IF request.lvm THEN 0 ELSE RootPartition
KernelDir == IF OwnBoot = None THEN "boot" ELSE "top"

RootEncrypted ==
  \/ request.lvm /\ request.encryption \in {"LVM_ON_LUKS", "LUKS_ON_LVM"}
  \/ ~request.lvm /\ RootPartition # None /\ request.parts[RootPartition].luks

----------------------------------------------------------------------------
(* Hooks and kernel parameters *)

Position(h, s) == CHOOSE i \in DOMAIN s : s[i] = h
InsertBefore(new, h, s) == InsertAt(s, Position(h, s), new)
InsertBehind(new, h, s) == InsertAt(s, Position(h, s) + 1, new)

\* _prepare_encrypt()
WithEncrypt(before, s) ==
  LET h == IF request.hsm THEN "sd-encrypt" ELSE "encrypt"
  IN  IF Contains(s, h) THEN s ELSE InsertBefore(h, before, s)

\* What mkinitcpio() writes, and keeps, when no token opens the disk.
WithoutSystemd(s) ==
  IF request.hsm THEN s
  ELSE [i \in DOMAIN s |-> CASE s[i] = "systemd"     -> "udev"
                             [] s[i] = "sd-vconsole" -> "keymap consolefont"
                             [] OTHER                -> s[i]]

\* _install_plymouth() takes the first of these hooks that is there.
PlymouthPlaces == <<"encrypt", "sd-encrypt", "systemd", "filesystems", "keyboard">>

\* Behind the first of them, whichever it is.
WithPlymouthBehind(s) ==
  LET there == {i \in DOMAIN PlymouthPlaces : Contains(s, PlymouthPlaces[i])}
      first == PlymouthPlaces[CHOOSE i \in there : \A j \in there : i <= j]
  IN  IF Contains(s, "plymouth") THEN s
      ELSE IF there = {} THEN Append(s, "plymouth")
      ELSE InsertBehind("plymouth", first, s)

WithPlymouth(s) ==
  LET there == {i \in DOMAIN PlymouthPlaces : Contains(s, PlymouthPlaces[i])}
      first == PlymouthPlaces[CHOOSE i \in there : \A j \in there : i <= j]
  IN  IF Contains(s, "plymouth") THEN s
      ELSE IF there = {} THEN Append(s, "plymouth")
      ELSE IF first \in {"systemd", "keyboard"} THEN InsertBehind("plymouth", first, s)
      ELSE InsertBefore("plymouth", first, s)

\* _get_kernel_params_lvm(), which names the root whether asked to or not.
LvmParams ==
  IF request.encryption \in {"LVM_ON_LUKS", "LUKS_ON_LVM"}
  THEN [open |-> IF request.hsm THEN "rd.luks" ELSE "cryptdevice",
        root |-> IF request.encryption = "LVM_ON_LUKS" THEN "volume" ELSE "mapper"]
  ELSE [open |-> "none", root |-> "volume"]

\* _get_kernel_params_partition()
PartitionParams(id_root) ==
  LET luks == request.parts[RootPartition].luks
  IN  [open |-> IF ~luks THEN "none" ELSE IF request.hsm THEN "rd.luks" ELSE "cryptdevice",
       root |-> IF ~id_root THEN "none" ELSE IF luks THEN "mapper" ELSE "partition"]

\* _get_kernel_params()
KernelParams(id_root) ==
  LET p == IF request.lvm THEN LvmParams ELSE PartitionParams(id_root)
  IN  [open  |-> p.open,
       root  |-> p.root,
       zswap |-> ~zswap,
       flags |-> IF id_root /\ request.subvolumes THEN "subvol" ELSE "none",
       extra |-> extra]

----------------------------------------------------------------------------
(* The steps *)

Fails == pc' = "raised" /\ UNCHANGED <<request, hooks, extra, zswap, classic, unified, entries, installed, helper, reported>>

\* A package transaction that the user gives up on.
Strap == Fails

\* The first part of minimal_installation(); installing the kernels builds
\* images with the hooks of the distribution, and the order of the hooks is
\* written by mkinitcpio() only.
Prepare ==
  /\ pc = "prepare"
  /\ hooks' =
       IF request.lvm
       THEN LET lvm == InsertAt(hooks, Position("filesystems", hooks) - 1, "lvm2")
            IN  IF request.encryption \in {"LVM_ON_LUKS", "LUKS_ON_LVM"} THEN WithEncrypt("lvm2", lvm) ELSE lvm
       ELSE IF \E i \in DOMAIN request.parts : request.parts[i].luks /\ request.parts[i].fs # "none"
            THEN WithEncrypt("filesystems", hooks) ELSE hooks
  /\ classic' = [k \in Kernels |-> <<"base", "udev", "autodetect", "block", "filesystems">>]
  /\ pc' = "base image"
  /\ UNCHANGED <<request, extra, zswap, unified, entries, installed, helper, reported>>

\* mkinitcpio -P builds what the presets ask for; its failure leaves the
\* images there are.
Mkinitcpio(next, built, cmdline, h) ==
  /\ hooks' = WithoutSystemd(h)
  /\ \/ /\ classic' = [k \in Kernels |-> IF "classic" \in built THEN hooks' ELSE classic[k]]
        /\ unified' = [k \in Kernels |-> IF "unified" \in built THEN [hooks |-> hooks', params |-> cmdline] ELSE unified[k]]
        /\ UNCHANGED reported
     \/ /\ reported' = TRUE
        /\ UNCHANGED <<classic, unified>>
  /\ pc' = next

\* The image of the base system, unless unified images are asked for.
BaseImage ==
  /\ pc = "base image"
  /\ \/ /\ ~request.uki
        /\ Mkinitcpio("swap", {"classic"}, None, hooks)
     \/ /\ request.uki
        /\ pc' = "swap"
        /\ UNCHANGED <<hooks, classic, unified, reported>>
  /\ UNCHANGED <<request, extra, zswap, entries, installed, helper>>

\* setup_swap()
SetupSwap ==
  /\ pc = "swap"
  /\ \/ request.zram /\ Strap
     \/ /\ zswap' = request.zram
        /\ pc' = "add"
        /\ UNCHANGED <<request, hooks, extra, classic, unified, entries, installed, helper, reported>>

\* The start of add_bootloader(): a plugin may take over, and the partitions
\* are looked up by their flags.
Add ==
  /\ pc = "add"
  /\ IF request.plugin THEN pc' = "end"
     ELSE IF BootPartition = None \/ ~HasRoot THEN pc' = "raised"
     ELSE pc' = IF request.plymouth THEN "plymouth" ELSE "uki"
  /\ UNCHANGED <<request, hooks, extra, zswap, classic, unified, entries, installed, helper, reported>>

\* _install_plymouth(): the presets still ask for the classic images.
InstallPlymouth ==
  /\ pc = "plymouth"
  /\ \/ Strap
     \/ /\ extra' = <<"quiet", "splash">>
        /\ Mkinitcpio("uki", {"classic"}, None, WithPlymouth(hooks))
        /\ UNCHANGED <<request, zswap, entries, installed, helper>>

KeepInitramfs == request.loader = "Grub" /\ request.subvolumes /\ request.snapshots

\* The parameters of the splash screen are not on the command line.
ConfigUkiWithoutExtra ==
  /\ pc = "uki"
  /\ IF ~request.uki THEN pc' = "loader" /\ UNCHANGED <<request, hooks, extra, zswap, classic, unified, entries, installed, helper, reported>>
     ELSE IF EfiPartition = None THEN Fails
     ELSE /\ hooks' = WithoutSystemd(hooks)
          /\ unified' = [k \in Kernels |-> [hooks |-> hooks', params |-> [KernelParams(TRUE) EXCEPT !.extra = <<>>]]]
          /\ classic' = [k \in Kernels |-> None]
          /\ pc' = "loader"
          /\ UNCHANGED <<request, extra, zswap, entries, installed, helper, reported>>

\* _config_uki(): the command line is written, the classic images are removed,
\* and then the unified ones are built, or not.
ConfigUki ==
  /\ pc = "uki"
  /\ IF ~request.uki THEN pc' = "loader" /\ UNCHANGED <<request, hooks, extra, zswap, classic, unified, entries, installed, helper, reported>>
     ELSE IF EfiPartition = None THEN Fails
     ELSE /\ hooks' = WithoutSystemd(hooks)
          /\ \/ /\ unified' = [k \in Kernels |-> [hooks |-> hooks', params |-> KernelParams(TRUE)]]
                /\ classic' = [k \in Kernels |-> IF KeepInitramfs THEN hooks' ELSE None]
                /\ UNCHANGED reported
             \/ /\ classic' = IF KeepInitramfs THEN classic ELSE [k \in Kernels |-> None]
                /\ reported' = TRUE
                /\ UNCHANGED unified
          /\ pc' = "loader"
          /\ UNCHANGED <<request, extra, zswap, entries, installed, helper>>

----------------------------------------------------------------------------
(* The loaders *)

Entry(part, dir, image, k, params) ==
  [part |-> part, dir |-> dir, image |-> image, kernel |-> k, params |-> params]

\* Unified images are found in EFI/Linux of the ESP, with their own parameters.
UnifiedEntries == {Entry(EfiPartition, "top", "unified", k, None) : k \in Kernels}

AtLoader(l) == pc = "loader" /\ request.loader = l

Installs(e) ==
  /\ entries' = e
  /\ installed' = request.loader
  /\ helper' = request.loader
  /\ pc' = "end"
  /\ UNCHANGED <<request, hooks, extra, zswap, classic, unified>>

NeedsUefi(l) == l \in {"Systemd", "Efistub", "Refind"}

\* Each loader's installation may fail: a package, the loader's own program,
\* an entry of the firmware.  bootctl is tried again without variables.
LoaderFails == \E l \in Loaders : AtLoader(l) /\ Fails

\* _add_systemd_bootloader(): entries are written to the boot partition.
AddSystemd ==
  /\ AtLoader("Systemd")
  /\ request.uefi
  /\ EfiPartition # None
  /\ Installs(IF request.uki THEN UnifiedEntries
              ELSE {Entry(BootPartition, "top", "classic", k, KernelParams(TRUE)) : k \in Kernels})
  /\ UNCHANGED reported

\* _add_grub_bootloader(): grub-mkconfig finds the kernels and names the root;
\* it refuses what it would have to decrypt.
AddGrub ==
  /\ AtLoader("Grub")
  /\ request.uefi => EfiPartition # None
  /\ ~(OwnBoot = None /\ RootEncrypted)
  /\ LET listed(p) == {Entry(KernelPart, KernelDir, "classic", k, p) : k \in Kernels}
         plain     == [KernelParams(FALSE) EXCEPT !.open = "none", !.zswap = TRUE, !.extra = <<>>]
     IN  \/ /\ Installs(IF request.uefi /\ request.uki THEN UnifiedEntries ELSE listed(KernelParams(FALSE)))
            /\ UNCHANGED reported
         \/ /\ request.uefi /\ request.uki     \* the menu could not be written
            /\ \/ Installs(listed(plain))
               \/ Installs(listed(plain) \cup UnifiedEntries)
            /\ reported' = TRUE

\* validate_bootloader_layout()
Fat(i) == request.parts[i].fs = "FAT"
Validated ==
  /\ NeedsUefi(request.loader) => request.uefi
  /\ (request.loader \in {"Efistub", "Limine"} /\ BootPartition # None) => Fat(BootPartition)
  /\ (request.loader = "Limine" /\ ~request.uki /\ EfiPartition # None /\ EfiPartition = BootPartition) => At(EfiPartition) = "/boot"

\* Kernels named relative to the partition of the loader, always.
LiminePartOfLoader == IF request.uefi THEN EfiPartition ELSE KernelPart

\* boot() is the partition of limine.conf: the ESP, or the one of /boot.
LiminePart ==
  IF EfiPartition # None /\ BootPartition # EfiPartition THEN BootPartition
  ELSE IF request.uefi THEN EfiPartition ELSE KernelPart

\* _add_limine_bootloader()
AddLimine ==
  /\ AtLoader("Limine")
  /\ request.uefi => EfiPartition # None /\ Validated
  /\ Installs(IF request.uki THEN UnifiedEntries
              ELSE {Entry(LiminePart, "top", "classic", k, KernelParams(TRUE)) : k \in Kernels})
  /\ UNCHANGED reported

\* _add_efistub_bootloader(): an entry of the firmware for each kernel, on the
\* boot partition for unified images too.
AddEfistub ==
  /\ AtLoader("Efistub")
  /\ request.uefi
  /\ Installs({Entry(BootPartition, "top", IF request.uki THEN "unified" ELSE "classic", k, KernelParams(TRUE)) : k \in Kernels})
  /\ UNCHANGED reported

\* Some of the kernels got their entry before efibootmgr failed.
EfistubStops ==
  /\ AtLoader("Efistub")
  /\ request.uefi
  /\ \E n \in 1..(Len(request.kernels) - 1) :
       entries' = {Entry(BootPartition, "top", IF request.uki THEN "unified" ELSE "classic", request.kernels[i], KernelParams(TRUE)) : i \in 1..n}
  /\ pc' = "raised"
  /\ UNCHANGED <<request, hooks, extra, zswap, classic, unified, installed, helper, reported>>

\* _add_refind_bootloader(): refind_linux.conf goes to the boot partition or,
\* when that is the ESP, to /boot, which may be on the root.
RefindPlace ==
  IF BootPartition # EfiPartition THEN [part |-> BootPartition, dir |-> "top"]
  ELSE IF At(EfiPartition) = "/boot" THEN [part |-> EfiPartition, dir |-> "top"]
  ELSE [part |-> KernelPart, dir |-> "boot"]

AddRefind ==
  /\ AtLoader("Refind")
  /\ request.uefi
  /\ EfiPartition # None
  /\ Installs(IF request.uki THEN UnifiedEntries
              ELSE {Entry(RefindPlace.part, RefindPlace.dir, "classic", k, KernelParams(TRUE)) : k \in Kernels})
  /\ UNCHANGED reported

\* __exit__(): the installation is called complete when post_install_check()
\* misses nothing.
Exit ==
  /\ pc = "end"
  /\ pc' = IF helper # None THEN "complete" ELSE "missing steps"
  /\ UNCHANGED <<request, hooks, extra, zswap, classic, unified, entries, installed, helper, reported>>

Next ==
  \/ Prepare \/ BaseImage \/ SetupSwap
  \/ Add \/ InstallPlymouth \/ ConfigUki
  \/ AddSystemd \/ AddGrub \/ AddLimine \/ AddEfistub \/ EfistubStops \/ AddRefind
  \/ LoaderFails
  \/ Exit

Spec == Init /\ [][Next]_vars

----------------------------------------------------------------------------
(* What the firmware and the loaders make of it *)

\* A loader reads these file systems, none of them an encrypted one, and only
\* GRUB reads a volume.
Readable(l, part) ==
  IF part = 0 THEN l = "Grub" /\ ~RootEncrypted
  ELSE /\ ~request.parts[part].luks
       /\ CASE l = "Grub"   -> TRUE
            [] l = "Refind" -> request.parts[part].fs \in {"FAT", "ext4", "btrfs"}
            [] OTHER        -> Fat(part)

\* The initial RAM disk finds and opens the root; grub-mkconfig adds the root
\* and its flags to the parameters.
RootOpens(h, p) ==
  /\ RootEncrypted => \/ p.open = "cryptdevice" /\ Contains(h, "encrypt") /\ Contains(h, "udev")
                      \/ p.open = "rd.luks" /\ Contains(h, "sd-encrypt") /\ Contains(h, "systemd")
  /\ request.lvm => Contains(h, "lvm2")
  /\ p.root # "none" \/ installed = "Grub"
  /\ request.subvolumes => p.flags = "subvol" \/ installed = "Grub"

ParamsOf(e) == IF e.image = "unified" THEN unified[e.kernel].params ELSE e.params

Starts(e) ==
  \/ /\ e.image = "unified"
     /\ request.uefi
     /\ e.part = EfiPartition
     /\ Fat(e.part)
     /\ unified[e.kernel] # None
     /\ RootOpens(unified[e.kernel].hooks, unified[e.kernel].params)
  \/ /\ e.image = "classic"
     /\ e.part = KernelPart
     /\ e.dir = KernelDir
     /\ Readable(installed, e.part)
     /\ classic[e.kernel] # None
     /\ RootOpens(classic[e.kernel], e.params)

Boots == \A k \in Kernels : \E e \in entries : e.kernel = k /\ Starts(e)

----------------------------------------------------------------------------
(* Properties *)

TypeOK ==
  /\ request \in Requests
  /\ pc \in {"prepare", "base image", "swap", "add", "plymouth", "uki", "loader", "end", "raised", "complete", "missing steps"}
  /\ hooks \in Seq(HookNames)
  /\ extra \in {<<>>, <<"quiet", "splash">>}
  /\ zswap \in BOOLEAN
  /\ DOMAIN classic = Kernels
  /\ DOMAIN unified = Kernels
  /\ installed \in Loaders \cup {None}
  /\ helper \in Loaders \cup {None}
  /\ reported \in BOOLEAN

\* Five places write the list of hooks, and mkinitcpio() renames some between
\* them.  However they follow one another, a disk is opened after the keyboard
\* works and before it is mounted, groups of volumes on an encrypted disk come
\* after it, the splash screen is up when a passphrase is asked for, and no
\* hook is there twice.
Precedes(a, b) ==
  (Contains(hooks, a) /\ Contains(hooks, b)) => Position(a, hooks) < Position(b, hooks)

HooksInOrder ==
  /\ \A h \in {"encrypt", "sd-encrypt"} :
       /\ Precedes("keyboard", h)
       /\ Precedes(h, "filesystems")
       /\ request.encryption = "LVM_ON_LUKS" => Precedes(h, "lvm2")
       /\ Precedes("plymouth", h)
  /\ Precedes("lvm2", "filesystems")
  /\ Precedes("udev", "plymouth")
  /\ Precedes("systemd", "plymouth")
  /\ \A i, j \in DOMAIN hooks : hooks[i] = hooks[j] => i = j

\* What is passed to the kernel is complete whatever starts it: zswap is off
\* beside zram, and the splash screen's parameters are there, on the command
\* line of a unified image, which is written once, as in the loaders' entries.
CommandLineIsComplete ==
  (pc = "complete" /\ ~reported) =>
    \A e \in entries : ParamsOf(e).zswap = ~request.zram /\ (request.plymouth => ParamsOf(e).extra = <<"quiet", "splash">>)

\* The layouts the code is written for: a file system the loader reads is
\* mounted at /boot and has the boot flag, or the kernels lie on the root for a
\* loader that reads it; a unified image needs the ESP, and as an entry of the
\* firmware an ESP that is the boot partition.
Intended ==
  IF request.uki
  THEN request.uefi /\ Fat(EfiPartition) /\ (request.loader = "Efistub" => BootPartition = EfiPartition)
  ELSE /\ Readable(request.loader, KernelPart)
       /\ \/ OwnBoot # None /\ OwnBoot = BootPartition
          \/ request.loader = "Grub"
          \/ request.loader = "Refind" /\ BootPartition = EfiPartition /\ OwnBoot = None

\* An installation that is called complete, and in which no build failed,
\* boots every kernel: the entry is on a partition where the loader finds the
\* image, the image is still there, and its hooks open the root its parameters
\* name.
FinishedSystemsBoot ==
  (pc = "complete" /\ ~reported /\ Intended) => Boots

=============================================================================
