# Verification of archinstall

TLA+ modules, TLC configurations and TLAPS proofs for archinstall, the guided
installer of Arch Linux with this repository's additions (the preset flow, the
CachyOS repositories, the dotfiles). Paths below are relative to
`src/archinstall/` unless they start with `docs/`.

| Question | Modules | Checked by | Proved in |
|---|---|---|---|
| May this run touch this disk? | `InstallConsent` | refined by `GuidedSession` | `GuidedSessionProofs` |
| Is what is installed what was asked and confirmed? | `GuidedSession` | `GuidedSession.cfg` | `GuidedSessionProofs` |
| Does a failing, retried or interrupted installation leave a sound system? | `Installation` | `Installation.cfg` | `InstallationProofs` |
| Do the commands to the block devices fit together? | `DiskSetup` | `DiskSetup.cfg` | `DiskSetupProofs` |
| Does the editor's list agree with the disk? | `DiskLayout`, `PartitionEditor` | `PartitionEditor.cfg`, `PartitionOverlap.cfg` | `MenuProofs` |
| Do layout, LVM and encryption fit when they leave the menu? | `DiskMenu` | `DiskMenu.cfg`, `DiskReconfirm.cfg` | `DiskMenuProofs` |
| Is a command's output read whole, and is no container left? | `Command`, `CommandWorker`, `ContainerSession` | `ContainerSession.cfg` | `ContainerSessionProofs` |
| Does the installed system boot? | `BootLoader` | `BootLoader.cfg` | `BootLoaderProofs` |
| Does a saved configuration come back, and is it complete? | `ConfigFiles`, `GlobalMenu` | `SavedSessions.cfg`, `Reload.cfg` | `GlobalMenuProofs` |
| Do profile, selection and options stay together? | `Profiles` | `Profiles.cfg` | `MenuProofs` |

Run TLC on the `MC...` module with the configuration named above
(`ContainerSession.cfg` is for `ContainerSession` itself), and `tlapm` on the
`...Proofs` modules. `PROJECT.json` lists the runs, one mutant per property, the
source lines each definition models, the hazards, the findings and the theorems.


## 1. Inventory

archinstall is one process on a live medium. It asks questions, partitions and
formats, mounts the target under `/mnt`, and fills it by running commands. There
is almost no concurrency inside the program (a thread per menu, a child process
per command). What is hard is the length of the sequence: dozens of commands, each
of which may fail or be interrupted, state on three machines at once (the
process, the live medium, the target), and questions that can be answered again.

### Guided session: `scripts/guided.py`, `preset/flow.py`, `preset/wizard.py`, `preset/builder.py`
- **State**: `ArchConfig` in the `ArchConfigHandler`, the answers being collected,
  the command line switches.
- **Operations**: ask for the mode, run one of two prompt sequences, assemble a
  configuration, write it to the log, validate, confirm, count down, then call the
  disk operations and the installation. After a refused confirmation `main` calls
  itself.
- **Hard**: answers of one pass meet leftovers of the previous one; a loaded file
  and the menu are two more sources of the same fields; optional probes fail.
- **Correct if** no device is touched before the confirmation, what is confirmed
  is what is installed, and the options of the hooks agree with the configuration.

### Installation sequence: `perform_installation`, `lib/installer.py`, `lib/pacman/`, `preset/runtime.py`, `preset/cachyos.py`, `preset/dotfiles.py`
- **State**: the `Installer` (hooks, synchronised database), the live medium
  (`pacman.conf`, keyring), the target (packages, keyring, `pacman.conf`,
  `mkinitcpio.conf`, boot image, users, sudo rules).
- **Operations**: 38 steps from mounting to `fstab`, 14 of which are package
  transactions that ask for a retry.
- **Hard**: every step can raise, and the code around it catches some exceptions
  and not others; every `pacstrap -K` wipes the trust in the CachyOS key; the image
  is built in five places; the ML4W scripts run with a temporary sudo rule; a
  second attempt meets the live medium as the first left it.
- **Correct if** a finished system trusts its repositories and boots a current
  image, no rule and no foreign file is left in the home directory, and an
  unattended run ends.

### Boot loader installation: the second half of `lib/installer.py`, `lib/bootloader/`
- **State**: the list of hooks, the kernel parameters, the zswap and initramfs
  decisions, classic and unified images, the loader's entries.
- **Operations**: prepare the hooks, build images, zram, plymouth, unified images,
  one of five loaders, the closing check.
- **Hard**: five places insert hooks relative to hooks that `mkinitcpio()` renames;
  the command line of a unified image is written once, before other steps are
  through; boot, EFI and root partitions are looked up by flags and mount points
  in three places; a failed image build is only logged.
- **Correct if** the hooks are in an order that can open and mount the root, the
  command line is complete however the kernel is started, and what is called
  complete boots.

### Disk setup: `lib/disk/filesystem.py`, `device_handler.py`, `luks.py`, `lvm.py`, `utils.py`, the mounting half of `lib/installer.py`
- **State**: partition tables, file systems, LUKS containers, volume groups,
  mounts; the paths noted in the configuration while it is applied.
- **Operations**: release what is mounted, wipe, partition, format, encrypt,
  set up LVM, create subvolumes, mount in order, write key files.
- **Hard**: partition numbers are given away during the commit and used as device
  names afterwards; each container is opened and closed several times; nearly no
  command's result is looked at; a second start meets what the first left open.
- **Correct if** partitions the user keeps are never touched, what is mounted is
  what was asked for, and layouts the menus can produce are not refused half way.

### Layout editor: `lib/disk/partitioning_menu.py`, `lib/menu/list_manager.py`, `lib/models/device.py`
- **State**: the list of partitions and free stretches, whether the disk is wiped,
  the table kind, the layout confirmed last.
- **Operations**: create, delete, format, mount points, flags, file systems,
  suggestions, confirm, cancel, open again.
- **Hard**: free stretches are recomputed after some actions and kept after others;
  an index of one list is used in another; size differences are absolute values.
- **Correct if** the list is what is on the disk, the free space shown is free, new
  partitions stay inside the usable space, and what is suggested can be loaded.

### Disk menu: `lib/disk/disk_menu.py`, `encryption_menu.py`, `subvolume_menu.py`
- **State**: four items (layout, LVM, encryption, snapshots) and the items of the
  encryption menu.
- **Operations**: suggest, mount or edit a layout, LVM, kind, password and targets
  of the encryption, snapshots, reset any of them, leave, come back.
- **Hard**: LVM and encryption refer to objects of the layout they were chosen
  for; whether they survive a new layout is decided by comparing two layouts that
  may be equal and made of other objects; the kind of encryption can be changed
  after its targets were selected.
- **Correct if** what leaves the menu is one combination that can be carried out
  and what was selected is what is encrypted.

### Command runner and container session: `lib/command.py`, `lib/boot.py`
- **State**: a child on a pseudo terminal, its trace log and the position in it,
  the exit code; for a container the session in the class variable `_active_boot`.
- **Operations**: start, poll (read, hang-up, look at the process list, reap),
  search, write an answer, iterate, leave; enter and leave a container.
- **Hard**: between any two of these the child writes, asks, forks and ends; a
  session outlives the block that made it.
- **Correct if** the caller gets the whole output and the child's own exit code,
  every dialogue ends, and no container is left running in the target.

### Configuration files and menus: `lib/args.py`, `lib/configuration.py`, `lib/models/`, `lib/global_menu.py`, `lib/menu/abstract_menu.py`
- **State**: the menu's copy of every answer, `ArchConfig`, two JSON files in two
  directories, the command line.
- **Operations**: edit, save, save the credentials with or without encryption,
  install, confirm, refuse, abort, load on this machine or another.
- **Hard**: every setting passes through a hand-written pair of methods; the menu
  and the configuration have different defaults; a silent run skips the menu and
  the checks in it.
- **Correct if** nothing incomplete is installed, and what is saved comes back.

### Profiles: `lib/profile/`, `lib/models/profile.py`, `default_profiles/`
- **State**: selections and settings in profile objects that live as long as the
  process; driver and greeter beside them in the configuration.
- **Operations**: choose, skip and reset in three nested menus, save, load.
- **Hard**: the configuration only points to an object that other menus change.
- **Correct if** exactly the profile that is configured has a selection, and driver
  and greeter belong to it.

### Components that are not modelled
| Component | State and operations | Why not |
|---|---|---|
| Terminal interface (`tui/`) | widgets of an external library | events and layout; the results of a menu are inputs of the modules |
| Mirrors (`lib/mirror/`) | a list loaded lazily with a fallback, a speed test, lists of custom servers and repositories | each menu replaces its list as a whole; downloads decide the rest. See the notes in section 7 |
| Network (`lib/network/`) | a `wpa_supplicant` session | a dialogue with a daemon and an access point that a model would have to invent |
| Authentication, applications, packages | lists of users, packages and services | data; creating users and installing are steps of `Installation`, the users' completeness is in `GlobalMenu` |
| Hardware, locale, translation, logging, utilities | reads of the machine, wording | constants of the modules, or text |
| Plugins | code from elsewhere | may do anything at its hooks; `BootLoader` has one that takes over |
| Other scripts (`scripts/minimal.py`, `only_hd.py`) | shorter sequences of the same calls | covered by the calls they make |


## 2. Plan

Written in this order, the most important behaviour first: `InstallConsent`,
`GuidedSession`, `Installation`, `DiskSetup`, `DiskLayout` and `PartitionEditor`,
then `Command`, `CommandWorker` and `ContainerSession`, `BootLoader`, `DiskMenu`,
`ConfigFiles` and `GlobalMenu`, `Profiles`, and the proofs of each as far as the
prover reaches.

What a continuation would take up:

- `DiskSetup` for every layout, beyond `KeptPartitionsUntouched`: `ClosedAtHandover`
  first, `MountedAsRequested` and `SoundLayoutsAreNotRefused` after it. `Safe` in
  `DiskSetupProofs` says of the line what opens before what; these properties need,
  besides, what each command leaves on the machine.
- One composition of `PartitionEditor` with `DiskMenu`, to show that what they
  produce is `Legal` for `DiskSetup`. Today the manual tables of `MCDiskMenu` and
  the layouts of `MCDiskSetup` are chosen by hand to match.
- Authentication (the PAM files of a U2F login are changed in place) and the
  network dialogue, if a reader of the code finds a hazard there that is not a
  matter of the outside world.


## 3. The modules

### `InstallConsent`
Two variables: the layout that was agreed to and the devices touched so far. A
layout is agreed to once, before anything is touched, and only its device is
modified. `GuidedSession!Consent` instantiates it with the refinement mapping
`agreed <- the layout of the confirmed configuration`.

### `GuidedSession`
One action per prompt, in the order of `preset/flow.py`, with `pc` naming the prompt
that is next; `cfg` is `arch_config_handler.config` reduced to the fields that the
control flow reads or that a later answer can make inconsistent with an earlier
one; `ans` are the local variables of the sequence that is running. `Main`, `Check`,
`Accept`, `Refuse`, `Countdown`, `Format` and `Install` are the parts of
`guided.main`, `WithDefaults` and `Assembled` those of `preset/builder.py`. `Bootable`
is `validate_bootloader_layout` for all six loaders: a layout says which partition the
kernels are put on (`boot`) and where the EFI partition is mounted (`esp`), a
configuration whether the images are unified (`uki`). `NewPackages` replaces the
packages of a loaded file unless it is empty; since `gpu_plan` has packages for every
machine, it never is. `consent` is a history variable. Leaving a prompt ends the process, as in the code. Disk
operations and installation are single steps that succeed or crash. Left out:
wording, locale, passwords (a user is always entered), the names of mirrors, the
content of the classic menu, which is `GlobalMenu`.

### `Installation`
`Follow` is `perform_installation` as a straight line of steps with the hooks of
`preset/` inlined; `Wanted` is the condition in front of each step; `Caught` and
`Handler` say which exceptions the code around a step catches and where it goes on;
`Ask` is the question of `Pacman.ask`. `EnableRepositories` can fail before the live
`pacman.conf` is written, which a file without `[core]` is a reason for, and behind it,
at the mirror lists. The actions say what a step does to `live`
(the live medium), `target` and `hooks`. `contained` remembers failures that were
reported without stopping the attempt. `Restart` starts the program again: the
target is formatted anew, the live medium is kept.

Abstractions: consecutive transactions of one method are one step; the driver step
stands for the packages of the profile and the driver package; interrupts arrive
while commands run and not while a file is written; boot loaders (see `BootLoader`)
and profiles are single steps that may fail; custom mirror files are left out.

### `BootLoader`
From `minimal_installation` to `Installer.__exit__`, seen from what a kernel is
started with. A request is a configuration; partitions are told apart by mount point,
flags, file system and encryption. `hooks` is `Installer._hooks` as a sequence, changed
by `Prepare`, `WithEncrypt`, `WithPlymouth` and the renaming in `mkinitcpio()`;
`classic` and `unified` are the images of each kernel with the hooks they were built
with, and `entries` what the five loaders write (`AddSystemd` ... `AddRefind`).
`Starts` is the other side, which is external: on which partition, in which
directory and file system the firmware and the loaders look, and whether the
image's hooks open the root its parameters name.

The hooks, parameters and images are typed (`HookNames`, `KernelParameters`,
`UnifiedImages`), so that an image can be told from `None` without knowing it
(`NoneAssumption`); `BootAssumption` says that a request has a kernel and that a root
which is mounted has a file system.

Left out: the wording of the files, pacman hooks, themes. A failed
build is a choice of `Mkinitcpio` and `ConfigUki` and sets `reported`.

### `DiskSetup`
The code is loops over devices, partitions, groups and volumes whose order depends on
the layout alone. `Layout` is what a layout is made of, and `Legal` what the editors and
the encryption menu leave possible: items are told apart by their identifiers, kept
partitions are neither wiped nor encrypted nor part of a group, a partition has a mount
point or subvolumes, and a suggested volume has both or its mount point alone. `Commands` computes the
line once, operator by method (`Partition`, `Format`, `CreateBtrfsVolumes`, `LvmOperations`, `MountPartitions`,
`KeyFiles`, ...), and the actions run it. `MountItem` is all four methods that mount an
item: subvolumes come before the mount point, and of a btrfs volume the mount point is
not looked at. The machine is modelled as what is on each
partition (a stack of layers), what is open under `/dev/mapper`, the active volume
groups and the mounts, and `Accepted` says what parted, cryptsetup, mkfs, LVM, mount
and lsblk refuse. That part is external: it is what the code relies on. Two
refusals are worth knowing: `lsblk` of a mount point, which `Luks2.lock` runs, and
`umount [SWAP]`. `Placed` gives partition numbers as the commit does, entry by
entry. `Restart` runs the same layout on the machine as it is, for layouts that
wipe their devices.

Left out: sizes, `lvreduce` for boot entries, MBR limits, layouts mounted
beforehand, FIDO2, key files a kept root already has. `cryptsetup erase`, which the
code does not wait for, is part of the wipe.

### `DiskLayout` and `PartitionEditor`
`DiskLayout` is the arithmetic in sectors: the subtraction that never is negative,
alignment, the usable end, the suggestion for a single disk, and the four checks of
`DiskLayoutConfiguration.parse_arg` (`Loads`). `PartitionEditor` is the list of
`PartitioningList`: `data` mixes partitions and free stretches as on the screen,
`AsSegments` rebuilds it, and each menu action is a TLA+ action (`Create`, `Delete`,
`AssignMountpoint`, `MarkFormatting`, `MarkBootable`, `MarkType`, `SetFilesystem`,
`SetSubvolumes`, `SuggestLayout`); `Open`, `Confirm` and `Cancel` are
`manual_partitioning`, `ChooseDefault` and `Reset` the choices of the menu around
it. `AsSegments` sorts nothing: like the code, it takes the order for granted. It is
written without a loop: `Spaced` puts each partition between the space before and
behind it, and `Subsequence` keeps what is large enough, so that its result can be
reasoned about for lists of any length. `TableIsSound` says of a disk that its
partitions end behind the first MiB and start before the usable end.

Left out: mount options; what is in the subvolume menu apart from a root subvolume;
"Remove all newly added partitions", which the list is never given; sizes of
subvolumes. The file system "plain" stands for every one without a rule of its own.

### `DiskMenu`
The four items `layout`, `lvm`, `enc` and `snapshots` of the menu that is open, the
`items` of the encryption menu behind the third, and `config`, what the
configuration got when the menu was left. The menu may be opened again and again.
Python's equality and identity are both there: `id` is the identifier that
`PartitionModification` compares, `obj` tells copies apart. `Equal` is the
comparison of `_select_disk_layout_config`, with what it yields for a layout that
comes from the configuration (`kept`: it carries `btrfs_options`, and a fresh one
does not). `Apply` is the test of `FilesystemHandler._format_partitions` for each
partition, after `partition()` has noted device paths in the layout's objects.

Left out: security keys, iteration time, previews; the editor behind a manual layout,
which is `PartitionEditor` and here any of the tables `ManualTables`.

### `Command`, `CommandWorker` and `ContainerSession`
`Command` is the promise: a command runs once, and a result, if there is one, is
given once, after the command has ended and nobody can write any more, with the
whole output and the command's exit code. The atomic commands of the other modules
rely on it. `CommandWorker` is `SysCommandWorker` between a process (`child`, who
writes, asks, leaves a helper behind and ends at any time) and a caller. A call of
`poll()` is several steps (`Execute`, `Read`, `HangUp`, `TimeOut`, `CheckProcess`,
`Reap`), since the process goes on between them; `Searched` is the search of
`__contains__` with its position. The callers are `SysCommand`, the dialogues of
`Luks2._add_key` and of the two FIDO2 enrolments, and `Luks2.erase` and
`lvm_vol_create`, which answer once and leave. `ContainerSession` adds `Boot`: the
session in the class variable (`active`), entered anew, again or for another path,
the two loops that poll it, the shutdown and its failure, Ctrl-C.

The process, the terminal and the kernel's answers are external and
nondeterministic. Left out: `peak_output`, the command history, environments,
decoding, a failed `execve` (the child then goes on as a copy of the installer).

### `ConfigFiles` and `GlobalMenu`
`ConfigFiles` has no state: it is the pairs of `json()` and `parse_arg()`. A file is
a function on the keys that are in it, and for each kind of value there is what is
written and what is read (`DiskJson` and `ParsedDisk`, `AuthJson`, `ParsedAuth`, ...).
What comes back as it was written is one `plain` setting. `GlobalMenu` is a number of
runs of the installer: `Start` loads the files and refuses what the code refuses,
`items` is the menu's copy of the answers with its own defaults, `config` the
configuration, `files` what is in the two directories. `LayoutFailure` is
`validate_bootloader_layout`; the boot partition of a layout is a FAT or another
partition, or the EFI partition outside `/boot` ("efi"). `Choose(k)` stands for the
menu behind an item and leaves any value its answers can lead to; `SaveConfig`,
`SaveCreds`, `SaveAll`, `Install`, `Abort`, `Confirm` and `Refuse` are the menu and
the confirmation around it. Machines differ in the disks that are present.

Left out: previews, files from a URL, plugins, the key derivation, and the items
locale, network, applications and packages.

### `Profiles`
`selection` and `settings` are attributes of profile objects that exist once per
process; a desktop may have no greeter of its own (`GreeterOf`, which is `None` for
Awesome), and `DefaultGreeter` takes that of the first selected desktop that has one; `config` has the profile, driver and greeter that a `ProfileConfiguration`
points to; `item` is the open menu. Each menu is an action per answer: taken,
skipped, reset. `ToJson` and `Load` go through the file. `source` and `picked` are
history variables: what was saved, and whether a greeter was chosen by hand.

Left out: profiles from a URL, package lists, the installation of a profile.


## 4. The runs

### Runs that pass
- **guided_session** (`GuidedSession.cfg`): every prompt sequence, revision, loaded
  file and switch. `ModifiesOnlyWithConsent` (the refinement),
  `InstallsWhatWasConfirmed`, `OptionsMatchConfiguration`,
  `SnapshotsNeverFollowTheHooks`. Two devices and two users are what it takes
  to tell a revised answer from the first one; the six loaded files are a complete
  one, one that only describes the machine, Limine with the EFI partition outside
  `/boot`, without and with unified images (only the second can boot), Efistub with
  kernels on a partition that is not FAT, and rEFInd, which needs UEFI; ten environments
  cover every switch in each position that changes the control flow. No bound is
  needed: the state space is finite, with 304 000 states.
- **installation** (`Installation.cfg`): eight requests, in which every step is
  wanted and not wanted, each failing at every step in every way, and a second
  attempt with any of the eight on the same live medium. `TrustedAtTheEnd`,
  `UpgradeMeetsTrustedRepositories`, `ImageIsCurrent`, `GrantRevoked`, `HomeRepaired`
  and `UnattendedEnds`. The bound is `MaxAttempts = 2`: the live medium only
  gains two flags, so a third attempt meets nothing a second one does not.
- **disk_setup** (`DiskSetup.cfg`): twenty-one layouts and machines, the device failing
  at every command, two starts. `KeptPartitionsUntouched`, `MountedAsRequested`,
  `ClosedAtHandover`, `SoundLayoutsAreNotRefused`, `SetupEnds`. The layouts are the
  suggestions (ext4, btrfs, with and without encryption, LVM in each combination with
  LUKS and with btrfs, the default subvolumes taken or declined), manual layouts that
  keep, format, delete and create partitions of one disk, two disks, and machines on
  which a container is open under a name the code uses, another volume group is active,
  or an old system is mounted.
- **partition_editor** (`PartitionEditor.cfg`): `MaxEdits = 3` edits in any number of
  openings of four disks, at most `MaxListed = 5` partitions, about 335 000 states.
  `ListMatchesDisk`, `ShownSpaceIsTheFreeSpace`, `NewPartitionsStayInside` and
  `SuggestionsLoad`. A MiB has four sectors, so that lengths off the alignment and gaps
  around the buffer of one MiB occur with the typed sizes 3 and 9; the disks have 2, 70
  and 400 GiB, on both sides of the boundary for a home partition and in two of the
  three cases of the root size (the proof covers the rest); one disk has gaps before,
  between and behind partitions, so that three edits can take, give back and take
  again each of them.
- **disk_menu** (`DiskMenu.cfg`): `EncryptionFits`, `WholeGroupEncrypted`,
  `SuggestionsAreEncryptedAsSelected`, `VolumesFit`. Disks of 33 and 330 GiB, on both
  sides of every boundary of the suggestions except 500 GiB; two tables of the editor,
  with a kept ESP and with swap space and a data partition; `MaxLayouts = 3` layouts or
  volume groups, which is one to be selected on, one that replaces it, and one more.
  365 000 states.
- **container_session** (`ContainerSession.cfg`): every caller, `MaxWritten = 3` chunks
  of output (two prompts and something around them), exit codes 0, 1 and 5 (success,
  the one the code invents, and one of the command's own), helpers that keep the
  terminal, two paths and `MaxBlocks = 3` blocks: a session left behind by the first can
  be entered again and refused for another path. `Promise` (the refinement of
  `Command`), `BlockLeavesNoContainer`, `CommandsEnd`, `SessionsEnd`.
- **boot_loader** (`BootLoader.cfg`): each loader on five UEFI and three BIOS layouts,
  with every encryption, unified images, splash screen, zram, subvolumes, and the
  failures of each; two kernels. `HooksInOrder`, `CommandLineIsComplete`,
  `FinishedSystemsBoot`. Nothing is bounded but the requests.
- **saved_sessions** (`SavedSessions.cfg`): two starts with one of seven command lines,
  after an earlier run that may have left a complete configuration; three edits or
  saves; seven layouts on two disks; one kernel. Language, profile and the plain settings
  are not edited (they come with the earlier configuration). `CompleteWhenStarted`,
  `SilentRerunsAreComplete`, `ReloadKeepsTheAnswers`, `LoadedFilesAreStable`,
  `PasswordKeepsEncryption`. Three edits are enough to spoil, repair and save; two
  starts are one that saves and one that loads. 4.5 million states, the largest run.
- **profiles** (`Profiles.cfg`): four desktops, two of which ask for the access to the
  seat and one of which has no greeter of its own, a server, seven answers, saves and
  restarts, selections of at most two. `SelectionIsWhole`, `OptionsFollowTheSelection`, `LoadRestoresTheProfile`.
  737 000 states.

Some properties have a premise that leaves out what the code does not get right.
For `SoundLayoutsAreNotRefused` these are entries for deleted partitions, which are
wiped by number after the commit; partitions beside LVM; physical volumes in
containers on any device but the last; second starts with anything but plain
partitions, because swap space, open containers and active groups are not released.
`MountedAsRequested` says nothing of where a btrfs volume without subvolumes is mounted:
it never is. `ShownSpaceIsTheFreeSpace` leaves out partitions that are out of order, and
`NewPartitionsStayInside` MBR disks that get a GPT when wiped, because `_using_gpt` is
not refreshed; both are about disks whose own table is sound (`TableIsSound`).
`FinishedSystemsBoot` is about the layouts in `Intended`, the ones the
loaders' code is written for; rEFInd without a boot partition of its own needs the ESP to
be what is mounted at `/boot`. `VolumesFit` about groups of 32 GiB and more, and
`ReloadKeepsTheAnswers` names key by key what the files keep: section 7 has the rest.

### Runs that refute what the repository says
| Run | Property | What happens |
|---|---|---|
| partition_overlap | `PartitionsNeverOverlap` | A partition created behind other free space lands too late in the list, after which occupied space is offered as free |
| disk_reconfirm | `SelectedIsEncrypted` | A manual layout is confirmed again unchanged: the layout is made of copies, the encryption keeps the originals, and the partition is formatted in the clear |
| reload | `ReloadKeepsEverything` | Snapshots are never restored from a saved configuration, and a stored "no passwordless sudo" is loaded as its opposite |

The mutants show that each property of a passing run depends on the code: each
replaces one mapped definition by a plausible slip (a dropped guard, a missing
reset, a handler that skips a step), and TLC then finds the property violated.
Several mutants are definitions in the modules (`AskedBefore`, `LvmLayoutsOverlapping`,
`ConfigUkiWithoutExtra`, ...), which no specification uses.


## 5. Fairness

`Installation` and `DiskSetup` assume `WF_vars(Step)`: the program is a single thread
that goes on by itself, every command returns. Whatever needs someone else is
outside: the answer to the retry question (`Answer`), the clock and the keyring timer
(`WaitForServices`, whose loop has no bound in the code), interrupts and another start
of the program. `UnattendedEnds` therefore speaks of silent runs from the point where
the services are ready, and `SetupEnds` names the one loop that may never end, the
wait for a logical volume.

`CommandWorker` looks below "every command returns". The worker's steps and the
caller's are weakly fair, being one thread. Of the process three things are
assumed: one that was answered goes on, one that is not waiting for an answer ends,
and a container that was told to shut down ends and one that boots shows its login
prompt. A helper that a command leaves behind ends when it likes, so `CommandsEnd`
promises an end only where nobody keeps the terminal, and where a dialogue answers
what is asked. A container may die before its prompt (`Booted` then sees the end
of the session), which `SessionsEnd` includes.

The menus (`GuidedSession`, `PartitionEditor`, `DiskMenu`, `GlobalMenu`, `Profiles`)
have no liveness properties: a user may leave a prompt open for ever. `BootLoader` is
a line of steps that ends by construction.


## 6. The proofs

### `GuidedSessionProofs`
For any disks, users, layouts, loaded configurations and environments that satisfy
`SessionAssumption` (loaded files have neither mode nor options, because the loader
reads neither; a silent run has a configuration; `None` is none of the values).
The invariant `IInv` is `TypeOK` with three parts. `AnswersInOrder`: the answers that
the prompt reached already has are there, which is what makes the assembled
configuration complete. `OptionsInv`: options in the configuration agree with its
profile, packages, user and layout at every point, not only at the confirmation, since
a second pass starts from them. `ConsentInv`: consent and devices are empty before the
confirmation and match the configuration after it. From it follow `TypeCorrect`,
`ConfirmedIsInstalled`, `DryRunIsDry`, `OptionsAgree`, `NoSnapshotsAfterHooks` and
`Implements`, the refinement of `InstallConsent`: every step is `Agree`, `Modify` or
a stutter of the mapped variables. `DryRunIsDry` is stated and proved here only.

### `InstallationProofs`
For any requests allowed by `InstallationAssumption` and any number of attempts.
`Order` and `FollowType` are the facts about the line of steps that the steps of the
proof cite. `IInv` is `TypeOK` with `RepositoriesInv` (between the base transaction
and the upgrade nothing wipes the trust), `ImageInv` (which hooks the configuration
and the image must have at each point of the line, unless a build failed) and
`DotfilesInv` (where the sudo rule can exist and where the home directory can have
foreign files). `TrustSurvives`, `UpgradeIsReady`, `ImageCurrent`, `GrantIsTemporary`
and `HomeIsRepaired` follow. The last two are about exceptional paths: every
exception out of every step of the deployment is a case of the proof.

`InstallationAssumption` allows snapshots and hooks only apart. This is no further
assumption on the code: it is `SnapshotsNeverFollowTheHooks`, proved for the session
that makes the requests. Without it `TrustedAtTheEnd` is false.

### `DiskSetupProofs`
For any legal layout, any machine that has the kept partitions (`MachinesAssumption`),
whatever is open or mounted there, and any number of attempts. A command writes to the
device of an item, under the number the item has, or into the container that is open
under the item's name, and both can go wrong: numbers are given away again while
entries are processed, and `is_unlocked` looks at the name of a container only.

First the line. `Command` is the set of commands a layout can lead to, and none of
those that write is about a kept partition. `Through` names the items whose containers
a command writes into, `Opens` what a command opens, `Moves` the commands that give
items new numbers and names with them. A line is `Safe` if every container that is
written into was opened by the line before, on the item itself and under the name that
it still has. Safe lines can be joined (`SafeJoined`), so one lemma per method
(`FormatPartitionsType`, `LvmOperationsType`, `MountLayoutType`, ...) leads to
`CommandsType`: the line of every legal layout is safe. It is here that the order of the
code matters: a container is opened before it is formatted or mounted, under the name
that its item then has. The order of mount points and of numbers is there, too, since
`Sorted` chooses elements by their rank: `Ranks` shows by counting that in a strict order
every rank has its element.

Then the machine. `PlacedOk` follows `_setup_partition` through the entries of a device:
the numbers of kept partitions stay in use, so that none is given to another item. The
inductive invariant `IInv` says that partitions and items keep to these names
(`NamesOk`), that no name below `/dev/mapper` is a partition's, and that the rest of the
line is `Secured`: safe, where containers that lie on no guarded partition may be open
already. `Stepped` is the step all actions share: what is left of a secured line is
secured (`SecuredTail`). `LineStaysSecured` is the invariant, and
`KeptPartitionsStayUntouched` the action property. TLC checked the invariant on the
layouts of the run before it was proved.

The types of `Layout` come from the classes of `models/device.py`; the assumption that
`Nowhere` is no number, and that "ainst" is no device, tells paths apart. The order of
the restarts needs no assumption: the line that a start computes is safe on any machine.

### `MenuProofs`: the layout editor
For any sector size (`MiB \in Nat \ {0}`) and any disk that holds the boot partition
and two MiB more (`DisksAssumption`). Division and remainder by a product of two
variables are beyond the SMT solver, so the first lemmas state what alignment does
once and for all (`AlignRoundsDown`, `SumsOfMultiples`, `MultiplesOfGiB`).
`OrderedLayoutsLoad`: any sequence of aligned new partitions in order between the
first MiB and the usable end passes the checks of `parse_arg`, however long it is.
`RootSizeFacts` shows that the suggested root ends before the usable end in each of
the three cases. `SuggestionLoads` puts these together, and `SuggestionsAlwaysLoad`
states it for the editor's specification.

The rest is about the list, for any typed sizes (`SizesAssumption`), any number of
edits and openings, and any partitions on the disk. `EditorInv` has the types
(`EditorTypes`), `LayoutIsSound` for the layout that is kept between two openings, and
for the open list `ListIsSound`: the table kind shown is one this disk can have
(`KindFits`); every partition of the disk is listed exactly once, and each new one lies
where it may (`Sound`); the free stretches are the ones between neighbours that are
larger than the buffer (`FreeIsBetween`). None of the three properties is inductive
without the others: a partition is created inside a stretch that is shown, so its
place is right because the stretches are, and the stretches are right because
`as_segments` rebuilt them from a list that had every partition. The list is not always
rebuilt, and it need not be in order: the invariant holds of it all the same, because
`Neighbours` speaks of places in the list and the properties of the order on the disk
have it as a premise. `SubsequenceFacts` and `SegmentsOf` are the two
facts about lists the proofs go back to (what `Subsequence` keeps, in which order, and
what `AsSegments` makes of it), `FreshIdType` is a pigeonhole argument that a new number
is new, and each action has a lemma. `NewPartitionsAlwaysStayInside`,
`ListAlwaysMatchesDisk` and `ShownSpaceIsAlwaysFree` follow.

### `DiskMenuProofs`
For any disks of any size, any tables of the editor and any number of layouts.
`Fits` says of a layout, an LVM and an encryption that they belong together; `IInv`
says it of the items of the open menu and of the configuration, and `ItemsFit` says
of the encryption menu what will make it fit when it is left. Neither property is
inductive alone: the menu is left with what was in it. The step that needs an
argument is `Choose` with an equal layout, which keeps LVM and encryption.
`SuggestionsDiffer` shows that a suggestion is never equal to an earlier one, because
its identifiers are new, so that with LVM (which only suggestions have) nothing is
kept; without it, `SelectableOnCopies` carries the selection over. `WholeGroup`
counts: of two partitions one is for booting, so the group is the other one, and so is
the selection. `MenuLeavesWhatFits`, `GroupsAreEncryptedWhole` and
`SelectionIsEncrypted` follow. `SuggestedVolumesFitTheGroup` adds the sizes: a suggested
group is one partition, two volumes divide it, and the fold that sums them is unfolded
for one and for two elements (`OneSize`, `TwoSizes`); `SizesInv` carries this from the
suggestion into the open menu and the configuration.

### `BootLoaderProofs`
For any requests. The parameters are complete once `setup_swap()` and the splash
screen are through, and they are written after that: by `ConfigUki` on the command line
of the unified images (`UnifiedInv`) and by the loaders (`EntriesInv`), for each of
which `ImagesKeep` or `UnifiedKeep` is cited. `CommandLinesAreComplete` follows.

`HooksInv` says of the list of hooks, at every step after `Prepare`, that each hook is
there once and in order (`HooksFit`) and that it can open the root (`HooksOpen`). The
lemmas before it say what each of the places that change the list does to any list of
that kind (`EncryptKeepsOrder`, `PlymouthKeepsOrder`, `RenamingKeepsOrder`), so that
the order in which they are reached does not matter; `HooksStayInOrder` follows.
`BootInv` follows the images: whatever was built without a report has hooks that fit
(`ImagesInv`), a root and a boot partition were found before a loader changes
anything (`FoundInv`), the installer's note of a loader is made last (`HelperInv`), and
what a loader wrote starts every kernel (`BootsInv`), with one lemma for each loader.
`FinishedSystemsDoBoot` follows.

### `ContainerSessionProofs`
For any exit codes, any amount of output and any number of blocks, for all callers at
once. `IInv` has, beside the types, `TerminalInv` (the trace followed by what is unread is
what was written, and when the worker has ended nobody holds the terminal and nothing
is unread), `ChildInv`, `StepInv` (what a `poll()` under way has seen so far is still
so), `CallerInv` (nobody but a container polls after the end) and `BlockInv` (what the
session says of the container at each point of a block). `NoContainerIsLeft` follows,
and `WorkerKeepsThePromise`: every step of the worker, the process and the caller is a
step of `Command` or a stutter.

### `GlobalMenuProofs`
For any disks, layouts, kernels, command lines, earlier configurations and number of
runs. The round trip of the files is one equation, `Reloaded`: reading what was
written gives the configuration with each field changed in a way that depends on that
field alone. `ReloadedIsStable` is that
writing and loading a loaded configuration changes nothing more. The invariant adds to the types that the
menu's boot loader is never `None` (which the code compares without asking), that what was
loaded is what the files say (`LoadedInv`), and where each step's configuration comes
from (`PathInv`). `InstalledIsComplete`, `LoadingIsStable`, `EncryptionSurvives`,
`AnswersAreReloaded` and `SilentRunsAreComplete` follow.

### `MenuProofs`: the profile menu
For any desktops, with greeters of their own or without, any servers, greeters and
drivers, and any number of answers. The
properties speak of the configuration at rest; the invariant carries `Only` (no other
profile has a selection) and `Fits` (driver and greeter go with the selection) from there
into the open menu and into the file, and back, with `SeatsAnswered` at every point.
`SelectionStaysWhole`, `OptionsFollow` and `SavedProfileComesBack` follow.

### What is only model-checked
Of `DiskSetup` the invariants `MountedAsRequested`, `ClosedAtHandover` and
`SoundLayoutsAreNotRefused`: they say what the commands leave behind, and for which
layouts the machine accepts all of them, and need an invariant over the commands still
to run that simulates the machine. The refuting runs, which TLC settles. Out of the
prover's reach are the liveness properties (`UnattendedEnds`, `SetupEnds`, `CommandsEnd`,
`SessionsEnd`: fairness and `ENABLED`). The type invariants of
`GuidedSession`, `Installation`, `CommandWorker`, `GlobalMenu`, `Profiles` and `PartitionEditor` are proved instead of run; those of
`BootLoader` and `DiskSetup` are stated for the reader.


## 7. What the modelling found

The three refuting runs are in section 4. The rest was met while reading or with runs
that are not kept; each is what the modules do, so the models stay faithful to it.

Against what the repository says:
- With `--config`, a refused confirmation is shown again at once (`scripts/guided.py:242`);
  the comment above `main` (230-231) says every answer can be revised.
- `read_march_native` and the mirror probe with reflector raise `RequirementError`, which
  their callers do not catch (`preset/cachyos.py:151`, against 146-147;
  `preset/mirrors.py:40`). The session ends.
- Swap that a file disables is turned on by the "defaults when the user did not choose"
  (`preset/builder.py:102`, against 96-97).
- A suggested btrfs volume group without the default subvolumes is never mounted: its
  volumes have a mount point, which `_mount_lvm_vol` and `_mount_luks_volume` do not look
  at (`lib/installer.py:399` and 424, against 304-305; `lib/disk/disk_menu.py:824-878`),
  and the installation goes into the directory below. TLC shows it on the two bare
  layouts of `MCDiskSetup` once the premise `~Bare(x)` is dropped.
- A failing package transaction of the dotfiles aborts the installation:
  `Pacman.ask` raises `RequirementError`, and `deploy` catches `SysCallError`
  (`preset/dotfiles.py:241` and 275, against `docs/fork/dotfiles.rst:71-74`).
- A second attempt without CachyOS copies the live `pacman.conf` that the first one
  changed (`preset/cachyos.py:311`, against 297 and `preset/wizard.py:176-177`).
- `/home` of a second disk is mounted over `/home/data` of the first
  (`lib/installer.py:301`, against 304).
- A helper that keeps the terminal open keeps `SysCommand` polling after its command
  has ended (`lib/command.py:176`, against 277).
- `validate_bootloader_layout` accepts layouts that do not boot
  (`lib/bootloader/utils.py:23`), such as unified
  images with Efistub and a separate boot partition.
- rEFInd's entries name images at `/boot` of the root file system when there is no boot
  partition besides the ESP (`lib/installer.py:1721`). That is false when a FAT partition
  without a flag is mounted at `/boot` beside a bootable ESP.
- A silent run installs a system nobody can log into (`scripts/guided.py:247`, against
  `docs/installing/guided.rst`).

Commands and containers:
- A worker that is polled after its end gets the exit code 1. `Boot.__exit__` does it,
  so `shutdown_exit_code == 0` never holds, and a dead session stays in the class
  variable and raises `KeyError` for any other path.
- Ctrl-C between the two loops leaves the container running; when the shutdown command
  fails while the container runs, the program waits for it for ever.
- `lvm_vol_create` and `Luks2.erase` write their answer to a terminal that may be gone
  (`EIO`); `_add_key` answers the first prompt only; `fido2_enroll` ignores the exit code;
  the U2F enrolment takes the first line of an output that may be empty.

Disk menu:
- Resetting the type of the encryption and leaving the menu fails an assertion, and
  switching the type with volumes selected raises `ValueError`. Skipping the password
  question drops the encryption without a word.
- The value of the snapshots item outlives its layout. A layout from the configuration
  that is chosen again unchanged compares unequal, since `btrfs_options` is set, and
  takes LVM and encryption with it.
- With several disks a root below 32 GiB is accepted, and on a volume group below
  32 GiB the suggested volumes are larger than the group.

Layout editor:
- Behind a partition that ends before the first MiB, or before one that starts behind the
  usable end, the editor offers space outside the usable range
  (`lib/disk/partitioning_menu.py:144`).

Configuration files:
- The language is written as `archinstall_language` and read as `archinstall-language`
  (`lib/args.py:272`); mode and preset are not written; a host name that was reset
  comes back as `archlinux`; a layout mounted beforehand keeps only its mount point.
- An encrypted layout is loaded without its encryption when the credentials are not
  given. Disks that are missing are skipped without a word, unless they are encrypted,
  which raises `ValueError`.
- A typed length is saved as it is and refused as misaligned when it is loaded; "No
  bootloader" is refused without `--skip-boot`; visiting the U2F item without a device
  clears its setup.
- `_missing_configs` asks for a greeter by the profile's default (`lib/global_menu.py:222`).

Profiles:
- Entering the type menu again and skipping it resets driver and greeter. Whether the
  greeter item is shown depends on the graphics driver (`lib/profile/profile_menu.py:54`),
  so an Xorg profile that is opened again can be given a greeter it does not use.
- `set_custom_settings` is never called, although its docstring says it is when a file is
  parsed (`default_profiles/profile.py:143`).

Mirrors, which are not modelled: the custom repositories are appended to `pacman.conf` on
every call of `set_mirrors` and on every attempt; the last entry of a custom list cannot
be deleted; renaming a repository can make two of one name.

Hazards that no property covers: `lib/installer.py:194` polls the clock and the keyring
timer without a limit, which the model makes an unfair step; `preset/cachyos.py:316`
writes `pacman.conf` before the mirror lists it includes; `lib/disk/luks.py:39` starts an
erase that nobody waits for; `lib/disk/device_handler.py:563` wipes entries of deleted
partitions, by number, after the commit.
