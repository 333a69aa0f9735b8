------------------------------ MODULE GlobalMenu ------------------------------
(***************************************************************************)
(* Runs of the installer with the granular menu (--advanced) or without    *)
(* any (--silent), over the files they leave and load: lib/global_menu.py, *)
(* lib/menu/abstract_menu.py, the menus behind the items, lib/args.py,     *)
(* lib/configuration.py and main of scripts/guided.py.                     *)
(*                                                                         *)
(* A menu behind an item is one action: it leaves one of the values its    *)
(* answers can lead to.  The menu keeps its own copy of the configuration  *)
(* (items); the configuration itself is written when the user saves,       *)
(* installs or moves to Install.  Module DiskMenu details the disk item,   *)
(* module GuidedSession the linear prompts and the start of the            *)
(* installation.                                                           *)
(***************************************************************************)
EXTENDS ConfigFiles, Naturals

CONSTANTS
  Layouts,     \* layouts the disk menu can make
  Runs,        \* command lines the installer is started with
  Earlier,     \* configurations that were saved, completely, before the first run
  Uefi,        \* the machine's firmware
  Keys,        \* bound: the items that are changed
  MaxSessions, \* bound: starts of the installer
  MaxEdits     \* bound: items that are changed and files that are saved

Dirs == {"log", "dest"}

Arguments ==
  [config : Dirs \cup {None}, creds : BOOLEAN, key : {"right", "wrong", "asked"},
   silent : BOOLEAN, dry_run : BOOLEAN, skip_boot : BOOLEAN,
   present : SUBSET Devices]

ASSUME GlobalMenuAssumption ==
  /\ Layouts \subseteq {d \in AnyLayout : d.subvols # "str" /\ d.disks # {}}
  \* _parse_args: no silent run without a configuration
  /\ Runs \subseteq {r \in Arguments : r.silent => r.config # None}
  /\ Uefi \in BOOLEAN
  /\ Keys \subseteq DOMAIN ArchConfig
  /\ Earlier \subseteq Config
  /\ None \notin Dirs \cup AnyLayout \cup BootConfig \cup Auth \cup Profile
  /\ None \notin Config \cup [Plain -> {"default", "chosen"}]
  /\ \A k \in SUBSET Kernels : k # None

ASSUME BoundsAssumption == MaxSessions \in Nat /\ MaxEdits \in Nat

VARIABLES
  pc,      \* "shell", "open", "menu", "main", "confirm" or "install"
  args,    \* the arguments of the run
  items,   \* the values of the menu's items
  config,  \* arch_config_handler.config
  files,   \* user_configuration.json per directory, user_credentials.json in "dest"
  opened,  \* history: the loaded configuration and what its files were written from
  edits, sessions

vars == <<pc, args, items, config, files, opened, edits, sessions>>

\* A file is kept with the configuration it was written from.
NotOpened == [config |-> ArchConfig, file |-> None, creds |-> None]
NoFiles == [config |-> [d \in Dirs |-> None], creds |-> None]

-----------------------------------------------------------------------------
(* Validity *)

\* validate_bootloader_layout: the firmware, the file system of the kernels and,
\* without unified images, their place.
LayoutFailure(b, d) ==
  /\ b # None /\ d # None
  /\ \/ b.bootloader \in UefiOnly /\ ~Uefi
     \/ b.bootloader \in {"Efistub", "Limine"} /\ d.boot = "ext4"
     \/ b.bootloader = "Limine" /\ ~b.uki /\ d.boot = "efi"

\* _validate_bootloader.  A layout with disks has its root on one of them; the
\* EFI partition is the boot partition, or a separate one beside an ext4 one.
BootloaderValid(i) ==
  i.bootloader_config # None =>
    (i.bootloader_config.bootloader # "NoBootloader" =>
       /\ i.disk_config # None
       /\ i.disk_config.disks # {}
       /\ i.disk_config.boot # "none"
       /\ ~LayoutFailure(i.bootloader_config, i.disk_config))

HasLogin(a) == a # None /\ (a.root \/ a.users = "sudo")
HasUser(a)  == a # None /\ a.users # "none"

\* _missing_configs; the greeter that is looked at is the selection's default.
NothingMissing(i) ==
  /\ HasLogin(i.auth_config)
  /\ i.profile_config # None => (i.profile_config.default = "sddm" => HasUser(i.auth_config))
  /\ i.disk_config # None
  /\ i.kernels # {}

\* Mutant of IsConfigValid: the configuration is checked, not the items.
ConfigIsValid(i) == NothingMissing(config) /\ BootloaderValid(config)

IsConfigValid(i) == NothingMissing(i) /\ BootloaderValid(i)

-----------------------------------------------------------------------------
(* Items *)

DefaultLoader(skip) ==
  IF skip THEN "NoBootloader" ELSE IF Uefi THEN "Systemd" ELSE "Grub"

UkiSupport(l)       == Uefi /\ l # "NoBootloader"
RemovableSupport(l) == Uefi /\ l \in {"Grub", "Limine"}

\* BootloaderConfiguration.get_default.
DefaultBoot(skip) ==
  LET l == DefaultLoader(skip)
  IN [bootloader |-> l, uki |-> UkiSupport(l), removable |-> RemovableSupport(l)]

\* _get_menu_options: what an item starts with.
ItemDefaults ==
  [archinstall_language |-> None, hostname |-> "archlinux", kernels |-> {"linux"},
   disk_config |-> None, bootloader_config |-> DefaultBoot(args.skip_boot),
   auth_config |-> None, profile_config |-> None,
   plain |-> [p \in Plain |-> "default"]]

\* _sync_from_config of a menu whose items start with these values.
SyncFromConfig(defaults, c) ==
  [k \in DOMAIN c |-> IF c[k] # None THEN c[k] ELSE defaults[k]]

LoadersOffered ==
  IF Uefi THEN Loaders \ (IF args.skip_boot THEN {} ELSE {"NoBootloader"})
  ELSE {"Grub", "Limine"}

\* BootloaderMenu: any of the boot loaders or the one that is set, with any of
\* the options it supports; an option it does not support is turned off, by
\* _define_menu_options if the loader is not even chosen anew.
BootAnswers(b) ==
  {x \in BootConfig : /\ x.bootloader \in LoadersOffered \cup {b.bootloader}
                      /\ x.uki => UkiSupport(x.bootloader)
                      /\ x.removable => RemovableSupport(x.bootloader)}

\* DiskLayoutConfigurationMenu: reset, a new layout, or another encryption or
\* snapshot setting for the one that is there.
LayoutAnswers(d) ==
  {None} \cup Layouts \cup
  (IF d = None \/ d.config_type = "pre_mounted" THEN {}
   ELSE {[d EXCEPT !.encrypted = e] : e \in {{}, d.disks}} \cup
        {[d EXCEPT !.snapshots = HasDefaultVols(d)]})

\* The menus behind the other items: Reset, and every answer.
LanguageAnswers == {"en", "de"}
HostnameAnswers == {None, "chosen"}
KernelAnswers   == SUBSET Kernels
ProfileAnswers  == Profile \cup {None}
PlainAnswers    == [Plain -> {"default", "chosen"}]

\* AuthenticationMenu: a root password or none, a list of users (the users menu
\* may leave none), and a U2F login, which is None again when no device is found.
AuthAnswers == Auth \cup {None}

Answers(k) ==
  CASE k = "archinstall_language" -> LanguageAnswers
    [] k = "hostname"             -> HostnameAnswers
    [] k = "kernels"              -> KernelAnswers
    [] k = "disk_config"          -> LayoutAnswers(items.disk_config)
    [] k = "bootloader_config"    -> BootAnswers(items.bootloader_config)
    [] k = "auth_config"          -> AuthAnswers
    [] k = "profile_config"       -> ProfileAnswers
    [] k = "plain"                -> PlainAnswers

-----------------------------------------------------------------------------
(* Actions *)

Init ==
  /\ pc = "shell"
  /\ args \in Runs
  /\ config = ArchConfig
  /\ items = ArchConfig
  /\ \/ files = NoFiles
     \/ \E c \in Earlier :
          files = [config |-> [d \in Dirs |-> c], creds |-> [of |-> c, encrypted |-> FALSE]]
  /\ opened = NotOpened
  /\ edits = 0
  /\ sessions = 0

\* The process ends; its memory is gone.
Exit ==
  /\ pc' = "shell"
  /\ items' = ArchConfig /\ config' = ArchConfig /\ opened' = NotOpened
  /\ UNCHANGED <<args, edits, sessions>>

\* ArchConfigHandler: the arguments, the files they name and the key of the
\* credentials; asked for it, the user enters the right one in the end.
Start(r) ==
  /\ pc = "shell" /\ sessions < MaxSessions
  /\ r.config # None => files.config[r.config] # None
  /\ r.creds => files.creds # None
  /\ args' = r
  /\ sessions' = sessions + 1
  /\ LET f == IF r.config = None THEN [k \in {} |-> None]
              ELSE SafeConfig(files.config[r.config])
         c == IF r.creds THEN UnsafeConfig(files.creds.of) ELSE NoCreds
     IN IF \/ r.creds /\ files.creds.encrypted /\ r.key = "wrong"
           \/ Refused(f, c, r.present, r.skip_boot)
        THEN UNCHANGED <<pc, config, opened>>
        ELSE /\ config' = FromConfig(f, c, r.present)
             /\ opened' = [config |-> config',
                            file |-> IF r.config = None THEN None ELSE files.config[r.config],
                            creds |-> IF r.creds THEN files.creds.of ELSE None]
             /\ pc' = IF r.silent THEN "main" ELSE "open"
  /\ UNCHANGED <<items, files, edits>>

\* show_menu: GlobalMenu.__init__ and show.
OpenMenu ==
  /\ pc = "open"
  /\ pc' = "menu"
  /\ items' = SyncFromConfig(ItemDefaults, config)
  /\ UNCHANGED <<args, config, files, opened, edits, sessions>>

Choose(k) ==
  /\ pc = "menu" /\ edits < MaxEdits
  /\ \E v \in Answers(k) : v # items[k] /\ items' = [items EXCEPT ![k] = v]
  /\ edits' = edits + 1
  /\ UNCHANGED <<pc, args, config, files, opened, sessions>>

\* _prev_install_invalid_config.
FocusInstall ==
  /\ pc = "menu"
  /\ config' = items
  /\ UNCHANGED <<pc, args, items, files, opened, edits, sessions>>

\* _safe_config and save_config.
SaveConfig ==
  /\ pc = "menu" /\ edits < MaxEdits
  /\ config' = items
  /\ files' = [files EXCEPT !.config["dest"] = items]
  /\ edits' = edits + 1
  /\ UNCHANGED <<pc, args, items, opened, sessions>>

SaveCreds(encrypted) ==
  /\ pc = "menu" /\ edits < MaxEdits
  /\ config' = items
  /\ files' = [files EXCEPT !.creds = [of |-> items, encrypted |-> encrypted]]
  /\ edits' = edits + 1
  /\ UNCHANGED <<pc, args, items, opened, sessions>>

SaveAll(encrypted) ==
  /\ pc = "menu" /\ edits < MaxEdits
  /\ config' = items
  /\ files' = [files EXCEPT !.config["dest"] = items,
                            !.creds = [of |-> items, encrypted |-> encrypted]]
  /\ edits' = edits + 1
  /\ UNCHANGED <<pc, args, items, opened, sessions>>

Install ==
  /\ pc = "menu"
  /\ IsConfigValid(items)
  /\ config' = items
  /\ pc' = "main"
  /\ UNCHANGED <<args, items, files, opened, edits, sessions>>

\* The menu returns None and show_menu ends the process.
Abort ==
  /\ pc = "menu"
  /\ Exit
  /\ UNCHANGED files

\* main: config.save without credentials, the safety net and the dry run.
Main ==
  /\ pc = "main"
  /\ files' = [files EXCEPT !.config["log"] = config]
  /\ IF args.dry_run \/ LayoutFailure(config.bootloader_config, config.disk_config)
     THEN Exit
     ELSE /\ pc' = IF args.silent THEN "install" ELSE "confirm"
          /\ UNCHANGED <<args, items, config, opened, edits, sessions>>

Confirm ==
  /\ pc = "confirm"
  /\ pc' = "install"
  /\ UNCHANGED <<args, items, config, files, opened, edits, sessions>>

\* A refusal calls main with the same handler, which opens the menu again.
Refuse ==
  /\ pc = "confirm"
  /\ pc' = "open"
  /\ UNCHANGED <<args, items, config, files, opened, edits, sessions>>

\* The installation, and the end of the process.
Installed ==
  /\ pc = "install"
  /\ Exit
  /\ UNCHANGED files

Next ==
  \/ \E r \in Runs : Start(r)
  \/ OpenMenu
  \/ \E k \in Keys : Choose(k)
  \/ FocusInstall
  \/ SaveConfig
  \/ \E e \in BOOLEAN : SaveCreds(e) \/ SaveAll(e)
  \/ Install \/ Abort \/ Main \/ Confirm \/ Refuse \/ Installed

Spec == Init /\ [][Next]_vars

-----------------------------------------------------------------------------
(* Properties *)

\* The variables keep their types: an item is None only where the code allows
\* it, and a run that is silent has no menu (args.py, _parse_args).
TypeOK ==
  /\ pc \in {"shell", "open", "menu", "main", "confirm", "install"}
  /\ args \in Runs
  /\ items \in Config /\ config \in Config
  /\ opened \in [config : Config, file : Config \cup {None}, creds : Config \cup {None}]
  /\ files \in [config : [Dirs -> Config \cup {None}],
                creds : [of : Config, encrypted : BOOLEAN] \cup {None}]
  /\ edits \in 0..MaxEdits /\ sessions \in 0..MaxSessions
  /\ pc \in {"open", "menu", "confirm"} => ~args.silent

\* What an installation needs: somewhere to install to, a kernel, a boot loader
\* that can read it and somebody who can administer it.
Complete(c) ==
  /\ c.disk_config # None /\ c.kernels # {}
  /\ HasLogin(c.auth_config)
  /\ BootloaderValid(c)

\* An installation that was started from the menu has a complete configuration,
\* whatever was loaded, reset, refused and changed before (global_menu.py:241,
\* abstract_menu.py:85).
CompleteWhenStarted ==
  pc \in {"confirm", "install"} /\ ~args.silent => Complete(config)

\* The configuration that both files of the run were written from.
Source == IF opened.creds = opened.file THEN opened.file ELSE None

AllThere(c) == c.disk_config = None \/ c.disk_config.disks \subseteq args.present

\* A silent run over the files of a complete configuration installs a complete
\* one: nothing that makes it complete is lost on the way through the files
\* (args.py:184-216, 263-386).  main writes the log directory's file itself.
SilentRerunsAreComplete ==
  pc = "install" /\ args.silent /\ Source # None =>
    (Complete(Source) /\ AllThere(Source) => Complete(config))

\* Loading the files that were written of a configuration gives its answers
\* back: disks, encryption, boot loader, profile, accounts, kernels and the plain
\* settings (args.py, from_config against safe_config and unsafe_config).
ReloadKeepsTheAnswers ==
  pc \in {"open", "main"} /\ Source # None /\ AllThere(Source) =>
    /\ opened.config.plain = Source.plain
    /\ opened.config.kernels = Source.kernels \/ Source.kernels = {}
    /\ opened.config.bootloader_config = Source.bootloader_config
    /\ opened.config.profile_config = Source.profile_config
    /\ HasLogin(opened.config.auth_config) = HasLogin(Source.auth_config)
    /\ HasUser(opened.config.auth_config) = HasUser(Source.auth_config)
    /\ Source.disk_config = None => opened.config.disk_config = None
    /\ Source.disk_config # None =>
         /\ opened.config.disk_config # None
         /\ opened.config.disk_config.disks = Source.disk_config.disks
         /\ opened.config.disk_config.boot = Source.disk_config.boot
         /\ opened.config.disk_config.encrypted = LayoutJson(Source.disk_config).encrypted

\* Whatever a load drops or changes, it does so once: the files of a loaded
\* configuration load as that configuration (hostname, U2F, snapshots, names of
\* subvolumes, encryption without its password; models/*.py).
LoadedFilesAreStable ==
  pc \in {"open", "main"} =>
    FromConfig(SafeConfig(opened.config), UnsafeConfig(opened.config), args.present)
      = opened.config

\* With the password at hand an encrypted layout is loaded encrypted on every
\* disk that is there, or not at all; without its disks the run ends instead of
\* going on in the clear (models/device.py:1489, 1541).
PasswordKeepsEncryption ==
  pc \in {"open", "main"} /\ opened.file # None /\ opened.creds # None =>
    (opened.file.disk_config # None /\ UnsafeConfig(opened.creds).password =>
     LET j == LayoutJson(opened.file.disk_config)
     IN /\ j.encrypted # {} => opened.config.disk_config.encrypted # {}
        /\ opened.config.disk_config.encrypted = j.encrypted \cap args.present)

\* Reloaded answers are installed as they were given, snapshots and U2F logins
\* included ("This can be a quick and convenient way to re-run one or several
\* installations", docs/installing/guided.rst).
ReloadKeepsEverything ==
  pc \in {"open", "main"} /\ Source # None /\ AllThere(Source) =>
    /\ Source.disk_config # None =>
         (Source.disk_config.snapshots => opened.config.disk_config.snapshots)
    /\ Source.auth_config # None /\ opened.config.auth_config # None =>
         opened.config.auth_config.u2f = Source.auth_config.u2f

================================================================================
