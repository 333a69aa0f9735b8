---------------------------- MODULE GuidedSession ----------------------------
(***************************************************************************)
(* One run of the guided script, from the entry question to the end of the *)
(* installation: scripts/guided.py (main), preset/flow.py, the prompts of  *)
(* preset/wizard.py and the assembly of preset/builder.py.                 *)
(*                                                                         *)
(* The configuration is kept as the few fields the control flow reads or   *)
(* that a later answer can make inconsistent with an earlier one.  One     *)
(* action per prompt, in the order the code asks them; leaving a prompt    *)
(* ends the process.  The disk operations and the installation itself are  *)
(* single steps here (module Installation details the installation).       *)
(***************************************************************************)
CONSTANTS
  Disks,          \* block devices
  Users,          \* user names that can be entered
  Layouts,        \* disk layouts a configuration file or the menu can hold
  LoadedConfigs,  \* configurations --config / --config-url can load
  Environments,   \* command line switches and properties of the machine
  None            \* Python's None

Modes    == {"Preset", "Custom"}
Desktops == {"Hyprland", "KDE", "Minimal"}
Greeters == {"Greetd", "Sddm"}
Suites   == {"Ambxst"}            \* dotfile suites
Levels   == {"Generic", "V3"}     \* CachyOS repository levels
Loaders  == {"Systemd", "Grub", "Efistub", "Limine", "Refind", "NoBootloader"}
UefiOnly == {"Systemd", "Efistub", "Refind"}

\* kind "btrfs" may carry a snapshot tool; a "premount" layout is mounted by
\* the user; boot is the partition the kernels are put on: the EFI system partition,
\* which esp tells the mount point of, another one, FAT or not, or none of their own.
AnyLayout == [dev : Disks, kind : {"ext4", "btrfs", "premount"}, snapshots : BOOLEAN,
              boot : {"esp", "fat", "other", "none"}, esp : {"/boot", "/efi"}]

\* PresetOptions: what drives the fork's hooks during the installation.
Options == [mode : Modes, desktop : Desktops, dotfiles : Suites \cup {None},
            greeter : Greeters \cup {None}, cachyos : Levels \cup {None}]

Profile == [desktop : Desktops, greeter : Greeters \cup {None}]

\* ArchConfig, reduced.
Config == [mode : Modes \cup {None}, disk : AnyLayout \cup {None},
           profile : Profile \cup {None}, preset : Options \cup {None},
           mirrors : {"ISO", "ranked"}, swap : {"on", "off"} \cup {None},
           user : Users \cup {None}, packages : SUBSET {"driver", "git", "own"},
           loader : Loaders \cup {None}, uki : BOOLEAN]

Environment == [silent : BOOLEAN, advanced : BOOLEAN, dryRun : BOOLEAN,
                source : {"none", "file", "url"}, skipBoot : BOOLEAN,
                uefi : BOOLEAN, gcc : BOOLEAN, level : Levels]

ASSUME SessionAssumption ==
  /\ Layouts \subseteq AnyLayout
  /\ LoadedConfigs \subseteq {c \in Config : c.mode = None /\ c.preset = None}
  \* _parse_args: a run without a configuration is never silent
  /\ Environments \subseteq {e \in Environment : e.silent => e.source # "none"}
  /\ None \notin AnyLayout \cup Config \cup Options \cup Profile
  /\ None \notin Modes \cup Desktops \cup Greeters \cup Suites \cup Levels
  /\ None \notin Loaders \cup Users \cup {"on", "off"}

VARIABLES
  env,        \* fixed for the run
  pc,         \* where the control is
  cfg,        \* arch_config_handler.config
  ans,        \* answers of the prompt sequence that is running
  recollect,  \* the prompts are a second pass after a refused confirmation
  consent,    \* the configuration the user confirmed (or ran silently), or None
  touched     \* devices modified so far

vars == <<env, pc, cfg, ans, recollect, consent, touched>>

NoAnswers == [user |-> None, disk |-> None, desktop |-> None, dotfiles |-> None,
              greeter |-> None, cachyos |-> None, mirrors |-> "ISO"]

\* ArchConfig() with no configuration file.
BlankConfig == [mode |-> None, disk |-> None, profile |-> None, preset |-> None,
                mirrors |-> "ISO", swap |-> None, user |-> None,
                packages |-> {}, loader |-> None, uki |-> FALSE]

Init ==
  /\ env \in Environments
  /\ pc = "main"
  /\ IF env.source = "none" THEN cfg = BlankConfig ELSE cfg \in LoadedConfigs
  /\ ans = NoAnswers
  /\ recollect = FALSE
  /\ consent = None
  /\ touched = {}

Goto(from, to) == pc = from /\ pc' = to

-----------------------------------------------------------------------------
(* Helpers *)

DefaultLoader == IF env.skipBoot THEN "NoBootloader"
                 ELSE IF env.uefi THEN "Systemd" ELSE "Grub"

\* apply_opinionated_defaults: zram swap and a boot loader, on UEFI with unified
\* kernel images.
WithDefaults(c) ==
  [c EXCEPT !.loader = IF @ = None THEN DefaultLoader ELSE @,
            !.uki    = IF c.loader = None THEN env.uefi /\ ~env.skipBoot ELSE @,
            !.swap   = IF @ # "on" THEN "on" ELSE @]

Recommended(desktop) ==
  CASE desktop = "Hyprland" -> "Greetd"
    [] desktop = "KDE"      -> "Sddm"
    [] OTHER                -> None

\* profile_config_for_desktop: the minimal profile carries no greeter.
ProfileFor(desktop, greeter) ==
  [desktop |-> desktop,
   greeter |-> IF desktop = "Minimal" THEN None
               ELSE IF greeter = None THEN Recommended(desktop) ELSE greeter]

\* gpu_plan has packages for every machine.
GpuPackages == {"driver"}

\* What replaces the packages of a loaded file, unless it is empty.
NewPackages(o) == GpuPackages \cup IF o.dotfiles # None THEN {"git"} ELSE {}

\* assemble_config followed, in the custom flow, by the profile with the
\* detected graphics driver (same desktop and greeter).
Assembled(c, o) ==
  [WithDefaults(c) EXCEPT
     !.mirrors  = IF ans.mirrors # "ISO" THEN ans.mirrors ELSE @,
     !.disk     = ans.disk,
     !.mode     = o.mode,
     !.preset   = o,
     !.user     = ans.user,
     !.profile  = ProfileFor(o.desktop, o.greeter),
     !.packages = IF NewPackages(o) # {} THEN NewPackages(o) ELSE @]

\* validate_bootloader_layout: what the boot loader needs of the firmware, of the
\* file system of the kernels and, without unified images, of their place.
Bootable(c) ==
  c.loader \notin {None, "NoBootloader"} /\ c.disk # None =>
    /\ c.loader \in UefiOnly => env.uefi
    /\ c.loader \in {"Efistub", "Limine"} => c.disk.boot # "other"
    /\ c.loader = "Limine" /\ ~c.uki /\ c.disk.boot = "esp" => c.disk.esp = "/boot"

\* Mutant of SuggestedLayout: the layout that is already configured is kept.
KeptLayout(d) == IF cfg.disk # None THEN cfg.disk
                 ELSE [dev |-> d, kind |-> "ext4", snapshots |-> FALSE,
                       boot |-> "esp", esp |-> "/boot"]

\* suggest_single_disk_layout as select_target_disk calls it.
SuggestedLayout(d) == [dev |-> d, kind |-> "ext4", snapshots |-> FALSE,
                       boot |-> "esp", esp |-> "/boot"]

-----------------------------------------------------------------------------
(* guided.main *)

Recollecting == cfg.mode # None /\ cfg.disk # None /\ env.source # "file"

\* Which way the configuration is completed.
Main ==
  /\ pc = "main"
  /\ recollect' = Recollecting
  /\ pc' = CASE env.silent                           -> "check"
             [] ~env.silent /\ env.advanced          -> "menu"
             [] OTHER -> IF cfg.mode = None \/ Recollecting THEN "mode" ELSE "check"
  /\ UNCHANGED <<env, cfg, ans, consent, touched>>

\* The boot loader's menu leaves unified images on where they are supported; a loaded
\* setting stays when that menu is not opened.
UkiSupported(c) == c.uki => cfg.uki \/ (env.uefi /\ c.loader # "NoBootloader")

\* --advanced: the classic menu is left with a complete, bootable configuration
\* (Install) or the process ends (Abort).
ShowMenu ==
  /\ pc = "menu"
  /\ \/ \E l \in Layouts, b \in Loaders, k \in BOOLEAN, u \in Users,
           s \in {"on", "off"}, p \in Profile :
          /\ cfg' = [cfg EXCEPT !.disk = l, !.loader = b, !.uki = k, !.user = u,
                               !.swap = s, !.profile = p]
          /\ UkiSupported(cfg')
          /\ Bootable(cfg')
          /\ pc' = "check"
     \/ pc' = "exit" /\ UNCHANGED cfg
  /\ UNCHANGED <<env, ans, recollect, consent, touched>>

\* The configuration is written to the log directory and validated; a dry run
\* ends here, a silent run goes on without a confirmation.
Check ==
  /\ pc = "check"
  /\ IF ~Bootable(cfg) THEN pc' = "rejected" /\ UNCHANGED consent
     ELSE IF env.dryRun THEN pc' = "dryRun" /\ UNCHANGED consent
     ELSE IF env.silent THEN
            /\ pc' = IF cfg.disk # None THEN "warning" ELSE "install"
            /\ consent' = cfg
     ELSE pc' = "confirm" /\ UNCHANGED consent
  /\ UNCHANGED <<env, cfg, ans, recollect, touched>>

Accept ==
  /\ pc = "confirm"
  /\ pc' = IF cfg.disk # None THEN "warning" ELSE "install"
  /\ consent' = cfg
  /\ UNCHANGED <<env, cfg, ans, recollect, touched>>

\* main(arch_config_handler) again, with everything collected so far.
Refuse ==
  /\ Goto("confirm", "main")
  /\ UNCHANGED <<env, cfg, ans, recollect, consent, touched>>

\* Mutant of Countdown: an aborted countdown starts over, as guided.main means to.
CountdownStartsOver ==
  /\ pc = "warning"
  /\ pc' \in {"format", "main"}
  /\ UNCHANGED <<env, cfg, ans, recollect, consent, touched>>

\* delayed_warning: the countdown runs out, or is interrupted and the abort is
\* not confirmed ("format"), or is confirmed (sys.exit).
Countdown ==
  /\ pc = "warning"
  /\ pc' \in {"format", "exit"}
  /\ UNCHANGED <<env, cfg, ans, recollect, consent, touched>>

\* Mutant of Format: after an error the questions are asked again.
FormatOrAskAgain ==
  /\ pc = "format"
  /\ touched' = IF cfg.disk.kind = "premount" THEN touched ELSE touched \cup {cfg.disk.dev}
  /\ pc' \in {"install", "main"}
  /\ UNCHANGED <<env, cfg, ans, recollect, consent>>

\* perform_filesystem_operations; an error leaves the device half written.
Format ==
  /\ pc = "format"
  /\ touched' = IF cfg.disk.kind = "premount" THEN touched ELSE touched \cup {cfg.disk.dev}
  /\ pc' \in IF cfg.disk.kind = "premount" THEN {"install"} ELSE {"install", "crash"}
  /\ UNCHANGED <<env, cfg, ans, recollect, consent>>

\* perform_installation; without a disk configuration it returns at once.
Install ==
  /\ pc = "install"
  /\ pc' \in IF cfg.disk = None THEN {"done"} ELSE {"done", "crash"}
  /\ UNCHANGED <<env, cfg, ans, recollect, consent, touched>>

-----------------------------------------------------------------------------
(* preset.flow: run_entry and the two prompt sequences *)

Keep == UNCHANGED <<env, recollect, consent, touched>>

\* Leaving a prompt without an answer ends the process (sys.exit(0)).
Abandon ==
  /\ pc \in {"mode", "locale", "desktop", "credentials", "disk"}
  /\ pc' = "exit"
  /\ UNCHANGED <<cfg, ans>> /\ Keep

\* The mode question, asked again on a second pass.  The custom sequence is
\* skipped for a configuration that came with a profile; otherwise it starts by
\* writing the defaults into the configuration.
SelectMode(m) ==
  /\ pc = "mode"
  /\ ans' = NoAnswers
  /\ LET c == [cfg EXCEPT !.mode = m] IN
       IF m = "Custom" /\ c.profile # None /\ ~recollect
         THEN pc' = "check" /\ cfg' = c
         ELSE /\ pc' = "locale"
              /\ cfg' = IF m = "Custom" THEN WithDefaults(c) ELSE c
  /\ UNCHANGED <<env, recollect, consent, touched>>

\* The custom sequence ranks mirrors only while none are configured.
SelectLocale ==
  /\ pc = "locale"
  /\ pc' = IF cfg.mode = "Custom" /\ cfg.mirrors # "ISO" THEN "repositories" ELSE "mirrors"
  /\ UNCHANGED <<cfg, ans>> /\ Keep

\* rank_mirrors_with_reflector: ranked servers, None when the list came back
\* empty; an error of the command, or a missing one, is not caught.
RankMirrors ==
  /\ pc = "mirrors"
  /\ \/ \E m \in {"ranked", "ISO"} :
          /\ IF cfg.mode = "Custom"
               THEN cfg' = [cfg EXCEPT !.mirrors = m] /\ UNCHANGED ans
               ELSE ans' = [ans EXCEPT !.mirrors = m] /\ UNCHANGED cfg
          /\ pc' = IF cfg.mode = "Custom" THEN "repositories" ELSE "credentials"
     \/ pc' = "probeError" /\ UNCHANGED <<cfg, ans>>
  /\ Keep

SelectRepositories(use) ==
  /\ Goto("repositories", "desktop")
  /\ ans' = [ans EXCEPT !.cachyos = IF use THEN "Generic" ELSE None]
  /\ UNCHANGED cfg /\ Keep

\* Mutant of SelectDesktop: every desktop environment is asked for dotfiles.
SelectDesktopWithDotfiles(d) ==
  /\ pc = "desktop"
  /\ pc' = IF d = "Minimal" THEN "credentials" ELSE "dotfiles"
  /\ ans' = [ans EXCEPT !.desktop = d]
  /\ UNCHANGED cfg /\ Keep

SelectDesktop(d) ==
  /\ pc = "desktop"
  /\ pc' = CASE d = "Hyprland" -> "dotfiles" [] d = "KDE" -> "greeter" [] OTHER -> "credentials"
  /\ ans' = [ans EXCEPT !.desktop = d]
  /\ UNCHANGED cfg /\ Keep

\* Skipping this prompt means no dotfiles.
SelectDotfiles(s) ==
  /\ Goto("dotfiles", "greeter")
  /\ ans' = [ans EXCEPT !.dotfiles = s]
  /\ UNCHANGED cfg /\ Keep

\* Skipping this prompt keeps the recommended greeter.
SelectGreeter(g) ==
  /\ Goto("greeter", "credentials")
  /\ ans' = [ans EXCEPT !.greeter = g]
  /\ UNCHANGED cfg /\ Keep

EnterCredentials(u) ==
  /\ Goto("credentials", "disk")
  /\ ans' = [ans EXCEPT !.user = u]
  /\ UNCHANGED cfg /\ Keep

SelectDisk(d) ==
  /\ Goto("disk", "probe")
  /\ ans' = [ans EXCEPT !.disk = SuggestedLayout(d)]
  /\ UNCHANGED cfg /\ Keep

\* Hardware detection and the options it completes.  The instruction set level
\* is detected unless the user opted out, and detecting it without gcc raises
\* RequirementError, which read_march_native does not catch.
CollectedOptions ==
  IF cfg.mode = "Preset"
    THEN [mode |-> "Preset", desktop |-> "Hyprland", dotfiles |-> "Ambxst",
          greeter |-> "Greetd", cachyos |-> env.level]
    ELSE [mode |-> "Custom", desktop |-> ans.desktop, dotfiles |-> ans.dotfiles,
          greeter |-> IF ans.greeter = None THEN Recommended(ans.desktop) ELSE ans.greeter,
          cachyos |-> IF ans.cachyos = None THEN None ELSE env.level]

Detect ==
  /\ pc = "probe"
  /\ IF CollectedOptions.cachyos # None /\ ~env.gcc
       THEN pc' = "probeError" /\ UNCHANGED cfg
       ELSE pc' = "check" /\ cfg' = Assembled(cfg, CollectedOptions)
  /\ UNCHANGED ans /\ Keep

-----------------------------------------------------------------------------
Prompt ==
  \/ Abandon
  \/ \E m \in Modes : SelectMode(m)
  \/ SelectLocale
  \/ RankMirrors
  \/ \E use \in BOOLEAN : SelectRepositories(use)
  \/ \E d \in Desktops : SelectDesktop(d)
  \/ \E s \in Suites \cup {None} : SelectDotfiles(s)
  \/ \E g \in Greeters : SelectGreeter(g)
  \/ \E u \in Users : EnterCredentials(u)
  \/ \E d \in Disks : SelectDisk(d)
  \/ Detect

Ended == {"exit", "rejected", "dryRun", "probeError", "crash", "done"}

\* The process has ended; the disjunct keeps TLC from reporting it as a deadlock.
Terminated == pc \in Ended /\ UNCHANGED vars

Next ==
  \/ Main \/ ShowMenu \/ Check \/ Accept \/ Refuse \/ Countdown \/ Format \/ Install
  \/ Prompt
  \/ Terminated

Spec == Init /\ [][Next]_vars

-----------------------------------------------------------------------------
(* Properties *)

Answers == [user : Users \cup {None}, disk : AnyLayout \cup {None},
            desktop : Desktops \cup {None}, dotfiles : Suites \cup {None},
            greeter : Greeters \cup {None}, cachyos : Levels \cup {None},
            mirrors : {"ISO", "ranked"}]

Prompts == {"mode", "locale", "mirrors", "repositories", "desktop", "dotfiles",
            "greeter", "credentials", "disk", "probe"}

Committed == {"warning", "format", "install"}

\* Types of the session's variables.
TypeOK ==
  /\ env \in Environments
  /\ pc \in {"main", "menu", "check", "confirm"} \cup Prompts \cup Committed \cup Ended
  /\ cfg \in Config
  /\ ans \in Answers
  /\ recollect \in BOOLEAN
  /\ consent \in Config \cup {None}
  /\ touched \in SUBSET Disks

\* The devices are modified only as the contract of InstallConsent allows: after
\* the layout now in the configuration was confirmed, and no other device.
Consent == INSTANCE InstallConsent
             WITH Layouts <- AnyLayout,
                  agreed <- IF consent = None THEN None ELSE consent.disk
ModifiesOnlyWithConsent == Consent!Spec

\* What is confirmed is what is installed: from the confirmation to the end of
\* the run nothing changes the configuration, and the confirmed configuration
\* was seen complete, after the last answer was put into it.
InstallsWhatWasConfirmed ==
  /\ pc \in Committed => consent = cfg
  /\ touched # {} => consent = cfg

\* A dry run and a refused boot loader layout leave the devices alone, also
\* when they are reached after answers were revised.
DryRunTouchesNothing ==
  env.dryRun \/ (pc \in {"check", "confirm", "rejected"}) => touched = {} /\ consent = None

\* The options the hooks of the installation read agree with the configuration
\* the installation itself reads, whichever sequence of modes, revisions and
\* loaded files led to it: a suite of dotfiles only for Hyprland, with git among
\* the packages and a user to own it, and a greeter exactly for a desktop.
OptionsMatchConfiguration ==
  pc \in {"confirm"} \cup Committed /\ cfg.preset # None =>
    /\ cfg.preset.mode = cfg.mode
    /\ cfg.profile = ProfileFor(cfg.preset.desktop, cfg.preset.greeter)
    /\ cfg.preset.dotfiles # None =>
         cfg.preset.desktop = "Hyprland" /\ "git" \in cfg.packages /\ cfg.user # None
    /\ cfg.preset.greeter = None <=> cfg.preset.desktop = "Minimal"

\* The hooks restore the trust in the CachyOS keyring as the last package
\* operation; snapshots would install packages after them.  The two never meet,
\* because options only exist together with the suggested ext4 layout.
SnapshotsNeverFollowTheHooks ==
  pc \in {"confirm"} \cup Committed /\ cfg.preset # None => ~cfg.disk.snapshots

=============================================================================
