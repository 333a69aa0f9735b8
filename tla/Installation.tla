---------------------------- MODULE Installation ----------------------------
(***************************************************************************)
(* guided.perform_installation on a formatted disk, with the Installer     *)
(* methods, the pacman wrapper and the fork's hooks it calls, and what is  *)
(* left behind on the live medium when an attempt fails and archinstall is *)
(* started again.                                                          *)
(*                                                                         *)
(* The installation is a straight line of steps; a step that the           *)
(* configuration does not ask for is skipped.  What matters is what each   *)
(* step does to the live medium and to the target, which exceptions it     *)
(* raises, and who catches them.                                           *)
(***************************************************************************)
EXTENDS Naturals

CONSTANTS
  Requests,     \* what an installation can be asked to do
  MaxAttempts,  \* bound: how often archinstall is started on one live medium
  None          \* no error

Suites == {"Ambxst", "ML4W", "NoSuite"}

\* The part of ArchConfig the steps look at.  "hooks" tells whether
\* PresetOptions are attached; only with them do the fork's steps run.
Request == [silent : BOOLEAN, early : BOOLEAN, encrypted : BOOLEAN, swap : BOOLEAN,
            bootloader : BOOLEAN, uki : BOOLEAN, plymouth : BOOLEAN, desktop : BOOLEAN,
            driver : BOOLEAN, snapshots : BOOLEAN, hooks : BOOLEAN, cachyos : BOOLEAN,
            greetd : BOOLEAN, nvidia : BOOLEAN, paru : BOOLEAN, dotfiles : Suites]

ASSUME InstallationAssumption ==
  /\ Requests \subseteq
       {r \in Request :
          \* a silent run never asks for the fork's options (GuidedSession)
          /\ r.silent => ~r.hooks
          \* the fork's options come with the hooks, and then without snapshots
          \* (GuidedSession!SnapshotsNeverFollowTheHooks)
          /\ ~r.hooks => ~r.cachyos /\ ~r.greetd /\ ~r.nvidia /\ ~r.paru /\ r.dotfiles = "NoSuite"
          /\ r.hooks => ~r.snapshots
          /\ r.nvidia => r.driver}
  /\ MaxAttempts \in Nat \ {0}

\* The steps in the order of perform_installation; handlers that do more than
\* one thing that can fail (the CachyOS setup, the dotfiles) are inlined.
Follow ==
  [mount |-> "services", services |-> "keyfiles", keyfiles |-> "key",
   \* prepare_repositories
   key |-> "repositories", repositories |-> "early",
   \* minimal_installation
   early |-> "base", base |-> "configure", configure |-> "initramfs",
   \* synchronize_system
   initramfs |-> "upgrade", upgrade |-> "upgradeImage", upgradeImage |-> "swap",
   \* setup_swap, add_bootloader
   swap |-> "plymouth", plymouth |-> "splash", splash |-> "uki", uki |-> "bootloader",
   bootloader |-> "network", network |-> "users", users |-> "applications",
   \* install_profile_config, add_additional_packages, services
   applications |-> "driver", driver |-> "profile", profile |-> "packages",
   packages |-> "settings",
   \* apply_finalize
   settings |-> "greetd", greetd |-> "gpuImage", gpuImage |-> "paru", paru |-> "git",
   git |-> "clone", clone |-> "staged", staged |-> "copy", copy |-> "grant",
   grant |-> "scripts", scripts |-> "revoke", revoke |-> "repair", repair |-> "trust",
   trust |-> "snapshots",
   snapshots |-> "commands", commands |-> "fstab", fstab |-> "done"]

Steps  == DOMAIN Follow
Ended  == {"done", "failed"}
Errors == {"RequirementError", "SysCallError", "SystemExit", "Interrupt", "Other"}
Features == {"encrypt", "plymouth"}     \* hooks the image of the target may need

\* Steps that are one call of Pacman.strap, or several in a row.
StrapSteps == {"early", "base", "swap", "plymouth", "bootloader", "network", "applications",
               "driver", "profile", "packages", "paru", "git", "staged", "snapshots"}

\* Those that also enable services or install a boot loader.
ServiceSteps == {"swap", "bootloader", "network", "applications", "profile", "snapshots"}

VARIABLES
  req,        \* config and arguments of this attempt
  attempt,    \* how often archinstall was started
  pc,         \* the step that is next, or how the attempt ended
  err,        \* the exception that is propagating or ended the attempt, and its step
  synced,     \* Pacman.synced
  hooks,      \* Installer._hooks
  live,       \* the live medium: CachyOS key signed, repositories enabled
  target,     \* the system being installed
  contained   \* failures of this attempt that did not stop it

vars == <<req, attempt, pc, err, synced, hooks, live, target, contained>>

NoImage == [hooks |-> {}, driver |-> FALSE]

EmptyTarget == [pkgs |-> {}, repositories |-> FALSE, trust |-> FALSE, conf |-> {},
                image |-> NoImage, home |-> "absent", grant |-> FALSE]

Init ==
  /\ req \in Requests
  /\ attempt = 1
  /\ pc = "mount"
  /\ err = None
  /\ synced = FALSE
  /\ hooks = {}
  /\ live = [key |-> FALSE, repositories |-> FALSE]
  /\ target = EmptyTarget
  /\ contained = {}

-----------------------------------------------------------------------------
(* Control *)

\* The condition in front of a step.
Wanted(s) ==
  /\ s \in {"key", "repositories", "upgrade", "upgradeImage", "trust"} => req.cachyos
  /\ s = "keyfiles"   => req.encrypted
  /\ s = "early"      => req.early
  /\ s = "initramfs"  => ~req.uki
  /\ s = "swap"       => req.swap
  /\ s \in {"plymouth", "splash", "uki", "bootloader"} => req.bootloader
  /\ s \in {"plymouth", "splash"} => req.plymouth
  /\ s = "uki"        => req.uki
  /\ s = "driver"     => req.driver
  /\ s = "profile"    => req.desktop
  /\ s = "greetd"     => req.greetd
  /\ s = "gpuImage"   => req.nvidia
  /\ s = "paru"       => req.paru
  /\ s \in {"git", "clone", "staged", "scripts", "repair"} => req.dotfiles # "NoSuite"
  /\ s \in {"copy", "grant", "revoke"} => req.dotfiles = "ML4W"
  /\ s = "snapshots"  => req.snapshots

At(s) == pc = s /\ Wanted(s)

Keep == UNCHANGED <<req, attempt>>

Proceed == pc' = Follow[pc] /\ UNCHANGED err

\* The exceptions the code around a step catches, and where it goes on: the two
\* image regenerations and the AUR helper just continue, the deployment of the
\* dotfiles ends with the repair of the home directory.
Caught(s) ==
  IF s = "gpuImage" THEN {"RequirementError", "SysCallError", "Other"}
  ELSE IF s \in {"upgradeImage", "paru", "git", "clone", "staged", "copy", "scripts"}
    THEN {"SysCallError"}
    ELSE {}

\* Mutant of Handler: out of the dotfiles at once.
HandlerSkipsRepair(s) ==
  IF s \in {"git", "clone", "staged", "copy", "scripts"} THEN "trust" ELSE Follow[s]

Handler(s) == IF s \in {"git", "clone", "staged", "copy"} THEN "repair" ELSE Follow[s]

\* Mutant of Fail: without the finally.
FailAtOnce(kind) ==
  IF kind \in Caught(pc) THEN pc' = Handler(pc) /\ UNCHANGED err
  ELSE err' = [kind |-> kind, at |-> pc] /\ pc' = "failed"

\* An exception ends the attempt unless it is caught.  The scripts of ML4W run
\* inside a try whose finally revokes the temporary grant first.
Fail(kind) ==
  IF kind \in Caught(pc) THEN pc' = Handler(pc) /\ UNCHANGED err
  ELSE /\ err' = [kind |-> kind, at |-> pc]
       /\ pc' = IF pc = "scripts" /\ req.dotfiles = "ML4W" THEN "revoke" ELSE "failed"

Skip ==
  /\ pc \in Steps /\ ~Wanted(pc)
  /\ Proceed
  /\ UNCHANGED <<synced, hooks, live, target, contained>> /\ Keep

-----------------------------------------------------------------------------
(* lib/pacman/pacman.py *)

\* Mutant of Ask: silent runs wait for an answer, too.
AskAlways == err' = [kind |-> "RequirementError", at |-> pc] /\ UNCHANGED pc

\* Pacman.ask, when a command failed: a silent run gives up, others ask the user
\* whether to try again and wait for the answer.
Ask ==
  IF req.silent THEN Fail("RequirementError")
  ELSE err' = [kind |-> "RequirementError", at |-> pc] /\ UNCHANGED pc

Asking == pc \in StrapSteps /\ err # None

Answer ==
  /\ Asking
  /\ (err' = None /\ UNCHANGED pc) \/ Fail("RequirementError")
  /\ UNCHANGED <<synced, hooks, live, target, contained>> /\ Keep

\* Pacman.sync, before the first package of an attempt.  The wait for another
\* pacman's lock ends with sys.exit after ten minutes.
Sync ==
  /\ pc \in StrapSteps /\ Wanted(pc) /\ ~Asking /\ ~synced
  /\ \/ synced' = TRUE /\ UNCHANGED <<pc, err>>
     \/ UNCHANGED synced /\ (Ask \/ Fail("SystemExit"))
  /\ UNCHANGED <<hooks, live, target, contained>> /\ Keep

\* Mutant of Packages: the keyring package is forgotten.
PackagesWithoutKeyring(s) == IF s \in {"base", "driver"} THEN {s} ELSE {}

\* pacstrap -K starts the target's keyring anew; only the installation of the
\* package cachyos-keyring adds the CachyOS key to it.
Packages(s) ==
  IF s = "base" THEN {"base"} \cup IF req.cachyos THEN {"keyring"} ELSE {}
  ELSE IF s = "driver" THEN {"driver"} ELSE {}

Strapped(s) ==
  [target EXCEPT !.pkgs  = @ \cup Packages(s),
                 !.trust = "keyring" \in Packages(s),
                 \* the kernel's own hook builds an image from the default configuration
                 !.image = IF s = "base" THEN NoImage ELSE @]

\* Pacman.strap: the packages are installed, or the keyring was started anew and
\* the transaction failed.  The services a step enables, or the boot loader it
\* installs, may fail afterwards.
Strap ==
  /\ pc \in StrapSteps /\ Wanted(pc) /\ ~Asking /\ synced
  /\ \/ target' = Strapped(pc) /\ (Proceed \/ (pc \in ServiceSteps /\ Fail("Other")))
     \/ target' = [target EXCEPT !.trust = FALSE] /\ Ask
  /\ UNCHANGED <<synced, hooks, live, contained>> /\ Keep

-----------------------------------------------------------------------------
(* Steps that change nothing the model keeps: they succeed or raise. *)

Plain ==
  /\ \E s \in {"mount", "keyfiles", "settings", "greetd", "commands", "fstab"} : At(s)
  /\ Proceed \/ Fail("SysCallError") \/ Fail("Other")
  /\ UNCHANGED <<synced, hooks, live, target, contained>> /\ Keep

\* sanity_check: waits for the clock and for the Arch keyring without a limit.
WaitForServices ==
  /\ At("services")
  /\ Proceed \/ Fail("SysCallError")
  /\ UNCHANGED <<synced, hooks, live, target, contained>> /\ Keep

-----------------------------------------------------------------------------
(* preset/cachyos.py *)

ImportKey ==
  /\ At("key")
  /\ \/ live' = [live EXCEPT !.key = TRUE] /\ Proceed
     \/ UNCHANGED live /\ Fail("Other")
  /\ UNCHANGED <<synced, hooks, target, contained>> /\ Keep

\* prepare_live_environment after the key: inject_before_core leaves a file that
\* already has the repositories alone and refuses one without [core]; writing it or
\* the mirror lists can fail halfway.
EnableRepositories ==
  /\ At("repositories")
  /\ \/ live' = [live EXCEPT !.repositories = TRUE] /\ Proceed
     \/ \E written \in BOOLEAN : live' = [live EXCEPT !.repositories = written] /\ Fail("Other")
  /\ UNCHANGED <<synced, hooks, target, contained>> /\ Keep

\* pacman -Syu inside the target; an upgrade that fails is critical.
Upgrade ==
  /\ At("upgrade")
  /\ Proceed \/ Fail("Other")
  /\ UNCHANGED <<synced, hooks, live, target, contained>> /\ Keep

\* Mutant of RestoreTrust: best effort.
RestoreTrustIfPossible ==
  /\ At("trust")
  /\ \E ok \in BOOLEAN : target' = [target EXCEPT !.trust = ok]
  /\ Proceed
  /\ UNCHANGED <<synced, hooks, live, contained>> /\ Keep

\* From the package's own key material, else from the key server.
RestoreTrust ==
  /\ At("trust")
  /\ \/ target' = [target EXCEPT !.trust = TRUE] /\ Proceed
     \/ UNCHANGED target /\ Fail("Other")
  /\ UNCHANGED <<synced, hooks, live, contained>> /\ Keep

-----------------------------------------------------------------------------
(* lib/installer.py *)

\* The rest of minimal_installation up to the image: the live pacman.conf is
\* copied to the target, then services, locale and keyboard are set up.
Configure ==
  /\ At("configure")
  /\ target' = [target EXCEPT !.repositories = live.repositories]
  /\ hooks' = IF req.encrypted THEN {"encrypt"} ELSE {}
  /\ Proceed \/ Fail("SysCallError") \/ Fail("Other")
  /\ UNCHANGED <<synced, live, contained>> /\ Keep

Image(conf) == [hooks |-> conf, driver |-> "driver" \in target.pkgs]

\* Mutant of Mkinitcpio: the image is built before the configuration is written.
MkinitcpioFirst ==
  /\ target' = [target EXCEPT !.conf = hooks', !.image = Image(target.conf)]
  /\ UNCHANGED contained

\* Installer.mkinitcpio writes mkinitcpio.conf and builds the image; a failure
\* to build is reported, never raised.
Mkinitcpio ==
  \/ /\ target' = [target EXCEPT !.conf = hooks', !.image = Image(hooks')]
     /\ UNCHANGED contained
  \/ /\ target' = [target EXCEPT !.conf = hooks']
     /\ contained' = contained \cup {"image"}

\* At the end of minimal_installation, and in _config_uki, which needs an EFI
\* system partition.
BuildImage ==
  /\ At("initramfs") \/ At("uki")
  /\ UNCHANGED hooks
  /\ \/ Mkinitcpio /\ Proceed
     \/ pc = "uki" /\ UNCHANGED <<target, contained>> /\ Fail("Other")
  /\ UNCHANGED <<synced, live>> /\ Keep

\* _install_plymouth after its package: theme, hook and a new image.
Splash ==
  /\ At("splash")
  /\ hooks' = hooks \cup {"plymouth"}
  /\ \/ Mkinitcpio /\ Proceed
     \/ UNCHANGED <<target, contained>> /\ Fail("SysCallError")
  /\ UNCHANGED <<synced, live>> /\ Keep

\* mkinitcpio -P in the target, after the upgrade and after the installation of
\* a proprietary driver: the configuration stays as it is.
RebuildImage ==
  /\ At("upgradeImage") \/ At("gpuImage")
  /\ \/ /\ target' = [target EXCEPT !.image = Image(target.conf)]
        /\ UNCHANGED contained /\ Proceed
     \/ /\ contained' = contained \cup {"image"}
        /\ UNCHANGED target /\ Fail("SysCallError")
  /\ UNCHANGED <<synced, hooks, live>> /\ Keep

\* create_users; a failing useradd is critical.
CreateUsers ==
  /\ At("users")
  /\ \/ target' = [target EXCEPT !.home = "owned"] /\ Proceed
     \/ UNCHANGED target /\ Fail("Other")
  /\ UNCHANGED <<synced, hooks, live, contained>> /\ Keep

-----------------------------------------------------------------------------
(* preset/dotfiles.py: deploy and _deploy_ml4w *)

\* The suite is cloned; it may lack an installer or need no further package.
Clone ==
  /\ At("clone")
  /\ \/ /\ pc' \in {"staged", "repair"} \cup IF req.dotfiles = "ML4W" THEN {} ELSE {"scripts"}
        /\ UNCHANGED err
     \/ Fail("SysCallError")
  /\ UNCHANGED <<synced, hooks, live, target, contained>> /\ Keep

CopyConfiguration ==
  /\ At("copy")
  /\ Proceed \/ Fail("SysCallError")
  /\ UNCHANGED <<synced, hooks, live, target, contained>> /\ Keep

\* The temporary passwordless sudo rule; without it the scripts still run.  An
\* error may come before or after the rule is written (chmod), and then no rule
\* is returned to be revoked.
Grant ==
  /\ At("grant")
  /\ \/ target' = [target EXCEPT !.grant = TRUE] /\ UNCHANGED contained
     \/ /\ \E written \in BOOLEAN : target' = [target EXCEPT !.grant = written]
        /\ contained' = contained \cup {"grant"}
  /\ Proceed
  /\ UNCHANGED <<synced, hooks, live>> /\ Keep

\* The suite's scripts run as the user, and with a grant can leave files of root
\* in the home directory.  A failing script is counted, not raised.
RunScripts ==
  /\ At("scripts")
  /\ \E h \in {"owned"} \cup IF target.grant THEN {"mixed"} ELSE {} :
       target' = [target EXCEPT !.home = h]
  /\ Proceed \/ Fail("SysCallError")
  /\ UNCHANGED <<synced, hooks, live, contained>> /\ Keep

\* The finally block: an exception raised by the scripts goes on afterwards.
Revoke ==
  /\ At("revoke")
  /\ \/ "grant" \notin contained /\ target' = [target EXCEPT !.grant = FALSE]
        /\ UNCHANGED contained
     \/ "grant" \notin contained /\ contained' = contained \cup {"revoke"}
        /\ UNCHANGED target
     \/ "grant" \in contained /\ UNCHANGED <<target, contained>>
  /\ pc' = IF err = None THEN Follow[pc] ELSE "failed"
  /\ UNCHANGED <<err, synced, hooks, live>> /\ Keep

RepairHome ==
  /\ At("repair")
  /\ \/ target' = [target EXCEPT !.home = "owned"] /\ UNCHANGED contained
     \/ contained' = contained \cup {"repair"} /\ UNCHANGED target
  /\ Proceed
  /\ UNCHANGED <<synced, hooks, live>> /\ Keep

-----------------------------------------------------------------------------
\* The user stops the program while a command is running; the steps that only
\* write files are not interrupted.
Interrupt ==
  /\ pc \in Steps \ {"repositories", "grant", "revoke"} /\ Wanted(pc)
  /\ Fail("Interrupt")
  /\ UNCHANGED <<synced, hooks, live, target, contained>> /\ Keep

\* archinstall is started again on the same live medium: the disk is formatted
\* anew, the live medium keeps what earlier attempts did to it.
Restart ==
  /\ pc \in Ended /\ attempt < MaxAttempts
  /\ attempt' = attempt + 1
  /\ req' \in Requests
  /\ pc' = "mount" /\ err' = None /\ synced' = FALSE /\ hooks' = {}
  /\ target' = EmptyTarget /\ contained' = {}
  /\ UNCHANGED live

Step ==
  \/ Skip \/ Sync \/ Strap \/ Plain \/ ImportKey \/ EnableRepositories
  \/ Upgrade \/ RestoreTrust \/ Configure \/ BuildImage \/ Splash \/ RebuildImage
  \/ CreateUsers \/ Clone \/ CopyConfiguration \/ Grant \/ RunScripts \/ Revoke \/ RepairHome

Next == Step \/ Answer \/ WaitForServices \/ Interrupt \/ Restart

\* The program goes on by itself, except where it waits for the clock or for an
\* answer.
Spec == Init /\ [][Next]_vars /\ WF_vars(Step)
-----------------------------------------------------------------------------
(* Properties *)

Target == [pkgs : SUBSET {"base", "keyring", "driver"}, repositories : BOOLEAN,
           trust : BOOLEAN, conf : SUBSET Features,
           image : [hooks : SUBSET Features, driver : BOOLEAN],
           home : {"absent", "owned", "mixed"}, grant : BOOLEAN]

\* Types of the installation's variables.
TypeOK ==
  /\ req \in Requests
  /\ attempt \in 1..MaxAttempts
  /\ pc \in Steps \cup Ended
  /\ err \in [kind : Errors, at : Steps] \cup {None}
  /\ synced \in BOOLEAN
  /\ hooks \in SUBSET Features
  /\ live \in [key : BOOLEAN, repositories : BOOLEAN]
  /\ target \in Target
  /\ contained \in SUBSET {"image", "grant", "revoke", "repair"}

\* Every pacstrap wipes the trust in the CachyOS key, so "this step must run
\* after the last package transaction" (ensure_target_keyring_trust): a finished
\* system with the repositories verifies them.
TrustedAtTheEnd == pc = "done" /\ req.cachyos => target.trust

\* The synchronized upgrade inside the target meets repositories it can use: it
\* finds them in the copied pacman.conf, with the keyring package of the same
\* base transaction and its trust not wiped by a pacstrap in between.
UpgradeMeetsTrustedRepositories ==
  pc = "upgrade" /\ req.cachyos =>
    target.repositories /\ "keyring" \in target.pkgs /\ target.trust

\* The boot image of a finished system has the hooks of the requested features
\* and the proprietary driver, whichever of the five places built it last, unless
\* a build failed and was only reported.  A unified image without a boot loader
\* is never built, nor the classic one in its place.
ImageIsCurrent ==
  pc = "done" /\ "image" \notin contained =>
    /\ req.encrypted /\ (req.uki => req.bootloader) => "encrypt" \in target.image.hooks
    /\ req.plymouth /\ req.bootloader => "plymouth" \in target.image.hooks
    /\ req.nvidia => target.image.driver

\* The passwordless sudo rule lasts only while the scripts of ML4W run, also when
\* they fail or are interrupted; it stays only after a warning that its file
\* could not be completed or not be removed.
GrantRevoked ==
  pc \notin {"scripts", "revoke"} =>
    ~target.grant \/ {"grant", "revoke"} \cap contained # {}

\* Every way out of the deployment that lets the installation continue repaired
\* the home directory.
HomeRepaired ==
  pc = "done" => target.home = "owned" \/ "repair" \in contained

\* A silent installation comes to an end once the clock and the keyring service
\* are ready: nothing waits for an answer.
UnattendedEnds ==
  req.silent /\ pc \in Steps \ {"mount", "services"} ~> pc \in Ended

=============================================================================
