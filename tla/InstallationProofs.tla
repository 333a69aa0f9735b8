-------------------------- MODULE InstallationProofs --------------------------
(***************************************************************************)
(* Proofs about Installation, for every set of requests and any number of  *)
(* attempts on one live medium.                                            *)
(***************************************************************************)
EXTENDS Installation, TLAPS

\* The steps up to and including the one a set is named for.
ToRepositories == {"mount", "services", "keyfiles", "key", "repositories"}
ToConfigure    == ToRepositories \cup {"early", "base", "configure"}
ToInitramfs    == ToConfigure \cup {"initramfs"}
ToSplash       == ToInitramfs \cup {"upgrade", "upgradeImage", "swap", "plymouth", "splash"}
ToUki          == ToSplash \cup {"uki"}
ToUsers        == ToUki \cup {"bootloader", "network", "users"}
ToDriver       == ToUsers \cup {"applications", "driver"}
ToGpuImage     == ToDriver \cup {"profile", "packages", "settings", "greetd", "gpuImage"}
AfterTrust     == {"snapshots", "commands", "fstab", "done"}

\* The attempt is past these steps and has not failed.
Passed(steps) == pc \notin steps \cup {"failed"}

\* From the live medium to the target, and the last word on the keyring.
RepositoriesInv ==
  req.cachyos =>
    /\ Passed(ToRepositories) => live.repositories
    /\ pc \in {"configure", "initramfs", "upgrade"} =>
         "keyring" \in target.pkgs /\ target.trust
    /\ pc \in {"initramfs", "upgrade"} => target.repositories
    /\ pc \in AfterTrust => target.trust

\* Once a feature is in mkinitcpio.conf every later image has it.
ImageInv ==
  /\ req.encrypted /\ Passed(ToConfigure) => "encrypt" \in hooks
  /\ req.encrypted /\ (req.uki => req.bootloader) /\ Passed(IF req.uki THEN ToUki ELSE ToInitramfs) =>
       /\ "encrypt" \in target.conf
       /\ "image" \notin contained => "encrypt" \in target.image.hooks
  /\ req.plymouth /\ req.bootloader /\ Passed(ToSplash) =>
       /\ "plymouth" \in hooks
       /\ "plymouth" \in target.conf
       /\ "image" \notin contained => "plymouth" \in target.image.hooks
  /\ req.nvidia /\ Passed(ToDriver) => "driver" \in target.pkgs
  /\ req.nvidia /\ Passed(ToGpuImage) /\ "image" \notin contained => target.image.driver

\* The sudo rule and the home directory while the dotfiles are deployed.
DotfilesInv ==
  /\ target.grant => req.dotfiles = "ML4W"
  /\ pc \notin {"scripts", "revoke"} =>
       ~target.grant \/ "grant" \in contained \/ "revoke" \in contained
  /\ Passed(ToUsers) => target.home # "absent"
  /\ target.home = "mixed" =>
       /\ req.dotfiles # "NoSuite"
       /\ pc \in {"revoke", "repair", "failed"} \/ "repair" \in contained

IInv == TypeOK /\ RepositoriesInv /\ ImageInv /\ DotfilesInv
-----------------------------------------------------------------------------
\* The order of the steps.
LEMMA FollowType == \A s \in Steps : Follow[s] \in Steps \cup {"done"}
BY DEF Steps, Follow

\* A step leaves a set of first steps only at the last of them.
LEMMA Order ==
  ASSUME NEW s \in Steps
  PROVE  /\ Follow[s] \notin ToRepositories => s \notin ToRepositories \ {"repositories"}
         /\ Follow[s] \notin ToConfigure => s \notin ToConfigure \ {"configure"}
         /\ Follow[s] \notin ToInitramfs => s \notin ToInitramfs \ {"initramfs"}
         /\ Follow[s] \notin ToSplash => s \notin ToSplash \ {"splash"}
         /\ Follow[s] \notin ToUki => s \notin ToUki \ {"uki"}
         /\ Follow[s] \notin ToUsers => s \notin ToUsers \ {"users"}
         /\ Follow[s] \notin ToDriver => s \notin ToDriver \ {"driver"}
         /\ Follow[s] \notin ToGpuImage => s \notin ToGpuImage \ {"gpuImage"}
         /\ Follow[s] \in AfterTrust => s \in AfterTrust \cup {"trust"}
         /\ Follow[s] = "configure" <=> s = "base"
         /\ Follow[s] = "initramfs" <=> s = "configure"
         /\ Follow[s] = "upgrade" <=> s = "initramfs"
         /\ Follow[s] = "scripts" <=> s = "grant"
         /\ Follow[s] = "revoke" <=> s = "scripts"
         /\ Follow[s] = "repair" <=> s = "revoke"
BY DEF Steps, Follow, ToRepositories, ToConfigure, ToInitramfs, ToSplash, ToUki, ToUsers,
       ToDriver, ToGpuImage, AfterTrust

\* Where an exception leads.
LEMMA Failing ==
  ASSUME NEW kind \in Errors, pc \in Steps, Fail(kind),
         err \in [kind : Errors, at : Steps] \cup {None}
  PROVE  /\ err' \in [kind : Errors, at : Steps] \cup {None}
         /\ \/ pc' = "failed" /\ ~(pc = "scripts" /\ req.dotfiles = "ML4W")
            \/ pc' = "revoke" /\ pc = "scripts"
            \/ pc' = "repair" /\ pc \in {"git", "clone", "staged", "copy"}
            \/ /\ pc' = Follow[pc] /\ kind # "Interrupt"
               /\ pc \in {"upgradeImage", "gpuImage", "paru", "scripts"}
<1>1. CASE kind \in Caught(pc)
  <2>1. pc \in {"upgradeImage", "gpuImage", "paru", "git", "clone", "staged", "copy", "scripts"}
    BY <1>1 DEF Caught
  <2>2. kind # "Interrupt"
    BY <1>1 DEF Caught
  <2> QED
    BY <1>1, <2>1, <2>2 DEF Fail, Handler
<1>2. CASE kind \notin Caught(pc)
  BY <1>2 DEF Fail
<1> QED
  BY <1>1, <1>2

\* A step that only moves the control.
Moved ==
  /\ UNCHANGED <<req, attempt, hooks, live, target, contained>>
  /\ synced' \in BOOLEAN
  /\ err' \in [kind : Errors, at : Steps] \cup {None}

\* Going on from here without doing anything is harmless: what the step would
\* have done is not asked for, or the invariant does not depend on it.
Idle ==
  /\ pc \notin {"base", "configure", "users"}
  /\ pc \in {"repositories", "trust"} => ~req.cachyos
  /\ pc = "initramfs" => req.uki
  /\ pc = "splash" => ~req.plymouth \/ ~req.bootloader
  /\ pc = "uki" => ~req.uki \/ ~req.bootloader
  /\ pc \in {"driver", "gpuImage"} => ~req.nvidia
  /\ pc \in {"grant", "revoke"} => req.dotfiles # "ML4W"
  /\ pc = "repair" => req.dotfiles = "NoSuite"

\* Moving on, failing, being caught and jumping inside the deployment of the
\* dotfiles keep the invariant.
LEMMA Moves ==
  ASSUME IInv, Moved, pc \in Steps,
         \/ pc' = pc
         \/ pc' = "failed" /\ pc # "revoke" /\ ~(pc = "scripts" /\ req.dotfiles = "ML4W")
         \/ pc' = "revoke" /\ pc = "scripts"
         \/ pc' = "repair" /\ pc \in {"git", "clone", "staged", "copy"}
         \/ pc' \in {"scripts", "staged"} /\ pc = "clone"
         \/ pc' = Follow[pc] /\ Idle
  PROVE  IInv'
<1> DEFINE next == Follow[pc]
<1>1. next \in Steps \cup {"done"}
  BY FollowType
<1>2. {"failed", "revoke", "repair", "scripts", "staged", "clone"} \subseteq Steps \cup Ended
  BY DEF Steps, Follow, Ended
<1>3. /\ next \notin ToRepositories => pc \notin ToRepositories \ {"repositories"}
      /\ next \notin ToConfigure => pc \notin ToConfigure \ {"configure"}
      /\ next \notin ToInitramfs => pc \notin ToInitramfs \ {"initramfs"}
      /\ next \notin ToSplash => pc \notin ToSplash \ {"splash"}
      /\ next \notin ToUki => pc \notin ToUki \ {"uki"}
      /\ next \notin ToUsers => pc \notin ToUsers \ {"users"}
      /\ next \notin ToDriver => pc \notin ToDriver \ {"driver"}
      /\ next \notin ToGpuImage => pc \notin ToGpuImage \ {"gpuImage"}
      /\ next \in AfterTrust => pc \in AfterTrust \cup {"trust"}
      /\ next = "configure" <=> pc = "base"
      /\ next = "initramfs" <=> pc = "configure"
      /\ next = "upgrade" <=> pc = "initramfs"
      /\ next = "scripts" <=> pc = "grant"
      /\ next = "revoke" <=> pc = "scripts"
      /\ next = "repair" <=> pc = "revoke"
  BY Order
<1>4. next \notin {"failed"} /\ pc # "failed" /\ pc # "done"
  BY <1>1 DEF Steps, Follow
<1>5. \/ pc' = pc
      \/ pc' = "failed" /\ pc # "revoke" /\ ~(pc = "scripts" /\ req.dotfiles = "ML4W")
      \/ pc' = "revoke" /\ pc = "scripts"
      \/ pc' = "repair" /\ pc \in {"git", "clone", "staged", "copy"}
      \/ pc' \in {"scripts", "staged"} /\ pc = "clone"
      \/ pc' = next /\ Idle
  OBVIOUS
<1> HIDE DEF next
<1> USE DEF IInv, Moved, Passed, ToRepositories, ToConfigure, ToInitramfs, ToSplash, ToUki,
        ToUsers, ToDriver, ToGpuImage, AfterTrust
<1>6. TypeOK'
  BY <1>1, <1>2, <1>5 DEF TypeOK, Ended
<1>7. RepositoriesInv'
  BY <1>3, <1>4, <1>5 DEF RepositoriesInv, Idle
<1>8. ImageInv'
  BY <1>3, <1>4, <1>5 DEF ImageInv, Idle
<1>9. DotfilesInv'
  BY <1>3, <1>4, <1>5 DEF DotfilesInv, Idle
<1> QED
  BY <1>6, <1>7, <1>8, <1>9

\* An exception out of a step that did nothing before it was raised.
LEMMA Fails ==
  ASSUME IInv, pc \in Steps, pc # "revoke", NEW kind \in Errors, Fail(kind),
         UNCHANGED <<req, attempt, hooks, live, target, contained>>, synced' \in BOOLEAN,
         pc = "gpuImage" => kind = "Interrupt"
  PROVE  IInv'
<1>1. err \in [kind : Errors, at : Steps] \cup {None}
  BY DEF IInv, TypeOK
<1>2. Moved
  BY <1>1, Failing DEF Moved
<1>3. \/ pc' = "failed" /\ ~(pc = "scripts" /\ req.dotfiles = "ML4W")
      \/ pc' = "revoke" /\ pc = "scripts"
      \/ pc' = "repair" /\ pc \in {"git", "clone", "staged", "copy"}
      \/ pc' = Follow[pc] /\ pc \in {"upgradeImage", "paru", "scripts"}
  BY <1>1, Failing
<1>4. pc \in {"upgradeImage", "paru", "scripts"} => Idle
  BY DEF Idle
<1> QED
  BY <1>2, <1>3, <1>4, Moves

\* The program starts with an empty target.
LEMMA Initial == Init => IInv
<1> SUFFICES ASSUME Init PROVE IInv
  OBVIOUS
<1> USE InstallationAssumption DEF InstallationAssumption, Init, EmptyTarget, NoImage
<1>1. TypeOK
  <2>1. attempt \in 1..MaxAttempts
    OBVIOUS
  <2>2. pc \in Steps
    BY DEF Steps, Follow
  <2>3. target \in Target
    BY DEF Target
  <2>4. live \in [key : BOOLEAN, repositories : BOOLEAN]
    OBVIOUS
  <2> QED
    BY <2>1, <2>2, <2>3, <2>4 DEF TypeOK
<1>2. RepositoriesInv /\ ImageInv /\ DotfilesInv
  BY DEF RepositoriesInv, ImageInv, DotfilesInv, Passed, AfterTrust, ToRepositories,
         ToConfigure, ToInitramfs, ToSplash, ToUki, ToUsers, ToDriver, ToGpuImage
<1> QED
  BY <1>1, <1>2 DEF IInv

\* Steps that do nothing, and the exceptions they raise.
LEMMA ControlSteps ==
  ASSUME IInv, Skip \/ Sync \/ Answer \/ Plain \/ WaitForServices \/ Upgrade \/ Clone
               \/ CopyConfiguration \/ Interrupt
  PROVE  IInv'
<1> USE DEF Keep, At
<1>1. CASE Skip
  <2>1. req \in Request /\ (req.nvidia => req.driver)
    BY InstallationAssumption DEF InstallationAssumption, IInv, TypeOK
  <2>2. Idle
    BY <1>1, <2>1 DEF Skip, Wanted, Idle, Request
  <2>3. Moved
    BY <1>1 DEF Skip, Proceed, Moved, IInv, TypeOK
  <2> QED
    BY <1>1, <2>2, <2>3, Moves DEF Skip, Proceed
<1>2. CASE Sync
  <2>1. pc \in Steps /\ pc \notin {"revoke", "gpuImage"}
    BY <1>2 DEF Sync, StrapSteps, Steps, Follow
  <2>2. CASE UNCHANGED pc /\ err' \in {err, [kind |-> "RequirementError", at |-> pc]}
    <3>1. Moved
      <4>1. [kind |-> "RequirementError", at |-> pc] \in [kind : Errors, at : Steps]
        BY <2>1 DEF Errors
      <4>2. err' \in [kind : Errors, at : Steps] \cup {None}
        BY <2>2, <4>1 DEF IInv, TypeOK
      <4>3. UNCHANGED <<req, attempt, hooks, live, target, contained>> /\ synced' \in BOOLEAN
        BY <1>2 DEF Sync, IInv, TypeOK
      <4> QED
        BY <4>2, <4>3 DEF Moved
    <3> QED
      BY <2>1, <2>2, <3>1, Moves
  <2>3. ASSUME NEW kind \in {"RequirementError", "SystemExit"}, Fail(kind), UNCHANGED synced
        PROVE  IInv'
    BY <1>2, <2>1, <2>3, Fails DEF Sync, IInv, TypeOK, Errors
  <2> QED
    BY <1>2, <2>2, <2>3 DEF Sync, Ask
<1>3. ASSUME Plain \/ WaitForServices \/ Upgrade \/ CopyConfiguration PROVE IInv'
  <2>1. pc \in {"mount", "keyfiles", "settings", "greetd", "commands", "fstab", "services",
                "upgrade", "copy"}
    BY <1>3 DEF Plain, WaitForServices, Upgrade, CopyConfiguration
  <2>2. pc \in Steps /\ Idle
    BY <2>1 DEF Steps, Follow, Idle
  <2>3. UNCHANGED <<req, attempt, hooks, live, target, contained, synced>>
    BY <1>3 DEF Plain, WaitForServices, Upgrade, CopyConfiguration
  <2>4. CASE Proceed
    <3>1. Moved
      BY <2>3, <2>4 DEF Proceed, Moved, IInv, TypeOK
    <3> QED
      BY <2>2, <2>4, <3>1, Moves DEF Proceed
  <2>5. ASSUME NEW kind \in Errors, Fail(kind) PROVE IInv'
    BY <2>1, <2>2, <2>3, <2>5, Fails DEF IInv, TypeOK
  <2> QED
    BY <1>3, <2>4, <2>5 DEF Plain, WaitForServices, Upgrade, CopyConfiguration, Errors
<1>4. CASE Clone
  <2>1. pc = "clone" /\ pc \in Steps
    BY <1>4 DEF Clone, Steps, Follow
  <2>2. UNCHANGED <<req, attempt, hooks, live, target, contained, synced>>
    BY <1>4 DEF Clone
  <2>3. CASE Fail("SysCallError")
    BY <2>1, <2>2, <2>3, Fails DEF IInv, TypeOK, Errors
  <2>4. CASE pc' \in {"staged", "repair", "scripts"} /\ UNCHANGED err
    <3>1. Moved
      BY <2>2, <2>4 DEF Moved, IInv, TypeOK
    <3> QED
      BY <2>1, <2>4, <3>1, Moves
  <2> QED
    BY <1>4, <2>3, <2>4 DEF Clone
<1>5. CASE Interrupt
  <2>1. pc \in Steps /\ pc # "revoke" /\ Fail("Interrupt")
    BY <1>5 DEF Interrupt
  <2>2. UNCHANGED <<req, attempt, hooks, live, target, contained, synced>>
    BY <1>5 DEF Interrupt
  <2> QED
    BY <2>1, <2>2, Fails DEF IInv, TypeOK, Errors
<1>6. CASE Answer
  <2>1. pc \in Steps /\ pc \notin {"revoke", "gpuImage"}
    BY <1>6 DEF Answer, Asking, StrapSteps, Steps, Follow
  <2>2. CASE err' = None /\ UNCHANGED pc
    <3>1. Moved
      BY <1>6, <2>2 DEF Answer, Moved, IInv, TypeOK
    <3> QED
      BY <2>1, <2>2, <3>1, Moves
  <2>3. CASE Fail("RequirementError")
    BY <1>6, <2>1, <2>3, Fails DEF Answer, IInv, TypeOK, Errors
  <2> QED
    BY <1>6, <2>2, <2>3 DEF Answer
<1> QED
  BY <1>1, <1>2, <1>3, <1>4, <1>5, <1>6

\* What a pacstrap does to the target: a new keyring, and with the base system a
\* first image; the base transaction carries the keyring package.
LEMMA StrapStep == ASSUME IInv, Strap PROVE IInv'
<1> USE DEF Keep
<1>1. /\ pc \in Steps /\ pc \in StrapSteps /\ pc \notin {"revoke", "gpuImage"}
      /\ Wanted(pc) /\ req \in Request
      /\ req.cachyos => ~req.snapshots
      /\ UNCHANGED <<req, attempt, hooks, live, contained, synced>>
  BY InstallationAssumption
     DEF Strap, StrapSteps, Steps, Follow, InstallationAssumption, IInv, TypeOK
<1>2. req.cachyos => pc # "snapshots"
  BY <1>1 DEF Wanted
<1> DEFINE wiped == [target EXCEPT !.trust = FALSE]
           full  == Strapped(pc)
<1>3. /\ target \in Target /\ wiped \in Target
      /\ wiped.pkgs = target.pkgs /\ wiped.repositories = target.repositories
      /\ wiped.conf = target.conf /\ wiped.image = target.image
      /\ wiped.home = target.home /\ wiped.grant = target.grant
  BY DEF IInv, TypeOK, Target
<1>4. Packages(pc) \in SUBSET {"base", "keyring", "driver"}
  BY DEF Packages
<1>5. /\ full \in Target
      /\ full.pkgs = target.pkgs \cup Packages(pc)
      /\ full.trust = ("keyring" \in Packages(pc))
      /\ full.repositories = target.repositories /\ full.conf = target.conf
      /\ full.home = target.home /\ full.grant = target.grant
      /\ full.image = IF pc = "base" THEN NoImage ELSE target.image
  <2> DEFINE pkgs == target.pkgs \cup Packages(pc)
             trust == "keyring" \in Packages(pc)
             image == IF pc = "base" THEN NoImage ELSE target.image
  <2>1. /\ pkgs \in SUBSET {"base", "keyring", "driver"} /\ trust \in BOOLEAN
        /\ image \in [hooks : SUBSET Features, driver : BOOLEAN]
    BY <1>3, <1>4 DEF Target, NoImage
  <2>2. full = [target EXCEPT !.pkgs = pkgs, !.trust = trust, !.image = image]
    BY DEF Strapped
  <2> HIDE DEF pkgs, trust, image, full
  <2>3. /\ full \in Target /\ full.pkgs = pkgs /\ full.trust = trust /\ full.image = image
        /\ full.repositories = target.repositories /\ full.conf = target.conf
        /\ full.home = target.home /\ full.grant = target.grant
    BY <1>3, <2>1, <2>2 DEF Target
  <2> QED
    BY <2>3 DEF pkgs, trust, image
<1> HIDE DEF wiped, full
<1> USE DEF IInv, Passed, ToRepositories, ToConfigure, ToInitramfs, ToSplash, ToUki,
        ToUsers, ToDriver, ToGpuImage, AfterTrust, StrapSteps
\* A transaction that went through.
<1>6. ASSUME target' = full, pc' = Follow[pc], UNCHANGED err PROVE IInv'
  <2> DEFINE next == Follow[pc]
  <2>1. /\ next \in Steps \cup {"done"}
        /\ next # "failed" /\ next \notin {"scripts", "revoke", "initramfs", "upgrade"}
        /\ next \notin ToRepositories => pc \notin ToRepositories \ {"repositories"}
        /\ next \notin ToConfigure => pc \notin ToConfigure \ {"configure"}
        /\ next \notin ToInitramfs => pc \notin ToInitramfs \ {"initramfs"}
        /\ next \notin ToSplash => pc \notin ToSplash \ {"splash"}
        /\ next \notin ToUki => pc \notin ToUki \ {"uki"}
        /\ next \notin ToUsers => pc \notin ToUsers \ {"users"}
        /\ next \notin ToDriver => pc \notin ToDriver \ {"driver"}
        /\ next \notin ToGpuImage => pc \notin ToGpuImage \ {"gpuImage"}
        /\ next \in AfterTrust => pc \in AfterTrust \cup {"trust"}
        /\ next = "configure" <=> pc = "base"
    BY <1>1, Order, FollowType DEF Steps, Follow
  <2> HIDE DEF next
  <2>2. pc' = next
    BY <1>6 DEF next
  <2>3. TypeOK'
    BY <1>1, <1>5, <1>6, <2>1, <2>2 DEF TypeOK, Ended
  <2>4. RepositoriesInv'
    BY <1>1, <1>2, <1>5, <1>6, <2>1, <2>2 DEF RepositoriesInv, Packages
  <2>5. ImageInv'
    BY <1>1, <1>5, <1>6, <2>1, <2>2 DEF ImageInv, Packages
  <2>6. DotfilesInv'
    BY <1>1, <1>5, <1>6, <2>1, <2>2 DEF DotfilesInv
  <2> QED
    BY <2>3, <2>4, <2>5, <2>6
\* Every other outcome: the step is tried again, the attempt ends, or the AUR
\* helper and the dotfiles are given up.
<1>7. ASSUME target' = wiped \/ (target' = full /\ pc' = "failed"),
             pc' \in {pc, "failed", "git", "repair"},
             err' \in [kind : Errors, at : Steps] \cup {None},
             pc' = "git" => pc \in {"paru", "git"},
             pc' = "repair" => pc \in {"git", "staged"}
      PROVE  IInv'
  <2>1. TypeOK'
    BY <1>1, <1>3, <1>5, <1>7 DEF TypeOK, Ended, Steps, Follow
  <2>2. RepositoriesInv'
    BY <1>1, <1>2, <1>3, <1>5, <1>7 DEF RepositoriesInv
  <2>3. ImageInv'
    BY <1>1, <1>3, <1>5, <1>7 DEF ImageInv
  <2>4. DotfilesInv'
    BY <1>1, <1>3, <1>5, <1>7 DEF DotfilesInv
  <2> QED
    BY <2>1, <2>2, <2>3, <2>4
<1>8. err \in [kind : Errors, at : Steps] \cup {None}
  BY DEF TypeOK
<1>9. ASSUME Fail("RequirementError"), target' = wiped PROVE IInv'
  <2>1. "RequirementError" \in Errors /\ Follow["paru"] = "git"
    BY DEF Errors, Follow
  <2>2. /\ err' \in [kind : Errors, at : Steps] \cup {None}
        /\ \/ pc' = "failed"
           \/ pc' = "repair" /\ pc \in {"git", "staged"}
           \/ pc' = "git" /\ pc = "paru"
    BY <1>1, <1>8, <1>9, <2>1, Failing
  <2> QED
    BY <1>7, <1>9, <2>2
<1>10. ASSUME Fail("Other"), pc \in ServiceSteps, target' = full PROVE IInv'
  <2>1. "Other" \in Errors /\ pc \notin {"git", "staged", "paru", "scripts"}
    BY <1>10 DEF Errors, ServiceSteps
  <2>2. pc' = "failed" /\ err' \in [kind : Errors, at : Steps] \cup {None}
    BY <1>1, <1>8, <1>10, <2>1, Failing
  <2> QED
    BY <1>7, <1>10, <2>2
<1>11. ASSUME target' = wiped, UNCHANGED pc, err' = [kind |-> "RequirementError", at |-> pc]
       PROVE  IInv'
  <2>1. pc \notin {"repair", "failed"} /\ err' \in [kind : Errors, at : Steps]
    BY <1>1, <1>11 DEF Errors
  <2> QED
    BY <1>7, <1>8, <1>11, <2>1
<1> QED
  BY <1>1, <1>6, <1>9, <1>10, <1>11 DEF Strap, Ask, Proceed, wiped, full

\* How a step follows another, once for all proofs about steps that write.
LEMMA Advance ==
  ASSUME pc \in Steps, pc' = Follow[pc]
  PROVE  /\ pc' \in Steps \cup Ended
         /\ pc' # "failed"
         /\ pc' \notin ToRepositories => pc \notin ToRepositories \ {"repositories"}
         /\ pc' \notin ToConfigure => pc \notin ToConfigure \ {"configure"}
         /\ pc' \notin ToInitramfs => pc \notin ToInitramfs \ {"initramfs"}
         /\ pc' \notin ToSplash => pc \notin ToSplash \ {"splash"}
         /\ pc' \notin ToUki => pc \notin ToUki \ {"uki"}
         /\ pc' \notin ToUsers => pc \notin ToUsers \ {"users"}
         /\ pc' \notin ToDriver => pc \notin ToDriver \ {"driver"}
         /\ pc' \notin ToGpuImage => pc \notin ToGpuImage \ {"gpuImage"}
         /\ pc' \in AfterTrust => pc \in AfterTrust \cup {"trust"}
         /\ pc' = "configure" <=> pc = "base"
         /\ pc' = "initramfs" <=> pc = "configure"
         /\ pc' = "upgrade" <=> pc = "initramfs"
         /\ pc' = "scripts" <=> pc = "grant"
         /\ pc' = "revoke" <=> pc = "scripts"
         /\ pc' = "repair" <=> pc = "revoke"
<1>1. Follow[pc] \in Steps \cup {"done"}
  BY FollowType
<1>2. pc' \in Steps \cup Ended /\ pc' # "failed"
  BY <1>1 DEF Ended, Steps, Follow
<1> QED
  BY <1>2, Order

\* The fork's repositories: key and stanzas on the live medium, trust in the target.
LEMMA RepositorySteps ==
  ASSUME IInv, ImportKey \/ EnableRepositories \/ RestoreTrust PROVE IInv'
<1> USE DEF Keep, At
<1> DEFINE key == [live EXCEPT !.key = TRUE]
           enabled == [live EXCEPT !.repositories = TRUE]
           trusted == [target EXCEPT !.trust = TRUE]
<1>1. /\ key \in [key : BOOLEAN, repositories : BOOLEAN]
      /\ key.repositories = live.repositories
      /\ enabled \in [key : BOOLEAN, repositories : BOOLEAN]
      /\ enabled.repositories
  BY DEF IInv, TypeOK
<1>2. /\ target \in Target /\ trusted \in Target /\ trusted.trust
      /\ trusted.pkgs = target.pkgs /\ trusted.repositories = target.repositories
      /\ trusted.conf = target.conf /\ trusted.image = target.image
      /\ trusted.home = target.home /\ trusted.grant = target.grant
  BY DEF IInv, TypeOK, Target
<1>3. pc \in Steps /\ pc \in {"key", "repositories", "trust"}
      /\ UNCHANGED <<req, attempt, hooks, synced, contained>>
  BY DEF ImportKey, EnableRepositories, RestoreTrust, Steps, Follow
<1> HIDE DEF key, enabled, trusted
<1>4. ASSUME Fail("Other"), UNCHANGED <<live, target>> PROVE IInv'
  BY <1>3, <1>4, Fails DEF Errors, IInv, TypeOK
<1>5. ASSUME Proceed, \/ pc = "key" /\ live' = key /\ target' = target
                      \/ pc = "repositories" /\ live' = enabled /\ target' = target
                      \/ pc = "trust" /\ live' = live /\ target' = trusted
      PROVE  IInv'
  <2> USE DEF IInv, Passed, ToRepositories, ToConfigure, ToInitramfs, ToSplash, ToUki,
          ToUsers, ToDriver, ToGpuImage, AfterTrust
  <2>1. pc' = Follow[pc] /\ UNCHANGED err
    BY <1>5 DEF Proceed
  <2>2. TypeOK'
    BY <1>1, <1>2, <1>3, <1>5, <2>1, Advance DEF TypeOK
  <2>3. RepositoriesInv'
    BY <1>1, <1>2, <1>3, <1>5, <2>1, Advance DEF RepositoriesInv
  <2>4. ImageInv'
    BY <1>1, <1>2, <1>3, <1>5, <2>1, Advance DEF ImageInv
  <2>5. DotfilesInv'
    BY <1>1, <1>2, <1>3, <1>5, <2>1, Advance DEF DotfilesInv
  <2> QED
    BY <2>2, <2>3, <2>4, <2>5
<1>6. ASSUME pc = "repositories", NEW written \in BOOLEAN,
             live' = [live EXCEPT !.repositories = written],
             UNCHANGED target, Fail("Other")
      PROVE  IInv'
  <2>1. pc' = "failed" /\ err' = [kind |-> "Other", at |-> pc]
    BY <1>6 DEF Fail, Caught
  <2>2. TypeOK'
    BY <1>3, <1>6, <2>1 DEF IInv, TypeOK, Ended, Errors
  <2>3. RepositoriesInv'
    BY <2>1, <1>3 DEF RepositoriesInv, Passed, AfterTrust
  <2>4. ImageInv'
    BY <2>1, <1>3 DEF ImageInv, Passed
  <2>5. DotfilesInv'
    BY <2>1, <1>3, <1>6 DEF IInv, DotfilesInv, Passed
  <2> QED
    BY <2>2, <2>3, <2>4, <2>5 DEF IInv
<1>7. CASE EnableRepositories
  BY <1>3, <1>5, <1>6, <1>7 DEF EnableRepositories, enabled
<1> QED
  BY <1>3, <1>4, <1>5, <1>7
     DEF ImportKey, RestoreTrust, key, trusted

\* The live pacman.conf reaches the target, and the encryption the hooks.
LEMMA ConfigureStep == ASSUME IInv, Configure PROVE IInv'
<1> USE DEF Keep, At
<1> DEFINE copied == [target EXCEPT !.repositories = live.repositories]
<1>1. /\ target \in Target /\ copied \in Target
      /\ copied.repositories = live.repositories
      /\ copied.pkgs = target.pkgs /\ copied.trust = target.trust
      /\ copied.conf = target.conf /\ copied.image = target.image
      /\ copied.home = target.home /\ copied.grant = target.grant
  BY DEF IInv, TypeOK, Target
<1>2. /\ pc = "configure" /\ pc \in Steps /\ target' = copied
      /\ hooks' \in SUBSET Features /\ (req.encrypted => "encrypt" \in hooks')
      /\ UNCHANGED <<req, attempt, live, synced, contained>>
  BY DEF Configure, Steps, Follow, Features
<1> HIDE DEF copied
<1> USE DEF IInv, Passed, ToRepositories, ToConfigure, ToInitramfs, ToSplash, ToUki,
        ToUsers, ToDriver, ToGpuImage, AfterTrust
<1>3. ASSUME NEW kind \in Errors, Fail(kind) PROVE IInv'
  <2>1. err \in [kind : Errors, at : Steps] \cup {None}
    BY DEF TypeOK
  <2>2. pc' = "failed" /\ err' \in [kind : Errors, at : Steps] \cup {None}
    BY <1>2, <1>3, <2>1, Failing
  <2>3. TypeOK'
    BY <1>1, <1>2, <2>2 DEF TypeOK, Ended
  <2> QED
    BY <1>1, <1>2, <2>2, <2>3 DEF RepositoriesInv, ImageInv, DotfilesInv
<1>4. CASE Proceed
  <2>1. pc' = Follow[pc] /\ UNCHANGED err
    BY <1>4 DEF Proceed
  <2>2. TypeOK'
    BY <1>1, <1>2, <2>1, Advance DEF TypeOK
  <2>3. RepositoriesInv'
    BY <1>1, <1>2, <2>1, Advance DEF RepositoriesInv
  <2>4. ImageInv'
    BY <1>1, <1>2, <2>1, Advance DEF ImageInv
  <2>5. DotfilesInv'
    BY <1>1, <1>2, <2>1, Advance DEF DotfilesInv
  <2> QED
    BY <2>2, <2>3, <2>4, <2>5
<1> QED
  BY <1>2, <1>3, <1>4 DEF Configure, Errors

\* What an image is built from.
LEMMA ImageType ==
  ASSUME TypeOK, NEW conf \in SUBSET Features
  PROVE  /\ Image(conf) \in [hooks : SUBSET Features, driver : BOOLEAN]
         /\ Image(conf).hooks = conf
         /\ Image(conf).driver = ("driver" \in target.pkgs)
BY DEF Image

\* The three places that write mkinitcpio.conf and build the image.
LEMMA ImageSteps == ASSUME IInv, BuildImage \/ Splash PROVE IInv'
<1> USE DEF Keep, At
<1> DEFINE image == Image(hooks')
           built == [target EXCEPT !.conf = hooks', !.image = image]
           written == [target EXCEPT !.conf = hooks']
<1>1. /\ pc \in {"initramfs", "uki", "splash"} /\ pc \in Steps
      /\ hooks \in SUBSET Features /\ hooks' \in SUBSET Features
      /\ pc \in {"initramfs", "uki"} => hooks' = hooks
      /\ pc = "initramfs" => ~req.uki
      /\ pc = "uki" => req.uki /\ req.bootloader
      /\ pc = "splash" => hooks' = hooks \cup {"plymouth"}
      /\ UNCHANGED <<req, attempt, live, synced>>
  BY DEF BuildImage, Splash, Wanted, Steps, Follow, Features, IInv, TypeOK
<1>2. /\ image \in [hooks : SUBSET Features, driver : BOOLEAN]
      /\ image.hooks = hooks'
  BY <1>1, ImageType DEF IInv
<1> HIDE DEF image
<1>3. /\ target \in Target /\ built \in Target /\ written \in Target
      /\ built.image = image /\ built.conf = hooks'
      /\ built.pkgs = target.pkgs /\ built.repositories = target.repositories
      /\ built.trust = target.trust /\ built.home = target.home /\ built.grant = target.grant
      /\ written.image = target.image /\ written.conf = hooks'
      /\ written.pkgs = target.pkgs /\ written.repositories = target.repositories
      /\ written.trust = target.trust /\ written.home = target.home
      /\ written.grant = target.grant
  BY <1>1, <1>2 DEF IInv, TypeOK, Target
<1> HIDE DEF built, written
<1> USE DEF IInv, Passed, ToRepositories, ToConfigure, ToInitramfs, ToSplash, ToUki,
        ToUsers, ToDriver, ToGpuImage, AfterTrust
<1>4. ASSUME Proceed, \/ target' = built /\ UNCHANGED contained
                      \/ target' = written /\ contained' = contained \cup {"image"}
      PROVE  IInv'
  <2>1. pc' = Follow[pc] /\ UNCHANGED err
    BY <1>4 DEF Proceed
  <2>2. TypeOK'
    BY <1>1, <1>3, <1>4, <2>1, Advance DEF TypeOK
  <2>3. RepositoriesInv'
    BY <1>1, <1>3, <1>4, <2>1, Advance DEF RepositoriesInv
  <2>4. ImageInv'
    BY <1>1, <1>2, <1>3, <1>4, <2>1, Advance DEF ImageInv
  <2>5. DotfilesInv'
    BY <1>1, <1>3, <1>4, <2>1, Advance DEF DotfilesInv
  <2> QED
    BY <2>2, <2>3, <2>4, <2>5
<1>5. ASSUME NEW kind \in {"SysCallError", "Other"}, Fail(kind),
             UNCHANGED <<target, contained>>, pc \in {"splash", "uki"}
      PROVE  IInv'
  <2>1. err \in [kind : Errors, at : Steps] \cup {None} /\ kind \in Errors
    BY DEF TypeOK, Errors
  <2>2. pc' = "failed" /\ err' \in [kind : Errors, at : Steps] \cup {None}
    BY <1>1, <1>5, <2>1, Failing
  <2>3. TypeOK'
    BY <1>1, <1>5, <2>2 DEF TypeOK, Ended
  <2> QED
    BY <1>1, <1>5, <2>2, <2>3 DEF RepositoriesInv, ImageInv, DotfilesInv
<1> QED
  BY <1>4, <1>5 DEF BuildImage, Splash, Mkinitcpio, built, written, image

\* mkinitcpio -P in the target.
LEMMA RebuildStep == ASSUME IInv, RebuildImage PROVE IInv'
<1> USE DEF Keep, At
<1> DEFINE image == Image(target.conf)
           built == [target EXCEPT !.image = image]
<1>1. /\ pc \in {"upgradeImage", "gpuImage"} /\ pc \in Steps
      /\ target \in Target /\ target.conf \in SUBSET Features
      /\ UNCHANGED <<req, attempt, live, synced, hooks>>
      /\ err \in [kind : Errors, at : Steps] \cup {None} /\ "SysCallError" \in Errors
  BY DEF RebuildImage, Steps, Follow, IInv, TypeOK, Target, Errors
<1>2. /\ image \in [hooks : SUBSET Features, driver : BOOLEAN]
      /\ image.hooks = target.conf /\ image.driver = ("driver" \in target.pkgs)
  BY <1>1, ImageType DEF IInv
<1> HIDE DEF image
<1>3. /\ built \in Target /\ built.image = image /\ built.conf = target.conf
      /\ built.pkgs = target.pkgs /\ built.repositories = target.repositories
      /\ built.trust = target.trust /\ built.home = target.home /\ built.grant = target.grant
  BY <1>1, <1>2 DEF Target
<1> HIDE DEF built
<1>4. \/ Proceed /\ target' = built /\ UNCHANGED contained
      \/ Fail("SysCallError") /\ UNCHANGED target /\ contained' = contained \cup {"image"}
  BY DEF RebuildImage, built, image
<1>5. ASSUME Fail("SysCallError") PROVE pc' = Follow[pc] /\ UNCHANGED err
  BY <1>1, <1>5 DEF Fail, Caught, Handler
<1>6. pc' = Follow[pc] /\ UNCHANGED err
  BY <1>4, <1>5 DEF Proceed
<1> USE DEF IInv, Passed, ToRepositories, ToConfigure, ToInitramfs, ToSplash, ToUki,
        ToUsers, ToDriver, ToGpuImage, AfterTrust
<1>7. TypeOK'
  BY <1>1, <1>3, <1>4, <1>6, Advance DEF TypeOK
<1>8. RepositoriesInv'
  BY <1>1, <1>3, <1>4, <1>6, Advance DEF RepositoriesInv
<1>9. ImageInv'
  BY <1>1, <1>2, <1>3, <1>4, <1>6, Advance DEF ImageInv
<1>10. DotfilesInv'
  BY <1>1, <1>3, <1>4, <1>6, Advance DEF DotfilesInv
<1> QED
  BY <1>7, <1>8, <1>9, <1>10

\* The home directory and the temporary sudo rule.
LEMMA UserSteps ==
  ASSUME IInv, CreateUsers \/ Grant \/ RunScripts \/ Revoke \/ RepairHome PROVE IInv'
<1> USE DEF Keep, At
<1> DEFINE home(h) == [target EXCEPT !.home = h]
           grant(ok) == [target EXCEPT !.grant = ok]
<1>1. /\ pc \in {"users", "grant", "scripts", "revoke", "repair"} /\ pc \in Steps
      /\ target \in Target
      /\ UNCHANGED <<req, attempt, live, synced, hooks>>
      /\ err \in [kind : Errors, at : Steps] \cup {None}
      /\ {"SysCallError", "Other"} \subseteq Errors
  BY DEF CreateUsers, Grant, RunScripts, Revoke, RepairHome, Steps, Follow, IInv, TypeOK, Errors
<1>2. ASSUME NEW h \in {"owned", "mixed"}
      PROVE  /\ home(h) \in Target /\ home(h).home = h /\ home(h).image = target.image
             /\ home(h).pkgs = target.pkgs /\ home(h).repositories = target.repositories
             /\ home(h).conf = target.conf /\ home(h).trust = target.trust
             /\ home(h).grant = target.grant
  BY <1>1 DEF Target
<1>3. ASSUME NEW ok \in BOOLEAN
      PROVE  /\ grant(ok) \in Target /\ grant(ok).grant = ok /\ grant(ok).image = target.image
             /\ grant(ok).pkgs = target.pkgs /\ grant(ok).repositories = target.repositories
             /\ grant(ok).conf = target.conf /\ grant(ok).trust = target.trust
             /\ grant(ok).home = target.home
  BY <1>1 DEF Target
<1>4. ASSUME CreateUsers
      PROVE  /\ pc = "users"
             /\ \/ target' = home("owned") /\ pc' = Follow[pc] /\ UNCHANGED <<err, contained>>
                \/ Fail("Other") /\ UNCHANGED <<target, contained>>
  BY <1>4 DEF CreateUsers, Proceed
<1>5. ASSUME Grant
      PROVE  /\ pc = "grant" /\ req.dotfiles = "ML4W"
             /\ \E ok \in BOOLEAN : target' = grant(ok)
             /\ contained' \in {contained, contained \cup {"grant"}}
             /\ pc' = Follow[pc] /\ UNCHANGED err
  BY <1>5 DEF Grant, Proceed, Wanted
<1>6. ASSUME RunScripts
      PROVE  /\ pc = "scripts" /\ req.dotfiles # "NoSuite" /\ UNCHANGED contained
             /\ \E h \in {"owned", "mixed"} :
                  target' = home(h) /\ (h = "mixed" => target.grant)
             /\ pc' = Follow[pc] /\ UNCHANGED err
  <2>1. "SysCallError" \in Caught("scripts") /\ Handler("scripts") = Follow["scripts"]
    BY DEF Caught, Handler
  <2> QED
    BY <1>6, <2>1 DEF RunScripts, Proceed, Wanted, Fail
<1>7. ASSUME Revoke
      PROVE  /\ pc = "revoke" /\ pc' \in {Follow[pc], "failed"} /\ UNCHANGED err
             /\ \/ target' = grant(FALSE) /\ UNCHANGED contained
                \/ UNCHANGED target /\ contained' = contained \cup {"revoke"}
                \/ UNCHANGED <<target, contained>> /\ "grant" \in contained
  BY <1>7 DEF Revoke
<1>8. ASSUME RepairHome
      PROVE  /\ pc = "repair" /\ pc' = Follow[pc] /\ UNCHANGED err
             /\ \/ target' = home("owned") /\ UNCHANGED contained
                \/ UNCHANGED target /\ contained' = contained \cup {"repair"}
  BY <1>8 DEF RepairHome, Proceed
<1> HIDE DEF home, grant
\* What these steps leave alone.
<1>9. /\ target' \in Target /\ err' \in [kind : Errors, at : Steps] \cup {None}
      /\ target'.pkgs = target.pkgs /\ target'.repositories = target.repositories
      /\ target'.conf = target.conf /\ target'.trust = target.trust
      /\ target'.image = target.image
      /\ contained' \in {contained, contained \cup {"grant"}, contained \cup {"revoke"},
                        contained \cup {"repair"}}
      /\ pc' \in {Follow[pc], "failed"}
  <2>1. CASE Fail("Other") /\ pc = "users" /\ UNCHANGED <<target, contained>>
    <3>1. pc' = "failed" /\ err' \in [kind : Errors, at : Steps] \cup {None}
      BY <1>1, <2>1, Failing
    <3> QED
      BY <1>1, <2>1, <3>1
  <2>2. CASE ~(Fail("Other") /\ pc = "users" /\ UNCHANGED <<target, contained>>)
    BY <1>1, <1>2, <1>3, <1>4, <1>5, <1>6, <1>7, <1>8, <2>2
  <2> QED
    BY <2>1, <2>2
<1>10. /\ pc = "users" /\ pc' # "failed" => target'.home = "owned"
       /\ pc \notin {"scripts", "repair", "users"} => target'.home = target.home
       /\ pc = "users" => target'.home \in {target.home, "owned"}
       /\ pc = "scripts" => /\ target'.home \in {"owned", "mixed"}
                            /\ target'.home = "mixed" => target.grant
       /\ pc = "repair" => target'.home = "owned"
                           \/ (target'.home = target.home /\ "repair" \in contained')
       /\ pc \notin {"grant", "revoke"} => target'.grant = target.grant
       /\ pc = "grant" => req.dotfiles = "ML4W"
       /\ pc = "revoke" => \/ ~target'.grant
                           \/ target'.grant = target.grant
                              /\ {"grant", "revoke"} \cap contained' # {}
       /\ pc \in {"grant", "scripts"} => pc' = Follow[pc]
  <2>1. CASE Fail("Other") /\ pc = "users" /\ UNCHANGED <<target, contained>>
    <3>1. pc' = "failed"
      BY <1>1, <2>1, Failing
    <3> QED
      BY <1>1, <2>1, <3>1
  <2>2. CASE ~(Fail("Other") /\ pc = "users" /\ UNCHANGED <<target, contained>>)
    BY <1>1, <1>2, <1>3, <1>4, <1>5, <1>6, <1>7, <1>8, <2>2
  <2> QED
    BY <2>1, <2>2
<1>11. "failed" \in Ended /\ "failed" \notin AfterTrust
  BY DEF Ended, AfterTrust
<1> USE DEF IInv, Passed, ToRepositories, ToConfigure, ToInitramfs, ToSplash, ToUki,
        ToUsers, ToDriver, ToGpuImage, AfterTrust
<1>12. TypeOK'
  BY <1>1, <1>9, <1>11, Advance DEF TypeOK
<1>13. RepositoriesInv'
  BY <1>1, <1>9, Advance DEF RepositoriesInv
<1>14. ImageInv'
  BY <1>1, <1>9, Advance DEF ImageInv
<1>15. DotfilesInv'
  BY <1>1, <1>9, <1>10, Advance DEF DotfilesInv
<1> QED
  BY <1>12, <1>13, <1>14, <1>15

\* A new attempt meets an empty target on the live medium the last one left.
LEMMA RestartStep == ASSUME IInv, Restart PROVE IInv'
<1> USE InstallationAssumption DEF InstallationAssumption, Restart, EmptyTarget, NoImage
<1>1. TypeOK'
  <2>1. attempt' \in 1..MaxAttempts
    BY DEF IInv, TypeOK
  <2>2. pc' \in Steps
    BY DEF Steps, Follow
  <2>3. target' \in Target
    BY DEF Target
  <2> QED
    BY <2>1, <2>2, <2>3 DEF IInv, TypeOK
<1>2. RepositoriesInv' /\ ImageInv' /\ DotfilesInv'
  BY DEF RepositoriesInv, ImageInv, DotfilesInv, Passed, AfterTrust, ToRepositories,
         ToConfigure, ToInitramfs, ToSplash, ToUki, ToUsers, ToDriver, ToGpuImage
<1> QED
  BY <1>1, <1>2 DEF IInv

\* The inductive invariant.
LEMMA Invariance == Spec => []IInv
<1>1. ASSUME IInv, [Next]_vars PROVE IInv'
  <2>1. CASE UNCHANGED vars
    BY <1>1, <2>1 DEF vars, IInv, TypeOK, RepositoriesInv, ImageInv, DotfilesInv, Passed
  <2>2. CASE Next
    BY <1>1, <2>2, ControlSteps, StrapStep, RepositorySteps, ConfigureStep, ImageSteps,
       RebuildStep, UserSteps, RestartStep DEF Next, Step
  <2> QED
    BY <1>1, <2>1, <2>2
<1> QED
  BY Initial, <1>1, PTL DEF Spec
-----------------------------------------------------------------------------
\* Every variable keeps its type, whatever fails and however often the program
\* is started again.
THEOREM InstallationTypeCorrect == Spec => []TypeOK
BY Invariance, PTL DEF IInv

\* A finished installation that asked for the CachyOS repositories trusts their
\* key: no package transaction follows the step that restores the trust.
THEOREM TrustSurvives == Spec => []TrustedAtTheEnd
<1>1. IInv => TrustedAtTheEnd
  BY DEF IInv, RepositoriesInv, TrustedAtTheEnd, AfterTrust
<1> QED
  BY <1>1, Invariance, PTL

\* The upgrade inside the target finds the repositories, the keyring package
\* and its trust, in a first attempt as in a later one.
THEOREM UpgradeIsReady == Spec => []UpgradeMeetsTrustedRepositories
<1>1. IInv => UpgradeMeetsTrustedRepositories
  BY DEF IInv, RepositoriesInv, UpgradeMeetsTrustedRepositories
<1> QED
  BY <1>1, Invariance, PTL

\* The image a finished system boots was built after the last feature that
\* needs it was configured, or its failure was reported.
THEOREM ImageCurrent == Spec => []ImageIsCurrent
<1>1. IInv => ImageIsCurrent
  BY DEF IInv, ImageInv, ImageIsCurrent, Passed, ToConfigure, ToRepositories,
         ToInitramfs, ToSplash, ToUki, ToUsers, ToDriver, ToGpuImage
<1> QED
  BY <1>1, Invariance, PTL

\* The passwordless sudo rule never outlives the scripts of ML4W unnoticed.
THEOREM GrantIsTemporary == Spec => []GrantRevoked
<1>1. IInv => GrantRevoked
  BY DEF IInv, DotfilesInv, GrantRevoked
<1> QED
  BY <1>1, Invariance, PTL

\* No path through the deployment of the dotfiles leaves files of root in the
\* home directory of a finished system unnoticed.
THEOREM HomeIsRepaired == Spec => []HomeRepaired
<1>1. IInv => HomeRepaired
  <2> SUFFICES ASSUME IInv, pc = "done"
               PROVE  target.home = "owned" \/ "repair" \in contained
    BY DEF HomeRepaired
  <2>1. target.home \in {"absent", "owned", "mixed"}
    BY DEF IInv, TypeOK, Target
  <2> QED
    BY <2>1 DEF IInv, DotfilesInv, Passed, ToUsers, ToUki, ToSplash, ToInitramfs,
                ToConfigure, ToRepositories
<1> QED
  BY <1>1, Invariance, PTL
=============================================================================
