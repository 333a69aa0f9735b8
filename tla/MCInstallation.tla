--------------------------- MODULE MCInstallation ---------------------------
(***************************************************************************)
(* Instances of Installation: requests in which every step is wanted and   *)
(* not wanted, each suite of dotfiles, and two starts on one live medium.  *)
(***************************************************************************)
EXTENDS Installation

Plainest ==
  [silent |-> FALSE, early |-> FALSE, encrypted |-> FALSE, swap |-> FALSE,
   bootloader |-> TRUE, uki |-> FALSE, plymouth |-> FALSE, desktop |-> FALSE,
   driver |-> FALSE, snapshots |-> FALSE, hooks |-> FALSE, cachyos |-> FALSE,
   greetd |-> FALSE, nvidia |-> FALSE, paru |-> FALSE, dotfiles |-> "NoSuite"]

\* The automated preset on UEFI, and custom choices that differ from it.
Preset ==
  [Plainest EXCEPT !.swap = TRUE, !.uki = TRUE, !.desktop = TRUE, !.driver = TRUE,
                   !.hooks = TRUE, !.cachyos = TRUE, !.greetd = TRUE, !.nvidia = TRUE,
                   !.paru = TRUE, !.dotfiles = "Ambxst"]

MCRequests ==
  { Plainest,
    [Plainest EXCEPT !.silent = TRUE, !.encrypted = TRUE, !.early = TRUE, !.snapshots = TRUE],
    [Plainest EXCEPT !.silent = TRUE, !.encrypted = TRUE, !.uki = TRUE, !.plymouth = TRUE,
                     !.driver = TRUE, !.desktop = TRUE],
    [Plainest EXCEPT !.encrypted = TRUE, !.plymouth = TRUE],
    [Plainest EXCEPT !.encrypted = TRUE, !.uki = TRUE, !.bootloader = FALSE],
    Preset,
    [Preset EXCEPT !.uki = FALSE, !.early = TRUE, !.dotfiles = "ML4W", !.paru = FALSE],
    [Preset EXCEPT !.cachyos = FALSE, !.dotfiles = "ML4W", !.nvidia = FALSE] }
=============================================================================
