--------------------------- MODULE InstallConsent ---------------------------
(***************************************************************************)
(* What the guided script promises about the user's disks, whatever is     *)
(* asked and in whichever order: a device is modified only after a layout  *)
(* was agreed to, only the device of that layout is modified, and no other *)
(* layout can be agreed to afterwards.                                     *)
(*                                                                         *)
(* GuidedSession implements this module (see GuidedSession!Consent).       *)
(***************************************************************************)
CONSTANTS
  Disks,    \* the block devices of the machine
  Layouts,  \* disk layouts, records with a field dev \in Disks
  None      \* no layout

VARIABLES
  agreed,   \* the layout the user agreed to, or None
  touched   \* devices whose partition table or file systems were modified

vars == <<agreed, touched>>

Init ==
  /\ agreed = None
  /\ touched = {}

\* The user (or the caller of a silent run) accepts a layout, once.
Agree(l) ==
  /\ agreed = None
  /\ touched = {}
  /\ agreed' = l
  /\ UNCHANGED touched

\* The device of the accepted layout is partitioned and formatted.
Modify ==
  /\ agreed # None
  /\ touched' = touched \cup {agreed.dev}
  /\ UNCHANGED agreed

Next ==
  \/ \E l \in Layouts : Agree(l)
  \/ Modify

Spec == Init /\ [][Next]_vars
=============================================================================
