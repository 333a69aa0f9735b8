----------------------------- MODULE MCDiskMenu -----------------------------
(***************************************************************************)
(* A small disk and a large one, beside tables of the editor: an ESP that  *)
(* is kept, a new root, swap space, a data partition.                      *)
(***************************************************************************)
EXTENDS DiskMenu, TLC

P(name, at, boot, swap, exists, subvols) ==
  [name |-> name, at |-> at, boot |-> boot, swap |-> swap, exists |-> exists, subvols |-> subvols, size |-> 10]

MCSizes == ("sda" :> 33) @@ ("sdb" :> 330)

MCTables ==
  { { P("esp", "/efi", TRUE, FALSE, TRUE, FALSE), P("root", "none", FALSE, FALSE, FALSE, TRUE) },
    { P("swap", "none", FALSE, TRUE, FALSE, FALSE), P("root", "/", FALSE, FALSE, FALSE, FALSE), P("data", "none", FALSE, FALSE, FALSE, FALSE) } }

MCMounted == { P("root", "/", FALSE, FALSE, TRUE, FALSE) }
=============================================================================
