-------------------------- MODULE MCPartitionEditor --------------------------
(***************************************************************************)
(* Disks for the editor, with a MiB of four sectors: a GPT disk with gaps  *)
(* before, between and behind its partitions, most of them on an MBR disk  *)
(* that gets a GPT when wiped, and two empty disks large enough for a      *)
(* /home partition, one of which gets an MBR when wiped.                   *)
(***************************************************************************)
EXTENDS PartitionEditor

MCExisting(id, start, len, fs, flags) ==
    [id |-> id, status |-> "exist", start |-> start, len |-> len, fs |-> fs,
     mount |-> NoMount, flags |-> flags, subvols |-> FALSE]

MCTotal == 2 * GiB + 11

\* A BIOS boot partition below the first MiB, free space, swap space, free space,
\* a LUKS container, free space.
MCParts ==
    <<MCExisting(1, 1, 3, "unknown", {}),
      MCExisting(2, 16, 8, "swap", {"SWAP"}),
      MCExisting(3, 40, 2 * GiB - 60, "luks", {})>>

MCDisk(gpt, made, parts) ==
    [total |-> MCTotal, gpt |-> gpt, made |-> made,
     parts |-> [n \in DOMAIN parts |-> [parts[n] EXCEPT !.id = n]]]

MCDisks ==
    {MCDisk(TRUE, TRUE, MCParts),
     MCDisk(FALSE, TRUE, Tail(MCParts)),
     [MCDisk(TRUE, TRUE, <<>>) EXCEPT !.total = 70 * GiB + 1],
     [MCDisk(TRUE, FALSE, <<>>) EXCEPT !.total = 400 * GiB]}

\* Less than the buffer, and not a multiple of it.
MCTypedSizes == {3, 9}

MCMountpoints == {"/boot", "/home"}

=============================================================================
