------------------------------ MODULE DiskLayout ------------------------------
(***************************************************************************)
(* The arithmetic of disk layouts: archinstall/lib/models/device.py (Size, *)
(* PartitionModification, the checks of DiskLayoutConfiguration.parse_arg) *)
(* and the single disk suggestion of archinstall/lib/disk/disk_menu.py.    *)
(* Positions and lengths are numbers of sectors.                           *)
(***************************************************************************)
EXTENDS Integers, Sequences

CONSTANT MiB        \* sectors in one MiB: 2048, or 256 for 4 KiB sectors

ASSUME MiBAssumption == MiB \in Nat \ {0}

GiB == 1024 * MiB

NoMount == "none"

-----------------------------------------------------------------------------
(* Size. *)

\* __sub__ takes the absolute value: a difference never is negative.
Minus(a, b) == IF a < b THEN b - a ELSE a - b

Align(n) == Minus(n, n % MiB)

\* The backup header of a GPT is at the end of the device.
GptEnd(n) == Minus(n, MiB)

\* A mutation: the backup header is forgotten.
UsableEndOfDevice(total, gpt) == Align(total)

UsableEnd(total, gpt) == Align(IF gpt THEN GptEnd(total) ELSE total)

-----------------------------------------------------------------------------
(* PartitionModification. subvols says whether a subvolume is mounted at /. *)

PartitionEnd(p) == p.start + p.len
IsRoot(p) == IF p.mount = NoMount THEN p.subvols ELSE p.mount = "/"
IsHome(p) == p.mount = "/home"
IsSwap(p) == p.fs = "swap"
IsDelete(p) == p.status = "delete"

NewPartition(id, start, len, fs, mount, flags) ==
    [id |-> id, status |-> "create", start |-> start, len |-> len, fs |-> fs,
     mount |-> mount, flags |-> flags, subvols |-> FALSE]

-----------------------------------------------------------------------------
(* suggest_single_disk_layout. fs "plain" stands for every filesystem that  *)
(* has no rule of its own.                                                  *)

BootFlags(gpt) == IF gpt THEN {"BOOT", "ESP"} ELSE {"BOOT"}

BootPartition(id, gpt) == NewPartition(id, MiB, GiB, "plain", "/boot", BootFlags(gpt))

\* process_root_partition_size
RootSize(total) ==
    LET n == total \div GiB
    IN  (CASE n > 500 -> 50 [] n < 320 -> 32 [] OTHER -> n \div 10) * GiB

SeparateHome(total, subvols, home) == home /\ ~subvols /\ total >= 64 * GiB

SuggestedRoot(id, total, gpt, fs, subvols, home) ==
    LET start == PartitionEnd(BootPartition(id, gpt))
    IN  [NewPartition(id, start,
                      IF SeparateHome(total, subvols, home)
                      THEN RootSize(total)
                      ELSE Minus(UsableEnd(total, gpt), start),
                      fs, IF subvols THEN NoMount ELSE "/", {})
         EXCEPT !.subvols = subvols]

SuggestedHome(id, total, gpt, fs, root) ==
    NewPartition(id, PartitionEnd(root), Minus(UsableEnd(total, gpt), PartitionEnd(root)),
                 fs, "/home", IF gpt THEN {"LINUX_HOME"} ELSE {})

SuggestSingle(id, total, gpt, fs, subvols, home) ==
    LET boot == BootPartition(id, gpt)
        root == SuggestedRoot(id + 1, total, gpt, fs, subvols, home)
    IN  IF SeparateHome(total, subvols, home)
        THEN <<boot, root, SuggestedHome(id + 2, total, gpt, fs, root)>>
        ELSE <<boot, root>>

-----------------------------------------------------------------------------
(* The checks a saved layout has to pass when it is loaded again: the        *)
(* partitions that stay or come, in the order of their starts.               *)

Live(parts) == {i \in DOMAIN parts : ~IsDelete(parts[i])}
Created(parts) == {i \in Live(parts) : parts[i].status = "create"}

StartsBefore(parts, i, j) ==
    \/ parts[i].start < parts[j].start
    \/ parts[i].start = parts[j].start /\ i < j

Follows(parts, i, j) ==
    /\ StartsBefore(parts, i, j)
    /\ ~\E k \in Live(parts) : StartsBefore(parts, i, k) /\ StartsBefore(parts, k, j)

Loads(total, gpt, parts) ==
    /\ \A i \in Created(parts) :
          (\A j \in Live(parts) : ~StartsBefore(parts, j, i)) => parts[i].start >= MiB
    /\ \A i \in Live(parts), j \in Created(parts) :
          Follows(parts, i, j) => parts[j].start >= PartitionEnd(parts[i])
    /\ \A i \in Created(parts) :
          parts[i].start = Align(parts[i].start) /\ parts[i].len = Align(parts[i].len)
    /\ \A i \in Created(parts) :
          (\A j \in Created(parts) : ~StartsBefore(parts, i, j))
              => PartitionEnd(parts[i]) <= IF gpt THEN GptEnd(total) ELSE Align(total)

=============================================================================
