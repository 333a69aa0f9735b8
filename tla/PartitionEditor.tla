--------------------------- MODULE PartitionEditor ---------------------------
(***************************************************************************)
(* Manual partitioning of one disk: PartitioningList of                    *)
(* archinstall/lib/disk/partitioning_menu.py over the ListManager of       *)
(* archinstall/lib/menu/list_manager.py, opened again and again by         *)
(* select_disk_config with the layout confirmed last.                      *)
(*                                                                         *)
(* The list on the screen, data, holds the partitions and, between them,   *)
(* the free space of the disk; each action of the list is an action here.  *)
(* Left out are mount options, which nothing below reads, and "Remove all  *)
(* newly added partitions", which is not among the actions the list is     *)
(* given (display_actions[:1] and [2:]).                                   *)
(***************************************************************************)
EXTENDS DiskLayout, FiniteSets, SequencesExt

CONSTANTS
    Disks,        \* disks: [total, gpt, made, parts]; gpt and made say whether the
                  \* table on it, and one made by wiping it, is a GPT; parts is
                  \* what is on it
    TypedSizes,   \* the lengths a user types for a new partition
    Mountpoints,  \* the mount points a user types
    MaxEdits,     \* bound: changes of the list, over all openings
    MaxListed     \* bound: partitions listed when another one is created

VARIABLES
    disk,         \* the disk the editor works on
    layout,       \* the layout select_disk_config keeps: [wipe, parts]
    at,           \* "menu" or "list"
    wipe,         \* PartitioningList._wipe
    usingGpt,     \* PartitioningList._using_gpt
    data,         \* ListManager._data: partitions and free space
    edits

Filesystems == {"plain", "btrfs", "swap"}

PartitionType ==
    [id : Nat, status : {"exist", "modify", "create", "delete"}, start : Nat, len : Nat,
     fs : Filesystems \cup {"luks", "unknown"},
     mount : Mountpoints \cup {NoMount, "/", "/boot", "/home"},
     flags : SUBSET {"BOOT", "ESP", "XBOOTLDR", "SWAP", "LINUX_HOME"}, subvols : BOOLEAN]

\* A disk holds the boot partition of a suggestion and room for another one. The
\* partitions on it are told apart by their numbers.
ASSUME DisksAssumption ==
    \A d \in Disks : /\ d.total \in Nat /\ d.total >= GiB + 3 * MiB
                     /\ d.gpt \in BOOLEAN /\ d.made \in BOOLEAN
                     /\ d.parts \in Seq(PartitionType)
                     /\ \A n \in DOMAIN d.parts : d.parts[n].id = n /\ d.parts[n].status = "exist"

ASSUME SizesAssumption == TypedSizes \subseteq Nat

ASSUME BoundsAssumption == MaxEdits \in Nat /\ MaxListed \in Nat

vars == <<disk, layout, at, wipe, usingGpt, data, edits>>

-----------------------------------------------------------------------------
(* Segments. *)

IsFree(s) == s.status = "free"

FreeSpace(from, to) == [status |-> "free", start |-> from, len |-> to - from]

\* The elements of s at the places in K, in their order.
Rank(K, i) == Cardinality({j \in K : j <= i})
Nth(K, n) == CHOOSE i \in K : Rank(K, i) = n
Subsequence(s, K) == [n \in 1..Cardinality(K) |-> s[Nth(K, n)]]

EndBefore(parts, i) == IF i = 1 THEN MiB ELSE PartitionEnd(parts[i - 1])
StartBehind(parts, i, end) == IF i > Len(parts) THEN end ELSE parts[i].start

\* Partition i at place 2 * i, and the space before and behind it.
Spaced(parts, end) ==
    [k \in 1..(2 * Len(parts) + 1) |->
        IF k % 2 = 0 THEN parts[k \div 2]
        ELSE FreeSpace(EndBefore(parts, k \div 2 + 1), StartBehind(parts, k \div 2 + 1, end))]

\* Free space is shown if it is larger than the buffer of one MiB.
LargeEnough(segments) == {k \in DOMAIN segments : IsFree(segments[k]) => segments[k].len > MiB}

\* A mutation: deleted partitions stay where they are.
AsSegmentsUnsorted(total, gpt, parts) ==
    LET spaced == Spaced(parts, UsableEnd(total, gpt))
    IN  Subsequence(spaced, LargeEnough(spaced))

\* as_segments: deleted partitions first, then the others with the free space
\* between them. The partitions are taken to be in order.
AsSegments(total, gpt, parts) ==
    LET spaced == Spaced(Subsequence(parts, Live(parts)), UsableEnd(total, gpt))
    IN  Subsequence(parts, DOMAIN parts \ Live(parts)) \o Subsequence(spaced, LargeEnough(spaced))

PartMods(segments) == Subsequence(segments, {i \in DOMAIN segments : ~IsFree(segments[i])})

\* The text a size is shown as: tenths of MiB or of GiB.
Shown(n) == LET unit == IF n < GiB THEN MiB ELSE GiB
            IN  <<unit, (10 * n + unit \div 2) \div unit>>

\* _validate_value and _prompt_size: what can come of the prompt for a length.
Lengths(max) ==
    {max} \cup {n \in TypedSizes : Shown(n) # Shown(max) /\ n <= max /\ n >= MiB}

\* The partitions of the disk are 1, 2, ...; a new one takes the next number.
FreshId == LET n == Len(disk.parts)
           IN  Min((n + 1 .. n + Len(data) + 1) \ {p.id : p \in ToSet(PartMods(data))})

-----------------------------------------------------------------------------
(* select_disk_config and manual_partitioning. *)

NoLayout == [wipe |-> FALSE, parts |-> <<>>]

Init ==
    /\ disk \in Disks
    /\ layout = NoLayout
    /\ at = "menu"
    /\ wipe = FALSE /\ usingGpt = FALSE /\ data = <<>> /\ edits = 0

UsingGpt(wiped) == IF wiped THEN disk.made ELSE disk.gpt

\* Opening the list: the partitions of the kept layout, else those of the disk.
Open ==
    /\ at = "menu"
    /\ at' = "list"
    /\ wipe' = layout.wipe
    /\ usingGpt' = UsingGpt(layout.wipe)
    /\ data' = AsSegments(disk.total, UsingGpt(layout.wipe),
                          IF layout.parts = <<>> THEN disk.parts ELSE layout.parts)
    /\ UNCHANGED <<disk, layout, edits>>

\* A list without partitions counts as no layout: the kept one stays.
Confirm ==
    /\ at = "list"
    /\ at' = "menu"
    /\ layout' = IF PartMods(data) = <<>> THEN layout
                 ELSE [wipe |-> wipe, parts |-> PartMods(data)]
    /\ data' = <<>> /\ wipe' = FALSE /\ usingGpt' = FALSE
    /\ UNCHANGED <<disk, edits>>

Cancel ==
    /\ at = "list"
    /\ at' = "menu"
    /\ data' = <<>> /\ wipe' = FALSE /\ usingGpt' = FALSE
    /\ UNCHANGED <<disk, layout, edits>>

Suggestion(fs, subvols, home) ==
    SuggestSingle(Len(disk.parts) + 1, disk.total, disk.made, fs, subvols, home)

\* The default layout, and the reset of the disk configuration.
ChooseDefault(fs, subvols, home) ==
    /\ at = "menu"
    /\ subvols => fs = "btrfs"
    /\ layout' = [wipe |-> TRUE, parts |-> Suggestion(fs, subvols, home)]
    /\ UNCHANGED <<disk, at, wipe, usingGpt, data, edits>>

Reset ==
    /\ at = "menu"
    /\ layout' = NoLayout
    /\ UNCHANGED <<disk, at, wipe, usingGpt, data, edits>>

-----------------------------------------------------------------------------
(* The actions of the list. *)

Edit ==
    /\ at = "list" /\ edits < MaxEdits
    /\ edits' = edits + 1
    /\ UNCHANGED <<disk, layout, at, usingGpt>>

\* The segments are computed with the table kind the list was opened with.
SuggestLayout(fs, subvols, home) ==
    /\ Edit
    /\ subvols => fs = "btrfs"
    /\ data' = AsSegments(disk.total, usingGpt, Suggestion(fs, subvols, home))
    /\ wipe' = TRUE

\* A mutation: the new partition ends one buffer behind the free space.
PartitionBehindBuffer(free, len, fs, mount) ==
    NewPartition(FreshId, free.start + MiB, len, fs, mount,
                 CASE mount = "/boot" -> BootFlags(usingGpt)
                   [] fs = "swap"     -> {"SWAP"}
                   [] OTHER           -> {})

\* _create_new_partition
Partition(free, len, fs, mount) ==
    NewPartition(FreshId, free.start, len, fs, mount,
                 CASE mount = "/boot" -> BootFlags(usingGpt)
                   [] fs = "swap"     -> {"SWAP"}
                   [] OTHER           -> {})

\* The place among the partitions is the place of the free space in the whole
\* list, free spaces before it included.
Place(i) == IF i - 1 < Len(PartMods(data)) THEN i ELSE Len(PartMods(data)) + 1

Create(i, len, fs, mount) ==
    /\ IsFree(data[i])
    /\ Edit
    /\ (mount = NoMount) <=> fs \in {"btrfs", "swap"}
    /\ len \in Lengths(data[i].len)
    /\ Len(PartMods(data)) < MaxListed
    /\ data' = AsSegments(disk.total, usingGpt,
                   InsertAt(PartMods(data), Place(i), Partition(data[i], len, fs, mount)))
    /\ UNCHANGED wipe

\* A mutation: a partition marked for formatting disappears from the list.
WithoutFormatted(p) ==
    IF p.status = "exist"
    THEN [i \in DOMAIN PartMods(data) |->
            IF PartMods(data)[i] = p THEN [p EXCEPT !.status = "delete"] ELSE PartMods(data)[i]]
    ELSE Subsequence(PartMods(data), {i \in DOMAIN PartMods(data) : PartMods(data)[i] # p})

\* _delete_partition: what is on the disk is marked, what is new disappears.
\* The segments are computed anew.
WithoutPartition(p) ==
    IF p.status \in {"exist", "modify"}
    THEN [i \in DOMAIN PartMods(data) |->
            IF PartMods(data)[i] = p THEN [p EXCEPT !.status = "delete"] ELSE PartMods(data)[i]]
    ELSE Subsequence(PartMods(data), {i \in DOMAIN PartMods(data) : PartMods(data)[i] # p})

Delete(i) ==
    /\ data[i].status \notin {"free", "delete"}
    /\ Edit
    /\ data' = AsSegments(disk.total, usingGpt, WithoutPartition(data[i]))
    /\ UNCHANGED wipe

\* The other actions change the chosen partition in place: the segments stay.
Change(i, p) ==
    /\ Edit
    /\ data' = [data EXCEPT ![i] = p]
    /\ UNCHANGED wipe

Invert(flags, flag) == IF flag \in flags THEN flags \ {flag} ELSE flags \cup {flag}

\* What assigning a mount point does to the flags.
MountFlags(p, mount) ==
    LET flags == IF IsHome(p) THEN Invert(p.flags, "LINUX_HOME") ELSE p.flags
    IN  CASE mount = "/"      -> {}
          [] mount = "/home"  -> {"LINUX_HOME"}
          [] mount \notin {"/", "/home"} /\ "BOOT" \in flags -> BootFlags(usingGpt)
          [] OTHER            -> flags

AssignMountpoint(i, mount) ==
    /\ data[i].status \in {"exist", "modify", "create"}
    /\ data[i].fs # "btrfs"
    /\ ~IsSwap(data[i])
    /\ Change(i, [data[i] EXCEPT !.mount = mount, !.flags = MountFlags(data[i], mount)])

\* Offered for partitions that exist only. A LUKS container needs a filesystem.
MarkFormatting(i, fs) ==
    /\ data[i].status = "exist"
    /\ IF data[i].fs = "luks" THEN fs \in Filesystems ELSE fs = data[i].fs
    /\ Change(i, [data[i] EXCEPT !.status = "modify", !.fs = fs,
                     !.mount = IF data[i].fs = "luks" /\ fs = "btrfs" THEN NoMount ELSE @])

Formatted(i) == data[i].status \in {"modify", "create"}

MarkBootable(i) ==
    /\ Formatted(i) /\ ~IsSwap(data[i])
    /\ Change(i, [data[i] EXCEPT !.flags = Invert(@, "BOOT")])

\* mark_esp and mark_xbootldr
MarkType(i, flag, other) ==
    /\ Formatted(i) /\ usingGpt
    /\ ~IsRoot(data[i]) /\ ~IsHome(data[i]) /\ ~IsSwap(data[i])
    /\ Change(i, [data[i] EXCEPT !.flags = Invert(@ \ {other}, flag)])

SetFilesystem(i, fs) ==
    /\ Formatted(i)
    /\ LET flags == IF IsSwap(data[i]) THEN Invert(data[i].flags, "SWAP") ELSE data[i].flags
       IN  Change(i, [data[i] EXCEPT
                        !.fs = fs,
                        !.mount = IF fs \in {"swap", "btrfs"} THEN NoMount ELSE @,
                        !.flags = IF fs = "swap" THEN {"SWAP"} ELSE flags])

SetSubvolumes(i, root) ==
    /\ Formatted(i) /\ data[i].fs = "btrfs"
    /\ Change(i, [data[i] EXCEPT !.subvols = root])

Next ==
    \/ Open \/ Confirm \/ Cancel \/ Reset
    \/ \E fs \in {"plain", "btrfs"}, subvols, home \in BOOLEAN :
          ChooseDefault(fs, subvols, home) \/ SuggestLayout(fs, subvols, home)
    \/ \E i \in DOMAIN data :
          \/ \E fs \in Filesystems, mount \in Mountpoints \cup {NoMount} :
                \E len \in TypedSizes \cup {data[i].len} : Create(i, len, fs, mount)
          \/ Delete(i)
          \/ \E mount \in Mountpoints : AssignMountpoint(i, mount)
          \/ \E fs \in Filesystems \cup {"unknown"} : MarkFormatting(i, fs)
          \/ MarkBootable(i)
          \/ MarkType(i, "ESP", "XBOOTLDR") \/ MarkType(i, "XBOOTLDR", "ESP")
          \/ \E fs \in Filesystems : SetFilesystem(i, fs)
          \/ \E root \in BOOLEAN : SetSubvolumes(i, root)

Spec == Init /\ [][Next]_vars

-----------------------------------------------------------------------------
(* Properties. *)

Listed == {i \in DOMAIN data : ~IsFree(data[i])}
Stays(i) == i \in Listed /\ ~IsDelete(data[i])

\* Every variable keeps its type: the list holds partitions and stretches of
\* free space of more than the buffer (as_segments).
TypeOK ==
    /\ disk \in Disks
    /\ layout.wipe \in BOOLEAN /\ layout.parts \in Seq(PartitionType)
    /\ at \in {"menu", "list"}
    /\ wipe \in BOOLEAN /\ usingGpt \in BOOLEAN
    /\ data \in Seq(PartitionType \cup [status : {"free"}, start : Nat, len : Nat])
    /\ \A i \in DOMAIN data : IsFree(data[i]) => data[i].len > MiB
    /\ edits \in 0..MaxEdits

\* No partition on the disk ends before the first MiB or starts behind the usable
\* end: there the editor takes what is not usable for free space.
TableIsSound(d) ==
    \A n \in DOMAIN d.parts :
        /\ PartitionEnd(d.parts[n]) >= MiB
        /\ d.parts[n].start <= UsableEnd(d.total, d.gpt)

\* A partition the user adds or a suggestion makes lies between the first MiB
\* and the end the table kind leaves usable (_create_new_partition over the free
\* space of as_segments), through any series of edits and openings. Left aside
\* are disks with an MBR that get a GPT when wiped: _using_gpt is computed once,
\* when the list is opened, and a suggestion changes the table kind; and tables
\* with partitions outside of that range.
NewPartitionsStayInside ==
    at = "list" /\ TableIsSound(disk) /\ (disk.made => disk.gpt) =>
        \A i \in Listed : data[i].status = "create" =>
            /\ data[i].start >= MiB
            /\ PartitionEnd(data[i]) <= UsableEnd(disk.total, UsingGpt(wipe))

\* Unless the disk is wiped, each of its partitions is listed exactly once and
\* where it is on the disk, whatever was done to the list (_delete_partition,
\* handle_action); one that got lost would be overwritten by a new partition. If
\* the disk is wiped, nothing listed is taken to be on it.
ListMatchesDisk ==
    at = "list" =>
        IF wipe
        THEN \A i \in Listed : data[i].status = "create"
        ELSE \A n \in DOMAIN disk.parts :
               Cardinality({i \in Listed :
                   /\ data[i].id = n
                   /\ data[i].status # "create"
                   /\ data[i].start = disk.parts[n].start
                   /\ data[i].len = disk.parts[n].len}) = 1

InOrder(segments) ==
    \A i, j \in DOMAIN segments :
        i < j /\ ~IsFree(segments[i]) /\ ~IsFree(segments[j])
              /\ ~IsDelete(segments[i]) /\ ~IsDelete(segments[j])
        => PartitionEnd(segments[i]) <= segments[j].start

\* The gaps of the disk: stretches between the first MiB or the end of a
\* partition that stays, and a start or the usable end, with nothing in between.
Gaps ==
    LET ends   == {MiB} \cup {PartitionEnd(data[i]) : i \in {j \in Listed : Stays(j)}}
        starts == {UsableEnd(disk.total, usingGpt)}
                  \cup {data[i].start : i \in {j \in Listed : Stays(j)}}
    IN  {gap \in ends \X starts :
            /\ gap[2] - gap[1] > MiB
            /\ \A i \in Listed : Stays(i) => \/ PartitionEnd(data[i]) <= gap[1]
                                            \/ gap[2] <= data[i].start}

\* While the partitions are in order, the free space the user is shown is exactly
\* the free space there is (as_segments), deleted partitions' included.
ShownSpaceIsTheFreeSpace ==
    at = "list" /\ TableIsSound(disk) /\ InOrder(data) =>
        {<<data[i].start, PartitionEnd(data[i])>> : i \in DOMAIN data \ Listed} = Gaps

\* What is suggested for a disk can be loaded again once saved: aligned, without
\* overlap, clear of the backup header (suggest_single_disk_layout against the
\* checks of parse_arg), for every answer.
SuggestionsLoad ==
    \A fs \in {"plain", "btrfs"}, subvols, home \in BOOLEAN :
        Loads(disk.total, disk.made, Suggestion(fs, subvols, home))

\* The layout that is kept has no two partitions on the same sectors. A saved
\* layout is refused otherwise ('Partitions overlap', parse_arg).
PartitionsNeverOverlap ==
    \A i, j \in Live(layout.parts) :
        i # j => \/ PartitionEnd(layout.parts[i]) <= layout.parts[j].start
                 \/ PartitionEnd(layout.parts[j]) <= layout.parts[i].start

=============================================================================
