------------------------------ MODULE DiskSetup ------------------------------
(***************************************************************************)
(* What happens to the block devices: FilesystemHandler with the device    *)
(* handler, LVM and LUKS wrappers, then Installer.mount_ordered_layout and *)
(* generate_key_files, for one DiskLayoutConfiguration.                    *)
(*                                                                         *)
(* The code is a straight line of commands whose order is given by the     *)
(* layout: loops over devices, partitions, groups and volumes, with almost *)
(* no look at what a command did.  The model therefore computes that line  *)
(* once ("todo") and runs it against a machine that refuses what parted,   *)
(* cryptsetup, mkfs, LVM, mount and lsblk refuse.                          *)
(***************************************************************************)
EXTENDS SequencesExt

CONSTANTS
  Names,        \* of devices, volume groups and logical volumes
  Scenarios,    \* layouts, each with the machine it meets
  MaxAttempts,  \* bound: how often archinstall is started on one live medium
  Nowhere       \* no mount point, no device path

(***************************************************************************)
(* A mount point is the sequence of its components, numbered so that they  *)
(* sort like their names.  Absolute places start with the tree they are in.*)
(***************************************************************************)
Directory == Seq(Nat)
Root == <<>>
Home == <<2>>
Target(at) == <<1>> \o at       \* /mnt/...
Tmp  == Target(<<0>>)           \* DeviceHandler._TMP_BTRFS_MOUNT, /mnt/arch_btrfs
Swap == <<3>>                   \* what lsblk lists for active swap: [SWAP]

(***************************************************************************)
(* Partitions and logical volumes share one record: the device or group    *)
(* they are on, the partition number (Nowhere for a new one) or volume     *)
(* name, the mount point and the mount points of the btrfs subvolumes.     *)
(***************************************************************************)
Item ==
  [id : Nat, lv : BOOLEAN, dev : Names, num : {Nowhere} \cup Names \cup Nat,
   status : {"exist", "modify", "create", "delete"}, fs : {"ext4", "btrfs", "fat32", "swap"},
   at : {Nowhere} \cup Directory, subvols : SUBSET Directory, boot : BOOLEAN]

EncryptionType == {"NO_ENCRYPTION", "LUKS", "LVM_ON_LUKS", "LUKS_ON_LVM"}

Layout ==
  [devices    : Seq([dev : Names, wipe : BOOLEAN, parts : Seq(Item)]),
   groups     : Seq([name : Names, pvs : SUBSET Nat, volumes : Seq(Item)]),
   encryption : [type : EncryptionType, ids : Seq(Nat)]]

Partitions(l) == UNION {ToSet(m.parts) : m \in ToSet(l.devices)}
Volumes(l)    == UNION {ToSet(g.volumes) : g \in ToSet(l.groups)}
Items(l)      == Partitions(l) \cup Volumes(l)

\* The files below /dev that stand for partitions and volumes, created or not.
NodeName == Names \X ({Nowhere} \cup Names \cup Nat)

IsRoot(x) == x.at = Root \/ (x.at = Nowhere /\ Root \in x.subvols)
Fresh(x)  == x.status \in {"create", "modify"}      \* is_create_or_modify
Kept(x)   == x.status = "exist"                     \* exists

\* What the editors and the encryption menu leave possible.  Devices and items are told
\* apart, volumes are new, and nothing that is kept is encrypted or part of a group.  A
\* partition has a mount point or subvolumes; suggested volumes have both.
Legal(l) ==
  /\ \A i, j \in DOMAIN l.devices : l.devices[i].dev = l.devices[j].dev => i = j
  /\ \A m \in ToSet(l.devices) : \A x \in ToSet(m.parts) :
       /\ ~x.lv /\ x.dev = m.dev
       /\ IF x.status = "create" THEN x.num = Nowhere ELSE x.num \in Nat /\ ~m.wipe
  /\ \A g \in ToSet(l.groups) :
       /\ \A m \in ToSet(l.devices) : m.dev # g.name
       /\ \A x \in ToSet(g.volumes) :
            x.lv /\ x.dev = g.name /\ x.num \in Names /\ x.status = "create"
       /\ \A id \in g.pvs : \E x \in Partitions(l) : x.id = id /\ ~Kept(x)
  /\ \A x, y \in Items(l) :
       x.id = y.id \/ (x.dev = y.dev /\ x.num = y.num /\ x.num # Nowhere) => x = y
  /\ \A id \in ToSet(l.encryption.ids) : \E x \in Items(l) : x.id = id
  /\ \A x \in Items(l) :
       /\ IsFiniteSet(x.subvols)
       /\ x.subvols # {} => x.fs = "btrfs" /\ (x.lv \/ x.at = Nowhere)
       /\ x.id \in ToSet(l.encryption.ids) =>
            /\ x.status # "exist" /\ ~x.boot /\ x.fs # "swap"
            /\ l.encryption.type # "NO_ENCRYPTION"
            /\ x.lv <=> l.encryption.type = "LUKS_ON_LVM"

ASSUME LayoutsAssumption ==
  /\ MaxAttempts \in Nat \ {0}
  /\ \A s \in Scenarios : s.layout \in Layout /\ Legal(s.layout)

\* The kept partitions are on the machine, and no name below /dev/mapper is a partition's.
ASSUME MachinesAssumption ==
  /\ "ainst" \notin Names /\ Nowhere \notin Names \cup Nat \cup Directory
  /\ \A s \in Scenarios :
       /\ DOMAIN s.layers \subseteq NodeName /\ IsFiniteSet(DOMAIN s.layers)
       /\ \A n \in DOMAIN s.layers : \A m \in ToSet(s.layout.devices) : n[1] = m.dev => n[2] \in Nat
       /\ \A m \in DOMAIN s.open : m \notin NodeName
       /\ \A x \in Items(s.layout) : Kept(x) => <<x.dev, x.num>> \in DOMAIN s.layers

VARIABLES
  layout,    \* the configuration
  attempt,   \* how often archinstall was started
  todo,      \* the commands that are still to run
  status,    \* "running", "done", "failed"
  why,       \* what ended a failed attempt: a device error, or a refusal
  path,      \* item id |-> number or name of its device, once known
  layers,    \* partitions and volumes that exist |-> what they hold, outermost first
  open,      \* names under /dev/mapper |-> the device below
  group,     \* active volume groups |-> the devices they are made of
  mounts,    \* [file, at], oldest first
  crypttab   \* entries [item, keyfile] written to the target

machine == <<layers, open, group, mounts>>
vars == <<layout, attempt, todo, status, why, path, machine, crypttab>>

-----------------------------------------------------------------------------
(* models/device.py *)

Node(x) == <<x.dev, path[x.id]>>

\* mapper_name
Mapper(x) ==
  IF x.lv THEN <<"ainst", path[x.id]>>
  ELSE IF IsRoot(x) THEN <<"root">>
  ELSE IF x.at = Home THEN <<"home">>
  ELSE <<"ainst", x.dev, path[x.id]>>

Encrypted(x) == Contains(layout.encryption.ids, x.id)
ItemOf(id)   == CHOOSE x \in Items(layout) : x.id = id
Where(x)     == IF Encrypted(x) THEN "mapper" ELSE "device"
EncryptedItems == [i \in DOMAIN layout.encryption.ids |-> ItemOf(layout.encryption.ids[i])]

\* Path.__lt__: at the first component that differs, a has a smaller one or none.
Before(a, b) ==
  \E i \in DOMAIN b :
    /\ \A j \in 1 .. i - 1 : j \in DOMAIN a /\ a[j] = b[j]
    /\ i \in DOMAIN a => a[i] < b[i]

-----------------------------------------------------------------------------
(* The machine *)

Nodes(dev) == {n \in DOMAIN layers : n[1] = dev}
Present(file) == file \in DOMAIN layers \cup DOMAIN open

Busy(file) ==
  \/ \E i \in DOMAIN mounts : mounts[i].file = file
  \/ file \in Range(open)
  \/ \E g \in DOMAIN group : file \in group[g]

Free(file) == Present(file) /\ ~Busy(file)

\* What is on a partition or volume, or inside an open LUKS container.
Holds(file) == IF file \in DOMAIN open THEN Tail(layers[open[file]]) ELSE layers[file]

Write(file, what) ==
  layers' = IF file \in DOMAIN open
            THEN [layers EXCEPT ![open[file]] = <<Head(@)>> \o what]
            ELSE [layers EXCEPT ![file] = what]

\* A mount of the device, or one below it.
Under(file, m) == \E i \in DOMAIN mounts : mounts[i].file = file /\ IsPrefix(mounts[i].at, m.at)

Children(node) == {m \in DOMAIN open : open[m] = node}

-----------------------------------------------------------------------------
(* The line of commands *)

\* Op for one element after the other.
Each(Op(_), s) == FlattenSeq([i \in DOMAIN s |-> Op(s[i])])

\* The elements of S in the order Less.
Sorted(S, Less(_, _)) ==
  [i \in 1 .. Cardinality(S) |->
     CHOOSE x \in S : Cardinality({y \in S : Less(y, x)}) = i - 1]

\* get_all_volumes
AllVolumes == Each(LAMBDA g : g.volumes, layout.groups)

Do(do, x, on) == <<[do |-> do, item |-> x, on |-> on]>>

ByNumber(nodes) == Sorted(nodes, LAMBDA a, b : a[2] < b[2])

\* Mutant of Release: file systems stay mounted, only containers are closed.
ReleaseLuks(m) == Each(LAMBDA n : <<[do |-> "releaseLuks", node |-> n]>>, ByNumber(Nodes(m.dev)))

\* umount_all_existing: the partitions known when archinstall was started.
Release(m) ==
  Each(LAMBDA n : <<[do   |-> IF layers[n] # <<>> /\ Head(layers[n]) = "luks"
                              THEN "releaseLuks" ELSE "release",
                     node |-> n]>>,
       ByNumber(Nodes(m.dev)))

Wipefs(x) == IF Kept(x) THEN <<>> ELSE Do("wipefs", x, "device")

\* partition
Partition(m) ==
  (IF m.wipe THEN <<[do |-> "wipe", dev |-> m.dev]>> ELSE <<>>)
  \o <<[do |-> "commit", mod |-> m]>>
  \o Each(Wipefs, m.parts)

\* Mutant of Encrypt: unlock_luks2_dev, which takes a mapper that is open by that name.
EncryptUnlessOpen(x) == Do("luksFormat", x, "device") \o Do("unlockIfClosed", x, "mapper")

\* format_encrypted and format
Encrypt(x) == Do("luksFormat", x, "device") \o Do("unlock", x, "mapper")
Format(x) ==
  IF ~Fresh(x) THEN <<>>
  ELSE IF Encrypted(x) THEN Encrypt(x) \o Do("mkfs", x, "mapper") \o Do("lock", x, "device")
  ELSE Do("mkfs", x, "device")

FormatPartitions(parts) == Each(Format, parts)

Subvolumes(x, on) == Do("mountTmp", x, on) \o Do("subvolumes", x, on) \o Do("umount", x, on)

\* Mutant of CreateBtrfsVolumes: the container stays open.
CreateBtrfsVolumesUnlocked(x) ==
  IF x.fs # "btrfs" \/ ~Fresh(x) THEN <<>>
  ELSE IF Encrypted(x) THEN Do("unlockIfClosed", x, "mapper") \o Subvolumes(x, "mapper")
  ELSE Subvolumes(x, "device")

\* create_btrfs_volumes
CreateBtrfsVolumes(x) ==
  IF x.fs # "btrfs" \/ ~Fresh(x) THEN <<>>
  ELSE IF Encrypted(x)
    THEN Do("unlockIfClosed", x, "mapper") \o Subvolumes(x, "mapper") \o Do("lock", x, "device")
  ELSE Subvolumes(x, "device")

\* _format_lvm_vols
FormatVolume(x) ==
  Do("mkfs", x, Where(x)) \o IF x.fs = "btrfs" THEN Subvolumes(x, Where(x)) ELSE <<>>

CreateAndAwait(x) == Do("lvcreate", x, "device") \o Do("lvwait", x, "device")

\* _setup_lvm; "mapped" are the volumes that _get_all_pv_dev_paths finds in enc_mods.
Pvs == UNION {g.pvs : g \in ToSet(layout.groups)}
PvCreate(mapped) == <<[do |-> "pvcreate", pvs |-> Pvs, mapped |-> mapped]>>
CreateGroups(mapped) ==
  Each(LAMBDA g : <<[do |-> "vgcreate", name |-> g.name, pvs |-> g.pvs, mapped |-> mapped]>>
                  \o Each(CreateAndAwait, g.volumes),
       layout.groups)
SetupLvm(mapped) == PvCreate(mapped) \o CreateGroups(mapped)

IsEncryptedHere(x) == ~Kept(x) /\ Encrypted(x)
EncryptHere(x) == IF IsEncryptedHere(x) THEN Encrypt(x) ELSE <<>>
EncryptDevice(m) == Each(EncryptHere, m.parts)
LockVolume(x)  == IF Encrypted(x) THEN Do("lock", x, "device") ELSE <<>>
EncryptedOn(m) == {x \in ToSet(m.parts) : IsEncryptedHere(x)}

\* perform_lvm_operations.  _encrypt_partitions starts a new dictionary for every
\* device and returns the last one.
LvmOperations ==
  LET type == layout.encryption.type
  IN IF type = "NO_ENCRYPTION" THEN SetupLvm({}) \o Each(FormatVolume, AllVolumes)
     ELSE IF type = "LVM_ON_LUKS"
       THEN Each(EncryptDevice, layout.devices)
            \o SetupLvm({x.id : x \in EncryptedOn(Last(layout.devices))})
            \o Each(FormatVolume, AllVolumes)
     ELSE IF type = "LUKS_ON_LVM"
       THEN SetupLvm({}) \o Each(EncryptHere, AllVolumes) \o Each(FormatVolume, AllVolumes)
            \o Each(LockVolume, AllVolumes)
     ELSE <<>>

\* get_boot_partition
FormatBootPartition(m) ==
  LET boots == {i \in DOMAIN m.parts : m.parts[i].boot /\ m.parts[i].at # Nowhere}
  IN IF boots = {} THEN <<>> ELSE Format(m.parts[CHOOSE i \in boots : \A j \in boots : i <= j])

FormatDevice(m) == FormatPartitions(m.parts) \o Each(CreateBtrfsVolumes, m.parts)

\* perform_filesystem_operations
FilesystemOperations ==
  LET IfModified(Op(_), m) == IF m.parts = <<>> THEN <<>> ELSE Op(m)
  IN IF \A m \in ToSet(layout.devices) : m.parts = <<>> THEN <<>>
     ELSE Each(LAMBDA m : IfModified(Release, m), layout.devices)
          \o Each(LAMBDA m : IfModified(Partition, m), layout.devices)
          \o IF layout.groups # <<>>
             THEN Each(FormatBootPartition, layout.devices) \o LvmOperations
             ELSE Each(FormatDevice, layout.devices)

\* Installer._mount_partition, _mount_luks_partition, _mount_lvm_vol, _mount_luks_volume.
\* The mount point of a btrfs volume is not looked at, only those of its subvolumes.
MountItem(x) ==
  LET Mount(at) == <<[do |-> "mount", item |-> x, on |-> Where(x), at |-> Target(at)]>>
  IN IF x.subvols # {} THEN Each(Mount, Sorted(x.subvols, Before))
     ELSE IF x.at # Nowhere /\ ~(x.lv /\ x.fs = "btrfs") THEN Mount(x.at)
     ELSE IF x.fs = "swap" /\ ~x.lv THEN Do("swapon", x, "device")
     ELSE <<>>

\* A stable sort by mount point; btrfs file systems sort like the root.  Physical
\* volumes are not mounted.
MountInOrder(s) ==
  LET Key(i) == IF s[i].at = Nowhere THEN Root ELSE s[i].at
      Earlier(i, j) == Before(Key(i), Key(j)) \/ (Key(i) = Key(j) /\ i < j)
  IN Each(LAMBDA i : MountItem(s[i]), Sorted({i \in DOMAIN s : s[i].id \notin Pvs}, Earlier))

MountDevice(m) == MountInOrder(m.parts)

RootDevices == {i \in DOMAIN layout.devices : \E x \in ToSet(layout.devices[i].parts) : IsRoot(x)}
RootDevice  == CHOOSE i \in RootDevices : \A j \in RootDevices : i <= j

\* Mutant of MountPartitions: the other devices are dropped with the sorting.
MountPartitionsOnRootDevice ==
  IF RootDevices = {} THEN Each(MountDevice, layout.devices)
  ELSE MountDevice(layout.devices[RootDevice])

\* _mount_partition_layout: the device with the root partition first, no PVs, but
\* entries that stand for deleted partitions, too.
MountPartitions ==
  IF RootDevices = {} THEN Each(MountDevice, layout.devices)
  ELSE MountDevice(layout.devices[RootDevice])
       \o Each(LAMBDA i : IF i = RootDevice THEN <<>> ELSE MountDevice(layout.devices[i]),
               [i \in DOMAIN layout.devices |-> i])

\* _mount_lvm_layout
MountVolumes == Each(LAMBDA g : MountInOrder(g.volumes), layout.groups)

ImportVolume(x)  == Do("lvchange", x, "device")
UnlockToMount(x) == Do("unlockIfClosed", x, "mapper")

\* mount_ordered_layout
MountLayout ==
  LET import == Each(ImportVolume, AllVolumes)
      unlock == Each(UnlockToMount, EncryptedItems)
      type   == layout.encryption.type
  IN (IF type = "LUKS" THEN unlock
      ELSE IF type = "LVM_ON_LUKS" THEN unlock \o import \o MountVolumes
      ELSE IF type = "LUKS_ON_LVM" THEN import \o unlock \o MountVolumes
      ELSE import \o MountVolumes)
     \o MountPartitions

RootEncrypted == \E x \in ToSet(EncryptedItems) : IsRoot(x)

\* generate_key_files; the existing key files of a kept root are left out.
KeyFile(x) ==
  IF IsRoot(x) THEN <<>> ELSE Do(IF RootEncrypted THEN "keyfile" ELSE "passphrase", x, "device")
KeyFiles ==
  IF layout.encryption.type \in {"LUKS", "LUKS_ON_LVM"} THEN Each(KeyFile, EncryptedItems) ELSE <<>>

Commands == FilesystemOperations \o <<[do |-> "handover"]>> \o MountLayout \o KeyFiles

\* dev_path of the partitions that exist.
KnownPaths ==
  [id \in {x.id : x \in Items(layout)} |->
     LET x == ItemOf(id) IN IF x.lv THEN Nowhere ELSE x.num]

Init ==
  /\ \E s \in Scenarios :
       /\ layout = s.layout /\ layers = s.layers /\ open = s.open
       /\ group = s.group /\ mounts = s.mounts
  /\ attempt = 1
  /\ path = KnownPaths
  /\ todo = Commands
  /\ status = "running" /\ why = ""
  /\ crypttab = {}

-----------------------------------------------------------------------------
(* What the commands do, and when they are refused *)

File(c)   == IF c.on = "mapper" THEN Mapper(c.item) ELSE Node(c.item)
PvFiles(c) == {IF id \in c.mapped THEN Mapper(ItemOf(id)) ELSE Node(ItemOf(id)) : id \in c.pvs}

\* partitions a commit takes away, at the numbers they have now
Removed(m) ==
  IF m.wipe THEN Nodes(m.dev)
  ELSE {Node(x) : x \in {y \in ToSet(m.parts) : y.status \in {"modify", "delete"}}}

LowestFree(used) == CHOOSE n \in 1 .. Cardinality(used) + 1 :
                      n \notin used /\ \A k \in 1 .. n - 1 : k \in used

\* f, with v at x.
With(f, x, v) == [y \in DOMAIN f \cup {x} |-> IF y = x THEN v ELSE f[y]]

\* _setup_partition for one entry of the layout.
Place(acc, x) ==
  IF x.status = "exist" THEN acc
  ELSE LET used == IF x.status = "create" THEN acc.used ELSE acc.used \ {acc.path[x.id]}
           n    == LowestFree(used)
       IN IF x.status = "delete" THEN [acc EXCEPT !.used = used]
          ELSE [path |-> [acc.path EXCEPT ![x.id] = n], used |-> used \cup {n}]

Placed(m) ==
  LET placed[i \in 0 .. Len(m.parts)] ==
        IF i = 0 THEN [path |-> path, used |-> IF m.wipe THEN {} ELSE {n[2] : n \in Nodes(m.dev)}]
        ELSE Place(placed[i - 1], m.parts[i])
  IN placed[Len(m.parts)]

Repartitioned(m) ==
  LET new  == {<<m.dev, n>> : n \in Placed(m).used}
      rest == DOMAIN layers \ Nodes(m.dev)
  IN [n \in rest \cup new |->
        IF n \in DOMAIN layers /\ n \notin Removed(m) THEN layers[n] ELSE <<"stale">>]

Mountable(file) ==
  Present(file) /\ Holds(file) # <<>> /\ Head(Holds(file)) \in {"ext4", "btrfs", "fat32"}

Openable(x) ==
  /\ Free(Node(x)) /\ layers[Node(x)] # <<>> /\ Head(layers[Node(x)]) = "luks"
  /\ Mapper(x) \notin DOMAIN open

\* A mapper that is mounted cannot be closed: Luks2.lock asks lsblk about the mount
\* point, which is no device.  One that carries LVM is in use.
Closable(node) == node \in DOMAIN layers /\ \A m \in Children(node) : ~Busy(m)

Accepted(c) ==
  CASE c.do = "release"     -> /\ c.node \in DOMAIN layers
                               /\ \A i \in DOMAIN mounts : mounts[i].file = c.node =>
                                                             mounts[i].at # Swap
    [] c.do = "releaseLuks" -> Closable(c.node)
    [] c.do = "lock"        -> Closable(Node(c.item))
    [] c.do = "commit"      -> \A n \in Removed(c.mod) : n \in DOMAIN layers /\ ~Busy(n)
    [] c.do \in {"wipefs", "luksFormat", "mkfs"} -> Free(File(c))
    [] c.do = "unlock"      -> Openable(c.item)
    [] c.do = "unlockIfClosed" -> Mapper(c.item) \in DOMAIN open \/ Openable(c.item)
    [] c.do = "mountTmp"    -> Mountable(File(c))
    [] c.do = "mount"       -> /\ Mountable(File(c))
                               /\ c.item.subvols # {} => Last(Holds(File(c))) = "subvols"
    [] c.do = "swapon"      -> Free(File(c)) /\ Holds(File(c)) = <<"swap">>
    [] c.do = "pvcreate"    -> \A f \in PvFiles(c) : Free(f)
    [] c.do = "vgcreate"    -> /\ c.name \notin DOMAIN group
                               /\ \A f \in PvFiles(c) : Free(f) /\ Holds(f) = <<"pv">>
    [] c.do = "lvchange"    -> c.item.dev \in DOMAIN group /\ Node(c.item) \in DOMAIN layers
    [] OTHER                -> TRUE

-----------------------------------------------------------------------------
(* Actions: the command that is next, if the machine accepts it *)

Running  == status = "running" /\ todo # <<>>
Cmd      == Head(todo)
At(names) == Running /\ Cmd.do \in names /\ Accepted(Cmd)

Advance ==
  /\ todo' = Tail(todo)
  /\ status' = IF Len(todo) = 1 THEN "done" ELSE "running"
  /\ UNCHANGED <<layout, attempt, why>>

\* disk/utils.umount, recursive for umount_all_existing
Unmount ==
  /\ At({"release", "umount"})
  /\ mounts' = IF Cmd.do = "release" THEN SelectSeq(mounts, LAMBDA m : ~Under(Cmd.node, m))
               ELSE SelectSeq(mounts, LAMBDA m : m.file # File(Cmd))
  /\ UNCHANGED <<path, layers, open, group, crypttab>> /\ Advance

\* Luks2.lock
Lock ==
  /\ At({"releaseLuks", "lock"})
  /\ LET node == IF Cmd.do = "lock" THEN Node(Cmd.item) ELSE Cmd.node
     IN open' = Restrict(open, DOMAIN open \ Children(node))
  /\ UNCHANGED <<path, layers, group, mounts, crypttab>> /\ Advance

\* wipe_dev
WipeDevice ==
  /\ At({"wipe"})
  /\ layers' = [n \in DOMAIN layers |-> IF n[1] = Cmd.dev THEN <<"stale">> ELSE layers[n]]
  /\ UNCHANGED <<path, open, group, mounts, crypttab>> /\ Advance

\* _setup_partition for every entry, then disk.commit
Commit ==
  /\ At({"commit"})
  /\ path' = Placed(Cmd.mod).path
  /\ layers' = Repartitioned(Cmd.mod)
  /\ UNCHANGED <<open, group, mounts, crypttab>> /\ Advance

\* wipefs, mkfs, cryptsetup luksFormat, btrfs subvolume create, pvcreate
WriteDevice ==
  /\ \/ At({"wipefs"})     /\ Write(File(Cmd), <<>>)
     \/ At({"luksFormat"}) /\ Write(File(Cmd), <<"luks">>)
     \/ At({"mkfs"})       /\ Write(File(Cmd), <<Cmd.item.fs>>)
     \/ At({"subvolumes"}) /\ Write(File(Cmd), <<"btrfs", "subvols">>)
  /\ UNCHANGED <<path, open, group, mounts, crypttab>> /\ Advance

\* Luks2.unlock opens, unlock_luks2_dev takes a mapper of that name for the device.
Unlocks(c) == c.do = "unlock" \/ Mapper(c.item) \notin DOMAIN open

Unlock ==
  /\ At({"unlock", "unlockIfClosed"})
  /\ open' = IF Unlocks(Cmd) THEN With(open, Mapper(Cmd.item), Node(Cmd.item)) ELSE open
  /\ UNCHANGED <<path, layers, group, mounts, crypttab>> /\ Advance

\* disk/utils.mount and swapon; nothing is mounted twice at one place.
Mount ==
  /\ At({"mountTmp", "mount", "swapon"})
  /\ LET at == IF Cmd.do = "mount" THEN Cmd.at ELSE IF Cmd.do = "swapon" THEN Swap ELSE Tmp
         m  == [file |-> File(Cmd), at |-> at]
     IN mounts' = IF Contains(mounts, m) THEN mounts ELSE Append(mounts, m)
  /\ UNCHANGED <<path, layers, open, group, crypttab>> /\ Advance

\* lvm_pv_create
CreatePvs ==
  /\ At({"pvcreate"})
  /\ LET files == PvFiles(Cmd)
         inner == {open[f] : f \in files \cap DOMAIN open}
     IN layers' = [n \in DOMAIN layers |->
                     IF n \in files THEN <<"pv">>
                     ELSE IF n \in inner THEN <<"luks", "pv">> ELSE layers[n]]
  /\ UNCHANGED <<path, open, group, mounts, crypttab>> /\ Advance

\* lvm_vg_create
CreateGroup ==
  /\ At({"vgcreate"})
  /\ group' = With(group, Cmd.name, PvFiles(Cmd))
  /\ UNCHANGED <<path, layers, open, mounts, crypttab>> /\ Advance

\* lvm_vol_create starts lvcreate and does not look at how it ends.
CreateVolume ==
  /\ At({"lvcreate"})
  /\ path' = [path EXCEPT ![Cmd.item.id] = Cmd.item.num]
  /\ LET lv == <<Cmd.item.dev, Cmd.item.num>>
     IN \/ lv \notin DOMAIN layers /\ layers' = With(layers, lv, <<>>)
        \/ UNCHANGED layers
  /\ UNCHANGED <<open, group, mounts, crypttab>> /\ Advance

\* Mutant of Awaited: lvs without the selection by name.
AwaitedAlone(x) == Cardinality({n \in DOMAIN layers : n[1] \in DOMAIN group}) = 1

\* The one volume lvm_vol_info finds by its name, over all groups.
Awaited(x) ==
  Cardinality({n \in DOMAIN layers : n[1] \in DOMAIN group /\ n[2] = x.num}) = 1

\* The loop around lvm_vol_info has no end of its own.
AwaitVolume ==
  /\ At({"lvwait"}) /\ Awaited(Cmd.item)
  /\ UNCHANGED <<path, machine, crypttab>> /\ Advance

\* perform_filesystem_operations has returned; lvm_vol_change on active volumes
HandOver ==
  /\ At({"handover", "lvchange"})
  /\ UNCHANGED <<path, machine, crypttab>> /\ Advance

\* create_keyfile, create_crypttab_entry
AddCrypttab ==
  /\ At({"keyfile", "passphrase"})
  /\ crypttab' = crypttab \cup {[item |-> Cmd.item.id, keyfile |-> Cmd.do = "keyfile"]}
  /\ UNCHANGED <<path, machine>> /\ Advance

Fail(reason) ==
  /\ status' = "failed" /\ why' = reason
  /\ UNCHANGED <<layout, attempt, todo, path, machine, crypttab>>

\* The command is refused; its exception ends archinstall.
Refused == Running /\ ~Accepted(Cmd) /\ Fail("refused")

\* So does a command that the device fails.  Errors of lvcreate go unseen.
DeviceError ==
  /\ Running /\ Cmd.do \notin {"lvcreate", "lvwait", "handover"}
  /\ Fail("error")

Step ==
  \/ Unmount \/ Lock \/ WipeDevice \/ Commit \/ WriteDevice \/ Unlock \/ Mount
  \/ CreatePvs \/ CreateGroup \/ CreateVolume \/ AwaitVolume \/ HandOver \/ AddCrypttab
  \/ Refused \/ DeviceError

\* Another start of archinstall: nothing was unmounted, closed or deactivated.  A
\* layout that keeps partitions would be built anew from what is on the disks.
Restart ==
  /\ status \in {"done", "failed"} /\ attempt < MaxAttempts
  /\ \A i \in DOMAIN layout.devices : layout.devices[i].wipe
  /\ attempt' = attempt + 1
  /\ status' = "running" /\ why' = ""
  /\ path' = KnownPaths
  /\ todo' = Commands
  /\ crypttab' = {}
  /\ UNCHANGED <<layout, machine>>

Next == Step \/ Restart

Spec == Init /\ [][Next]_vars /\ WF_vars(Step)

-----------------------------------------------------------------------------
(* Properties *)

Stacks == {<<>>, <<"stale">>, <<"old">>, <<"pv">>, <<"luks">>, <<"luks", "pv">>}
          \cup {l \o <<fs>> : l \in {<<>>, <<"luks">>}, fs \in {"ext4", "btrfs", "fat32", "swap"}}
          \cup {l \o <<"btrfs", "subvols">> : l \in {<<>>, <<"luks">>}}

\* Layers pile up in the order of the commands, every mapper has a device below it,
\* and mounts and volume groups refer to devices that exist.
TypeOK ==
  /\ status \in {"running", "done", "failed"} /\ why \in {"", "error", "refused"}
  /\ attempt \in 1 .. MaxAttempts
  /\ DOMAIN path = {x.id : x \in Items(layout)}
  /\ Range(layers) \subseteq Stacks
  /\ Range(open) \subseteq DOMAIN layers
  /\ \A g \in DOMAIN group : \A f \in group[g] : Present(f)
  /\ \A i \in DOMAIN mounts : Present(mounts[i].file)
  /\ \A c \in crypttab : c.item \in DOMAIN path

Devices == {layout.devices[i].dev : i \in DOMAIN layout.devices}
Groups  == {layout.groups[i].name : i \in DOMAIN layout.groups}

\* Partitions the layout keeps, and everything it does not mention.
Untouchable ==
  {n \in DOMAIN layers :
     \/ n[1] \notin Devices \cup Groups
     \/ \E x \in Items(layout) : Kept(x) /\ n = <<x.dev, x.num>>}

\* "don't touch existing partitions": no command of any attempt changes what is on a
\* partition that the layout keeps or does not know, whatever numbers parted gives
\* to the new ones and whatever is open under the names the code uses.
KeptPartitionsUntouched ==
  [][\A n \in Untouchable : n \in DOMAIN layers' /\ layers'[n] = layers[n]]_vars

Requested == {x \in Items(layout) : x.status # "delete" /\ x.id \notin Pvs}
Serves(x) == IF Encrypted(x) THEN Mapper(x) ELSE Node(x)

Places(x) == IF x.subvols # {} THEN x.subvols ELSE {x.at} \ {Nowhere}

\* A suggested btrfs volume when the default subvolumes were declined: nothing mounts
\* it, wherever it was asked for.
Bare(x) == x.lv /\ x.fs = "btrfs" /\ x.subvols = {}

IsMountedAt(x, at) == Contains(mounts, [file |-> Serves(x), at |-> Target(at)])

\* After mount_ordered_layout every requested file system is at every place it was
\* asked for, unless it is a bare btrfs volume, and is the one that was made for it,
\* inside its own container if it is encrypted; no two entries of the layout share a
\* device.
MountedAsRequested ==
  status = "done" =>
    /\ \A x \in Requested :
         /\ ~Bare(x) => \A at \in Places(x) : IsMountedAt(x, at)
         /\ Encrypted(x) => open[Mapper(x)] = Node(x)
         /\ Fresh(x) => Head(Holds(Serves(x))) = x.fs
    /\ \A x, y \in Requested : Node(x) = Node(y) => x = y

\* The filesystem phase leaves nothing mounted at its temporary place and no
\* container open, except below LVM on LUKS: "Closing causes parent leaked errors".
ClosedAtHandover ==
  Running /\ Cmd.do = "handover" =>
    /\ \A i \in DOMAIN mounts : mounts[i].at # Tmp
    /\ layout.encryption.type # "LVM_ON_LUKS" =>
         \A x \in Requested : Children(Node(x)) = {}

\* Layouts every command of which fits: no entry for a deleted partition, with LVM
\* nothing but boot partitions and physical volumes, and with LVM on LUKS all of the
\* volumes on the last device.
Sound(l) ==
  /\ \A x \in Items(l) : x.status # "delete"
  /\ l.groups # <<>> =>
       /\ \A x \in Partitions(l) :
            x.boot \/ \E g \in ToSet(l.groups) : x.id \in g.pvs
       /\ l.encryption.type = "LVM_ON_LUKS" =>
            \A x \in Partitions(l) : x.boot \/ x.dev = Last(l.devices).dev

Plain(l) ==
  /\ l.groups = <<>> /\ l.encryption.type = "NO_ENCRYPTION"
  /\ \A x \in Items(l) : x.fs # "swap"

AtRest ==
  \A s \in Scenarios : s.layout = layout => DOMAIN s.open = {} /\ DOMAIN s.group = {}

\* The commands fit together: a sound layout on a machine at rest is set up without a
\* refusal, and a plain one also after any earlier attempt that failed or succeeded,
\* because umount_all_existing undoes what that attempt mounted.
SoundLayoutsAreNotRefused ==
  why = "refused" => ~(Sound(layout) /\ AtRest /\ (attempt = 1 \/ Plain(layout)))

Missing(x)   == <<x.dev, x.num>> \notin DOMAIN layers
Ambiguous(x) == \E n \in DOMAIN layers : n[1] \in DOMAIN group \ {x.dev} /\ n[2] = x.num

\* The only place where the setup hangs is the wait for a volume that lvcreate did not
\* create, or whose name another group uses, too.
SetupEnds ==
  Running ~> (~Running \/ (Cmd.do = "lvwait" /\ (Missing(Cmd.item) \/ Ambiguous(Cmd.item))))

=============================================================================
