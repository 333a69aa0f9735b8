--------------------------- MODULE GlobalMenuProofs ---------------------------
(***************************************************************************)
(* What holds of the runs with the granular menu and of the files between  *)
(* them for any disks, layouts, command lines, kernels and settings, and   *)
(* for any number of sessions and edits.                                   *)
(*                                                                         *)
(* First the round trip of a configuration as one equation (Reloaded), of  *)
(* which everything about loaded files follows; then the invariant of the  *)
(* sessions, which ties the loaded configuration to the files it came from.*)
(***************************************************************************)
EXTENDS GlobalMenu, TLAPS

Creds == [users : {"none", "regular", "sudo"}, root : BOOLEAN, password : BOOLEAN]

NoFile == [k \in {} |-> None]

LoadedAuth(a, c) ==
  LET u2f == IF a.auth_config = None THEN None ELSE ParseU2F(a.auth_config.u2f)
  IN IF u2f = None /\ ~c.root /\ c.users = "none" THEN None
     ELSE [root |-> c.root, users |-> c.users, u2f |-> u2f]

\* What comes back when the file of configuration a is loaded.
Reloaded(a, c, present) ==
  [archinstall_language |-> "en",
   hostname |-> IF a.hostname = None THEN "archlinux" ELSE a.hostname,
   kernels |-> IF a.kernels = {} THEN {"linux"} ELSE a.kernels,
   disk_config |-> IF a.disk_config = None THEN None
                   ELSE ParseLayout(LayoutJson(a.disk_config), c.password, present),
   bootloader_config |-> a.bootloader_config,
   auth_config |-> LoadedAuth(a, c),
   profile_config |-> a.profile_config,
   plain |-> a.plain]

-----------------------------------------------------------------------------
(* The round trip *)

\* A new configuration is one.
LEMMA ArchConfigType == ArchConfig \in Config
BY FilesAssumption DEF ArchConfig, Config

\* A layout as it is written to a file.
LEMMA LayoutJsonType ==
  ASSUME NEW d \in AnyLayout
  PROVE  /\ LayoutJson(d) \in AnyLayout
         /\ LayoutJson(d).config_type = d.config_type /\ LayoutJson(d).disks = d.disks
         /\ LayoutJson(d).boot = d.boot /\ LayoutJson(d).aligned = d.aligned
         /\ LayoutJson(d).encrypted = IF d.config_type = "pre_mounted" THEN {} ELSE d.encrypted
         /\ LayoutJson(d).config_type # "pre_mounted" => LayoutJson(d).subvols # "path"
<1>1. CASE d.config_type = "pre_mounted"
  <2> DEFINE e == [d EXCEPT !.encrypted = {}, !.snapshots = FALSE]
  <2>1. LayoutJson(d) = e
    BY <1>1 DEF LayoutJson
  <2>2. e \in AnyLayout /\ e.config_type = d.config_type /\ e.disks = d.disks /\ e.encrypted = {}
        /\ e.boot = d.boot /\ e.aligned = d.aligned
    BY DEF AnyLayout
  <2> QED BY <1>1, <2>1, <2>2
<1>2. CASE d.config_type # "pre_mounted"
  <2> DEFINE e == [d EXCEPT !.subvols = IF @ = "none" THEN "none" ELSE "str"]
  <2>1. LayoutJson(d) = e
    BY <1>2 DEF LayoutJson
  <2>2. e \in AnyLayout /\ e.config_type = d.config_type /\ e.disks = d.disks /\ e.subvols # "path"
        /\ e.encrypted = d.encrypted
        /\ e.boot = d.boot /\ e.aligned = d.aligned
    BY DEF AnyLayout
  <2> QED BY <1>2, <2>1, <2>2
<1> QED BY <1>1, <1>2

\* The entries of a layout and of the accounts are values, never Python's None.
LEMMA EntriesAreThere ==
  ASSUME NEW a \in Config
  PROVE  /\ a.disk_config # None => LayoutJson(a.disk_config) \in AnyLayout
         /\ a.disk_config # None => LayoutJson(a.disk_config) # None
         /\ a.auth_config # None => AuthJson(a.auth_config) \in Auth
         /\ a.auth_config # None => AuthJson(a.auth_config) # None
         /\ a.kernels # None /\ a.plain # None
<1>1. a.disk_config # None => LayoutJson(a.disk_config) \in AnyLayout
  BY LayoutJsonType DEF Config
<1>2. a.auth_config # None => AuthJson(a.auth_config) \in Auth
  BY DEF Config, AuthJson, Auth, U2F
<1>3. a.kernels \in SUBSET Kernels /\ a.plain \in [Plain -> {"default", "chosen"}]
  BY DEF Config
<1> QED BY <1>1, <1>2, <1>3, GlobalMenuAssumption

\* The entry of a layout in the file.
LEMMA WrittenLayout ==
  ASSUME NEW a \in Config, a.disk_config # None
  PROVE  /\ "disk_config" \in DOMAIN SafeConfig(a)
         /\ SafeConfig(a).disk_config = LayoutJson(a.disk_config)
<1>1. /\ "disk_config" \in DOMAIN Entries(a)
      /\ Entries(a).disk_config = LayoutJson(a.disk_config)
  BY DEF Entries
<1>2. Entries(a).disk_config # None
  BY <1>1, EntriesAreThere
<1> QED BY <1>1, <1>2 DEF SafeConfig

\* Loading the file of a configuration, key by key: an entry is missing exactly
\* if its value is None (safe_config, from_config).
LEMMA LoadedOfFile ==
  ASSUME NEW a \in Config, NEW c, NEW present
  PROVE  FromConfig(SafeConfig(a), c, present) = Reloaded(a, c, present)
<1> DEFINE f == SafeConfig(a)
           E == Entries(a)
<1>1. /\ DOMAIN E = {"archinstall_language", "hostname", "kernels", "disk_config",
                     "bootloader_config", "auth_config", "profile_config", "plain"}
      /\ E.hostname = a.hostname /\ E.kernels = a.kernels
      /\ E.disk_config = IF a.disk_config = None THEN None ELSE LayoutJson(a.disk_config)
      /\ E.bootloader_config = a.bootloader_config
      /\ E.auth_config = IF a.auth_config = None THEN None ELSE AuthJson(a.auth_config)
      /\ E.profile_config = a.profile_config /\ E.plain = a.plain
  BY DEF Entries
<1>2. \A k \in DOMAIN E : (k \in DOMAIN f <=> E[k] # None) /\ (k \in DOMAIN f => f[k] = E[k])
  BY DEF SafeConfig
<1> HIDE DEF f, E
<1>3. Get(f, "hostname", "archlinux") = IF a.hostname = None THEN "archlinux" ELSE a.hostname
  BY <1>1, <1>2 DEF Get
<1>4. /\ Get(f, "kernels", {}) = a.kernels /\ f.kernels = a.kernels
      /\ Get(f, "plain", [p \in Plain |-> "default"]) = a.plain
  BY <1>1, <1>2, EntriesAreThere DEF Get
<1>5. /\ Get(f, "bootloader_config", None) = a.bootloader_config
      /\ Get(f, "profile_config", None) = a.profile_config
  BY <1>1, <1>2 DEF Get
<1>6. /\ "disk_config" \in DOMAIN f <=> a.disk_config # None
      /\ a.disk_config # None => f.disk_config = LayoutJson(a.disk_config)
  BY <1>1, <1>2, EntriesAreThere
<1>7. /\ "auth_config" \in DOMAIN f <=> a.auth_config # None
      /\ a.auth_config # None => f.auth_config = AuthJson(a.auth_config)
  BY <1>1, <1>2, EntriesAreThere
<1>8. a.auth_config # None => AuthJson(a.auth_config).u2f = a.auth_config.u2f
  BY DEF AuthJson
<1>9. ParseAuth(f, c) = LoadedAuth(a, c)
  BY <1>7, <1>8 DEF ParseAuth, LoadedAuth
<1> QED BY <1>3, <1>4, <1>5, <1>6, <1>9 DEF FromConfig, Reloaded, f

\* A run without a file starts like one with the file of a new configuration.
LEMMA LoadedOfNothing ==
  ASSUME NEW c, NEW present
  PROVE  FromConfig(NoFile, c, present) = Reloaded(ArchConfig, c, present)
<1>1. \A k, d : Get(NoFile, k, d) = d
  BY DEF Get, NoFile
<1>2. "disk_config" \notin DOMAIN NoFile /\ "auth_config" \notin DOMAIN NoFile
  BY DEF NoFile
<1>3. None # "archlinux" /\ {"linux"} # {}
  BY FilesAssumption
<1>4. /\ ArchConfig.hostname = "archlinux" /\ ArchConfig.kernels = {"linux"}
      /\ ArchConfig.disk_config = None /\ ArchConfig.bootloader_config = None
      /\ ArchConfig.auth_config = None /\ ArchConfig.profile_config = None
      /\ ArchConfig.plain = [p \in Plain |-> "default"]
  BY DEF ArchConfig
<1>5. ParseAuth(NoFile, c) = LoadedAuth(ArchConfig, c)
  BY <1>2, <1>4 DEF ParseAuth, LoadedAuth
<1> QED BY <1>1, <1>2, <1>3, <1>4, <1>5 DEF FromConfig, Reloaded

LEMMA CredsType ==
  /\ NoCreds \in Creds
  /\ \A a \in Config : UnsafeConfig(a) \in Creds
BY DEF NoCreds, Creds, UnsafeConfig, Config, Auth

\* Which partitions of a loaded layout are encrypted.
LEMMA ParsedEncryption ==
  ASSUME NEW j \in AnyLayout, NEW password, NEW present
  PROVE  ParseLayout(j, password, present).encrypted
           = IF password THEN j.encrypted \cap present ELSE {}
<1> DEFINE kept == [j EXCEPT !.disks = @ \cap present,
                             !.encrypted = IF password THEN @ \cap present ELSE {},
                             !.snapshots = FALSE]
<1>1. kept.encrypted = IF password THEN j.encrypted \cap present ELSE {}
  BY DEF AnyLayout
<1>2. ParseLayout(j, password, present)
        = [kept EXCEPT !.snapshots = HasDefaultVols(kept) /\ j.snapshots]
  BY DEF ParseLayout
<1>3. kept \in [DOMAIN j -> {kept[k] : k \in DOMAIN j}]
  BY DEF AnyLayout
<1> HIDE DEF kept
<1> QED BY <1>1, <1>2, <1>3

\* Only layouts made in this process can have snapshots.
LEMMA ParsedSnapshots ==
  ASSUME NEW j \in AnyLayout, NEW password, NEW present,
         j.config_type = "pre_mounted" \/ j.subvols # "path"
  PROVE  ParseLayout(j, password, present).snapshots = FALSE
<1> DEFINE kept == [j EXCEPT !.disks = @ \cap present,
                             !.encrypted = IF password THEN @ \cap present ELSE {},
                             !.snapshots = FALSE]
<1>1. kept.config_type = j.config_type /\ kept.subvols = j.subvols
  BY DEF AnyLayout
<1>2. (HasDefaultVols(kept) /\ j.snapshots) = FALSE
  BY <1>1 DEF HasDefaultVols
<1>3. ParseLayout(j, password, present)
        = [kept EXCEPT !.snapshots = HasDefaultVols(kept) /\ j.snapshots]
  BY DEF ParseLayout
<1>4. "snapshots" \in DOMAIN kept
  BY DEF AnyLayout
<1> HIDE DEF kept
<1> QED BY <1>2, <1>3, <1>4

\* A layout that is loaded, component by component.
LEMMA ParsedLayout ==
  ASSUME NEW j \in AnyLayout, NEW password, NEW present
  PROVE  /\ ParseLayout(j, password, present) \in AnyLayout
         /\ ParseLayout(j, password, present).config_type = j.config_type
         /\ ParseLayout(j, password, present).boot = j.boot
         /\ ParseLayout(j, password, present).subvols = j.subvols
         /\ ParseLayout(j, password, present).aligned = j.aligned
         /\ ParseLayout(j, password, present).disks = j.disks \cap present
<1>1. j.encrypted \subseteq j.disks /\ j.disks \subseteq Devices /\ j.encrypted \subseteq Devices
  BY DEF AnyLayout
<1> DEFINE kept == [j EXCEPT !.disks = @ \cap present,
                             !.encrypted = IF password THEN @ \cap present ELSE {},
                             !.snapshots = FALSE]
           d == ParseLayout(j, password, present)
<1>2. /\ kept \in AnyLayout
      /\ kept.config_type = j.config_type /\ kept.boot = j.boot
      /\ kept.subvols = j.subvols /\ kept.aligned = j.aligned
      /\ kept.disks = j.disks \cap present
      /\ kept.encrypted = IF password THEN j.encrypted \cap present ELSE {}
  BY <1>1 DEF AnyLayout
<1>3. HasDefaultVols(kept) \in BOOLEAN /\ j.snapshots \in BOOLEAN
  BY DEF HasDefaultVols, AnyLayout
<1>4. d = [kept EXCEPT !.snapshots = HasDefaultVols(kept) /\ j.snapshots]
  BY DEF ParseLayout
<1> HIDE DEF kept, d
<1> DEFINE n == HasDefaultVols(kept) /\ j.snapshots
<1>5. n \in BOOLEAN
  BY <1>3
<1>6. d = [kept EXCEPT !.snapshots = n]
  BY <1>4
<1> HIDE DEF n
<1>7. /\ d \in AnyLayout /\ d.snapshots = n
      /\ d.config_type = kept.config_type /\ d.boot = kept.boot
      /\ d.subvols = kept.subvols /\ d.aligned = kept.aligned
      /\ d.disks = kept.disks /\ d.encrypted = kept.encrypted
  BY <1>2, <1>5, <1>6 DEF AnyLayout
<1> QED BY <1>2, <1>5, <1>7 DEF d

LEMMA ReloadedType ==
  ASSUME NEW a \in Config, NEW c \in Creds, NEW present
  PROVE  Reloaded(a, c, present) \in Config
<1>1. a.disk_config # None =>
        ParseLayout(LayoutJson(a.disk_config), c.password, present) \in AnyLayout
  BY EntriesAreThere, ParsedLayout DEF Creds
<1>2. LoadedAuth(a, c) \in Auth \cup {None}
  BY DEF LoadedAuth, ParseU2F, Auth, U2F, Creds, Config
<1> QED BY <1>1, <1>2, FilesAssumption DEF Reloaded, Config

\* Layouts are equal if their components are.
LEMMA SameLayout ==
  ASSUME NEW d \in AnyLayout, NEW e \in AnyLayout,
         d.config_type = e.config_type, d.disks = e.disks, d.encrypted = e.encrypted,
         d.boot = e.boot, d.subvols = e.subvols, d.aligned = e.aligned,
         d.snapshots = e.snapshots
  PROVE  d = e
BY DEF AnyLayout

\* What a load leaves of a layout is written and loaded as it is.
LEMMA LayoutIsStable ==
  ASSUME NEW a \in AnyLayout, NEW password, NEW present
  PROVE  LET d == ParseLayout(LayoutJson(a), password, present)
         IN ParseLayout(LayoutJson(d), d.encrypted # {}, present) = d
<1> DEFINE j == LayoutJson(a)
           d == ParseLayout(j, password, present)
           k == LayoutJson(d)
           p == d.encrypted # {}
           e == ParseLayout(k, p, present)
<1>1. /\ j \in AnyLayout
      /\ j.config_type = "pre_mounted" => j.encrypted = {}
      /\ j.config_type # "pre_mounted" => j.subvols # "path"
  BY LayoutJsonType
<1> HIDE DEF j
<1>2. /\ d \in AnyLayout
      /\ d.config_type = j.config_type /\ d.subvols = j.subvols
      /\ d.disks = j.disks \cap present
      /\ d.encrypted = IF password THEN j.encrypted \cap present ELSE {}
      /\ d.snapshots = FALSE
  <2>1. /\ d \in AnyLayout
        /\ d.config_type = j.config_type /\ d.subvols = j.subvols
        /\ d.disks = j.disks \cap present
    BY <1>1, ParsedLayout
  <2>2. d.encrypted = IF password THEN j.encrypted \cap present ELSE {}
    BY <1>1, ParsedEncryption
  <2>3. d.snapshots = FALSE
    BY <1>1, ParsedSnapshots
  <2> QED BY <2>1, <2>2, <2>3
<1> HIDE DEF d
<1>3. k \in AnyLayout
  BY <1>2, LayoutJsonType
<1>4. k = d
  <2>1. CASE d.config_type = "pre_mounted"
    <3>1. d.encrypted = {} /\ d.snapshots = FALSE
      BY <1>1, <1>2, <2>1
    <3>2. k = [d EXCEPT !.encrypted = {}, !.snapshots = FALSE]
      BY <2>1 DEF LayoutJson
    <3> QED BY <1>2, <3>1, <3>2 DEF AnyLayout
  <2>2. CASE d.config_type # "pre_mounted"
    <3>1. d.subvols \in {"none", "str"}
      BY <1>1, <1>2, <2>2 DEF AnyLayout
    <3>2. k = [d EXCEPT !.subvols = IF @ = "none" THEN "none" ELSE "str"]
      BY <2>2 DEF LayoutJson
    <3> QED BY <1>2, <3>1, <3>2 DEF AnyLayout
  <2> QED BY <2>1, <2>2
<1> HIDE DEF k
<1>5. p \in BOOLEAN /\ (p <=> d.encrypted # {})
  OBVIOUS
<1> HIDE DEF p
<1>6. /\ e \in AnyLayout
      /\ e.config_type = d.config_type /\ e.boot = d.boot
      /\ e.subvols = d.subvols /\ e.aligned = d.aligned
      /\ e.disks = d.disks \cap present
      /\ e.encrypted = IF p THEN d.encrypted \cap present ELSE {}
      /\ e.snapshots = FALSE
  <2>1. /\ e \in AnyLayout
        /\ e.config_type = k.config_type /\ e.boot = k.boot
        /\ e.subvols = k.subvols /\ e.aligned = k.aligned
        /\ e.disks = k.disks \cap present
    BY <1>3, ParsedLayout
  <2>2. e.encrypted = IF p THEN k.encrypted \cap present ELSE {}
    BY <1>3, ParsedEncryption
  <2>3. k.config_type = "pre_mounted" \/ k.subvols # "path"
    BY <1>1, <1>2, <1>4
  <2>4. e.snapshots = FALSE
    BY <1>3, <2>3, ParsedSnapshots
  <2> QED BY <1>2, <1>4, <2>1, <2>2, <2>4
<1>7. e.disks = d.disks /\ e.encrypted = d.encrypted
  BY <1>2, <1>5, <1>6
<1> HIDE DEF e
<1>8. e = d
  BY <1>2, <1>6, <1>7, SameLayout
<1> QED BY <1>8 DEF e, p, k, d, j

\* Nor do the accounts change a second time.
LEMMA AuthIsStable ==
  ASSUME NEW a \in Config, NEW c \in Creds, NEW b \in Config,
         b.auth_config = LoadedAuth(a, c)
  PROVE  LoadedAuth(b, UnsafeConfig(b)) = b.auth_config
<1> DEFINE u == IF a.auth_config = None THEN None ELSE ParseU2F(a.auth_config.u2f)
           A == b.auth_config
           d == UnsafeConfig(b)
<1>1. u \in {None, "u2f_passwordless_sudo"}
  BY DEF ParseU2F
<1>2. A = IF u = None /\ ~c.root /\ c.users = "none" THEN None
          ELSE [root |-> c.root, users |-> c.users, u2f |-> u]
  BY DEF LoadedAuth
<1> HIDE DEF u
<1>3. CASE A = None
  <2>1. d.root = FALSE /\ d.users = "none"
    BY <1>3 DEF UnsafeConfig
  <2> QED BY <1>3, <2>1 DEF LoadedAuth
<1>4. CASE A # None
  <2>1. /\ A = [root |-> c.root, users |-> c.users, u2f |-> u]
        /\ ~(u = None /\ ~c.root /\ c.users = "none")
    BY <1>2, <1>4
  <2>2. d.root = A.root /\ d.users = A.users
    BY <1>4 DEF UnsafeConfig
  <2>4. A.root = c.root /\ A.users = c.users /\ A.u2f = u
    BY <2>1
  <2>3. ParseU2F(A.u2f) = u
    BY <1>1, <2>1 DEF ParseU2F
  <2> QED BY <1>4, <2>1, <2>2, <2>3, <2>4 DEF LoadedAuth
<1> QED BY <1>3, <1>4

\* Writing and loading a loaded configuration changes nothing more.
LEMMA ReloadedIsStable ==
  ASSUME NEW a \in Config, NEW c \in Creds, NEW present
  PROVE  LET b == Reloaded(a, c, present)
         IN Reloaded(b, UnsafeConfig(b), present) = b
<1> DEFINE b == Reloaded(a, c, present)
           d == UnsafeConfig(b)
           r == Reloaded(b, d, present)
<1>1. b \in Config
  BY ReloadedType
<1>2. /\ b.archinstall_language = "en"
      /\ b.hostname = (IF a.hostname = None THEN "archlinux" ELSE a.hostname)
      /\ b.kernels = (IF a.kernels = {} THEN {"linux"} ELSE a.kernels)
      /\ b.disk_config = (IF a.disk_config = None THEN None
                          ELSE ParseLayout(LayoutJson(a.disk_config), c.password, present))
      /\ b.bootloader_config = a.bootloader_config
      /\ b.auth_config = LoadedAuth(a, c)
      /\ b.profile_config = a.profile_config /\ b.plain = a.plain
      /\ b = [archinstall_language |-> b.archinstall_language, hostname |-> b.hostname,
              kernels |-> b.kernels, disk_config |-> b.disk_config,
              bootloader_config |-> b.bootloader_config, auth_config |-> b.auth_config,
              profile_config |-> b.profile_config, plain |-> b.plain]
  BY DEF Reloaded
<1> HIDE DEF b
<1>3. LoadedAuth(b, d) = b.auth_config
  BY <1>1, <1>2, AuthIsStable
<1>4. b.hostname # None /\ b.kernels # {}
  BY <1>2, FilesAssumption
<1>5. ASSUME b.disk_config # None
      PROVE  ParseLayout(LayoutJson(b.disk_config), d.password, present) = b.disk_config
  <2>1. a.disk_config # None /\ a.disk_config \in AnyLayout
    BY <1>2, <1>5 DEF Config
  <2>2. d.password = (b.disk_config.encrypted # {})
    BY <1>5 DEF UnsafeConfig
  <2>3. b.disk_config = ParseLayout(LayoutJson(a.disk_config), c.password, present)
    BY <1>2, <2>1
  <2>4. c.password \in BOOLEAN
    BY DEF Creds
  <2> QED BY <2>1, <2>2, <2>3, <2>4, LayoutIsStable
<1>6. r = b
  BY <1>2, <1>3, <1>4, <1>5 DEF Reloaded
<1> QED BY <1>6 DEF b

-----------------------------------------------------------------------------
(* The sessions *)

FromFile(o)  == IF o.file = None THEN ArchConfig ELSE o.file
FromCreds(o) == IF o.creds = None THEN NoCreds ELSE UnsafeConfig(o.creds)

\* Between the start of a session and its end the loaded configuration is what
\* its files give on this machine, and they were not refused.
LoadedInv ==
  IF pc = "shell" THEN opened = NotOpened
  ELSE /\ opened.config = Reloaded(FromFile(opened), FromCreds(opened), args.present)
       /\ opened.file # None /\ opened.file.disk_config # None =>
            ~LayoutRefused(LayoutJson(opened.file.disk_config), FromCreds(opened).password,
                           args.present)

\* Only the menu changes a configuration, a silent run has none, and the menu is
\* left for an installation with a complete one.
PathInv ==
  /\ pc \in {"main", "install"} /\ args.silent => config = opened.config
  /\ pc \in {"main", "confirm", "install"} /\ ~args.silent => Complete(config)

IInv ==
  /\ TypeOK
  /\ pc = "menu" => items.bootloader_config # None
  /\ LoadedInv
  /\ PathInv

LEMMA NotOpenedType ==
  NotOpened \in [config : Config, file : Config \cup {None}, creds : Config \cup {None}]
BY ArchConfigType DEF NotOpened

LEMMA RunsAreArguments == \A r \in Runs : r \in Arguments /\ (r.silent => r.config # None)
BY GlobalMenuAssumption

LEMMA InitInv == Init => IInv
<1> SUFFICES ASSUME Init PROVE IInv
  OBVIOUS
<1>1. pc = "shell" /\ args \in Runs /\ items = ArchConfig /\ config = ArchConfig
      /\ opened = NotOpened /\ edits = 0 /\ sessions = 0
  BY DEF Init
<1>2. files \in [config : [Dirs -> Config \cup {None}],
                creds : [of : Config, encrypted : BOOLEAN] \cup {None}]
  <2>1. CASE files = NoFiles
    BY <2>1 DEF NoFiles
  <2>2. CASE \E c \in Earlier :
          files = [config |-> [d \in Dirs |-> c], creds |-> [of |-> c, encrypted |-> FALSE]]
    <3>1. PICK c \in Earlier :
            files = [config |-> [d \in Dirs |-> c], creds |-> [of |-> c, encrypted |-> FALSE]]
      BY <2>2
    <3>2. c \in Config
      BY GlobalMenuAssumption
    <3> QED BY <3>1, <3>2
  <2> QED BY <2>1, <2>2 DEF Init
<1>3. 0 \in 0..MaxEdits /\ 0 \in 0..MaxSessions
  BY BoundsAssumption
<1>4. TypeOK
  BY <1>1, <1>2, <1>3, ArchConfigType, NotOpenedType DEF TypeOK
<1> QED BY <1>1, <1>4 DEF IInv, LoadedInv, PathInv

\* A session ends: the facts about its configuration end with it.
LEMMA ExitInv ==
  ASSUME IInv, Exit, files' \in [config : [Dirs -> Config \cup {None}],
                creds : [of : Config, encrypted : BOOLEAN] \cup {None}]
  PROVE  IInv'
<1>1. pc' = "shell" /\ opened' = NotOpened
  BY DEF Exit
<1>2. TypeOK'
  BY <1>1, ArchConfigType, NotOpenedType DEF Exit, TypeOK, IInv
<1> QED BY <1>1, <1>2 DEF IInv, LoadedInv, PathInv

\* What a session starts with.
LEMMA StartInv ==
  ASSUME IInv, NEW r \in Runs, Start(r)
  PROVE  IInv'
<1> DEFINE f == IF r.config = None THEN [k \in {} |-> None]
                ELSE SafeConfig(files.config[r.config])
           c == IF r.creds THEN UnsafeConfig(files.creds.of) ELSE NoCreds
           file  == IF r.config = None THEN None ELSE files.config[r.config]
           creds == IF r.creds THEN files.creds.of ELSE None
           o == [config |-> FromConfig(f, c, r.present), file |-> file, creds |-> creds]
<1>1. /\ pc = "shell" /\ args' = r /\ sessions' = sessions + 1 /\ sessions < MaxSessions
      /\ r.config # None => files.config[r.config] # None
      /\ r.creds => files.creds # None
      /\ UNCHANGED <<items, files, edits>>
  BY DEF Start
<1>2. r \in Arguments
  BY RunsAreArguments
<1>3. file \in Config \cup {None} /\ (r.config # None => file \in Config /\ file # None)
  BY <1>1, <1>2 DEF IInv, TypeOK, Arguments
<1>4. creds \in Config \cup {None} /\ (r.creds => creds \in Config /\ creds # None)
  BY <1>1, <1>2, GlobalMenuAssumption DEF IInv, TypeOK, Arguments
<1>5. FromFile(o) \in Config
  BY <1>3, ArchConfigType DEF FromFile
<1>6. FromCreds(o) = c /\ c \in Creds
  BY <1>4, CredsType DEF FromCreds
<1>7. FromConfig(f, c, r.present) = Reloaded(FromFile(o), c, r.present)
  <2>1. CASE r.config = None
    <3>1. f = NoFile /\ FromFile(o) = ArchConfig
      BY <2>1 DEF NoFile, FromFile
    <3> QED BY <3>1, LoadedOfNothing
  <2>2. CASE r.config # None
    <3>1. f = SafeConfig(file) /\ FromFile(o) = file /\ file \in Config
      BY <1>3, <2>2 DEF FromFile
    <3> QED BY <3>1, LoadedOfFile
  <2> QED BY <2>1, <2>2
<1>8. FromConfig(f, c, r.present) \in Config
  BY <1>5, <1>6, <1>7, ReloadedType
<1>9. sessions' \in 0..MaxSessions
  BY <1>1, BoundsAssumption DEF IInv, TypeOK
<1>10. CASE UNCHANGED <<pc, config, opened>>
  <2>1. pc' = "shell" /\ opened' = NotOpened
    BY <1>1, <1>10 DEF IInv, LoadedInv
  <2>2. TypeOK'
    BY <1>1, <1>9, <1>10, <2>1 DEF IInv, TypeOK
  <2> QED BY <2>1, <2>2 DEF IInv, LoadedInv, PathInv
<1>11. CASE /\ ~Refused(f, c, r.present, r.skip_boot)
            /\ config' = FromConfig(f, c, r.present)
            /\ opened' = [config |-> config', file |-> file, creds |-> creds]
            /\ pc' = IF r.silent THEN "main" ELSE "open"
  <2>1. opened' = o /\ config' = o.config
    BY <1>11
  <2>2. o \in [config : Config, file : Config \cup {None}, creds : Config \cup {None}]
    BY <1>3, <1>4, <1>8
  <2>3. pc' \in {"main", "open"} /\ (pc' = "open" => ~args'.silent) /\ (pc' = "main" => args'.silent)
    BY <1>1, <1>11
  <2>4. TypeOK'
    <3>1. config' \in Config /\ opened' \in [config : Config, file : Config \cup {None}, creds : Config \cup {None}]
      BY <1>8, <2>1, <2>2
    <3> QED BY <1>1, <1>9, <2>3, <3>1 DEF IInv, TypeOK
  <2>5. ASSUME o.file # None, o.file.disk_config # None
        PROVE  ~LayoutRefused(LayoutJson(o.file.disk_config), c.password, r.present)
    <3>1. r.config # None /\ file \in Config /\ f = SafeConfig(file) /\ o.file = file
      BY <1>3, <2>5
    <3>2. "disk_config" \in DOMAIN f /\ f.disk_config = LayoutJson(file.disk_config)
      BY <2>5, <3>1, WrittenLayout
    <3> QED BY <1>11, <3>1, <3>2 DEF Refused
  <2>6. LoadedInv'
    BY <1>1, <1>6, <1>7, <2>1, <2>3, <2>5 DEF LoadedInv
  <2>7. PathInv'
    BY <2>1, <2>3 DEF PathInv
  <2> QED BY <2>3, <2>4, <2>6, <2>7 DEF IInv
<1> QED BY <1>10, <1>11 DEF Start

\* The answers of the menus behind the items.
LEMMA AnswersType ==
  ASSUME TypeOK, NEW k \in Keys, NEW v \in Answers(k),
         items.bootloader_config # None
  PROVE  /\ [items EXCEPT ![k] = v] \in Config
         /\ [items EXCEPT ![k] = v].bootloader_config # None
<1>1. /\ items \in Config
      /\ k \in {"archinstall_language", "hostname", "kernels", "disk_config",
                "bootloader_config", "auth_config", "profile_config", "plain"}
  BY GlobalMenuAssumption DEF TypeOK, ArchConfig
<1>2. CASE k = "bootloader_config"
  <2> DEFINE b == items.bootloader_config
  <2>1. b \in BootConfig
    BY <1>1 DEF Config
  <2>2. v \in BootAnswers(b)
    BY <1>2 DEF Answers
  <2>5. v \in BootConfig
    BY <2>2 DEF BootAnswers
  <2>6. v # None
    BY <2>5, GlobalMenuAssumption
  <2> QED BY <1>1, <1>2, <2>5, <2>6 DEF Config
<1>3. CASE k = "disk_config"
  <2> DEFINE d == items.disk_config
  <2>1. d \in AnyLayout \cup {None}
    BY <1>1 DEF Config
  <2>2. v \in LayoutAnswers(d)
    BY <1>3 DEF Answers
  <2>3. Layouts \subseteq AnyLayout
    BY GlobalMenuAssumption
  <2>4. ASSUME d # None, d.config_type # "pre_mounted"
        PROVE  /\ \A e \in {{}, d.disks} : [d EXCEPT !.encrypted = e] \in AnyLayout
               /\ [d EXCEPT !.snapshots = HasDefaultVols(d)] \in AnyLayout
    <3>1. HasDefaultVols(d) \in BOOLEAN
      BY DEF HasDefaultVols
    <3>2. d \in AnyLayout
      BY <2>1, <2>4
    <3>3. \A e \in {{}, d.disks} : [d EXCEPT !.encrypted = e] \in AnyLayout
      BY <3>2 DEF AnyLayout
    <3>4. \A n \in BOOLEAN : [d EXCEPT !.snapshots = n] \in AnyLayout
      BY <3>2 DEF AnyLayout
    <3> QED BY <3>1, <3>3, <3>4
  <2>5. v \in AnyLayout \cup {None}
    BY <2>2, <2>3, <2>4 DEF LayoutAnswers
  <2> QED BY <1>1, <1>3, <2>5 DEF Config
<1>4. CASE k = "archinstall_language" \/ k = "hostname" \/ k = "kernels"
  BY <1>1, <1>4 DEF Config, Answers, LanguageAnswers, HostnameAnswers, KernelAnswers
<1>5. CASE k = "auth_config" \/ k = "profile_config" \/ k = "plain"
  BY <1>1, <1>5 DEF Config, Answers, AuthAnswers, ProfileAnswers, PlainAnswers
<1> QED BY <1>1, <1>2, <1>3, <1>4, <1>5

\* The items of a menu that opens.
LEMMA ItemsType ==
  ASSUME TypeOK
  PROVE  /\ SyncFromConfig(ItemDefaults, config) \in Config
         /\ SyncFromConfig(ItemDefaults, config).bootloader_config # None
<1> DEFINE i == SyncFromConfig(ItemDefaults, config)
           D == ItemDefaults
<1>1. config \in Config /\ DOMAIN config = DOMAIN ArchConfig
  BY DEF TypeOK, Config, ArchConfig
<1>2. DefaultBoot(args.skip_boot) \in BootConfig
  BY GlobalMenuAssumption DEF DefaultBoot, DefaultLoader, BootConfig, Loaders, UkiSupport, RemovableSupport
<1>3. DefaultBoot(args.skip_boot) # None
  BY <1>2, GlobalMenuAssumption
<1>4. /\ i.bootloader_config = IF config.bootloader_config # None THEN config.bootloader_config
                              ELSE DefaultBoot(args.skip_boot)
      /\ i.hostname = IF config.hostname # None THEN config.hostname ELSE "archlinux"
      /\ i.kernels = IF config.kernels # None THEN config.kernels ELSE {"linux"}
      /\ i.archinstall_language = IF config.archinstall_language # None
                                 THEN config.archinstall_language ELSE None
      /\ i.disk_config = config.disk_config /\ i.auth_config = config.auth_config
      /\ i.profile_config = config.profile_config
      /\ i.plain = IF config.plain # None THEN config.plain ELSE [p \in Plain |-> "default"]
      /\ i = [k \in DOMAIN ArchConfig |-> i[k]]
  BY <1>1 DEF SyncFromConfig, ItemDefaults, ArchConfig
<1>5. config.archinstall_language # None /\ config.kernels # None /\ config.plain # None
  BY <1>1, EntriesAreThere, FilesAssumption DEF Config
<1> HIDE DEF i
<1>6. /\ i.archinstall_language \in {"en", "de"}
      /\ i.hostname \in {None, "archlinux", "chosen"}
      /\ i.kernels \in SUBSET Kernels /\ i.disk_config \in AnyLayout \cup {None}
      /\ i.bootloader_config \in BootConfig \cup {None}
      /\ i.auth_config \in Auth \cup {None} /\ i.profile_config \in Profile \cup {None}
      /\ i.plain \in [Plain -> {"default", "chosen"}]
  BY <1>1, <1>2, <1>4, <1>5 DEF Config
<1>7. i \in Config
  BY <1>4, <1>6 DEF Config, ArchConfig
<1> QED BY <1>3, <1>4, <1>7 DEF i

\* Every step keeps the invariant.
LEMMA NextInv == IInv /\ [Next]_vars => IInv'
<1> SUFFICES ASSUME IInv, [Next]_vars PROVE IInv'
  OBVIOUS
<1> DEFINE FilesType(f) == f \in [config : [Dirs -> Config \cup {None}],
                                  creds : [of : Config, encrypted : BOOLEAN] \cup {None}]
<1>0. FilesType(files) /\ items \in Config /\ config \in Config
  BY DEF IInv, TypeOK
<1>1. ASSUME NEW r \in Runs, Start(r) PROVE IInv'
  BY <1>1, StartInv
<1>2. CASE OpenMenu
  <2>1. pc = "open" /\ pc' = "menu" /\ items' = SyncFromConfig(ItemDefaults, config)
        /\ UNCHANGED <<args, config, files, opened, edits, sessions>>
    BY <1>2 DEF OpenMenu
  <2>2. items' \in Config /\ items'.bootloader_config # None
    BY <2>1, ItemsType DEF IInv
  <2> QED BY <2>1, <2>2 DEF IInv, TypeOK, LoadedInv, PathInv
<1>3. ASSUME NEW k \in Keys, Choose(k) PROVE IInv'
  <2>1. PICK v \in Answers(k) : items' = [items EXCEPT ![k] = v]
    BY <1>3 DEF Choose
  <2>2. pc = "menu" /\ edits < MaxEdits /\ edits' = edits + 1
        /\ UNCHANGED <<pc, args, config, files, opened, sessions>>
    BY <1>3 DEF Choose
  <2>3. items' \in Config /\ items'.bootloader_config # None
    BY <2>1, <2>2, AnswersType DEF IInv
  <2>4. edits' \in 0..MaxEdits
    BY <2>2, BoundsAssumption DEF IInv, TypeOK
  <2> QED BY <2>2, <2>3, <2>4 DEF IInv, TypeOK, LoadedInv, PathInv
<1>4. CASE FocusInstall
  BY <1>4 DEF FocusInstall, IInv, TypeOK, LoadedInv, PathInv
<1>5. ASSUME \/ SaveConfig \/ \E e \in BOOLEAN : SaveCreds(e) \/ SaveAll(e)
      PROVE  IInv'
  <2>1. pc = "menu" /\ edits < MaxEdits /\ edits' = edits + 1 /\ config' = items
        /\ UNCHANGED <<pc, args, items, opened, sessions>>
    BY <1>5 DEF SaveConfig, SaveCreds, SaveAll
  <2>2. FilesType(files')
    <3>1. FilesType([files EXCEPT !.config["dest"] = items])
      BY <1>0 DEF Dirs
    <3>2. \A e \in BOOLEAN : FilesType([files EXCEPT !.creds = [of |-> items, encrypted |-> e]])
      BY <1>0
    <3>3. \A e \in BOOLEAN : FilesType([files EXCEPT !.config["dest"] = items,
                                           !.creds = [of |-> items, encrypted |-> e]])
      BY <1>0 DEF Dirs
    <3> QED BY <1>5, <3>1, <3>2, <3>3 DEF SaveConfig, SaveCreds, SaveAll
  <2>3. edits' \in 0..MaxEdits
    BY <2>1, BoundsAssumption DEF IInv, TypeOK
  <2> QED BY <2>1, <2>2, <2>3 DEF IInv, TypeOK, LoadedInv, PathInv
<1>6. CASE Install
  <2>1. pc = "menu" /\ pc' = "main" /\ config' = items /\ IsConfigValid(items)
        /\ UNCHANGED <<args, items, files, opened, edits, sessions>>
    BY <1>6 DEF Install
  <2>2. Complete(config')
    BY <2>1 DEF IsConfigValid, NothingMissing, Complete
  <2>3. ~args.silent
    BY <2>1 DEF IInv, TypeOK
  <2> QED BY <2>1, <2>2, <2>3 DEF IInv, TypeOK, LoadedInv, PathInv
<1>7. CASE Abort
  BY <1>0, <1>7, ExitInv DEF Abort
<1>8. CASE Main
  <2>1. FilesType(files')
    BY <1>0, <1>8 DEF Main, Dirs
  <2>2. CASE Exit
    BY <2>1, <2>2, ExitInv
  <2>3. CASE /\ pc' = IF args.silent THEN "install" ELSE "confirm"
             /\ UNCHANGED <<args, items, config, opened, edits, sessions>>
    <3>1. pc = "main" /\ pc' \in {"install", "confirm"}
          /\ (pc' = "confirm" => ~args.silent) /\ (pc' = "install" => args.silent)
      BY <1>8, <2>3 DEF Main
    <3>2. TypeOK'
      BY <2>1, <2>3, <3>1 DEF IInv, TypeOK
    <3>3. LoadedInv'
      BY <2>3, <3>1 DEF IInv, LoadedInv
    <3>4. PathInv'
      BY <2>3, <3>1 DEF IInv, PathInv, Complete
    <3> QED BY <3>1, <3>2, <3>3, <3>4 DEF IInv
  <2> QED BY <1>8, <2>2, <2>3 DEF Main
<1>9. CASE Confirm
  BY <1>9 DEF Confirm, IInv, TypeOK, LoadedInv, PathInv
<1>10. CASE Refuse
  BY <1>10 DEF Refuse, IInv, TypeOK, LoadedInv, PathInv
<1>11. CASE Installed
  BY <1>0, <1>11, ExitInv DEF Installed
<1>12. CASE UNCHANGED vars
  BY <1>12 DEF vars, IInv, TypeOK, LoadedInv, PathInv
<1> QED BY <1>1, <1>2, <1>3, <1>4, <1>5, <1>6, <1>7, <1>8, <1>9, <1>10, <1>11, <1>12 DEF Next

\* The invariant holds throughout every behaviour.
THEOREM SpecInv == Spec => []IInv
BY InitInv, NextInv, PTL DEF Spec

-----------------------------------------------------------------------------
(* What the invariant gives *)

\* The variables have their types: an item is None only where the code allows it.
THEOREM SessionsTypeCorrect == Spec => []TypeOK
<1>1. IInv => TypeOK
  BY DEF IInv
<1> QED BY <1>1, SpecInv, PTL

\* Whatever was loaded, reset, refused and changed before, an installation that is
\* started from the menu has a complete configuration (global_menu.py:241).
THEOREM InstalledIsComplete == Spec => []CompleteWhenStarted
<1>1. IInv => CompleteWhenStarted
  BY DEF IInv, PathInv, CompleteWhenStarted
<1> QED BY <1>1, SpecInv, PTL

\* The loaded configuration is one that loading changes no more.
LEMMA LoadedIsStable ==
  ASSUME IInv, pc # "shell"
  PROVE  Reloaded(opened.config, UnsafeConfig(opened.config), args.present) = opened.config
<1>1. opened \in [config : Config, file : Config \cup {None}, creds : Config \cup {None}]
  BY DEF IInv, TypeOK
<1>2. FromFile(opened) \in Config
  BY <1>1, ArchConfigType DEF FromFile
<1>3. FromCreds(opened) \in Creds
  BY <1>1, CredsType DEF FromCreds
<1>4. opened.config = Reloaded(FromFile(opened), FromCreds(opened), args.present)
  BY DEF IInv, LoadedInv
<1> QED BY <1>2, <1>3, <1>4, ReloadedIsStable

\* The files of a loaded configuration load as that configuration.
THEOREM LoadingIsStable == Spec => []LoadedFilesAreStable
<1>1. IInv => LoadedFilesAreStable
  <2> SUFFICES ASSUME IInv, pc \in {"open", "main"}
               PROVE  FromConfig(SafeConfig(opened.config), UnsafeConfig(opened.config), args.present)
                        = opened.config
    BY DEF LoadedFilesAreStable
  <2>1. opened.config \in Config
    BY DEF IInv, TypeOK
  <2>2. Reloaded(opened.config, UnsafeConfig(opened.config), args.present) = opened.config
    BY LoadedIsStable
  <2> QED BY <2>1, <2>2, LoadedOfFile
<1> QED BY <1>1, SpecInv, PTL

\* With its password at hand an encrypted layout is never loaded in the clear.
THEOREM EncryptionSurvives == Spec => []PasswordKeepsEncryption
<1>1. IInv => PasswordKeepsEncryption
  <2> SUFFICES ASSUME IInv, pc \in {"open", "main"}, opened.file # None, opened.creds # None,
                      opened.file.disk_config # None, UnsafeConfig(opened.creds).password
               PROVE  LET j == LayoutJson(opened.file.disk_config)
                      IN /\ j.encrypted # {} => opened.config.disk_config.encrypted # {}
                         /\ opened.config.disk_config.encrypted = j.encrypted \cap args.present
    BY DEF PasswordKeepsEncryption
  <2> DEFINE d == opened.file.disk_config
             j == LayoutJson(d)
             p == FromCreds(opened).password
  <2>1. opened.file \in Config /\ opened.creds \in Config
    BY DEF IInv, TypeOK
  <2>2. d \in AnyLayout /\ j \in AnyLayout
    BY <2>1, LayoutJsonType DEF Config
  <2>3. p
    BY DEF FromCreds
  <2>4. opened.config.disk_config = ParseLayout(j, p, args.present)
    BY DEF IInv, LoadedInv, Reloaded, FromFile
  <2>5. opened.config.disk_config.encrypted = j.encrypted \cap args.present
    <3> HIDE DEF j, p
    <3>1. ParseLayout(j, p, args.present).encrypted
            = IF p THEN j.encrypted \cap args.present ELSE {}
      BY <2>2, ParsedEncryption
    <3> QED BY <2>3, <2>4, <3>1
  <2>6. ~LayoutRefused(j, p, args.present)
    BY DEF IInv, LoadedInv
  <2>7. j.encrypted # {} => j.encrypted \cap args.present # {}
    BY <2>3, <2>6 DEF LayoutRefused
  <2> QED BY <2>5, <2>7
<1> QED BY <1>1, SpecInv, PTL

\* Both files of one configuration give its answers back.
LEMMA AnswersComeBack ==
  ASSUME NEW a \in Config, NEW present,
         a.disk_config # None => a.disk_config.disks \subseteq present
  PROVE  LET b == Reloaded(a, UnsafeConfig(a), present)
         IN /\ b.plain = a.plain
            /\ b.kernels = a.kernels \/ a.kernels = {}
            /\ b.bootloader_config = a.bootloader_config
            /\ b.profile_config = a.profile_config
            /\ HasLogin(b.auth_config) = HasLogin(a.auth_config)
            /\ HasUser(b.auth_config) = HasUser(a.auth_config)
            /\ a.disk_config = None => b.disk_config = None
            /\ a.disk_config # None =>
                 /\ b.disk_config # None
                 /\ b.disk_config.disks = a.disk_config.disks
                 /\ b.disk_config.boot = a.disk_config.boot
                 /\ b.disk_config.encrypted = LayoutJson(a.disk_config).encrypted
<1> DEFINE c == UnsafeConfig(a)
           b == Reloaded(a, c, present)
<1>1. /\ b.plain = a.plain
      /\ b.kernels = a.kernels \/ a.kernels = {}
      /\ b.bootloader_config = a.bootloader_config
      /\ b.profile_config = a.profile_config
      /\ b.auth_config = LoadedAuth(a, c)
      /\ a.disk_config = None => b.disk_config = None
      /\ a.disk_config # None =>
           b.disk_config = ParseLayout(LayoutJson(a.disk_config), c.password, present)
  BY DEF Reloaded
<1> HIDE DEF b
<1>2. /\ HasLogin(b.auth_config) = HasLogin(a.auth_config)
      /\ HasUser(b.auth_config) = HasUser(a.auth_config)
  <2>1. CASE a.auth_config = None
    <3>1. c.root = FALSE /\ c.users = "none"
      BY <2>1 DEF UnsafeConfig
    <3>2. b.auth_config = None
      BY <1>1, <2>1, <3>1 DEF LoadedAuth
    <3> QED BY <2>1, <3>2
  <2>2. CASE a.auth_config # None
    <3>1. c.root = a.auth_config.root /\ c.users = a.auth_config.users
      BY <2>2 DEF UnsafeConfig
    <3>2. \/ b.auth_config = None /\ ~c.root /\ c.users = "none"
          \/ b.auth_config # None /\ b.auth_config.root = c.root /\ b.auth_config.users = c.users
      <4>1. a.auth_config \in Auth
        BY <2>2 DEF Config
      <4>2. c.root \in BOOLEAN /\ c.users \in {"none", "regular", "sudo"}
        BY <3>1, <4>1 DEF Auth
      <4>3. ParseU2F(a.auth_config.u2f) \in U2F
        BY DEF ParseU2F, U2F
      <4>4. [root |-> c.root, users |-> c.users, u2f |-> ParseU2F(a.auth_config.u2f)] \in Auth
        BY <4>2, <4>3 DEF Auth
      <4>5. [root |-> c.root, users |-> c.users, u2f |-> ParseU2F(a.auth_config.u2f)] # None
        BY <4>4, GlobalMenuAssumption
      <4>6. b.auth_config
              = IF ParseU2F(a.auth_config.u2f) = None /\ ~c.root /\ c.users = "none" THEN None
                ELSE [root |-> c.root, users |-> c.users, u2f |-> ParseU2F(a.auth_config.u2f)]
        BY <1>1, <2>2 DEF LoadedAuth
      <4> HIDE DEF c
      <4> QED BY <4>2, <4>5, <4>6
    <3> QED BY <2>2, <3>1, <3>2 DEF HasLogin, HasUser
  <2> QED BY <2>1, <2>2
<1>3. ASSUME a.disk_config # None
      PROVE  /\ b.disk_config # None
             /\ b.disk_config.disks = a.disk_config.disks
             /\ b.disk_config.boot = a.disk_config.boot
             /\ b.disk_config.encrypted = LayoutJson(a.disk_config).encrypted
  <2> DEFINE d == a.disk_config
             j == LayoutJson(d)
  <2>1. d \in AnyLayout
    BY <1>3 DEF Config
  <2>2. j \in AnyLayout /\ j.disks = d.disks /\ j.boot = d.boot
    BY <2>1, LayoutJsonType
  <2>3. j.encrypted \subseteq j.disks /\ j.disks \subseteq present
    BY <1>3, <2>2 DEF AnyLayout
  <2>4. d.encrypted = {} => j.encrypted = {}
    BY <2>1, LayoutJsonType
  <2>5. c.password = (d.encrypted # {})
    BY <1>3 DEF UnsafeConfig
  <2> HIDE DEF j
  <2>6. b.disk_config = ParseLayout(j, c.password, present)
    BY <1>1, <1>3 DEF j
  <2>7. /\ b.disk_config \in AnyLayout /\ b.disk_config.boot = j.boot
        /\ b.disk_config.disks = j.disks \cap present
    BY <2>2, <2>6, ParsedLayout
  <2>8. b.disk_config.encrypted = IF c.password THEN j.encrypted \cap present ELSE {}
    <3> DEFINE p == c.password
    <3>1. b.disk_config = ParseLayout(j, p, present)
      BY <2>6
    <3> HIDE DEF p
    <3>2. ParseLayout(j, p, present).encrypted = IF p THEN j.encrypted \cap present ELSE {}
      BY <2>2, ParsedEncryption
    <3>3. b.disk_config.encrypted = IF p THEN j.encrypted \cap present ELSE {}
      BY <3>1, <3>2
    <3> QED BY <3>3 DEF p
  <2>9. b.disk_config.encrypted = j.encrypted
    BY <2>3, <2>4, <2>5, <2>8
  <2>10. b.disk_config # None
    BY <2>7, GlobalMenuAssumption
  <2> QED BY <2>2, <2>3, <2>7, <2>9, <2>10 DEF j
<1> QED BY <1>1, <1>2, <1>3 DEF b

\* A session whose two files were written from one configuration, on a machine
\* that has its disks, loads that configuration.
LEMMA SourceIsLoaded ==
  ASSUME IInv, pc # "shell", Source # None, AllThere(Source)
  PROVE  /\ Source \in Config
         /\ opened.config = Reloaded(Source, UnsafeConfig(Source), args.present)
         /\ Source.disk_config # None => Source.disk_config.disks \subseteq args.present
<1>1. opened.file # None /\ opened.creds = opened.file /\ Source = opened.file
  BY DEF Source
<1>2. Source \in Config
  BY <1>1 DEF IInv, TypeOK
<1>3. FromFile(opened) = Source /\ FromCreds(opened) = UnsafeConfig(Source)
  BY <1>1 DEF FromFile, FromCreds
<1>4. opened.config = Reloaded(Source, UnsafeConfig(Source), args.present)
  BY <1>3 DEF IInv, LoadedInv
<1>5. Source.disk_config # None => Source.disk_config.disks \subseteq args.present
  BY DEF AllThere
<1> QED BY <1>2, <1>4, <1>5

\* Loading the files of a configuration gives its answers back.
THEOREM AnswersAreReloaded == Spec => []ReloadKeepsTheAnswers
<1>1. IInv => ReloadKeepsTheAnswers
  <2> SUFFICES ASSUME IInv, pc \in {"open", "main"}, Source # None, AllThere(Source)
               PROVE  ReloadKeepsTheAnswers
    BY DEF ReloadKeepsTheAnswers
  <2> DEFINE a == Source
  <2>1. /\ a \in Config /\ opened.config = Reloaded(a, UnsafeConfig(a), args.present)
        /\ a.disk_config # None => a.disk_config.disks \subseteq args.present
    BY SourceIsLoaded
  <2> HIDE DEF a
  <2>2. /\ opened.config.plain = a.plain
        /\ opened.config.kernels = a.kernels \/ a.kernels = {}
        /\ opened.config.bootloader_config = a.bootloader_config
        /\ opened.config.profile_config = a.profile_config
        /\ HasLogin(opened.config.auth_config) = HasLogin(a.auth_config)
        /\ HasUser(opened.config.auth_config) = HasUser(a.auth_config)
        /\ a.disk_config = None => opened.config.disk_config = None
        /\ a.disk_config # None =>
             /\ opened.config.disk_config # None
             /\ opened.config.disk_config.disks = a.disk_config.disks
             /\ opened.config.disk_config.boot = a.disk_config.boot
             /\ opened.config.disk_config.encrypted = LayoutJson(a.disk_config).encrypted
    BY <2>1, AnswersComeBack
  <2> QED BY <2>2 DEF ReloadKeepsTheAnswers, a
<1> QED BY <1>1, SpecInv, PTL

\* A silent run over the files of a complete configuration installs a complete one.
THEOREM SilentRunsAreComplete == Spec => []SilentRerunsAreComplete
<1>1. IInv => SilentRerunsAreComplete
  <2> SUFFICES ASSUME IInv, pc = "install", args.silent, Source # None,
                      Complete(Source), AllThere(Source)
               PROVE  Complete(config)
    BY DEF SilentRerunsAreComplete
  <2> DEFINE a == Source
             b == opened.config
  <2>1. /\ a \in Config /\ b = Reloaded(a, UnsafeConfig(a), args.present)
        /\ a.disk_config # None => a.disk_config.disks \subseteq args.present
    BY SourceIsLoaded
  <2>2. config = b
    BY DEF IInv, PathInv
  <2>3. Complete(a)
    OBVIOUS
  <2> HIDE DEF a, b
  <2>4. /\ b.kernels = a.kernels \/ a.kernels = {}
        /\ b.bootloader_config = a.bootloader_config
        /\ HasLogin(b.auth_config) = HasLogin(a.auth_config)
        /\ a.disk_config # None =>
             /\ b.disk_config # None
             /\ b.disk_config.disks = a.disk_config.disks
             /\ b.disk_config.boot = a.disk_config.boot
    BY <2>1, AnswersComeBack
  <2>5. b.disk_config # None /\ b.kernels # {} /\ HasLogin(b.auth_config)
    BY <2>3, <2>4 DEF Complete
  <2>6. BootloaderValid(b)
    BY <2>3, <2>4, <2>5 DEF Complete, BootloaderValid, LayoutFailure
  <2> QED BY <2>2, <2>5, <2>6 DEF Complete
<1> QED BY <1>1, SpecInv, PTL
===============================================================================
