----------------------------- MODULE DiskMenuProofs -----------------------------
(***************************************************************************)
(* The disk menu, for any disks of any size, any tables of the editor and  *)
(* any number of layouts: what leaves it can be carried out.               *)
(*                                                                         *)
(* The invariant says of the items of the open menu what is wanted of the  *)
(* configuration, and of the items of the encryption menu what makes them  *)
(* fit when they are left.  Two facts carry it: a layout that is suggested *)
(* is never equal to an earlier one, since its identifiers are new, and a  *)
(* suggested layout always has a boot partition, so that two partitions    *)
(* leave one for the encryption.  The sizes have an invariant of their own:*)
(* a suggested group has one partition or two, whose sizes are summed.     *)
(***************************************************************************)
EXTENDS DiskMenu, FiniteSetTheorems, TLAPS

\* p has the fields of a partition and no others.
IsPart(p) ==
  p \in [id : {p.id}, obj : {p.obj}, at : {p.at}, boot : {p.boot}, swap : {p.swap},
         exists : {p.exists}, subvols : {p.subvols}, size : {p.size}]

\* What suggestions have in common, n layouts having been made.
IsSuggestion(parts, n) ==
  /\ IsFiniteSet(parts)
  /\ \A p \in parts : ~p.exists /\ p.id[1] \in Nat /\ p.id[1] < n
  /\ \E b \in parts : b.boot /\ b.at = "/boot"

LayoutFits(l, n) ==
  l # None =>
    /\ \A p \in l.parts : IsPart(p)
    /\ l.type = "default" => IsSuggestion(l.parts, n)

LvmFits(l, v) ==
  v # None => l.type = "default" /\ v.pvs = {p \in l.parts : ~p.boot}

\* Partitions that may be selected for encryption on layout l.
Selectable(l, parts) ==
  /\ \A p \in parts :
       /\ IsPart(p)
       /\ ~p.exists /\ ~p.swap /\ p.at # "/boot"
       /\ \E q \in l.parts : Bare(p) = Bare(q)
  /\ l.type = "default" => parts \subseteq l.parts

EncFits(l, v, e) ==
  e # None =>
    /\ e.type \in EncryptionTypes
    /\ (e.type # "LUKS") <=> (v # None)
    /\ e.type = "LUKS_ON_LVM" => e.parts = {} /\ e.volumes # {} /\ e.volumes \subseteq v.volumes
    /\ e.type # "LUKS_ON_LVM" => e.parts # {} /\ e.volumes = {}
    /\ Selectable(l, e.parts)
    /\ e.type = "LVM_ON_LUKS" => v.pvs \subseteq e.parts

Fits(l, v, e, n) ==
  /\ l = None => v = None /\ e = None
  /\ LayoutFits(l, n)
  /\ LvmFits(l, v)
  /\ EncFits(l, v, e)

ItemsFit ==
  pc = "encryption" =>
    /\ layout # None
    /\ ValidateEnc
    /\ items.type \in TypesOffered \cup {None, "NO_ENCRYPTION"}
    /\ Selectable(layout, items.parts)
    /\ items.volumes # {} => lvm # None /\ items.volumes \subseteq lvm.volumes

ConfigFits ==
  config # None =>
    /\ config.layout # None
    /\ Fits(config.layout, config.lvm, config.enc, made)

ItemsShape == items = [type |-> items.type, password |-> items.password, parts |-> items.parts, volumes |-> items.volumes]

IInv ==
  /\ made \in Nat
  /\ ItemsShape
  /\ Fits(layout, lvm, enc, made)
  /\ ItemsFit
  /\ ConfigFits
  /\ SuggestionsAreEncryptedAsSelected

-----------------------------------------------------------------------------
(* Partitions *)

\* Partitions that differ in nothing but their objects.
LEMMA BareFields ==
  ASSUME NEW p, NEW q, IsPart(p), IsPart(q), Bare(p) = Bare(q)
  PROVE  /\ p.id = q.id /\ p.at = q.at /\ p.boot = q.boot /\ p.swap = q.swap
         /\ p.exists = q.exists
         /\ p.obj = q.obj => p = q
<1>1. ASSUME NEW r, IsPart(r)
      PROVE  /\ Bare(r).id = r.id /\ Bare(r).at = r.at /\ Bare(r).boot = r.boot
             /\ Bare(r).swap = r.swap /\ Bare(r).exists = r.exists
             /\ Bare(r).subvols = r.subvols /\ Bare(r).size = r.size
  BY <1>1 DEF IsPart, Bare
<1>2. ASSUME NEW r, IsPart(r)
      PROVE  r = [id |-> r.id, obj |-> r.obj, at |-> r.at, boot |-> r.boot, swap |-> r.swap,
                  exists |-> r.exists, subvols |-> r.subvols, size |-> r.size]
  BY <1>2 DEF IsPart
<1>3. /\ p.id = q.id /\ p.at = q.at /\ p.boot = q.boot /\ p.swap = q.swap
      /\ p.exists = q.exists /\ p.subvols = q.subvols /\ p.size = q.size
  BY <1>1
<1>4. QED BY <1>2, <1>3

LEMMA NewPart ==
  ASSUME NEW name, NEW at, NEW size, made \in Nat
  PROVE  /\ IsPart(New(name, at, size))
         /\ New(name, at, size).id = <<made, name>>
         /\ ~New(name, at, size).exists
         /\ New(name, at, size).at = at
         /\ New(name, at, size).boot = (name = "boot")
BY DEF New, IsPart

\* The copies of the editor.
LEMMA ChangedPart ==
  ASSUME NEW p, IsPart(p), NEW v
  PROVE  /\ IsPart([p EXCEPT !.obj = v])
         /\ Bare([p EXCEPT !.obj = v]) = Bare(p)
         /\ IsPart([p EXCEPT !.at = v])
         /\ IsPart([p EXCEPT !.subvols = v])
         /\ \A r \in {[p EXCEPT !.obj = v], [p EXCEPT !.at = v], [p EXCEPT !.subvols = v]} :
              r.id = p.id /\ r.exists = p.exists
<1>1. IsPart([p EXCEPT !.obj = v])
  BY DEF IsPart
<1>2. IsPart([p EXCEPT !.at = v])
  BY DEF IsPart
<1>3. IsPart([p EXCEPT !.subvols = v])
  BY DEF IsPart
<1>4. Bare([p EXCEPT !.obj = v]) = Bare(p)
  BY DEF IsPart, Bare
<1>5. [p EXCEPT !.obj = v].id = p.id /\ [p EXCEPT !.obj = v].exists = p.exists
  BY DEF IsPart
<1>6. [p EXCEPT !.at = v].id = p.id /\ [p EXCEPT !.at = v].exists = p.exists
  BY DEF IsPart
<1>7. [p EXCEPT !.subvols = v].id = p.id /\ [p EXCEPT !.subvols = v].exists = p.exists
  BY DEF IsPart
<1>8. QED BY <1>1, <1>2, <1>3, <1>4, <1>5, <1>6, <1>7

\* Every suggestion has new identifiers and a boot partition.
LEMMA SuggestionFacts ==
  ASSUME made \in Nat, NEW parts,
         \/ \E d \in Disks : parts \in SingleLayouts(d)
         \/ \E ds \in SUBSET Disks : parts \in MultiLayouts(ds)
  PROVE  /\ IsFiniteSet(parts)
         /\ \A p \in parts : IsPart(p) /\ ~p.exists /\ p.id[1] = made
         /\ Boot \in parts /\ Boot.boot /\ Boot.at = "/boot"
<1> DEFINE Fine(p) == IsPart(p) /\ ~p.exists /\ p.id[1] = made
<1>1. \A name, at, size : Fine(New(name, at, size))
  BY NewPart
<1>2. Fine(Boot) /\ Boot.boot /\ Boot.at = "/boot"
  <2>1. Boot = New("boot", "/boot", 1)
    BY DEF Boot
  <2>2. New("boot", "/boot", 1).boot = TRUE /\ New("boot", "/boot", 1).at = "/boot"
    BY DEF New
  <2>3. Fine(New("boot", "/boot", 1))
    BY <1>1
  <2>4. QED
    <3> HIDE DEF Fine
    <3> QED BY <2>1, <2>2, <2>3
<1>3. \A size : Fine([New("root", "/", size) EXCEPT !.at = "none", !.subvols = TRUE])
  <2>1. ASSUME NEW size PROVE Fine([New("root", "/", size) EXCEPT !.at = "none", !.subvols = TRUE])
    <3> DEFINE w == New("root", "/", size)
               v == [w EXCEPT !.at = "none"]
    <3>1. [w EXCEPT !.at = "none", !.subvols = TRUE] = [v EXCEPT !.subvols = TRUE]
      OBVIOUS
    <3>2. IsPart(w) /\ ~w.exists /\ w.id[1] = made
      BY <1>1
    <3> HIDE DEF w
    <3>3. IsPart(v) /\ ~v.exists /\ v.id[1] = made
      BY <3>2, ChangedPart
    <3> HIDE DEF v
    <3>4. Fine([v EXCEPT !.subvols = TRUE])
      BY <3>3, ChangedPart
    <3>5. QED BY <3>1, <3>4 DEF w
  <2>2. QED BY <2>1
<1>4. \A x, y : IsFiniteSet({x, y})
  <2>1. ASSUME NEW x, NEW y PROVE IsFiniteSet({x, y})
    <3>1. {x, y} = {x} \cup {y}
      OBVIOUS
    <3>2. IsFiniteSet({x})
      BY FS_Singleton
    <3>3. IsFiniteSet({x} \cup {y})
      BY <3>2, FS_AddElement
    <3>4. QED BY <3>1, <3>3, Zenon
  <2>2. QED BY <2>1
<1>5. \A x, y, z : IsFiniteSet({x, y, z})
  <2>1. ASSUME NEW x, NEW y, NEW z PROVE IsFiniteSet({x, y, z})
    <3>1. {x, y, z} = {x, y} \cup {z}
      OBVIOUS
    <3>2. IsFiniteSet({x, y})
      BY <1>4
    <3>3. IsFiniteSet({x, y} \cup {z})
      BY <3>2, FS_AddElement
    <3>4. QED BY <3>1, <3>3, Zenon
  <2>2. QED BY <2>1
<1> DEFINE Two == \E y : parts = {Boot, y} /\ Fine(y)
           Three == \E y, z : parts = {Boot, y, z} /\ Fine(y) /\ Fine(z)
<1>6. Two \/ Three
  <2>1. ASSUME NEW d \in Disks, parts \in SingleLayouts(d)
        PROVE  Two \/ Three
    <3> HIDE DEF Fine
    <3> DEFINE total == SizeOf[d]
               whole == New("root", "/", Distance(total, 1))
               root  == New("root", "/", RootSize(total))
               home  == New("home", "/home", Distance(total - 1, RootSize(total)))
               bare  == [whole EXCEPT !.at = "none", !.subvols = TRUE]
    <3>1. Fine(whole) /\ Fine(root) /\ Fine(home) /\ Fine(bare)
      BY <1>1, <1>3
    <3>2. parts = {Boot, whole} \/ parts = {Boot, bare} \/ parts = {Boot, root, home}
      BY <2>1 DEF SingleLayouts
    <3>3. QED
      <4> HIDE DEF whole, root, home, bare
      <4> QED BY <3>1, <3>2
  <2>2. ASSUME NEW ds \in SUBSET Disks, parts \in MultiLayouts(ds)
        PROVE  Two \/ Three
    <3> HIDE DEF Fine
    <3>1. PICK h \in HomeDisks(ds) : \E r \in RootDisks(ds, h) :
            parts = {Boot, New("root", "/", Distance(SizeOf[r], 1)), New("home", "/home", SizeOf[h])}
      BY <2>2 DEF MultiLayouts
    <3>2. PICK r \in RootDisks(ds, h) :
            parts = {Boot, New("root", "/", Distance(SizeOf[r], 1)), New("home", "/home", SizeOf[h])}
      BY <3>1
    <3>3. QED BY <3>2, <1>1
  <2>3. QED BY <2>1, <2>2
<1>7. QED
  <2> HIDE DEF Fine
  <2>1. \A p \in parts : Fine(p)
    BY <1>2, <1>6
  <2>2. IsFiniteSet(parts)
    <3>1. CASE Two
      BY <1>4, <3>1, Zenon
    <3>2. CASE Three
      <4>1. PICK y, z : parts = {Boot, y, z}
        BY <3>2
      <4>2. IsFiniteSet({Boot, y, z})
        BY <1>5
      <4>3. QED BY <4>1, <4>2, Zenon
    <3>3. QED BY <1>6, <3>1, <3>2
  <2>3. Boot \in parts
    BY <1>6
  <2>4. QED BY <1>2, <2>1, <2>2, <2>3 DEF Fine

-----------------------------------------------------------------------------
(* Layouts *)

\* More layouts were made.
LEMMA FitsLater ==
  ASSUME NEW l, NEW v, NEW e, NEW n \in Nat, NEW m \in Nat, n <= m, Fits(l, v, e, n)
  PROVE  Fits(l, v, e, m)
<1>1. ASSUME NEW parts, IsSuggestion(parts, n) PROVE IsSuggestion(parts, m)
  BY <1>1 DEF IsSuggestion
<1>2. LayoutFits(l, m)
  BY <1>1 DEF Fits, LayoutFits
<1>3. QED BY <1>2 DEF Fits

\* A layout that is suggested is not the one that was suggested before.
LEMMA SuggestionsDiffer ==
  ASSUME made \in Nat, NEW parts, NEW old, IsSuggestion(old, made),
         \A p \in old : IsPart(p),
         \A p \in parts : IsPart(p) /\ p.id[1] = made,
         parts # {}
  PROVE  ~SameParts(parts, old)
<1> SUFFICES ASSUME SameParts(parts, old) PROVE FALSE
  OBVIOUS
<1>1. PICK p \in parts : TRUE
  OBVIOUS
<1>2. Bare(p) \in {Bare(q) : q \in old}
  BY DEF SameParts
<1>3. PICK q \in old : Bare(p) = Bare(q)
  BY <1>2
<1>4. p.id = q.id
  BY <1>3, BareFields
<1>5. p.id[1] = made /\ q.id[1] \in Nat /\ q.id[1] < made
  BY DEF IsSuggestion
<1>6. QED BY <1>4, <1>5

\* What may be selected on a layout may be selected on its copy.
LEMMA SelectableOnCopies ==
  ASSUME NEW l, NEW new, NEW parts, Selectable(l, parts), SameParts(new.parts, l.parts),
         new.type # "default"
  PROVE  Selectable(new, parts)
<1>1. ASSUME NEW p \in parts PROVE \E q \in new.parts : Bare(p) = Bare(q)
  <2>1. PICK q \in l.parts : Bare(p) = Bare(q)
    BY DEF Selectable
  <2>2. Bare(q) \in {Bare(r) : r \in new.parts}
    BY DEF SameParts
  <2>3. QED BY <2>1, <2>2
<1>2. QED BY <1>1 DEF Selectable

\* The layouts the menu makes: new suggestions, and tables without LVM.
NewLayout(new, n) ==
  new # None =>
    /\ \A p \in new.parts : IsPart(p)
    /\ new.type = "default" =>
         /\ IsSuggestion(new.parts, n)
         /\ new.parts # {}
         /\ \A p \in new.parts : p.id[1] = made

LEMMA ChooseFits ==
  ASSUME made \in Nat, made' \in Nat, made <= made', Fits(layout, lvm, enc, made),
         NEW new, NewLayout(new, made'), Choose(new)
  PROVE  Fits(layout, lvm, enc, made)'
<1>1. layout' = new
  BY DEF Choose
<1>2. LayoutFits(new, made')
  BY DEF NewLayout, LayoutFits
<1>3. CASE ~Equal(new)
  <2>1. lvm' = None /\ enc' = None
    BY <1>3 DEF Choose
  <2>2. QED BY <1>1, <1>2, <2>1 DEF Fits, LvmFits, EncFits
<1>4. CASE Equal(new) /\ layout = None
  <2>1. new = None /\ lvm' = lvm /\ enc' = enc
    BY <1>4 DEF Choose, Equal
  <2>2. lvm = None /\ enc = None
    BY <1>4 DEF Fits
  <2>3. QED BY <1>1, <1>2, <2>1, <2>2 DEF Fits, LvmFits, EncFits
<1>5. CASE Equal(new) /\ layout # None
  <2>1. new # None /\ new.type = layout.type /\ SameParts(new.parts, layout.parts)
    BY <1>5 DEF Equal
  <2>2. lvm' = lvm /\ enc' = enc
    BY <1>5 DEF Choose
  <2>3. new.type # "default"
    <3>1. SUFFICES ASSUME new.type = "default" PROVE FALSE
      OBVIOUS
    <3>2. /\ IsSuggestion(layout.parts, made)
          /\ \A p \in layout.parts : IsPart(p)
      BY <1>5, <2>1, <3>1 DEF Fits, LayoutFits
    <3>3. /\ \A p \in new.parts : IsPart(p) /\ p.id[1] = made
          /\ new.parts # {}
      BY <2>1, <3>1 DEF NewLayout
    <3>4. QED BY <2>1, <3>2, <3>3, SuggestionsDiffer
  <2>4. lvm = None
    BY <2>1, <2>3 DEF Fits, LvmFits
  <2>5. EncFits(new, lvm, enc)
    <3>1. SUFFICES ASSUME enc # None PROVE EncFits(new, lvm, enc)
      BY DEF EncFits
    <3>2. EncFits(layout, lvm, enc)
      BY DEF Fits
    <3>3. Selectable(new, enc.parts)
      BY <2>1, <2>3, <3>1, <3>2, SelectableOnCopies DEF EncFits
    <3>4. QED BY <3>1, <3>2, <3>3 DEF EncFits
  <2>6. QED BY <1>1, <1>2, <2>1, <2>2, <2>4, <2>5 DEF Fits, LvmFits
<1>6. QED BY <1>3, <1>4, <1>5

\* What every action but Choose and Apply leaves of the invariant.
LEMMA ConfigLater ==
  ASSUME made \in Nat, made' \in Nat, made <= made', ConfigFits, config' = config
  PROVE  ConfigFits'
BY FitsLater DEF ConfigFits

LEMMA NotApplied ==
  ASSUME pc' # "applied"
  PROVE  SuggestionsAreEncryptedAsSelected'
BY DEF SuggestionsAreEncryptedAsSelected

\* Each way to choose a layout.
LEMMA ChoiceKeepsInvariant ==
  ASSUME IInv, made' \in Nat, made <= made', NEW new, NewLayout(new, made'), Choose(new)
  PROVE  IInv'
<1>1. Fits(layout, lvm, enc, made)'
  BY ChooseFits DEF IInv
<1>2. pc = "disk" /\ pc' = "disk" /\ items' = items /\ config' = config
  BY DEF Choose, Untouched
<1>3. ConfigFits'
  BY <1>2, ConfigLater DEF IInv
<1>4. SuggestionsAreEncryptedAsSelected'
  BY <1>2, NotApplied
<1>5. ItemsFit'
  BY <1>2 DEF ItemsFit
<1>6. ItemsShape'
  BY <1>2 DEF IInv, ItemsShape
<1>7. QED BY <1>1, <1>3, <1>4, <1>5, <1>6 DEF IInv

LEMMA ChooseNoneKeeps == IInv /\ ChooseNone => IInv'
<1> SUFFICES ASSUME IInv, ChooseNone PROVE IInv'
  OBVIOUS
<1>1. Choose(None) /\ made' = made /\ made \in Nat
  BY DEF ChooseNone, IInv
<1>2. NewLayout(None, made')
  BY DEF NewLayout
<1>3. QED BY <1>1, <1>2, ChoiceKeepsInvariant

LEMMA ChooseDefaultKeeps == IInv /\ ChooseDefault => IInv'
<1> SUFFICES ASSUME IInv, ChooseDefault PROVE IInv'
  OBVIOUS
<1>1. made \in Nat /\ made' = made + 1
  BY DEF ChooseDefault, IInv
<1>2. PICK ds \in SUBSET Disks :
        \E parts \in IF Cardinality(ds) = 1 THEN UNION {SingleLayouts(d) : d \in ds} ELSE MultiLayouts(ds) :
          Choose([type |-> "default", parts |-> parts])
  BY DEF ChooseDefault
<1>3. PICK parts \in IF Cardinality(ds) = 1 THEN UNION {SingleLayouts(d) : d \in ds} ELSE MultiLayouts(ds) :
        Choose([type |-> "default", parts |-> parts])
  BY <1>2
<1>4. \/ \E d \in Disks : parts \in SingleLayouts(d)
      \/ \E es \in SUBSET Disks : parts \in MultiLayouts(es)
  <2>1. CASE Cardinality(ds) = 1
    BY <1>3, <2>1
  <2>2. CASE Cardinality(ds) # 1
    BY <1>3, <2>2
  <2>3. QED BY <2>1, <2>2
<1>5. /\ IsFiniteSet(parts)
      /\ \A p \in parts : IsPart(p) /\ ~p.exists /\ p.id[1] = made
      /\ Boot \in parts /\ Boot.boot /\ Boot.at = "/boot"
  BY <1>1, <1>4, SuggestionFacts
<1>6. IsSuggestion(parts, made')
  BY <1>1, <1>5 DEF IsSuggestion
<1> DEFINE new == [type |-> "default", parts |-> parts]
<1>7. new.parts = parts
  OBVIOUS
<1>8. NewLayout(new, made')
  <2> HIDE DEF new
  <2> QED BY <1>5, <1>6, <1>7 DEF NewLayout
<1>9. QED
  <2>1. Choose(new)
    BY <1>3
  <2> HIDE DEF new
  <2>2. QED BY <1>1, <1>8, <2>1, ChoiceKeepsInvariant

\* Tables of the editor and what is mounted.
LEMMA TablesAreLayouts ==
  ASSUME NEW table, NEW type, type # "default", NEW n
  PROVE  NewLayout([type |-> type, parts |-> WithIds(table)], n)
<1>1. \A p \in WithIds(table) : IsPart(p)
  BY DEF WithIds, IsPart
<1>2. QED BY <1>1 DEF NewLayout

LEMMA ChooseMountedKeeps == IInv /\ ChooseMounted => IInv'
<1> SUFFICES ASSUME IInv, ChooseMounted PROVE IInv'
  OBVIOUS
<1>1. made \in Nat /\ made' = made + 1 /\ Choose([type |-> "mounted", parts |-> WithIds(Mounted)])
  BY DEF ChooseMounted, IInv
<1>2. NewLayout([type |-> "mounted", parts |-> WithIds(Mounted)], made')
  BY TablesAreLayouts
<1>3. QED BY <1>1, <1>2, ChoiceKeepsInvariant

LEMMA ChooseManualKeeps == IInv /\ ChooseManual => IInv'
<1> SUFFICES ASSUME IInv, ChooseManual PROVE IInv'
  OBVIOUS
<1>1. made \in Nat /\ made' = made + 1
  BY DEF ChooseManual, IInv
<1>2. PICK table \in ManualTables : Choose([type |-> "manual", parts |-> WithIds(table)])
  BY DEF ChooseManual
<1>3. NewLayout([type |-> "manual", parts |-> WithIds(table)], made')
  BY TablesAreLayouts
<1>4. QED BY <1>1, <1>2, <1>3, ChoiceKeepsInvariant

LEMMA ChooseManualAgainKeeps == IInv /\ ChooseManualAgain => IInv'
<1> SUFFICES ASSUME IInv, ChooseManualAgain PROVE IInv'
  OBVIOUS
<1>1. made \in Nat /\ made' = made + 1 /\ layout # None
  BY DEF ChooseManualAgain, IInv
<1> DEFINE copies == {[p EXCEPT !.obj = made] : p \in layout.parts}
<1>2. \A p \in layout.parts : IsPart(p)
  BY <1>1 DEF IInv, Fits, LayoutFits
<1>3. \A p \in copies : IsPart(p)
  <2>1. ASSUME NEW p \in copies PROVE IsPart(p)
    <3>1. PICK q \in layout.parts : p = [q EXCEPT !.obj = made]
      OBVIOUS
    <3>2. IsPart(q)
      BY <1>2
    <3>3. IsPart([q EXCEPT !.obj = made])
      BY <3>2, ChangedPart
    <3>4. QED BY <3>1, <3>3, Zenon
  <2>2. QED BY <2>1
<1>4. ASSUME NEW parts, \A p \in parts : IsPart(p), Choose([type |-> "manual", parts |-> parts])
      PROVE  IInv'
  <2>1. NewLayout([type |-> "manual", parts |-> parts], made')
    BY <1>4 DEF NewLayout
  <2>2. QED BY <1>1, <1>4, <2>1, ChoiceKeepsInvariant
<1>5. \/ Choose([type |-> "manual", parts |-> copies])
      \/ \E p \in copies, at \in ManualMounts :
           Choose([type |-> "manual", parts |-> (copies \ {p}) \cup {[p EXCEPT !.at = at]}])
  BY Zenon DEF ChooseManualAgain
<1> HIDE DEF copies
<1>6. CASE Choose([type |-> "manual", parts |-> copies])
  BY <1>3, <1>4, <1>6
<1>7. CASE \E p \in copies, at \in ManualMounts :
             Choose([type |-> "manual", parts |-> (copies \ {p}) \cup {[p EXCEPT !.at = at]}])
  <2>1. PICK p \in copies : \E at \in ManualMounts :
               Choose([type |-> "manual", parts |-> (copies \ {p}) \cup {[p EXCEPT !.at = at]}])
    BY <1>7
  <2>2. PICK at \in ManualMounts :
               Choose([type |-> "manual", parts |-> (copies \ {p}) \cup {[p EXCEPT !.at = at]}])
    BY <2>1
  <2>3. IsPart([p EXCEPT !.at = at])
    BY <1>3, ChangedPart
  <2>4. \A q \in (copies \ {p}) \cup {[p EXCEPT !.at = at]} : IsPart(q)
    BY <1>3, <2>3, Zenon
  <2>5. QED BY <1>4, <2>2, <2>4
<1>8. QED BY <1>5, <1>6, <1>7

LEMMA ChooseLvmKeeps == IInv /\ ChooseLvm => IInv'
<1> SUFFICES ASSUME IInv, ChooseLvm PROVE IInv'
  OBVIOUS
<1>1. /\ pc = "disk" /\ pc' = "disk" /\ layout # None /\ layout.type = "default"
      /\ layout' = layout /\ items' = items /\ config' = config
      /\ made \in Nat /\ made' \in Nat /\ made <= made'
  BY DEF ChooseLvm, Untouched, IInv
<1>2. LayoutFits(layout, made')
  BY <1>1, FitsLater DEF IInv, Fits
<1>3. ASSUME lvm' \in LvmLayouts, enc' = None
      PROVE  Fits(layout, lvm, enc, made)'
  <2>1. PICK v : lvm' = [id |-> made, pvs |-> {p \in layout.parts : ~p.boot}, volumes |-> v]
    BY <1>3 DEF LvmLayouts
  <2>2. lvm'.pvs = {p \in layout.parts : ~p.boot}
    BY <2>1
  <2>3. LvmFits(layout, lvm')
    BY <1>1, <2>2 DEF LvmFits
  <2>4. EncFits(layout, lvm', enc')
    BY <1>3 DEF EncFits
  <2>5. QED BY <1>1, <1>2, <2>3, <2>4 DEF Fits
<1>4. ASSUME lvm' = None, enc' = IF lvm = None THEN enc ELSE None
      PROVE  Fits(layout, lvm, enc, made)'
  <2>1. EncFits(layout, lvm', enc')
    BY <1>4 DEF EncFits, IInv, Fits
  <2>2. LvmFits(layout, lvm')
    BY <1>4 DEF LvmFits
  <2>3. QED BY <1>1, <1>2, <2>1, <2>2 DEF Fits
<1>5. Fits(layout, lvm, enc, made)'
  BY <1>3, <1>4, <1>1 DEF ChooseLvm
<1>6. QED BY <1>1, <1>5, ConfigLater, NotApplied DEF IInv, ItemsFit, ItemsShape

LEMMA ChooseSnapshotsKeeps == IInv /\ ChooseSnapshots => IInv'
<1> SUFFICES ASSUME IInv, ChooseSnapshots PROVE IInv'
  OBVIOUS
<1>1. /\ pc = "disk" /\ pc' = "disk" /\ made \in Nat
      /\ layout' = layout /\ lvm' = lvm /\ enc' = enc /\ items' = items /\ config' = config /\ made' = made
  BY DEF ChooseSnapshots, Untouched, IInv
<1>2. QED BY <1>1, ConfigLater, NotApplied DEF IInv, ItemsFit, ItemsShape

-----------------------------------------------------------------------------
(* The encryption menu *)

LEMMA NothingSelectable == \A l : Selectable(l, {})
BY DEF Selectable

LEMMA OpenEncryptionKeeps == IInv /\ OpenEncryption => IInv'
<1> SUFFICES ASSUME IInv, OpenEncryption PROVE IInv'
  OBVIOUS
<1>1. /\ pc = "disk" /\ layout # None /\ made \in Nat
      /\ layout' = layout /\ lvm' = lvm /\ config' = config /\ made' = made
  BY DEF OpenEncryption, IInv
<1>2. CASE ~ValidateEnc
  <2>1. enc' = None /\ pc' = pc /\ items' = items
    BY <1>2 DEF OpenEncryption
  <2>2. Fits(layout, lvm, enc, made)'
    BY <1>1, <2>1 DEF IInv, Fits, EncFits
  <2>3. QED BY <1>1, <2>1, <2>2, ConfigLater, NotApplied DEF IInv, ItemsFit, ItemsShape
<1>3. CASE ValidateEnc
  <2>1. /\ pc' = "encryption" /\ enc' = enc
        /\ items' = IF enc = None THEN NoItems
                    ELSE [type |-> enc.type, password |-> TRUE, parts |-> enc.parts, volumes |-> enc.volumes]
    BY <1>3 DEF OpenEncryption
  <2>2. EncFits(layout, lvm, enc)
    BY DEF IInv, Fits
  <2>3. ValidateEnc' /\ TypesOffered' = TypesOffered
    BY <1>1, <1>3 DEF ValidateEnc, TypesOffered
  <2>4. CASE enc = None
    <3>1. items' = NoItems
      BY <2>1, <2>4
    <3>2. items'.type = "NO_ENCRYPTION" /\ items'.parts = {} /\ items'.volumes = {}
      BY <3>1 DEF NoItems
    <3>3. ItemsFit'
      BY <1>1, <2>3, <3>2, NothingSelectable DEF ItemsFit
    <3>4. ItemsShape'
      BY <3>1 DEF ItemsShape, NoItems
    <3>5. QED BY <1>1, <2>1, <3>3, <3>4, ConfigLater, NotApplied DEF IInv
  <2>5. CASE enc # None
    <3>1. items' = [type |-> enc.type, password |-> TRUE, parts |-> enc.parts, volumes |-> enc.volumes]
      BY <2>1, <2>5
    <3>2. items'.type = enc.type /\ items'.parts = enc.parts /\ items'.volumes = enc.volumes
      BY <3>1
    <3>3. enc.type \in TypesOffered
      BY <2>2, <2>5 DEF EncFits, TypesOffered, EncryptionTypes
    <3>4. Selectable(layout, enc.parts)
      BY <2>2, <2>5 DEF EncFits
    <3>5. enc.volumes # {} => lvm # None /\ enc.volumes \subseteq lvm.volumes
      BY <2>2, <2>5 DEF EncFits
    <3>6. ItemsFit'
      BY <1>1, <2>3, <3>2, <3>3, <3>4, <3>5 DEF ItemsFit
    <3>7. ItemsShape'
      BY <3>1 DEF ItemsShape
    <3>8. QED BY <1>1, <2>1, <3>6, <3>7, ConfigLater, NotApplied DEF IInv
  <2>6. QED BY <2>4, <2>5
<1>4. QED BY <1>2, <1>3

\* An answer in the encryption menu.
LEMMA ItemKeeps ==
  ASSUME IInv, NEW new, Item(new),
         new = [type |-> new.type, password |-> new.password, parts |-> new.parts, volumes |-> new.volumes],
         new.type \in TypesOffered \cup {None, "NO_ENCRYPTION"},
         Selectable(layout, new.parts),
         new.volumes # {} => lvm # None /\ new.volumes \subseteq lvm.volumes
  PROVE  IInv'
<1>1. /\ pc = "encryption" /\ pc' = "encryption" /\ items' = new /\ made \in Nat
      /\ layout' = layout /\ lvm' = lvm /\ enc' = enc /\ config' = config /\ made' = made
  BY DEF Item, IInv
<1>2. ItemsFit
  BY DEF IInv
<1>3. ItemsFit'
  BY <1>1, <1>2 DEF ItemsFit, ValidateEnc, TypesOffered
<1>4. ItemsShape'
  BY <1>1 DEF ItemsShape
<1>5. QED BY <1>1, <1>3, <1>4, ConfigLater, NotApplied DEF IInv

\* What is there in the menu while it is open.
LEMMA ItemsFacts ==
  ASSUME IInv, pc = "encryption"
  PROVE  /\ layout # None /\ ValidateEnc
         /\ items.type \in TypesOffered \cup {None, "NO_ENCRYPTION"}
         /\ Selectable(layout, items.parts)
         /\ items.volumes # {} => lvm # None /\ items.volumes \subseteq lvm.volumes
BY DEF IInv, ItemsFit

\* The answers change one item each.
LEMMA ItemFields ==
  ASSUME IInv, NEW x
  PROVE  /\ [items EXCEPT !.type = x] = [type |-> x, password |-> items.password, parts |-> items.parts, volumes |-> items.volumes]
         /\ [items EXCEPT !.password = x] = [type |-> items.type, password |-> x, parts |-> items.parts, volumes |-> items.volumes]
         /\ [items EXCEPT !.parts = x] = [type |-> items.type, password |-> items.password, parts |-> x, volumes |-> items.volumes]
         /\ [items EXCEPT !.volumes = x] = [type |-> items.type, password |-> items.password, parts |-> items.parts, volumes |-> x]
<1>1. items \in [type : {items.type}, password : {items.password}, parts : {items.parts}, volumes : {items.volumes}]
  BY DEF IInv, ItemsShape
<1>2. QED BY <1>1

LEMMA SelectTypeKeeps == IInv /\ SelectType => IInv'
<1> SUFFICES ASSUME IInv, SelectType PROVE IInv'
  OBVIOUS
<1>1. PICK t \in TypesOffered \cup {None} : Item([items EXCEPT !.type = t])
  BY DEF SelectType, TypesOffered
<1>2. pc = "encryption"
  BY <1>1 DEF Item
<1> DEFINE new == [type |-> t, password |-> items.password, parts |-> items.parts, volumes |-> items.volumes]
<1>3. Item(new)
  BY <1>1, ItemFields, Zenon
<1>4. new.type = t /\ new.password = items.password /\ new.parts = items.parts /\ new.volumes = items.volumes
  OBVIOUS
<1>5. new = [type |-> new.type, password |-> new.password, parts |-> new.parts, volumes |-> new.volumes]
  OBVIOUS
<1> HIDE DEF new
<1>6. QED BY <1>2, <1>3, <1>4, <1>5, ItemsFacts, ItemKeeps

LEMMA SelectPasswordKeeps == IInv /\ SelectPassword => IInv'
<1> SUFFICES ASSUME IInv, SelectPassword PROVE IInv'
  OBVIOUS
<1>1. PICK b \in BOOLEAN : Item([items EXCEPT !.password = b])
  BY DEF SelectPassword
<1>2. pc = "encryption"
  BY <1>1 DEF Item
<1> DEFINE new == [type |-> items.type, password |-> b, parts |-> items.parts, volumes |-> items.volumes]
<1>3. Item(new)
  BY <1>1, ItemFields, Zenon
<1>4. new.type = items.type /\ new.parts = items.parts /\ new.volumes = items.volumes
  OBVIOUS
<1>5. new = [type |-> new.type, password |-> new.password, parts |-> new.parts, volumes |-> new.volumes]
  OBVIOUS
<1> HIDE DEF new
<1>6. QED BY <1>2, <1>3, <1>4, <1>5, ItemsFacts, ItemKeeps

LEMMA AvailableSelectable ==
  ASSUME IInv, layout # None, NEW ps \in SUBSET Available
  PROVE  Selectable(layout, ps)
<1>1. \A p \in layout.parts : IsPart(p)
  BY DEF IInv, Fits, LayoutFits
<1>2. ps \subseteq layout.parts
  BY DEF Available
<1>3. \A p \in ps : ~p.exists /\ ~p.swap /\ p.at # "/boot"
  BY DEF Available
<1>4. QED BY <1>1, <1>2, <1>3 DEF Selectable

LEMMA SelectPartitionsKeeps == IInv /\ SelectPartitions => IInv'
<1> SUFFICES ASSUME IInv, SelectPartitions PROVE IInv'
  OBVIOUS
<1>1. PICK ps \in SUBSET Available : Item([items EXCEPT !.parts = ps])
  BY DEF SelectPartitions
<1>2. pc = "encryption"
  BY <1>1 DEF Item
<1>3. Selectable(layout, ps)
  BY <1>2, ItemsFacts, AvailableSelectable
<1> DEFINE new == [type |-> items.type, password |-> items.password, parts |-> ps, volumes |-> items.volumes]
<1>4. Item(new)
  BY <1>1, ItemFields, Zenon
<1>5. new.type = items.type /\ new.parts = ps /\ new.volumes = items.volumes
  OBVIOUS
<1>6. new = [type |-> new.type, password |-> new.password, parts |-> new.parts, volumes |-> new.volumes]
  OBVIOUS
<1> HIDE DEF new
<1>7. QED BY <1>2, <1>3, <1>4, <1>5, <1>6, ItemsFacts, ItemKeeps

LEMMA SelectVolumesKeeps == IInv /\ SelectVolumes => IInv'
<1> SUFFICES ASSUME IInv, SelectVolumes PROVE IInv'
  OBVIOUS
<1>1. items.type = "LUKS_ON_LVM"
  BY DEF SelectVolumes
<1>2. PICK vs \in SUBSET lvm.volumes : Item([items EXCEPT !.volumes = vs])
  BY DEF SelectVolumes
<1>3. pc = "encryption"
  BY <1>2 DEF Item
<1>4. lvm # None
  BY <1>1, <1>3, ItemsFacts, DiskMenuAssumption DEF TypesOffered
<1> DEFINE new == [type |-> items.type, password |-> items.password, parts |-> items.parts, volumes |-> vs]
<1>5. Item(new)
  BY <1>2, ItemFields, Zenon
<1>6. new.type = items.type /\ new.parts = items.parts /\ new.volumes = vs
  OBVIOUS
<1>7. new = [type |-> new.type, password |-> new.password, parts |-> new.parts, volumes |-> new.volumes]
  OBVIOUS
<1> HIDE DEF new
<1>8. QED BY <1>3, <1>4, <1>5, <1>6, <1>7, ItemsFacts, ItemKeeps

\* Two partitions of which one is for booting leave one: it is the group and
\* it is what is encrypted.
LEMMA WholeGroup ==
  ASSUME IInv, layout # None, lvm # None, ValidateEnc,
         NEW parts, Selectable(layout, parts), parts # {}
  PROVE  lvm.pvs \subseteq parts
<1>1. /\ layout.type = "default" /\ lvm.pvs = {p \in layout.parts : ~p.boot}
      /\ IsSuggestion(layout.parts, made) /\ Cardinality(layout.parts) <= 2
  BY DEF IInv, Fits, LvmFits, LayoutFits, ValidateEnc
<1>2. PICK b \in layout.parts : b.boot /\ b.at = "/boot"
  BY <1>1 DEF IsSuggestion
<1>3. PICK y \in parts : y \in layout.parts /\ y.at # "/boot"
  BY <1>1 DEF Selectable
<1>4. SUFFICES ASSUME NEW x \in lvm.pvs, x \notin parts PROVE FALSE
  OBVIOUS
<1>5. x \in layout.parts /\ ~x.boot
  BY <1>1
<1>6. x # y /\ x # b /\ y # b
  BY <1>2, <1>3, <1>4, <1>5
<1> DEFINE one == {b}
           two == one \cup {x}
           three == two \cup {y}
<1>7. IsFiniteSet(one) /\ Cardinality(one) = 1
  BY FS_Singleton
<1>8. IsFiniteSet(two) /\ Cardinality(two) = 2
  <2>1. x \notin one
    BY <1>6
  <2> HIDE DEF one
  <2>2. QED BY <1>7, <2>1, FS_AddElement
<1>9. Cardinality(three) = 3
  <2>1. y \notin two
    BY <1>6
  <2> HIDE DEF two
  <2>2. Cardinality(two \cup {y}) = IF y \in two THEN Cardinality(two) ELSE Cardinality(two) + 1
    BY <1>8, FS_AddElement
  <2>3. Cardinality(two \cup {y}) = 3
    BY <1>8, <2>1, <2>2
  <2>4. QED BY <2>3
<1>10. three \in SUBSET layout.parts
  BY <1>2, <1>3, <1>5
<1>11. IsFiniteSet(layout.parts)
  BY <1>1 DEF IsSuggestion
<1>12. Cardinality(three) <= Cardinality(layout.parts) /\ Cardinality(layout.parts) \in Nat
  <2> HIDE DEF three
  <2> QED BY <1>10, <1>11, FS_Subset, FS_CardinalityType
<1>13. QED
  <2> HIDE DEF three
  <2> QED BY <1>1, <1>9, <1>12

LEMMA LeaveEncryptionKeeps == IInv /\ LeaveEncryption => IInv'
<1> SUFFICES ASSUME IInv, LeaveEncryption PROVE IInv'
  OBVIOUS
<1>1. /\ pc = "encryption" /\ pc' \in {"crashed", "disk"} /\ made \in Nat /\ items' = NoItems
      /\ layout' = layout /\ lvm' = lvm /\ config' = config /\ made' = made
  BY DEF LeaveEncryption, IInv
<1> DEFINE luks    == items.type \in {"LUKS", "LVM_ON_LUKS"}
           parts   == IF items.type = "LUKS_ON_LVM" THEN {} ELSE items.parts
           volumes == IF luks /\ parts # {} THEN {} ELSE items.volumes
           given   == Chosen /\ items.password /\ (parts # {} \/ volumes # {})
           raises  == items.type = None \/ (given /\ luks /\ parts = {})
<1>2. \/ enc' = enc
      \/ enc' = None
      \/ ~raises /\ given /\ enc' = Encryption(items.type, parts, volumes)
  BY DEF LeaveEncryption
<1>3. ASSUME ~raises, given, enc' = Encryption(items.type, parts, volumes)
      PROVE  EncFits(layout, lvm, enc')
  <2>1. /\ layout # None /\ ValidateEnc
        /\ Selectable(layout, items.parts)
        /\ items.volumes # {} => lvm # None /\ items.volumes \subseteq lvm.volumes
    BY <1>1, ItemsFacts
  <2>2. items.type \in TypesOffered
    BY <1>1, <1>3, ItemsFacts DEF Chosen
  <2>3. enc'.type = items.type /\ enc'.parts = parts /\ enc'.volumes = volumes
    BY <1>3 DEF Encryption
  <2>4. items.type \in EncryptionTypes /\ ((items.type # "LUKS") <=> (lvm # None))
    BY <2>2 DEF TypesOffered, EncryptionTypes
  <2>5. Selectable(layout, parts)
    BY <2>1, NothingSelectable
  <2>6. CASE items.type = "LUKS_ON_LVM"
    <3>1. parts = {} /\ volumes = items.volumes /\ volumes # {}
      BY <1>3, <2>6
    <3>2. QED
      <4> HIDE DEF parts, volumes
      <4> QED BY <2>1, <2>3, <2>4, <2>5, <2>6, <3>1 DEF EncFits
  <2>7. CASE items.type # "LUKS_ON_LVM"
    <3>1. luks
      BY <2>4, <2>7 DEF EncryptionTypes
    <3>2. parts # {} /\ volumes = {}
      BY <1>3, <3>1
    <3>3. items.type = "LVM_ON_LUKS" => lvm.pvs \subseteq parts
      <4>1. CASE items.type = "LVM_ON_LUKS"
        <5>1. lvm # None
          BY <2>4, <4>1
        <5> HIDE DEF parts
        <5>2. QED BY <2>1, <2>5, <3>2, <5>1, WholeGroup
      <4>2. QED BY <4>1
    <3>4. QED
      <4> HIDE DEF parts, volumes
      <4> QED BY <2>3, <2>4, <2>5, <2>7, <3>2, <3>3 DEF EncFits
  <2>8. QED BY <2>6, <2>7
<1>4. EncFits(layout, lvm, enc')
  <2>1. CASE enc' = enc
    BY <2>1 DEF IInv, Fits
  <2>2. CASE enc' = None
    BY <2>2 DEF EncFits
  <2>3. QED BY <1>2, <1>3, <2>1, <2>2
<1>5. layout # None
  BY <1>1, ItemsFacts
<1>6. Fits(layout, lvm, enc, made)'
  BY <1>1, <1>4, <1>5 DEF IInv, Fits
<1>7. ItemsShape'
  BY <1>1 DEF ItemsShape, NoItems
<1>8. QED BY <1>1, <1>6, <1>7, ConfigLater, NotApplied DEF IInv, ItemsFit

LEMMA ResetEncryptionKeeps == IInv /\ ResetEncryption => IInv'
<1> SUFFICES ASSUME IInv, ResetEncryption PROVE IInv'
  OBVIOUS
<1>1. /\ pc' = "disk" /\ made \in Nat /\ items' = NoItems /\ enc' = None
      /\ layout' = layout /\ lvm' = lvm /\ config' = config /\ made' = made
  BY DEF ResetEncryption, IInv
<1>2. Fits(layout, lvm, enc, made)'
  BY <1>1 DEF IInv, Fits, EncFits
<1>3. ItemsShape'
  BY <1>1 DEF ItemsShape, NoItems
<1>4. QED BY <1>1, <1>2, <1>3, ConfigLater, NotApplied DEF IInv, ItemsFit

-----------------------------------------------------------------------------
(* The menu as a whole *)

LEMMA NothingFits == \A n : Fits(None, None, None, n)
BY DEF Fits, LayoutFits, LvmFits, EncFits

LEMMA OpenKeeps == IInv /\ Open => IInv'
<1> SUFFICES ASSUME IInv, Open PROVE IInv'
  OBVIOUS
<1>1. pc' = "disk" /\ made \in Nat /\ items' = items /\ config' = config /\ made' = made
  BY DEF Open, IInv
<1>2. Fits(layout, lvm, enc, made)'
  <2>1. CASE config = None
    BY <1>1, <2>1, NothingFits DEF Open, Closed
  <2>2. CASE config # None
    <3>1. layout' = config.layout /\ lvm' = config.lvm /\ enc' = config.enc
      BY <2>2 DEF Open
    <3>2. QED BY <1>1, <2>2, <3>1 DEF IInv, ConfigFits
  <2>3. QED BY <2>1, <2>2
<1>3. QED BY <1>1, <1>2, ConfigLater, NotApplied DEF IInv, ItemsFit, ItemsShape

LEMMA LeaveKeeps == IInv /\ Leave => IInv'
<1> SUFFICES ASSUME IInv, Leave PROVE IInv'
  OBVIOUS
<1>1. /\ pc' = "closed" /\ made \in Nat /\ items' = items /\ made' = made
      /\ layout' = None /\ lvm' = None /\ enc' = None
  BY DEF Leave, Closed, IInv
<1>2. Fits(layout, lvm, enc, made)'
  BY <1>1, NothingFits
<1>3. ConfigFits'
  <2>1. CASE layout = None
    BY <2>1 DEF Leave, ConfigFits
  <2>2. CASE layout # None
    <3>1. config' = [layout |-> layout, lvm |-> lvm, enc |-> enc, snapshots |-> snapshots]
      BY <2>2 DEF Leave
    <3>2. config'.layout = layout /\ config'.lvm = lvm /\ config'.enc = enc
      BY <3>1
    <3>3. QED BY <1>1, <2>2, <3>2 DEF IInv, ConfigFits
  <2>3. QED BY <2>1, <2>2
<1>4. QED BY <1>1, <1>2, <1>3, NotApplied DEF IInv, ItemsFit, ItemsShape

LEMMA ResetMenuKeeps == IInv /\ ResetMenu => IInv'
<1> SUFFICES ASSUME IInv, ResetMenu PROVE IInv'
  OBVIOUS
<1>1. /\ pc' = "closed" /\ made \in Nat /\ items' = items /\ made' = made /\ config' = None
      /\ layout' = None /\ lvm' = None /\ enc' = None
  BY DEF ResetMenu, Closed, IInv
<1>2. QED BY <1>1, NothingFits, NotApplied DEF IInv, ItemsFit, ItemsShape, ConfigFits

\* The formatting finds each selected partition of a suggestion, and no other.
LEMMA ApplyKeeps == IInv /\ Apply => IInv'
<1> SUFFICES ASSUME IInv, Apply PROVE IInv'
  OBVIOUS
<1>1. /\ pc' = "applied" /\ config # None /\ made \in Nat /\ items' = items
      /\ layout' = layout /\ lvm' = lvm /\ enc' = enc /\ config' = config /\ made' = made
  BY DEF Apply, IInv
<1>2. ASSUME config.layout.type = "default", config.enc # None
      PROVE  encrypted' = IF config.enc.type = "LUKS_ON_LVM" THEN config.enc.volumes ELSE config.enc.parts
  <2> DEFINE found == {p \in config.layout.parts : ~p.exists /\ \E q \in config.enc.parts : Applied(p, q)}
  <2>1. encrypted' = found \cup (IF config.enc.type = "LUKS_ON_LVM" THEN config.enc.volumes ELSE {})
    BY <1>2 DEF Apply
  <2>2. EncFits(config.layout, config.lvm, config.enc) /\ LayoutFits(config.layout, made) /\ config.layout # None
    BY <1>1 DEF IInv, ConfigFits, Fits
  <2>3. /\ \A p \in config.layout.parts : IsPart(p) /\ ~p.exists
        /\ config.enc.parts \subseteq config.layout.parts
    BY <1>2, <2>2 DEF EncFits, LayoutFits, Selectable, IsSuggestion
  <2>4. found = config.enc.parts
    <3>1. ASSUME NEW p \in found PROVE p \in config.enc.parts
      <4>1. PICK q \in config.enc.parts : Applied(p, q)
        OBVIOUS
      <4>2. IsPart(p) /\ IsPart(q) /\ ~p.exists
        BY <2>3
      <4>3. Bare(p) = Bare(q) /\ p.obj = q.obj
        BY <4>1, <4>2 DEF Applied
      <4>4. p = q
        BY <4>2, <4>3, BareFields
      <4>5. QED BY <4>4
    <3>2. ASSUME NEW p \in config.enc.parts PROVE p \in found
      <4>1. Applied(p, p)
        BY DEF Applied
      <4>2. QED BY <2>3, <4>1
    <3>3. QED BY <3>1, <3>2
  <2>5. config.enc.type = "LUKS_ON_LVM" => config.enc.parts = {}
    BY <1>2, <2>2 DEF EncFits
  <2>6. QED
    <3> HIDE DEF found
    <3> QED BY <2>1, <2>4, <2>5
<1>3. SuggestionsAreEncryptedAsSelected'
  BY <1>1, <1>2 DEF SuggestionsAreEncryptedAsSelected
<1>4. QED BY <1>1, <1>3, ConfigLater DEF IInv, ItemsFit, ItemsShape

-----------------------------------------------------------------------------
(* The invariant *)

LEMMA InitEstablishes == Init => IInv
BY NothingFits DEF Init, IInv, ItemsShape, NoItems, ItemsFit, ConfigFits, SuggestionsAreEncryptedAsSelected

LEMMA NextKeeps == IInv /\ [Next]_vars => IInv'
<1> SUFFICES ASSUME IInv, [Next]_vars PROVE IInv'
  OBVIOUS
<1>1. CASE Open BY <1>1, OpenKeeps
<1>2. CASE Leave BY <1>2, LeaveKeeps
<1>3. CASE ResetMenu BY <1>3, ResetMenuKeeps
<1>4. CASE Apply BY <1>4, ApplyKeeps
<1>5. CASE ChooseNone BY <1>5, ChooseNoneKeeps
<1>6. CASE ChooseDefault BY <1>6, ChooseDefaultKeeps
<1>7. CASE ChooseMounted BY <1>7, ChooseMountedKeeps
<1>8. CASE ChooseManual BY <1>8, ChooseManualKeeps
<1>9. CASE ChooseManualAgain BY <1>9, ChooseManualAgainKeeps
<1>10. CASE ChooseLvm BY <1>10, ChooseLvmKeeps
<1>11. CASE ChooseSnapshots BY <1>11, ChooseSnapshotsKeeps
<1>12. CASE OpenEncryption BY <1>12, OpenEncryptionKeeps
<1>13. CASE LeaveEncryption BY <1>13, LeaveEncryptionKeeps
<1>14. CASE ResetEncryption BY <1>14, ResetEncryptionKeeps
<1>15. CASE SelectType BY <1>15, SelectTypeKeeps
<1>16. CASE SelectPassword BY <1>16, SelectPasswordKeeps
<1>17. CASE SelectPartitions BY <1>17, SelectPartitionsKeeps
<1>18. CASE SelectVolumes BY <1>18, SelectVolumesKeeps
<1>19. CASE UNCHANGED vars
  BY <1>19 DEF vars, IInv, ItemsShape, ItemsFit, ValidateEnc, TypesOffered, ConfigFits, SuggestionsAreEncryptedAsSelected
<1>20. QED
  BY <1>1, <1>2, <1>3, <1>4, <1>5, <1>6, <1>7, <1>8, <1>9, <1>10, <1>11, <1>12, <1>13, <1>14, <1>15,
     <1>16, <1>17, <1>18, <1>19 DEF Next

LEMMA Invariance == Spec => []IInv
BY InitEstablishes, NextKeeps, PTL DEF Spec

\* What leaves the disk menu fits together, whatever was chosen, changed and
\* reset: LVM and encryption belong to the layout they are stored with, and
\* their kinds to each other.
THEOREM MenuLeavesWhatFits == Spec => []EncryptionFits
<1>1. IInv => EncryptionFits
  <2> SUFFICES ASSUME IInv, config # None PROVE EncryptionFits
    BY DEF EncryptionFits
  <2>1. config.layout # None /\ LvmFits(config.layout, config.lvm) /\ EncFits(config.layout, config.lvm, config.enc)
    BY DEF IInv, ConfigFits, Fits
  <2>2. config.lvm # None => config.layout.type = "default" /\ config.lvm.pvs \subseteq config.layout.parts
    BY <2>1 DEF LvmFits
  <2>3. config.enc # None => /\ config.enc.type \in EncryptionTypes
                             /\ (config.enc.type # "LUKS") <=> (config.lvm # None)
                             /\ config.enc.type = "LUKS_ON_LVM" =>
                                  config.enc.parts = {} /\ config.enc.volumes # {} /\ config.enc.volumes \subseteq config.lvm.volumes
                             /\ config.enc.type # "LUKS_ON_LVM" => config.enc.parts # {}
    BY <2>1 DEF EncFits
  <2>4. config.enc # None => \A p \in config.enc.parts :
                               /\ \E q \in config.layout.parts : Bare(p) = Bare(q)
                               /\ ~p.exists /\ ~p.swap /\ p.at # "/boot"
    BY <2>1 DEF EncFits, Selectable
  <2>5. QED BY <2>2, <2>3, <2>4 DEF EncryptionFits
<1>2. QED BY <1>1, Invariance, PTL

\* LVM on LUKS never leaves a physical volume in the clear: where the menu
\* allows it, the group has one, and something was selected.
THEOREM GroupsAreEncryptedWhole == Spec => []WholeGroupEncrypted
<1>1. IInv => WholeGroupEncrypted
  BY DEF IInv, ConfigFits, Fits, EncFits, WholeGroupEncrypted
<1>2. QED BY <1>1, Invariance, PTL

\* On a suggested layout the formatting encrypts what the menu showed as
\* selected, all of it and nothing else.
THEOREM SelectionIsEncrypted == Spec => []SuggestionsAreEncryptedAsSelected
<1>1. IInv => SuggestionsAreEncryptedAsSelected
  BY DEF IInv
<1>2. QED BY <1>1, Invariance, PTL

-----------------------------------------------------------------------------
(* The sizes of a group *)

\* The sum over a set, element by element.
IsSummation(sum, S) ==
  sum = [s \in SUBSET S |-> IF s = {} THEN 0 ELSE (CHOOSE x \in s : TRUE).size + sum[s \ {CHOOSE x \in s : TRUE}]]

LEMMA TotalSizeSums ==
  ASSUME NEW S
  PROVE  TotalSize(S) = (CHOOSE sum : IsSummation(sum, S))[S]
BY DEF TotalSize, MapThenSumSet, MapThenFoldSet, IsSummation

LEMMA OneSize ==
  ASSUME NEW a, a.size \in Nat
  PROVE  TotalSize({a}) = a.size
<1>1. (CHOOSE x \in {a} : TRUE) = a
  OBVIOUS
<1>2. SUBSET {a} = {{}, {a}} /\ {a} # {}
  OBVIOUS
<1> DEFINE f == [s \in SUBSET {a} |-> IF s = {} THEN 0 ELSE a.size]
<1>3. f[{}] = 0 /\ f[{a}] = a.size
  OBVIOUS
<1>4. IsSummation(f, {a})
  <2>1. ASSUME NEW s \in SUBSET {a}
        PROVE  f[s] = IF s = {} THEN 0 ELSE (CHOOSE x \in s : TRUE).size + f[s \ {CHOOSE x \in s : TRUE}]
    <3>1. CASE s = {}
      BY <1>3, <3>1
    <3>2. CASE s = {a}
      <4>1. s \ {CHOOSE x \in s : TRUE} = {}
        BY <1>1, <3>2
      <4>2. QED BY <1>1, <1>3, <3>2, <4>1
    <3>3. QED BY <1>2, <3>1, <3>2
  <2> HIDE DEF f
  <2>2. f = [s \in SUBSET {a} |-> f[s]]
    BY DEF f
  <2>3. QED BY <2>1, <2>2 DEF IsSummation
<1>5. \A g : IsSummation(g, {a}) => g[{a}] = a.size
  <2>1. SUFFICES ASSUME NEW g, IsSummation(g, {a}) PROVE g[{a}] = a.size
    OBVIOUS
  <2>2. g[{}] = 0
    BY <1>2, <2>1 DEF IsSummation
  <2>3. g[{a}] = a.size + g[{a} \ {a}]
    BY <1>1, <1>2, <2>1 DEF IsSummation
  <2>4. {a} \ {a} = {}
    OBVIOUS
  <2>5. QED BY <2>2, <2>3, <2>4
<1> HIDE DEF f
<1>6. IsSummation(CHOOSE sum : IsSummation(sum, {a}), {a})
  BY <1>4
<1>7. QED BY <1>5, <1>6, TotalSizeSums

LEMMA TwoSizes ==
  ASSUME NEW a, NEW b, a # b, a.size \in Nat, b.size \in Nat
  PROVE  TotalSize({a, b}) = a.size + b.size
<1> DEFINE first(s) == CHOOSE x \in s : TRUE
<1>1. first({a}) = a /\ first({b}) = b
  OBVIOUS
<1>2. \/ first({a, b}) = a /\ {a, b} \ {first({a, b})} = {b}
      \/ first({a, b}) = b /\ {a, b} \ {first({a, b})} = {a}
  <2>1. first({a, b}) \in {a, b}
    OBVIOUS
  <2> HIDE DEF first
  <2>2. QED BY <2>1
<1>3. /\ {a} \ {a} = {} /\ {b} \ {b} = {}
      /\ {a} # {} /\ {b} # {} /\ {a, b} # {} /\ {a} # {b} /\ {a} # {a, b} /\ {b} # {a, b}
      /\ {} \in SUBSET {a, b} /\ {a} \in SUBSET {a, b} /\ {b} \in SUBSET {a, b} /\ {a, b} \in SUBSET {a, b}
  OBVIOUS
<1>4. \A s \in SUBSET {a, b} : s = {} \/ s = {a} \/ s = {b} \/ s = {a, b}
  <2>1. SUFFICES ASSUME NEW s \in SUBSET {a, b} PROVE s = {} \/ s = {a} \/ s = {b} \/ s = {a, b}
    OBVIOUS
  <2>2. CASE a \in s /\ b \in s
    BY <2>2
  <2>3. CASE a \in s /\ b \notin s
    BY <2>3
  <2>4. CASE a \notin s /\ b \in s
    BY <2>4
  <2>5. CASE a \notin s /\ b \notin s
    BY <2>5
  <2>6. QED BY <2>2, <2>3, <2>4, <2>5
<1> DEFINE f == [s \in SUBSET {a, b} |-> IF s = {} THEN 0 ELSE IF s = {a} THEN a.size
                                         ELSE IF s = {b} THEN b.size ELSE a.size + b.size]
<1>5. f[{}] = 0 /\ f[{a}] = a.size /\ f[{b}] = b.size /\ f[{a, b}] = a.size + b.size
  BY <1>3
<1> HIDE DEF first
<1>6. f = [s \in SUBSET {a, b} |-> f[s]]
  OBVIOUS
<1> HIDE DEF f
<1>7. ASSUME NEW s \in SUBSET {a, b}
      PROVE  f[s] = IF s = {} THEN 0 ELSE first(s).size + f[s \ {first(s)}]
  <2>1. CASE s = {}
    BY <1>5, <2>1
  <2>2. CASE s = {a}
    <3>1. first(s).size = a.size /\ f[s \ {first(s)}] = 0 /\ f[s] = a.size /\ s # {}
      BY <1>1, <1>3, <1>5, <2>2
    <3>2. QED BY <3>1
  <2>3. CASE s = {b}
    <3>1. first(s).size = b.size /\ f[s \ {first(s)}] = 0 /\ f[s] = b.size /\ s # {}
      BY <1>1, <1>3, <1>5, <2>3
    <3>2. QED BY <3>1
  <2>4. CASE s = {a, b}
    <3>1. \/ first(s).size = a.size /\ f[s \ {first(s)}] = b.size
          \/ first(s).size = b.size /\ f[s \ {first(s)}] = a.size
      BY <1>2, <1>5, <2>4
    <3>2. f[s] = a.size + b.size /\ s # {}
      BY <1>5, <2>4
    <3>3. QED BY <3>1, <3>2
  <2>5. QED BY <1>4, <2>1, <2>2, <2>3, <2>4
<1>8. IsSummation(f, {a, b})
  BY <1>6, <1>7 DEF IsSummation, first
<1>9. \A g : IsSummation(g, {a, b}) => g[{a, b}] = a.size + b.size
  <2>1. SUFFICES ASSUME NEW g, IsSummation(g, {a, b}) PROVE g[{a, b}] = a.size + b.size
    OBVIOUS
  <2>2. \A s \in SUBSET {a, b} : g[s] = IF s = {} THEN 0 ELSE first(s).size + g[s \ {first(s)}]
    BY <2>1, Zenon DEF IsSummation, first
  <2>3. g[{}] = 0
    BY <1>3, <2>2
  <2>4. g[{a}] = a.size
    BY <1>1, <1>3, <2>2, <2>3
  <2>5. g[{b}] = b.size
    BY <1>1, <1>3, <2>2, <2>3
  <2>6. g[{a, b}] = first({a, b}).size + g[{a, b} \ {first({a, b})}]
    BY <1>3, <2>2
  <2>7. CASE first({a, b}) = a /\ {a, b} \ {first({a, b})} = {b}
    BY <2>5, <2>6, <2>7
  <2>8. CASE first({a, b}) = b /\ {a, b} \ {first({a, b})} = {a}
    <3>1. g[{a, b}] = b.size + a.size
      BY <2>4, <2>6, <2>8
    <3>2. QED BY <3>1
  <2>9. QED BY <1>2, <2>7, <2>8
<1>10. IsSummation(CHOOSE sum : IsSummation(sum, {a, b}), {a, b})
  BY <1>8
<1>11. QED BY <1>9, <1>10, TotalSizeSums

\* A group of one partition or two.
GroupOf(parts) == {p \in parts : ~p.boot}

SmallGroup(parts) ==
  \/ \E y : GroupOf(parts) = {y} /\ y.size \in Nat
  \/ \E y, z : y # z /\ GroupOf(parts) = {y, z} /\ y.size \in Nat /\ z.size \in Nat

LEMMA GroupSize ==
  ASSUME NEW parts, SmallGroup(parts)
  PROVE  TotalSize(GroupOf(parts)) \in Nat
<1>1. CASE \E y : GroupOf(parts) = {y} /\ y.size \in Nat
  BY <1>1, OneSize
<1>2. CASE \E y, z : y # z /\ GroupOf(parts) = {y, z} /\ y.size \in Nat /\ z.size \in Nat
  <2>1. PICK y, z : y # z /\ GroupOf(parts) = {y, z} /\ y.size \in Nat /\ z.size \in Nat
    BY <1>2
  <2>2. TotalSize({y, z}) = y.size + z.size
    BY <2>1, TwoSizes
  <2>3. QED BY <2>1, <2>2
<1>3. QED BY <1>1, <1>2 DEF SmallGroup

\* Suggestions put everything but the boot partition into the group.
LEMMA SuggestedGroup ==
  ASSUME NEW parts,
         \/ \E d \in Disks : parts \in SingleLayouts(d)
         \/ \E ds \in SUBSET Disks : parts \in MultiLayouts(ds)
  PROVE  SmallGroup(parts)
<1>1. \A a, b \in Nat : Distance(a, b) \in Nat
  BY DEF Distance
<1>2. \A n \in Nat : RootSize(n) \in Nat
  BY DEF RootSize
<1>3. \A name, at, size : /\ New(name, at, size).size = size
                          /\ New(name, at, size).boot = (name = "boot")
                          /\ New(name, at, size).at = at
  BY DEF New
<1>4. Boot.boot
  <2>1. Boot.boot = ("boot" = "boot")
    BY <1>3 DEF Boot
  <2>2. QED BY <2>1
<1>5. ASSUME NEW y, ~y.boot, y.size \in Nat, parts = {Boot, y}
      PROVE  SmallGroup(parts)
  <2>1. GroupOf(parts) = {y}
    BY <1>4, <1>5 DEF GroupOf
  <2>2. QED BY <1>5, <2>1 DEF SmallGroup
<1>6. ASSUME NEW y, NEW z, ~y.boot, ~z.boot, y.size \in Nat, z.size \in Nat, y # z, parts = {Boot, y, z}
      PROVE  SmallGroup(parts)
  <2>1. GroupOf(parts) = {y, z}
    BY <1>4, <1>6 DEF GroupOf
  <2>2. QED BY <1>6, <2>1 DEF SmallGroup
<1>7. ASSUME NEW s \in Nat
      PROVE  /\ ~New("root", "/", s).boot /\ New("root", "/", s).size \in Nat
             /\ ~New("home", "/home", s).boot /\ New("home", "/home", s).size \in Nat
             /\ ~[New("root", "/", s) EXCEPT !.at = "none", !.subvols = TRUE].boot
             /\ [New("root", "/", s) EXCEPT !.at = "none", !.subvols = TRUE].size \in Nat
  BY DEF New
<1>8. \A s, t : New("root", "/", s) # New("home", "/home", t)
  BY <1>3
<1>9. ASSUME NEW d \in Disks, parts \in SingleLayouts(d)
      PROVE  SmallGroup(parts)
  <2> DEFINE total == SizeOf[d]
             whole == New("root", "/", Distance(total, 1))
             root  == New("root", "/", RootSize(total))
             home  == New("home", "/home", Distance(total - 1, RootSize(total)))
             bare  == [whole EXCEPT !.at = "none", !.subvols = TRUE]
  <2>1. total \in Nat
    BY DiskMenuAssumption
  <2>2. parts = {Boot, whole} \/ parts = {Boot, bare} \/ (total >= 64 /\ parts = {Boot, root, home})
    BY <1>9 DEF SingleLayouts
  <2> HIDE DEF total
  <2>3. /\ Distance(total, 1) \in Nat /\ RootSize(total) \in Nat
        /\ total >= 64 => Distance(total - 1, RootSize(total)) \in Nat
    <3>1. total >= 64 => total - 1 \in Nat
      BY <2>1
    <3>2. QED BY <1>1, <1>2, <2>1, <3>1
  <2>4. /\ ~whole.boot /\ whole.size \in Nat /\ ~bare.boot /\ bare.size \in Nat
        /\ ~root.boot /\ root.size \in Nat
        /\ total >= 64 => ~home.boot /\ home.size \in Nat
        /\ root # home
    BY <1>7, <1>8, <2>3
  <2> HIDE DEF whole, root, home, bare
  <2>5. QED BY <1>5, <1>6, <2>2, <2>4
<1>10. ASSUME NEW ds \in SUBSET Disks, parts \in MultiLayouts(ds)
       PROVE  SmallGroup(parts)
  <2>1. PICK h \in HomeDisks(ds) : \E r \in RootDisks(ds, h) :
          parts = {Boot, New("root", "/", Distance(SizeOf[r], 1)), New("home", "/home", SizeOf[h])}
    BY <1>10 DEF MultiLayouts
  <2>2. PICK r \in RootDisks(ds, h) :
          parts = {Boot, New("root", "/", Distance(SizeOf[r], 1)), New("home", "/home", SizeOf[h])}
    BY <2>1
  <2>3. h \in Disks /\ r \in Disks
    BY DEF HomeDisks, RootDisks
  <2>4. Distance(SizeOf[r], 1) \in Nat /\ SizeOf[h] \in Nat
    BY <1>1, <2>3, DiskMenuAssumption
  <2> DEFINE y == New("root", "/", Distance(SizeOf[r], 1))
             z == New("home", "/home", SizeOf[h])
  <2>5. y # z /\ ~y.boot /\ ~z.boot /\ y.size \in Nat /\ z.size \in Nat
    BY <1>7, <1>8, <2>4
  <2>6. parts = {Boot, y, z}
    BY <2>2
  <2> HIDE DEF y, z
  <2>7. QED BY <1>6, <2>5, <2>6
<1>11. QED BY <1>9, <1>10

VolumesFitIn(v) ==
  (v # None /\ TotalSize(v.pvs) >= 32) => TotalSize(v.volumes) <= TotalSize(v.pvs)

\* suggest_lvm_layout(), whatever the size of the group.
LEMMA SuggestedVolumesFit ==
  ASSUME SmallGroup(layout.parts), NEW v \in LvmLayouts
  PROVE  VolumesFitIn(v)
<1> DEFINE pvs   == GroupOf(layout.parts)
           total == TotalSize(pvs)
           root  == [name |-> "root", size |-> RootSize(total)]
           home  == [name |-> "home", size |-> Distance(total, RootSize(total))]
<1>1. PICK vs \in {{root}, {root, home}} : v = [id |-> made, pvs |-> pvs, volumes |-> vs]
  BY Zenon DEF LvmLayouts, GroupOf
<1>2. v.pvs = pvs /\ v.volumes = vs
  BY <1>1
<1>3. total \in Nat
  BY GroupSize
<1>4. SUFFICES ASSUME total >= 32
               PROVE  TotalSize(vs) <= total
  BY <1>2, Zenon DEF VolumesFitIn
<1>5. TotalSize({root}) = RootSize(total) /\ RootSize(total) \in Nat /\ RootSize(total) <= total
  <2> HIDE DEF total
  <2>1. RootSize(total) \in Nat /\ RootSize(total) <= total
    BY <1>3, <1>4 DEF RootSize
  <2>2. root.size = RootSize(total)
    OBVIOUS
  <2> HIDE DEF root
  <2>3. QED BY <2>1, <2>2, OneSize
<1>6. TotalSize({root, home}) = total
  <2> HIDE DEF total
  <2>1. Distance(total, RootSize(total)) = total - RootSize(total)
    BY <1>3, <1>5 DEF Distance
  <2>2. root.size = RootSize(total) /\ home.size = total - RootSize(total)
    BY <2>1
  <2>3. root # home
    <3>1. root.name = "root" /\ home.name = "home"
      OBVIOUS
    <3> HIDE DEF root, home
    <3>2. QED BY <3>1
  <2> HIDE DEF root, home
  <2>4. root.size \in Nat /\ home.size \in Nat
    BY <1>3, <1>5, <2>2
  <2>5. TotalSize({root, home}) = root.size + home.size
    BY <2>3, <2>4, TwoSizes
  <2>6. QED BY <1>3, <1>5, <2>2, <2>5
<1>7. CASE vs = {root}
  <2> HIDE DEF total, root, home
  <2> QED BY <1>5, <1>7
<1>8. CASE vs = {root, home}
  <2> HIDE DEF total, root, home
  <2> QED BY <1>3, <1>6, <1>8
<1>9. QED BY <1>1, <1>7, <1>8, Zenon

\* A suggested layout has a group whose size is known, in the menu and in the
\* configuration, and the volumes of either fit it.
GroupFits(l, v) ==
  /\ l # None /\ l.type = "default" => SmallGroup(l.parts)
  /\ VolumesFitIn(v)

SizesInv ==
  /\ GroupFits(layout, lvm)
  /\ config # None => GroupFits(config.layout, config.lvm)

LEMMA SizesKept == SizesInv /\ [Next]_vars => SizesInv'
<1> SUFFICES ASSUME SizesInv, [Next]_vars PROVE SizesInv'
  OBVIOUS
<1>1. VolumesFitIn(None) /\ GroupFits(None, None)
  BY DEF VolumesFitIn, GroupFits
<1>2. ASSUME NEW new, Choose(new), new # None /\ new.type = "default" => SmallGroup(new.parts)
      PROVE  SizesInv'
  <2>1. layout' = new /\ config' = config /\ (lvm' = lvm \/ lvm' = None)
    BY <1>2 DEF Choose, Untouched
  <2>2. GroupFits(new, lvm')
    BY <1>1, <1>2, <2>1 DEF SizesInv, GroupFits
  <2>3. QED BY <2>1, <2>2 DEF SizesInv
<1>3. ASSUME NEW type, type # "default", NEW parts, Choose([type |-> type, parts |-> parts])
      PROVE  SizesInv'
  <2>1. [type |-> type, parts |-> parts].type # "default"
    BY <1>3
  <2>2. QED BY <1>2, <1>3, <2>1
<1>4. CASE ChooseNone
  BY <1>2, <1>4 DEF ChooseNone
<1>5. CASE ChooseDefault
  <2>1. PICK ds \in SUBSET Disks :
          \E parts \in IF Cardinality(ds) = 1 THEN UNION {SingleLayouts(d) : d \in ds} ELSE MultiLayouts(ds) :
            Choose([type |-> "default", parts |-> parts])
    BY <1>5 DEF ChooseDefault
  <2>2. PICK parts \in IF Cardinality(ds) = 1 THEN UNION {SingleLayouts(d) : d \in ds} ELSE MultiLayouts(ds) :
          Choose([type |-> "default", parts |-> parts])
    BY <2>1
  <2>3. \/ \E d \in Disks : parts \in SingleLayouts(d)
        \/ \E es \in SUBSET Disks : parts \in MultiLayouts(es)
    <3>1. CASE Cardinality(ds) = 1
      BY <2>2, <3>1
    <3>2. CASE Cardinality(ds) # 1
      BY <2>2, <3>2
    <3>3. QED BY <3>1, <3>2
  <2>4. [type |-> "default", parts |-> parts].parts = parts /\ SmallGroup(parts)
    BY <2>3, SuggestedGroup
  <2>5. QED BY <1>2, <2>2, <2>4
<1>6. CASE ChooseMounted
  BY <1>3, <1>6 DEF ChooseMounted
<1>7. CASE ChooseManual
  BY <1>3, <1>7 DEF ChooseManual
<1>8. CASE ChooseManualAgain
  <2>1. \E parts : Choose([type |-> "manual", parts |-> parts])
    BY <1>8, Zenon DEF ChooseManualAgain
  <2>2. QED BY <1>3, <2>1
<1>9. CASE ChooseLvm
  <2>1. layout' = layout /\ config' = config /\ layout # None /\ layout.type = "default"
    BY <1>9 DEF ChooseLvm, Untouched
  <2>2. lvm' \in LvmLayouts \/ lvm' = None
    BY <1>9 DEF ChooseLvm
  <2>3. VolumesFitIn(lvm')
    BY <1>1, <2>1, <2>2, SuggestedVolumesFit DEF SizesInv, GroupFits
  <2>4. GroupFits(layout', lvm')
    BY <2>1, <2>3 DEF SizesInv, GroupFits
  <2>5. QED BY <2>1, <2>4 DEF SizesInv
<1>10. CASE Open
  <2>1. config' = config /\ \/ layout' = None /\ lvm' = None
                            \/ config # None /\ layout' = config.layout /\ lvm' = config.lvm
    BY <1>10 DEF Open, Closed
  <2>2. GroupFits(layout', lvm')
    BY <1>1, <2>1 DEF SizesInv
  <2>3. QED BY <2>1, <2>2 DEF SizesInv
<1>11. CASE Leave \/ ResetMenu
  <2>1. /\ layout' = None /\ lvm' = None
        /\ \/ config' = None
           \/ config' = [layout |-> layout, lvm |-> lvm, enc |-> enc, snapshots |-> snapshots]
    BY <1>11 DEF Leave, ResetMenu, Closed
  <2>2. config' # None => config'.layout = layout /\ config'.lvm = lvm
    BY <2>1
  <2>3. QED BY <1>1, <2>1, <2>2 DEF SizesInv
<1>12. CASE Apply \/ ChooseSnapshots \/ OpenEncryption \/ LeaveEncryption \/ ResetEncryption
  BY <1>12 DEF Apply, ChooseSnapshots, OpenEncryption, LeaveEncryption, ResetEncryption, Untouched, SizesInv
<1>13. CASE SelectType \/ SelectPassword \/ SelectPartitions \/ SelectVolumes
  <2>1. \E new : Item(new)
    BY <1>13, Zenon DEF SelectType, SelectPassword, SelectPartitions, SelectVolumes
  <2>2. QED BY <2>1 DEF Item, SizesInv
<1>14. CASE UNCHANGED vars
  BY <1>14 DEF vars, SizesInv
<1>15. QED
  BY <1>4, <1>5, <1>6, <1>7, <1>8, <1>9, <1>10, <1>11, <1>12, <1>13, <1>14 DEF Next

\* On disks of any size, the volumes that are suggested fit the group they are put
\* into.
THEOREM SuggestedVolumesFitTheGroup == Spec => []VolumesFit
<1>1. Init => SizesInv
  BY DEF Init, SizesInv, GroupFits, VolumesFitIn
<1>2. SizesInv => VolumesFit
  BY DEF SizesInv, GroupFits, VolumesFitIn, VolumesFit
<1>3. QED BY <1>1, <1>2, SizesKept, PTL DEF Spec

=============================================================================
