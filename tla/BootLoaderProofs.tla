---------------------------- MODULE BootLoaderProofs ----------------------------
(***************************************************************************)
(* How the installed system gets to boot, for any layouts, encryptions,    *)
(* kernels and loaders.  The parameters are collected by steps in a fixed  *)
(* order and written in two places, the command line of the unified images *)
(* and the entries of the loaders: IInv says which of them are known when  *)
(* each place is written.  The list of hooks is written in five places:    *)
(* HooksInv keeps it in an order that every one of them preserves.  BootInv*)
(* carries what the images contain to the loader that is installed, and    *)
(* the layout decides whether that loader finds them.                      *)
(***************************************************************************)
EXTENDS BootLoader, SequenceTheorems, WellFoundedInduction, NaturalsInduction, TLAPS

\* The parameters p say what was configured.
Complete(p) ==
  /\ p.zswap = ~request.zram
  /\ request.plymouth => p.extra = <<"quiet", "splash">>

SwapInv ==
  pc \in {"add", "plymouth", "uki", "loader"} => zswap = request.zram

ExtraInv ==
  pc \in {"uki", "loader"} /\ request.plymouth => extra = <<"quiet", "splash">>

UnifiedInv ==
  pc = "loader" /\ request.uki /\ ~reported =>
    \A k \in Kernels : Complete(unified[k].params)

EntriesInv ==
  /\ pc \notin {"end", "raised", "complete", "missing steps"} => entries = {}
  /\ pc # "raised" /\ ~reported => \A e \in entries : Complete(ParamsOf(e))

IInv ==
  /\ request \in Requests
  /\ reported \in BOOLEAN
  /\ SwapInv
  /\ ExtraInv
  /\ UnifiedInv
  /\ EntriesInv

-----------------------------------------------------------------------------

LEMMA SwitchTypes ==
  ASSUME NEW r \in Requests
  PROVE  r.zram \in BOOLEAN /\ r.plymouth \in BOOLEAN /\ r.uki \in BOOLEAN
<1>1. {r.uefi, r.plugin, r.uki, r.removable, r.plymouth, r.zram, r.snapshots, r.lvm, r.hsm, r.subvolumes} \subseteq BOOLEAN
  BY BootAssumption
<1>2. QED BY <1>1

\* Both kinds of parameters are complete once the first steps are done.
LEMMA ParamsAreComplete ==
  ASSUME zswap = request.zram, request.plymouth => extra = <<"quiet", "splash">>, NEW id
  PROVE  Complete(KernelParams(id))
<1>1. KernelParams(id).zswap = ~zswap /\ KernelParams(id).extra = extra
  BY DEF KernelParams
<1>2. QED BY <1>1 DEF Complete

\* A step that gives up, or is before the loader and leaves no entry.
LEMMA FailsKeeps ==
  ASSUME IInv, Fails
  PROVE  IInv'
BY DEF Fails, IInv, SwapInv, ExtraInv, UnifiedInv, EntriesInv

LEMMA EarlyKeeps ==
  ASSUME IInv, pc \in {"prepare", "base image"}, pc' \in {"base image", "swap"},
         request' = request, entries' = entries, reported' \in BOOLEAN
  PROVE  IInv'
BY DEF IInv, SwapInv, ExtraInv, UnifiedInv, EntriesInv

LEMMA SetupSwapKeeps == IInv /\ SetupSwap => IInv'
<1> SUFFICES ASSUME IInv, SetupSwap PROVE IInv'
  OBVIOUS
<1>1. CASE Strap
  BY <1>1, FailsKeeps DEF Strap
<1>2. CASE ~Strap
  <2>1. /\ pc = "swap" /\ pc' = "add" /\ zswap' = request.zram /\ request' = request
        /\ entries' = entries /\ reported' = reported
    BY <1>2 DEF SetupSwap
  <2>2. QED BY <2>1 DEF IInv, SwapInv, ExtraInv, UnifiedInv, EntriesInv
<1>3. QED BY <1>1, <1>2

LEMMA AddKeeps == IInv /\ Add => IInv'
<1> SUFFICES ASSUME IInv, Add PROVE IInv'
  OBVIOUS
<1>1. /\ pc = "add" /\ request' = request /\ zswap' = zswap /\ extra' = extra
      /\ entries' = entries /\ reported' = reported /\ unified' = unified
  BY DEF Add
<1>2. \/ pc' \in {"end", "raised"}
      \/ pc' = "plymouth"
      \/ pc' = "uki" /\ ~request.plymouth
  BY DEF Add
<1>3. entries = {}
  BY <1>1 DEF IInv, EntriesInv
<1>4. QED BY <1>1, <1>2, <1>3 DEF IInv, SwapInv, ExtraInv, UnifiedInv, EntriesInv

LEMMA InstallPlymouthKeeps == IInv /\ InstallPlymouth => IInv'
<1> SUFFICES ASSUME IInv, InstallPlymouth PROVE IInv'
  OBVIOUS
<1>1. CASE Strap
  BY <1>1, FailsKeeps DEF Strap
<1>2. CASE ~Strap
  <2>1. /\ pc = "plymouth" /\ pc' = "uki" /\ request' = request /\ zswap' = zswap
        /\ extra' = <<"quiet", "splash">> /\ entries' = entries /\ reported' \in BOOLEAN
    BY <1>2 DEF InstallPlymouth, Mkinitcpio, IInv
  <2>2. entries = {}
    BY <2>1 DEF IInv, EntriesInv
  <2>3. QED BY <2>1, <2>2 DEF IInv, SwapInv, ExtraInv, UnifiedInv, EntriesInv
<1>3. QED BY <1>1, <1>2

LEMMA ConfigUkiKeeps == IInv /\ ConfigUki => IInv'
<1> SUFFICES ASSUME IInv, ConfigUki PROVE IInv'
  OBVIOUS
<1>1. /\ pc = "uki" /\ entries = {}
      /\ zswap = request.zram /\ (request.plymouth => extra = <<"quiet", "splash">>)
  BY DEF ConfigUki, IInv, EntriesInv, SwapInv, ExtraInv
<1>2. CASE Fails
  BY <1>2, FailsKeeps
<1>3. CASE ~Fails
  <2>1. pc' = "loader" /\ request' = request /\ zswap' = zswap /\ extra' = extra /\ entries' = entries
    BY <1>3 DEF ConfigUki
  <2>2. \/ ~request.uki /\ reported' = reported
        \/ request.uki /\ reported' = TRUE
        \/ /\ request.uki /\ reported' = reported
           /\ unified' = [k \in Kernels |-> [hooks |-> hooks', params |-> KernelParams(TRUE)]]
    BY <1>3 DEF ConfigUki
  <2>3. UnifiedInv'
    <3>1. SUFFICES ASSUME unified' = [k \in Kernels |-> [hooks |-> hooks', params |-> KernelParams(TRUE)]]
                   PROVE  \A k \in Kernels : Complete(unified'[k].params)
      BY <2>1, <2>2 DEF UnifiedInv, Kernels, Complete
    <3>2. \A k \in Kernels : unified'[k].params = KernelParams(TRUE)
      BY <3>1
    <3>3. Complete(KernelParams(TRUE))
      BY <1>1, ParamsAreComplete
    <3>4. QED BY <3>2, <3>3
  <2>4. reported' \in BOOLEAN
    BY <2>2 DEF IInv
  <2>5. QED BY <1>1, <2>1, <2>3, <2>4 DEF IInv, SwapInv, ExtraInv, EntriesInv
<1>4. QED BY <1>2, <1>3

-----------------------------------------------------------------------------
(* The loaders *)

\* What is known when a loader is installed.
LEMMA AtTheLoader ==
  ASSUME IInv, pc = "loader"
  PROVE  /\ \A id : Complete(KernelParams(id))
         /\ request.uki /\ ~reported => \A k \in Kernels : Complete(unified[k].params)
BY ParamsAreComplete DEF IInv, SwapInv, ExtraInv, UnifiedInv

\* Entries whose parameters are complete.
LEMMA InstallsKeeps ==
  ASSUME IInv, pc = "loader", NEW e, Installs(e),
         reported' = reported \/ reported' = TRUE,
         ~reported' => \A x \in e : Complete(ParamsOf(x))
  PROVE  IInv'
<1>1. /\ entries' = e /\ pc' = "end" /\ request' = request /\ unified' = unified
  BY DEF Installs
<1>2. reported' \in BOOLEAN
  BY DEF IInv
<1>3. ~reported' => \A x \in e : Complete(ParamsOf(x))'
  BY <1>1 DEF Complete, ParamsOf
<1>4. EntriesInv'
  BY <1>1, <1>3 DEF EntriesInv
<1>5. QED BY <1>1, <1>2, <1>4 DEF IInv, SwapInv, ExtraInv, UnifiedInv

LEMMA ClassicEntry ==
  ASSUME NEW part, NEW dir, NEW k, NEW p, Complete(p)
  PROVE  Complete(ParamsOf(Entry(part, dir, "classic", k, p)))
<1>1. ParamsOf(Entry(part, dir, "classic", k, p)) = p
  BY DEF ParamsOf, Entry
<1>2. QED BY <1>1

LEMMA UnifiedEntry ==
  ASSUME IInv, pc = "loader", request.uki, ~reported, NEW part, NEW dir, NEW k \in Kernels, NEW p
  PROVE  Complete(ParamsOf(Entry(part, dir, "unified", k, p)))
<1>1. ParamsOf(Entry(part, dir, "unified", k, p)) = unified[k].params
  BY DEF ParamsOf, Entry
<1>2. QED BY <1>1, AtTheLoader

\* One image of every kernel.
Images(part, dir, image, id) == {Entry(part, dir, image, k, KernelParams(id)) : k \in Kernels}

LEMMA ImagesKeep ==
  ASSUME IInv, pc = "loader", reported' = reported, NEW part, NEW dir, NEW id, NEW image,
         image = "classic" \/ (image = "unified" /\ request.uki),
         Installs(Images(part, dir, image, id))
  PROVE  IInv'
<1>1. ASSUME ~reported, NEW k \in Kernels
      PROVE  Complete(ParamsOf(Entry(part, dir, image, k, KernelParams(id))))
  <2>1. Complete(KernelParams(id))
    BY AtTheLoader
  <2>2. CASE image = "classic"
    <3>1. Complete(ParamsOf(Entry(part, dir, "classic", k, KernelParams(id))))
      BY <2>1, ClassicEntry
    <3>2. QED BY <2>2, <3>1
  <2>3. CASE image = "unified" /\ request.uki
    <3>1. Complete(ParamsOf(Entry(part, dir, "unified", k, KernelParams(id))))
      BY <1>1, <2>3, UnifiedEntry
    <3>2. QED BY <2>3, <3>1
  <2>4. QED BY <2>2, <2>3
<1>2. ~reported => \A x \in Images(part, dir, image, id) : Complete(ParamsOf(x))
  BY <1>1 DEF Images
<1>3. QED BY <1>2, InstallsKeeps

LEMMA UnifiedKeep ==
  ASSUME IInv, pc = "loader", reported' = reported, request.uki, Installs(UnifiedEntries)
  PROVE  IInv'
<1>1. ASSUME ~reported, NEW k \in Kernels
      PROVE  Complete(ParamsOf(Entry(EfiPartition, "top", "unified", k, None)))
  BY <1>1, UnifiedEntry
<1>2. ~reported => \A x \in UnifiedEntries : Complete(ParamsOf(x))
  BY <1>1 DEF UnifiedEntries
<1>3. QED BY <1>2, InstallsKeeps

LEMMA AddSystemdKeeps == IInv /\ AddSystemd => IInv'
<1> SUFFICES ASSUME IInv, AddSystemd PROVE IInv'
  OBVIOUS
<1>1. pc = "loader" /\ reported' = reported
  BY DEF AddSystemd, AtLoader
<1>2. Installs(IF request.uki THEN UnifiedEntries ELSE Images(BootPartition, "top", "classic", TRUE))
  BY Zenon DEF AddSystemd, Images
<1>3. CASE request.uki
  BY <1>1, <1>2, <1>3, UnifiedKeep
<1>4. CASE ~request.uki
  BY <1>1, <1>2, <1>4, ImagesKeep
<1>5. QED BY <1>3, <1>4

LEMMA AddLimineKeeps == IInv /\ AddLimine => IInv'
<1> SUFFICES ASSUME IInv, AddLimine PROVE IInv'
  OBVIOUS
<1>1. pc = "loader" /\ reported' = reported
  BY DEF AddLimine, AtLoader
<1>2. Installs(IF request.uki THEN UnifiedEntries ELSE Images(LiminePart, "top", "classic", TRUE))
  BY Zenon DEF AddLimine, Images
<1>3. CASE request.uki
  BY <1>1, <1>2, <1>3, UnifiedKeep
<1>4. CASE ~request.uki
  BY <1>1, <1>2, <1>4, ImagesKeep
<1>5. QED BY <1>3, <1>4

LEMMA AddRefindKeeps == IInv /\ AddRefind => IInv'
<1> SUFFICES ASSUME IInv, AddRefind PROVE IInv'
  OBVIOUS
<1>1. pc = "loader" /\ reported' = reported
  BY DEF AddRefind, AtLoader
<1>2. Installs(IF request.uki THEN UnifiedEntries ELSE Images(RefindPlace.part, RefindPlace.dir, "classic", TRUE))
  BY Zenon DEF AddRefind, Images
<1>3. CASE request.uki
  BY <1>1, <1>2, <1>3, UnifiedKeep
<1>4. CASE ~request.uki
  BY <1>1, <1>2, <1>4, ImagesKeep
<1>5. QED BY <1>3, <1>4

LEMMA AddEfistubKeeps == IInv /\ AddEfistub => IInv'
<1> SUFFICES ASSUME IInv, AddEfistub PROVE IInv'
  OBVIOUS
<1>1. pc = "loader" /\ reported' = reported
  BY DEF AddEfistub, AtLoader
<1>2. Installs(Images(BootPartition, "top", IF request.uki THEN "unified" ELSE "classic", TRUE))
  BY Zenon DEF AddEfistub, Images
<1>3. CASE request.uki
  BY <1>1, <1>2, <1>3, ImagesKeep
<1>4. CASE ~request.uki
  BY <1>1, <1>2, <1>4, ImagesKeep
<1>5. QED BY <1>3, <1>4

\* The menu that is written without the parameters is reported.
LEMMA AddGrubKeeps == IInv /\ AddGrub => IInv'
<1> SUFFICES ASSUME IInv, AddGrub PROVE IInv'
  OBVIOUS
<1>1. pc = "loader"
  BY DEF AddGrub, AtLoader
<1>2. \/ reported' = reported /\ request.uki /\ Installs(UnifiedEntries)
      \/ reported' = reported /\ Installs(Images(KernelPart, KernelDir, "classic", FALSE))
      \/ reported' = TRUE /\ \E e : Installs(e)
  BY Zenon DEF AddGrub, Images
<1>3. CASE reported' = reported /\ request.uki /\ Installs(UnifiedEntries)
  BY <1>1, <1>3, UnifiedKeep
<1>4. CASE reported' = reported /\ Installs(Images(KernelPart, KernelDir, "classic", FALSE))
  BY <1>1, <1>4, ImagesKeep
<1>5. CASE reported' = TRUE /\ \E e : Installs(e)
  BY <1>1, <1>5, InstallsKeeps
<1>6. QED BY <1>2, <1>3, <1>4, <1>5

LEMMA EfistubStopsKeeps == IInv /\ EfistubStops => IInv'
<1> SUFFICES ASSUME IInv, EfistubStops PROVE IInv'
  OBVIOUS
<1>1. pc' = "raised" /\ request' = request /\ reported' = reported
  BY DEF EfistubStops
<1>2. QED BY <1>1 DEF IInv, SwapInv, ExtraInv, UnifiedInv, EntriesInv

-----------------------------------------------------------------------------
(* The invariant *)

LEMMA InitEstablishes == Init => IInv
BY DEF Init, IInv, SwapInv, ExtraInv, UnifiedInv, EntriesInv

LEMMA NextKeeps == IInv /\ [Next]_vars => IInv'
<1> SUFFICES ASSUME IInv, [Next]_vars PROVE IInv'
  OBVIOUS
<1>1. CASE Prepare
  BY <1>1, EarlyKeeps DEF Prepare, IInv
<1>2. CASE BaseImage
  BY <1>2, EarlyKeeps DEF BaseImage, Mkinitcpio, IInv
<1>3. CASE SetupSwap BY <1>3, SetupSwapKeeps
<1>4. CASE Add BY <1>4, AddKeeps
<1>5. CASE InstallPlymouth BY <1>5, InstallPlymouthKeeps
<1>6. CASE ConfigUki BY <1>6, ConfigUkiKeeps
<1>7. CASE AddSystemd BY <1>7, AddSystemdKeeps
<1>8. CASE AddGrub BY <1>8, AddGrubKeeps
<1>9. CASE AddLimine BY <1>9, AddLimineKeeps
<1>10. CASE AddEfistub BY <1>10, AddEfistubKeeps
<1>11. CASE EfistubStops BY <1>11, EfistubStopsKeeps
<1>12. CASE AddRefind BY <1>12, AddRefindKeeps
<1>13. CASE LoaderFails
  BY <1>13, FailsKeeps DEF LoaderFails
<1>14. CASE Exit
  <2>1. /\ pc = "end" /\ pc' \in {"complete", "missing steps"} /\ request' = request
        /\ entries' = entries /\ reported' = reported /\ unified' = unified
    BY <1>14 DEF Exit
  <2>2. QED BY <2>1 DEF IInv, SwapInv, ExtraInv, UnifiedInv, EntriesInv, Complete, ParamsOf
<1>15. CASE UNCHANGED vars
  BY <1>15 DEF vars, IInv, SwapInv, ExtraInv, UnifiedInv, EntriesInv, Complete, ParamsOf, Kernels
<1>16. QED
  BY <1>1, <1>2, <1>3, <1>4, <1>5, <1>6, <1>7, <1>8, <1>9, <1>10, <1>11, <1>12, <1>13, <1>14, <1>15 DEF Next

\* However the kernel is started, by an entry of a loader or as a unified
\* image, its command line has what was configured, unless a failed build was
\* reported.
THEOREM CommandLinesAreComplete == Spec => []CommandLineIsComplete
<1>1. IInv => CommandLineIsComplete
  BY DEF IInv, EntriesInv, Complete, CommandLineIsComplete
<1>2. QED BY <1>1, InitEstablishes, NextKeeps, PTL DEF Spec

-----------------------------------------------------------------------------
(* Sequences of hooks *)

Comes(a, b, s) == \A i, j \in DOMAIN s : s[i] = a /\ s[j] = b => i < j
NoRepeats(s) == \A i, j \in DOMAIN s : s[i] = s[j] => i = j
Has(h, s) == \E i \in DOMAIN s : s[i] = h

\* The library's Contains on the sequences of hooks.
LEMMA HasIsContains ==
  ASSUME NEW S, NEW s \in Seq(S), NEW h
  PROVE  Contains(s, h) <=> Has(h, s)
BY DEF Contains, Has

LEMMA PositionFacts ==
  ASSUME NEW S, NEW s \in Seq(S), NEW h, Has(h, s)
  PROVE  Position(h, s) \in 1..Len(s) /\ s[Position(h, s)] = h
<1>1. \E i \in DOMAIN s : s[i] = h
  BY DEF Has
<1>2. Position(h, s) \in DOMAIN s /\ s[Position(h, s)] = h
  BY <1>1, Zenon DEF Position
<1>3. QED BY <1>2

\* t is s with x at place p.
Inserted(S, s, p, x, t) ==
  /\ t \in Seq(S)
  /\ Len(t) = Len(s) + 1
  /\ \A i \in 1..(Len(s) + 1) : t[i] = IF i < p THEN s[i] ELSE IF i = p THEN x ELSE s[i - 1]

\* list.insert
LEMMA InsertAtFacts ==
  ASSUME NEW S, NEW s \in Seq(S), NEW p \in 1..(Len(s) + 1), NEW x \in S
  PROVE  Inserted(S, s, p, x, InsertAt(s, p, x))
<1> DEFINE front == SubSeq(s, 1, p - 1)
           back  == SubSeq(s, p, Len(s))
<1>0. Len(s) \in Nat /\ p \in Nat /\ 1 <= p /\ p <= Len(s) + 1
  BY LenProperties
<1>1. /\ front \in Seq(S) /\ Len(front) = p - 1
      /\ \A i \in 1..(p - 1) : front[i] = s[i]
  <2>1. \A i \in 1..(p - 1) : s[i] \in S
    OBVIOUS
  <2>2. /\ front \in Seq(S) /\ Len(front) = IF 1 <= p - 1 THEN p - 1 - 1 + 1 ELSE 0
        /\ \A i \in 1..(p - 1 - 1 + 1) : front[i] = s[1 + i - 1]
    BY <2>1, SubSeqProperties
  <2> HIDE DEF front
  <2>3. QED BY <2>2
<1>2. /\ back \in Seq(S) /\ Len(back) = Len(s) - p + 1
      /\ \A i \in 1..(Len(s) - p + 1) : back[i] = s[p + i - 1]
  <2>1. \A i \in p..Len(s) : s[i] \in S
    OBVIOUS
  <2>2. /\ back \in Seq(S) /\ Len(back) = IF p <= Len(s) THEN Len(s) - p + 1 ELSE 0
        /\ \A i \in 1..(Len(s) - p + 1) : back[i] = s[p + i - 1]
    BY <2>1, SubSeqProperties
  <2> HIDE DEF back
  <2>3. QED BY <2>2
<1>3. InsertAt(s, p, x) = (front \o <<x>>) \o back
  BY DEF InsertAt
<1> HIDE DEF front, back
<1>4. <<x>> \in Seq(S) /\ Len(<<x>>) = 1 /\ <<x>>[1] = x
  <2>1. <<x>> \in Seq(S)
    OBVIOUS
  <2>2. QED BY <2>1
<1>5. /\ front \o <<x>> \in Seq(S) /\ Len(front \o <<x>>) = p
      /\ \A i \in 1..p : (front \o <<x>>)[i] = IF i < p THEN s[i] ELSE x
  <2>1. /\ front \o <<x>> \in Seq(S) /\ Len(front \o <<x>>) = Len(front) + Len(<<x>>)
        /\ \A i \in 1..(Len(front) + Len(<<x>>)) :
             (front \o <<x>>)[i] = IF i <= Len(front) THEN front[i] ELSE <<x>>[i - Len(front)]
    BY <1>1, <1>4, ConcatProperties
  <2>2. QED BY <1>0, <1>1, <1>4, <2>1
<1> DEFINE t == front \o <<x>>
<1> HIDE DEF t
<1>6. /\ t \in Seq(S) /\ Len(t) = p
      /\ \A i \in 1..p : t[i] = IF i < p THEN s[i] ELSE x
  BY <1>5 DEF t
<1>7. /\ t \o back \in Seq(S)
      /\ Len(t \o back) = Len(t) + Len(back)
      /\ \A i \in 1..(Len(t) + Len(back)) :
           (t \o back)[i] = IF i <= Len(t) THEN t[i] ELSE back[i - Len(t)]
  BY <1>2, <1>6, ConcatProperties
<1>8. /\ t \o back \in Seq(S)
      /\ Len(t \o back) = Len(s) + 1
      /\ \A i \in 1..(Len(s) + 1) : (t \o back)[i] = IF i <= p THEN t[i] ELSE back[i - p]
  <2>1. Len(t) + Len(back) = Len(s) + 1
    BY <1>0, <1>2, <1>6
  <2>2. QED BY <1>6, <1>7, <2>1
<1>9. ASSUME NEW i \in 1..(Len(s) + 1)
      PROVE  (t \o back)[i] = IF i < p THEN s[i] ELSE IF i = p THEN x ELSE s[i - 1]
  <2>1. CASE i <= p
    BY <1>0, <1>6, <1>8, <2>1
  <2>2. CASE i > p
    <3>1. i - p \in 1..(Len(s) - p + 1) /\ p + (i - p) - 1 = i - 1
      BY <1>0, <2>2
    <3>2. QED BY <1>0, <1>2, <1>8, <2>2, <3>1
  <2>3. i <= p \/ i > p
    BY <1>0
  <2>4. QED BY <2>1, <2>2, <2>3, Zenon
<1>10. InsertAt(s, p, x) = t \o back
  BY <1>3 DEF t
<1>11. QED BY <1>8, <1>9, <1>10, Zenon DEF Inserted

\* A new hook keeps the order of the others and stands where it was put.
LEMMA Insertion ==
  ASSUME NEW S, NEW s \in Seq(S), NoRepeats(s), NEW x \in S, ~Has(x, s), NEW p \in 1..(Len(s) + 1)
  PROVE  LET t == InsertAt(s, p, x)
         IN  /\ t \in Seq(S)
             /\ NoRepeats(t)
             /\ \A h : Has(h, t) <=> Has(h, s) \/ h = x
             /\ \A a, b : a # x /\ b # x /\ Comes(a, b, s) => Comes(a, b, t)
             /\ \A a : a # x /\ (\A i \in DOMAIN s : s[i] = a => i < p) => Comes(a, x, t)
             /\ \A b : b # x /\ (\A i \in DOMAIN s : s[i] = b => i >= p) => Comes(x, b, t)
<1>0. Inserted(S, s, p, x, InsertAt(s, p, x))
  BY InsertAtFacts, Zenon
<1> DEFINE t == InsertAt(s, p, x)
           Old(i) == IF i < p THEN i ELSE i - 1
<1>1. /\ t \in Seq(S) /\ Len(t) = Len(s) + 1
      /\ \A i \in 1..(Len(s) + 1) : t[i] = IF i < p THEN s[i] ELSE IF i = p THEN x ELSE s[i - 1]
  BY <1>0, Zenon DEF Inserted
<1> HIDE DEF t
<1>2. /\ DOMAIN s = 1..Len(s) /\ DOMAIN t = 1..(Len(s) + 1) /\ Len(s) \in Nat
      /\ p \in Nat /\ 1 <= p /\ p <= Len(s) + 1
  BY <1>1, LenProperties
<1>3. ASSUME NEW i \in DOMAIN t
      PROVE  IF i = p THEN t[i] = x ELSE t[i] # x /\ Old(i) \in DOMAIN s /\ t[i] = s[Old(i)]
  <2>1. CASE i = p
    <3>1. t[p] = x
      BY <1>1, <1>2
    <3>2. QED BY <2>1, <3>1, Zenon
  <2>2. CASE i # p
    <3>1. Old(i) \in DOMAIN s
      BY <1>2, <2>2
    <3>2. t[i] = s[Old(i)]
      BY <1>1, <1>2, <2>2
    <3>3. s[Old(i)] # x
      BY <3>1 DEF Has
    <3>4. QED BY <2>2, <3>1, <3>2, <3>3
  <2>3. QED BY <2>1, <2>2, Zenon
<1>4. ASSUME NEW i \in DOMAIN t, NEW j \in DOMAIN t, i # p, j # p
      PROVE  /\ Old(i) < Old(j) <=> i < j
             /\ Old(i) = Old(j) <=> i = j
  BY <1>2, <1>4
<1>5. ASSUME NEW i \in DOMAIN s
      PROVE  \E j \in DOMAIN t : j # p /\ Old(j) = i /\ t[j] = s[i]
  <2>1. CASE i < p
    <3>1. i \in DOMAIN t /\ i # p /\ Old(i) = i
      BY <1>2, <2>1
    <3>2. QED BY <1>1, <1>2, <2>1, <3>1
  <2>2. CASE i >= p
    <3>1. i + 1 \in DOMAIN t /\ i + 1 # p /\ Old(i + 1) = i
      BY <1>2, <2>2
    <3>2. t[i + 1] = s[i]
      BY <1>1, <1>2, <2>2, <3>1
    <3>3. QED BY <3>1, <3>2
  <2>3. QED BY <1>2, <2>1, <2>2
<1> HIDE DEF Old
<1>6. NoRepeats(t)
  BY <1>3, <1>4 DEF NoRepeats
<1>7. ASSUME NEW h
      PROVE  Has(h, t) <=> Has(h, s) \/ h = x
  <2>1. Has(x, t)
    <3>1. p \in DOMAIN t /\ t[p] = x
      BY <1>1, <1>2
    <3>2. QED BY <3>1 DEF Has
  <2>2. Has(h, s) => Has(h, t)
    BY <1>5 DEF Has
  <2>3. Has(h, t) => Has(h, s) \/ h = x
    BY <1>3 DEF Has
  <2>4. QED BY <2>1, <2>2, <2>3
<1>8. ASSUME NEW a, NEW b, a # x, b # x, Comes(a, b, s)
      PROVE  Comes(a, b, t)
  BY <1>3, <1>4, <1>8 DEF Comes
<1>9. ASSUME NEW a, a # x, \A i \in DOMAIN s : s[i] = a => i < p
      PROVE  Comes(a, x, t)
  <2>1. SUFFICES ASSUME NEW i \in DOMAIN t, NEW j \in DOMAIN t, t[i] = a, t[j] = x
                 PROVE  i < j
    BY DEF Comes
  <2>2. j = p
    BY <1>3, <2>1
  <2>3. i # p /\ Old(i) \in DOMAIN s /\ s[Old(i)] = a
    BY <1>3, <1>9, <2>1
  <2>4. Old(i) < p
    BY <1>9, <2>3
  <2>5. QED BY <1>2, <2>2, <2>3, <2>4 DEF Old
<1>10. ASSUME NEW b, b # x, \A i \in DOMAIN s : s[i] = b => i >= p
       PROVE  Comes(x, b, t)
  <2>1. SUFFICES ASSUME NEW i \in DOMAIN t, NEW j \in DOMAIN t, t[i] = x, t[j] = b
                 PROVE  i < j
    BY DEF Comes
  <2>2. i = p
    BY <1>3, <2>1
  <2>3. j # p /\ Old(j) \in DOMAIN s /\ s[Old(j)] = b
    BY <1>3, <1>10, <2>1
  <2>4. Old(j) >= p
    BY <1>10, <2>3
  <2>5. QED BY <1>2, <2>2, <2>3, <2>4 DEF Old
<1>11. QED
  <2>1. t \in Seq(S)
    BY <1>1
  <2>2. QED BY <2>1, <1>6, <1>7, <1>8, <1>9, <1>10 DEF t

\* Before or behind a hook that is there.
LEMMA InsertionBefore ==
  ASSUME NEW S, NEW s \in Seq(S), NoRepeats(s), NEW x \in S, ~Has(x, s), NEW h, Has(h, s)
  PROVE  LET t == InsertBefore(x, h, s)
         IN  /\ t \in Seq(S)
             /\ NoRepeats(t)
             /\ \A g : Has(g, t) <=> Has(g, s) \/ g = x
             /\ \A a, b : a # x /\ b # x /\ Comes(a, b, s) => Comes(a, b, t)
             /\ \A a : a # x /\ a # h /\ Comes(a, h, s) => Comes(a, x, t)
             /\ \A b : b # x /\ (b = h \/ Comes(h, b, s)) => Comes(x, b, t)
<1> DEFINE p == Position(h, s)
           t == InsertAt(s, p, x)
<1>1. p \in 1..Len(s) /\ s[p] = h
  BY PositionFacts
<1> HIDE DEF p
<1>2. p \in 1..(Len(s) + 1) /\ p \in DOMAIN s /\ p \in Nat /\ DOMAIN s = 1..Len(s) /\ Len(s) \in Nat
  BY <1>1, LenProperties
<1>3. /\ t \in Seq(S)
      /\ NoRepeats(t)
      /\ \A g : Has(g, t) <=> Has(g, s) \/ g = x
      /\ \A a, b : a # x /\ b # x /\ Comes(a, b, s) => Comes(a, b, t)
      /\ \A a : a # x /\ (\A i \in DOMAIN s : s[i] = a => i < p) => Comes(a, x, t)
      /\ \A b : b # x /\ (\A i \in DOMAIN s : s[i] = b => i >= p) => Comes(x, b, t)
  BY <1>2, Insertion
<1>4. ASSUME NEW a, Comes(a, h, s)
      PROVE  \A i \in DOMAIN s : s[i] = a => i < p
  BY <1>1, <1>2, <1>4 DEF Comes
<1>5. ASSUME NEW b, b = h \/ Comes(h, b, s)
      PROVE  \A i \in DOMAIN s : s[i] = b => i >= p
  <2>1. CASE b = h
    <3>1. \A i \in DOMAIN s : s[i] = b => i = p
      BY <1>1, <1>2, <2>1 DEF NoRepeats
    <3>2. QED BY <1>2, <3>1
  <2>2. CASE Comes(h, b, s)
    BY <1>1, <1>2, <2>2 DEF Comes
  <2>3. QED BY <1>5, <2>1, <2>2
<1>6. InsertBefore(x, h, s) = t
  BY DEF InsertBefore, p
<1> HIDE DEF t
<1>7. QED BY <1>3, <1>4, <1>5, <1>6, Zenon

LEMMA InsertionBehind ==
  ASSUME NEW S, NEW s \in Seq(S), NoRepeats(s), NEW x \in S, ~Has(x, s), NEW h, Has(h, s)
  PROVE  LET t == InsertBehind(x, h, s)
         IN  /\ t \in Seq(S)
             /\ NoRepeats(t)
             /\ \A g : Has(g, t) <=> Has(g, s) \/ g = x
             /\ \A a, b : a # x /\ b # x /\ Comes(a, b, s) => Comes(a, b, t)
             /\ \A a : a # x /\ (a = h \/ Comes(a, h, s)) => Comes(a, x, t)
<1> DEFINE p == Position(h, s)
           t == InsertAt(s, p + 1, x)
<1>1. p \in 1..Len(s) /\ s[p] = h
  BY PositionFacts
<1> HIDE DEF p
<1>2. p + 1 \in 1..(Len(s) + 1) /\ p \in DOMAIN s /\ p \in Nat /\ DOMAIN s = 1..Len(s) /\ Len(s) \in Nat
  BY <1>1, LenProperties
<1>3. /\ t \in Seq(S)
      /\ NoRepeats(t)
      /\ \A g : Has(g, t) <=> Has(g, s) \/ g = x
      /\ \A a, b : a # x /\ b # x /\ Comes(a, b, s) => Comes(a, b, t)
      /\ \A a : a # x /\ (\A i \in DOMAIN s : s[i] = a => i < p + 1) => Comes(a, x, t)
  BY <1>2, Insertion
<1>4. ASSUME NEW a, a = h \/ Comes(a, h, s)
      PROVE  \A i \in DOMAIN s : s[i] = a => i < p + 1
  <2>1. CASE a = h
    <3>1. \A i \in DOMAIN s : s[i] = a => i = p
      BY <1>1, <1>2, <2>1 DEF NoRepeats
    <3>2. QED BY <1>2, <3>1
  <2>2. CASE Comes(a, h, s)
    BY <1>1, <1>2, <2>2 DEF Comes
  <2>3. QED BY <1>4, <2>1, <2>2
<1>5. InsertBehind(x, h, s) = t
  BY DEF InsertBehind, p
<1> HIDE DEF t
<1>6. QED BY <1>3, <1>4, <1>5, Zenon

-----------------------------------------------------------------------------
(* The order of the hooks *)

Early == {"systemd", "udev", "keyboard"}
Crypt == {"encrypt", "sd-encrypt"}

\* Each list of hooks that is written: what starts the others comes first, a disk is
\* opened behind it and behind the splash screen, groups are found after that, and
\* file systems last.  Renaming meets no hook that already has the new name.
HooksFit(s) ==
  /\ s \in Seq(HookNames) /\ NoRepeats(s)
  /\ Has("filesystems", s) /\ Has("keyboard", s)
  /\ Has("systemd", s) <=> ~Has("udev", s)
  /\ ~(Has("sd-vconsole", s) /\ Has("keymap consolefont", s))
  /\ request.hsm => Has("systemd", s) /\ ~Has("encrypt", s)
  /\ ~request.hsm => ~Has("sd-encrypt", s)
  /\ \A a \in Early, b \in Crypt \cup {"lvm2", "filesystems"} : Comes(a, b, s)
  /\ \A a \in Crypt, b \in {"lvm2", "filesystems"} : Comes(a, b, s)
  /\ Comes("lvm2", "filesystems", s)
  /\ \A a \in {"systemd", "udev"} : Comes(a, "plymouth", s)
  /\ \A b \in Crypt : Comes("plymouth", b, s)

\* Position finds the only place of a hook.
LEMMA ComesIsPrecedes ==
  ASSUME NEW a, NEW b, hooks \in Seq(HookNames), Comes(a, b, hooks)
  PROVE  Precedes(a, b)
<1> SUFFICES ASSUME Contains(hooks, a), Contains(hooks, b)
             PROVE  Position(a, hooks) < Position(b, hooks)
  BY DEF Precedes
<1>1. Has(a, hooks) /\ Has(b, hooks)
  BY HasIsContains
<1>2. /\ Position(a, hooks) \in DOMAIN hooks /\ hooks[Position(a, hooks)] = a
      /\ Position(b, hooks) \in DOMAIN hooks /\ hooks[Position(b, hooks)] = b
  BY <1>1, PositionFacts
<1>3. QED BY <1>2, Zenon DEF Comes

LEMMA FittingHooksAreInOrder ==
  ASSUME HooksFit(hooks)
  PROVE  HooksInOrder
<1>1. hooks \in Seq(HookNames) /\ NoRepeats(hooks)
  BY DEF HooksFit
<1>2. ASSUME NEW h \in Crypt
      PROVE  /\ Comes("keyboard", h, hooks) /\ Comes(h, "filesystems", hooks)
             /\ Comes(h, "lvm2", hooks) /\ Comes("plymouth", h, hooks)
  BY DEF HooksFit, Early
<1>3. ASSUME NEW h \in Crypt
      PROVE  /\ Precedes("keyboard", h) /\ Precedes(h, "filesystems")
             /\ Precedes(h, "lvm2") /\ Precedes("plymouth", h)
  BY <1>1, <1>2, ComesIsPrecedes
<1>4. Precedes("lvm2", "filesystems") /\ Precedes("udev", "plymouth") /\ Precedes("systemd", "plymouth")
  BY <1>1, ComesIsPrecedes DEF HooksFit
<1>5. QED BY <1>1, <1>3, <1>4 DEF HooksInOrder, NoRepeats, Crypt

FirstHooks == <<"base", "systemd", "autodetect", "microcode", "modconf", "kms",
                "keyboard", "sd-vconsole", "block", "filesystems", "fsck">>

LEMMA Eleven ==
  ASSUME NEW S, NEW a \in S, NEW b \in S, NEW c \in S, NEW d \in S, NEW e \in S, NEW f \in S,
         NEW g \in S, NEW h \in S, NEW i \in S, NEW j \in S, NEW k \in S
  PROVE  <<a, b, c, d, e, f, g, h, i, j, k>> \in Seq(S) /\ Len(<<a, b, c, d, e, f, g, h, i, j, k>>) = 11
OBVIOUS

\* The hooks of Installer.__init__.
LEMMA FirstHooksFacts ==
  /\ FirstHooks \in Seq(HookNames) /\ Len(FirstHooks) = 11
  /\ NoRepeats(FirstHooks)
  /\ \A i \in 1..11 : /\ FirstHooks[i] = "systemd" <=> i = 2
                      /\ FirstHooks[i] = "keyboard" <=> i = 7
                      /\ FirstHooks[i] = "filesystems" <=> i = 10
                      /\ FirstHooks[i] \notin Crypt \cup {"udev", "lvm2", "plymouth", "keymap consolefont"}
<1>1. FirstHooks \in Seq(HookNames) /\ Len(FirstHooks) = 11
  <2>2. /\ "base" \in HookNames /\ "systemd" \in HookNames /\ "autodetect" \in HookNames /\ "microcode" \in HookNames
        /\ "modconf" \in HookNames /\ "kms" \in HookNames /\ "keyboard" \in HookNames /\ "sd-vconsole" \in HookNames
        /\ "block" \in HookNames /\ "filesystems" \in HookNames /\ "fsck" \in HookNames
    BY DEF HookNames
  <2>3. QED BY <2>2, Eleven, Zenon DEF FirstHooks
<1>2. /\ FirstHooks[1] = "base" /\ FirstHooks[2] = "systemd" /\ FirstHooks[3] = "autodetect"
      /\ FirstHooks[4] = "microcode" /\ FirstHooks[5] = "modconf" /\ FirstHooks[6] = "kms"
      /\ FirstHooks[7] = "keyboard" /\ FirstHooks[8] = "sd-vconsole" /\ FirstHooks[9] = "block"
      /\ FirstHooks[10] = "filesystems" /\ FirstHooks[11] = "fsck"
  BY DEF FirstHooks
<1>3. \A i \in 1..11 : i \in {1, 2, 3, 4, 5, 6, 7, 8, 9, 10, 11}
  OBVIOUS
<1>4. \A i \in 1..11 : /\ FirstHooks[i] = "systemd" <=> i = 2
                       /\ FirstHooks[i] = "keyboard" <=> i = 7
                       /\ FirstHooks[i] = "filesystems" <=> i = 10
                       /\ FirstHooks[i] \notin Crypt \cup {"udev", "lvm2", "plymouth", "keymap consolefont"}
  BY <1>2, <1>3 DEF Crypt
<1>5. \A i, j \in 1..11 : FirstHooks[i] = FirstHooks[j] => i = j
  BY <1>2, <1>3
<1>6. NoRepeats(FirstHooks)
  BY <1>1, <1>5 DEF NoRepeats
<1>7. QED BY <1>1, <1>4, <1>6

LEMMA FirstHooksFit == HooksFit(FirstHooks)
<1>1. /\ FirstHooks \in Seq(HookNames) /\ NoRepeats(FirstHooks) /\ DOMAIN FirstHooks = 1..11
      /\ Len(FirstHooks) = 11
  <2>1. FirstHooks \in Seq(HookNames)
    BY FirstHooksFacts, Zenon
  <2>2. NoRepeats(FirstHooks)
    BY FirstHooksFacts, Zenon
  <2>3. Len(FirstHooks) = 11
    BY FirstHooksFacts, Zenon
  <2>4. DOMAIN FirstHooks = 1..Len(FirstHooks)
    BY <2>1, LenProperties, Zenon
  <2>5. QED BY <2>1, <2>2, <2>3, <2>4
<1>2. \A h \in Crypt \cup {"udev", "lvm2", "plymouth", "keymap consolefont"} : ~Has(h, FirstHooks)
  BY <1>1, FirstHooksFacts, Zenon DEF Has
<1>3. Has("systemd", FirstHooks) /\ Has("keyboard", FirstHooks) /\ Has("filesystems", FirstHooks)
  <2>1. 2 \in 1..11 /\ 7 \in 1..11 /\ 10 \in 1..11
    OBVIOUS
  <2>2. QED BY <1>1, <2>1, FirstHooksFacts, Zenon DEF Has
<1>4. \A a, b : ~Has(a, FirstHooks) \/ ~Has(b, FirstHooks) => Comes(a, b, FirstHooks)
  BY DEF Has, Comes
<1>5. Comes("systemd", "filesystems", FirstHooks) /\ Comes("keyboard", "filesystems", FirstHooks)
  <2>1. ASSUME NEW i \in 1..11, NEW j \in 1..11, FirstHooks[j] = "filesystems",
               FirstHooks[i] \in {"systemd", "keyboard"}
        PROVE  i < j
    <3>1. j = 10 /\ (i = 2 \/ i = 7)
      BY <2>1, FirstHooksFacts, Zenon
    <3>2. QED BY <3>1
  <2>2. QED BY <1>1, <2>1, Zenon DEF Comes
<1>6. QED BY <1>1, <1>2, <1>3, <1>4, <1>5 DEF HooksFit, Early, Crypt

\* _prepare_encrypt() before a hook that nothing opens a disk behind.
LEMMA EncryptKeepsOrder ==
  ASSUME request.hsm \in BOOLEAN, NEW s, HooksFit(s), NEW before \in {"lvm2", "filesystems"}, Has(before, s),
         before = "filesystems" => ~Has("lvm2", s), ~Has("plymouth", s)
  PROVE  /\ HooksFit(WithEncrypt(before, s))
         /\ Has(IF request.hsm THEN "sd-encrypt" ELSE "encrypt", WithEncrypt(before, s))
         /\ Has("lvm2", WithEncrypt(before, s)) <=> Has("lvm2", s)
<1> DEFINE h == IF request.hsm THEN "sd-encrypt" ELSE "encrypt"
           t == InsertBefore(h, before, s)
<1>1. h \in Crypt /\ h \in HookNames
  <2>1. h = "encrypt" \/ h = "sd-encrypt"
    BY Zenon
  <2> HIDE DEF h
  <2>2. "encrypt" \in HookNames /\ "sd-encrypt" \in HookNames
    BY DEF HookNames
  <2>3. QED BY <2>1, <2>2, Zenon DEF Crypt
<1>2. s \in Seq(HookNames) /\ NoRepeats(s)
  BY DEF HooksFit
<1>3. WithEncrypt(before, s) = IF Has(h, s) THEN s ELSE t
  BY <1>2, HasIsContains DEF WithEncrypt
<1>4. CASE Has(h, s)
  <2> HIDE DEF t
  <2> QED BY <1>3, <1>4
<1>5. CASE ~Has(h, s)
  <2>1. /\ t \in Seq(HookNames)
        /\ NoRepeats(t)
        /\ \A g : Has(g, t) <=> Has(g, s) \/ g = h
        /\ \A a, b : a # h /\ b # h /\ Comes(a, b, s) => Comes(a, b, t)
        /\ \A a : a # h /\ a # before /\ Comes(a, before, s) => Comes(a, h, t)
        /\ \A b : b # h /\ (b = before \/ Comes(before, b, s)) => Comes(h, b, t)
    <3> HIDE DEF h
    <3> QED BY <1>1, <1>2, <1>5, InsertionBefore
  <2> HIDE DEF t
  <2>2. ASSUME NEW a, NEW b, ~Has(a, t) \/ ~Has(b, t)
        PROVE  Comes(a, b, t)
    BY <2>2 DEF Has, Comes
  <2>3. \A a \in Early : a # h /\ a # before /\ Comes(a, before, s)
    BY DEF HooksFit, Early
  <2>4. \A a \in Early : Comes(a, h, t)
    BY <2>1, <2>3
  <2>5. Comes(h, "lvm2", t) /\ Comes(h, "filesystems", t)
    <3>1. CASE before = "lvm2"
      BY <2>1, <3>1 DEF HooksFit
    <3>2. CASE before = "filesystems"
      <4>1. ~Has("lvm2", t)
        BY <2>1, <3>2
      <4>2. QED BY <2>1, <2>2, <3>2, <4>1
    <3>3. QED BY <3>1, <3>2
  <2>6. \A g \in Crypt : g # h => ~Has(g, t)
    BY <2>1 DEF HooksFit, Crypt
  <2>7. ~Has("plymouth", t)
    BY <2>1, <1>1 DEF Crypt
  <2>8. t \in Seq(HookNames) /\ NoRepeats(t) /\ Has("filesystems", t) /\ Has("keyboard", t)
    BY <2>1 DEF HooksFit
  <2>9. /\ Has("systemd", t) <=> ~Has("udev", t)
        /\ ~(Has("sd-vconsole", t) /\ Has("keymap consolefont", t))
        /\ request.hsm => Has("systemd", t) /\ ~Has("encrypt", t)
        /\ ~request.hsm => ~Has("sd-encrypt", t)
        /\ Has("lvm2", t) <=> Has("lvm2", s)
    BY <2>1, <1>1 DEF HooksFit, Crypt
  <2>10. ASSUME NEW a, NEW b, a # h, b # h, Comes(a, b, s)
         PROVE  Comes(a, b, t)
    BY <2>1, <2>10
  <2>11. /\ \A a \in Early, b \in {"lvm2", "filesystems"} : Comes(a, b, t)
         /\ Comes("lvm2", "filesystems", t)
    <3>1. h \notin Early \cup {"lvm2", "filesystems"}
      BY <1>1 DEF Crypt, Early
    <3>2. QED BY <3>1, <2>10 DEF HooksFit
  <2>12. \A b \in Crypt : b # h => \A a : Comes(a, b, t) /\ Comes(b, a, t)
    BY <2>2, <2>6
  <2>13. HooksFit(t)
    <3>1. \A a \in Early, b \in Crypt : Comes(a, b, t)
      BY <2>4, <2>12
    <3>2. \A a \in Crypt, b \in {"lvm2", "filesystems"} : Comes(a, b, t)
      BY <2>5, <2>12
    <3>3. \A a : Comes(a, "plymouth", t) /\ Comes("plymouth", a, t)
      BY <2>2, <2>7
    <3>4. QED BY <2>8, <2>9, <2>11, <3>1, <3>2, <3>3 DEF HooksFit
  <2>14. Has(h, t)
    BY <2>1
  <2>15. QED BY <1>3, <1>5, <2>9, <2>13, <2>14
<1>6. QED BY <1>4, <1>5

CryptHook == IF request.hsm THEN "sd-encrypt" ELSE "encrypt"

\* The hooks open the root.
HooksOpen(s) ==
  /\ request.lvm => Has("lvm2", s)
  /\ RootEncrypted => Has(CryptHook, s)

\* mkinitcpio() renames hooks in their places.
LEMMA RenamingKeepsOrder ==
  ASSUME request.hsm \in BOOLEAN, NEW s, HooksFit(s)
  PROVE  /\ HooksFit(WithoutSystemd(s))
         /\ IF request.hsm THEN Has("systemd", WithoutSystemd(s)) ELSE Has("udev", WithoutSystemd(s))
         /\ HooksOpen(s) => HooksOpen(WithoutSystemd(s))
<1>1. CASE request.hsm
  <2>1. WithoutSystemd(s) = s
    BY <1>1 DEF WithoutSystemd
  <2>2. QED BY <1>1, <2>1 DEF HooksFit
<1>2. CASE ~request.hsm
  <2> DEFINE t == WithoutSystemd(s)
  <2>1. t = [i \in DOMAIN s |-> CASE s[i] = "systemd"     -> "udev"
                                  [] s[i] = "sd-vconsole" -> "keymap consolefont"
                                  [] OTHER                -> s[i]]
    BY <1>2, Zenon DEF WithoutSystemd
  <2> HIDE DEF t
  <2>2. s \in Seq(HookNames) /\ NoRepeats(s) /\ DOMAIN s = 1..Len(s) /\ Len(s) \in Nat
    BY LenProperties DEF HooksFit
  <2>3. DOMAIN t = DOMAIN s
    BY <2>1
  <2>4. ASSUME NEW i \in DOMAIN s
        PROVE  t[i] \in HookNames
    <3>1. s[i] \in HookNames
      BY <2>2
    <3>2. "udev" \in HookNames /\ "keymap consolefont" \in HookNames
      BY DEF HookNames
    <3>3. t[i] = CASE s[i] = "systemd"     -> "udev"
                   [] s[i] = "sd-vconsole" -> "keymap consolefont"
                   [] OTHER                -> s[i]
      BY <2>1
    <3>4. QED BY <3>1, <3>2, <3>3
  <2>5. t \in Seq(HookNames)
    <3>1. \A i \in 1..Len(s) : t[i] \in HookNames
      BY <2>2, <2>4
    <3>2. t = [i \in 1..Len(s) |-> t[i]]
      BY <2>1, <2>2
    <3>3. QED BY <2>2, <3>1, <3>2
  <2>6. ASSUME NEW i \in DOMAIN s
        PROVE  /\ s[i] = "systemd" => t[i] = "udev"
               /\ s[i] = "sd-vconsole" => t[i] = "keymap consolefont"
               /\ s[i] \notin {"systemd", "sd-vconsole"} => t[i] = s[i]
    BY <2>1
  <2>7. \A i \in DOMAIN s : t[i] \notin {"systemd", "sd-vconsole"}
    BY <2>6
  <2>8. ASSUME NEW h, h \notin {"systemd", "sd-vconsole", "udev", "keymap consolefont"}
        PROVE  \A i \in DOMAIN s : t[i] = h <=> s[i] = h
    BY <2>6, <2>8
  <2>9. /\ \A i \in DOMAIN s : t[i] = "udev" <=> s[i] = "udev" \/ s[i] = "systemd"
        /\ \A i \in DOMAIN s : t[i] = "keymap consolefont" <=> s[i] = "keymap consolefont" \/ s[i] = "sd-vconsole"
    BY <2>6
  <2>10. Has("systemd", s) <=> ~Has("udev", s)
    BY DEF HooksFit
  <2>11. ~(Has("sd-vconsole", s) /\ Has("keymap consolefont", s))
    BY DEF HooksFit
  <2>12. ASSUME NEW i \in DOMAIN s, NEW j \in DOMAIN s, t[i] = t[j]
         PROVE  i = j
    <3>1. s[i] = s[j]
      <4>1. CASE t[i] = "udev"
        BY <2>9, <2>10, <2>12, <4>1 DEF Has
      <4>2. CASE t[i] = "keymap consolefont"
        BY <2>9, <2>11, <2>12, <4>2 DEF Has
      <4>3. CASE t[i] \notin {"udev", "keymap consolefont"}
        BY <2>6, <2>12, <4>3
      <4>4. QED BY <4>1, <4>2, <4>3
    <3>2. QED BY <2>2, <3>1 DEF NoRepeats
  <2>13. NoRepeats(t)
    BY <2>3, <2>12 DEF NoRepeats
  <2>14. ASSUME NEW h, h \notin {"systemd", "sd-vconsole", "udev", "keymap consolefont"}
         PROVE  Has(h, t) <=> Has(h, s)
    BY <2>3, <2>8, <2>14 DEF Has
  <2>15. Has("udev", t) /\ ~Has("systemd", t) /\ ~Has("sd-vconsole", t)
    BY <2>3, <2>7, <2>9, <2>10 DEF Has
  <2>16. ASSUME NEW a, NEW b, {a, b} \cap {"systemd", "sd-vconsole", "udev", "keymap consolefont"} = {},
                Comes(a, b, s)
         PROVE  Comes(a, b, t)
    BY <2>3, <2>8, <2>16 DEF Comes
  <2>17. ASSUME NEW b, b \notin {"systemd", "sd-vconsole", "udev", "keymap consolefont"},
                Comes("udev", b, s), Comes("systemd", b, s)
         PROVE  Comes("udev", b, t) /\ Comes("systemd", b, t)
    <3>1. \A i \in DOMAIN s : t[i] = b <=> s[i] = b
      BY <2>8, <2>17
    <3>2. QED BY <2>3, <2>7, <2>9, <2>17, <3>1 DEF Comes
  <2>18. \A a \in Early, b \in Crypt \cup {"lvm2", "filesystems"} : Comes(a, b, t)
    <3>1. ASSUME NEW b \in Crypt \cup {"lvm2", "filesystems"}
          PROVE  /\ b \notin {"systemd", "sd-vconsole", "udev", "keymap consolefont"}
                 /\ Comes("udev", b, s) /\ Comes("systemd", b, s) /\ Comes("keyboard", b, s)
      BY DEF HooksFit, Early, Crypt
    <3>2. ASSUME NEW b \in Crypt \cup {"lvm2", "filesystems"}
          PROVE  Comes("udev", b, t) /\ Comes("systemd", b, t) /\ Comes("keyboard", b, t)
      BY <2>16, <2>17, <3>1
    <3>3. QED BY <3>2 DEF Early
  <2>19. /\ \A a \in Crypt, b \in {"lvm2", "filesystems"} : Comes(a, b, t)
         /\ Comes("lvm2", "filesystems", t)
         /\ \A b \in Crypt : Comes("plymouth", b, t)
    BY <2>16 DEF HooksFit, Crypt
  <2>20. \A a \in {"systemd", "udev"} : Comes(a, "plymouth", t)
    BY <2>17 DEF HooksFit
  <2>21. /\ Has("filesystems", t) /\ Has("keyboard", t) /\ ~Has("sd-encrypt", t)
    BY <1>2, <2>14 DEF HooksFit
  <2>22. HooksFit(t)
    BY <1>2, <2>5, <2>13, <2>15, <2>18, <2>19, <2>20, <2>21 DEF HooksFit
  <2>23. HooksOpen(s) => HooksOpen(t)
    <3>1. CryptHook \notin {"systemd", "sd-vconsole", "udev", "keymap consolefont"}
      BY <1>2 DEF CryptHook
    <3>2. QED BY <2>14, <3>1 DEF HooksOpen
  <2>24. QED BY <1>2, <2>15, <2>22, <2>23 DEF t
<1>3. QED BY <1>1, <1>2

\* Only the hooks that a splash screen may stand beside are looked for.
LEMMA PlymouthPlace ==
  ASSUME NEW s, HooksFit(s)
  PROVE  LET there == {i \in DOMAIN PlymouthPlaces : Contains(s, PlymouthPlaces[i])}
             first == PlymouthPlaces[CHOOSE i \in there : \A j \in there : i <= j]
         IN  /\ there # {}
             /\ first \in {"encrypt", "sd-encrypt", "systemd", "filesystems"} /\ Has(first, s)
             /\ first = "filesystems" => ~Has("systemd", s)
             /\ first \notin Crypt => ~Has("encrypt", s) /\ ~Has("sd-encrypt", s)
<1> DEFINE there == {i \in DOMAIN PlymouthPlaces : Contains(s, PlymouthPlaces[i])}
           m == CHOOSE i \in there : \A j \in there : i <= j
<1>1. /\ DOMAIN PlymouthPlaces = 1..5
      /\ PlymouthPlaces[1] = "encrypt" /\ PlymouthPlaces[2] = "sd-encrypt"
      /\ PlymouthPlaces[3] = "systemd" /\ PlymouthPlaces[4] = "filesystems"
  BY DEF PlymouthPlaces
<1>2. s \in Seq(HookNames) /\ Has("filesystems", s)
  BY DEF HooksFit
<1>3. \A h : Contains(s, h) <=> Has(h, s)
  BY <1>2, HasIsContains
<1>4. there \subseteq 1..5
  BY <1>1
<1>5. /\ 1 \in there <=> Has("encrypt", s)
      /\ 2 \in there <=> Has("sd-encrypt", s)
      /\ 3 \in there <=> Has("systemd", s)
      /\ 4 \in there
  BY <1>1, <1>2, <1>3
<1> HIDE DEF there
<1>6. \E i \in there : \A j \in there : i <= j
  <2>1. CASE 1 \in there
    BY <1>4, <2>1
  <2>2. CASE 1 \notin there /\ 2 \in there
    BY <1>4, <2>2
  <2>3. CASE 1 \notin there /\ 2 \notin there /\ 3 \in there
    BY <1>4, <2>3
  <2>4. CASE 1 \notin there /\ 2 \notin there /\ 3 \notin there
    BY <1>4, <1>5, <2>4
  <2>5. QED BY <2>1, <2>2, <2>3, <2>4
<1>7. m \in there /\ \A j \in there : m <= j
  BY <1>6, Zenon
<1> HIDE DEF m
<1>8. m \in 1..4
  BY <1>4, <1>5, <1>7
<1>9. /\ PlymouthPlaces[m] \in {"encrypt", "sd-encrypt", "systemd", "filesystems"}
      /\ PlymouthPlaces[m] = "filesystems" => m = 4
      /\ PlymouthPlaces[m] \notin Crypt => m \in {3, 4}
  <2>1. m = 1 \/ m = 2 \/ m = 3 \/ m = 4
    BY <1>8
  <2>2. QED BY <1>1, <2>1 DEF Crypt
<1>10. Has(PlymouthPlaces[m], s)
  BY <1>3, <1>7 DEF there
<1>11. PlymouthPlaces[m] = "filesystems" => ~Has("systemd", s)
  <2>1. m = 4 => 3 \notin there
    BY <1>7
  <2>2. QED BY <1>5, <1>9, <2>1
<1>12. PlymouthPlaces[m] \notin Crypt => ~Has("encrypt", s) /\ ~Has("sd-encrypt", s)
  <2>1. m \in {3, 4} => 1 \notin there /\ 2 \notin there
    BY <1>7
  <2>2. QED BY <1>5, <1>9, <2>1
<1>13. there # {}
  BY <1>7
<1>14. QED BY <1>9, <1>10, <1>11, <1>12, <1>13, Zenon DEF there, m

\* A splash screen between what starts the others and what opens a disk.
LEMMA PlymouthFits ==
  ASSUME NEW s, HooksFit(s), NEW t \in Seq(HookNames), NoRepeats(t),
         \A h : Has(h, t) <=> Has(h, s) \/ h = "plymouth",
         \A a, b : a # "plymouth" /\ b # "plymouth" /\ Comes(a, b, s) => Comes(a, b, t),
         \A a \in {"systemd", "udev"} : Comes(a, "plymouth", t),
         \A b \in Crypt : Comes("plymouth", b, t)
  PROVE  HooksFit(t) /\ (HooksOpen(s) => HooksOpen(t))
<1>1. /\ \A a \in Early, b \in Crypt \cup {"lvm2", "filesystems"} : Comes(a, b, t)
      /\ \A a \in Crypt, b \in {"lvm2", "filesystems"} : Comes(a, b, t)
      /\ Comes("lvm2", "filesystems", t)
  <2>1. "plymouth" \notin Early \cup Crypt \cup {"lvm2", "filesystems"}
    BY DEF Early, Crypt
  <2>2. /\ \A a \in Early, b \in Crypt \cup {"lvm2", "filesystems"} : Comes(a, b, s)
        /\ \A a \in Crypt, b \in {"lvm2", "filesystems"} : Comes(a, b, s)
        /\ Comes("lvm2", "filesystems", s)
    BY DEF HooksFit
  <2>3. QED BY <2>1, <2>2
<1>2. /\ Has("filesystems", t) /\ Has("keyboard", t)
      /\ Has("systemd", t) <=> ~Has("udev", t)
      /\ ~(Has("sd-vconsole", t) /\ Has("keymap consolefont", t))
      /\ request.hsm => Has("systemd", t) /\ ~Has("encrypt", t)
      /\ ~request.hsm => ~Has("sd-encrypt", t)
  BY DEF HooksFit
<1>3. HooksFit(t)
  BY <1>1, <1>2 DEF HooksFit
<1>4. QED BY <1>3 DEF HooksOpen

\* _install_plymouth()
LEMMA PlymouthKeepsOrder ==
  ASSUME request.hsm \in BOOLEAN, NEW s, HooksFit(s)
  PROVE  HooksFit(WithPlymouth(s)) /\ (HooksOpen(s) => HooksOpen(WithPlymouth(s)))
<1>1. s \in Seq(HookNames) /\ NoRepeats(s)
  BY DEF HooksFit
<1>2. \A h : Contains(s, h) <=> Has(h, s)
  BY <1>1, HasIsContains
<1> DEFINE there == {i \in DOMAIN PlymouthPlaces : Contains(s, PlymouthPlaces[i])}
           first == PlymouthPlaces[CHOOSE i \in there : \A j \in there : i <= j]
<1>3. /\ there # {}
      /\ first \in {"encrypt", "sd-encrypt", "systemd", "filesystems"} /\ Has(first, s)
      /\ first = "filesystems" => ~Has("systemd", s)
      /\ first \notin Crypt => ~Has("encrypt", s) /\ ~Has("sd-encrypt", s)
  BY PlymouthPlace
<1>4. WithPlymouth(s) = IF Contains(s, "plymouth") THEN s
                        ELSE IF there = {} THEN Append(s, "plymouth")
                        ELSE IF first \in {"systemd", "keyboard"} THEN InsertBehind("plymouth", first, s)
                        ELSE InsertBefore("plymouth", first, s)
  BY DEF WithPlymouth
<1> HIDE DEF there, first
<1>5. "plymouth" \in HookNames
  BY DEF HookNames
<1>6. CASE Has("plymouth", s)
  <2>1. WithPlymouth(s) = s
    BY <1>2, <1>4, <1>6
  <2>2. QED BY <2>1
<1>7. CASE ~Has("plymouth", s) /\ first = "systemd"
  <2> DEFINE t == InsertBehind("plymouth", "systemd", s)
  <2>1. /\ t \in Seq(HookNames)
        /\ NoRepeats(t)
        /\ \A g : Has(g, t) <=> Has(g, s) \/ g = "plymouth"
        /\ \A a, b : a # "plymouth" /\ b # "plymouth" /\ Comes(a, b, s) => Comes(a, b, t)
        /\ \A a : a # "plymouth" /\ (a = "systemd" \/ Comes(a, "systemd", s)) => Comes(a, "plymouth", t)
    BY <1>1, <1>3, <1>5, <1>7, InsertionBehind
  <2>2. WithPlymouth(s) = t
    BY <1>2, <1>3, <1>4, <1>7
  <2> HIDE DEF t
  <2>3. ASSUME NEW a, NEW b, ~Has(a, t) \/ ~Has(b, t)
        PROVE  Comes(a, b, t)
    BY <2>3 DEF Has, Comes
  <2>4. Comes("systemd", "plymouth", t)
    BY <2>1
  <2>5. ~Has("udev", t) /\ ~Has("encrypt", t) /\ ~Has("sd-encrypt", t)
    BY <1>3, <1>7, <2>1 DEF HooksFit, Crypt
  <2>6. /\ \A a \in {"systemd", "udev"} : Comes(a, "plymouth", t)
        /\ \A b \in Crypt : Comes("plymouth", b, t)
    BY <2>3, <2>4, <2>5 DEF Crypt
  <2>7. QED BY <2>1, <2>2, <2>6, PlymouthFits
<1>8. CASE ~Has("plymouth", s) /\ first # "systemd"
  <2> DEFINE t == InsertBefore("plymouth", first, s)
  <2>1. /\ t \in Seq(HookNames)
        /\ NoRepeats(t)
        /\ \A g : Has(g, t) <=> Has(g, s) \/ g = "plymouth"
        /\ \A a, b : a # "plymouth" /\ b # "plymouth" /\ Comes(a, b, s) => Comes(a, b, t)
        /\ \A a : a # "plymouth" /\ a # first /\ Comes(a, first, s) => Comes(a, "plymouth", t)
        /\ \A b : b # "plymouth" /\ (b = first \/ Comes(first, b, s)) => Comes("plymouth", b, t)
    BY <1>1, <1>3, <1>5, <1>8, InsertionBefore
  <2>2. WithPlymouth(s) = t
    BY <1>2, <1>3, <1>4, <1>8
  <2> HIDE DEF t
  <2>3. ASSUME NEW a, NEW b, ~Has(a, t) \/ ~Has(b, t)
        PROVE  Comes(a, b, t)
    BY <2>3 DEF Has, Comes
  <2>4. first \in Crypt \cup {"filesystems"}
    BY <1>3, <1>8 DEF Crypt
  <2>5. \A a \in {"systemd", "udev"} : Comes(a, "plymouth", t)
    <3>1. \A a \in {"systemd", "udev"} : Comes(a, first, s)
      BY <2>4 DEF HooksFit, Early
    <3>2. first \notin {"systemd", "udev"}
      BY <2>4 DEF Crypt
    <3>3. QED BY <2>1, <3>1, <3>2
  <2>6. ASSUME NEW b \in Crypt
        PROVE  Comes("plymouth", b, t)
    <3>1. CASE b = first
      BY <2>1, <3>1, <2>6 DEF Crypt
    <3>2. CASE b # first
      <4>1. ~Has(b, s)
        <5>1. CASE first \in Crypt
          <6>1. Has(first, s) /\ first \in {"encrypt", "sd-encrypt"} /\ b \in {"encrypt", "sd-encrypt"}
            BY <1>3, <5>1, <2>6 DEF Crypt
          <6>2. ~Has("encrypt", s) \/ ~Has("sd-encrypt", s)
            BY DEF HooksFit
          <6>3. QED BY <3>2, <6>1, <6>2
        <5>2. CASE first \notin Crypt
          BY <1>3, <5>2, <2>6 DEF Crypt
        <5>3. QED BY <5>1, <5>2
      <4>2. ~Has(b, t)
        BY <2>1, <4>1, <2>6 DEF Crypt
      <4>3. QED BY <2>3, <4>2
    <3>3. QED BY <3>1, <3>2
  <2>7. QED BY <2>1, <2>2, <2>5, <2>6, PlymouthFits
<1>9. QED BY <1>6, <1>7, <1>8

LEMMA FirstHooksDomain == DOMAIN FirstHooks = 1..11
<1>1. FirstHooks \in Seq(HookNames)
  BY FirstHooksFacts, Zenon
<1>2. Len(FirstHooks) = 11
  BY FirstHooksFacts, Zenon
<1>3. DOMAIN FirstHooks = 1..Len(FirstHooks)
  BY <1>1, LenProperties, Zenon
<1>4. QED BY <1>2, <1>3

\* What minimal_installation() makes of them for volumes: lvm2 before the hook that
\* mounts.
FirstLvmHooks == InsertAt(FirstHooks, Position("filesystems", FirstHooks) - 1, "lvm2")

LEMMA FirstLvmHooksFit ==
  HooksFit(FirstLvmHooks) /\ Has("lvm2", FirstLvmHooks) /\ ~Has("plymouth", FirstLvmHooks)
<1>1. /\ HooksFit(FirstHooks)
      /\ \A h \in Crypt \cup {"udev", "lvm2", "plymouth", "keymap consolefont"} : ~Has(h, FirstHooks)
  <2>1. DOMAIN FirstHooks = 1..11
    BY FirstHooksDomain
  <2>2. QED BY <2>1, FirstHooksFit, FirstHooksFacts, Zenon DEF Has
<1>2. FirstHooks \in Seq(HookNames) /\ NoRepeats(FirstHooks) /\ Has("filesystems", FirstHooks)
  BY <1>1 DEF HooksFit
<1>3. Position("filesystems", FirstHooks) = 10
  <2>1. /\ Position("filesystems", FirstHooks) \in 1..Len(FirstHooks)
        /\ FirstHooks[Position("filesystems", FirstHooks)] = "filesystems"
    BY <1>2, PositionFacts
  <2>2. Len(FirstHooks) = 11
    BY FirstHooksFacts, Zenon
  <2>3. Position("filesystems", FirstHooks) \in 1..11
    BY <2>1, <2>2
  <2>4. QED BY <2>1, <2>3, FirstHooksFacts, Zenon
<1> DEFINE t == InsertAt(FirstHooks, 9, "lvm2")
<1>4. FirstLvmHooks = t
  BY <1>3 DEF FirstLvmHooks
<1>5. /\ "lvm2" \in HookNames /\ ~Has("lvm2", FirstHooks) /\ 9 \in 1..(Len(FirstHooks) + 1)
  <2>1. Len(FirstHooks) = 11
    BY FirstHooksFacts, Zenon
  <2>2. "lvm2" \in HookNames
    BY DEF HookNames
  <2>3. 9 \in 1..(Len(FirstHooks) + 1)
    BY <2>1
  <2>4. QED BY <1>1, <2>2, <2>3, Zenon
<1>6. /\ t \in Seq(HookNames)
      /\ NoRepeats(t)
      /\ \A h : Has(h, t) <=> Has(h, FirstHooks) \/ h = "lvm2"
      /\ \A a, b : a # "lvm2" /\ b # "lvm2" /\ Comes(a, b, FirstHooks) => Comes(a, b, t)
      /\ \A a : a # "lvm2" /\ (\A i \in DOMAIN FirstHooks : FirstHooks[i] = a => i < 9) => Comes(a, "lvm2", t)
      /\ \A b : b # "lvm2" /\ (\A i \in DOMAIN FirstHooks : FirstHooks[i] = b => i >= 9) => Comes("lvm2", b, t)
  BY <1>2, <1>5, Insertion
<1> HIDE DEF t
<1>7. /\ \A i \in DOMAIN FirstHooks : FirstHooks[i] = "filesystems" => i >= 9
      /\ \A a \in Early, i \in DOMAIN FirstHooks : FirstHooks[i] = a => i < 9
  <2>1. DOMAIN FirstHooks = 1..11
    BY FirstHooksDomain
  <2>2. \A i \in 1..11 : FirstHooks[i] = "filesystems" => i = 10
    BY FirstHooksFacts, Zenon
  <2>3. \A i \in 1..11 : FirstHooks[i] = "systemd" => i = 2
    BY FirstHooksFacts, Zenon
  <2>4. \A i \in 1..11 : FirstHooks[i] = "keyboard" => i = 7
    BY FirstHooksFacts, Zenon
  <2>5. \A i \in 1..11 : FirstHooks[i] # "udev"
    BY <1>1, <2>1, Zenon DEF Has
  <2>6. QED BY <2>1, <2>2, <2>3, <2>4, <2>5 DEF Early
<1>8. /\ \A a \in Early : Comes(a, "lvm2", t)
      /\ Comes("lvm2", "filesystems", t)
  BY <1>6, <1>7 DEF Early
<1>9. ASSUME NEW a, NEW b, ~Has(a, t) \/ ~Has(b, t)
      PROVE  Comes(a, b, t)
  BY <1>9 DEF Has, Comes
<1>10. \A h \in Crypt \cup {"udev", "plymouth", "keymap consolefont"} : ~Has(h, t)
  BY <1>1, <1>6 DEF Crypt
<1>11. \A a \in Early : Comes(a, "filesystems", t)
  BY <1>1, <1>6 DEF HooksFit, Early
<1>12. /\ Has("filesystems", t) /\ Has("keyboard", t) /\ Has("systemd", t) /\ Has("lvm2", t)
  BY <1>1, <1>6, <1>10 DEF HooksFit
<1>13. HooksFit(t)
  <2>1. ~Has("encrypt", t) /\ ~Has("sd-encrypt", t) /\ ~Has("udev", t) /\ ~Has("plymouth", t) /\ ~Has("keymap consolefont", t)
    BY <1>10 DEF Crypt
  <2>2. \A b : \A a \in Crypt : Comes(a, b, t) /\ Comes(b, a, t)
    BY <1>9, <1>10
  <2>3. \A a : Comes(a, "plymouth", t)
    BY <1>9, <2>1
  <2>4. \A a \in Early, b \in Crypt \cup {"lvm2", "filesystems"} : Comes(a, b, t)
    BY <2>2, <1>8, <1>11
  <2>5. QED BY <1>6, <1>8, <1>12, <2>1, <2>2, <2>3, <2>4 DEF HooksFit
<1>14. QED BY <1>4, <1>10, <1>12, <1>13

-----------------------------------------------------------------------------
(* The layout *)

LEMMA FirstOfFacts ==
  ASSUME NEW found \in SUBSET Nat
  PROVE  IF found = {} THEN FirstOf(found) = None ELSE FirstOf(found) \in found
<1>1. CASE found = {}
  BY <1>1 DEF FirstOf
<1>2. CASE found # {}
  <2>1. PICK m \in found : \A k \in found : ~(<<k, m>> \in OpToRel(<, Nat))
    BY <1>2, NatLessThanWellFounded, WFMin, Zenon
  <2>2. \A k \in found : ~(k < m)
    BY <2>1, Zenon DEF OpToRel
  <2>3. \E i \in found : \A j \in found : i <= j
    BY <2>2
  <2>4. QED BY <1>2, <2>3, Zenon DEF FirstOf
<1>3. QED BY <1>1, <1>2

LEMMA RequestTypes ==
  ASSUME NEW r \in Requests
  PROVE  /\ r.loader \in Loaders /\ r.parts \in Seq(Partition) /\ DOMAIN r.parts \subseteq Nat
         /\ r.hsm \in BOOLEAN /\ r.lvm \in BOOLEAN /\ r.zram \in BOOLEAN
         /\ \A i \in DOMAIN r.parts : r.parts[i].at = "/" => r.parts[i].fs # "none"
<1>1. {r.uefi, r.plugin, r.uki, r.removable, r.plymouth, r.zram, r.snapshots, r.lvm, r.hsm, r.subvolumes} \subseteq BOOLEAN
  BY BootAssumption
<1>2. /\ r.loader \in Loaders /\ r.parts \in Seq(Partition)
      /\ \A i \in DOMAIN r.parts : r.parts[i].at = "/" => r.parts[i].fs # "none"
  BY BootAssumption
<1>3. DOMAIN r.parts = 1..Len(r.parts)
  BY <1>2, LenProperties
<1>4. QED BY <1>1, <1>2, <1>3

\* A partition that was looked up by its flag or its mount point has it.
LEMMA LookedUp ==
  ASSUME request \in Requests
  PROVE  /\ RootPartition # None => RootPartition \in Numbers /\ At(RootPartition) = "/"
         /\ OwnBoot # None => OwnBoot \in Numbers /\ At(OwnBoot) = "/boot"
         /\ EfiPartition # None => EfiPartition \in Numbers
         /\ OwnBoot = None => \A i \in Numbers : At(i) # "/boot"
<1>1. Numbers \subseteq Nat
  BY RequestTypes DEF Numbers
<1>2. /\ {i \in Numbers : request.parts[i].esp /\ At(i) # "none"} \in SUBSET Nat
      /\ {i \in Numbers : At(i) = "/"} \in SUBSET Nat
      /\ {i \in Numbers : At(i) = "/boot"} \in SUBSET Nat
  BY <1>1
<1>3. RootPartition # None => RootPartition \in {i \in Numbers : At(i) = "/"}
  BY <1>2, FirstOfFacts, Zenon DEF RootPartition
<1>4. OwnBoot # None => OwnBoot \in {i \in Numbers : At(i) = "/boot"}
  BY <1>2, FirstOfFacts, Zenon DEF OwnBoot
<1>5. EfiPartition # None => EfiPartition \in {i \in Numbers : request.parts[i].esp /\ At(i) # "none"}
  BY <1>2, FirstOfFacts, Zenon DEF EfiPartition
<1>6. OwnBoot = None => {i \in Numbers : At(i) = "/boot"} = {}
  <2>1. None \notin Numbers
    BY <1>1, NoneAssumption
  <2>2. QED BY <1>2, <2>1, FirstOfFacts, Zenon DEF OwnBoot
<1>7. QED BY <1>3, <1>4, <1>5, <1>6

-----------------------------------------------------------------------------
(* The hooks from step to step *)

HooksInv ==
  /\ request \in Requests
  /\ pc = "prepare" => hooks = FirstHooks
  /\ HooksFit(hooks)
  /\ pc # "prepare" => HooksOpen(hooks)

\* minimal_installation() adds what its root needs.
LEMMA PrepareOpens ==
  ASSUME request \in Requests, hooks = FirstHooks, Prepare
  PROVE  HooksFit(hooks') /\ HooksOpen(hooks')
<1>1. request.hsm \in BOOLEAN /\ request.lvm \in BOOLEAN
  BY RequestTypes
<1>2. CASE request.lvm
  <2>1. hooks' = IF request.encryption \in {"LVM_ON_LUKS", "LUKS_ON_LVM"}
                 THEN WithEncrypt("lvm2", FirstLvmHooks) ELSE FirstLvmHooks
    BY <1>2 DEF Prepare, FirstLvmHooks
  <2>2. HooksFit(FirstLvmHooks) /\ Has("lvm2", FirstLvmHooks) /\ ~Has("plymouth", FirstLvmHooks)
    BY FirstLvmHooksFit
  <2>3. CASE request.encryption \in {"LVM_ON_LUKS", "LUKS_ON_LVM"}
    <3>1. /\ HooksFit(WithEncrypt("lvm2", FirstLvmHooks))
          /\ Has(CryptHook, WithEncrypt("lvm2", FirstLvmHooks))
          /\ Has("lvm2", WithEncrypt("lvm2", FirstLvmHooks))
      BY <1>1, <2>2, EncryptKeepsOrder DEF CryptHook
    <3>2. QED BY <2>1, <2>3, <3>1 DEF HooksOpen
  <2>4. CASE request.encryption \notin {"LVM_ON_LUKS", "LUKS_ON_LVM"}
    <3>1. ~RootEncrypted
      BY <1>2, <2>4 DEF RootEncrypted
    <3>2. QED BY <2>1, <2>2, <2>4, <3>1 DEF HooksOpen
  <2>5. QED BY <2>3, <2>4
<1>3. CASE ~request.lvm
  <2> DEFINE encrypted == \E i \in DOMAIN request.parts : request.parts[i].luks /\ request.parts[i].fs # "none"
  <2>1. hooks' = IF encrypted THEN WithEncrypt("filesystems", FirstHooks) ELSE FirstHooks
    BY <1>3 DEF Prepare
  <2>2. RootEncrypted => encrypted
    BY <1>3, LookedUp, RequestTypes DEF RootEncrypted, Numbers, At
  <2> HIDE DEF encrypted
  <2>3. HooksFit(FirstHooks) /\ ~Has("plymouth", FirstHooks) /\ ~Has("lvm2", FirstHooks)
    <3>1. DOMAIN FirstHooks = 1..11
      BY FirstHooksDomain
    <3>2. QED BY <3>1, FirstHooksFit, FirstHooksFacts, Zenon DEF Has
  <2>4. CASE encrypted
    <3>1. Has("filesystems", FirstHooks)
      BY <2>3 DEF HooksFit
    <3>2. /\ HooksFit(WithEncrypt("filesystems", FirstHooks))
          /\ Has(CryptHook, WithEncrypt("filesystems", FirstHooks))
      BY <1>1, <2>3, <3>1, EncryptKeepsOrder DEF CryptHook
    <3>3. QED BY <1>3, <2>1, <2>4, <3>2 DEF HooksOpen
  <2>5. CASE ~encrypted
    BY <1>3, <2>1, <2>2, <2>3, <2>5 DEF HooksOpen
  <2>6. QED BY <2>4, <2>5
<1>4. QED BY <1>1, <1>2, <1>3

\* Each list is the one before it, with hooks renamed or the splash screen added.
LEMMA HooksStep ==
  ASSUME Next, ~Prepare
  PROVE  /\ request' = request
         /\ hooks' \in {hooks, WithoutSystemd(hooks), WithoutSystemd(WithPlymouth(hooks))}
         /\ pc # "prepare" /\ pc' # "prepare"
<1>1. Fails \/ BaseImage => /\ request' = request /\ pc' # "prepare"
                            /\ hooks' \in {hooks, WithoutSystemd(hooks)}
  BY DEF Fails, BaseImage, Mkinitcpio
<1>2. BaseImage \/ SetupSwap \/ Add \/ InstallPlymouth \/ ConfigUki \/ LoaderFails \/ Exit =>
        pc # "prepare"
  BY DEF BaseImage, SetupSwap, Add, InstallPlymouth, ConfigUki, LoaderFails, AtLoader, Exit
<1>3. SetupSwap => request' = request /\ pc' # "prepare" /\ hooks' = hooks
  BY DEF SetupSwap, Strap, Fails
<1>4. Add \/ Exit => request' = request /\ pc' # "prepare" /\ hooks' = hooks
  BY DEF Add, Exit
<1>5. InstallPlymouth => /\ request' = request /\ pc' # "prepare"
                         /\ hooks' = hooks \/ hooks' = WithoutSystemd(WithPlymouth(hooks))
  BY DEF InstallPlymouth, Strap, Fails, Mkinitcpio
<1>6. ConfigUki => /\ request' = request /\ pc' # "prepare"
                   /\ hooks' = hooks \/ hooks' = WithoutSystemd(hooks)
  BY DEF ConfigUki, Fails
<1>7. LoaderFails => Fails
  BY DEF LoaderFails
<1>8. AddSystemd \/ AddGrub \/ AddLimine \/ AddEfistub \/ AddRefind =>
        pc = "loader" /\ \E e : Installs(e)
  BY Zenon DEF AddSystemd, AddGrub, AddLimine, AddEfistub, AddRefind, AtLoader
<1>9. (\E e : Installs(e)) => request' = request /\ pc' # "prepare" /\ hooks' = hooks
  BY DEF Installs
<1>10. EfistubStops => request' = request /\ pc' # "prepare" /\ hooks' = hooks /\ pc = "loader"
  BY DEF EfistubStops, AtLoader
<1>11. QED BY <1>1, <1>2, <1>3, <1>4, <1>5, <1>6, <1>7, <1>8, <1>9, <1>10 DEF Next

LEMMA HooksKept == HooksInv /\ [Next]_vars => HooksInv'
<1> SUFFICES ASSUME HooksInv, [Next]_vars PROVE HooksInv'
  OBVIOUS
<1>1. request.hsm \in BOOLEAN
  BY RequestTypes DEF HooksInv
<1>2. CASE Prepare
  <2>1. request' = request /\ pc' # "prepare" /\ hooks = FirstHooks
    BY <1>2 DEF Prepare, HooksInv
  <2>2. HooksFit(hooks') /\ HooksOpen(hooks')
    BY <1>2, <2>1, PrepareOpens DEF HooksInv
  <2>3. HooksFit(hooks)' /\ HooksOpen(hooks)'
    BY <2>1, <2>2 DEF HooksFit, HooksOpen, RootEncrypted, RootPartition, FirstOf, Numbers, At, CryptHook
  <2>4. QED BY <2>1, <2>3 DEF HooksInv
<1>3. CASE Next /\ ~Prepare
  <2>1. /\ request' = request
        /\ hooks' \in {hooks, WithoutSystemd(hooks), WithoutSystemd(WithPlymouth(hooks))}
        /\ pc # "prepare" /\ pc' # "prepare"
    BY <1>3, HooksStep
  <2>2. HooksFit(hooks) /\ HooksOpen(hooks)
    BY <2>1 DEF HooksInv
  <2>3. /\ HooksFit(WithoutSystemd(hooks)) /\ HooksOpen(WithoutSystemd(hooks))
        /\ HooksFit(WithPlymouth(hooks)) /\ HooksOpen(WithPlymouth(hooks))
    BY <1>1, <2>2, RenamingKeepsOrder, PlymouthKeepsOrder
  <2>4. HooksFit(WithoutSystemd(WithPlymouth(hooks))) /\ HooksOpen(WithoutSystemd(WithPlymouth(hooks)))
    BY <1>1, <2>3, RenamingKeepsOrder
  <2>5. HooksFit(hooks') /\ HooksOpen(hooks')
    BY <2>1, <2>2, <2>3, <2>4, Zenon
  <2>6. HooksFit(hooks)' /\ HooksOpen(hooks)'
    BY <2>1, <2>5 DEF HooksFit, HooksOpen, RootEncrypted, RootPartition, FirstOf, Numbers, At, CryptHook
  <2>7. QED BY <2>1, <2>6 DEF HooksInv
<1>4. CASE UNCHANGED vars
  <2>1. HooksFit(hooks)' /\ (HooksOpen(hooks) => HooksOpen(hooks)')
    BY <1>4 DEF vars, HooksInv, HooksFit, HooksOpen, RootEncrypted, RootPartition, FirstOf, Numbers, At, CryptHook
  <2>2. QED BY <1>4, <2>1 DEF vars, HooksInv
<1>5. QED BY <1>2, <1>3, <1>4

LEMMA HooksInit == Init => HooksInv
<1> SUFFICES ASSUME Init PROVE HooksInv
  OBVIOUS
<1>1. request \in Requests /\ pc = "prepare" /\ hooks = FirstHooks
  BY Zenon DEF Init, FirstHooks
<1>2. HooksFit(hooks)
  BY <1>1, FirstHooksFit, Zenon
<1>3. QED BY <1>1, <1>2 DEF HooksInv

\* However the five places that write the list of hooks follow one another, the keyboard
\* works before a disk is opened, a disk is opened before it is looked at for volumes
\* and file systems, the splash screen is up when a passphrase is asked for, and no hook
\* is there twice.
THEOREM HooksStayInOrder == Spec => []HooksInOrder
<1>1. HooksInv => HooksInOrder
  BY FittingHooksAreInOrder DEF HooksInv
<1>2. QED BY <1>1, HooksInit, HooksKept, PTL DEF Spec

-----------------------------------------------------------------------------
(* What the loaders are left with *)

\* The hooks of an image that starts the system it was built for.
ImageFits(h) ==
  /\ h \in Seq(HookNames) /\ HooksOpen(h)
  /\ IF request.hsm THEN Has("systemd", h) ELSE Has("udev", h)

\* Whatever was built without a report fits, and is there when a loader is installed.
ImagesInv ==
  /\ pc \in {"swap", "add", "plymouth", "uki", "loader"} /\ ~reported /\ ~request.uki =>
       \A k \in Kernels : ImageFits(classic[k])
  /\ pc = "loader" /\ ~reported /\ request.uki =>
       \A k \in Kernels : \E h : ImageFits(h) /\ unified[k] = [hooks |-> h, params |-> KernelParams(TRUE)]

\* add_bootloader() has found a root and the boot partition before it changes anything.
FoundInv ==
  /\ pc \in {"plymouth", "uki", "loader"} => BootPartition # None /\ HasRoot
  /\ pc = "loader" /\ request.uki => EfiPartition # None

HelperInv ==
  /\ pc \notin {"end", "complete", "missing steps"} => helper = None
  /\ pc = "complete" => helper # None

BootsInv ==
  pc \in {"end", "complete"} /\ helper # None /\ ~reported /\ Intended => Boots

BootInv ==
  /\ extra \in {<<>>, <<"quiet", "splash">>} /\ zswap \in BOOLEAN /\ reported \in BOOLEAN
  /\ ImagesInv
  /\ FoundInv
  /\ HelperInv
  /\ BootsInv

LEMMA RenamedFits ==
  ASSUME request.hsm \in BOOLEAN, NEW s, HooksFit(s), HooksOpen(s)
  PROVE  ImageFits(WithoutSystemd(s))
<1>1. /\ HooksFit(WithoutSystemd(s)) /\ HooksOpen(WithoutSystemd(s))
      /\ IF request.hsm THEN Has("systemd", WithoutSystemd(s)) ELSE Has("udev", WithoutSystemd(s))
  BY RenamingKeepsOrder
<1>2. QED BY <1>1 DEF ImageFits, HooksFit

\* What the boot means, with the loader as a parameter.
OpensWith(l, h, p) ==
  /\ RootEncrypted => \/ p.open = "cryptdevice" /\ Contains(h, "encrypt") /\ Contains(h, "udev")
                      \/ p.open = "rd.luks" /\ Contains(h, "sd-encrypt") /\ Contains(h, "systemd")
  /\ request.lvm => Contains(h, "lvm2")
  /\ p.root # "none" \/ l = "Grub"
  /\ request.subvolumes => p.flags = "subvol" \/ l = "Grub"

StartsWith(l, e) ==
  \/ /\ e.image = "unified"
     /\ request.uefi
     /\ e.part = EfiPartition
     /\ Fat(e.part)
     /\ unified[e.kernel] # None
     /\ OpensWith(l, unified[e.kernel].hooks, unified[e.kernel].params)
  \/ /\ e.image = "classic"
     /\ e.part = KernelPart
     /\ e.dir = KernelDir
     /\ Readable(l, e.part)
     /\ classic[e.kernel] # None
     /\ OpensWith(l, classic[e.kernel], e.params)

BootsWith(l, es) == \A k \in Kernels : \E e \in es : e.kernel = k /\ StartsWith(l, e)

LEMMA InstallsBoots ==
  ASSUME NEW es, Installs(es), BootsWith(request.loader, es)
  PROVE  Boots'
<1>1. /\ request' = request /\ classic' = classic /\ unified' = unified
      /\ entries' = es /\ installed' = request.loader
  BY DEF Installs
<1>2. /\ EfiPartition' = EfiPartition /\ KernelPart' = KernelPart /\ KernelDir' = KernelDir
      /\ RootEncrypted' <=> RootEncrypted
      /\ Kernels' = Kernels
  BY <1>1 DEF EfiPartition, KernelPart, KernelDir, OwnBoot, RootPartition, RootEncrypted, FirstOf, Numbers, At, Kernels
<1>3. \A i : Fat(i)' <=> Fat(i)
  BY <1>1 DEF Fat
<1>4. \A l, i : Readable(l, i)' <=> Readable(l, i)
  BY <1>1, <1>2, <1>3 DEF Readable
<1>5. \A h, p : RootOpens(h, p)' <=> OpensWith(request.loader, h, p)
  BY <1>1, <1>2 DEF RootOpens, OpensWith
<1>6. ASSUME NEW e, StartsWith(request.loader, e)
      PROVE  Starts(e)'
  <2>1. CASE e.image = "unified" /\ StartsWith(request.loader, e)
    BY <1>1, <1>2, <1>3, <1>5, <2>1 DEF StartsWith, Starts
  <2>2. CASE e.image # "unified" /\ StartsWith(request.loader, e)
    BY <1>1, <1>2, <1>4, <1>5, <2>2 DEF StartsWith, Starts
  <2>3. QED BY <1>6, <2>1, <2>2
<1>7. QED BY <1>1, <1>2, <1>6 DEF Boots, BootsWith

\* An image that fits opens the root that the parameters name.
LEMMA ImageOpens ==
  ASSUME request \in Requests, HasRoot, NEW h, ImageFits(h), NEW l, NEW id,
         id = TRUE \/ l = "Grub"
  PROVE  OpensWith(l, h, KernelParams(id))
<1>1. request.hsm \in BOOLEAN
  BY RequestTypes
<1>2. \A g : Contains(h, g) <=> Has(g, h)
  BY HasIsContains DEF ImageFits
<1>3. request.lvm => Contains(h, "lvm2")
  BY <1>2 DEF ImageFits, HooksOpen
<1>4. /\ KernelParams(id).open = IF request.lvm THEN LvmParams.open ELSE PartitionParams(id).open
      /\ KernelParams(id).root = IF request.lvm THEN LvmParams.root ELSE PartitionParams(id).root
      /\ KernelParams(id).flags = IF id /\ request.subvolumes THEN "subvol" ELSE "none"
  BY DEF KernelParams
<1>5. RootEncrypted => KernelParams(id).open = IF request.hsm THEN "rd.luks" ELSE "cryptdevice"
  BY <1>4 DEF RootEncrypted, LvmParams, PartitionParams
<1>6. RootEncrypted => IF request.hsm THEN Has("sd-encrypt", h) /\ Has("systemd", h)
                       ELSE Has("encrypt", h) /\ Has("udev", h)
  BY <1>1 DEF ImageFits, HooksOpen, CryptHook
<1>7. id = TRUE => KernelParams(id).root # "none"
  BY <1>4 DEF LvmParams, PartitionParams
<1>8. QED BY <1>1, <1>2, <1>3, <1>4, <1>5, <1>6, <1>7 DEF OpensWith

\* An entry that leads to the classic image of every kernel, where it is.
LEMMA ClassicBoots ==
  ASSUME HooksInv, BootInv, pc = "loader", ~reported, ~request.uki, NEW l, Readable(l, KernelPart),
         NEW id, id = TRUE \/ l = "Grub"
  PROVE  BootsWith(l, Images(KernelPart, KernelDir, "classic", id))
<1> DEFINE e(k) == Entry(KernelPart, KernelDir, "classic", k, KernelParams(id))
<1>1. ASSUME NEW k \in Kernels
      PROVE  e(k) \in Images(KernelPart, KernelDir, "classic", id) /\ e(k).kernel = k /\ StartsWith(l, e(k))
  <2>1. ImageFits(classic[k])
    BY DEF BootInv, ImagesInv
  <2>2. classic[k] # None
    BY <2>1, NoneAssumption DEF ImageFits
  <2>3. OpensWith(l, classic[k], KernelParams(id))
    BY <2>1, ImageOpens DEF BootInv, FoundInv, HooksInv
  <2>4. /\ e(k).image = "classic" /\ e(k).part = KernelPart /\ e(k).dir = KernelDir
        /\ e(k).kernel = k /\ e(k).params = KernelParams(id)
    BY DEF Entry
  <2>5. e(k) \in Images(KernelPart, KernelDir, "classic", id)
    BY DEF Images
  <2> HIDE DEF e
  <2>6. QED BY <2>2, <2>3, <2>4, <2>5 DEF StartsWith
<1> HIDE DEF e
<1>2. QED BY <1>1 DEF BootsWith

LEMMA Pair ==
  ASSUME NEW S, NEW a \in S, NEW b \in S
  PROVE  <<a, b>> \in Seq(S) /\ <<>> \in Seq(S)
OBVIOUS

LEMMA ParamsTypes ==
  ASSUME extra \in {<<>>, <<"quiet", "splash">>}, zswap \in BOOLEAN
  PROVE  KernelParams(TRUE) \in KernelParameters
<1>1. extra \in Seq({"quiet", "splash"})
  <2>1. "quiet" \in {"quiet", "splash"} /\ "splash" \in {"quiet", "splash"}
    OBVIOUS
  <2>2. <<"quiet", "splash">> \in Seq({"quiet", "splash"}) /\ <<>> \in Seq({"quiet", "splash"})
    BY <2>1, Pair, Zenon
  <2>3. extra = <<>> \/ extra = <<"quiet", "splash">>
    BY Zenon
  <2>4. QED BY <2>2, <2>3, Zenon
<1>2. LvmParams.open \in {"none", "cryptdevice", "rd.luks"} /\ LvmParams.root \in {"none", "partition", "volume", "mapper"}
  BY DEF LvmParams
<1>3. /\ PartitionParams(TRUE).open \in {"none", "cryptdevice", "rd.luks"}
      /\ PartitionParams(TRUE).root \in {"none", "partition", "volume", "mapper"}
  BY DEF PartitionParams
<1>4. QED BY <1>1, <1>2, <1>3 DEF KernelParams, KernelParameters

LEMMA ImageFields ==
  ASSUME NEW u, NEW h, NEW p, u = [hooks |-> h, params |-> p]
  PROVE  u.hooks = h /\ u.params = p
OBVIOUS

\* A unified image of every kernel, on the ESP.
LEMMA UnifiedBoots ==
  ASSUME HooksInv, BootInv, pc = "loader", ~reported, request.uki, request.uefi, Fat(EfiPartition),
         NEW l, NEW es, \A k \in Kernels : \E p : Entry(EfiPartition, "top", "unified", k, p) \in es
  PROVE  BootsWith(l, es)
<1>1. ASSUME NEW k \in Kernels
      PROVE  \E x \in es : x.kernel = k /\ StartsWith(l, x)
  <2>1. PICK h : ImageFits(h) /\ unified[k] = [hooks |-> h, params |-> KernelParams(TRUE)]
    BY DEF BootInv, ImagesInv
  <2>2. unified[k] \in UnifiedImages
    <3>1. h \in Seq(HookNames)
      BY <2>1 DEF ImageFits
    <3>2. KernelParams(TRUE) \in KernelParameters
      BY ParamsTypes DEF BootInv
    <3>3. [hooks |-> h, params |-> KernelParams(TRUE)] \in UnifiedImages
      BY <3>1, <3>2, Zenon DEF UnifiedImages
    <3>4. QED BY <2>1, <3>3, Zenon
  <2>3. unified[k] # None
    BY <2>2, NoneAssumption
  <2>4. OpensWith(l, unified[k].hooks, unified[k].params)
    <3>1. OpensWith(l, h, KernelParams(TRUE))
      BY <2>1, ImageOpens DEF BootInv, FoundInv, HooksInv
    <3>2. unified[k].hooks = h /\ unified[k].params = KernelParams(TRUE)
      BY <2>1, ImageFields
    <3>3. QED BY <3>1, <3>2, Zenon
  <2>5. PICK p : Entry(EfiPartition, "top", "unified", k, p) \in es
    OBVIOUS
  <2> DEFINE x == Entry(EfiPartition, "top", "unified", k, p)
  <2>6. x.image = "unified" /\ x.part = EfiPartition /\ x.kernel = k
    BY DEF Entry
  <2>7. x \in es
    BY <2>5
  <2> HIDE DEF x
  <2>8. QED BY <2>3, <2>4, <2>6, <2>7 DEF StartsWith
<1>2. QED BY <1>1 DEF BootsWith

\* Nothing but the request decides what is intended.
LEMMA IntendedOfTheRequest ==
  ASSUME request' = request
  PROVE  Intended' <=> Intended
<1>1. /\ EfiPartition' = EfiPartition /\ BootPartition' = BootPartition /\ KernelPart' = KernelPart
      /\ OwnBoot' = OwnBoot /\ (RootEncrypted' <=> RootEncrypted)
  BY DEF EfiPartition, BootPartition, KernelPart, OwnBoot, RootPartition, RootEncrypted, FirstOf, Numbers, At
<1>2. \A i : Fat(i)' <=> Fat(i)
  BY DEF Fat
<1>3. \A l, i : Readable(l, i)' <=> Readable(l, i)
  BY <1>1, <1>2 DEF Readable
<1>4. QED BY <1>1, <1>2, <1>3 DEF Intended

LEMMA InstallsKeepBoot ==
  ASSUME HooksInv, BootInv, pc = "loader", NEW es, Installs(es), reported' \in BOOLEAN,
         ~reported' /\ Intended => BootsWith(request.loader, es)
  PROVE  BootInv'
<1>1. /\ request' = request /\ extra' = extra /\ zswap' = zswap
      /\ helper' = request.loader /\ pc' = "end"
  BY DEF Installs
<1>2. BootsInv'
  BY <1>1, IntendedOfTheRequest, InstallsBoots DEF BootsInv
<1>3. ImagesInv' /\ FoundInv' /\ HelperInv'
  BY <1>1 DEF ImagesInv, FoundInv, HelperInv
<1>4. QED BY <1>1, <1>2, <1>3 DEF BootInv

-----------------------------------------------------------------------------
(* Each loader finds the images *)

\* One image of every kernel, unified or not, written without a report.
LEMMA LoaderKeepsBoot ==
  ASSUME HooksInv, BootInv, pc = "loader", reported' = reported,
         NEW es, Installs(es),
         request.uki /\ Intended =>
           request.uefi /\ \A k \in Kernels : \E p : Entry(EfiPartition, "top", "unified", k, p) \in es,
         ~request.uki /\ Intended =>
           \E id : (id = TRUE \/ request.loader = "Grub") /\ es = Images(KernelPart, KernelDir, "classic", id)
  PROVE  BootInv'
<1>1. ASSUME ~reported, Intended, request.uki
      PROVE  BootsWith(request.loader, es)
  BY <1>1, UnifiedBoots DEF Intended
<1>2. ASSUME ~reported, Intended, ~request.uki
      PROVE  BootsWith(request.loader, es)
  <2>1. Readable(request.loader, KernelPart)
    BY <1>2 DEF Intended
  <2>2. QED BY <1>2, <2>1, ClassicBoots
<1>3. reported' \in BOOLEAN
  BY DEF BootInv
<1>4. QED BY <1>1, <1>2, <1>3, InstallsKeepBoot

\* The unified images are told apart by their kernels.
LEMMA UnifiedEntriesFacts ==
  \A k \in Kernels : \E p : Entry(EfiPartition, "top", "unified", k, p) \in UnifiedEntries
BY DEF UnifiedEntries

\* The classic images lie in the top directory of the boot partition, if that is
\* where /boot is.
LEMMA OwnBootFacts ==
  ASSUME OwnBoot # None
  PROVE  KernelPart = OwnBoot /\ KernelDir = "top"
BY DEF KernelPart, KernelDir

LEMMA SystemdKeepsBoot == HooksInv /\ BootInv /\ AddSystemd => BootInv'
<1> SUFFICES ASSUME HooksInv, BootInv, AddSystemd PROVE BootInv'
  OBVIOUS
<1>1. pc = "loader" /\ request.loader = "Systemd" /\ request.uefi /\ reported' = reported
  BY DEF AddSystemd, AtLoader
<1> DEFINE es == IF request.uki THEN UnifiedEntries ELSE Images(BootPartition, "top", "classic", TRUE)
<1>2. Installs(es)
  BY Zenon DEF AddSystemd, Images
<1>3. ~request.uki /\ Intended => BootPartition = KernelPart /\ KernelDir = "top"
  BY <1>1, OwnBootFacts DEF Intended
<1>4. request.uki => \A k \in Kernels : \E p : Entry(EfiPartition, "top", "unified", k, p) \in es
  BY UnifiedEntriesFacts
<1>5. ~request.uki /\ Intended => es = Images(KernelPart, KernelDir, "classic", TRUE)
  BY <1>3
<1> HIDE DEF es
<1>6. QED BY <1>1, <1>2, <1>4, <1>5, LoaderKeepsBoot

LEMMA LimineKeepsBoot == HooksInv /\ BootInv /\ AddLimine => BootInv'
<1> SUFFICES ASSUME HooksInv, BootInv, AddLimine PROVE BootInv'
  OBVIOUS
<1>1. /\ pc = "loader" /\ request.loader = "Limine" /\ reported' = reported
      /\ request.uefi => EfiPartition # None
  BY DEF AddLimine, AtLoader
<1> DEFINE es == IF request.uki THEN UnifiedEntries ELSE Images(LiminePart, "top", "classic", TRUE)
<1>2. Installs(es)
  BY Zenon DEF AddLimine, Images
<1>3. ~request.uki /\ Intended => LiminePart = KernelPart /\ KernelDir = "top"
  <2>1. SUFFICES ASSUME ~request.uki, Intended
                 PROVE  LiminePart = KernelPart /\ KernelDir = "top"
    OBVIOUS
  <2>2. OwnBoot # None /\ OwnBoot = BootPartition
    BY <1>1, <2>1 DEF Intended
  <2>3. KernelPart = BootPartition /\ KernelDir = "top"
    BY <2>2, OwnBootFacts
  <2>4. QED BY <1>1, <2>3 DEF LiminePart
<1>4. request.uki /\ Intended =>
        request.uefi /\ \A k \in Kernels : \E p : Entry(EfiPartition, "top", "unified", k, p) \in es
  BY UnifiedEntriesFacts DEF Intended
<1>5. ~request.uki /\ Intended => es = Images(KernelPart, KernelDir, "classic", TRUE)
  BY <1>3
<1> HIDE DEF es
<1>6. QED BY <1>1, <1>2, <1>4, <1>5, LoaderKeepsBoot

LEMMA RefindKeepsBoot == HooksInv /\ BootInv /\ AddRefind => BootInv'
<1> SUFFICES ASSUME HooksInv, BootInv, AddRefind PROVE BootInv'
  OBVIOUS
<1>1. /\ pc = "loader" /\ request.loader = "Refind" /\ request.uefi /\ reported' = reported
      /\ EfiPartition # None
  BY DEF AddRefind, AtLoader
<1> DEFINE es == IF request.uki THEN UnifiedEntries ELSE Images(RefindPlace.part, RefindPlace.dir, "classic", TRUE)
<1>2. Installs(es)
  BY Zenon DEF AddRefind, Images
<1>3. ~request.uki /\ Intended => RefindPlace.part = KernelPart /\ RefindPlace.dir = KernelDir
  <2>1. SUFFICES ASSUME ~request.uki, Intended
                 PROVE  RefindPlace.part = KernelPart /\ RefindPlace.dir = KernelDir
    OBVIOUS
  <2>2. \/ OwnBoot # None /\ OwnBoot = BootPartition
        \/ BootPartition = EfiPartition /\ OwnBoot = None
    BY <1>1, <2>1 DEF Intended
  <2>3. CASE OwnBoot # None /\ OwnBoot = BootPartition
    <3>1. KernelPart = BootPartition /\ KernelDir = "top"
      BY <2>3, OwnBootFacts
    <3>2. At(BootPartition) = "/boot"
      BY <2>3, LookedUp DEF HooksInv
    <3>3. QED BY <3>1, <3>2 DEF RefindPlace
  <2>4. CASE BootPartition = EfiPartition /\ OwnBoot = None
    <3>1. At(EfiPartition) # "/boot"
      BY <1>1, <2>4, LookedUp DEF HooksInv
    <3>2. KernelDir = "boot"
      BY <2>4 DEF KernelDir
    <3>3. QED BY <2>4, <3>1, <3>2 DEF RefindPlace
  <2>5. QED BY <2>2, <2>3, <2>4
<1>4. request.uki => \A k \in Kernels : \E p : Entry(EfiPartition, "top", "unified", k, p) \in es
  BY UnifiedEntriesFacts
<1>5. ~request.uki /\ Intended => es = Images(KernelPart, KernelDir, "classic", TRUE)
  BY <1>3
<1> HIDE DEF es
<1>6. QED BY <1>1, <1>2, <1>4, <1>5, LoaderKeepsBoot

LEMMA EfistubKeepsBoot == HooksInv /\ BootInv /\ AddEfistub => BootInv'
<1> SUFFICES ASSUME HooksInv, BootInv, AddEfistub PROVE BootInv'
  OBVIOUS
<1>1. pc = "loader" /\ request.loader = "Efistub" /\ request.uefi /\ reported' = reported
  BY DEF AddEfistub, AtLoader
<1> DEFINE es == Images(BootPartition, "top", IF request.uki THEN "unified" ELSE "classic", TRUE)
<1>2. Installs(es)
  BY Zenon DEF AddEfistub, Images
<1>3. ~request.uki /\ Intended => BootPartition = KernelPart /\ KernelDir = "top"
  BY <1>1, OwnBootFacts DEF Intended
<1>4. request.uki /\ Intended => \A k \in Kernels : \E p : Entry(EfiPartition, "top", "unified", k, p) \in es
  <2>1. request.uki /\ Intended => BootPartition = EfiPartition
    BY <1>1 DEF Intended
  <2>2. QED BY <2>1 DEF Images
<1>5. ~request.uki /\ Intended => es = Images(KernelPart, KernelDir, "classic", TRUE)
  BY <1>3
<1> HIDE DEF es
<1>6. QED BY <1>1, <1>2, <1>4, <1>5, LoaderKeepsBoot

\* A menu that could not be written is reported.
LEMMA GrubKeepsBoot == HooksInv /\ BootInv /\ AddGrub => BootInv'
<1> SUFFICES ASSUME HooksInv, BootInv, AddGrub PROVE BootInv'
  OBVIOUS
<1>1. pc = "loader" /\ request.loader = "Grub"
  BY DEF AddGrub, AtLoader
<1> DEFINE es == IF request.uefi /\ request.uki THEN UnifiedEntries
                 ELSE Images(KernelPart, KernelDir, "classic", FALSE)
<1>2. \/ Installs(es) /\ reported' = reported
      \/ (\E x : Installs(x)) /\ reported' = TRUE
  BY Zenon DEF AddGrub, Images
<1>3. CASE Installs(es) /\ reported' = reported
  <2>1. request.uki /\ Intended =>
          request.uefi /\ \A k \in Kernels : \E p : Entry(EfiPartition, "top", "unified", k, p) \in es
    BY UnifiedEntriesFacts DEF Intended
  <2>2. ~request.uki => es = Images(KernelPart, KernelDir, "classic", FALSE)
    OBVIOUS
  <2> HIDE DEF es
  <2>3. QED BY <1>1, <1>3, <2>1, <2>2, LoaderKeepsBoot
<1>4. CASE (\E x : Installs(x)) /\ reported' = TRUE
  BY <1>1, <1>4, InstallsKeepBoot
<1>5. QED BY <1>2, <1>3, <1>4

-----------------------------------------------------------------------------
(* The steps up to the loaders *)

LEMMA FailsKeepBoot ==
  ASSUME BootInv, Fails, pc \notin {"end", "complete", "missing steps"}
  PROVE  BootInv'
<1>1. /\ pc' = "raised" /\ helper' = helper /\ extra' = extra /\ zswap' = zswap /\ reported' = reported
  BY DEF Fails
<1>2. ImagesInv' /\ FoundInv' /\ BootsInv'
  BY <1>1 DEF ImagesInv, FoundInv, BootsInv
<1>3. HelperInv'
  <2>1. pc \notin {"end", "complete", "missing steps"}
    OBVIOUS
  <2>2. QED BY <1>1, <2>1 DEF BootInv, HelperInv
<1>4. QED BY <1>1, <1>2, <1>3 DEF BootInv

\* A step before the loaders that leaves the images fitting.
LEMMA EarlyKeepsBoot ==
  ASSUME BootInv, pc \notin {"end", "complete", "missing steps"}, request' = request, helper' = helper,
         extra' \in {<<>>, <<"quiet", "splash">>}, zswap' \in BOOLEAN, reported' \in BOOLEAN,
         pc' \in {"base image", "swap", "add", "plymouth", "uki"},
         pc' \in {"swap", "add", "plymouth", "uki"} /\ ~reported' /\ ~request.uki =>
           \A k \in Kernels : ImageFits(classic'[k]),
         pc' \in {"plymouth", "uki"} => BootPartition # None /\ HasRoot
  PROVE  BootInv'
<1>1. ASSUME pc' \in {"swap", "add", "plymouth", "uki"}, ~reported', ~request.uki
      PROVE  \A k \in Kernels' : ImageFits(classic[k])'
  <2>1. \A k \in Kernels : ImageFits(classic'[k])
    BY <1>1
  <2>2. Kernels' = Kernels
    BY DEF Kernels
  <2>3. QED BY <2>1, <2>2 DEF ImageFits, HooksOpen, RootEncrypted, RootPartition, FirstOf, Numbers, At, CryptHook
<1>2. ImagesInv'
  BY <1>1 DEF ImagesInv
<1>3. FoundInv'
  BY DEF FoundInv, BootPartition, HasRoot, RootPartition, FirstOf, Numbers, At
<1>4. HelperInv' /\ BootsInv'
  BY DEF BootInv, HelperInv, BootsInv
<1>5. QED BY <1>2, <1>3, <1>4 DEF BootInv

LEMMA PrepareKeepsBoot == HooksInv /\ BootInv /\ Prepare => BootInv'
BY EarlyKeepsBoot DEF Prepare, BootInv

\* What mkinitcpio() has built fits.
LEMMA BuiltFits ==
  ASSUME NEW next, NEW built, NEW cmdline, NEW h, Mkinitcpio(next, built, cmdline, h), "classic" \in built,
         ImageFits(WithoutSystemd(h)), ~reported'
  PROVE  \A k \in Kernels : ImageFits(classic'[k])
<1>1. hooks' = WithoutSystemd(h)
  BY DEF Mkinitcpio
<1>2. classic' = [k \in Kernels |-> hooks']
  BY Zenon DEF Mkinitcpio
<1>3. QED BY <1>1, <1>2

LEMMA BaseImageKeepsBoot == HooksInv /\ BootInv /\ BaseImage => BootInv'
<1> SUFFICES ASSUME HooksInv, BootInv, BaseImage PROVE BootInv'
  OBVIOUS
<1>1. /\ pc = "base image" /\ pc' = "swap" /\ request' = request /\ helper' = helper
      /\ extra' = extra /\ zswap' = zswap /\ reported' \in BOOLEAN
  BY DEF BaseImage, Mkinitcpio, BootInv
<1>2. ASSUME ~reported', ~request.uki
      PROVE  \A k \in Kernels : ImageFits(classic'[k])
  <2>1. Mkinitcpio("swap", {"classic"}, None, hooks)
    BY <1>2 DEF BaseImage
  <2>2. ImageFits(WithoutSystemd(hooks))
    BY <1>1, RequestTypes, RenamedFits DEF HooksInv
  <2>3. QED BY <1>2, <2>1, <2>2, BuiltFits
<1>3. extra' \in {<<>>, <<"quiet", "splash">>} /\ zswap' \in BOOLEAN
  BY <1>1 DEF BootInv
<1>4. QED BY <1>1, <1>2, <1>3, EarlyKeepsBoot

LEMMA SetupSwapKeepsBoot == HooksInv /\ BootInv /\ SetupSwap => BootInv'
<1> SUFFICES ASSUME HooksInv, BootInv, SetupSwap PROVE BootInv'
  OBVIOUS
<1>1. CASE Strap
  BY <1>1, FailsKeepBoot DEF Strap, SetupSwap
<1>2. CASE ~Strap
  <2>1. /\ pc = "swap" /\ pc' = "add" /\ request' = request /\ helper' = helper /\ extra' = extra
        /\ zswap' = request.zram /\ reported' = reported /\ classic' = classic
    BY <1>2 DEF SetupSwap
  <2>2. zswap' \in BOOLEAN
    BY <2>1, RequestTypes DEF HooksInv
  <2>3. ~reported' /\ ~request.uki => \A k \in Kernels : ImageFits(classic'[k])
    BY <2>1 DEF BootInv, ImagesInv
  <2>4. extra' \in {<<>>, <<"quiet", "splash">>} /\ reported' \in BOOLEAN
    BY <2>1 DEF BootInv
  <2>5. QED BY <2>1, <2>2, <2>3, <2>4, EarlyKeepsBoot
<1>3. QED BY <1>1, <1>2

LEMMA AddKeepsBoot == HooksInv /\ BootInv /\ Add => BootInv'
<1> SUFFICES ASSUME HooksInv, BootInv, Add PROVE BootInv'
  OBVIOUS
<1>1. /\ pc = "add" /\ request' = request /\ helper' = helper /\ extra' = extra
      /\ zswap' = zswap /\ reported' = reported /\ classic' = classic
  BY DEF Add
<1>2. helper = None /\ (~reported /\ ~request.uki => \A k \in Kernels : ImageFits(classic[k]))
  BY <1>1 DEF BootInv, HelperInv, ImagesInv
<1>3. CASE pc' \in {"end", "raised"}
  BY <1>1, <1>2, <1>3 DEF BootInv, ImagesInv, FoundInv, HelperInv, BootsInv
<1>4. CASE pc' \in {"plymouth", "uki"}
  <2>1. BootPartition # None /\ HasRoot
    BY <1>4 DEF Add
  <2>2. extra' \in {<<>>, <<"quiet", "splash">>} /\ zswap' \in BOOLEAN /\ reported' \in BOOLEAN
    BY <1>1 DEF BootInv
  <2>3. QED BY <1>1, <1>2, <1>4, <2>1, <2>2, EarlyKeepsBoot
<1>5. pc' \in {"end", "raised", "plymouth", "uki"}
  BY DEF Add
<1>6. QED BY <1>3, <1>4, <1>5

LEMMA InstallPlymouthKeepsBoot == HooksInv /\ BootInv /\ InstallPlymouth => BootInv'
<1> SUFFICES ASSUME HooksInv, BootInv, InstallPlymouth PROVE BootInv'
  OBVIOUS
<1>1. CASE Strap
  BY <1>1, FailsKeepBoot DEF Strap, InstallPlymouth
<1>2. CASE ~Strap
  <2>1. /\ pc = "plymouth" /\ pc' = "uki" /\ request' = request /\ helper' = helper
        /\ extra' = <<"quiet", "splash">> /\ zswap' = zswap /\ reported' \in BOOLEAN
        /\ Mkinitcpio("uki", {"classic"}, None, WithPlymouth(hooks))
    BY <1>2 DEF InstallPlymouth, Mkinitcpio, BootInv
  <2>2. ImageFits(WithoutSystemd(WithPlymouth(hooks)))
    BY <2>1, RequestTypes, PlymouthKeepsOrder, RenamedFits DEF HooksInv
  <2>3. ~reported' => \A k \in Kernels : ImageFits(classic'[k])
    BY <2>1, <2>2, BuiltFits
  <2>4. BootPartition # None /\ HasRoot /\ zswap' \in BOOLEAN
    BY <2>1 DEF BootInv, FoundInv
  <2>5. QED BY <2>1, <2>3, <2>4, EarlyKeepsBoot
<1>3. QED BY <1>1, <1>2

LEMMA ConfigUkiKeepsBoot == HooksInv /\ BootInv /\ ConfigUki => BootInv'
<1> SUFFICES ASSUME HooksInv, BootInv, ConfigUki PROVE BootInv'
  OBVIOUS
<1>1. CASE Fails
  BY <1>1, FailsKeepBoot DEF ConfigUki
<1>2. CASE ~Fails
  <2>1. /\ pc = "uki" /\ pc' = "loader" /\ request' = request /\ helper' = helper
        /\ extra' = extra /\ zswap' = zswap
        /\ request.uki => EfiPartition # None
    BY <1>2 DEF ConfigUki
  <2>2. \/ ~request.uki /\ reported' = reported /\ classic' = classic
        \/ request.uki /\ reported' = TRUE
        \/ /\ request.uki /\ reported' = reported /\ hooks' = WithoutSystemd(hooks)
           /\ unified' = [k \in Kernels |-> [hooks |-> hooks', params |-> KernelParams(TRUE)]]
    BY <1>2 DEF ConfigUki
  <2>3. BootPartition # None /\ HasRoot /\ helper = None
    BY <2>1 DEF BootInv, FoundInv, HelperInv
  <2>4. FoundInv'
    BY <2>1, <2>3 DEF FoundInv, BootPartition, EfiPartition, HasRoot, RootPartition, FirstOf, Numbers, At
  <2>5. ASSUME ~reported', ~request.uki
        PROVE  \A k \in Kernels' : ImageFits(classic[k])'
    <3>1. \A k \in Kernels : ImageFits(classic'[k])
      BY <2>1, <2>2, <2>5 DEF BootInv, ImagesInv
    <3>2. Kernels' = Kernels
      BY <2>1 DEF Kernels
    <3>3. QED BY <2>1, <3>1, <3>2 DEF ImageFits, HooksOpen, RootEncrypted, RootPartition, FirstOf, Numbers, At, CryptHook
  <2>6. ASSUME ~reported', request.uki
        PROVE  \A k \in Kernels' : \E h : ImageFits(h)' /\ unified'[k] = [hooks |-> h, params |-> KernelParams(TRUE)']
    <3>1. /\ hooks' = WithoutSystemd(hooks)
          /\ unified' = [k \in Kernels |-> [hooks |-> hooks', params |-> KernelParams(TRUE)]]
      BY <2>2, <2>6
    <3>2. ImageFits(hooks')
      BY <2>1, <3>1, RequestTypes, RenamedFits DEF HooksInv
    <3>3. ImageFits(hooks)'
      BY <2>1, <3>2 DEF ImageFits, HooksOpen, RootEncrypted, RootPartition, FirstOf, Numbers, At, CryptHook
    <3>4. KernelParams(TRUE)' = KernelParams(TRUE)
      BY <2>1 DEF KernelParams, LvmParams, PartitionParams, RootPartition, FirstOf, Numbers, At
    <3>5. Kernels' = Kernels
      BY <2>1 DEF Kernels
    <3>6. \A k \in Kernels' : unified'[k] = [hooks |-> hooks', params |-> KernelParams(TRUE)']
      BY <3>1, <3>4, <3>5
    <3>7. QED BY <3>3, <3>6
  <2>7. ImagesInv'
    BY <2>1, <2>5, <2>6 DEF ImagesInv
  <2>8. HelperInv' /\ BootsInv'
    BY <2>1, <2>3 DEF HelperInv, BootsInv
  <2>9. reported' \in BOOLEAN
    BY <2>2 DEF BootInv
  <2>10. QED BY <2>1, <2>4, <2>7, <2>8, <2>9 DEF BootInv
<1>3. QED BY <1>1, <1>2

LEMMA BootsKept ==
  ASSUME UNCHANGED <<request, classic, unified, entries, installed>>
  PROVE  Boots => Boots'
<1>1. /\ request' = request /\ classic' = classic /\ unified' = unified
      /\ entries' = entries /\ installed' = installed
  OBVIOUS
<1>2. /\ EfiPartition' = EfiPartition /\ KernelPart' = KernelPart /\ KernelDir' = KernelDir
      /\ RootEncrypted' <=> RootEncrypted
      /\ Kernels' = Kernels
  BY <1>1 DEF EfiPartition, KernelPart, KernelDir, OwnBoot, RootPartition, RootEncrypted, FirstOf, Numbers, At, Kernels
<1>3. \A i : Fat(i)' <=> Fat(i)
  BY <1>1 DEF Fat
<1>4. \A l, i : Readable(l, i)' <=> Readable(l, i)
  BY <1>1, <1>2, <1>3 DEF Readable
<1>5. \A h, p : RootOpens(h, p)' <=> RootOpens(h, p)
  BY <1>1, <1>2 DEF RootOpens
<1>6. \A e : Starts(e) => Starts(e)'
  <2>1. SUFFICES ASSUME NEW e, Starts(e) PROVE Starts(e)'
    OBVIOUS
  <2>2. CASE e.image = "unified"
    BY <1>1, <1>2, <1>3, <1>5, <2>1, <2>2 DEF Starts
  <2>3. CASE e.image # "unified"
    BY <1>1, <1>2, <1>4, <1>5, <2>1, <2>3 DEF Starts, Readable
  <2>4. QED BY <2>2, <2>3
<1>7. QED BY <1>1, <1>2, <1>6 DEF Boots

LEMMA ExitKeepsBoot == HooksInv /\ BootInv /\ Exit => BootInv'
<1> SUFFICES ASSUME HooksInv, BootInv, Exit PROVE BootInv'
  OBVIOUS
<1>1. /\ pc = "end" /\ pc' = IF helper # None THEN "complete" ELSE "missing steps"
      /\ UNCHANGED <<request, hooks, extra, zswap, classic, unified, entries, installed, helper, reported>>
  BY DEF Exit
<1>2. Intended' <=> Intended
  BY <1>1, IntendedOfTheRequest
<1>3. Boots => Boots'
  BY <1>1, BootsKept
<1>4. BootsInv'
  BY <1>1, <1>2, <1>3 DEF BootInv, BootsInv
<1>5. ImagesInv' /\ FoundInv' /\ HelperInv'
  BY <1>1 DEF ImagesInv, FoundInv, HelperInv
<1>6. QED BY <1>1, <1>4, <1>5 DEF BootInv

LEMMA BootKept == HooksInv /\ BootInv /\ [Next]_vars => BootInv'
<1> SUFFICES ASSUME HooksInv, BootInv, [Next]_vars PROVE BootInv'
  OBVIOUS
<1>1. CASE Prepare BY <1>1, PrepareKeepsBoot
<1>2. CASE BaseImage BY <1>2, BaseImageKeepsBoot
<1>3. CASE SetupSwap BY <1>3, SetupSwapKeepsBoot
<1>4. CASE Add BY <1>4, AddKeepsBoot
<1>5. CASE InstallPlymouth BY <1>5, InstallPlymouthKeepsBoot
<1>6. CASE ConfigUki BY <1>6, ConfigUkiKeepsBoot
<1>7. CASE AddSystemd BY <1>7, SystemdKeepsBoot
<1>8. CASE AddGrub BY <1>8, GrubKeepsBoot
<1>9. CASE AddLimine BY <1>9, LimineKeepsBoot
<1>10. CASE AddEfistub BY <1>10, EfistubKeepsBoot
<1>11. CASE EfistubStops
  BY <1>11 DEF EfistubStops, AtLoader, BootInv, ImagesInv, FoundInv, HelperInv, BootsInv
<1>12. CASE AddRefind BY <1>12, RefindKeepsBoot
<1>13. CASE LoaderFails
  BY <1>13, FailsKeepBoot DEF LoaderFails, AtLoader
<1>14. CASE Exit BY <1>14, ExitKeepsBoot
<1>15. CASE UNCHANGED vars
  <2>1. Boots => Boots'
    BY <1>15, BootsKept DEF vars
  <2>2. Intended' <=> Intended
    BY <1>15, IntendedOfTheRequest DEF vars
  <2>3. BootsInv'
    BY <1>15, <2>1, <2>2 DEF vars, BootInv, BootsInv
  <2>4. HelperInv'
    BY <1>15 DEF vars, BootInv, HelperInv
  <2>5. FoundInv'
    BY <1>15 DEF vars, BootInv, FoundInv, BootPartition, EfiPartition, HasRoot, RootPartition, FirstOf, Numbers, At
  <2>6. ImagesInv'
    <3>1. /\ Kernels' = Kernels /\ KernelParams(TRUE)' = KernelParams(TRUE)
          /\ classic' = classic /\ unified' = unified /\ pc' = pc /\ reported' = reported /\ request' = request
      BY <1>15 DEF vars, Kernels, KernelParams, LvmParams, PartitionParams, RootPartition, FirstOf, Numbers, At
    <3>2. \A h : ImageFits(h)' <=> ImageFits(h)
      BY <3>1 DEF ImageFits, HooksOpen, RootEncrypted, RootPartition, FirstOf, Numbers, At, CryptHook
    <3>3. \A k : ImageFits(classic[k])' <=> ImageFits(classic[k])
      BY <3>1 DEF ImageFits, HooksOpen, RootEncrypted, RootPartition, FirstOf, Numbers, At, CryptHook
    <3>4. QED BY <3>1, <3>2, <3>3 DEF BootInv, ImagesInv
  <2>7. QED BY <1>15, <2>3, <2>4, <2>5, <2>6 DEF vars, BootInv
<1>16. QED
  BY <1>1, <1>2, <1>3, <1>4, <1>5, <1>6, <1>7, <1>8, <1>9, <1>10, <1>11, <1>12, <1>13, <1>14, <1>15 DEF Next

LEMMA BootInit == Init => BootInv
BY DEF Init, BootInv, ImagesInv, FoundInv, HelperInv, BootsInv

\* On every layout the code is written for, whatever the loader, the encryption and the
\* kernels, an installation that is called complete, and in which no failed build was
\* reported, boots every kernel.
THEOREM FinishedSystemsDoBoot == Spec => []FinishedSystemsBoot
<1>1. BootInv => FinishedSystemsBoot
  BY DEF BootInv, HelperInv, BootsInv, FinishedSystemsBoot
<1>2. HooksInv /\ BootInv /\ [Next]_vars => (HooksInv /\ BootInv)'
  BY HooksKept, BootKept
<1>3. QED BY <1>1, <1>2, HooksInit, BootInit, PTL DEF Spec

=============================================================================
