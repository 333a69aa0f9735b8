------------------------- MODULE GuidedSessionProofs -------------------------
(***************************************************************************)
(* Proofs about GuidedSession, for every set of devices, users, layouts,   *)
(* loaded configurations and environments.                                 *)
(***************************************************************************)
EXTENDS GuidedSession, TLAPS

\* What the answers given so far look like at each prompt.
AnswersInOrder ==
  /\ pc \in Prompts \ {"mode"} => cfg.mode \in Modes
  /\ pc \in {"repositories", "desktop", "dotfiles", "greeter"} => cfg.mode = "Custom"
  /\ pc \in {"locale", "mirrors", "repositories", "desktop"} =>
       ans.dotfiles = None /\ ans.greeter = None
  /\ pc = "dotfiles" => ans.desktop = "Hyprland" /\ ans.greeter = None
  /\ pc = "greeter" => ans.desktop \in {"Hyprland", "KDE"}
  /\ pc \in {"greeter", "credentials", "disk", "probe"} /\ ans.dotfiles # None =>
       ans.desktop = "Hyprland"
  /\ pc \in {"credentials", "disk", "probe"} /\ cfg.mode = "Custom" =>
       /\ ans.desktop \in Desktops
       /\ ans.desktop = "Minimal" => ans.greeter = None
  /\ pc \in {"disk", "probe"} => ans.user \in Users
  /\ pc = "probe" => \E d \in Disks : ans.disk = SuggestedLayout(d)

\* What a set of options says about the rest of a configuration.
Coherent(c) ==
  c.preset # None =>
    /\ c.mode \in Modes
    /\ c.disk # None
    /\ ~c.disk.snapshots
    /\ c.profile = ProfileFor(c.preset.desktop, c.preset.greeter)
    /\ c.preset.dotfiles # None =>
         c.preset.desktop = "Hyprland" /\ "git" \in c.packages /\ c.user # None
    /\ c.preset.greeter = None <=> c.preset.desktop = "Minimal"

\* Only a second pass of the linear sequences meets options, and the mode in
\* them is the chosen one except while that pass is running.
OptionsInv ==
  /\ Coherent(cfg)
  /\ env.advanced => cfg.preset = None
  /\ pc \in Prompts => ~env.advanced
  /\ pc = "menu" => env.advanced
  /\ pc = "mode" /\ ~recollect => cfg.preset = None
  /\ pc \in {"main", "check", "confirm"} \cup Committed /\ cfg.preset # None =>
       cfg.preset.mode = cfg.mode

\* Nothing is changed, and nothing but the confirmed device is touched, after a
\* consent.
ConsentInv ==
  /\ consent # None => consent = cfg /\ pc \in Committed \cup {"exit", "crash", "done"}
  /\ consent # None => ~env.dryRun
  /\ pc = "confirm" => ~env.dryRun
  /\ pc \in Committed => consent # None
  /\ touched # {} => consent # None
  /\ pc \in {"warning", "format"} => cfg.disk # None

IInv == TypeOK /\ AnswersInOrder /\ OptionsInv /\ ConsentInv
-----------------------------------------------------------------------------
\* The session starts with no answers, no options and no consent.
LEMMA Initial == Init => IInv
<1> SUFFICES ASSUME Init PROVE IInv
  OBVIOUS
<1> USE SessionAssumption DEF SessionAssumption
<1>1. cfg \in Config /\ cfg.preset = None /\ cfg.mode = None
  <2>1. /\ BlankConfig \in Config
        /\ BlankConfig.preset = None /\ BlankConfig.mode = None
    BY DEF BlankConfig, Config
  <2> QED
    BY <2>1 DEF Init
<1>2. TypeOK
  BY <1>1 DEF Init, TypeOK, NoAnswers, Answers
<1>3. AnswersInOrder
  BY DEF Init, AnswersInOrder, Prompts
<1>4. OptionsInv
  BY <1>1 DEF Init, OptionsInv, Coherent, Prompts
<1>5. ConsentInv
  BY DEF Init, ConsentInv, Committed
<1> QED
  BY <1>2, <1>3, <1>4, <1>5 DEF IInv

\* The answers of the menu leave the rest of the configuration as it was.
LEMMA MenuAnswers ==
  ASSUME ShowMenu, cfg \in Config, ~UNCHANGED cfg
  PROVE  cfg' \in Config /\ cfg'.preset = cfg.preset
<1>1. PICK l \in Layouts, b \in Loaders, k \in BOOLEAN, u \in Users,
           s \in {"on", "off"}, p \in Profile :
         /\ cfg' = [cfg EXCEPT !.disk = l, !.loader = b, !.uki = k, !.user = u,
                              !.swap = s, !.profile = p]
         /\ UkiSupported(cfg')
         /\ Bootable(cfg')
         /\ pc' = "check"
  BY Zenon DEF ShowMenu
<1>2. l \in AnyLayout
  BY SessionAssumption DEF SessionAssumption
<1> QED BY <1>1, <1>2 DEF Config

\* The steps of guided.main keep the invariant.
LEMMA MainSteps ==
  ASSUME IInv, Main \/ ShowMenu \/ Check \/ Accept \/ Refuse \/ Countdown \/ Format \/ Install
  PROVE  IInv'
<1> USE SessionAssumption DEF SessionAssumption, IInv, Prompts, Committed, Ended
<1>1. CASE Main
  <2>1. TypeOK'
    BY <1>1 DEF Main, Recollecting, TypeOK
  <2>2. AnswersInOrder'
    BY <1>1 DEF Main, AnswersInOrder
  <2>3. OptionsInv'
    BY <1>1 DEF Main, Recollecting, OptionsInv, Coherent
  <2>4. ConsentInv'
    BY <1>1 DEF Main, ConsentInv
  <2> QED
    BY <2>1, <2>2, <2>3, <2>4
<1>2. CASE ShowMenu
  <2>1. TypeOK'
    <3>1. CASE UNCHANGED cfg
      BY <1>2, <3>1 DEF ShowMenu, TypeOK
    <3>2. CASE ~UNCHANGED cfg
      <4>1. cfg \in Config
        BY DEF TypeOK
      <4>2. cfg' \in Config
        BY <1>2, <3>2, <4>1, MenuAnswers
      <4> QED
        BY <1>2, <4>2 DEF ShowMenu, TypeOK
    <3> QED
      BY <3>1, <3>2
  <2>2. AnswersInOrder'
    BY <1>2 DEF ShowMenu, AnswersInOrder
  <2>3. OptionsInv'
    <3>1. cfg'.preset = cfg.preset
      <4>1. CASE UNCHANGED cfg
        BY <4>1
      <4>2. CASE ~UNCHANGED cfg
        BY <4>2, <1>2, MenuAnswers DEF TypeOK
      <4> QED
        BY <4>1, <4>2
    <3>2. cfg'.preset = None
      BY <1>2, <3>1 DEF ShowMenu, OptionsInv
    <3> QED
      BY <1>2, <3>2 DEF ShowMenu, OptionsInv, Coherent
  <2>4. ConsentInv'
    BY <1>2 DEF ShowMenu, ConsentInv
  <2> QED
    BY <2>1, <2>2, <2>3, <2>4
<1>3. CASE Check
  <2>1. TypeOK'
    BY <1>3 DEF Check, TypeOK
  <2>2. AnswersInOrder'
    BY <1>3 DEF Check, AnswersInOrder
  <2>3. OptionsInv'
    BY <1>3 DEF Check, OptionsInv, Coherent
  <2>4. ConsentInv'
    BY <1>3 DEF Check, ConsentInv, TypeOK
  <2> QED
    BY <2>1, <2>2, <2>3, <2>4
<1>4. CASE Accept
  <2>1. TypeOK'
    BY <1>4 DEF Accept, TypeOK
  <2>2. AnswersInOrder'
    BY <1>4 DEF Accept, AnswersInOrder
  <2>3. OptionsInv'
    BY <1>4 DEF Accept, OptionsInv, Coherent
  <2>4. ConsentInv'
    BY <1>4 DEF Accept, ConsentInv, TypeOK
  <2> QED
    BY <2>1, <2>2, <2>3, <2>4
<1>5. CASE Refuse
  <2>1. TypeOK'
    BY <1>5 DEF Refuse, Goto, TypeOK
  <2>2. AnswersInOrder'
    BY <1>5 DEF Refuse, Goto, AnswersInOrder
  <2>3. OptionsInv'
    BY <1>5 DEF Refuse, Goto, OptionsInv, Coherent
  <2>4. ConsentInv'
    BY <1>5 DEF Refuse, Goto, ConsentInv
  <2> QED
    BY <2>1, <2>2, <2>3, <2>4
<1>6. CASE Countdown
  <2>1. TypeOK'
    BY <1>6 DEF Countdown, TypeOK
  <2>2. AnswersInOrder'
    BY <1>6 DEF Countdown, AnswersInOrder
  <2>3. OptionsInv'
    BY <1>6 DEF Countdown, OptionsInv, Coherent
  <2>4. ConsentInv'
    BY <1>6 DEF Countdown, ConsentInv
  <2> QED
    BY <2>1, <2>2, <2>3, <2>4
<1>7. CASE Format
  <2>1. TypeOK'
    <3>1. cfg.disk \in AnyLayout
      BY <1>7 DEF Format, TypeOK, Config, ConsentInv
    <3>2. cfg.disk.dev \in Disks
      BY <3>1 DEF AnyLayout
    <3> QED
      BY <1>7, <3>2 DEF Format, TypeOK
  <2>2. AnswersInOrder'
    BY <1>7 DEF Format, AnswersInOrder
  <2>3. OptionsInv'
    BY <1>7 DEF Format, OptionsInv, Coherent
  <2>4. ConsentInv'
    BY <1>7 DEF Format, ConsentInv
  <2> QED
    BY <2>1, <2>2, <2>3, <2>4
<1>8. CASE Install
  <2>1. TypeOK'
    BY <1>8 DEF Install, TypeOK
  <2>2. AnswersInOrder'
    BY <1>8 DEF Install, AnswersInOrder
  <2>3. OptionsInv'
    BY <1>8 DEF Install, OptionsInv, Coherent
  <2>4. ConsentInv'
    BY <1>8 DEF Install, ConsentInv
  <2> QED
    BY <2>1, <2>2, <2>3, <2>4
<1> QED
  BY <1>1, <1>2, <1>3, <1>4, <1>5, <1>6, <1>7, <1>8

\* Two configurations that differ at most in mode, boot loader and swap.
SameAnswers(c, d) ==
  /\ d.disk = c.disk /\ d.profile = c.profile /\ d.preset = c.preset
  /\ d.mirrors = c.mirrors /\ d.user = c.user /\ d.packages = c.packages

\* The defaults only fill in the boot loader and the swap setting.
LEMMA Defaults ==
  ASSUME NEW c \in Config
  PROVE  /\ WithDefaults(c) \in Config
         /\ SameAnswers(c, WithDefaults(c))
         /\ WithDefaults(c).mode = c.mode
<1>1. DefaultLoader \in Loaders
  BY DEF DefaultLoader, Loaders
<1> DEFINE l == IF c.loader = None THEN DefaultLoader ELSE c.loader
           k == IF c.loader = None THEN env.uefi /\ ~env.skipBoot ELSE c.uki
           s == IF c.swap # "on" THEN "on" ELSE c.swap
<1>2. l \in Loaders \cup {None} /\ k \in BOOLEAN /\ s \in {"on", "off"} \cup {None}
  BY <1>1 DEF Config
<1>3. WithDefaults(c) = [c EXCEPT !.loader = l, !.uki = k, !.swap = s]
  BY DEF WithDefaults
<1> HIDE DEF l, k, s
<1> QED
  BY <1>2, <1>3 DEF Config, SameAnswers

\* The prompts of run_entry keep the invariant.
LEMMA PromptSteps == ASSUME IInv, Prompt PROVE IInv'
<1> USE SessionAssumption DEF SessionAssumption, IInv, Prompts, Committed, Ended, Keep
<1>1. CASE Abandon
  <2>1. TypeOK'
    BY <1>1 DEF Abandon, TypeOK
  <2>2. AnswersInOrder'
    BY <1>1 DEF Abandon, AnswersInOrder
  <2>3. OptionsInv'
    BY <1>1 DEF Abandon, OptionsInv, Coherent
  <2>4. ConsentInv'
    BY <1>1 DEF Abandon, ConsentInv
  <2> QED
    BY <2>1, <2>2, <2>3, <2>4
<1>2. ASSUME NEW m \in Modes, SelectMode(m) PROVE IInv'
  <2> DEFINE c == [cfg EXCEPT !.mode = m]
  <2>1. c \in Config /\ c.mode = m
    BY DEF TypeOK, Config
  <2>2. SameAnswers(cfg, c)
    BY DEF TypeOK, Config, SameAnswers
  <2>3. cfg' \in {c, WithDefaults(c)}
    BY <1>2 DEF SelectMode
  <2>4. cfg' \in Config /\ cfg'.mode = m
    BY <2>1, <2>3, Defaults
  <2>5. SameAnswers(cfg, cfg')
    BY <2>1, <2>2, <2>3, Defaults DEF SameAnswers
  <2>6. TypeOK'
    BY <1>2, <2>4 DEF SelectMode, TypeOK, NoAnswers, Answers
  <2>7. AnswersInOrder'
    BY <1>2, <2>4 DEF SelectMode, AnswersInOrder, NoAnswers
  <2>8. OptionsInv'
    <3>1. Coherent(cfg')
      BY <2>4, <2>5 DEF OptionsInv, Coherent, SameAnswers
    <3>2. pc' = "check" => cfg'.preset = None
      BY <1>2, <2>5 DEF SelectMode, OptionsInv, SameAnswers
    <3> QED
      BY <1>2, <2>5, <3>1, <3>2 DEF SelectMode, OptionsInv, SameAnswers
  <2>9. ConsentInv'
    BY <1>2 DEF SelectMode, ConsentInv
  <2> QED
    BY <2>6, <2>7, <2>8, <2>9
<1>3. CASE SelectLocale
  <2>1. TypeOK'
    BY <1>3 DEF SelectLocale, TypeOK
  <2>2. AnswersInOrder'
    BY <1>3 DEF SelectLocale, AnswersInOrder
  <2>3. OptionsInv'
    BY <1>3 DEF SelectLocale, OptionsInv, Coherent
  <2>4. ConsentInv'
    BY <1>3 DEF SelectLocale, ConsentInv
  <2> QED
    BY <2>1, <2>2, <2>3, <2>4
<1>4. CASE RankMirrors
  <2>1. TypeOK'
    BY <1>4 DEF RankMirrors, TypeOK, Config, Answers
  <2>2. AnswersInOrder'
    BY <1>4 DEF RankMirrors, AnswersInOrder, TypeOK, Config, Answers, Modes
  <2>3. OptionsInv'
    BY <1>4 DEF RankMirrors, OptionsInv, Coherent, TypeOK, Config
  <2>4. ConsentInv'
    BY <1>4 DEF RankMirrors, ConsentInv
  <2> QED
    BY <2>1, <2>2, <2>3, <2>4
<1>5. ASSUME NEW use \in BOOLEAN, SelectRepositories(use) PROVE IInv'
  <2>1. TypeOK'
    BY <1>5 DEF SelectRepositories, Goto, TypeOK, Answers, Levels
  <2>2. AnswersInOrder'
    BY <1>5 DEF SelectRepositories, Goto, AnswersInOrder, TypeOK, Answers
  <2>3. OptionsInv'
    BY <1>5 DEF SelectRepositories, Goto, OptionsInv, Coherent
  <2>4. ConsentInv'
    BY <1>5 DEF SelectRepositories, Goto, ConsentInv
  <2> QED
    BY <2>1, <2>2, <2>3, <2>4
<1>6. ASSUME NEW d \in Desktops, SelectDesktop(d) PROVE IInv'
  <2>1. TypeOK'
    BY <1>6 DEF SelectDesktop, TypeOK, Answers
  <2>2. AnswersInOrder'
    BY <1>6 DEF SelectDesktop, AnswersInOrder, TypeOK, Answers, Desktops
  <2>3. OptionsInv'
    BY <1>6 DEF SelectDesktop, OptionsInv, Coherent
  <2>4. ConsentInv'
    BY <1>6 DEF SelectDesktop, ConsentInv
  <2> QED
    BY <2>1, <2>2, <2>3, <2>4
<1>7. ASSUME NEW s \in Suites \cup {None}, SelectDotfiles(s) PROVE IInv'
  <2>1. TypeOK'
    BY <1>7 DEF SelectDotfiles, Goto, TypeOK, Answers
  <2>2. AnswersInOrder'
    BY <1>7 DEF SelectDotfiles, Goto, AnswersInOrder, TypeOK, Answers
  <2>3. OptionsInv'
    BY <1>7 DEF SelectDotfiles, Goto, OptionsInv, Coherent
  <2>4. ConsentInv'
    BY <1>7 DEF SelectDotfiles, Goto, ConsentInv
  <2> QED
    BY <2>1, <2>2, <2>3, <2>4
<1>8. ASSUME NEW g \in Greeters, SelectGreeter(g) PROVE IInv'
  <2>1. TypeOK'
    BY <1>8 DEF SelectGreeter, Goto, TypeOK, Answers
  <2>2. AnswersInOrder'
    BY <1>8 DEF SelectGreeter, Goto, AnswersInOrder, TypeOK, Answers, Desktops
  <2>3. OptionsInv'
    BY <1>8 DEF SelectGreeter, Goto, OptionsInv, Coherent
  <2>4. ConsentInv'
    BY <1>8 DEF SelectGreeter, Goto, ConsentInv
  <2> QED
    BY <2>1, <2>2, <2>3, <2>4
<1>9. ASSUME NEW u \in Users, EnterCredentials(u) PROVE IInv'
  <2>1. TypeOK'
    BY <1>9 DEF EnterCredentials, Goto, TypeOK, Answers
  <2>2. AnswersInOrder'
    BY <1>9 DEF EnterCredentials, Goto, AnswersInOrder, TypeOK, Answers
  <2>3. OptionsInv'
    BY <1>9 DEF EnterCredentials, Goto, OptionsInv, Coherent
  <2>4. ConsentInv'
    BY <1>9 DEF EnterCredentials, Goto, ConsentInv
  <2> QED
    BY <2>1, <2>2, <2>3, <2>4
<1>10. ASSUME NEW d \in Disks, SelectDisk(d) PROVE IInv'
  <2>1. TypeOK'
    BY <1>10 DEF SelectDisk, Goto, TypeOK, Answers, SuggestedLayout, AnyLayout
  <2>2. AnswersInOrder'
    BY <1>10 DEF SelectDisk, Goto, AnswersInOrder, TypeOK, Answers
  <2>3. OptionsInv'
    BY <1>10 DEF SelectDisk, Goto, OptionsInv, Coherent
  <2>4. ConsentInv'
    BY <1>10 DEF SelectDisk, Goto, ConsentInv
  <2> QED
    BY <2>1, <2>2, <2>3, <2>4
<1>11. CASE Detect
  <2>1. CASE UNCHANGED cfg /\ pc' = "probeError"
    <3>1. TypeOK'
      BY <1>11, <2>1 DEF Detect, TypeOK
    <3>2. AnswersInOrder'
      BY <2>1 DEF AnswersInOrder
    <3>3. OptionsInv'
      BY <1>11, <2>1 DEF Detect, OptionsInv, Coherent
    <3>4. ConsentInv'
      BY <1>11, <2>1 DEF Detect, ConsentInv
    <3> QED
      BY <3>1, <3>2, <3>3, <3>4
  <2>2. CASE cfg' = Assembled(cfg, CollectedOptions) /\ pc' = "check"
    <3> DEFINE o == CollectedOptions
    <3>1. PICK d \in Disks : ans.disk = SuggestedLayout(d)
      BY <1>11 DEF Detect, AnswersInOrder
    <3>2. ans.disk \in AnyLayout /\ ans.disk.snapshots = FALSE
      BY <3>1 DEF SuggestedLayout, AnyLayout
    <3>3. /\ o \in Options
          /\ o.mode = cfg.mode
          /\ o.dotfiles # None => o.desktop = "Hyprland"
          /\ o.greeter = None <=> o.desktop = "Minimal"
      BY <1>11 DEF Detect, AnswersInOrder, TypeOK, CollectedOptions, Options, Answers,
                   Environment, Modes, Desktops, Greeters, Suites, Recommended
    <3>4. ProfileFor(o.desktop, o.greeter) \in Profile
      BY <3>3 DEF ProfileFor, Profile, Options, Recommended, Greeters, Desktops
    <3>5. ans.user \in Users
      BY <1>11 DEF Detect, AnswersInOrder
    <3>6. /\ cfg' \in Config
          /\ cfg'.disk = ans.disk
          /\ cfg'.mode = o.mode
          /\ cfg'.preset = o
          /\ cfg'.user = ans.user
          /\ cfg'.profile = ProfileFor(o.desktop, o.greeter)
          /\ cfg'.packages = NewPackages(o)
      <4> DEFINE w == WithDefaults(cfg)
                 mirrors == IF ans.mirrors # "ISO" THEN ans.mirrors ELSE w.mirrors
                 profile == ProfileFor(o.desktop, o.greeter)
                 packages == NewPackages(o)
      <4>1. w \in Config
        BY Defaults DEF TypeOK
      <4>2. mirrors \in {"ISO", "ranked"}
        BY <4>1 DEF Config, TypeOK, Answers
      <4>3. packages \in SUBSET {"driver", "git", "own"} /\ packages # {}
        BY DEF NewPackages, GpuPackages
      <4>4. cfg' = [w EXCEPT !.mirrors = mirrors, !.disk = ans.disk, !.mode = o.mode,
                             !.preset = o, !.user = ans.user, !.profile = profile,
                             !.packages = packages]
        BY <2>2, <4>3 DEF Assembled
      <4>5. o.mode \in Modes
        BY <3>3 DEF Options
      <4>6. profile \in Profile
        BY <3>4
      <4>7. o \in Options
        BY <3>3
      <4>8. ans.disk \in AnyLayout
        BY <3>2
      <4>9. ans.user \in Users
        BY <3>5
      <4> HIDE DEF w, mirrors, profile, packages, o
      <4>10. /\ cfg' \in Config
             /\ cfg'.disk = ans.disk /\ cfg'.mode = o.mode /\ cfg'.preset = o
             /\ cfg'.user = ans.user /\ cfg'.profile = profile /\ cfg'.packages = packages
        BY <4>1, <4>2, <4>3, <4>4, <4>5, <4>6, <4>7, <4>8, <4>9 DEF Config
      <4> QED
        BY <4>10 DEF profile, packages
    <3>7. TypeOK'
      BY <1>11, <2>2, <3>6 DEF Detect, TypeOK
    <3>8. AnswersInOrder'
      BY <2>2 DEF AnswersInOrder
    <3>9. OptionsInv'
      <4>1. Coherent(cfg')
        BY <3>2, <3>3, <3>5, <3>6 DEF Coherent, Options, NewPackages
      <4> QED
        BY <1>11, <2>2, <3>3, <3>6, <4>1 DEF Detect, OptionsInv
    <3>10. ConsentInv'
      BY <1>11, <2>2 DEF Detect, ConsentInv
    <3> QED
      BY <3>7, <3>8, <3>9, <3>10
  <2> QED
    BY <1>11, <2>1, <2>2 DEF Detect
<1> QED
  BY <1>1, <1>2, <1>3, <1>4, <1>5, <1>6, <1>7, <1>8, <1>9, <1>10, <1>11 DEF Prompt

-----------------------------------------------------------------------------
\* The invariant holds in every state of the session.
LEMMA Invariance == Spec => []IInv
<1>1. IInv /\ [Next]_vars => IInv'
  <2> SUFFICES ASSUME IInv, [Next]_vars PROVE IInv'
    OBVIOUS
  <2>1. CASE Main \/ ShowMenu \/ Check \/ Accept \/ Refuse \/ Countdown \/ Format \/ Install
    BY <2>1, MainSteps
  <2>2. CASE Prompt
    BY <2>2, PromptSteps
  <2>3. CASE UNCHANGED vars
    BY <2>3 DEF vars, IInv, TypeOK, AnswersInOrder, OptionsInv, Coherent, ConsentInv
  <2>4. CASE Terminated
    BY <2>3, <2>4 DEF Terminated
  <2> QED
    BY <2>1, <2>2, <2>3, <2>4 DEF Next
<1> QED
  BY Initial, <1>1, PTL DEF Spec

\* The variables keep their types.
THEOREM TypeCorrect == Spec => []TypeOK
<1>1. IInv => TypeOK
  BY DEF IInv
<1> QED
  BY Invariance, <1>1, PTL

\* The configuration that was confirmed is the one installed: whatever was
\* asked, revised or loaded before, nothing changes it afterwards.
THEOREM ConfirmedIsInstalled == Spec => []InstallsWhatWasConfirmed
<1>1. IInv => InstallsWhatWasConfirmed
  BY DEF IInv, ConsentInv, InstallsWhatWasConfirmed
<1> QED
  BY Invariance, <1>1, PTL

\* Dry runs, rejected and not yet confirmed configurations leave every device alone.
THEOREM DryRunIsDry == Spec => []DryRunTouchesNothing
<1>1. IInv => DryRunTouchesNothing
  BY DEF IInv, ConsentInv, DryRunTouchesNothing, Committed
<1> QED
  BY Invariance, <1>1, PTL

\* Hooks and installation work from the same answers, after any sequence of
\* modes, revisions and loaded files.
THEOREM OptionsAgree == Spec => []OptionsMatchConfiguration
<1>1. IInv => OptionsMatchConfiguration
  BY DEF IInv, OptionsInv, Coherent, OptionsMatchConfiguration
<1> QED
  BY Invariance, <1>1, PTL

\* Snapshot packages are never installed after the hooks restored the keyring.
THEOREM NoSnapshotsAfterHooks == Spec => []SnapshotsNeverFollowTheHooks
<1>1. IInv => SnapshotsNeverFollowTheHooks
  BY DEF IInv, OptionsInv, Coherent, SnapshotsNeverFollowTheHooks
<1> QED
  BY Invariance, <1>1, PTL

\* The session implements InstallConsent: every step agrees to a layout for the
\* first time, modifies the device of the agreed layout, or does neither.
THEOREM Implements == Spec => ModifiesOnlyWithConsent
<1> DEFINE agreed == IF consent = None THEN None ELSE consent.disk
<1>1. Init => Consent!Init
  BY DEF Init, Consent!Init
<1>2. IInv /\ IInv' /\ [Next]_vars => [Consent!Next]_(Consent!vars)
  <2> SUFFICES ASSUME IInv, IInv', [Next]_vars PROVE [Consent!Next]_(Consent!vars)
    OBVIOUS
  <2> USE SessionAssumption DEF SessionAssumption
  <2>1. CASE UNCHANGED <<consent, touched>>
    BY <2>1 DEF Consent!vars
  <2>2. CASE (Check \/ Accept) /\ ~UNCHANGED consent
    <3>1. consent = None /\ touched = {}
      BY <2>2 DEF IInv, ConsentInv, Committed, Check, Accept
    <3>2. consent' = cfg /\ touched' = touched /\ cfg \in Config
      BY <2>2 DEF Check, Accept, IInv, TypeOK
    <3>3. agreed = None /\ agreed' = cfg.disk
      BY <3>1, <3>2
    <3>4. CASE cfg.disk = None
      BY <3>2, <3>3, <3>4 DEF Consent!vars
    <3>5. CASE cfg.disk # None
      <4>1. cfg.disk \in AnyLayout
        BY <3>2, <3>5 DEF Config
      <4>2. Consent!Agree(cfg.disk)
        BY <3>1, <3>2, <3>3 DEF Consent!Agree
      <4> QED
        BY <4>1, <4>2 DEF Consent!Next
    <3> QED
      BY <3>4, <3>5
  <2>3. CASE Format
    <3>1. consent = cfg /\ cfg.disk # None /\ cfg \in Config
      BY <2>3 DEF Format, IInv, ConsentInv, Committed, TypeOK
    <3>2. agreed = cfg.disk /\ agreed' = agreed
      BY <2>3, <3>1 DEF Format
    <3>3. CASE touched' = touched
      BY <2>3, <3>3 DEF Format, Consent!vars
    <3>4. CASE touched' = touched \cup {cfg.disk.dev}
      BY <3>1, <3>2, <3>4 DEF Consent!Modify, Consent!Next
    <3> QED
      BY <2>3, <3>3, <3>4 DEF Format
  <2>4. CASE Main \/ ShowMenu \/ Refuse \/ Countdown \/ Install
    BY <2>1, <2>4 DEF Main, ShowMenu, Refuse, Countdown, Install
  <2>5. CASE Prompt
    BY <2>1, <2>5 DEF Prompt, Keep, Abandon, SelectMode, SelectLocale, RankMirrors,
         SelectRepositories, SelectDesktop, SelectDotfiles, SelectGreeter,
         EnterCredentials, SelectDisk, Detect
  <2>6. CASE Check \/ Accept
    BY <2>1, <2>2, <2>6 DEF Check, Accept
  <2>7. CASE Terminated \/ UNCHANGED vars
    BY <2>1, <2>7 DEF Terminated, vars
  <2> QED
    BY <2>3, <2>4, <2>5, <2>6, <2>7 DEF Next
<1> QED
  BY Invariance, <1>1, <1>2, PTL DEF Spec, ModifiesOnlyWithConsent, Consent!Spec
=============================================================================
