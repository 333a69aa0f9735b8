------------------------------- MODULE Profiles -------------------------------
(***************************************************************************)
(* The profile of a configuration: lib/profile/profile_menu.py,            *)
(* profiles_handler.py, models/profile.py and the profile classes.         *)
(*                                                                         *)
(* The profiles are objects that live as long as the process: a menu, a    *)
(* loaded file and the installation all change and read the selection and  *)
(* the settings that are kept in them, and a configuration only points to  *)
(* one of the top-level profiles.  Profiles from a URL, packages and the   *)
(* names of drivers are left out.                                          *)
(***************************************************************************)
EXTENDS Naturals, SequencesExt

CONSTANTS
  Desktops,        \* the desktop profiles
  Servers,         \* the server profiles
  GreeterOf,       \* default_greeter_type of every desktop profile, None if it has none
  Seated,          \* the desktops that ask how they get access to the seat
  Greeters, Drivers,
  None,            \* Python's None
  MaxSteps         \* bound: answers given in a menu, saved files and restarts

ASSUME ProfilesAssumption ==
  /\ GreeterOf \in [Desktops -> Greeters \cup {None}] /\ Seated \subseteq Desktops
  /\ "open" \in Drivers
  /\ None \notin Greeters \cup Drivers \cup {"seatd", "polkit", "Desktop", "Server", "Xorg", "Minimal"}
  /\ Desktops \cap Servers = {}
  /\ MaxSteps \in Nat

Tops == {"Desktop", "Server", "Xorg", "Minimal"}

\* The sub-profiles a top-level profile's menu offers.
SubProfiles(p) == CASE p = "Desktop" -> Desktops [] p = "Server" -> Servers [] OTHER -> {}

\* The answers to the question for the access to the seat.
Accesses == {"seatd", "polkit"}

\* ProfileConfiguration, and profile_config of a file.
Configuration == [profile : Tops \cup {None}, gfx : Drivers \cup {None}, greeter : Greeters \cup {None}]

Json ==
  [main : {None}, gfx : Drivers \cup {None}, greeter : Greeters \cup {None}] \cup
  [main : Tops, details : Seq(Desktops \cup Servers),
   custom_settings : UNION {[ds -> Accesses \cup {None}] : ds \in SUBSET Seated},
   gfx : Drivers \cup {None}, greeter : Greeters \cup {None}]

ASSUME ConfigurationAssumption == None \notin Configuration \cup Json

VARIABLES
  pc,         \* "global" menu, the "profile" menu
  selection,  \* current_selection of the top-level profiles
  settings,   \* custom_settings of the desktops: None or the seat access
  item,       \* the values of the profile menu's items
  enabled,    \* the items that can be chosen
  config,     \* the ProfileConfiguration, or None
  file,       \* the saved profile_config, or None
  source,     \* history: the state the file was saved from
  picked,     \* history: the greeter was chosen for the selection that is there
  steps

profileVars == <<pc, selection, settings, item, enabled, config, file, source, picked, steps>>

Blank == [profile |-> None, gfx |-> None, greeter |-> None]

\* is_graphic_driver_supported: every desktop supports one, no server does, and
\* the desktop profile itself does not.
GfxSupported(p, sel) ==
  CASE p = "Desktop" -> sel[p] # <<>> [] p = "Xorg" -> TRUE [] OTHER -> FALSE

GreeterSupported(p) == p = "Desktop"

\* default_greeter_type: that of the first selected desktop that has one.
DefaultGreeter(p, sel) ==
  LET able  == {i \in DOMAIN sel[p] : GreeterOf[sel[p][i]] # None}
      first == CHOOSE i \in able : \A j \in able : i <= j
  IN IF p = "Desktop" /\ able # {} THEN GreeterOf[sel[p][first]] ELSE None

\* reset_top_level_profiles(exclude).
ResetOthers(p, sel) == [t \in Tops |-> IF t = p THEN sel[t] ELSE <<>>]

-----------------------------------------------------------------------------
(* The menu *)

Limited == steps < MaxSteps /\ steps' = steps + 1

\* ProfileMenu.__init__ with its items' values, which the configuration's
\* replace where it has one.  Both options depend on the graphics driver.
OpenMenu ==
  /\ pc = "global" /\ Limited
  /\ pc' = "profile"
  /\ item' = IF config = None THEN Blank ELSE config
  /\ LET p == item'.profile
         on == p # None /\ GfxSupported(p, selection)
     IN enabled' = [gfx |-> on, greeter |-> on]
  /\ UNCHANGED <<selection, settings, config, file, source, picked>>

\* Mutant of Taken: a greeter that was there stays.
TakenKeepingGreeter(p, sel) ==
  IF p = None
  THEN /\ item' = Blank
       /\ UNCHANGED enabled
  ELSE /\ item' = [profile |-> p,
                   gfx     |-> IF GfxSupported(p, sel) THEN "open" ELSE None,
                   greeter |-> IF ~GreeterSupported(p) THEN None
                               ELSE IF item.greeter # None THEN item.greeter
                               ELSE DefaultGreeter(p, sel)]
       /\ enabled' = [gfx |-> GfxSupported(p, sel), greeter |-> GreeterSupported(p)]

\* _select_profile, once select_profile has returned p: driver and greeter start
\* anew, also if the profile is the one that was there.
Taken(p, sel) ==
  IF p = None
  THEN /\ item' = Blank
       /\ UNCHANGED enabled
  ELSE /\ item' = [profile |-> p,
                   gfx     |-> IF GfxSupported(p, sel) THEN "open" ELSE None,
                   greeter |-> IF GreeterSupported(p) THEN DefaultGreeter(p, sel) ELSE None]
       /\ enabled' = [gfx |-> GfxSupported(p, sel), greeter |-> GreeterSupported(p)]

TypeItem == pc = "profile" /\ Limited /\ picked' = FALSE

\* The menu of top-level profiles is skipped, or a sub-menu is: the profile stays.
SkipType ==
  /\ TypeItem
  /\ Taken(item.profile, selection)
  /\ UNCHANGED <<pc, selection, settings, config, file, source>>

\* The menu of top-level profiles is reset: the selections stay.
ResetType ==
  /\ TypeItem
  /\ Taken(None, selection)
  /\ UNCHANGED <<pc, selection, settings, config, file, source>>

\* A sub-menu is reset: no profile has a selection any more.
ResetSelection ==
  /\ TypeItem
  /\ selection' = [t \in Tops |-> <<>>]
  /\ Taken(None, selection')
  /\ UNCHANGED <<pc, settings, config, file, source>>

SelectPlain(p) ==
  /\ TypeItem
  /\ selection' = ResetOthers(p, selection)
  /\ Taken(p, selection')
  /\ UNCHANGED <<pc, settings, config, file, source>>

\* Mutant of Asked: the desktops that were selected before are asked.
AskedBefore(before, after) == ToSet(before) \cap Seated

\* _do_on_select_profiles: the desktops that ask for their settings.
Asked(before, after) == ToSet(after) \cap Seated

\* do_on_select of the desktop and server profiles.  At least one entry is chosen,
\* in any order: what is selected can be taken back and chosen again.
SelectSub(p) ==
  /\ TypeItem
  /\ \E chosen \in {s \in TupleOf(SubProfiles(p), 1) \cup TupleOf(SubProfiles(p), 2) :
                      IsInjective(s)} :
       selection' = ResetOthers(p, [selection EXCEPT ![p] = chosen])
  /\ LET asked == IF p = "Desktop" THEN Asked(selection[p], selection'[p]) ELSE {}
     IN \E answers \in [asked -> Accesses] :
          settings' = [d \in Seated |-> IF d \in asked THEN answers[d] ELSE settings[d]]
  /\ Taken(p, selection')
  /\ UNCHANGED <<pc, config, file, source>>

\* _select_gfx_driver, and a reset of it.
SelectGfx ==
  /\ pc = "profile" /\ Limited
  /\ enabled.gfx /\ item.profile # None
  /\ GfxSupported(item.profile, selection)
  /\ \E d \in Drivers \cup {None} : item' = [item EXCEPT !.gfx = d]
  /\ UNCHANGED <<pc, selection, settings, enabled, config, file, source, picked>>

\* select_greeter, which is not told the profile.
SelectGreeter ==
  /\ pc = "profile" /\ Limited
  /\ enabled.greeter /\ item.profile # None
  /\ \E g \in Greeters : item' = [item EXCEPT !.greeter = g]
  /\ picked' = TRUE
  /\ UNCHANGED <<pc, selection, settings, enabled, config, file, source>>

Back ==
  /\ pc = "profile"
  /\ pc' = "global"
  /\ config' = item
  /\ UNCHANGED <<selection, settings, item, enabled, file, source, picked, steps>>

\* The profile menu is reset; the profiles keep what was selected.
ResetMenu ==
  /\ pc = "profile"
  /\ pc' = "global"
  /\ config' = None
  /\ UNCHANGED <<selection, settings, item, enabled, file, source, picked, steps>>

-----------------------------------------------------------------------------
(* Files *)

\* ProfileConfiguration.json and ProfileHandler.to_json.
ToJson ==
  IF config.profile = None THEN [main |-> None, gfx |-> config.gfx, greeter |-> config.greeter]
  ELSE [main |-> config.profile, details |-> selection[config.profile],
        custom_settings |-> [d \in ToSet(selection[config.profile]) \cap Seated |-> settings[d]],
        gfx |-> config.gfx, greeter |-> config.greeter]

State == [config |-> config, selection |-> selection,
          settings |-> [d \in ToSet(selection["Desktop"]) \cap Seated |-> settings[d]]]

Save ==
  /\ pc = "global" /\ Limited
  /\ file' = IF config = None THEN None ELSE ToJson
  /\ source' = State
  /\ UNCHANGED <<pc, selection, settings, item, enabled, config, picked>>

\* parse_profile_config in a new process, where nothing is selected.
ParsedSelection(f) == [t \in Tops |-> IF f.main = t THEN f.details ELSE <<>>]

\* Mutant of ParsedSettings: the settings are not read.
ParsedSettingsForgotten(f) == [d \in Seated |-> None]

ParsedSettings(f) ==
  [d \in Seated |-> IF f.main # None THEN (IF d \in DOMAIN f.custom_settings
                                           THEN f.custom_settings[d] ELSE None)
                    ELSE None]

\* The next run of the program, with the saved configuration.
Load ==
  /\ pc = "global" /\ Limited
  /\ source # None
  /\ IF file = None
     THEN /\ config' = None
          /\ selection' = [t \in Tops |-> <<>>] /\ settings' = [d \in Seated |-> None]
     ELSE /\ config' = [profile |-> file.main, gfx |-> file.gfx, greeter |-> file.greeter]
          /\ selection' = ParsedSelection(file)
          /\ settings' = ParsedSettings(file)
  /\ picked' = TRUE
  /\ item' = Blank
  /\ enabled' = [gfx |-> FALSE, greeter |-> FALSE]
  /\ UNCHANGED <<pc, file, source>>

ProfileInit ==
  /\ pc = "global"
  /\ selection = [t \in Tops |-> <<>>]
  /\ settings = [d \in Seated |-> None]
  /\ item = Blank /\ enabled = [gfx |-> FALSE, greeter |-> FALSE]
  /\ config = None /\ file = None /\ source = None
  /\ picked = FALSE /\ steps = 0

ProfileNext ==
  \/ OpenMenu \/ SkipType \/ ResetType \/ ResetSelection
  \/ \E p \in {"Xorg", "Minimal"} : SelectPlain(p)
  \/ \E p \in {"Desktop", "Server"} : SelectSub(p)
  \/ SelectGfx \/ SelectGreeter \/ Back \/ ResetMenu \/ Save \/ Load

ProfileSpec == ProfileInit /\ [][ProfileNext]_profileVars

-----------------------------------------------------------------------------
(* Properties *)

\* The selections hold profiles that their menus offer.
ProfileTypeOK ==
  /\ pc \in {"global", "profile"}
  /\ selection \in [Tops -> Seq(Desktops \cup Servers)]
  /\ selection["Desktop"] \in Seq(Desktops)
  /\ settings \in [Seated -> Accesses \cup {None}]
  /\ item \in Configuration /\ config \in Configuration \cup {None}
  /\ enabled \in [gfx : BOOLEAN, greeter : BOOLEAN]
  /\ file \in Json \cup {None}
  /\ file # None => (file.main = "Desktop" => file.details \in Seq(Desktops))
  /\ picked \in BOOLEAN /\ steps \in 0..MaxSteps

AtRest(p) == pc = "global" /\ config # None /\ config.profile = p

\* Selection and settings stay one whole, whatever was chosen, skipped, reset and
\* loaded between: a configuration's profile is the only one with a selection, so
\* that nothing of a former choice is installed or saved with it ("reset all other
\* profile selections to avoid any stale data laying around", profile_menu.py:211-212),
\* and every selected desktop that needs access to the seat has an answer how.
SelectionIsWhole ==
  /\ \A p, t \in Tops : AtRest(p) /\ t # p => selection[t] = <<>>
  /\ \A d \in ToSet(selection["Desktop"]) \cap Seated : settings[d] # None

\* The first desktop of the selection that has a greeter has g, or none has one.
ComesWith(g, sel) ==
  IF g = None THEN \A d \in ToSet(sel) : GreeterOf[d] = None
  ELSE \E i \in DOMAIN sel : /\ GreeterOf[sel[i]] = g
                             /\ \A j \in 1 .. i - 1 : GreeterOf[sel[j]] = None

\* Driver and greeter belong to the selection that is there: a driver only with a
\* profile that has one, and the greeter of the first selected desktop that comes
\* with one unless another was chosen since (profile_menu.py:66, desktop.py:38).
OptionsFollowTheSelection ==
  \A p \in Tops : AtRest(p) =>
    /\ config.gfx # None => GfxSupported(p, selection)
    /\ ~picked => IF p = "Desktop" THEN ComesWith(config.greeter, selection[p])
                  ELSE config.greeter = None

\* A saved profile comes back with its sub-profiles in their order, their settings,
\* its driver and its greeter (profiles_handler.py:37, 55, models/profile.py:53).
LoadRestoresTheProfile ==
  [][Load =>
       /\ config' = source.config
       /\ \A p \in Tops : config' # None /\ config'.profile = p =>
            /\ selection'[p] = source.selection[p]
            /\ p = "Desktop" =>
                 \A d \in DOMAIN source.settings : settings'[d] = source.settings[d]]_profileVars
===============================================================================
