CONSTANTS
  None = None
  Desktops = {"Hyprland", "Sway", "GNOME", "Awesome"}
  Servers = {"sshd"}
  Seated = {"Hyprland", "Sway"}
  GreeterOf <- MCGreeterOf
  Greeters = {"sddm", "lightdm", "gdm"}
  Drivers = {"open", "nvidia"}
  MaxSteps = 7
SPECIFICATION ProfileSpec
INVARIANTS
  SelectionIsWhole
  OptionsFollowTheSelection
PROPERTIES
  LoadRestoresTheProfile
CHECK_DEADLOCK FALSE
