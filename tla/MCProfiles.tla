------------------------------ MODULE MCProfiles ------------------------------
(***************************************************************************)
(* Two desktops that ask for the seat access and two that do not, one of   *)
(* them without a greeter; a server.                                       *)
(***************************************************************************)
EXTENDS Profiles, TLC

MCGreeterOf == ("Hyprland" :> "sddm") @@ ("Sway" :> "lightdm") @@ ("GNOME" :> "gdm")
               @@ ("Awesome" :> None)
===============================================================================
