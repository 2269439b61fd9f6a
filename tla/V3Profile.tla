------------------------------ MODULE V3Profile ------------------------------
(***************************************************************************)
(* V3CandidateExperimentProfile (pitgun-racing-simulator lib.rs): which    *)
(* resources each version of the profile carries.  A profile is            *)
(* [version, has, valid, thermal]: the resources it has, whether the       *)
(* coefficients in them pass their own checks, and whose thermal           *)
(* coefficients it holds.                                                  *)
(***************************************************************************)
EXTENDS Integers

Resolutions == {"aero", "development", "transmission"}

ProfileValid(p) ==
    /\ p.valid
    /\ p.has \cap Resolutions = CASE p.version = 1 -> {}
                                  [] p.version = 2 -> {"aero"}
                                  [] p.version = 3 -> {"aero", "development"}
                                  [] OTHER -> Resolutions
    /\ ("fuel mass" \in p.has) = (p.version >= 6)
    /\ ("tire degradation" \in p.has) = (p.version >= 7)
    /\ p.version = 8 => "thermal" \in p.has
    /\ p.version < 8 => "thermal" \notin p.has
    /\ ("control" \in p.has) = (p.version >= 10)
    /\ p.version >= 10 => "control override" \notin p.has

DefaultResources == Resolutions \cup {"fuel mass", "tire degradation"}

Profile(version, extra, thermal) ==
    [version |-> version, has |-> DefaultResources \cup extra, valid |-> TRUE, thermal |-> thermal]
=============================================================================
