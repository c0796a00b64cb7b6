---------------------------- MODULE MCPreferences ----------------------------
(* Preferences for TLC: one setting with a default and one without.        *)
EXTENDS Preferences

MCKeys == {"with_default", "without"}
MCDefaults == [k \in MCKeys |-> IF k = "with_default" THEN 1 ELSE Unset]
=============================================================================
