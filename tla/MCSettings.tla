----------------------------- MODULE MCSettings -----------------------------
(***************************************************************************)
(* Settings and ThemePicker in one run, for TLC: they share only the       *)
(* storage, each with keys of its own, so one of them stands still while   *)
(* the other is used.                                                      *)
(***************************************************************************)
EXTENDS Settings, ThemePicker, TLC

VARIABLE section

SettingsInit == section \in {"sliders", "theme"} /\ Init /\ ThemeInit

UseSettings == section = "sliders" /\ Next /\ UNCHANGED <<section, themeVars>>

UseTheme == section = "theme" /\ ThemeNext /\ UNCHANGED <<section, vars>>

SettingsSpec == SettingsInit /\ [][UseSettings \/ UseTheme]_<<section, vars, themeVars>>

\* The types of both.
TypesOK == TypeOK /\ ThemeTypeOK

Symmetry == Permutations(Tabs)
=============================================================================
