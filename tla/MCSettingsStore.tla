--------------------------- MODULE MCSettingsStore ---------------------------
(* Every page of the settings, two super users with one edit each. *)
EXTENDS SettingsStore

CONSTANTS e1, e2

MCEditors == {e1, e2}
=============================================================================
