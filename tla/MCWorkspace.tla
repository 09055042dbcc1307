---------------------------- MODULE MCWorkspace ----------------------------
(***************************************************************************)
(* Workspace with two contents: that of a new scenario and of a preset.    *)
(***************************************************************************)
EXTENDS WorkspaceSafety

CONSTANTS blank, preset
=============================================================================
