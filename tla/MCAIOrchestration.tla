-------------------------- MODULE MCAIOrchestration --------------------------
(***************************************************************************)
(* Model-checking instance of AIOrchestration: two concurrent scoring      *)
(* requests; each cfg chooses which awaited calls may reject and whether   *)
(* the process may restart.                                                *)
(***************************************************************************)
EXTENDS AIOrchestration

CONSTANTS s1, s2

MCSlots == {s1, s2}
=============================================================================
