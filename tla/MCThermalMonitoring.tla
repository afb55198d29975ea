------------------------- MODULE MCThermalMonitoring -------------------------
(* Two sensors that breach both sides of the range 2..5. *)
EXTENDS ThermalMonitoring

CONSTANTS d1, d2

BothSides == {-1, 1, 2, 6}
==============================================================================
