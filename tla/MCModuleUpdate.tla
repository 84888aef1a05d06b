--------------------------- MODULE MCModuleUpdate ---------------------------
(* ModuleUpdate with up to three published versions; the .cfg files say what is    *)
(* checked.                                                                *)
EXTENDS ModuleUpdate
=============================================================================
