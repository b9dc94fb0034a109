--------------------------- MODULE SlnFlashMgmtMC ---------------------------
EXTENDS SlnFlashStore, TLC
CONSTANTS v1, v2
PagesLong  == (v1 :> 1) @@ (v2 :> 2)
=============================================================================
