----------------------------- MODULE MCDrmObject -----------------------------
EXTENDS DrmObject

CONSTANTS pEnum, pPlain

MCDefs == {pEnum, pPlain}
MCRequirement == (pEnum :> "RequiredForLegacy") @@ (pPlain :> "Required")
MCBitmaskMap == (1 :> 8) @@ (2 :> 1)
MCEnumMap == (0 :> 3) @@ (1 :> 0) @@ (2 :> 5)
=============================================================================
