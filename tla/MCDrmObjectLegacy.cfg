\* A connector-like object with one enum property (required for legacy
\* mode-setting) and one plain property (required), under kernel changes and
\* transient property read failures, with the enum property used between
\* refreshes.
CONSTANTS
    pEnum = pEnum
    pPlain = pPlain
    None = None
    Defs <- MCDefs
    EnumDef = pEnum
    Requirement <- MCRequirement
    KernelValues = {0, 1}
    Width = 6
    HalfWidth = 3
    EnumInputs = {0, 1, 2, 3, 4, 9}
    BitmaskMap <- MCBitmaskMap
    EnumMap <- MCEnumMap
SPECIFICATION ObjSpec
INVARIANT LegacyWriteCorrect
