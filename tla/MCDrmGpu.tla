------------------------------ MODULE MCDrmGpu ------------------------------
(* The mock GPU of the DRM autotests with one connector, two modes, three *)
(* outputs for it (so a replugged connector's new output can meet the     *)
(* zombies of its earlier ones), two references per output and one        *)
(* DrmGpu object, whose capabilities the mock may change before it is     *)
(* created.  The model treats connectors independently (a scan decides    *)
(* each connector from its own state), so one connector with deeper       *)
(* bounds reaches more than two with shallow ones.                         *)
EXTENDS DrmGpu, TLC

CONSTANTS one, m10x10, m20x20

MCConnectors == {one}
MCModes == {m10x10, m20x20}

(* Modes are interchangeable: nothing in the model singles one out.       *)
ModeSymmetry == Permutations(MCModes)
=============================================================================
