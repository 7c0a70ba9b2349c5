----------------------------- MODULE MCEglGbmLayer -----------------------------
EXTENDS EglGbmLayer

CONSTANTS mode1, mode2

MCSizes == {mode1, mode2}
=============================================================================
