-------------------------------- MODULE MCXDS --------------------------------
\* Model values and interests for checking XDS.
EXTENDS XDS

CONSTANTS a, b, v1, g1

MCSotwInterests == {{}, {a}}
MCDeltaInterests == {{Star}, {a}}
MCGrowing == {{a}, {a, b}}
MCShifting == {{a}, {a, b}, {b}}
=============================================================================
