------------------------------ MODULE MCNoip2 ------------------------------
EXTENDS Noip2
CONSTANTS home, office, lab, attic

\* Started again by hand, the third configuration finds the slot of the
\* second free when that daemon has ended
MCConfigOf == <<attic, office, home, home>>
=============================================================================
