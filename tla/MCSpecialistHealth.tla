------------------------- MODULE MCSpecialistHealth -------------------------
(* An instance of SpecialistHealth for the model checker.                  *)
EXTENDS SpecialistHealth

CONSTANTS pdf, audio

\* None, one, and more than fit in processTrackerChan.
MCConfigLists == {<<>>, <<pdf>>, <<pdf, audio>>}
=============================================================================
