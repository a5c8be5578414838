--------------------------- MODULE MCTouchscreen ----------------------------
(* Instances of Touchscreen for TLC.                                       *)
EXTENDS Touchscreen

CONSTANTS t1, t2

MCTexts == {t1, t2}

AllBuilds == {{}, {"blocks"}, {"slow_boot"}, {"slow_boot", "blocks"}, {"no_display"}}
=============================================================================
