------------------------------ MODULE MCAppMain ------------------------------
(* One reading time that is accepted and one that is refused.                 *)
EXTENDS AppMain

MCIntervals == {30, 7201}
==============================================================================
