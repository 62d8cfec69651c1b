-------------------------- MODULE MCBarCollector --------------------------
(* One series of the fixed grid, one of the arm's.                          *)
EXTENDS BarCollector

GridSeries == {"grid"}
ArmSeries  == {"arm"}
NoSeries   == {}
=============================================================================
