------------------------------- MODULE MCDht -------------------------------
EXTENDS Dht

\* Both signs, both bytes of each quantity, and the ends of the ranges.
MCQuantities == {<<13, -21>>, <<30, 11>>, <<1, 0>>, <<0, -31>>}
=============================================================================
