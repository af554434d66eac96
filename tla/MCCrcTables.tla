------------------------------ MODULE MCCrcTables ------------------------------
(* Two goroutines, an algorithm that reflects and one that does not, and     *)
(* pieces of one and two bytes that set the highest and the lowest bit.      *)
EXTENDS CrcTables

\* The published check value of each algorithm, those that no goroutine of the
\* run uses included.
ASSUME ChecksAssumption == CheckValues

SomeChunks == {<<129>>, <<0, 254>>}
=============================================================================
