------------------------------ MODULE MCJbodDisk ------------------------------
(* A JBOD of two blocks, of one and two sectors, which may grow to four.        *)
EXTENDS JbodDisk

TwoBlocks == <<1, 2>>
===============================================================================
