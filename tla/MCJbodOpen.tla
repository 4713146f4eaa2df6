------------------------------ MODULE MCJbodOpen ------------------------------
(* A JBOD built of two blocks, to which the others may be added.               *)
EXTENDS JbodOpen

CONSTANTS b1, b2

TwoBlocks == <<b1, b2>>
===============================================================================
