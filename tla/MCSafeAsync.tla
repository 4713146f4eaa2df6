------------------------------ MODULE MCSafeAsync ------------------------------
(* The queue with a few threads and calls of begin_to.                         *)
EXTENDS SafeAsync
===============================================================================
