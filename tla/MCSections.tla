----------------------------- MODULE MCSections -----------------------------
(* algo_sections over six points: up to three sections, so that the search *)
(* goes both ways and a section can close the gap between two others.      *)
EXTENDS AlgoSections
=============================================================================
