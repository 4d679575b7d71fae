------------------------- MODULE MCDocumentAnalysis --------------------------
(* Model checking of DocumentAnalysis: callbacks are interchangeable in the  *)
(* safety runs.                                                              *)
EXTENDS DocumentAnalysis, TLC

InterchangeableWorks == Permutations(Works)
=============================================================================
