------------------------------- MODULE Nothing -------------------------------
(* The value that stands for the absence of one: an empty option, a missing   *)
(* file, a row that is not there.                                             *)
CONSTANT None
=============================================================================
