------------------------------ MODULE MCFfiCalls ------------------------------
(* TLC instance of FfiCalls.                                                *)
EXTENDS FfiCalls
=============================================================================
