------------------------------ MODULE MCOtaBoot ------------------------------
(* Two boots and bursts of up to two lines: enough for a command behind    *)
(* noise, and for a boot into recovery after one that was normal.          *)
EXTENDS OtaBoot
=============================================================================
