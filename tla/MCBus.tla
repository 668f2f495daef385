------------------------------- MODULE MCBus -------------------------------
(* The bus on a small instance: three messages, two consumers that crash,  *)
(* come back late or release, and a limit of two attempts.                 *)
EXTENDS Bus
=============================================================================
