--------------------------- MODULE MCAuthentication ---------------------------
(* Instance of Authentication for TLC: users and jobs are model values.     *)
EXTENDS Authentication, TLC
=============================================================================
