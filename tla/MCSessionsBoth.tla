--------------------------- MODULE MCSessionsBoth ---------------------------
(* SessionsBoth on the instance of MCSessions.                             *)
EXTENDS SessionsBoth, MCSessions
=============================================================================
