---------------------------- MODULE MCSignInBoth ----------------------------
(* SignInBoth on the instance of MCSignIn.                                 *)
EXTENDS SignInBoth, MCSignIn

\* What tells states apart: where not strict, nothing checked reads the count.
Distinct ==
    <<row, challenge, request, owed, granted, past, IF strict THEN guesses ELSE 0, strict>>
=============================================================================
