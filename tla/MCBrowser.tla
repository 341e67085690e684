----------------------------- MODULE MCBrowser -----------------------------
(* Browser with the cookie's path that settings.py sets.                   *)
EXTENDS Browser

DefaultPath == {<<"v1", "token">>}
=============================================================================
