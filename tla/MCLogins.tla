------------------------------- MODULE MCLogins -------------------------------
(* Two browsers, two providers with one subject each, and the bootstrap user. *)
EXTENDS Logins
=============================================================================
