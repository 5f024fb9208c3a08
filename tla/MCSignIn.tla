--------------------------------- MODULE MCSignIn ---------------------------------
(***************************************************************************)
(* SignIn on a small instance: two browsers, two signing keys, two          *)
(* organisations.  The browsers are interchangeable.                        *)
(***************************************************************************)
EXTENDS SignIn, TLC

CONSTANTS b1, b2

Symmetry == Permutations({b1, b2})
================================================================================
