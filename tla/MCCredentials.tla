----------------------------- MODULE MCCredentials -----------------------------
(***************************************************************************)
(* A small instance of Credentials: the keys of two businesses and a phone *)
(* of either, with tokens of one prefix.                                   *)
(***************************************************************************)
EXTENDS Credentials, TLC

CONSTANTS b1, b2, k1, k2, d1, t1, t2, r1, r2, a1, a2, v1

\* Tokens with the same first four random characters.
OnePrefix == [t \in Tokens |-> "vpk_AAAA"]

\* Nothing tells two tenants apart, two of their credentials, two tokens of one
\* prefix, two requests or two calls.
Symmetry ==
  Permutations(Businesses) \cup Permutations(Keys) \cup Permutations(Tokens)
    \cup Permutations(Requests) \cup Permutations(Calls)
================================================================================
