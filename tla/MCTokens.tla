------------------------------- MODULE MCTokens -------------------------------
(* Requests, phones and tokens are interchangeable.                        *)
EXTENDS Tokens, TLC

Symmetry ==
  Permutations(Completion) \cup Permutations(TokenRequest)
    \cup Permutations(Phone) \cup Permutations(PairingToken)
    \cup Permutations(Desktop)
=============================================================================
