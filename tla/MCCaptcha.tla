----------------------------- MODULE MCCaptcha ------------------------------
(* Captcha for TLC: two spellings of one code and another code. *)
EXTENDS Captcha, TLC

CONSTANTS upper, lower, other

MCCodes == {upper, lower, other}
MCLower == (upper :> lower) @@ (lower :> lower) @@ (other :> other)

Symmetry == Permutations(Keys) \union Permutations(Requests)

=============================================================================
