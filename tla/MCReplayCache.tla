---------------------------- MODULE MCReplayCache ----------------------------
(* Two callers of one cache: a subject token, and two DPoP proofs that share *)
(* a jti but not their iat, whose raw jti is that of the token.              *)
EXTENDS ReplayCache, TLC

CONSTANTS p1, p2

MCKey == {"j", "dpop:j"}

MCClaim == { [jti |-> "j",      exp |-> 1, aliases |-> {}],
             [jti |-> "dpop:j", exp |-> 1, aliases |-> {"j"}],
             [jti |-> "dpop:j", exp |-> 3, aliases |-> {"j"}] }

Symmetry == Permutations({p1, p2})
=============================================================================
