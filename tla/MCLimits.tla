------------------------------- MODULE MCLimits -------------------------------
(* Two callers over eight ticks, a burst of three ticks' worth and requests  *)
(* of two units: a late caller overdraws the bucket.  Two requests under way *)
(* over three lives of a nonce, and one nonce more than the cache may hold.  *)
EXTENDS Limits

MCNonce == 1..(NonceBurst + NonceTTL + Cardinality(Caller) + 1)
=============================================================================
