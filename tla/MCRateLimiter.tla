--------------------------- MODULE MCRateLimiter ---------------------------
(***************************************************************************)
(* Two clients and a short time for the model checker.  The clients may be *)
(* exchanged: no property tells them apart, and none is about liveness.    *)
(***************************************************************************)
EXTENDS RateLimiter, TLC

CONSTANTS a, b

ClientSymmetry == Permutations(Clients)

=============================================================================
