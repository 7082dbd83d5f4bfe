--------------------------- MODULE MCFederatedLog ---------------------------
(* FederatedLog on a small instance: contents are interchangeable.          *)
EXTENDS FederatedLog, TLC

ContentSymmetry == Permutations(Content)
=============================================================================
