-------------------------- MODULE MCSessionManager --------------------------
(***************************************************************************)
(* Instances of SessionManager for TLC.                                    *)
(***************************************************************************)
EXTENDS SessionProperties, TLC

\* Requests are interchangeable: none is named by the specification.
RequestSymmetry == Permutations(Request)
=============================================================================
