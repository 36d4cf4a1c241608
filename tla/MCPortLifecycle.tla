--------------------------- MODULE MCPortLifecycle ---------------------------
(* Two processes and one physical port. *)
EXTENDS PortLifecycle, TLC

CONSTANTS p1, p2

\* One process can only use ppdev, the other has every method to fall back on.
MixedMethods == p1 :> {"ppdev"} @@ p2 :> AccessMethods
=============================================================================
