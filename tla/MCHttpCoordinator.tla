-------------------------- MODULE MCHttpCoordinator --------------------------
(* Small instances of HttpCoordinator.                                      *)
EXTENDS HttpCoordinator

CONSTANTS i1, i2, h1, h2, h3

TwoInvocations == {i1, i2}

=============================================================================
