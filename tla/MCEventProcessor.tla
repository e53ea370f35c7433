-------------------------- MODULE MCEventProcessor --------------------------
EXTENDS EventProcessor

CONSTANTS u1, u2, c1

E(kind, user, tracked, debug) ==
  [kind |-> kind, user |-> user, tracked |-> tracked, debug |-> debug, counter |-> c1]

MCEvent ==
  {E("feature", u1, FALSE, TRUE), E("feature", u2, TRUE, FALSE),
   E("identify", u1, FALSE, FALSE), E("custom", NoUser, FALSE, FALSE)}
=============================================================================
