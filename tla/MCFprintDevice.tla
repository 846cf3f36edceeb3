--------------------------- MODULE MCFprintDevice ---------------------------
(* Two clients, one of them root (PAM), the other a desktop user's.         *)
EXTENDS FprintDeviceRefinement

CONSTANTS pam, app,      \* clients
          andre, root    \* users

MCUserOf == [c \in {pam, app} |-> IF c = pam THEN root ELSE andre]
=============================================================================
