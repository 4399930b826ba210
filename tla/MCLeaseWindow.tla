--------------------------- MODULE MCLeaseWindow ----------------------------
(* LeaseWindow with a duration of nine time units, so that a renewal       *)
(* interval is three and the safety margin is smaller than an interval, as *)
(* with the defaults (30 s, 10 s, 2 s).  The horizon leaves time for two   *)
(* renewals at their slowest and for all of the lease after them.          *)
EXTENDS LeaseWindow
=============================================================================
