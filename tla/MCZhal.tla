------------------------------- MODULE MCZhal -------------------------------
EXTENDS Zhal, TLC

CONSTANTS r1, r2, r3, d1, d2

\* Two requests share a device; the third has one to itself.
MCDeviceOf == (r1 :> d1) @@ (r2 :> d1) @@ (r3 :> d2)
=============================================================================
