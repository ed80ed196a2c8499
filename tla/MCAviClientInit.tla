---------------------------- MODULE MCAviClientInit ----------------------------
EXTENDS AviClientInit, TLC
CONSTANTS a1, a2, k1, k2, x1, x2, y1

TwoControllers == (a1 :> k1) @@ (a2 :> k2)
TwoCAs == (a1 :> {x1, x2}) @@ (a2 :> {y1})
=============================================================================
