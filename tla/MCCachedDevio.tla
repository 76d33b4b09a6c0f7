--------------------------- MODULE MCCachedDevio ---------------------------
(* A small instance of CachedDevio.  *)
EXTENDS CachedDevio, TLC

CONSTANTS w1, w2, r1, f1, f2

MCWrites == {w1, w2}
MCWis == MCWrites \cup {r1}
MCFlushes == {f1, f2}

============================================================================
