---------------------------- MODULE MCWorkQueue ----------------------------
EXTENDS WorkQueue

CONSTANTS k1, k2, w1, w2

MCKeys == {k1, k2}
MCWorkers == {w1, w2}
============================================================================
