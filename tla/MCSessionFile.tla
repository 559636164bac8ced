---------------------------- MODULE MCSessionFile ----------------------------
EXTENDS SessionFile, TLC

CONSTANTS s1, s2

MCSavers == {s1, s2}
SaverSymmetry == Permutations(MCSavers)
==============================================================================
