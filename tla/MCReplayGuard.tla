---------------------------- MODULE MCReplayGuard ----------------------------
EXTENDS ReplayGuard

MCMessageIds == 0 .. (MaxTime + 1) * TicksPerSecond
=============================================================================
