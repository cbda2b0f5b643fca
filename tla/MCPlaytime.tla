---------------------------- MODULE MCPlaytime ------------------------------
\* Instance for TLC: two sessions of one folder, two of its processes.
EXTENDS Playtime
=============================================================================
