------------------------------ MODULE MCReaper ------------------------------
EXTENDS Reaper
=============================================================================
