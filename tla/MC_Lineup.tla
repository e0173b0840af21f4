------------------------------- MODULE MC_Lineup -------------------------------
EXTENDS Lineup, TLC

=============================================================================
