---------------------------- MODULE MCKpiStore ----------------------------
EXTENDS KpiStore

\* Two tracked materials.
MCTracked == <<"M-1001", "M-1042">>

=============================================================================
