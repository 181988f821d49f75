----------------------------- MODULE MCLineage -----------------------------
EXTENDS Lineage
=============================================================================
