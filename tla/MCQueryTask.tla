---------------------------- MODULE MCQueryTask ----------------------------
EXTENDS QueryTask
=============================================================================
