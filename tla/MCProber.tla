------------------------------ MODULE MCProber ------------------------------
EXTENDS Prober
=============================================================================
