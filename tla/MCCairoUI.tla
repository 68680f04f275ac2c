----------------------------- MODULE MCCairoUI -----------------------------
EXTENDS CairoUI
=============================================================================
