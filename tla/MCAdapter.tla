----------------------------- MODULE MCAdapter -----------------------------
EXTENDS Adapter
=============================================================================
