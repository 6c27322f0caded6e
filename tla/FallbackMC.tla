----------------------------- MODULE FallbackMC -----------------------------
EXTENDS Fallback
=============================================================================
