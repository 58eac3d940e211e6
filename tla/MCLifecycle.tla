----------------------------- MODULE MCLifecycle -----------------------------
\* The process, for TLC.
EXTENDS Lifecycle
=============================================================================
