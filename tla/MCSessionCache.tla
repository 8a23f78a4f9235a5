--------------------------- MODULE MCSessionCache ---------------------------
\* The log has up to three events, so that a thread runs, ends and is written to again.
EXTENDS SessionCache
=============================================================================
