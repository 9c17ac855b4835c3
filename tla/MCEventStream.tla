--------------------------- MODULE MCEventStream ---------------------------
EXTENDS EventStream
============================================================================
