--------------------------- MODULE MCSessionResume ---------------------------
\* Three streams: a first connection, a resume that overlaps its teardown, and
\* a third after a lost Welcome or a restart.
EXTENDS SessionResume
=============================================================================
