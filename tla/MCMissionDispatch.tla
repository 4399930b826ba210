-------------------------- MODULE MCMissionDispatch --------------------------
\* Two Servers, so that one may block a row whose run the other has leased; two
\* start requests with one key or two; two faults, so that a connection is lost
\* around a restart.
EXTENDS MissionDispatch
=============================================================================
