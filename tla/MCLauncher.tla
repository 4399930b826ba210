------------------------------ MODULE MCLauncher ------------------------------
\* Two topologies one after the other, two stop commands that race.
EXTENDS Launcher
===============================================================================
