-------------------------- MODULE MCDesiredTraffic --------------------------
\* A small instance of DesiredTraffic.
EXTENDS DesiredTraffic
=============================================================================
