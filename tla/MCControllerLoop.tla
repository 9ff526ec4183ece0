-------------------------- MODULE MCControllerLoop --------------------------
\* Small instances of ControllerLoop: the controllers and the bounds are in the .cfg files.
EXTENDS ControllerLoop
=============================================================================
