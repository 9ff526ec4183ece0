-------------------------- MODULE MCStackVersions --------------------------
\* Small instances of StackVersions: the versions and the bounds are in the .cfg files.
EXTENDS StackVersions
=============================================================================
