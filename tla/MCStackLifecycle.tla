-------------------------- MODULE MCStackLifecycle --------------------------
\* Small instances of StackLifecycle: the stacks and the bounds are in the .cfg files.
EXTENDS StackLifecycle
=============================================================================
