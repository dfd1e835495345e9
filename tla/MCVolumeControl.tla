-------------------------- MODULE MCVolumeControl ---------------------------
EXTENDS VolumeControl
=============================================================================
