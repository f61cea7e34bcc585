-------------------------- MODULE MCStudioSession --------------------------
\* Small instances of StudioSession.
EXTENDS StudioSession

=============================================================================
