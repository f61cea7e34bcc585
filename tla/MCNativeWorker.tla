--------------------------- MODULE MCNativeWorker ---------------------------
\* A small instance of NativeWorker.
EXTENDS NativeWorker

=============================================================================
