--------------------------- MODULE MCNativeChannel ---------------------------
\* Instance of NativeChannel for TLC.
EXTENDS NativeChannel
=============================================================================
