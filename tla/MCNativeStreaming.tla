------------------------- MODULE MCNativeStreaming -------------------------
EXTENDS NativeStreaming
=============================================================================
