--------------------------- MODULE MCLivePipeline ---------------------------
\* Instance of LivePipeline for TLC.
EXTENDS LivePipeline
=============================================================================
