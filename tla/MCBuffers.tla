----------------------------- MODULE MCBuffers ------------------------------
EXTENDS Buffers
=============================================================================
