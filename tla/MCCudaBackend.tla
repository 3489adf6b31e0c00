--------------------------- MODULE MCCudaBackend ---------------------------
EXTENDS CudaBackend
=============================================================================
