---------------------------- MODULE MCFFIParamsCodec ----------------------------
EXTENDS FFIParamsCodec

CONSTANTS n1, n2, sc1

MCNames == {n1, n2}
MCSchemas == {sc1}
=============================================================================
