----------------------------- MODULE MCSdkClient -----------------------------
EXTENDS SdkClient
=============================================================================
