---------------------------- MODULE MCCloudRelay ----------------------------
EXTENDS CloudRelay, TLC
=============================================================================
