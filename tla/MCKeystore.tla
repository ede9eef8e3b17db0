----------------------------- MODULE MCKeystore -----------------------------
EXTENDS KeystoreSync
=============================================================================
