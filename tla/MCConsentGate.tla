---------------------------- MODULE MCConsentGate --------------------------
\* Instances of ConsentGate for model checking; the constants are in the cfg files.
EXTENDS ConsentGate
=============================================================================
