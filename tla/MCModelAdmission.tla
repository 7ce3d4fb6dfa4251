-------------------------- MODULE MCModelAdmission --------------------------
EXTENDS ModelAdmission
=============================================================================
