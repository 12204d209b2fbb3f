------------------------- MODULE MCAccessAdmission -------------------------
\* The admission policy on the instances of AdmissionInputs.
EXTENDS AdmissionProperties, AdmissionInputs
=============================================================================
