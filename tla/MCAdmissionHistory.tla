------------------------- MODULE MCAdmissionHistory -------------------------
\* The admission policy and the person's decisions on the instances of
\* AdmissionInputs.
EXTENDS AdmissionHistory, AdmissionInputs
=============================================================================
