----------------------------- MODULE MCMcInput ------------------------------
EXTENDS McInput

MCJobKey == <<"alt", 53>>
MCYes == <<"byte", 121>>
=============================================================================
