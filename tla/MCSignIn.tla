------------------------------ MODULE MCSignIn ------------------------------
EXTENDS SignIn

CONSTANTS p1, p2

Processes == {p1, p2}

=============================================================================
