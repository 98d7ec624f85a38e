-------------------------- MODULE MCAuthorityGrant --------------------------
(* Model-checking instance of AuthorityGrant.                              *)
EXTENDS AuthorityGrant

CONSTANTS c1, c2        \* model values for Callers
=============================================================================
