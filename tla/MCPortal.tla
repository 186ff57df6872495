------------------------------ MODULE MCPortal ------------------------------
(***************************************************************************)
(* A small instance of Portal for TLC.                                     *)
(***************************************************************************)
EXTENDS Portal

MCCall == 1 .. 2
MCAccounts == {[x509 |-> "until-expiry", proxy |-> TRUE, krb5 |-> "keytab", iam |-> TRUE]}
MCToken == 1 .. 2

=============================================================================
