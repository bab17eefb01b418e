--------------------------- MODULE MCCredentialStore ---------------------------
(* CredentialStore alone. *)
EXTENDS CredentialStore
=============================================================================
