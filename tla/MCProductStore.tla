-------------------------- MODULE MCProductStore --------------------------
(* Instances of ProductStore for TLC; see the ProductStore*.cfg files.      *)
EXTENDS ProductStore
=============================================================================
