------------------------------ MODULE MCGetPage ------------------------------
(* Four calls: a connect() cancelled or failed, one that pairs, and two    *)
(* downloads.                                                              *)
EXTENDS GetPage
=============================================================================
