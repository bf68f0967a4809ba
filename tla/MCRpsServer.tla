---------------------------- MODULE MCRpsServer ----------------------------
(* Four players, for two games at a time, and the smallest pool that can    *)
(* serve them.                                                              *)
EXTENDS RpsServer

=============================================================================
