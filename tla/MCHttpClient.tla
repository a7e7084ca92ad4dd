---------------------------- MODULE MCHttpClient ----------------------------
(* The instance of HttpClient for TLC is given by HttpBlock.cfg alone: a   *)
(* socket that fills with the first request, and no failures.              *)
EXTENDS HttpClient
=============================================================================
