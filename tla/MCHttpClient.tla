---------------------------- MODULE MCHttpClient ----------------------------
(* Two calls, so that one can close or replace the session of the other; two *)
(* retries, so that exceptions and server errors can mix; one caller can     *)
(* begin beyond the limit.                                                   *)
EXTENDS HttpClient
=============================================================================
