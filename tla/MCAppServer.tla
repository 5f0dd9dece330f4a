---------------------------- MODULE MCAppServer -----------------------------
(* Two cleanup functions, so that a run can be between them; two signals: one *)
(* that starts the shutdown and one that meets it or comes when the handlers  *)
(* have been restored.                                                        *)
EXTENDS AppServer
=============================================================================
