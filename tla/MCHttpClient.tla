----------------------------- MODULE MCHttpClient -----------------------------
(* Instances of HttpClientProps for TLC; MCHttpClient_*.cfg use it. *)
EXTENDS HttpClientProps
=============================================================================
