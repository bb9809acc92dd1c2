---------------------------- MODULE MCConnectRetry ----------------------------
(***************************************************************************)
(* ConnectRetry for TLC: two hosts, a worker for each, two retries; no     *)
(* symmetry, since the run checks liveness too.                            *)
(***************************************************************************)
EXTENDS ConnectRetry, TLC

=============================================================================
