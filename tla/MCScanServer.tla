---------------------------- MODULE MCScanServer ----------------------------
(* Instances of ScanServer, and with it of RateLimiter, for TLC. *)
EXTENDS ScanServer
==============================================================================
