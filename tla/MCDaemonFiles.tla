---------------------------- MODULE MCDaemonFiles ----------------------------
(* DaemonFiles with two proxies; the cfg files choose what may happen.     *)
EXTENDS DaemonFiles, TLC

Symmetric == Permutations(Proxies)
=============================================================================
