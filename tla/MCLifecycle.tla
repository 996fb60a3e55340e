---------------------------- MODULE MCLifecycle ----------------------------
(* An old and a new process over a loopback port or a Unix socket.         *)
EXTENDS Lifecycle

EitherSetting == {"loopback", "unix"}
=============================================================================
