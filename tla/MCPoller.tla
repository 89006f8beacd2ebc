------------------------------ MODULE MCPoller ------------------------------
(***************************************************************************)
(* Poller with an fd that is waited for without a timeout, with one that   *)
(* has run down when it is registered (RegisterToPoller), and with one     *)
(* longer than a poll.                                                     *)
(***************************************************************************)
EXTENDS Poller

AnyTimeout == {-1, 0, 3}
DuplexTimeout == {0}
=============================================================================
