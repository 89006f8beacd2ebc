------------------------------- MODULE MCTimer -------------------------------
(***************************************************************************)
(* An instance of TimerManager.  One timer expires with every tick and one *)
(* after two, and the tick counter wraps round with every third.           *)
(***************************************************************************)
EXTENDS TimerManager

ThreeTimers == {"fast", "once", "odd"}
ThreeExpires == [fast |-> 5, once |-> 10, odd |-> 3]
CallingBack == [fast |-> "cancel", once |-> "add", odd |-> "none"]
=============================================================================
