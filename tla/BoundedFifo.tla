----------------------------- MODULE BoundedFifo -----------------------------
(***************************************************************************)
(* What the queue of src/src/include/queue.h promises to the channels, the *)
(* nodes and the timer pool that are built on it: a bounded FIFO buffer    *)
(* whose calls take effect atomically between their invocation and their   *)
(* return, and that can be closed.  There are no locks, no condition       *)
(* variable and no timeouts here.                                          *)
(*                                                                         *)
(* A call is "none", "open" while it can still succeed, and "void" once it *)
(* can only return false.  Closing voids every call but those that may     *)
(* already be past the test of the flag; a call made after the closing is  *)
(* void from the start.                                                    *)
(***************************************************************************)
EXTENDS Naturals, Sequences

CONSTANTS Writers, Readers, Values, Bound

VARIABLES
    items,   \* the buffered values, the oldest first
    closed,
    gone,    \* the buffer has been destroyed
    call,    \* the state of each client's call
    val      \* what each writer offers

fifoVars == <<items, closed, gone, call, val>>

Clients == Writers \cup Readers

FifoInit ==
    /\ items = <<>>
    /\ closed = FALSE
    /\ gone = FALSE
    /\ call = [c \in Clients |-> "none"]
    /\ val \in [Writers -> Values]

Invoke(c) ==
    /\ ~gone
    /\ call[c] = "none"
    /\ call' = [call EXCEPT ![c] = IF closed THEN "void" ELSE "open"]
    /\ \/ /\ c \in Writers
          /\ \E v \in Values : val' = [val EXCEPT ![c] = v]
       \/ /\ c \in Readers
          /\ UNCHANGED val
    /\ UNCHANGED <<items, closed, gone>>

\* A writer's value leaves its hands when the call returns.
Returned(c) ==
    /\ call' = [call EXCEPT ![c] = "none"]
    /\ \/ /\ c \in Writers
          /\ \E v \in Values : val' = [val EXCEPT ![c] = v]
       \/ /\ c \in Readers
          /\ UNCHANGED val

Put(w) ==
    /\ call[w] = "open"
    /\ Len(items) < Bound
    /\ items' = Append(items, val[w])
    /\ Returned(w)
    /\ UNCHANGED <<closed, gone>>

Get(r) ==
    /\ call[r] = "open"
    /\ items # <<>>
    /\ items' = Tail(items)
    /\ Returned(r)
    /\ UNCHANGED <<closed, gone>>

Void(c) ==
    /\ closed
    /\ call[c] = "open"
    /\ call' = [call EXCEPT ![c] = "void"]
    /\ UNCHANGED <<items, closed, gone, val>>

Refuse(c) ==
    /\ call[c] = "void"
    /\ Returned(c)
    /\ UNCHANGED <<items, closed, gone>>

Close ==
    /\ closed' = TRUE
    /\ \E V \in SUBSET {c \in Clients : call[c] = "open"} :
          call' = [c \in Clients |-> IF c \in V THEN "void" ELSE call[c]]
    /\ UNCHANGED <<items, gone, val>>

Discard ==
    /\ ~gone
    /\ \A c \in Clients : call[c] = "none"
    /\ gone' = TRUE
    /\ closed' = TRUE
    /\ items' = <<>>
    /\ UNCHANGED <<call, val>>

FifoNext ==
    \/ \E c \in Clients : Invoke(c) \/ Void(c) \/ Refuse(c)
    \/ \E w \in Writers : Put(w)
    \/ \E r \in Readers : Get(r)
    \/ Close
    \/ Discard

FifoSafety == FifoInit /\ [][FifoNext]_fifoVars

(***************************************************************************)
(* A call that can return does: a writer's while there is room, a reader's *)
(* while there is something to read, and any call once it is void.         *)
(***************************************************************************)
FifoFairness ==
    /\ \A w \in Writers : WF_fifoVars(Put(w) \/ Void(w) \/ Refuse(w))
    /\ \A r \in Readers : WF_fifoVars(Get(r) \/ Void(r) \/ Refuse(r))

FifoSpec == FifoSafety /\ FifoFairness

=============================================================================
