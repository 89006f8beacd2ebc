------------------------------- MODULE BaseMsg -------------------------------
(***************************************************************************)
(* Messages of src/src/include/msg.h and packets of net_msg.cpp, as far as *)
(* their lengths go.  A message is the vector's size and capacity, curr_   *)
(* (the end of the header room), tail_, and the frames filled in so far;   *)
(* the bytes behind tail_ are zero.  FilledBytes of the derived class is   *)
(* tail_.  A frame is a packet with its length and IP version.             *)
(***************************************************************************)
EXTENDS Integers, Sequences, Functions

MinIPHeader == 20

\* BaseMsg(len): a vector of len bytes.
NewMsg(len) == [size |-> len, capacity |-> len, curr |-> 0, tail |-> 0, frames |-> <<>>]

\* A vector grows its capacity when it has to, and never gives it back.
Resize(m, sz) == [m EXCEPT !.size = sz, !.capacity = IF sz > @ THEN sz ELSE @]

ReserveHeader(m, sz) ==
    IF sz > m.capacity THEN m ELSE [m EXCEPT !.curr = @ + sz, !.tail = @ + sz]

\* fill; where the bytes do not fit, a release build does nothing.
Fill(m, frame) ==
    IF m.tail + frame.size <= m.capacity
    THEN [m EXCEPT !.frames = Append(@, frame), !.tail = @ + frame.size]
    ELSE m

\* What op makes of base and the members of seq, taken from the first to the last.
Fold(op(_, _), base, seq) ==
    LET upto[i \in 0 .. Len(seq)] == IF i = 0 THEN base ELSE op(upto[i - 1], seq[i])
    IN  upto[Len(seq)]

\* The sequences in a sequence, one behind the other.
Joined(seqs) == Fold(LAMBDA s, t : s \o t, <<>>, seqs)

\* How long the frames are together.
Bytes(frames) == Fold(LAMBDA n, p : n + p.size, 0, frames)

\* Mutant: the version is looked at in packets of any length.
IsIPv4Short(p) == p.version = 4

IsIPv4(p) == p.size >= MinIPHeader /\ p.version = 4

\* decode: the address in an IPv4 header, otherwise what the member happens to hold.
DstAddr(p, addresses) ==
    IF p.size >= MinIPHeader /\ p.version = 4 THEN {p.dst} ELSE addresses

\* FDWrite's loop leaves a rest of at most this many bytes alone.
MinRest == MinIPHeader

\* Mutant: a frame that ends with the buffer is taken for too long.
NextFrameOffByOne(s, f, size) ==
    IF s.left \/ f.version \notin {4, 6} \/ s.pos + f.size >= size
    THEN [s EXCEPT !.left = TRUE]
    ELSE [written |-> Append(s.written, f), pos |-> s.pos + f.size,
          left |-> size - (s.pos + f.size) <= MinRest]

\* One turn of FDWrite's loop: write frame f, which starts at s.pos, or leave.
\* The length in a frame's header is its length, as of every packet a Tun reads.
NextFrame(s, f, size) ==
    IF s.left \/ f.version \notin {4, 6} \/ s.pos + f.size > size
    THEN [s EXCEPT !.left = TRUE]
    ELSE [written |-> Append(s.written, f), pos |-> s.pos + f.size,
          left |-> size - (s.pos + f.size) <= MinRest]

\* Tun::FDWrite: the frames it writes to the device from a buffer of this size.
FDWrite(frames, size) ==
    Fold(LAMBDA s, f : NextFrame(s, f, size),
         [written |-> <<>>, pos |-> 0, left |-> FALSE], frames).written
=============================================================================
