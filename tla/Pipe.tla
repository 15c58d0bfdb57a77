-------------------------------- MODULE Pipe --------------------------------
(***************************************************************************)
(* What one end of a pipe may expect of the other: items come out in the   *)
(* order in which they were put in, each at most once and as it was put    *)
(* in.  Several may come out together.  Of a pipe that skips, some never   *)
(* come out; of another none is left out.                                  *)
(*                                                                         *)
(* Mailbox implements a pipe of messages that does not skip, Wire one of   *)
(* frames, which skips where a Read of the stream may return more than one *)
(* write.                                                                  *)
(***************************************************************************)
EXTENDS Integers, Sequences

CONSTANT Item

VARIABLES
    put,    \* the items put in, in order
    taken,  \* the items that came out, in order
    last,   \* the place in put of the last of them
    skips   \* whether items may be left out

vars == <<put, taken, last, skips>>

Init ==
    /\ put = <<>>
    /\ taken = <<>>
    /\ last = 0
    /\ skips \in BOOLEAN

Put ==
    /\ \E item \in Item : put' = Append(put, item)
    /\ UNCHANGED <<taken, last, skips>>

Take ==
    \E first \in last + 1 .. Len(put) : \E end \in first .. Len(put) :
        /\ first = last + 1 \/ skips
        /\ taken' = taken \o SubSeq(put, first, end)
        /\ last' = end
        /\ UNCHANGED <<put, skips>>

Next == Put \/ Take

Spec == Init /\ [][Next]_vars

=============================================================================
