------------------------------ MODULE Mailbox -------------------------------
(***************************************************************************)
(* How messages leave the hub: every connection enqueues what it received  *)
(* (ProcessMessage), and the application's Hub.Get calls GetMessages with  *)
(* a buffer of its own, which the hub fills with as many messages from the *)
(* head of the queue as fit.  A call that finds messages but none that     *)
(* fits returns zero; Get then doubles the buffer and calls again.         *)
(*                                                                         *)
(* GetMessages holds the hub's mutex, ProcessMessage does not: messages    *)
(* arrive while a call drains the queue.  Get is called by one thread.     *)
(* Sizes are far below 2^31, where the arithmetic of either side would     *)
(* wrap.                                                                   *)
(***************************************************************************)
EXTENDS Integers, Sequences

CONSTANTS
    Msg,             \* messages, each received once
    Size,            \* their lengths
    Header,          \* length of the prefix each gets in the buffer: 4
    InitialBuffer    \* initialBufferSize

ASSUME SizeAssumption ==
    /\ Size \in [Msg -> Nat]
    /\ Header \in Nat
    /\ InitialBuffer \in Nat \ {0}

VARIABLES
    messages,    \* the hub's queue
    buffer,      \* length of Hub.Get's buffer
    reading,     \* a call of GetMessages is under way
    remaining,   \* messages the call may still copy: n - i
    ptr,         \* length of what it has copied
    batch,       \* what it has copied
    received,    \* history: messages enqueued
    got          \* history: messages Get returned

vars == <<messages, buffer, reading, remaining, ptr, batch, received, got>>

Elements(s) == {s[k] : k \in 1 .. Len(s)}

TypeOK ==
    /\ messages \in Seq(Msg)
    /\ buffer \in Nat \ {0}
    /\ reading \in BOOLEAN
    /\ remaining \in 0 .. Len(messages)
    /\ ptr \in 0 .. buffer
    /\ batch \in Seq(Msg)
    /\ received \in Seq(Msg)
    /\ got \in Seq(Msg)

Init ==
    /\ messages = <<>>
    /\ buffer = InitialBuffer
    /\ reading = FALSE
    /\ remaining = 0
    /\ ptr = 0
    /\ batch = <<>>
    /\ received = <<>>
    /\ got = <<>>

\* A connection received a message.
ProcessMessage(m) ==
    /\ m \notin Elements(received)
    /\ messages' = Append(messages, m)
    /\ received' = Append(received, m)
    /\ UNCHANGED <<buffer, reading, remaining, ptr, batch, got>>

\* Get calls GetMessages, which reads the length of the queue once.  Of an empty
\* queue Get returns nothing, which changes nothing.
GetMessages ==
    /\ ~reading
    /\ messages # <<>>
    /\ reading' = TRUE
    /\ remaining' = Len(messages)
    /\ UNCHANGED <<messages, buffer, ptr, batch, received, got>>

Fits(m) == ptr + Size[m] + Header <= buffer

Copy ==
    /\ messages' = Tail(messages)
    /\ batch' = Append(batch, Head(messages))
    /\ ptr' = ptr + Size[Head(messages)] + Header
    /\ remaining' = remaining - 1
    /\ UNCHANGED <<buffer, reading, received, got>>

\* Faulty: what arrives during the call is copied too.
CopyAll == reading /\ messages # <<>> /\ Fits(Head(messages)) /\ Copy

\* The next message fits and moves to the buffer.
CopyMessage == reading /\ remaining > 0 /\ Fits(Head(messages)) /\ Copy

\* The next message does not fit.
Overflow == remaining > 0 /\ ~Fits(Head(messages))

EndCall ==
    /\ reading' = FALSE
    /\ remaining' = 0
    /\ ptr' = 0
    /\ batch' = <<>>

\* Faulty: the message that does not fit was removed before its size was tested.
ReturnLosingOne ==
    /\ reading
    /\ remaining = 0 \/ Overflow
    /\ batch # <<>>
    /\ got' = got \o batch
    /\ messages' = IF Overflow THEN Tail(messages) ELSE messages
    /\ EndCall
    /\ UNCHANGED <<buffer, received>>

\* The call copied something: Get returns it.
ReturnBatch ==
    /\ reading
    /\ remaining = 0 \/ Overflow
    /\ batch # <<>>
    /\ got' = got \o batch
    /\ EndCall
    /\ UNCHANGED <<messages, buffer, received>>

\* Faulty: the buffer grows whenever a message did not fit.
GrowOnOverflow ==
    /\ reading
    /\ Overflow
    /\ buffer' = 2 * buffer
    /\ got' = got \o batch
    /\ EndCall
    /\ UNCHANGED <<messages, received>>

\* Faulty: the call is repeated with the same buffer.
TryAgain ==
    /\ reading
    /\ Overflow
    /\ batch = <<>>
    /\ EndCall
    /\ UNCHANGED <<messages, buffer, received, got>>

\* The call copied nothing: the buffer is doubled.
Grow ==
    /\ reading
    /\ Overflow
    /\ batch = <<>>
    /\ buffer' = 2 * buffer
    /\ EndCall
    /\ UNCHANGED <<messages, received, got>>

Get == GetMessages \/ CopyMessage \/ ReturnBatch \/ Grow

Next == (\E m \in Msg : ProcessMessage(m)) \/ Get

Spec == Init /\ [][Next]_vars

\* The application keeps calling Get, and a call that was made runs.
FairSpec == Spec /\ WF_vars(Get)

-----------------------------------------------------------------------------

\* The application gets what the hub received, in that order, nothing twice and
\* nothing left out, although messages arrive while a call drains the queue and a
\* call may end at any message (embedded_hub.go:76-113, Hub.cs:123-137).
NothingLost == received = (got \o batch) \o messages

AbstractQueue == INSTANCE Pipe WITH
    Item <- Msg, put <- received, taken <- got, last <- Len(got), skips <- FALSE

\* What the application is given is a queue's, batch by batch: a call returns the
\* messages behind the last it was given before, as many as fit, and a call that
\* returns nothing and one that only copies change nothing the application or a
\* connection could see (embedded_hub.go:76-113, Hub.cs:111-145).
ImplementsQueue == AbstractQueue!Spec

\* Get never has a buffer more than twice as large as some message needed: many
\* small messages do not make it grow (embedded_hub.go:95-98, Hub.cs:122-144).
BufferBounded ==
    \/ buffer = InitialBuffer
    \/ \E m \in Elements(received) : buffer < 2 * (Size[m] + Header)

\* Every message the hub received gets to the application, however large
\* (embedded_hub.go:84-112, Hub.cs:111-145).
AllGot == \A m \in Msg : m \in Elements(received) ~> m \in Elements(got)

=============================================================================
