----------------------------- MODULE SpamFilter -----------------------------
(***************************************************************************)
(* The receive side filter of a Connection: receiveMessageCycle counts, in *)
(* the map msgSpamCount, how often each message id arrived, and hands a    *)
(* frame on only when the count it gets back is one.  The queue            *)
(* receivedMsgId remembers in which order ids entered the map; once it is  *)
(* SpamStoreThreshold long its head leaves both.                           *)
(*                                                                         *)
(* Only the goroutine of receiveMessageCycle touches this state (the       *)
(* comments in the code rely on it), so one arriving frame is one step.    *)
(***************************************************************************)
EXTENDS Integers, Sequences

CONSTANTS
    MsgId,         \* the ids a frame may carry (uint64 in the code)
    Threshold,     \* SpamStoreThreshold
    CountMod,      \* 2^32: the counts are uint32 and wrap
    MaxProcessed   \* bound on the history, so that TLC's state space is finite

ASSUME ThresholdAssumption == Threshold \in Nat \ {0}
ASSUME CountModAssumption == CountMod \in Nat /\ CountMod >= 2
ASSUME MaxProcessedAssumption == MaxProcessed \in Nat

VARIABLES
    receivedMsgId,  \* the queue of remembered ids, oldest first
    msgSpamCount,   \* the map from remembered ids to their counts
    processed,      \* history: the ids handed on to the switch, in order
    wrapped         \* history: some count went round to zero

vars == <<receivedMsgId, msgSpamCount, processed, wrapped>>

Remembered == {receivedMsgId[k] : k \in 1 .. Len(receivedMsgId)}

\* A lookup of an id the map does not hold yields zero.
SpamCount(id) == IF id \in DOMAIN msgSpamCount THEN msgSpamCount[id] ELSE 0

\* Faulty: a count as wide as it needs to be, where the code has 32 bits.
CountUnbounded(id) == SpamCount(id) + 1

\* The value increamentMsgSpamCount stores and returns.
NextCount(id) == (SpamCount(id) + 1) % CountMod

CountAfter(id) ==
    [k \in DOMAIN msgSpamCount \union {id} |->
        IF k = id THEN NextCount(id) ELSE msgSpamCount[k]]

Without(f, id) == [k \in DOMAIN f \ {id} |-> f[k]]

\* Faulty: the queue forgets its head, the map keeps it.
ForgetFromQueueOnly(queue, count) ==
    IF Len(queue) >= Threshold
    THEN receivedMsgId' = Tail(queue) /\ msgSpamCount' = count
    ELSE receivedMsgId' = queue /\ msgSpamCount' = count

\* Faulty: the window is one id too short.
ForgetEarly(queue, count) ==
    IF Len(queue) + 1 >= Threshold
    THEN receivedMsgId' = Tail(queue) /\ msgSpamCount' = Without(count, Head(queue))
    ELSE receivedMsgId' = queue /\ msgSpamCount' = count

\* checkSpamQueueCapacity, on the queue and the map just written to.
ForgetOldest(queue, count) ==
    IF Len(queue) >= Threshold
    THEN /\ receivedMsgId' = Tail(queue)
         /\ msgSpamCount' = Without(count, Head(queue))
    ELSE /\ receivedMsgId' = queue
         /\ msgSpamCount' = count

TypeOK ==
    /\ receivedMsgId \in Seq(MsgId)
    /\ DOMAIN msgSpamCount \subseteq MsgId
    /\ \A id \in DOMAIN msgSpamCount : msgSpamCount[id] \in 0 .. CountMod - 1
    /\ processed \in Seq(MsgId)
    /\ wrapped \in BOOLEAN

Init ==
    /\ receivedMsgId = <<>>
    /\ msgSpamCount = [id \in {} |-> 0]
    /\ processed = <<>>
    /\ wrapped = FALSE

\* The count is one: the id enters the queue and the frame is handed on.
Process(id) ==
    /\ Len(processed) < MaxProcessed
    /\ NextCount(id) = 1
    /\ ForgetOldest(Append(receivedMsgId, id), CountAfter(id))
    /\ processed' = Append(processed, id)
    /\ UNCHANGED wrapped

\* Any other count: the frame is ignored, but it was counted.
Ignore(id) ==
    /\ NextCount(id) # 1
    /\ msgSpamCount' = CountAfter(id)
    /\ wrapped' = (wrapped \/ NextCount(id) = 0)
    /\ UNCHANGED <<receivedMsgId, processed>>

Next == \E id \in MsgId : Process(id) \/ Ignore(id)

Spec == Init /\ [][Next]_vars

-----------------------------------------------------------------------------

\* The map and the queue describe one bounded window: whatever ids a peer sends,
\* the map holds only queued ids and at most Threshold - 1 ids are queued; and as
\* long as no count wrapped, the map holds exactly the queued ids and none is
\* queued twice.  receiveMessageCycle relies on this when it forgets the head of
\* the queue: were an id queued twice, forgetting it once would forget an id that
\* is still in the window; were an id only in the map, it would stay there for
\* ever (connection.go:211-219, 721-731).
WindowExact ==
    /\ DOMAIN msgSpamCount \subseteq Remembered
    /\ Len(receivedMsgId) < Threshold
    /\ ~wrapped =>
          /\ DOMAIN msgSpamCount = Remembered
          /\ \A i, j \in 1 .. Len(receivedMsgId) :
                receivedMsgId[i] = receivedMsgId[j] => i = j

\* What the filter is for: two frames with the same id are both handed on only
\* if at least Threshold - 1 other frames were handed on in between
\* (connection.go:211-219).
NoRedelivery ==
    ~wrapped =>
        \A i, j \in 1 .. Len(processed) :
            i < j /\ processed[i] = processed[j] => j - i >= Threshold

=============================================================================
