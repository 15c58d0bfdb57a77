-------------------------- MODULE SpamFilterProof ---------------------------
(***************************************************************************)
(* What SpamFilter promises, for every set of ids, every threshold and     *)
(* every width of the count.                                               *)
(*                                                                         *)
(* WindowExact and NoRedelivery do not follow from themselves: that a new  *)
(* id is far from its last occurrence in processed needs the queue to be   *)
(* the last Threshold - 1 entries of processed, and that the queue has no  *)
(* duplicates needs NoRedelivery.  IInv says both together.                *)
(***************************************************************************)
EXTENDS SpamFilter, SequenceTheorems, TLAPS

\* The length of the window after n processed frames.
WindowLen(n) == IF n < Threshold - 1 THEN n ELSE Threshold - 1

\* The queue is the end of the history.
QueueIsSuffix ==
    /\ Len(receivedMsgId) = WindowLen(Len(processed))
    /\ \A k \in 1 .. Len(receivedMsgId) :
          receivedMsgId[k] = processed[Len(processed) - Len(receivedMsgId) + k]

FarApart ==
    \A i, j \in 1 .. Len(processed) :
        i < j /\ processed[i] = processed[j] => j - i >= Threshold

AllCounted ==
    /\ Remembered \subseteq DOMAIN msgSpamCount
    /\ \A id \in DOMAIN msgSpamCount : msgSpamCount[id] # 0

IInv ==
    /\ TypeOK
    /\ DOMAIN msgSpamCount \subseteq Remembered
    /\ Len(receivedMsgId) < Threshold
    /\ ~wrapped => QueueIsSuffix /\ FarApart /\ AllCounted

-----------------------------------------------------------------------------

\* A queue that is the end of a history without close repetitions repeats
\* nothing.
LEMMA QueueInjective ==
    ASSUME IInv, ~wrapped
    PROVE  \A i, j \in 1 .. Len(receivedMsgId) :
              receivedMsgId[i] = receivedMsgId[j] => i = j
<1> DEFINE n == Len(processed)
           q == Len(receivedMsgId)
<1>1. /\ n \in Nat /\ q \in Nat /\ q < Threshold /\ q <= n
      /\ Threshold \in Nat
  BY ThresholdAssumption, LenProperties DEF IInv, TypeOK, QueueIsSuffix, WindowLen
<1>2. SUFFICES ASSUME NEW i \in 1 .. q, NEW j \in 1 .. q,
                      receivedMsgId[i] = receivedMsgId[j], i < j
               PROVE  FALSE
  BY <1>1
<1>3. /\ n - q + i \in 1 .. n /\ n - q + j \in 1 .. n
      /\ processed[n - q + i] = processed[n - q + j]
  BY <1>1, <1>2 DEF IInv, QueueIsSuffix
<1>4. (n - q + j) - (n - q + i) >= Threshold
  BY SMTT(60), <1>1, <1>2, <1>3 DEF IInv, FarApart
<1>5. QED
  BY <1>1, <1>2, <1>4

\* IInv is strong enough for both properties.
LEMMA IInvImplies == IInv => WindowExact /\ NoRedelivery
BY QueueInjective DEF IInv, WindowExact, NoRedelivery, AllCounted, FarApart

LEMMA InitIInv == Init => IInv
<1> SUFFICES ASSUME Init PROVE IInv
  OBVIOUS
<1>1. TypeOK
  BY EmptySeq DEF Init, TypeOK
<1>2. /\ Len(receivedMsgId) = 0 /\ Len(processed) = 0
      /\ Remembered = {} /\ DOMAIN msgSpamCount = {}
  BY DEF Init, Remembered
<1>3. QED
  BY <1>1, <1>2, ThresholdAssumption
     DEF IInv, QueueIsSuffix, FarApart, AllCounted, WindowLen

\* The count wraps where it should.
LEMMA NextCountRange ==
    ASSUME TypeOK, NEW id \in MsgId
    PROVE  /\ SpamCount(id) \in 0 .. CountMod - 1
           /\ NextCount(id) = IF SpamCount(id) = CountMod - 1
                              THEN 0 ELSE SpamCount(id) + 1
           /\ NextCount(id) \in 0 .. CountMod - 1
<1>1. SpamCount(id) \in 0 .. CountMod - 1
  BY CountModAssumption DEF TypeOK, SpamCount
<1>2. ASSUME NEW a \in 0 .. CountMod - 1
      PROVE  (a + 1) % CountMod = IF a = CountMod - 1 THEN 0 ELSE a + 1
  <2>1. CASE a = CountMod - 1
    BY <2>1, CountModAssumption
  <2>2. CASE a # CountMod - 1
    BY <2>2, CountModAssumption
  <2>. QED
    BY <2>1, <2>2
<1>3. QED
  BY <1>1, <1>2, CountModAssumption DEF NextCount

\* Ignored frames carry a remembered id, whatever the counts are.
LEMMA IgnoreKeeps ==
    ASSUME IInv, NEW id \in MsgId, Ignore(id)
    PROVE  IInv'
<1> USE DEF IInv
<1>1. id \in DOMAIN msgSpamCount
  BY NextCountRange, CountModAssumption DEF Ignore, SpamCount
<1>2. DOMAIN msgSpamCount' = DOMAIN msgSpamCount
  BY <1>1 DEF Ignore, CountAfter
<1>3. \A k \in DOMAIN msgSpamCount' :
         msgSpamCount'[k] = IF k = id THEN NextCount(id) ELSE msgSpamCount[k]
  BY <1>1 DEF Ignore, CountAfter
<1>4. UNCHANGED <<receivedMsgId, processed>>
  BY DEF Ignore
<1>5. wrapped' = (wrapped \/ NextCount(id) = 0)
  BY DEF Ignore
<1>6. TypeOK'
  <2>1. wrapped' \in BOOLEAN
    BY <1>5 DEF TypeOK
  <2>2. \A k \in DOMAIN msgSpamCount' : msgSpamCount'[k] \in 0 .. CountMod - 1
    BY <1>2, <1>3, NextCountRange DEF TypeOK
  <2>. QED
    BY <1>2, <1>4, <2>1, <2>2 DEF TypeOK
<1>7. DOMAIN msgSpamCount' \subseteq Remembered' /\ Len(receivedMsgId') < Threshold
  BY <1>2, <1>4 DEF Remembered
<1>8. ASSUME ~wrapped'
      PROVE  QueueIsSuffix' /\ FarApart' /\ AllCounted'
  <2>1. ~wrapped /\ NextCount(id) # 0
    BY <1>5, <1>8
  <2>2. QueueIsSuffix' /\ FarApart'
    BY <2>1, <1>4 DEF QueueIsSuffix, FarApart, WindowLen
  <2>3. AllCounted'
    BY <2>1, <1>2, <1>3, <1>4 DEF AllCounted, Remembered
  <2>. QED
    BY <2>2, <2>3
<1>. QED
  BY <1>6, <1>7, <1>8

\* Until the first wrap only ids out of the window are handed on, and those
\* were last seen at least Threshold frames ago.
LEMMA FreshIsFar ==
    ASSUME IInv, ~wrapped, NEW id \in MsgId, NextCount(id) = 1
    PROVE  /\ id \notin Remembered
           /\ \A i \in 1 .. Len(processed) :
                 processed[i] = id => Len(processed) + 1 - i >= Threshold
<1> DEFINE n == Len(processed)
           q == Len(receivedMsgId)
<1>1. SpamCount(id) = 0
  BY NextCountRange, CountModAssumption DEF IInv
<1>2. id \notin Remembered
  BY <1>1 DEF IInv, AllCounted, SpamCount
<1>3. /\ n \in Nat /\ q \in Nat /\ Threshold \in Nat
      /\ q = WindowLen(n)
  BY ThresholdAssumption, LenProperties DEF IInv, TypeOK, QueueIsSuffix
<1>4. SUFFICES ASSUME NEW i \in 1 .. n, processed[i] = id, n + 1 - i < Threshold
               PROVE  FALSE
  BY <1>2, <1>3
<1>5. i - (n - q) \in 1 .. q
  BY <1>3, <1>4 DEF WindowLen
<1>6. receivedMsgId[i - (n - q)] = processed[i]
  BY <1>3, <1>5 DEF IInv, QueueIsSuffix
<1>7. QED
  BY <1>2, <1>4, <1>5, <1>6 DEF Remembered

LEMMA ProcessKeeps ==
    ASSUME IInv, NEW id \in MsgId, Process(id)
    PROVE  IInv'
<1> DEFINE n == Len(processed)
           q == Len(receivedMsgId)
           longer == Append(receivedMsgId, id)
           full == q + 1 >= Threshold
<1>1. /\ n \in Nat /\ q \in Nat /\ Threshold \in Nat \ {0}
      /\ q < Threshold
      /\ receivedMsgId \in Seq(MsgId) /\ processed \in Seq(MsgId)
  BY ThresholdAssumption, LenProperties DEF IInv, TypeOK
<1>2. /\ longer \in Seq(MsgId) /\ longer # <<>>
      /\ Len(longer) = q + 1
      /\ \A k \in 1 .. q + 1 : longer[k] = IF k = q + 1 THEN id ELSE receivedMsgId[k]
  BY <1>1
<1>3. /\ Tail(longer) \in Seq(MsgId)
      /\ Len(Tail(longer)) = q
      /\ \A k \in 1 .. q : Tail(longer)[k] = longer[k + 1]
      /\ Head(longer) = longer[1]
  BY <1>1, <1>2
<1>4. /\ processed' \in Seq(MsgId)
      /\ Len(processed') = n + 1
      /\ \A k \in 1 .. n + 1 : processed'[k] = IF k = n + 1 THEN id ELSE processed[k]
      /\ wrapped' = wrapped
  BY <1>1 DEF Process
<1>5. /\ DOMAIN CountAfter(id) = DOMAIN msgSpamCount \union {id}
      /\ \A k \in DOMAIN CountAfter(id) :
            CountAfter(id)[k] = IF k = id THEN 1 ELSE msgSpamCount[k]
  BY DEF CountAfter, Process
<1>6. IF full
      THEN receivedMsgId' = Tail(longer) /\ msgSpamCount' = Without(CountAfter(id), Head(longer))
      ELSE receivedMsgId' = longer /\ msgSpamCount' = CountAfter(id)
  BY <1>2 DEF Process, ForgetOldest
<1>7. /\ DOMAIN msgSpamCount' \subseteq DOMAIN msgSpamCount \union {id}
      /\ \A k \in DOMAIN msgSpamCount' :
            msgSpamCount'[k] = IF k = id THEN 1 ELSE msgSpamCount[k]
  BY <1>5, <1>6 DEF Without
<1>8. Len(receivedMsgId') < Threshold /\ receivedMsgId' \in Seq(MsgId)
  <2>1. CASE full
    BY <1>1, <1>3, <1>6, <2>1
  <2>2. CASE ~full
    BY <1>1, <1>2, <1>6, <2>2
  <2>. QED
    BY <2>1, <2>2
<1>9. TypeOK'
  BY <1>4, <1>7, <1>8, CountModAssumption DEF IInv, TypeOK
<1>10. DOMAIN msgSpamCount' \subseteq Remembered'
  <2>1. CASE full
    <3>1. SUFFICES ASSUME NEW k \in DOMAIN msgSpamCount'
                   PROVE  \E p \in 1 .. q : Tail(longer)[p] = k
      BY <1>3, <1>6, <2>1 DEF Remembered
    <3>2. k # Head(longer) /\ k \in DOMAIN msgSpamCount \union {id}
      BY <1>5, <1>6, <2>1, <3>1 DEF Without
    <3>3. PICK p \in 1 .. q + 1 : longer[p] = k
      BY <1>1, <1>2, <3>2 DEF IInv, Remembered
    <3>4. p - 1 \in 1 .. q /\ Tail(longer)[p - 1] = k
      BY SMTT(60), <1>1, <1>3, <3>2, <3>3
    <3>. QED
      BY <3>4
  <2>2. CASE ~full
    <3>1. SUFFICES ASSUME NEW k \in DOMAIN msgSpamCount \union {id}
                   PROVE  \E p \in 1 .. q + 1 : longer[p] = k
      BY <1>2, <1>6, <1>7, <2>2 DEF Remembered
    <3>. QED
      BY <1>1, <1>2 DEF IInv, Remembered
  <2>. QED
    BY <2>1, <2>2
<1>11. ASSUME ~wrapped'
       PROVE  QueueIsSuffix' /\ FarApart' /\ AllCounted'
  <2>1. ~wrapped
    BY <1>4, <1>11
  <2>2. QueueIsSuffix /\ FarApart /\ AllCounted /\ NextCount(id) = 1
    BY <2>1 DEF IInv, Process
  <2>3. /\ id \notin Remembered
        /\ \A i \in 1 .. n : processed[i] = id => n + 1 - i >= Threshold
    BY <2>1, <2>2, FreshIsFar
  <2>4. FarApart'
    BY <1>1, <1>4, <2>2, <2>3 DEF FarApart
  <2>5. QueueIsSuffix'
    <3>1. q = WindowLen(n) /\ q <= n
      BY <1>1, <2>2 DEF QueueIsSuffix, WindowLen
    <3>2. ASSUME NEW k \in 1 .. q + 1
          PROVE  longer[k] = processed'[n - q + k]
      <4>1. CASE k = q + 1
        BY <1>1, <1>2, <1>4, <3>1, <4>1
      <4>2. CASE k \in 1 .. q
        <5>1. n - q + k \in 1 .. n
          BY <1>1, <3>1, <4>2
        <5>2. longer[k] = processed[n - q + k]
          BY <1>1, <1>2, <2>2, <4>2 DEF QueueIsSuffix
        <5>. QED
          BY <1>1, <1>4, <5>1, <5>2
      <4>. QED
        BY <1>1, <3>2, <4>1, <4>2
    <3>3. CASE full
      <4>1. q = WindowLen(n + 1)
        BY <1>1, <3>1, <3>3 DEF WindowLen
      <4>2. ASSUME NEW k \in 1 .. q
            PROVE  Tail(longer)[k] = processed'[(n + 1) - q + k]
        <5>1. k + 1 \in 1 .. q + 1 /\ n - q + (k + 1) = (n + 1) - q + k
          BY <1>1, <3>1
        <5>2. longer[k + 1] = processed'[n - q + (k + 1)]
          BY <3>2, <5>1
        <5>. QED
          BY <1>3, <5>1, <5>2
      <4>. QED
        BY <1>3, <1>4, <1>6, <3>3, <4>1, <4>2 DEF QueueIsSuffix
    <3>4. CASE ~full
      <4>1. q + 1 = WindowLen(n + 1)
        BY <1>1, <3>1, <3>4 DEF WindowLen
      <4>2. \A k \in 1 .. q + 1 : longer[k] = processed'[(n + 1) - (q + 1) + k]
        BY <1>1, <3>1, <3>2
      <4>. QED
        BY <1>2, <1>4, <1>6, <3>4, <4>1, <4>2 DEF QueueIsSuffix
    <3>. QED
      BY <3>3, <3>4
  <2>6. \A k \in DOMAIN msgSpamCount' : msgSpamCount'[k] # 0
    BY <1>7, <2>2 DEF AllCounted
  <2>7. Remembered' \subseteq DOMAIN msgSpamCount'
    <3>1. CASE full
      <4>1. SUFFICES ASSUME NEW p \in 1 .. q
                     PROVE  Tail(longer)[p] \in DOMAIN msgSpamCount'
        BY <1>3, <1>6, <3>1 DEF Remembered
      <4>2. Tail(longer)[p] \in DOMAIN CountAfter(id)
        BY <1>1, <1>2, <1>3, <1>5, <2>2 DEF AllCounted, Remembered
      <4>3. longer[p + 1] # longer[1]
        BY <1>1, <1>2, <2>1, <2>3, QueueInjective DEF Remembered
      <4>. QED
        BY <1>3, <1>6, <3>1, <4>2, <4>3 DEF Without
    <3>2. CASE ~full
      BY <1>1, <1>2, <1>5, <1>6, <2>2, <3>2 DEF AllCounted, Remembered
    <3>. QED
      BY <3>1, <3>2
  <2>. QED
    BY <2>4, <2>5, <2>6, <2>7 DEF AllCounted
<1>. QED
  BY <1>8, <1>9, <1>10, <1>11 DEF IInv

LEMMA NextKeeps == IInv /\ [Next]_vars => IInv'
<1> SUFFICES ASSUME IInv, [Next]_vars PROVE IInv'
  OBVIOUS
<1>1. ASSUME NEW id \in MsgId, Process(id) PROVE IInv'
  BY <1>1, ProcessKeeps
<1>2. ASSUME NEW id \in MsgId, Ignore(id) PROVE IInv'
  BY <1>2, IgnoreKeeps
<1>3. CASE UNCHANGED vars
  BY <1>3 DEF vars, IInv, TypeOK, QueueIsSuffix, FarApart, AllCounted,
              WindowLen, Remembered
<1>. QED
  BY <1>1, <1>2, <1>3 DEF Next

\* The invariant, for every set of ids, threshold and count width.
THEOREM InductiveInvariant == Spec => []IInv
<1>. QED
  BY InitIInv, NextKeeps, PTL DEF Spec

\* TypeOK: in particular the counts stay within their width.
THEOREM FilterTypes == Spec => []TypeOK
<1>1. IInv => TypeOK
  BY DEF IInv
<1>. QED
  BY InductiveInvariant, <1>1, PTL

\* The map and the queue are one bounded window (WindowExact), whatever ids a
\* peer sends and in whatever order.
THEOREM FilterWindowExact == Spec => []WindowExact
<1>. QED
  BY InductiveInvariant, IInvImplies, PTL

\* A frame is handed on again only after Threshold - 1 others (NoRedelivery).
THEOREM FilterNoRedelivery == Spec => []NoRedelivery
<1>. QED
  BY InductiveInvariant, IInvImplies, PTL

-----------------------------------------------------------------------------
(* The filter as Delivery has it, without counts.                          *)

\* The id enters the window, and the oldest leaves a window that is full.
Enters(id) ==
    LET longer == Append(receivedMsgId, id)
    IN  receivedMsgId' = IF Len(longer) >= Threshold THEN Tail(longer) ELSE longer

\* Whether a frame is handed on depends on the window alone.
DecidedByWindow(id) ==
    /\ Process(id) => Enters(id) /\ (~wrapped => id \notin Remembered)
    /\ Ignore(id) => UNCHANGED receivedMsgId /\ id \in Remembered

LEMMA WindowDecides ==
    ASSUME IInv, NEW id \in MsgId
    PROVE  DecidedByWindow(id)
<1>1. ASSUME Process(id) PROVE Enters(id)
  BY <1>1 DEF Process, ForgetOldest, Enters
<1>2. ASSUME Process(id), ~wrapped PROVE id \notin Remembered
  <2>1. NextCount(id) = 1
    BY <1>2 DEF Process
  <2>. QED
    BY <1>2, <2>1, FreshIsFar
<1>3. ASSUME Ignore(id) PROVE id \in Remembered
  <2>1. TypeOK /\ DOMAIN msgSpamCount \subseteq Remembered
    BY DEF IInv
  <2>2. NextCount(id) # 1
    BY <1>3 DEF Ignore
  <2>3. id \in DOMAIN msgSpamCount
    BY <2>1, <2>2, NextCountRange, CountModAssumption DEF SpamCount
  <2>. QED
    BY <2>1, <2>3
<1>4. ASSUME Ignore(id) PROVE UNCHANGED receivedMsgId
  BY <1>4 DEF Ignore
<1>. QED
  BY <1>1, <1>2, <1>3, <1>4 DEF DecidedByWindow

\* The counts of msgSpamCount are a roundabout way to keep a window: a frame is handed
\* on and its id enters if the window has not got the id, and is ignored if it has, which
\* is the filter of Delivery (IgnoreDuplicate, ReadNew and Remember).  That an ignored id
\* is in the window holds even when counts have wrapped; that one handed on is not, until
\* then (connection.go:211-219, 693-731).
THEOREM FilterIsWindow == Spec => [][\A id \in MsgId : DecidedByWindow(id)]_vars
<1>1. IInv /\ [Next]_vars => [\A id \in MsgId : DecidedByWindow(id)]_vars
  BY WindowDecides
<1>. QED
  BY InductiveInvariant, <1>1, PTL DEF Spec

=============================================================================
