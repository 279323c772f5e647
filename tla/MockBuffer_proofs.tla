------------------------- MODULE MockBuffer_proofs -------------------------
(***************************************************************************)
(* The buffer of the simulated radio for any number of frames: a fault of  *)
(* the heap takes an overlap of a write and a read, reads are in order,    *)
(* and the buffer is the slot of OneSlot.                                  *)
(***************************************************************************)
EXTENDS MockBuffer, TLAPS

\* What the pointers name, by where the two threads are.  A read that was overtaken
\* by a write has a frame that is no longer allocated and can only fail.
Pointers ==
    /\ rpc \in {"poll", "locked"} =>
          /\ data = 0
          /\ wpc \in {"idle", "made", "locked"} /\ buffer # 0 => buffer \in heap
          /\ wpc # "stored" => (full <=> buffer # 0)
    /\ rpc = "locked" => full
    /\ rpc \in {"taken", "read"} => data # 0
    /\ rpc \in {"taken", "read"} /\ data \in heap =>
          wpc \in {"idle", "made", "locked"} /\ buffer = data /\ ~full
    /\ rpc = "freed" =>
          /\ wpc \in {"idle", "made", "locked"}
          /\ buffer = data /\ data # 0 /\ data \notin heap /\ ~full
    /\ wpc = "freed" => buffer \notin heap

\* Frames are stored and taken in the order of their numbers.
Order ==
    /\ got <= frame /\ buffer <= frame /\ data <= got
    /\ wpc # "idle" => got < frame /\ frame \in heap
    /\ wpc \in {"made", "locked", "freed"} => buffer < frame
    /\ wpc \in {"stored", "done"} => buffer = frame
    /\ wpc = "done" => full
    /\ full => got < buffer

\* Without an overlap the reader works on the frame in the buffer.
Apart ==
    ~overlap =>
        /\ rpc = "poll" \/ wpc = "idle"
        /\ rpc \in {"taken", "read"} => data \in heap

\* None of the properties is inductive alone: what a step frees depends on what
\* the pointers name, and that on the order of the frames.
HeapInv ==
    /\ TypeOK
    /\ fault = "none" => Pointers /\ Order
    /\ Apart /\ NoFault /\ NoLeak

LEMMA HeapInit == Init => HeapInv
<1> SUFFICES ASSUME Init PROVE HeapInv
  OBVIOUS
<1>1. TypeOK
  BY DEF Init, TypeOK
<1>2. Pointers /\ Order /\ Apart /\ NoFault /\ NoLeak
  BY MockAssumption DEF Init, Pointers, Order, Apart, NoFault, NoLeak
<1> QED BY <1>1, <1>2 DEF HeapInv

LEMMA HeapStep == HeapInv /\ [Next]_vars => HeapInv'
<1> SUFFICES ASSUME HeapInv, [Next]_vars PROVE HeapInv'
  OBVIOUS
<1> USE MockAssumption DEF HeapInv, TypeOK, Pointers, Order, Apart, NoFault, NoLeak,
                           Frame, writerVars, readerVars
<1>1. CASE fault = "none" /\ Make
  <2>1. frame' = frame + 1 /\ frame' \in Frame /\ heap' = heap \cup {frame'}
    BY <1>1 DEF Make
  <2>2. TypeOK'
    BY <1>1, <2>1 DEF Make
  <2>3. Pointers' /\ Order'
    BY <1>1, <2>1 DEF Make
  <2>4. Apart' /\ NoFault' /\ NoLeak'
    BY <1>1, <2>1 DEF Make, Reading
  <2> QED BY <2>2, <2>3, <2>4
<1>2. CASE fault = "none" /\ Ignore
  <2>1. heap' = heap \ {frame} /\ fault' = "none"
    BY <1>2 DEF Ignore, Free
  <2>2. TypeOK'
    BY <1>2, <2>1 DEF Ignore
  <2>3. Pointers' /\ Order'
    BY <1>2, <2>1 DEF Ignore
  <2>4. Apart' /\ NoFault' /\ NoLeak'
    BY <1>2, <2>1 DEF Ignore
  <2> QED BY <2>2, <2>3, <2>4
<1>3. CASE fault = "none" /\ WLock
  BY <1>3 DEF WLock
<1>4. CASE fault = "none" /\ WFree
  <2>1. heap' = heap \ {buffer}
        /\ fault' = IF buffer = 0 \/ buffer \in heap THEN "none" ELSE "double free"
    BY <1>4 DEF WFree, Free
  <2>2. TypeOK'
    BY <1>4, <2>1 DEF WFree
  <2>3. fault' = "none" => Pointers' /\ Order'
    BY <1>4, <2>1 DEF WFree
  <2>4. Apart' /\ NoFault' /\ NoLeak'
    BY <1>4, <2>1 DEF WFree
  <2> QED BY <2>2, <2>3, <2>4
<1>5. CASE fault = "none" /\ WStore
  BY <1>5 DEF WStore
<1>6. CASE fault = "none" /\ WLength
  BY <1>6 DEF WLength
<1>7. CASE fault = "none" /\ WUnlock
  BY <1>7 DEF WUnlock
<1>8. CASE fault = "none" /\ Block
  BY <1>8 DEF Block
<1>9. CASE fault = "none" /\ RLock
  BY <1>9 DEF RLock
<1>10. CASE fault = "none" /\ RTake
  <2>1. buffer # 0 /\ buffer \in heap /\ got < buffer /\ got' = buffer /\ data' = buffer
        /\ wpc \in {"idle", "made"}
    BY <1>10 DEF RTake
  <2>2. TypeOK'
    BY <1>10, <2>1 DEF RTake
  <2>3. Pointers'
    BY <1>10, <2>1 DEF RTake
  <2>4. Order'
    BY <1>10, <2>1 DEF RTake
  <2>5. Apart' /\ NoFault' /\ NoLeak'
    BY <1>10, <2>1 DEF RTake
  <2> QED BY <2>2, <2>3, <2>4, <2>5
<1>11. CASE fault = "none" /\ RRead
  <2>1. fault' = "none" => data \in heap
    BY <1>11 DEF RRead
  <2>2. TypeOK'
    BY <1>11 DEF RRead
  <2>3. ASSUME fault' = "none" PROVE Pointers' /\ Order'
    <3>1. Pointers'
      BY <1>11, <2>1, <2>3 DEF RRead
    <3>2. Order'
      BY <1>11, <2>1, <2>3 DEF RRead
    <3> QED BY <3>1, <3>2
  <2>4. Apart' /\ NoFault' /\ NoLeak'
    BY <1>11 DEF RRead
  <2> QED BY <2>2, <2>3, <2>4
<1>12. CASE fault = "none" /\ RFree
  <2>1. heap' = heap \ {data}
        /\ fault' = IF data = 0 \/ data \in heap THEN "none" ELSE "double free"
    BY <1>12 DEF RFree, Free
  <2>2. TypeOK'
    BY <1>12, <2>1 DEF RFree
  <2>3. ASSUME fault' = "none" PROVE Pointers' /\ Order'
    <3>1. data \in heap
      <4>1. data # 0
        BY <1>12 DEF RFree
      <4> QED BY <2>1, <2>3, <4>1
    <3>2. Pointers'
      BY <1>12, <2>1, <2>3, <3>1 DEF RFree
    <3>3. Order'
      BY <1>12, <2>1, <2>3, <3>1 DEF RFree
    <3> QED BY <3>2, <3>3
  <2>4. Apart' /\ NoFault' /\ NoLeak'
    BY <1>12, <2>1 DEF RFree
  <2> QED BY <2>2, <2>3, <2>4
<1>13. CASE fault = "none" /\ RClear
  BY <1>13 DEF RClear
<1>14. CASE UNCHANGED vars
  BY <1>14 DEF vars
<1> QED BY <1>1, <1>2, <1>3, <1>4, <1>5, <1>6, <1>7, <1>8, <1>9, <1>10, <1>11,
           <1>12, <1>13, <1>14 DEF Next, Writer, Reader

\* The heap invariant is an invariant of the two threads.
THEOREM HeapSafe == Spec => []HeapInv
BY HeapInit, HeapStep, PTL DEF Spec

\* The variables of the two threads keep their types, in states in which the
\* program has no defined behaviour as well.
THEOREM TypeCorrect == Spec => []TypeOK
<1>1. HeapInv => TypeOK
  BY DEF HeapInv
<1> QED BY <1>1, HeapSafe, PTL

\* cc1200_mockup.c neither frees nor reads a frame that is not allocated, until a
\* write and a read overlap.
THEOREM Faultless == Spec => []NoFault
<1>1. HeapInv => NoFault
  BY DEF HeapInv
<1> QED BY <1>1, HeapSafe, PTL

\* Until then it loses no memory either.
THEOREM Leakless == Spec => []NoLeak
<1>1. HeapInv => NoLeak
  BY DEF HeapInv
<1> QED BY <1>1, HeapSafe, PTL

\* Every read takes a newer frame than the one before, overlap or not.
THEOREM InOrder == Spec => TakenInOrder
<1>1. HeapInv /\ [Next]_vars => [RTake => data' > got]_vars
  <2> SUFFICES ASSUME HeapInv, Next, RTake PROVE data' > got
    BY DEF vars
  <2>1. Pointers /\ Order
    BY DEF HeapInv, Next
  <2> QED BY <2>1 DEF RTake, Pointers, Order
<1> QED BY <1>1, HeapSafe, PTL DEF Spec, TakenInOrder

LEMMA SlotInit == Init => Abstract!Init
BY DEF Init, Abstract!Init, slot

LEMMA SlotStep == HeapInv /\ [Next]_vars => [Abstract!Next]_(Abstract!vars)
<1> SUFFICES ASSUME HeapInv, [Next]_vars PROVE [Abstract!Next]_<<slot, got>>
  BY DEF Abstract!vars
<1>1. CASE Make \/ Ignore \/ WLock \/ WFree \/ WUnlock
  <2>1. UNCHANGED <<buffer, full, got>>
    BY <1>1, Zenon DEF Make, Ignore, WLock, WFree, WUnlock, readerVars
  <2> QED BY <2>1 DEF slot
<1>2. CASE Block \/ RLock \/ RRead \/ RFree
  <2>1. UNCHANGED <<buffer, full, got>>
    BY <1>2, Zenon DEF Block, RLock, RRead, RFree, readerVars
  <2> QED BY <2>1 DEF slot
<1> USE MockAssumption DEF HeapInv, TypeOK, Pointers, Order, Frame, writerVars,
                           readerVars, slot
<1>3. CASE fault = "none" /\ WStore
  <2>1. CASE full
    <3>1. slot = {buffer} /\ slot' = {frame} /\ frame \in Frame
          /\ got' = got /\ frame > got /\ frame > buffer
      BY <1>3, <2>1 DEF WStore
    <3>2. Abstract!Write
      BY <3>1 DEF Abstract!Write
    <3> QED BY <3>2 DEF Abstract!Next
  <2>2. CASE ~full
    BY <1>3, <2>2 DEF WStore
  <2> QED BY <2>1, <2>2
<1>4. CASE fault = "none" /\ WLength
  <2>1. CASE full
    BY <1>4, <2>1 DEF WLength
  <2>2. CASE ~full
    <3>1. slot = {} /\ slot' = {frame} /\ frame \in Frame /\ got' = got /\ frame > got
      BY <1>4, <2>2 DEF WLength
    <3>2. Abstract!Write
      BY <3>1 DEF Abstract!Write
    <3> QED BY <3>2 DEF Abstract!Next
  <2> QED BY <2>1, <2>2
<1>5. CASE fault = "none" /\ RTake
  <2>1. buffer # 0 /\ full /\ full' = FALSE /\ got' = buffer
    BY <1>5 DEF RTake
  <2>2. Abstract!Read
    BY <2>1, Zenon DEF Abstract!Read
  <2> QED BY <2>2 DEF Abstract!Next
<1>6. CASE fault = "none" /\ RClear
  BY <1>6 DEF RClear
<1>7. CASE UNCHANGED vars
  BY <1>7 DEF vars
<1> QED BY <1>1, <1>2, <1>3, <1>4, <1>5, <1>6, <1>7 DEF Next, Writer, Reader

\* Whatever the threads do, the buffer is the slot that Driver takes it for as
\* long as the behaviour of the program is defined.
THEOREM SlotRefinement == Spec => ImplementsSlot
BY SlotInit, SlotStep, HeapSafe, PTL DEF Spec, ImplementsSlot, Abstract!Spec
=============================================================================
