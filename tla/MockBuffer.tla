----------------------------- MODULE MockBuffer -----------------------------
(***************************************************************************)
(* One of the two shared buffers of cc1200/cc1200_mockup.c, a thread that  *)
(* writes it in cc1200_send_packet and one that polls it in                *)
(* cc1200_get_packet, cut at every access to shared memory.  The mutex     *)
(* covers the whole write but only the first part of the read.             *)
(*                                                                         *)
(* Frames are numbered as they are allocated; the number is the address,   *)
(* 0 is NULL.  A program that frees an address twice, or reads one that is *)
(* not allocated, has no defined behaviour: `fault' says so and it stops.  *)
(***************************************************************************)
EXTENDS Naturals

CONSTANT MaxFrames  \* frames written (bound)

ASSUME MockAssumption == MaxFrames \in Nat

VARIABLES
    wpc,        \* the writer: "idle", "made", "locked", "freed", "stored", "done"
    frame,      \* the buffer it has allocated last
    rpc,        \* the reader: "poll", "locked", "taken", "read", "freed"
    data,       \* its local pointer
    mutex,      \* shared_mutex: the thread that holds it or "none"
    buffer,     \* shared_buffer
    full,       \* shared_buffer_len # 0
    heap,       \* allocated frames
    ignore_next,    \* ignore_next_write
    got,        \* ghost: the frame taken last
    overlap,    \* ghost: a write and a read were under way at the same time
    fault       \* "none", "null read", "stale read" or "double free"

writerVars == <<wpc, frame>>
readerVars == <<rpc, data, got>>
vars == <<writerVars, readerVars, mutex, buffer, full, heap, ignore_next,
          overlap, fault>>

Frame == 1 .. MaxFrames

Init ==
    /\ wpc = "idle" /\ frame = 0
    /\ rpc = "poll" /\ data = 0 /\ got = 0
    /\ mutex = "none"
    /\ buffer = 0 /\ full = FALSE
    /\ heap = {}
    /\ ignore_next = FALSE
    /\ overlap = FALSE
    /\ fault = "none"

\* Between taking a frame and clearing the pointer the reader holds no lock
Reading == rpc # "poll"

\* free(p), which does nothing for NULL
Free(p) ==
    /\ heap' = heap \ {p}
    /\ fault' = IF p = 0 \/ p \in heap THEN fault ELSE "double free"
-----------------------------------------------------------------------------
(* cc1200_send_packet *)

\* malloc and packet_serialize
Make ==
    /\ wpc = "idle" /\ frame < MaxFrames
    /\ overlap' = (overlap \/ Reading)
    /\ wpc' = "made" /\ frame' = frame + 1
    /\ heap' = heap \cup {frame'}
    /\ UNCHANGED <<readerVars, mutex, buffer, full, ignore_next, fault>>

\* A test has asked for this write to be lost
Ignore ==
    /\ wpc = "made" /\ ignore_next
    /\ wpc' = "idle" /\ ignore_next' = FALSE
    /\ Free(frame)
    /\ UNCHANGED <<frame, readerVars, mutex, buffer, full, overlap>>

\* Mutant: the writer does not wait for the mutex
WLock_NoWait ==
    /\ wpc = "made" /\ ~ignore_next
    /\ wpc' = "locked" /\ mutex' = "writer"
    /\ UNCHANGED <<frame, readerVars, buffer, full, heap,
                   ignore_next, fault, overlap>>

WLock ==
    /\ wpc = "made" /\ ~ignore_next
    /\ mutex = "none"
    /\ wpc' = "locked" /\ mutex' = "writer"
    /\ UNCHANGED <<frame, readerVars, buffer, full, heap,
                   ignore_next, fault, overlap>>

\* Mutant: the old frame is forgotten
WFree_Leak ==
    /\ wpc = "locked" /\ wpc' = "freed"
    /\ UNCHANGED <<frame, readerVars, mutex, buffer, full,
                   heap, ignore_next, fault, overlap>>

WFree ==
    /\ wpc = "locked" /\ wpc' = "freed"
    /\ Free(buffer)
    /\ UNCHANGED <<frame, readerVars, mutex, buffer,
                   full, ignore_next, overlap>>

WStore ==
    /\ wpc = "freed" /\ wpc' = "stored"
    /\ buffer' = frame
    /\ UNCHANGED <<frame, readerVars, mutex, full, heap,
                   ignore_next, fault, overlap>>

WLength ==
    /\ wpc = "stored" /\ wpc' = "done"
    /\ full' = TRUE
    /\ UNCHANGED <<frame, readerVars, mutex, buffer, heap,
                   ignore_next, fault, overlap>>

WUnlock ==
    /\ wpc = "done" /\ wpc' = "idle"
    /\ mutex' = "none"
    /\ UNCHANGED <<frame, readerVars, buffer, full, heap,
                   ignore_next, fault, overlap>>

Writer == Make \/ Ignore \/ WLock \/ WFree \/ WStore \/ WLength \/ WUnlock

\* cc1200_debug_block_next_write, called by a test between two writes
Block ==
    /\ wpc = "idle" /\ ~ignore_next
    /\ ignore_next' = TRUE
    /\ UNCHANGED <<writerVars, readerVars, mutex, buffer, full,
                   heap, fault, overlap>>
-----------------------------------------------------------------------------
(* cc1200_get_packet; a poll that finds nothing changes nothing *)

RLock ==
    /\ rpc = "poll" /\ full
    /\ mutex = "none"
    /\ overlap' = (overlap \/ wpc # "idle")
    /\ rpc' = "locked" /\ mutex' = "reader"
    /\ UNCHANGED <<data, got, writerVars, buffer, full,
                   heap, ignore_next, fault>>

\* Mutant: the length is not reset
RTake_StillFull ==
    /\ rpc = "locked" /\ rpc' = "taken"
    /\ data' = buffer /\ mutex' = "none"
    /\ got' = IF buffer = 0 THEN got ELSE buffer
    /\ UNCHANGED <<writerVars, buffer, full, heap,
                   ignore_next, fault, overlap>>

\* Take pointer and length, reset the length, unlock
RTake ==
    /\ rpc = "locked" /\ rpc' = "taken"
    /\ data' = buffer /\ full' = FALSE /\ mutex' = "none"
    /\ got' = IF buffer = 0 THEN got ELSE buffer
    /\ UNCHANGED <<writerVars, buffer, heap, ignore_next, fault, overlap>>

\* packet_deserialize
RRead ==
    /\ rpc = "taken" /\ rpc' = "read"
    /\ fault' = IF data = 0 THEN "null read"
                ELSE IF data \in heap THEN fault ELSE "stale read"
    /\ UNCHANGED <<data, got, writerVars, mutex, buffer,
                   full, heap, ignore_next, overlap>>

RFree ==
    /\ rpc = "read" /\ rpc' = "freed"
    /\ Free(data)
    /\ UNCHANGED <<data, got, writerVars, mutex, buffer,
                   full, ignore_next, overlap>>

\* Mutant: the dangling pointer stays
RClear_Dangling ==
    /\ rpc = "freed" /\ rpc' = "poll"
    /\ data' = 0
    /\ UNCHANGED <<got, writerVars, mutex, buffer, full,
                   heap, ignore_next, fault, overlap>>

\* The pointer is set to NULL, without the mutex, and the packet returned
RClear ==
    /\ rpc = "freed" /\ rpc' = "poll"
    /\ data' = 0 /\ buffer' = 0
    /\ UNCHANGED <<got, writerVars, mutex, full, heap,
                   ignore_next, fault, overlap>>

Reader == RLock \/ RTake \/ RRead \/ RFree \/ RClear

Next == fault = "none" /\ (Writer \/ Block \/ Reader)

Spec == Init /\ [][Next]_vars
-----------------------------------------------------------------------------
(* Properties *)

\* The variables keep their types, and the mutex belongs to the thread that is
\* between its lock and its unlock.
TypeOK ==
    /\ wpc \in {"idle", "made", "locked", "freed", "stored", "done"}
    /\ rpc \in {"poll", "locked", "taken", "read", "freed"}
    /\ {frame, data, buffer, got} \subseteq {0} \cup Frame
    /\ heap \subseteq Frame
    /\ mutex \in {"none", "writer", "reader"}
    /\ mutex = "writer" <=> wpc \in {"locked", "freed", "stored", "done"}
    /\ mutex = "reader" <=> rpc = "locked"
    /\ {full, ignore_next, overlap} \subseteq BOOLEAN
    /\ fault \in {"none", "null read", "stale read", "double free"}

\* Whatever the threads do to each other's pointers, as long as the behaviour is
\* defined at all every read takes a frame, and a newer one than the read before:
\* pointer and length are taken, and the length is reset, under the mutex.
TakenInOrder == [][RTake => data' > got]_vars

\* Every fault of the heap takes a write that overlaps a read.
NoFault == ~overlap => fault = "none"

\* Without an overlap no frame is left behind that nobody can free any more.
NoLeak ==
    ~overlap =>
        heap \subseteq {buffer, data} \cup (IF wpc = "idle" THEN {} ELSE {frame})

\* The buffer as others see it: full until its frame is taken
slot == IF full THEN {buffer} ELSE {}

\* As long as the behaviour is defined, with overlaps or without, the buffer is
\* the slot that Driver makes of it.
Abstract == INSTANCE OneSlot WITH Frame <- Frame, slot <- slot, got <- got
ImplementsSlot == Abstract!Spec

\* cc1200_mockup.c:96 and 120 `first free old alloced data': what a write is about
\* to free is NULL or allocated.
OldIsAllocated == wpc = "locked" => buffer \in heap \cup {0}
=============================================================================
