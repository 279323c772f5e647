-------------------------- MODULE RadioFifo_proofs --------------------------
(***************************************************************************)
(* The FIFOs of the radio under the driver, for every set of packets,      *)
(* arrivals, rates and restarts: what is read is there, what is received   *)
(* has room, what is sent is the packet of the call; and with it all that  *)
(* RadioPort promises to the controllers.                                  *)
(***************************************************************************)
EXTENDS RadioDriver_proofs, SequenceTheorems, WellFoundedInduction
-----------------------------------------------------------------------------
(* The largest element of a set                                            *)
\* A set of naturals has a least element, and a largest one if it is bounded.
LEMMA Least ==
    ASSUME NEW T \in SUBSET Nat, T # {}
    PROVE  \E x \in T : \A y \in T : x <= y
<1> DEFINE R == OpToRel(<, Nat)
<1>1. IsWellFoundedOn(R, Nat)
  BY NatLessThanWellFounded
<1>2. \A x \in Nat, y \in Nat : x < y => <<x, y>> \in R
  BY DEF OpToRel
<1> HIDE DEF R
<1>3. T \subseteq Nat
  OBVIOUS
<1>4. \E x \in T : \A y \in T : ~(<<y, x>> \in R)
  BY <1>1, <1>3, WFMin, Zenon
<1>5. PICK x \in T : \A y \in T : ~(<<y, x>> \in R)
  BY <1>4, Zenon
<1>6. ASSUME NEW y \in T PROVE x <= y
  <2>1. x \in Nat /\ y \in Nat
    BY <1>3
  <2>2. ~(<<y, x>> \in R)
    BY <1>5, Zenon
  <2>3. ~(y < x)
    BY <1>2, <2>1, <2>2
  <2> QED BY <2>1, <2>3
<1> QED BY <1>6

LEMMA MaxIs ==
    ASSUME NEW S \in SUBSET Nat, S # {}, NEW b \in Nat, \A x \in S : x <= b
    PROVE  Max(S) \in S /\ \A x \in S : x <= Max(S)
<1> DEFINE T == {b - x : x \in S}
<1>1. T \in SUBSET Nat
  <2>1. \A x \in S : b - x \in Nat
    BY \A x \in S : x \in Nat
  <2> QED BY <2>1
<1>2. PICK t \in T : \A y \in T : t <= y
  <2>1. T # {}
    OBVIOUS
  <2> HIDE DEF T
  <2> QED BY <1>1, <2>1, Least
<1>3. PICK m \in S : t = b - m
  OBVIOUS
<1>4. \A y \in S : m >= y
  <2> TAKE y \in S
  <2>1. b - y \in T
    OBVIOUS
  <2>2. y \in Nat /\ m \in Nat /\ b - m <= b - y
    BY <1>2, <1>3, <2>1
  <2> QED BY <2>2
<1>5. \E x \in S : \A y \in S : x >= y
  BY <1>4
<1>6. Max(S) \in S /\ \A y \in S : Max(S) >= y
  BY <1>5, Zenon DEF Max
<1> QED BY <1>6
-----------------------------------------------------------------------------
(* The reception                                                           *)
\* What the FIFOs hold
Bytes == Seq(0 .. 255)

\* A frame may still begin
Open == incoming = <<>> /\ (mode = RX \/ (mode = SETTLING /\ goal = RX))

\* The bytes that the RX FIFO may come to hold if nobody flushes or reads it
Burden == Len(rxfifo) + Len(incoming) + (IF Open THEN Longest ELSE 0)

\* The reception is in order: no byte was read that was not there, and a frame comes
\* in only in RX.
RxChipOK ==
    /\ mode # RX_FIFO_ERROR
    /\ rxfifo \in Bytes /\ incoming \in Bytes
    /\ Len(incoming) <= Longest
    /\ incoming # <<>> => mode = RX

\* After the flush there is room for all that comes; and what the counter has
\* shown is there to be read.
RxPoints ==
    /\ pc = "flush" /\ ~signalled => Burden <= Longest
    /\ pc = "rx" /\ signalled /\ sharedMem[0] = SRX => Burden <= Longest
    /\ pc \in {"count", "rest"} /\ ~signalled =>
          sharedMem[7] \in Nat /\ sharedMem[7] <= Len(rxfifo)
    /\ pc = "length" /\ signalled => rxfifo # <<>>
    /\ pc \in {"length", "read"} /\ ~signalled => sharedMem[6] \in 0 .. 255
    /\ pc = "read" =>
          /\ Len(buffer) <= pkt_len + 1
          /\ pkt_len + 2 <= Len(rxfifo) + Len(buffer) + (IF signalled THEN 0 ELSE 1)

\* The FIFO has room for what the antenna may still bring, and the bytes on which the
\* loops count are in it.
RxInv ==
    /\ RxChipOK
    /\ Burden <= 2 * Longest
    /\ pkt_len \in 0 .. 255 /\ buffer \in Bytes
    /\ RxPoints

\* A byte more or less
LEMMA OneByte ==
    ASSUME NEW s \in Bytes
    PROVE  /\ s # <<>> => /\ Tail(s) \in Bytes /\ Len(Tail(s)) = Len(s) - 1
                          /\ Len(s) >= 1 /\ Head(s) \in 0 .. 255
                          /\ ((Tail(s) = <<>>) <=> (Len(s) = 1))
           /\ \A b \in 0 .. 255 : Append(s, b) \in Bytes /\ Len(Append(s, b)) = Len(s) + 1
           /\ Len(s) \in Nat
<1>1. Len(s) \in Nat
  BY DEF Bytes
<1>2. ASSUME s # <<>>
      PROVE  /\ Tail(s) \in Bytes /\ Len(Tail(s)) = Len(s) - 1
             /\ Len(s) >= 1 /\ Head(s) \in 0 .. 255
  BY <1>2, EmptySeq, HeadTailProperties DEF Bytes
<1>3. \A t \in Bytes : t = <<>> <=> Len(t) = 0
  BY EmptySeq DEF Bytes
<1>4. s # <<>> => ((Tail(s) = <<>>) <=> (Len(s) = 1))
  <2>1. SUFFICES ASSUME s # <<>> PROVE (Tail(s) = <<>>) <=> (Len(s) = 1)
    OBVIOUS
  <2>2. (Tail(s) = <<>>) <=> (Len(Tail(s)) = 0)
    BY <1>2, <1>3, <2>1
  <2> QED BY <1>1, <1>2, <2>1, <2>2
<1>5. \A b \in 0 .. 255 : Append(s, b) \in Bytes /\ Len(Append(s, b)) = Len(s) + 1
  BY AppendProperties DEF Bytes
<1> QED BY <1>1, <1>2, <1>4, <1>5

\* Packets have at most 50 bytes, hence at most 53 in the FIFO.
LEMMA FrameIs ==
    ASSUME NEW f \in Frames \cup Noise
    PROVE  f \in Bytes /\ Len(f) \in 0 .. 50
<1>1. f \in Bytes /\ Len(f) <= 50
  BY ChipAssumption DEF Bytes
<1>2. Len(f) \in Nat
  BY <1>1, OneByte
<1>3. \A n \in Nat : n <= 50 => n \in 0 .. 50
  OBVIOUS
<1> QED BY <1>1, <1>2, <1>3, Zenon

LEMMA LongestIs ==
    /\ Longest \in 3 .. 53
    /\ \A f \in Frames \cup Noise : Len(f) + 3 <= Longest
<1> DEFINE S == {1 + Len(f) + PKT_OVERHEAD : f \in Frames \cup Noise}
<1>1. \A f \in Frames \cup Noise : Len(f) \in 0 .. 50
  BY FrameIs
<1>2. \A f \in Frames \cup Noise : 1 + Len(f) + PKT_OVERHEAD = Len(f) + 3
  BY <1>1 DEF PKT_OVERHEAD
<1>3. S \subseteq 3 .. 53
  <2>1. \A f \in Frames \cup Noise : 1 + Len(f) + PKT_OVERHEAD \in 3 .. 53
    <3> TAKE f \in Frames \cup Noise
    <3>1. Len(f) \in 0 .. 50
      BY <1>1
    <3>2. \A n \in 0 .. 50 : 1 + n + PKT_OVERHEAD \in 3 .. 53
      BY DEF PKT_OVERHEAD
    <3> QED BY <3>1, <3>2, Zenon
  <2> QED BY <2>1
<1>4. S # {}
  BY ChipAssumption
<1>5. \A f \in Frames \cup Noise : Len(f) + 3 \in S
  BY <1>2
<1>6. Longest = Max(S)
  BY DEF Longest
<1> HIDE DEF S
<1>7. Max(S) \in S /\ \A x \in S : x <= Max(S)
  <2>1. S \in SUBSET Nat /\ \A x \in S : x <= 53
    BY <1>3
  <2> QED BY <1>4, <2>1, MaxIs
<1> QED BY <1>3, <1>5, <1>6, <1>7

\* A frame in the FIFO, with its length and the two status bytes
LEMMA ArrivalBytes ==
    ASSUME NEW f \in Frames \cup Noise
    PROVE  LET s == <<Len(f)>> \o f \o StatusBytes
           IN  s \in Bytes /\ s # <<>> /\ Len(s) <= Longest
<1>1. f \in Bytes /\ Len(f) \in 0 .. 50 /\ Len(f) + 3 <= Longest
  BY FrameIs, LongestIs
<1>2. StatusBytes \in Bytes /\ Len(StatusBytes) \in 0 .. 2
  <2>1. CASE AppendStatus
    BY <2>1 DEF StatusBytes, Bytes
  <2>2. CASE ~AppendStatus
    BY <2>2 DEF StatusBytes, Bytes
  <2> QED BY <2>1, <2>2
<1>3. <<Len(f)>> \in Bytes /\ Len(<<Len(f)>>) = 1
  BY <1>1 DEF Bytes
<1>4. \A s \in Bytes, t \in Bytes : s \o t \in Bytes /\ Len(s \o t) = Len(s) + Len(t)
  BY DEF Bytes
<1> DEFINE h == <<Len(f)>>
<1>5. h \o f \in Bytes /\ Len(h \o f) = 1 + Len(f)
  BY <1>1, <1>3, <1>4
<1> HIDE DEF h
<1>6. (h \o f) \o StatusBytes \in Bytes
      /\ Len((h \o f) \o StatusBytes) = 1 + Len(f) + Len(StatusBytes)
  BY <1>2, <1>4, <1>5
<1>7. Longest \in Nat
  BY LongestIs
<1>8. \A s \in Bytes : s = <<>> <=> Len(s) = 0
  BY EmptySeq DEF Bytes
<1> DEFINE s == (h \o f) \o StatusBytes
<1>9. s \in Bytes /\ Len(s) = 1 + Len(f) + Len(StatusBytes)
  BY <1>6
<1> HIDE DEF s
<1>10. s # <<>> /\ Len(s) <= Longest
  <2>1. \A n, m, l, k : n \in 0 .. 50 /\ m \in 0 .. 2 /\ l \in Nat /\ n + 3 <= l
                            /\ k = 1 + n + m => k # 0 /\ k <= l
    OBVIOUS
  <2>2. Len(s) # 0 /\ Len(s) <= Longest
    BY <1>1, <1>2, <1>7, <1>9, <2>1, Zenon
  <2> QED BY <1>8, <1>9, <2>2, Zenon
<1> QED BY <1>9, <1>10 DEF h, s

\* What the radio does by itself adds nothing to the burden.
LEMMA ChipBurden ==
    ASSUME Modes, RegsInv, RxChipOK, Settled \/ Arrive \/ Receive \/ Transmitted
    PROVE  RxChipOK' /\ Burden' <= Burden /\ Len(rxfifo) <= Len(rxfifo')
<1>1. Longest \in Nat
  BY LongestIs
<1>2. CASE Settled
  BY <1>1, <1>2 DEF Settled, RxChipOK, Modes, Burden, Open, Bytes, IDLE, RX, TX, SETTLING,
                    RX_FIFO_ERROR
<1>3. CASE Arrive
  <2>1. /\ incoming = <<>> /\ mode = RX /\ mode' = RX /\ rxfifo' = rxfifo
        /\ incoming' \in Bytes /\ incoming' # <<>> /\ Len(incoming') <= Longest
    BY <1>3, ArrivalBytes DEF Arrive
  <2> QED BY <1>1, <2>1 DEF RxChipOK, Burden, Open, Bytes
<1>4. CASE Receive
  <2>1. mode' = IF Len(incoming) = 1 THEN IDLE ELSE RX
    BY <1>4 DEF Receive, LastByte, StateAfter, RegsInv, Field
  <2>2. /\ incoming # <<>> /\ mode = RX
        /\ rxfifo' = Append(rxfifo, Head(incoming)) /\ incoming' = Tail(incoming)
    BY <1>4 DEF Receive
  <2>3. /\ rxfifo' \in Bytes /\ Len(rxfifo') = Len(rxfifo) + 1
        /\ incoming' \in Bytes /\ Len(incoming') = Len(incoming) - 1
        /\ Len(incoming) >= 1 /\ ((incoming' = <<>>) <=> (Len(incoming) = 1))
        /\ Len(incoming) \in Nat /\ Len(rxfifo) \in Nat
    <3>1. incoming \in Bytes /\ rxfifo \in Bytes
      BY DEF RxChipOK
    <3>2. Head(incoming) \in 0 .. 255
      BY <2>2, <3>1, OneByte
    <3> QED BY <2>2, <3>1, <3>2, OneByte
  <2>4. RxChipOK'
    <3>1. incoming' # <<>> => mode' = RX
      BY <2>1, <2>3
    <3>2. mode' # RX_FIFO_ERROR
      BY <2>1 DEF IDLE, RX, RX_FIFO_ERROR
    <3>3. Len(incoming') <= Longest
      BY <1>1, <2>3 DEF RxChipOK
    <3> QED BY <2>3, <3>1, <3>2, <3>3 DEF RxChipOK
  <2>5. ~Open'
    BY <2>1, <2>3 DEF Open, IDLE, RX, SETTLING
  <2>6. Burden' <= Burden /\ Len(rxfifo) <= Len(rxfifo')
    BY <1>1, <2>3, <2>5 DEF Burden
  <2> QED BY <2>4, <2>6
<1>5. CASE Transmitted
  <2>1. mode = TX /\ mode' = IDLE /\ UNCHANGED <<rxfifo, incoming>>
    BY <1>5 DEF Transmitted, StateAfter, RegsInv, Field
  <2> QED BY <1>1, <2>1 DEF RxChipOK, Burden, Open, Bytes, IDLE, RX, TX, SETTLING, RX_FIFO_ERROR
<1> QED BY <1>2, <1>3, <1>4, <1>5

\* The reception, step by step
LEMMA RxInit == Init => RxInv
<1> SUFFICES ASSUME Init PROVE RxInv
  OBVIOUS
<1>1. /\ mode = IDLE /\ rxfifo = <<>> /\ incoming = <<>> /\ pc = "boot"
      /\ pkt_len = 0 /\ buffer = <<>>
  BY DEF Init, ChipInit
<1>2. Longest \in Nat
  BY LongestIs
<1>3. <<>> \in Bytes /\ Len(<<>>) = 0
  BY EmptySeq DEF Bytes
<1> QED BY <1>1, <1>2, <1>3
        DEF RxInv, RxChipOK, RxPoints, Burden, Open, IDLE, RX, SETTLING, RX_FIFO_ERROR

\* The burden is a number.
LEMMA BurdenNat ==
    /\ Longest \in Nat
    /\ RxChipOK => Len(rxfifo) \in Nat /\ Len(incoming) \in Nat /\ Burden \in Nat
    /\ RxChipOK' => Burden' \in Nat
<1>1. Longest \in Nat
  BY LongestIs
<1>2. RxChipOK => Len(rxfifo) \in Nat /\ Len(incoming) \in Nat
  BY OneByte DEF RxChipOK
<1>3. RxChipOK' => Len(rxfifo') \in Nat /\ Len(incoming') \in Nat
  BY OneByte DEF RxChipOK
<1> QED BY <1>1, <1>2, <1>3 DEF Burden

\* The writes of cc1200_init and cc1200_change_rate reach registers only.
LEMMA PruRegister ==
    ASSUME AskInv, Pru, pc \in {"config", "rate"}
    PROVE  \E adr, val : WriteRegister(adr, val)
<1>1. signalled /\ Program /\ Pending
  BY PruEffect DEF AskInv
<1>2. ASSUME NEW adr \in 0 .. 46 \cup {EXT_ADR + x : x \in 0 .. 255}, NEW val \in 0 .. 255,
             HoldsWrite(sharedMem, adr, val)
      PROVE  \E a, v : WriteRegister(a, v)
  <2>1. PICK y : WriteRegister(y, val)
    BY <1>2, PruWrites
  <2> QED BY <2>1
<1>3. CASE pc = "config"
  <2>1. i \in 1 .. 180 /\ HoldsWrite(sharedMem, InitWrites[i].adr, InitWrites[i].val)
    BY <1>1, <1>3 DEF Program, Pending
  <2>2. /\ InitWrites[i].adr \in 0 .. 46 \cup {EXT_ADR + x : x \in 0 .. 255}
        /\ InitWrites[i].val \in 0 .. 255
    BY <2>1, WritesAre, Zenon
  <2> QED BY <1>2, <2>1, <2>2, Zenon
<1>4. CASE pc = "rate"
  <2> DEFINE w == RateWrites(MINSTREL_RATES[rate])
  <2>1. i \in 1 .. 3 /\ rate \in 1 .. 9 /\ HoldsWrite(sharedMem, w[i].adr, w[i].val)
    BY <1>1, <1>4 DEF Program, Pending
  <2>2. /\ w[1].adr = 19 /\ w[2].adr = 20 /\ w[3].adr = 21
        /\ \A k \in 1 .. 3 : w[k].val \in 0 .. 255
    BY <2>1, EveryRateSpelt, WatchedNamed DEF Spelt
  <2> HIDE DEF w
  <2>3. w[i].adr \in 0 .. 46 /\ w[i].val \in 0 .. 255
    BY <2>1, <2>2
  <2> QED BY <1>2, <2>1, <2>3
<1> QED BY <1>3, <1>4

\* What a served call does to the reception; only SRX adds to the burden.
LEMMA PruBurden ==
    ASSUME Modes, RxChipOK
    PROVE  /\ Strobe(SRES) \/ Strobe(SIDLE) \/ Strobe(STX) =>
                 RxChipOK' /\ Burden' <= Burden
           /\ Strobe(SFRX) => RxChipOK' /\ Burden' <= Burden /\ Burden' <= Longest
           /\ Strobe(SRX) => RxChipOK' /\ Burden' <= Burden + Longest
           /\ UNCHANGED <<mode, goal, rxfifo, incoming>> =>
                 RxChipOK' /\ Burden' = Burden /\ Len(rxfifo') = Len(rxfifo)
           /\ ReadFifo /\ rxfifo # <<>> =>
                 /\ RxChipOK' /\ Burden' <= Burden
                 /\ Len(rxfifo') = Len(rxfifo) - 1
                 /\ FifoByte \in 0 .. 255
<1>1. Longest \in Nat /\ rxfifo \in Bytes /\ incoming \in Bytes
  BY LongestIs DEF RxChipOK
<1>2. Len(rxfifo) \in Nat /\ Len(incoming) \in Nat
  BY <1>1, OneByte
<1>3. <<>> \in Bytes /\ Len(<<>>) = 0
  BY EmptySeq DEF Bytes
<1> USE DEF RxChipOK, Burden, Open, IDLE, RX, TX, SETTLING, RX_FIFO_ERROR
<1>4. ASSUME Strobe(SRES)
      PROVE  RxChipOK' /\ Burden' <= Burden
  <2>1. mode' = IDLE /\ rxfifo' = <<>> /\ incoming' = <<>>
    BY <1>4 DEF Strobe, SRES, SIDLE, SRX, STX, SFRX, SNOP
  <2> QED BY <1>1, <1>2, <1>3, <2>1
<1>5. ASSUME Strobe(SIDLE)
      PROVE  RxChipOK' /\ Burden' <= Burden
  <2>1. /\ incoming' = <<>> /\ UNCHANGED rxfifo
        /\ IF mode = IDLE THEN UNCHANGED <<mode, goal>> ELSE Settle(IDLE)
    BY <1>5 DEF Strobe, SRES, SIDLE, SRX, STX, SFRX, SNOP
  <2> QED BY <1>1, <1>2, <1>3, <2>1 DEF Settle
<1>6. ASSUME Strobe(STX)
      PROVE  RxChipOK' /\ Burden' <= Burden
  <2>1. /\ incoming' = <<>> /\ UNCHANGED rxfifo
        /\ IF mode = TX THEN UNCHANGED <<mode, goal>> ELSE Settle(TX)
    BY <1>6 DEF Strobe, SRES, SIDLE, SRX, STX, SFRX, SNOP
  <2> QED BY <1>1, <1>2, <1>3, <2>1 DEF Settle
<1>7. ASSUME Strobe(SFRX)
      PROVE  RxChipOK' /\ Burden' <= Burden /\ Burden' <= Longest
  <2>1. rxfifo' = <<>> /\ UNCHANGED <<mode, goal, incoming>>
    BY <1>7 DEF Strobe, SRES, SIDLE, SRX, STX, SFRX, SNOP
  <2> QED BY <1>1, <1>2, <1>3, <2>1
<1>8. ASSUME Strobe(SRX)
      PROVE  RxChipOK' /\ Burden' <= Burden + Longest
  <2>1. /\ UNCHANGED <<rxfifo, incoming>>
        /\ IF mode = RX THEN UNCHANGED <<mode, goal>> ELSE Settle(RX)
    BY <1>8 DEF Strobe, SRES, SIDLE, SRX, STX, SFRX, SNOP
  <2> QED BY <1>1, <1>2, <1>3, <2>1 DEF Settle
<1>9. ASSUME UNCHANGED <<mode, goal, rxfifo, incoming>>
      PROVE  RxChipOK' /\ Burden' = Burden /\ Len(rxfifo') = Len(rxfifo)
  BY <1>1, <1>9
<1>10. ASSUME ReadFifo, rxfifo # <<>>
       PROVE  /\ RxChipOK' /\ Burden' <= Burden
              /\ Len(rxfifo') = Len(rxfifo) - 1
              /\ FifoByte \in 0 .. 255
  <2>1. rxfifo' = Tail(rxfifo) /\ UNCHANGED <<mode, goal, incoming>>
    BY <1>10 DEF ReadFifo
  <2>2. FifoByte \in 0 .. 255
    BY <1>1, <1>10, OneByte DEF FifoByte
  <2>3. rxfifo' \in Bytes /\ Len(rxfifo') = Len(rxfifo) - 1
    BY <1>1, <1>10, <2>1, OneByte
  <2>4. /\ mode' = mode /\ goal' = goal /\ incoming' = incoming
    BY <2>1
  <2> HIDE DEF FifoByte
  <2> QED BY <1>1, <1>2, <2>2, <2>3, <2>4
<1> QED BY <1>4, <1>5, <1>6, <1>7, <1>8, <1>9, <1>10

LEMMA RxPru ==
    ASSUME IdleInv, AskInv, RxInv, Pru
    PROVE  RxInv'
<1>1. /\ signalled /\ ~signalled'
      /\ UNCHANGED <<pc, pkt_len, buffer>>
  BY PruEffect
<1>2. /\ Modes /\ RxChipOK /\ RxPoints /\ Program /\ Pending
      /\ Burden <= 2 * Longest /\ pkt_len \in 0 .. 255 /\ buffer \in Bytes
  BY DEF IdleInv, RxInv, AskInv
<1>3. /\ Longest \in Nat /\ Len(rxfifo) \in Nat /\ Len(incoming) \in Nat
      /\ Len(buffer) \in Nat
  BY <1>2, BurdenNat, OneByte
<1>4. Burden \in Nat
  BY <1>2, BurdenNat
<1>5. ASSUME RxChipOK', Burden' <= Burden,
             pc \notin {"flush", "count", "rest", "length", "read"}
      PROVE  RxInv'
  BY <1>1, <1>2, <1>3, <1>4, <1>5 DEF RxInv, RxPoints, Burden
<1>6. CASE pc \in {"reset", "idle", "enter"}
  <2>1. \/ Strobe(SRES) \/ Strobe(SIDLE) \/ Strobe(STX)
        \/ UNCHANGED <<mode, goal, rxfifo, incoming>>
    BY <1>6, PruEffect DEF chipVars
  <2> QED BY <1>2, <1>4, <1>5, <1>6, <2>1, PruBurden
<1>7. CASE pc = "give up"
  <2>1. Strobe(SFRX)
    BY <1>7, PruEffect
  <2> QED BY <1>2, <1>5, <1>7, <2>1, PruBurden
<1>8. CASE pc \in {"fill", "config", "rate", "boot", "exit", "ready", "snop", "control",
                  "tx count", "filled", "leave"}
  <2>1. WriteFifo(sharedMem[1]) => UNCHANGED <<mode, goal, rxfifo, incoming>>
    BY DEF WriteFifo
  <2>2. ASSUME pc \in {"config", "rate"}
        PROVE  UNCHANGED <<mode, goal, rxfifo, incoming>>
    BY <2>2, PruRegister DEF WriteRegister
  <2>3. UNCHANGED <<mode, goal, rxfifo, incoming>>
    BY <1>8, <2>1, <2>2, PruEffect DEF chipVars
  <2>4. RxChipOK' /\ Burden' <= Burden
    BY <1>2, <1>4, <2>3, PruBurden
  <2> QED BY <1>5, <1>8, <2>4
<1>9. CASE pc = "flush"
  <2>1. Strobe(SFRX)
    BY <1>9, PruEffect
  <2>2. RxChipOK' /\ Burden' <= Burden /\ Burden' <= Longest
    BY <1>2, <2>1, PruBurden
  <2>3. Burden' <= 2 * Longest
    BY <1>2, <1>3, <1>4, <2>2, BurdenNat
  <2> QED BY <1>1, <1>2, <1>9, <2>2, <2>3 DEF RxInv, RxPoints
<1>10. CASE pc = "rx"
  <2>1. CASE sharedMem[0] = SRX
    <3>1. Burden <= Longest
      BY <1>1, <1>2, <1>10, <2>1 DEF RxPoints
    <3>2. Strobe(SRX) \/ UNCHANGED <<mode, goal, rxfifo, incoming>>
      BY <1>10, PruEffect DEF chipVars
    <3>3. RxChipOK' /\ Burden' <= Burden + Longest
      BY <1>2, <1>3, <1>4, <3>2, PruBurden
    <3>4. Burden' \in Nat
      BY <3>3, BurdenNat
    <3>5. Burden' <= 2 * Longest
      BY <1>3, <1>4, <3>1, <3>3, <3>4
    <3> QED BY <1>1, <1>2, <1>3, <1>10, <3>3, <3>5 DEF RxInv, RxPoints
  <2>2. CASE sharedMem[0] # SRX
    <3>1. Holds(sharedMem, SNOP, 1)
      BY <1>1, <1>2, <1>10, <2>2 DEF Pending, Holds
    <3>2. Strobe(SNOP)
      BY <3>1, PruStrobe
    <3>3. UNCHANGED <<mode, goal, rxfifo, incoming>>
      BY <3>2 DEF Strobe, SRES, SIDLE, SRX, STX, SFRX, SNOP, chipVars
    <3> QED BY <1>2, <1>4, <1>5, <1>10, <3>3, PruBurden
  <2> QED BY <2>1, <2>2
<1>11. CASE pc \in {"count", "rest"}
  <2>1. UNCHANGED <<mode, goal, rxfifo, incoming>> /\ sharedMem'[7] = Len(rxfifo)
    BY <1>11, PruEffect DEF chipVars
  <2>2. RxChipOK' /\ Burden' = Burden /\ Len(rxfifo') = Len(rxfifo)
    BY <1>2, <2>1, PruBurden
  <2> QED BY <1>1, <1>2, <1>3, <1>11, <2>1, <2>2 DEF RxInv, RxPoints
<1>12. CASE pc \in {"length", "read"}
  <2>1. ReadFifo /\ sharedMem'[6] = FifoByte
    BY <1>12, PruEffect
  <2>2. rxfifo # <<>>
    <3>1. CASE pc = "length"
      BY <1>1, <1>2, <3>1 DEF RxPoints
    <3>2. CASE pc = "read"
      <4>1. Len(buffer) <= pkt_len + 1 /\ pkt_len + 2 <= Len(rxfifo) + Len(buffer)
        BY <1>1, <1>2, <1>3, <3>2 DEF RxPoints
      <4>2. Len(rxfifo) # 0
        BY <1>2, <1>3, <4>1
      <4> QED BY <4>2, EmptySeq
    <3> QED BY <1>12, <3>1, <3>2
  <2>3. /\ RxChipOK' /\ Burden' <= Burden /\ Len(rxfifo') = Len(rxfifo) - 1
        /\ FifoByte \in 0 .. 255
    BY <1>2, <2>1, <2>2, PruBurden
  <2>4. Burden' \in Nat
    BY <2>3, BurdenNat
  <2>5. Burden' <= 2 * Longest /\ pkt_len' \in 0 .. 255 /\ buffer' \in Bytes
    BY <1>1, <1>2, <1>3, <1>4, <2>3, <2>4
  <2>6. sharedMem'[6] \in 0 .. 255
    BY <2>1, <2>3
  <2>7. pc = "read" => /\ Len(buffer') <= pkt_len' + 1
                       /\ pkt_len' + 2 <= Len(rxfifo') + Len(buffer') + 1
    <3>1. SUFFICES ASSUME pc = "read"
                   PROVE  /\ Len(buffer) <= pkt_len + 1
                          /\ pkt_len + 2 <= Len(rxfifo') + Len(buffer) + 1
      BY <1>1
    <3>2. Len(buffer) <= pkt_len + 1 /\ pkt_len + 2 <= Len(rxfifo) + Len(buffer)
      BY <1>1, <1>2, <1>3, <3>1 DEF RxPoints
    <3> QED BY <1>2, <1>3, <2>3, <3>2
  <2> QED BY <1>1, <1>12, <2>3, <2>5, <2>6, <2>7 DEF RxInv, RxPoints
<1> QED BY <1>2, <1>6, <1>7, <1>8, <1>9, <1>10, <1>11, <1>12
        DEF Program, SetUpPoints, SendPoints, GetPoints

LEMMA RxDriver ==
    ASSUME AskInv, RxInv, UNCHANGED chipVars, Driver \/ Calling
    PROVE  RxInv'
<1>1. UNCHANGED <<mode, goal, rxfifo, incoming>>
  BY DEF chipVars
<1>2. RxChipOK' /\ Burden' = Burden /\ Burden' <= 2 * Longest
  BY <1>1 DEF RxInv, RxChipOK, Burden, Open
<1>3. /\ pkt_len \in 0 .. 255 /\ buffer \in Bytes /\ rxfifo \in Bytes
      /\ Len(buffer) \in Nat /\ Len(rxfifo) \in Nat
  BY OneByte DEF RxInv, RxChipOK
<1>4. Mailbox /\ Program
  BY DEF AskInv
<1>5. ASSUME UNCHANGED <<pkt_len, buffer>>,
             pc' \notin {"flush", "rx", "count", "rest", "length", "read"}
      PROVE  RxInv'
  BY <1>2, <1>3, <1>5 DEF RxInv, RxPoints
<1>6. CASE Configuring
  BY <1>5, <1>6 DEF Configuring, Boot, BootFails, Reset, Configure, Control, InitEnds,
     ChangeRateOn, RateChanged, Go, Leave, localVars
<1>7. CASE Sending
  <2>1. pc' \in SendPoints \cup {"ready"}
    BY <1>7, Points
  <2>2. UNCHANGED <<pkt_len, buffer>>
    BY <1>7 DEF Sending, GoIdle, AwaitIdle, WriteLength, WriteByte, Filled,
       GoTx, AwaitTx, Entered, AwaitEnd, SendReturns, Poll, Then, localVars
  <2> QED BY <1>5, <2>1, <2>2 DEF SendPoints
<1>8. CASE StartSend \/ ChangeRate
  BY <1>5, <1>8 DEF StartSend, ChangeRate, localVars
<1>9. CASE StartGet
  <2>1. pc' = "flush" /\ signalled' /\ UNCHANGED <<pkt_len, buffer>>
    BY <1>4, <1>9, Cmd DEF StartGet, localVars
  <2> QED BY <1>2, <1>3, <2>1 DEF RxInv, RxPoints
<1>10. CASE GoRx
  <2>1. /\ pc = "flush" /\ ~signalled /\ pc' = "rx" /\ UNCHANGED <<pkt_len, buffer>>
    BY <1>10 DEF GoRx, Then, Go, Returned, localVars
  <2>2. Burden <= Longest
    BY <2>1 DEF RxInv, RxPoints
  <2> QED BY <1>2, <1>3, <2>1, <2>2 DEF RxInv, RxPoints
<1>11. CASE AwaitRx
  <2>1. /\ pc' = "rx" /\ UNCHANGED <<pkt_len, buffer>>
    BY <1>11 DEF AwaitRx, Poll, Then, Go, localVars
  <2>2. sharedMem'[0] = SNOP
    BY <1>4, <1>11, Cmd DEF AwaitRx, Poll, Holds
  <2> QED BY <1>2, <1>3, <2>1, <2>2 DEF RxInv, RxPoints, SNOP, SRX
<1>12. ASSUME NEW from, NEW to \in {"count", "rest"}, Look(from, to)
       PROVE  pc' \in {"count", "rest", "give up"} /\ signalled'
  <2>1. CASE late
    BY <1>4, <1>12, <2>1, Cmd DEF Look, Go
  <2>2. CASE ~late
    BY <1>4, <1>12, <2>2, CountRead DEF Look, Go
  <2> QED BY <2>1, <2>2
<1>13. ASSUME pc' \in {"count", "rest", "give up"}, signalled',
              pkt_len' \in 0 .. 255, buffer' = buffer
       PROVE  RxInv'
  BY <1>2, <1>3, <1>13 DEF RxInv, RxPoints
<1>14. CASE Listen \/ Nothing \/ Incomplete
  BY <1>3, <1>12, <1>13, <1>14 DEF Listen, Nothing, Incomplete, localVars
<1>15. CASE GotLength
  <2>1. pkt_len' = sharedMem[6] /\ buffer' = buffer
    BY <1>15, Extended DEF GotLength, ValueOf
  <2>2. pc = "length" /\ ~signalled
    BY <1>15 DEF GotLength, Look, Go, Returned
  <2>3. pkt_len' \in 0 .. 255
    BY <2>1, <2>2 DEF RxInv, RxPoints
  <2> QED BY <1>12, <1>13, <1>15, <2>1, <2>3 DEF GotLength
<1>16. IsExtended(NUM_RXBYTES)
  BY DEF IsExtended, Field, NUM_RXBYTES
<1>17. CASE ReadLength
  <2>1. /\ pc = "count" /\ ~signalled /\ pc' = "length" /\ UNCHANGED <<pkt_len, buffer>>
        /\ sharedMem[7] > 0
    BY <1>16, <1>17 DEF ReadLength, Then, Go, Returned, ValueOf, localVars
  <2>2. signalled'
    BY <1>4, <1>17, FifoRead DEF ReadLength
  <2>3. rxfifo # <<>>
    <3>1. sharedMem[7] \in Nat /\ sharedMem[7] <= Len(rxfifo)
      BY <2>1 DEF RxInv, RxPoints
    <3>2. Len(rxfifo) # 0
      BY <1>3, <2>1, <3>1
    <3> QED BY <3>2, EmptySeq
  <2> QED BY <1>1, <1>2, <1>3, <2>1, <2>2, <2>3 DEF RxInv, RxPoints
<1>18. CASE ReadFirst
  <2>1. /\ pc = "rest" /\ ~signalled /\ pc' = "read" /\ UNCHANGED <<pkt_len, buffer>>
        /\ sharedMem[7] >= pkt_len + 2
    BY <1>16, <1>18 DEF ReadFirst, Complete, Then, Go, Returned, ValueOf, localVars, PKT_OVERHEAD
  <2>2. signalled'
    BY <1>4, <1>18, FifoRead DEF ReadFirst
  <2>3. sharedMem[7] \in Nat /\ sharedMem[7] <= Len(rxfifo) /\ Len(buffer) = 0
    BY <1>4, <2>1, EmptySeq DEF RxInv, RxPoints, Program
  <2>4. pkt_len + 2 <= Len(rxfifo) + Len(buffer)
    BY <1>3, <2>1, <2>3
  <2> QED BY <1>1, <1>2, <1>3, <2>1, <2>2, <2>3, <2>4 DEF RxInv, RxPoints
<1>19. CASE ReadOn
  <2>1. /\ pc = "read" /\ ~signalled /\ pc' = "read" /\ UNCHANGED pkt_len
        /\ Len(buffer) < pkt_len + 1 /\ buffer' = Append(buffer, sharedMem[6])
    BY <1>19, Extended DEF ReadOn, Go, Returned, ValueOf, PKT_OVERHEAD
  <2>2. signalled'
    BY <1>4, <1>19, FifoRead DEF ReadOn
  <2>3. sharedMem[6] \in 0 .. 255 /\ pkt_len + 2 <= Len(rxfifo) + Len(buffer) + 1
    BY <2>1 DEF RxInv, RxPoints
  <2>4. buffer' \in Bytes /\ Len(buffer') = Len(buffer) + 1
    BY <1>3, <2>1, <2>3, OneByte
  <2> QED BY <1>1, <1>2, <1>3, <2>1, <2>2, <2>3, <2>4 DEF RxInv, RxPoints
<1>20. CASE GetReturns \/ GetTimesOut
  <2>1. pc' = "ready" /\ pkt_len' = 0 /\ buffer' = <<>>
    BY <1>20 DEF GetReturns, GetTimesOut, EndGet, Leave, Go
  <2>2. <<>> \in Bytes
    BY EmptySeq DEF Bytes
  <2> QED BY <1>2, <2>1, <2>2 DEF RxInv, RxPoints
<1> QED BY <1>6, <1>7, <1>8, <1>9, <1>10, <1>11, <1>14, <1>15, <1>17, <1>18, <1>19, <1>20
        DEF Driver, Getting, Calling, Call

LEMMA RxMoves ==
    ASSUME IdleInv, RegsInv, RxInv, ChipMoves
    PROVE  RxInv'
<1>1. UNCHANGED <<sharedMem, signalled, pc, pkt_len, buffer>>
  BY DEF ChipMoves, spiVars, localVars
<1>2. /\ Modes /\ RxChipOK /\ RxPoints
      /\ Burden <= 2 * Longest /\ pkt_len \in 0 .. 255 /\ buffer \in Bytes
  BY DEF IdleInv, RxInv
<1>3. RxChipOK' /\ Burden' <= Burden /\ Len(rxfifo) <= Len(rxfifo')
  BY <1>2, ChipBurden DEF ChipMoves
<1>4. /\ Burden \in Nat /\ Burden' \in Nat /\ Longest \in Nat
      /\ Len(rxfifo) \in Nat /\ Len(rxfifo') \in Nat /\ Len(buffer) \in Nat
  BY <1>2, <1>3, BurdenNat, OneByte DEF RxChipOK
<1>5. rxfifo # <<>> => rxfifo' # <<>>
  <2>1. rxfifo \in Bytes /\ rxfifo' \in Bytes
    BY <1>2, <1>3 DEF RxChipOK
  <2> QED BY <1>3, <1>4, <2>1, EmptySeq DEF Bytes
<1>6. Burden' <= 2 * Longest /\ (Burden <= Longest => Burden' <= Longest)
  BY <1>2, <1>3, <1>4
<1>7. sharedMem[7] \in Nat /\ sharedMem[7] <= Len(rxfifo) => sharedMem[7] <= Len(rxfifo')
  BY <1>3, <1>4
<1>8. /\ pkt_len + 2 <= Len(rxfifo) + Len(buffer) => pkt_len + 2 <= Len(rxfifo') + Len(buffer)
      /\ pkt_len + 2 <= Len(rxfifo) + Len(buffer) + 1 =>
            pkt_len + 2 <= Len(rxfifo') + Len(buffer) + 1
  <2>1. PICK p \in Nat, l \in Nat, m \in Nat, n \in Nat :
            p = pkt_len /\ l = Len(rxfifo) /\ m = Len(rxfifo') /\ n = Len(buffer)
    <3>1. pkt_len \in Nat
      BY <1>2
    <3> QED BY <1>4, <3>1, Zenon
  <2>2. l <= m
    BY <1>3, <2>1
  <2>3. /\ p + 2 <= l + n => p + 2 <= m + n
        /\ p + 2 <= l + n + 1 => p + 2 <= m + n + 1
    BY <2>2
  <2> QED BY <2>1, <2>3, Zenon
<1>9. RxPoints'
  <2>1. pc = "read" =>
            pkt_len + 2 <= Len(rxfifo') + Len(buffer) + (IF signalled THEN 0 ELSE 1)
    <3>1. CASE signalled
      BY <1>2, <1>4, <1>8, <3>1 DEF RxPoints
    <3>2. CASE ~signalled
      BY <1>2, <1>4, <1>8, <3>2 DEF RxPoints
    <3> QED BY <3>1, <3>2
  <2> QED BY <1>1, <1>2, <1>5, <1>6, <1>7, <2>1 DEF RxPoints
<1> QED BY <1>1, <1>2, <1>3, <1>6, <1>9 DEF RxInv

LEMMA RxStep ==
    ASSUME IdleInv, AskInv, RegsInv, RxInv, [Next]_vars
    PROVE  RxInv'
<1>1. CASE Driver \/ Calling
  BY <1>1, RxDriver DEF Driver, Calling
<1>2. CASE Pru
  BY <1>2, RxPru
<1>3. CASE ChipMoves
  BY <1>3, RxMoves
<1>4. CASE Restart
  <2>1. /\ pc' = "boot" /\ pkt_len' = 0 /\ buffer' = <<>>
        /\ UNCHANGED <<mode, goal, rxfifo, incoming>>
    BY <1>4 DEF Restart, chipVars
  <2>2. <<>> \in Bytes
    BY EmptySeq DEF Bytes
  <2> QED BY <2>1, <2>2 DEF RxInv, RxChipOK, RxPoints, Burden, Open
<1>5. CASE Tick \/ UNCHANGED vars
  <2>1. UNCHANGED <<mode, goal, rxfifo, incoming, sharedMem, signalled, pc, pkt_len, buffer>>
    BY <1>5 DEF Tick, vars, chipVars, spiVars, localVars
  <2> QED BY <2>1 DEF RxInv, RxChipOK, RxPoints, Burden, Open
<1> QED BY <1>1, <1>2, <1>3, <1>4, <1>5 DEF Next

\* What is in the FIFO is part of the burden.
LEMMA NoFifoErrorHolds ==
    ASSUME RxInv
    PROVE  NoFifoError
<1>1. RxChipOK /\ Burden <= 2 * Longest
  BY DEF RxInv
<1>2. Longest \in Nat /\ Len(rxfifo) \in Nat /\ Len(incoming) \in Nat
  BY <1>1, BurdenNat
<1> QED BY <1>1, <1>2 DEF RxChipOK, Burden, NoFifoError
-----------------------------------------------------------------------------
(* The transmission                                                        *)
\* The TX FIFO holds n bytes: the length of the packet, then its bytes
Filling(n) ==
    /\ Len(txfifo) = n
    /\ n >= 1 => txfifo[1] = Len(packet)
    /\ \A k \in 2 .. n : txfifo[k] = packet[k - 1]

\* The points at which there is nothing to transmit
EmptyPoints ==
    {"snop", "config", "control", "ready", "rate", "tx count", "idle"} \cup GetPoints

\* The TX FIFO holds the packet of the call, byte by byte as far as it was written
\* (cc1200_rate.c:183-186), until the radio has transmitted it.
TxFifo ==
    /\ txfifo \in Bytes /\ Len(txfifo) <= 51
    /\ pc \in EmptyPoints \/ (pc = "reset" /\ ~signalled) => txfifo = <<>>
    /\ pc = "fill" => Filling(IF signalled THEN i ELSE i + 1)
    /\ pc = "filled" => Filling(Len(packet) + 1)
    /\ pc \in {"enter", "leave"} =>
          IF done THEN txfifo = <<>> ELSE Filling(Len(packet) + 1)

\* The packet has left the radio when the second loop ends.
TxEnds ==
    /\ pc \in {"tx count", "idle", "fill", "filled"} => ~done
    /\ pc = "enter" /\ ~signalled /\ StatusNow = TX => (mode = TX \/ done)
    /\ pc = "leave" => (mode = TX \/ done)
    /\ pc = "leave" /\ ~signalled /\ StatusNow # TX => done

\* Transmission, step by step
TxInv == TxFifo /\ TxEnds

LEMMA TxInit == Init => TxInv
<1> SUFFICES ASSUME Init PROVE TxInv
  OBVIOUS
<1>1. pc = "boot" /\ txfifo = <<>>
  BY DEF Init, ChipInit
<1>2. <<>> \in Bytes /\ Len(<<>>) = 0
  BY EmptySeq DEF Bytes
<1> QED BY <1>1, <1>2 DEF TxInv, TxFifo, TxEnds, EmptyPoints, GetPoints

LEMMA TxDriver ==
    ASSUME AskInv, TxInv, UNCHANGED chipVars, Driver \/ Calling
    PROVE  TxInv'
<1>1. UNCHANGED <<mode, txfifo>>
  BY DEF chipVars
<1>2. Mailbox /\ Program /\ TxFifo /\ TxEnds
  BY DEF AskInv, TxInv
<1>3. txfifo' \in Bytes /\ Len(txfifo') <= 51
  BY <1>1, <1>2 DEF TxFifo
<1> USE DEF GetPoints, EmptyPoints
<1>4. ASSUME pc' \in EmptyPoints, txfifo = <<>>,
             pc' \in {"tx count", "idle"} => ~done'
      PROVE  TxInv'
  BY <1>1, <1>3, <1>4 DEF TxInv, TxFifo, TxEnds
<1>5. CASE Boot \/ BootFails
  <2>1. (pc' = "reset" /\ signalled') \/ pc' = "exit"
    BY <1>2, <1>5, Cmd DEF Boot, BootFails
  <2> QED BY <1>3, <2>1 DEF TxInv, TxFifo, TxEnds
<1>6. CASE Reset \/ Configure \/ Control \/ InitEnds \/ ChangeRateOn \/ RateChanged
  <2>1. /\ pc' \in {"snop", "config", "control", "ready", "rate"}
        /\ pc \in {"snop", "config", "control", "rate"} \/ (pc = "reset" /\ ~signalled)
    BY <1>6 DEF Reset, Configure, Control, InitEnds, ChangeRateOn, RateChanged,
                Go, Leave, Returned
  <2> QED BY <1>2, <1>4, <2>1 DEF TxFifo
<1>7. CASE Getting
  <2>1. pc \in GetPoints /\ pc' \in GetPoints \cup {"ready"}
    BY <1>7, Points
  <2> QED BY <1>2, <1>4, <2>1 DEF TxFifo
<1>8. CASE StartGet \/ ChangeRate \/ StartSend
  <2>1. /\ pc = "ready" /\ pc' \in {"flush", "rate", "tx count"}
        /\ pc' = "tx count" => ~done'
    BY <1>8 DEF StartGet, ChangeRate, StartSend
  <2> QED BY <1>2, <1>4, <2>1 DEF TxFifo
<1>9. CASE GoIdle \/ AwaitIdle
  <2>1. pc \in {"tx count", "idle"} /\ pc' = "idle" /\ UNCHANGED done
    BY <1>9 DEF GoIdle, AwaitIdle, Poll, Then, Go, portVars
  <2> QED BY <1>2, <1>4, <2>1 DEF TxFifo, TxEnds
<1>10. CASE WriteLength
  <2>1. pc = "idle" /\ pc' = "fill" /\ UNCHANGED <<i, done, packet>>
    BY <1>10 DEF WriteLength, Then, Go, portVars, localVars
  <2>2. signalled'
    BY <1>2, <1>10, FifoWrite DEF WriteLength
  <2>3. txfifo = <<>> /\ i = 0 /\ ~done
    BY <1>2, <2>1 DEF TxFifo, TxEnds, Program
  <2>4. Filling(IF signalled THEN i ELSE i + 1)'
    BY <1>1, <2>1, <2>2, <2>3, EmptySeq DEF Filling
  <2> QED BY <1>3, <2>1, <2>3, <2>4 DEF TxInv, TxFifo, TxEnds
<1>11. CASE WriteByte
  <2>1. pc = "fill" /\ ~signalled /\ pc' = "fill" /\ i' = i + 1 /\ UNCHANGED <<done, packet>>
    BY <1>11 DEF WriteByte, Go, Returned, portVars
  <2>2. signalled'
    BY <1>2, <1>11, FifoWrite DEF WriteByte
  <2>3. Filling(i + 1) /\ ~done
    BY <1>2, <2>1 DEF TxFifo, TxEnds
  <2>4. Filling(IF signalled THEN i ELSE i + 1)'
    BY <1>1, <2>1, <2>2, <2>3 DEF Filling
  <2> QED BY <1>3, <2>1, <2>3, <2>4 DEF TxInv, TxFifo, TxEnds
<1>12. CASE Filled
  <2>1. /\ pc = "fill" /\ ~signalled /\ pc' = "filled" /\ i = Len(packet)
        /\ UNCHANGED <<done, packet>>
    BY <1>12 DEF Filled, Go, Returned, portVars
  <2>2. Filling(Len(packet) + 1) /\ ~done
    BY <1>2, <2>1 DEF TxFifo, TxEnds
  <2>3. Filling(Len(packet) + 1)'
    BY <1>1, <2>1, <2>2 DEF Filling
  <2> QED BY <1>3, <2>1, <2>2, <2>3 DEF TxInv, TxFifo, TxEnds
<1>13. CASE GoTx \/ AwaitTx
  <2>1. /\ pc \in {"filled", "enter"} /\ pc' = "enter" /\ UNCHANGED <<done, packet>>
    BY <1>13 DEF GoTx, AwaitTx, Poll, Then, Go, portVars
  <2>2. signalled'
    BY <1>2, <1>13, Cmd DEF GoTx, AwaitTx, Poll
  <2>3. IF done THEN txfifo = <<>> ELSE Filling(Len(packet) + 1)
    BY <1>2, <2>1 DEF TxFifo, TxEnds
  <2>4. Filling(Len(packet) + 1) => Filling(Len(packet) + 1)'
    BY <1>1, <2>1 DEF Filling
  <2> QED BY <1>1, <1>3, <2>1, <2>2, <2>3, <2>4 DEF TxInv, TxFifo, TxEnds
<1>14. CASE Entered \/ AwaitEnd
  <2>1. /\ (pc = "enter" /\ ~signalled /\ StatusNow = TX) \/ pc = "leave"
        /\ pc' = "leave" /\ UNCHANGED <<done, packet>>
    BY <1>14 DEF Entered, AwaitEnd, Poll, Then, Go, Returned, portVars
  <2>2. signalled'
    BY <1>2, <1>14, Cmd DEF Entered, AwaitEnd, Poll
  <2>3. IF done THEN txfifo = <<>> ELSE Filling(Len(packet) + 1)
    BY <1>2, <2>1 DEF TxFifo
  <2>4. Filling(Len(packet) + 1) => Filling(Len(packet) + 1)'
    BY <1>1, <2>1 DEF Filling
  <2>5. mode = TX \/ done
    BY <1>2, <2>1 DEF TxEnds
  <2> QED BY <1>1, <1>3, <2>1, <2>2, <2>3, <2>4, <2>5 DEF TxInv, TxFifo, TxEnds
<1>15. CASE SendReturns
  <2>1. pc = "leave" /\ ~signalled /\ StatusNow # TX /\ pc' = "ready"
    BY <1>15 DEF SendReturns, Leave, Go, Returned
  <2>2. txfifo = <<>>
    BY <1>2, <2>1 DEF TxFifo, TxEnds
  <2> QED BY <1>4, <2>1, <2>2
<1> QED BY <1>5, <1>6, <1>7, <1>8, <1>9, <1>10, <1>11, <1>12, <1>13, <1>14, <1>15
        DEF Driver, Configuring, Sending, Calling, Call

LEMMA TxSame ==
    ASSUME TxInv, UNCHANGED <<txfifo, pc, i, packet, done>>,
           UNCHANGED <<sharedMem, signalled>>, mode' = mode \/ mode # TX
    PROVE  TxInv'
<1>1. StatusNow' = StatusNow
  BY DEF StatusNow
<1>2. TxFifo'
  BY DEF TxInv, TxFifo, Filling
<1>3. TxEnds'
  BY <1>1 DEF TxInv, TxEnds
<1> QED BY <1>2, <1>3 DEF TxInv

LEMMA TxPru ==
    ASSUME IdleInv, AskInv, TxInv, Pru
    PROVE  TxInv'
<1>1. /\ signalled /\ ~signalled' /\ sharedMem'[5] = mode * 16
      /\ UNCHANGED <<pc, i, packet, done>>
  BY PruEffect
<1>2. Modes /\ Program /\ Pending /\ TxFifo /\ TxEnds
  BY DEF IdleInv, AskInv, TxInv
<1>3. StatusNow' = mode
  BY <1>1, <1>2, StatusSpelt DEF StatusNow, Modes
<1>4. txfifo \in Bytes /\ Len(txfifo) <= 51
  BY <1>2 DEF TxFifo
<1> USE DEF EmptyPoints, GetPoints
<1>5. CASE pc = "reset"
  <2>1. Strobe(SRES)
    BY <1>5, PruEffect
  <2>2. txfifo' = <<>>
    BY <2>1 DEF Strobe, SRES, SIDLE, SRX, STX, SFRX, SNOP
  <2>3. <<>> \in Bytes /\ Len(<<>>) <= 51
    BY EmptySeq DEF Bytes
  <2> QED BY <1>1, <1>5, <2>2, <2>3 DEF TxInv, TxFifo, TxEnds
<1>6. CASE pc = "fill"
  <2>1. txfifo' = Append(txfifo, sharedMem[1])
    BY <1>6, PruEffect DEF WriteFifo
  <2>2. /\ packet \in Frames /\ i \in 0 .. Len(packet) /\ ~done /\ Filling(i)
        /\ sharedMem[1] = IF i = 0 THEN Len(packet) ELSE packet[i]
    BY <1>1, <1>2, <1>6 DEF Program, Pending, SendPoints, TxFifo, TxEnds
  <2>3. packet \in Bytes /\ Len(packet) \in 0 .. 50
    BY <2>2, FrameIs
  <2>4. sharedMem[1] \in 0 .. 255
    <3>1. CASE i = 0
      BY <2>2, <2>3, <3>1
    <3>2. CASE i # 0
      <4>1. i \in 1 .. Len(packet)
        BY <2>2, <2>3, <3>2
      <4>2. packet[i] \in 0 .. 255
        BY <2>3, <4>1, ElementOfSeq DEF Bytes
      <4> QED BY <2>2, <3>2, <4>2
    <3> QED BY <3>1, <3>2
  <2>5. /\ txfifo' \in Bytes /\ Len(txfifo') = Len(txfifo) + 1
        /\ \A k \in 1 .. Len(txfifo) : txfifo'[k] = txfifo[k]
        /\ txfifo'[Len(txfifo) + 1] = sharedMem[1]
    BY <1>4, <2>1, <2>4, AppendProperties DEF Bytes
  <2>6. i \in Nat /\ Len(txfifo) = i
    BY <2>2, <2>3 DEF Filling
  <2>7. Filling(i + 1)'
    <3>1. Len(txfifo') = i + 1
      BY <2>5, <2>6
    <3>2. txfifo'[1] = Len(packet)
      <4>1. CASE i = 0
        BY <2>2, <2>5, <2>6, <4>1
      <4>2. CASE i # 0
        <5>1. i >= 1 /\ 1 \in 1 .. Len(txfifo)
          BY <2>6, <4>2
        <5> QED BY <2>2, <2>5, <5>1 DEF Filling
      <4> QED BY <4>1, <4>2
    <3>3. ASSUME NEW k \in 2 .. i + 1 PROVE txfifo'[k] = packet[k - 1]
      <4>1. CASE k = i + 1
        <5>1. i # 0 /\ k - 1 = i
          BY <2>6, <4>1
        <5> QED BY <2>2, <2>5, <2>6, <4>1, <5>1
      <4>2. CASE k # i + 1
        <5>1. k \in 2 .. i /\ k \in 1 .. Len(txfifo)
          BY <2>6, <4>2
        <5> QED BY <2>2, <2>5, <5>1 DEF Filling
      <4> QED BY <4>1, <4>2
    <3> QED BY <1>1, <3>1, <3>2, <3>3 DEF Filling
  <2>8. Len(txfifo') <= 51
    <3>1. \A l \in 0 .. 50 : \A n \in 0 .. l : n + 1 <= 51
      OBVIOUS
    <3>2. Len(txfifo') = i + 1
      BY <2>5, <2>6
    <3>3. i + 1 <= 51
      BY <2>2, <2>3, <3>1, Zenon
    <3> QED BY <3>2, <3>3
  <2> QED BY <1>1, <1>6, <2>2, <2>5, <2>7, <2>8 DEF TxInv, TxFifo, TxEnds
<1>7. ASSUME UNCHANGED txfifo, pc \notin {"reset", "fill"},
             pc \in {"enter", "leave"} /\ mode = TX => mode' = TX
      PROVE  TxInv'
  <2>1. TxFifo'
    BY <1>1, <1>2, <1>7 DEF TxFifo, Filling
  <2>2. TxEnds'
    BY <1>1, <1>2, <1>3, <1>7 DEF TxEnds
  <2> QED BY <2>1, <2>2 DEF TxInv
<1>8. CASE pc \in {"idle", "rx", "flush", "give up", "enter"}
  <2>1. \A cmd : Strobe(cmd) /\ cmd # SRES => UNCHANGED txfifo
    BY DEF Strobe, chipVars
  <2>2. SIDLE # SRES /\ STX # SRES /\ SRX # SRES /\ SFRX # SRES
    BY DEF SRES, SIDLE, SRX, STX, SFRX
  <2>3. UNCHANGED txfifo
    BY <1>8, <2>1, <2>2, PruEffect DEF chipVars
  <2>4. pc = "enter" /\ mode = TX => mode' = TX
    <3>1. (Strobe(STX) /\ mode = TX) => mode' = TX
      BY DEF Strobe, SRES, SIDLE, SRX, STX, SFRX, SNOP
    <3> QED BY <3>1, PruEffect DEF chipVars
  <2> QED BY <1>7, <1>8, <2>3, <2>4
<1>9. CASE pc \in {"config", "rate", "length", "read"}
  <2>1. UNCHANGED txfifo
    BY <1>9, PruRegister, PruEffect DEF WriteRegister, ReadFifo
  <2> QED BY <1>7, <1>9, <2>1
<1>10. CASE pc \in {"boot", "exit", "ready", "snop", "control", "tx count", "filled",
                   "leave", "count", "rest"}
  <2>1. UNCHANGED <<txfifo, mode>>
    BY <1>10, PruEffect DEF chipVars
  <2> QED BY <1>7, <1>10, <2>1
<1> QED BY <1>2, <1>5, <1>6, <1>8, <1>9, <1>10
        DEF Program, SetUpPoints, SendPoints

LEMMA TxMoves ==
    ASSUME IdleInv, AskInv, TxInv, ChipMoves
    PROVE  TxInv'
<1>1. UNCHANGED <<sharedMem, signalled, pc, i, packet>>
  BY DEF ChipMoves, spiVars, localVars, portVars
<1>2. CASE ~Transmitted
  <2>1. UNCHANGED <<txfifo, done>> /\ (mode' = mode \/ mode # TX)
    BY <1>2 DEF ChipMoves, Settled, Arrive, Receive, portVars, SETTLING, RX, TX
  <2> QED BY <1>1, <2>1, TxSame
<1>3. CASE Transmitted
  <2>1. /\ mode = TX /\ txfifo # <<>> /\ Len(txfifo) > txfifo[1]
        /\ txfifo' = SubSeq(txfifo, txfifo[1] + 2, Len(txfifo))
    BY <1>3 DEF Transmitted
  <2>2. Modes /\ Program /\ TxFifo /\ TxEnds /\ Fills
    BY DEF IdleInv, AskInv, TxInv
  <2>3. pc \notin EmptyPoints /\ ~(pc = "reset" /\ ~signalled)
    BY <2>1, <2>2 DEF TxFifo
  <2>4. pc \notin {"fill", "filled"}
    BY <2>1, <2>2 DEF Fills, IDLE, TX
  <2>5. pc \in {"boot", "exit", "reset", "enter", "leave"}
    BY <2>2, <2>3, <2>4 DEF Program, SetUpPoints, SendPoints, EmptyPoints
  <2>6. CASE pc \in {"boot", "exit", "reset"}
    <3>1. txfifo \in Bytes /\ Len(txfifo) <= 51 /\ Len(txfifo) \in Nat
      BY <2>2, OneByte DEF TxFifo
    <3>2. txfifo[1] \in 0 .. 255
      <4>1. 1 \in 1 .. Len(txfifo)
        BY <2>1, <3>1, EmptySeq DEF Bytes
      <4> QED BY <3>1, <4>1, ElementOfSeq DEF Bytes
    <3>3. PICK m \in Nat : m = txfifo[1] + 2 /\ m >= 2
      BY <3>2
    <3>4. \A k \in m .. Len(txfifo) : txfifo[k] \in 0 .. 255
      <4> TAKE k \in m .. Len(txfifo)
      <4>1. k \in 1 .. Len(txfifo)
        BY <3>1, <3>3
      <4> QED BY <3>1, <4>1, ElementOfSeq DEF Bytes
    <3>5. /\ txfifo' \in Bytes
          /\ Len(txfifo') = IF m <= Len(txfifo) THEN Len(txfifo) - m + 1 ELSE 0
      BY <2>1, <3>1, <3>3, <3>4, SubSeqProperties DEF Bytes
    <3>6. Len(txfifo') <= 51
      BY <3>1, <3>3, <3>5
    <3> QED BY <1>1, <2>3, <2>6, <3>5, <3>6
            DEF TxInv, TxFifo, TxEnds, EmptyPoints, GetPoints
  <2>7. CASE pc \in {"enter", "leave"}
    <3>1. ~done /\ Filling(Len(packet) + 1) /\ call = "send" /\ packet \in Frames
      BY <2>1, <2>2, <2>7 DEF TxFifo, Program, SendPoints
    <3>2. Len(packet) \in Nat
      BY <3>1, FrameIs
    <3>3. txfifo[1] = Len(packet) /\ Len(txfifo) = Len(packet) + 1
      BY <3>1, <3>2 DEF Filling
    <3>4. txfifo' = <<>>
      BY <2>1, <3>2, <3>3, SubSeqEmpty
    <3>5. done' = TRUE
      BY <1>3, <2>1, <3>1 DEF ChipMoves, Settled, Arrive, Receive, SETTLING, RX, TX
    <3>6. <<>> \in Bytes /\ Len(<<>>) = 0
      BY EmptySeq DEF Bytes
    <3>7. TxFifo'
      BY <1>1, <2>7, <3>4, <3>5, <3>6 DEF TxFifo, EmptyPoints, GetPoints
    <3>8. TxEnds'
      BY <1>1, <2>7, <3>5 DEF TxEnds
    <3> QED BY <3>7, <3>8 DEF TxInv
  <2> QED BY <2>5, <2>6, <2>7
<1> QED BY <1>2, <1>3

LEMMA TxStep ==
    ASSUME IdleInv, AskInv, TxInv, [Next]_vars
    PROVE  TxInv'
<1>1. CASE Driver \/ Calling
  BY <1>1, TxDriver DEF Driver, Calling
<1>2. CASE Pru
  BY <1>2, TxPru
<1>3. CASE ChipMoves
  BY <1>3, TxMoves
<1>4. CASE Restart
  <2>1. pc' = "boot" /\ UNCHANGED txfifo
    BY <1>4 DEF Restart, chipVars
  <2> QED BY <2>1 DEF TxInv, TxFifo, TxEnds, EmptyPoints, GetPoints
<1>5. CASE Tick \/ UNCHANGED vars
  <2>1. UNCHANGED <<mode, txfifo, sharedMem, signalled, pc, i, packet, done>>
    BY <1>5 DEF Tick, vars, chipVars, spiVars, localVars, portVars
  <2> QED BY <2>1, TxSame
<1> QED BY <1>1, <1>2, <1>3, <1>4, <1>5 DEF Next
-----------------------------------------------------------------------------
(* The mailbox, and the whole                                              *)
\* The words of the mailbox are bytes
ByteMail == sharedMem \in [Words -> 0 .. 255] /\ signalled \in BOOLEAN

\* The words of the calls are bytes.
LEMMA MailCalls ==
    ASSUME ByteMail
    PROVE  /\ \A cmd \in 0 .. 255 : cc1200_cmd(cmd) => ByteMail'
           /\ \A adr \in Nat, val \in 0 .. 255 : cc1200_reg_write(adr, val) => ByteMail'
           /\ \A adr \in Nat : cc1200_reg_read(adr) => ByteMail'
<1> DEFINE Mails == [Words -> 0 .. 255]
<1>1. ASSUME NEW m, signalled' = TRUE, sharedMem' = m, m \in Mails
      PROVE  ByteMail'
  BY <1>1 DEF ByteMail
<1>2. \A a \in 0 .. 255 : [sharedMem EXCEPT ![0] = a, ![3] = 1] \in Mails
  BY DEF ByteMail, Words
<1>3. \A a \in 0 .. 255, b \in 0 .. 255 :
         [sharedMem EXCEPT ![0] = a, ![1] = b, ![3] = 2] \in Mails
  BY DEF ByteMail, Words
<1>4. \A a \in 0 .. 255, b \in 0 .. 255, c \in 0 .. 255 :
         [sharedMem EXCEPT ![0] = a, ![1] = b, ![2] = c, ![3] = 3] \in Mails
  BY DEF ByteMail, Words
<1>9. \A b \in 0 .. 255 :
         [sharedMem EXCEPT ![0] = \h2F + 128, ![1] = b, ![2] = 0, ![3] = 3] \in Mails
  BY DEF ByteMail, Words
<1>10. \A a \in 0 .. 255 : [sharedMem EXCEPT ![0] = a, ![1] = 0, ![3] = 2] \in Mails
  BY DEF ByteMail, Words
<1> HIDE DEF Mails
<1>5. ASSUME NEW cmd \in 0 .. 255, cc1200_cmd(cmd) PROVE ByteMail'
  <2>1. [sharedMem EXCEPT ![0] = cmd, ![3] = 1] \in Mails
    BY <1>2
  <2> QED BY <1>1, <1>5, <2>1 DEF cc1200_cmd, Signal
<1>6. \A n \in Nat : n % 256 \in 0 .. 255 /\ (n % 128) + 128 \in 0 .. 255
  OBVIOUS
<1>7. ASSUME NEW adr \in Nat, NEW val \in 0 .. 255, cc1200_reg_write(adr, val) PROVE ByteMail'
  <2>1. adr % 256 \in 0 .. 255 /\ val % 256 \in 0 .. 255 /\ 47 \in 0 .. 255
    BY <1>6
  <2>2. /\ [sharedMem EXCEPT ![0] = \h2F, ![1] = adr % 256, ![2] = val % 256, ![3] = 3] \in Mails
        /\ [sharedMem EXCEPT ![0] = adr % 256, ![1] = val, ![3] = 2] \in Mails
    <3>1. PICK a \in 0 .. 255, v \in 0 .. 255 : a = adr % 256 /\ v = val % 256
      BY <2>1
    <3>2. /\ [sharedMem EXCEPT ![0] = \h2F, ![1] = a, ![2] = v, ![3] = 3] \in Mails
          /\ [sharedMem EXCEPT ![0] = a, ![1] = val, ![3] = 2] \in Mails
      BY <1>3, <1>4, <2>1
    <3> QED BY <3>1, <3>2
  <2> QED BY <1>1, <1>7, <2>2 DEF cc1200_reg_write, Signal
<1>8. ASSUME NEW adr \in Nat, cc1200_reg_read(adr) PROVE ByteMail'
  <2>1. adr % 256 \in 0 .. 255 /\ (adr % 128) + 128 \in 0 .. 255 
        /\ 0 \in 0 .. 255 /\ 175 \in 0 .. 255 /\ \h2F + 128 = 175
    BY <1>6
  <2>2. [sharedMem EXCEPT ![0] = \h2F + 128, ![1] = adr % 256, ![2] = 0, ![3] = 3] \in Mails
    BY <1>9, <2>1
  <2>3. [sharedMem EXCEPT ![0] = (adr % 128) + 128, ![1] = 0, ![3] = 2] \in Mails
    <3> DEFINE h == (adr % 128) + 128
    <3>1. h \in 0 .. 255
      BY <2>1
    <3> HIDE DEF h
    <3>2. [sharedMem EXCEPT ![0] = h, ![1] = 0, ![3] = 2] \in Mails
      BY <1>10, <3>1
    <3> QED BY <3>2 DEF h
  <2> QED BY <1>1, <1>8, <2>2, <2>3 DEF cc1200_reg_read, Signal
<1> QED BY <1>5, <1>7, <1>8

LEMMA MailInit == Init => ByteMail
BY DEF Init, SpiInit, ByteMail, Words

\* Strobes and addresses are numbers.
LEMMA NamedBytes ==
    /\ SRES \in 0 .. 255 /\ SRX \in 0 .. 255 /\ STX \in 0 .. 255
    /\ SIDLE \in 0 .. 255 /\ SFRX \in 0 .. 255 /\ SNOP \in 0 .. 255
    /\ PKT_LEN \in Nat /\ NUM_TXBYTES \in Nat /\ NUM_RXBYTES \in Nat /\ REG_FIFO \in Nat
BY DEF SRES, SRX, STX, SIDLE, SFRX, SNOP, PKT_LEN, NUM_TXBYTES, NUM_RXBYTES, REG_FIFO

LEMMA MailDriver ==
    ASSUME AskInv, ByteMail, Driver \/ Calling
    PROVE  ByteMail'
<1>1. Program
  BY DEF AskInv
<1>2. CASE UNCHANGED <<sharedMem, signalled>>
  BY <1>2 DEF ByteMail
<1>3. CASE Boot \/ Reset \/ GoIdle \/ AwaitIdle \/ GoTx \/ AwaitTx \/ Entered \/ AwaitEnd
           \/ StartGet \/ GoRx \/ AwaitRx
  <2>1. \E cmd \in 0 .. 255 : cc1200_cmd(cmd)
    BY <1>3, NamedBytes DEF Boot, Reset, GoIdle, AwaitIdle, GoTx, AwaitTx, Entered, AwaitEnd,
       StartGet, GoRx, AwaitRx, Poll
  <2> QED BY <2>1, MailCalls
<1>4. CASE BootFails \/ InitEnds \/ RateChanged \/ SendReturns \/ GetReturns \/ GetTimesOut
  <2>1. UNCHANGED <<sharedMem, signalled>>
    BY <1>4 DEF BootFails, InitEnds, RateChanged, SendReturns, GetReturns, GetTimesOut, Leave,
                spiVars
  <2> QED BY <1>2, <2>1
<1>5. CASE Control \/ StartSend \/ Filled \/ ReadLength \/ ReadFirst \/ ReadOn
  <2>1. \E adr \in Nat : cc1200_reg_read(adr)
    BY <1>5, NamedBytes DEF Control, StartSend, Filled, ReadLength, ReadFirst, ReadOn
  <2> QED BY <2>1, MailCalls
<1>6. CASE Listen \/ Nothing \/ GotLength \/ Incomplete
  <2>1. \E from, to : Look(from, to)
    BY <1>6 DEF Listen, Nothing, GotLength, Incomplete
  <2>2. cc1200_cmd(SFRX) \/ cc1200_reg_read(NUM_RXBYTES)
    BY <2>1 DEF Look
  <2> QED BY <2>2, NamedBytes, MailCalls
<1>7. CASE Configure
  <2>1. i' \in 1 .. 180 /\ cc1200_reg_write(InitWrites[i'].adr, InitWrites[i'].val)
    <3>1. i \in 0 .. 180
      BY <1>1, <1>7 DEF Configure, Program
    <3> QED BY <1>7, <3>1, InitWritesAre DEF Configure
  <2>2. InitWrites[i'].adr \in Nat /\ InitWrites[i'].val \in 0 .. 255
    <3>1. /\ InitWrites[i'].adr \in 0 .. 46 \cup {EXT_ADR + x : x \in 0 .. 255}
          /\ InitWrites[i'].val \in 0 .. 255
      BY <2>1, WritesAre, Zenon
    <3>2. \A a \in 0 .. 46 \cup {EXT_ADR + x : x \in 0 .. 255} : a \in Nat
      BY DEF EXT_ADR
    <3> QED BY <3>1, <3>2, Zenon
  <2> QED BY <2>1, <2>2, MailCalls
<1>8. ASSUME NEW r \in 1 .. 9, NEW k \in 1 .. 3
      PROVE  /\ RateWrites(MINSTREL_RATES[r])[k].adr \in Nat
             /\ RateWrites(MINSTREL_RATES[r])[k].val \in 0 .. 255
  <2> DEFINE w == RateWrites(MINSTREL_RATES[r])
  <2>1. /\ w[1].adr = 19 /\ w[2].adr = 20 /\ w[3].adr = 21
        /\ \A n \in 1 .. 3 : w[n].val \in 0 .. 255
    BY EveryRateSpelt, WatchedNamed DEF Spelt
  <2> HIDE DEF w
  <2>2. w[k].adr \in Nat /\ w[k].val \in 0 .. 255
    BY <2>1
  <2> QED BY <2>2 DEF w
<1>9. CASE ChangeRate
  <2>1. rate' \in 1 .. 9
    BY <1>9, DriverAssumption, Rates DEF ChangeRate
  <2>2. cc1200_reg_write(SYMBOL_RATE2, RateWrites(MINSTREL_RATES[rate'])[1].val)
    BY <1>9 DEF ChangeRate
  <2>3. RateWrites(MINSTREL_RATES[rate'])[1].val \in 0 .. 255
    <3>1. 1 \in 1 .. 3
      OBVIOUS
    <3> QED BY <1>8, <2>1, <3>1, Zenon
  <2> QED BY <2>2, <2>3, MailCalls, WatchedNamed
<1>10. CASE ChangeRateOn
  <2>1. rate \in 1 .. 9 /\ i \in 1 .. 3 /\ i < 3 /\ i' = i + 1
    BY <1>1, <1>10 DEF ChangeRateOn, Program, Go
  <2>2. i' \in 1 .. 3
    BY <2>1
  <2>3. cc1200_reg_write(RateWrites(MINSTREL_RATES[rate])[i'].adr,
                         RateWrites(MINSTREL_RATES[rate])[i'].val)
    BY <1>10 DEF ChangeRateOn
  <2> QED BY <1>8, <2>1, <2>2, <2>3, MailCalls
<1>11. CASE WriteLength
  <2>1. pc = "idle" /\ cc1200_reg_write(REG_FIFO, Len(packet))
    BY <1>11 DEF WriteLength, Then, Go
  <2> DEFINE l == Len(packet)
  <2>2. l \in 0 .. 50
    BY <1>1, <2>1, FrameIs DEF Program, SendPoints
  <2> HIDE DEF l
  <2>3. l \in 0 .. 255
    BY <2>2
  <2> QED BY <2>1, <2>3, NamedBytes, MailCalls DEF l
<1>12. CASE WriteByte
  <2>1. /\ pc = "fill" /\ i < Len(packet) /\ i' = i + 1
        /\ cc1200_reg_write(REG_FIFO, packet[i'])
    BY <1>12 DEF WriteByte, Go
  <2>2. packet \in Bytes /\ i \in 0 .. Len(packet) /\ Len(packet) \in Nat
    BY <1>1, <2>1, FrameIs, OneByte DEF Program, SendPoints
  <2>3. i' \in 1 .. Len(packet)
    BY <2>1, <2>2
  <2>4. packet[i'] \in 0 .. 255
    BY <2>2, <2>3, ElementOfSeq DEF Bytes
  <2> QED BY <2>1, <2>4, NamedBytes, MailCalls
<1> QED BY <1>3, <1>4, <1>5, <1>6, <1>7, <1>9, <1>10, <1>11, <1>12
        DEF Driver, Configuring, Sending, Getting, Calling, Call

\* The answers fit into their words: no FIFO ever holds 256 bytes.
LEMMA MailPru ==
    ASSUME IdleInv, RegsInv, RxInv, TxInv, ByteMail, Pru
    PROVE  ByteMail'
<1>1. Len(rxfifo) \in 0 .. 255 /\ Len(txfifo) \in 0 .. 255
  <2>1. /\ Len(rxfifo) \in Nat /\ Len(incoming) \in Nat /\ Burden \in Nat
        /\ Burden <= 2 * Longest /\ Longest \in 3 .. 53
    BY BurdenNat, LongestIs DEF RxInv
  <2>2. Len(rxfifo) <= Burden
    BY <2>1 DEF Burden
  <2>3. Len(txfifo) \in Nat /\ Len(txfifo) <= 51
    BY OneByte DEF TxInv, TxFifo
  <2>4. \A n \in Nat : n <= 106 => n \in 0 .. 255
    OBVIOUS
  <2>5. Len(rxfifo) <= 106
    BY <2>1, <2>2
  <2>6. Len(txfifo) <= 106
    BY <2>3
  <2>7. Len(rxfifo) \in 0 .. 255
    BY <2>1, <2>4, <2>5
  <2>8. Len(txfifo) \in 0 .. 255
    BY <2>3, <2>4, <2>6
  <2> QED BY <2>7, <2>8
<1>2. \A adr : Register(adr) \in 0 .. 255
  BY <1>1 DEF Register, RegsInv
<1>3. FifoByte \in 0 .. 255
  <2>1. rxfifo \in Bytes
    BY DEF RxInv, RxChipOK
  <2>2. rxfifo # <<>> => Head(rxfifo) \in 0 .. 255
    BY <2>1, OneByte
  <2> QED BY <2>2 DEF FifoByte
<1>4. mode * 16 \in 0 .. 255
  BY DEF IdleInv, Modes, IDLE, RX, TX, SETTLING, RX_FIFO_ERROR
<1>5. \E w6 \in 0 .. 255, w7 \in 0 .. 255 : Answer(w6, w7)
  <2> HIDE DEF Register, FifoByte
  <2>1. 0 \in 0 .. 255
    OBVIOUS
  <2> QED BY <1>2, <1>3, <2>1, Zenon DEF Pru, Serve
<1>6. PICK w6 \in 0 .. 255, w7 \in 0 .. 255 :
        sharedMem' = [sharedMem EXCEPT ![5] = mode * 16, ![6] = w6, ![7] = w7]
  BY <1>5 DEF Answer
<1>7. ~signalled' /\ signalled' \in BOOLEAN
  BY DEF Pru, Serve
<1>8. \A w5 \in 0 .. 255 : [sharedMem EXCEPT ![5] = w5, ![6] = w6, ![7] = w7]
                              \in [Words -> 0 .. 255]
  BY DEF ByteMail, Words
<1> QED BY <1>4, <1>6, <1>7, <1>8, Zenon DEF ByteMail

LEMMA MailStep ==
    ASSUME IdleInv, AskInv, RegsInv, RxInv, TxInv, ByteMail, [Next]_vars
    PROVE  ByteMail'
<1>1. CASE Driver \/ Calling
  BY <1>1, MailDriver
<1>2. CASE Pru
  BY <1>2, MailPru
<1>3. CASE ChipMoves \/ Tick \/ UNCHANGED vars
  BY <1>3 DEF ChipMoves, Tick, vars, spiVars, ByteMail
<1>4. CASE Restart
  BY <1>4 DEF Restart, ByteMail
<1> QED BY <1>1, <1>2, <1>3, <1>4 DEF Next
-----------------------------------------------------------------------------
\* Everything that is invariant about the driver over the chip
RadioInv == IdleInv /\ AskInv /\ RegsInv /\ RxInv /\ TxInv /\ ByteMail

\* The types of TypeOK are part of it.
LEMMA TypesHold ==
    ASSUME RadioInv
    PROVE  TypeOK
<1>1. /\ mode \in {IDLE, RX, TX, SETTLING, RX_FIFO_ERROR} /\ goal \in {IDLE, RX, TX}
      /\ regs \in [Watched -> 0 .. 255]
      /\ sharedMem \in [Words -> 0 .. 255] /\ signalled \in BOOLEAN
  BY DEF RadioInv, IdleInv, Modes, RegsInv, ByteMail
<1>2. /\ rxfifo \in Seq(0 .. 255) /\ txfifo \in Seq(0 .. 255)
      /\ pkt_len \in 0 .. 255 /\ buffer \in Seq(0 .. 255)
  BY DEF RadioInv, RxInv, RxChipOK, TxInv, TxFifo, Bytes
<1>3. i \in 0 .. 180
  <2>1. Program
    BY DEF RadioInv, AskInv
  <2>2. CASE pc \notin {"config", "rate", "fill"}
    BY <2>1, <2>2 DEF Program
  <2>3. CASE pc \in {"config", "rate"}
    BY <2>1, <2>3 DEF Program
  <2>4. CASE pc = "fill"
    <3>1. i \in 0 .. Len(packet) /\ Len(packet) \in 0 .. 50
      BY <2>1, <2>4, FrameIs DEF Program, SendPoints
    <3>2. \A l \in 0 .. 50 : \A n \in 0 .. l : n \in 0 .. 180
      OBVIOUS
    <3> QED BY <3>1, <3>2, Zenon
  <2> QED BY <2>2, <2>3, <2>4
<1> QED BY <1>1, <1>2, <1>3, InitWritesAre DEF TypeOK

\* The invariant holds at the start and is preserved by every step.
LEMMA RadioInit == Init => RadioInv
BY IdleInit, AskInit, RegsInit, RxInit, TxInit, MailInit DEF RadioInv

LEMMA RadioStep == RadioInv /\ [Next]_vars => RadioInv'
<1> SUFFICES ASSUME RadioInv, [Next]_vars PROVE RadioInv'
  OBVIOUS
<1> USE DEF RadioInv
<1>1. IdleInv' /\ AskInv' /\ RegsInv'
  BY IdleStep, AskStep, RegsStep
<1>2. RxInv' /\ TxInv' /\ ByteMail'
  BY RxStep, TxStep, MailStep
<1> QED BY <1>1, <1>2

\* The driver never reads a byte that is not in the RX FIFO, and the FIFO never holds
\* more than two packets, although it is flushed while a frame comes in, read after
\* a count that is one transaction old, and left as it is by a timeout or a restart
\* (cc1200_rate.c:209-245).
THEOREM ReadsWhatIsThere == Spec => []NoFifoError
<1>1. RadioInv => NoFifoError
  BY NoFifoErrorHolds DEF RadioInv
<1> QED BY <1>1, RadioInit, RadioStep, PTL DEF Spec

\* The variables keep their types; above all every word that goes over the bus and
\* every answer is a byte, for the FIFO counters are (SPIv1.c, cc1200_rate.c).
THEOREM TypeCorrect == Spec => []TypeOK
<1>1. RadioInv => TypeOK
  BY TypesHold
<1> QED BY <1>1, RadioInit, RadioStep, PTL DEF Spec
-----------------------------------------------------------------------------
(* The order of the bytes                                                  *)
\* Sequences of bytes, put together and taken apart
LEMMA Joined ==
    ASSUME NEW s \in Bytes, NEW t \in Bytes
    PROVE  /\ s \o t \in Bytes /\ Len(s \o t) = Len(s) + Len(t)
           /\ \A n \in 1 .. Len(s) + Len(t) :
                 (s \o t)[n] = IF n <= Len(s) THEN s[n] ELSE t[n - Len(s)]
           /\ s \o <<>> = s /\ <<>> \o s = s
           /\ \A u \in Bytes : (s \o t) \o u = s \o (t \o u)
<1>1. /\ s \o t \in Bytes /\ Len(s \o t) = Len(s) + Len(t)
      /\ \A n \in 1 .. Len(s) + Len(t) :
            (s \o t)[n] = IF n <= Len(s) THEN s[n] ELSE t[n - Len(s)]
  BY ConcatProperties DEF Bytes
<1>2. s \o <<>> = s /\ <<>> \o s = s
  BY ConcatEmptySeq DEF Bytes
<1>3. \A u \in Bytes : (s \o t) \o u = s \o (t \o u)
  BY ConcatAssociative DEF Bytes
<1> QED BY <1>1, <1>2, <1>3

LEMMA HeadOn ==
    ASSUME NEW s \in Bytes, s # <<>>
    PROVE  /\ <<Head(s)>> \in Bytes /\ Tail(s) \in Bytes
           /\ <<Head(s)>> \o Tail(s) = s
<1>1. Head(s) \in 0 .. 255 /\ Tail(s) \in Bytes /\ Len(s) \in Nat /\ Len(s) >= 1
  BY OneByte
<1>2. <<Head(s)>> \in Bytes
  BY <1>1 DEF Bytes
<1>3. SubSeq(s, 1, Len(s)) = <<s[1]>> \o SubSeq(s, 2, Len(s))
  <2>1. 1 \in 1 .. Len(s) /\ Len(s) \in 1 .. Len(s)
    BY <1>1
  <2> QED BY <2>1, SubSeqRecursiveFirst DEF Bytes
<1>4. SubSeq(s, 1, Len(s)) = s /\ Tail(s) = SubSeq(s, 2, Len(s))
  BY SubSeqFull, TailIsSubSeq DEF Bytes
<1>5. Head(s) = s[1]
  BY DEF Bytes
<1> QED BY <1>1, <1>2, <1>3, <1>4, <1>5

\* A byte that moves from the antenna to the FIFO, or from the FIFO to the driver,
\* keeps its place.
LEMMA Handed ==
    ASSUME NEW s \in Bytes, NEW t \in Bytes, t # <<>>
    PROVE  Append(s, Head(t)) \o Tail(t) = s \o t
<1> DEFINE h == <<Head(t)>>
<1>1. h \in Bytes /\ Tail(t) \in Bytes /\ h \o Tail(t) = t
  BY HeadOn
<1>2. Append(s, Head(t)) = s \o h
  <2>1. Head(t) \in 0 .. 255
    BY OneByte
  <2> QED BY <2>1, AppendIsConcat DEF Bytes
<1> HIDE DEF h
<1>3. \A u \in Bytes : (s \o h) \o u = s \o (h \o u)
  BY <1>1, Joined
<1> QED BY <1>1, <1>2, <1>3

\* A frame with its length and status, and its rests
LEMMA FramedIs ==
    ASSUME NEW f \in Frames \cup Noise
    PROVE  /\ Framed(f) \in Bytes /\ Len(Framed(f)) = Len(f) + 3
           /\ Framed(f)[1] = Len(f)
           /\ \A n \in 1 .. Len(f) : Framed(f)[n + 1] = f[n]
           /\ Framed(f) # <<>>
<1>1. f \in Bytes /\ Len(f) \in 0 .. 50
  BY FrameIs
<1> DEFINE h == <<Len(f)>>
           t == <<200, 255>>
<1>2. h \in Bytes /\ Len(h) = 1 /\ h[1] = Len(f)
  BY <1>1 DEF Bytes
<1>3. t \in Bytes /\ Len(t) = 2
  BY DEF Bytes
<1>4. Framed(f) = (h \o f) \o t
  BY DEF Framed
<1> HIDE DEF h, t
<1>5. /\ h \o f \in Bytes /\ Len(h \o f) = 1 + Len(f)
      /\ \A n \in 1 .. 1 + Len(f) : (h \o f)[n] = IF n <= 1 THEN h[n] ELSE f[n - 1]
  <2>1. /\ h \o f \in Bytes /\ Len(h \o f) = Len(h) + Len(f)
        /\ \A n \in 1 .. Len(h) + Len(f) :
              (h \o f)[n] = IF n <= Len(h) THEN h[n] ELSE f[n - Len(h)]
    BY <1>1, <1>2, Joined
  <2> QED BY <1>2, <2>1
<1>6. /\ Framed(f) \in Bytes /\ Len(Framed(f)) = (1 + Len(f)) + 2
      /\ \A n \in 1 .. (1 + Len(f)) + 2 :
            n <= 1 + Len(f) => Framed(f)[n] = (h \o f)[n]
  <2> DEFINE a == h \o f
  <2> HIDE DEF a
  <2>1. a \in Bytes /\ Len(a) = 1 + Len(f)
    BY <1>5 DEF a
  <2>2. /\ a \o t \in Bytes /\ Len(a \o t) = Len(a) + Len(t)
        /\ \A n \in 1 .. Len(a) + Len(t) :
              (a \o t)[n] = IF n <= Len(a) THEN a[n] ELSE t[n - Len(a)]
    BY <1>3, <2>1, Joined
  <2>3. Framed(f) = a \o t
    BY <1>4 DEF a
  <2>4. /\ Framed(f) \in Bytes /\ Len(Framed(f)) = (1 + Len(f)) + 2
        /\ \A n \in 1 .. (1 + Len(f)) + 2 :
            n <= 1 + Len(f) => Framed(f)[n] = a[n]
    BY <1>3, <2>1, <2>2, <2>3
  <2> QED BY <2>4 DEF a
<1>7. Framed(f)[1] = Len(f)
  BY <1>1, <1>2, <1>5, <1>6
<1>8. \A n \in 1 .. Len(f) : Framed(f)[n + 1] = f[n]
  <2> TAKE n \in 1 .. Len(f)
  <2>1. n + 1 \in 1 .. (1 + Len(f)) /\ n + 1 \in 1 .. (1 + Len(f)) + 2 /\ n + 1 <= 1 + Len(f)
        /\ ~(n + 1 <= 1) /\ (n + 1) - 1 = n
    BY <1>1
  <2> QED BY <1>5, <1>6, <2>1
<1>9. Len(Framed(f)) = Len(f) + 3 /\ Len(Framed(f)) # 0
  BY <1>1, <1>6
<1> QED BY <1>6, <1>7, <1>8, <1>9, EmptySeq

LEMMA RestIs ==
    ASSUME NEW f \in Frames \cup Noise, NEW k \in 1 .. Len(f) + 3
    PROVE  /\ Rest(f, k) \in Bytes /\ Len(Rest(f, k)) = Len(f) + 4 - k
           /\ Rest(f, k) # <<>>
           /\ Rest(f, 1) = Framed(f)
           /\ k < Len(f) + 3 => Tail(Rest(f, k)) = Rest(f, k + 1)
           /\ k = Len(f) + 3 => Tail(Rest(f, k)) = <<>>
<1>1. Framed(f) \in Bytes /\ Len(Framed(f)) = Len(f) + 3 /\ Len(f) \in Nat
  BY FramedIs, FrameIs
<1>2. /\ Rest(f, k) \in Bytes /\ Len(Rest(f, k)) = Len(f) + 4 - k
  <2>1. \A n \in k .. Len(f) + 3 : Framed(f)[n] \in 0 .. 255
    <3> TAKE n \in k .. Len(f) + 3
    <3>1. n \in 1 .. Len(Framed(f))
      BY <1>1
    <3> QED BY <1>1, <3>1, ElementOfSeq DEF Bytes
  <2> QED BY <1>1, <2>1, SubSeqProperties DEF Bytes, Rest
<1>3. Rest(f, k) # <<>>
  <2>1. Len(Rest(f, k)) # 0
    BY <1>1, <1>2
  <2> QED BY <2>1, EmptySeq
<1>4. Rest(f, 1) = Framed(f)
  BY <1>1, SubSeqFull DEF Bytes, Rest
<1>5. Tail(Rest(f, k)) = SubSeq(Framed(f), k + 1, Len(f) + 3)
  <2>1. k \in 1 .. Len(Framed(f)) /\ Len(f) + 3 \in k .. Len(Framed(f))
    BY <1>1
  <2> QED BY <1>1, <2>1, HeadTailOfSubSeq DEF Bytes, Rest
<1>6. k = Len(f) + 3 => SubSeq(Framed(f), k + 1, Len(f) + 3) = <<>>
  BY <1>1, SubSeqEmpty
<1> QED BY <1>2, <1>3, <1>4, <1>5, <1>6 DEF Rest

\* The radio listens, or is about to.
Listening == mode = RX \/ (mode = SETTLING /\ goal = RX)

\* It does so in the packet format, and not while this is written.
Formatted ==
    /\ Listening => FormatStored
    /\ pc \in {"snop", "config", "control"} \/ (pc = "reset" /\ ~signalled) => mode = IDLE

\* What is still to come is the rest of the frame that arrived last.
Coming ==
    incoming # <<>> =>
        /\ frame \in Frames \cup Noise
        /\ \E k \in 1 .. Len(frame) + 3 : incoming = Rest(frame, k)

\* The two status bytes
LEMMA StatusIs ==
    ASSUME FormatStored
    PROVE  StatusBytes = <<200, 255>>
<1>1. regs[PKT_CFG1] = 3
  BY WatchedNamed, StdNamed DEF FormatStored, Stored
<1>2. AppendStatus
  BY <1>1 DEF AppendStatus, Field
<1> QED BY <1>2 DEF StatusBytes

\* The radio does not begin to listen by itself.
LEMMA ChipListens ==
    ASSUME Modes, RegsInv, Settled \/ Arrive \/ Receive \/ Transmitted
    PROVE  /\ Listening' => Listening
           /\ mode = IDLE => mode' = IDLE
           /\ UNCHANGED regs
<1> USE DEF Listening, Modes, IDLE, RX, TX, SETTLING, RX_FIFO_ERROR
<1>1. CASE Settled
  BY <1>1 DEF Settled
<1>2. CASE Arrive
  BY <1>2 DEF Arrive
<1>3. CASE Receive
  <2>1. mode' \in {IDLE, RX}
    BY <1>3 DEF Receive, StateAfter
  <2>2. mode = RX /\ UNCHANGED regs
    BY <1>3 DEF Receive
  <2> QED BY <2>1, <2>2
<1>4. CASE Transmitted
  <2>1. mode = TX /\ mode' = IDLE /\ UNCHANGED regs
    BY <1>4 DEF Transmitted, StateAfter, RegsInv, Field
  <2> QED BY <2>1
<1> QED BY <1>1, <1>2, <1>3, <1>4

LEMMA FormattedInit == Init => Formatted
BY DEF Init, ChipInit, Formatted, Listening, IDLE, RX, SETTLING

LEMMA FormattedStep ==
    ASSUME IdleInv, AskInv, RegsInv, RegsInv', AskInv', Formatted, [Next]_vars
    PROVE  Formatted'
<1>1. Modes /\ Mailbox /\ Program /\ Pending /\ Program'
  BY DEF IdleInv, AskInv
<1>2. ASSUME pc' \in {"ready", "rate"} \cup SendPoints \cup GetPoints
      PROVE  Formatted'
  BY <1>2 DEF Formatted, RegsInv, SendPoints, GetPoints
<1>3. ASSUME UNCHANGED <<mode, goal, regs>>,
             pc' \in {"snop", "config", "control"} \/ (pc' = "reset" /\ ~signalled') =>
                pc \in {"snop", "config", "control"} \/ (pc = "reset" /\ ~signalled)
      PROVE  Formatted'
  BY <1>3 DEF Formatted, Listening, FormatStored
<1>4. CASE Driver \/ Calling
  <2>1. UNCHANGED <<mode, goal, regs>>
    BY <1>4 DEF Driver, Calling, chipVars
  <2>2. CASE Configuring
    <3>1. Boot => signalled'
      BY <1>1, Cmd DEF Boot
    <3>2. pc' \in {"snop", "config", "control"} \/ (pc' = "reset" /\ ~signalled') =>
                pc \in {"snop", "config", "control"} \/ (pc = "reset" /\ ~signalled)
      BY <2>2, <3>1 DEF Configuring, Boot, BootFails, Reset, Configure, Control, InitEnds,
         ChangeRateOn, RateChanged, Go, Leave, Returned
    <3> QED BY <1>3, <2>1, <3>2
  <2>3. CASE Sending \/ Getting
    BY <1>2, <2>3, Points
  <2>4. CASE Call
    BY <1>2, <2>4 DEF Call, StartSend, StartGet, ChangeRate, SendPoints, GetPoints
  <2> QED BY <1>4, <2>2, <2>3, <2>4 DEF Driver, Calling
<1>5. CASE Pru
  <2>1. signalled /\ UNCHANGED pc
    BY <1>5, PruEffect
  <2>2. CASE pc = "reset"
    <3>1. Strobe(SRES)
      BY <1>5, <2>2, PruEffect
    <3>2. mode' = IDLE
      BY <3>1 DEF Strobe, SRES, SIDLE, SRX, STX, SFRX, SNOP
    <3> QED BY <3>2 DEF Formatted, Listening, IDLE, RX, SETTLING
  <2>3. CASE pc \in {"snop", "config", "control"}
    <3>1. mode = IDLE
      BY <2>3 DEF Formatted
    <3>2. UNCHANGED mode
      BY <1>5, <2>3, PruEffect, PruRegister DEF chipVars, WriteRegister
    <3> QED BY <3>1, <3>2 DEF Formatted, Listening, IDLE, RX, SETTLING
  <2>4. pc \notin {"boot", "exit"}
    BY <1>1, <2>1 DEF Pending
  <2> QED BY <1>1, <1>2, <2>1, <2>2, <2>3, <2>4 DEF Program, SetUpPoints
<1>6. CASE ChipMoves
  <2>1. UNCHANGED <<pc, signalled>>
    BY <1>6 DEF ChipMoves, spiVars
  <2>2. /\ Listening' => Listening
        /\ mode = IDLE => mode' = IDLE
        /\ UNCHANGED regs
    BY <1>1, <1>6, ChipListens DEF ChipMoves
  <2> QED BY <2>1, <2>2 DEF Formatted, FormatStored
<1>7. CASE Restart
  BY <1>3, <1>7 DEF Restart, chipVars
<1>8. CASE Tick \/ UNCHANGED vars
  BY <1>3, <1>8 DEF Tick, vars, chipVars, spiVars
<1> QED BY <1>4, <1>5, <1>6, <1>7, <1>8 DEF Next

\* The program interrupts a frame or leaves it alone.
LEMMA ServeIncoming ==
    ASSUME Serve
    PROVE  incoming' = <<>> \/ UNCHANGED <<incoming, frame>>
<1>1. \A cmd : Strobe(cmd) => incoming' = <<>> \/ UNCHANGED <<incoming, frame>>
  BY DEF Strobe, chipVars
<1>2. \/ \E cmd : Strobe(cmd)
      \/ ReadFifo \/ UNCHANGED chipVars
      \/ \E val : WriteFifo(val)
      \/ \E adr, val : WriteRegister(adr, val)
  BY DEF Serve
<1> QED BY <1>1, <1>2 DEF ReadFifo, WriteFifo, WriteRegister, chipVars

LEMMA ComingInit == Init => Coming
BY DEF Init, ChipInit, Coming

\* A frame arrives whole, and goes on byte by byte.
LEMMA ArriveIs ==
    ASSUME Arrive, Formatted
    PROVE  /\ frame' \in Frames \cup Noise /\ incoming' = Framed(frame')
           /\ incoming = <<>> /\ mode = RX /\ UNCHANGED <<mode, goal, rxfifo>>
<1>1. mode = RX /\ incoming = <<>> /\ UNCHANGED <<mode, goal, rxfifo>>
  BY DEF Arrive
<1>2. StatusBytes = <<200, 255>>
  BY <1>1, StatusIs DEF Formatted, Listening
<1>3. /\ frame' \in Frames \cup Noise
      /\ incoming' = <<Len(frame')>> \o frame' \o StatusBytes
  BY DEF Arrive
<1> QED BY <1>1, <1>2, <1>3 DEF Framed

LEMMA ComingStep ==
    ASSUME Formatted, Coming, [Next]_vars
    PROVE  Coming'
<1>1. ASSUME incoming' = <<>> \/ UNCHANGED <<incoming, frame>>
      PROVE  Coming'
  BY <1>1 DEF Coming
<1>2. CASE Driver \/ Calling \/ Tick \/ Restart \/ UNCHANGED vars
  BY <1>1, <1>2 DEF Driver, Calling, Tick, Restart, vars, chipVars
<1>3. CASE Pru
  BY <1>1, <1>3, ServeIncoming DEF Pru
<1>4. CASE ChipMoves
  <2>1. CASE Settled \/ Transmitted
    BY <1>1, <2>1 DEF Settled, Transmitted
  <2>2. CASE Arrive
    <3>1. frame' \in Frames \cup Noise /\ incoming' = Framed(frame')
      BY <2>2, ArriveIs
    <3>2. 1 \in 1 .. Len(frame') + 3
      BY <3>1, FrameIs
    <3>3. incoming' = Rest(frame', 1)
      BY <3>1, <3>2, RestIs
    <3> QED BY <3>1, <3>2, <3>3 DEF Coming
  <2>3. CASE Receive
    <3>1. incoming # <<>> /\ incoming' = Tail(incoming) /\ UNCHANGED frame
      BY <2>3 DEF Receive
    <3>2. frame \in Frames \cup Noise /\ Len(frame) \in 0 .. 50
      BY <3>1, FrameIs DEF Coming
    <3>3. PICK k \in 1 .. Len(frame) + 3 : incoming = Rest(frame, k)
      BY <3>1 DEF Coming
    <3>4. CASE k = Len(frame) + 3
      <4>1. incoming' = <<>>
        BY <3>1, <3>2, <3>3, <3>4, RestIs
      <4> QED BY <1>1, <4>1
    <3>5. CASE k # Len(frame) + 3
      <4>1. k < Len(frame) + 3 /\ k + 1 \in 1 .. Len(frame) + 3
        BY <3>2, <3>5
      <4>2. incoming' = Rest(frame, k + 1)
        BY <3>1, <3>2, <3>3, <4>1, RestIs
      <4> QED BY <3>1, <3>2, <4>1, <4>2 DEF Coming
    <3> QED BY <3>4, <3>5
  <2> QED BY <1>4, <2>1, <2>2, <2>3 DEF ChipMoves
<1> QED BY <1>2, <1>3, <1>4 DEF Next
\* A frame that comes in during a get is one of those the call has met.
Begun == call = "get" /\ incoming # <<>> => frame \in begun

LEMMA BegunInit == Init => Begun
BY DEF Init, ChipInit, Begun

LEMMA BegunStep ==
    ASSUME Begun, [Next]_vars
    PROVE  Begun'
<1>1. ASSUME UNCHANGED <<call, begun>>, incoming' = <<>> \/ UNCHANGED <<incoming, frame>>
      PROVE  Begun'
  BY <1>1 DEF Begun
<1>2. ASSUME call' # "get" PROVE Begun'
  BY <1>2 DEF Begun
<1>3. CASE Driver
  <2>1. UNCHANGED <<incoming, frame>>
    BY <1>3 DEF Driver, chipVars
  <2>2. CASE Configuring
    BY <1>1, <2>1, <2>2 DEF Configuring, portVars
  <2>3. CASE Sending
    <3>1. CASE SendReturns
      BY <1>2, <3>1 DEF SendReturns
    <3>2. CASE ~SendReturns
      BY <1>1, <2>1, <2>3, <3>2 DEF Sending, GoIdle, AwaitIdle, WriteLength, WriteByte, Filled,
         GoTx, AwaitTx, Entered, AwaitEnd, Poll, Then, portVars
    <3> QED BY <3>1, <3>2
  <2>4. CASE Getting
    <3>1. CASE GetReturns \/ GetTimesOut
      BY <1>2, <3>1 DEF GetReturns, GetTimesOut, EndGet
    <3>2. CASE ~GetReturns /\ ~GetTimesOut
      BY <1>1, <2>1, <2>4, <3>2 DEF Getting, GoRx, AwaitRx, Listen, Nothing, ReadLength,
         GotLength, Incomplete, ReadFirst, ReadOn, Look, Poll, Then, portVars
    <3> QED BY <3>1, <3>2
  <2> QED BY <1>3, <2>2, <2>3, <2>4 DEF Driver
<1>4. CASE Calling
  <2>1. UNCHANGED <<incoming, frame>>
    BY <1>4 DEF Calling, chipVars
  <2>2. CASE StartGet
    <3>1. begun' = IF incoming = <<>> THEN {} ELSE {frame}
      BY <2>2 DEF StartGet, UnderWay
    <3> QED BY <2>1, <3>1 DEF Begun
  <2>3. CASE StartSend
    BY <1>2, <2>3 DEF StartSend
  <2>4. CASE ChangeRate
    BY <1>1, <2>1, <2>4 DEF ChangeRate, portVars
  <2> QED BY <1>4, <2>2, <2>3, <2>4 DEF Calling, Call
<1>5. CASE Pru
  BY <1>1, <1>5, ServeIncoming DEF Pru, portVars
<1>6. CASE ChipMoves
  <2>1. CASE Settled /\ UNCHANGED portVars
    BY <1>1, <2>1 DEF Settled, portVars
  <2>2. CASE /\ Arrive
             /\ begun' = IF call = "get" THEN begun \cup {frame'} ELSE begun
             /\ UNCHANGED <<call, packet, aired, done, heard, result>>
    BY <2>2 DEF Begun
  <2>3. CASE Receive /\ UNCHANGED <<call, begun>>
    <3>1. incoming # <<>> /\ UNCHANGED <<frame, call, begun>>
      BY <2>3 DEF Receive
    <3> QED BY <3>1 DEF Begun
  <2>4. CASE Transmitted /\ UNCHANGED <<call, begun>>
    BY <1>1, <2>4 DEF Transmitted
  <2> QED BY <1>6, <2>1, <2>2, <2>3, <2>4 DEF ChipMoves
<1>7. CASE Restart
  BY <1>2, <1>7 DEF Restart
<1>8. CASE Tick \/ UNCHANGED vars
  BY <1>1, <1>8 DEF Tick, vars, chipVars, portVars
<1> QED BY <1>3, <1>4, <1>5, <1>6, <1>7, <1>8 DEF Next
-----------------------------------------------------------------------------
(* The bytes since the flush                                               *)
\* What the driver has taken out of the FIFO
Seen ==
    CASE pc = "length" /\ ~signalled -> <<sharedMem[6]>>
      [] pc = "rest" \/ (pc = "read" /\ signalled) -> <<pkt_len>> \o buffer
      [] pc = "read" /\ ~signalled -> <<pkt_len>> \o Append(buffer, sharedMem[6])
      [] OTHER -> <<>>

\* All that came and comes, in its order
Stream == Seen \o (rxfifo \o incoming)

\* From the flush to the end of a get that does not give up
Following == (pc = "flush" /\ ~signalled) \/ pc \in {"rx", "count", "length", "rest", "read"}

\* The program has not yet told the radio to listen.
BeforeRx == (pc = "flush" /\ ~signalled) \/ (pc = "rx" /\ signalled /\ sharedMem[0] = SRX)

\* What the driver has taken are bytes.
LEMMA SeenIs ==
    ASSUME RxInv
    PROVE  Seen \in Bytes
<1>1. pkt_len \in 0 .. 255 /\ buffer \in Bytes
  BY DEF RxInv
<1>2. \A b \in 0 .. 255 : <<b>> \in Bytes /\ Len(<<b>>) = 1
  BY DEF Bytes
<1>3. <<>> \in Bytes
  BY EmptySeq DEF Bytes
<1>4. CASE pc = "length" /\ ~signalled
  <2>1. sharedMem[6] \in 0 .. 255
    BY <1>4 DEF RxInv, RxPoints
  <2> QED BY <1>2, <1>4, <2>1 DEF Seen
<1>5. CASE pc = "rest" \/ (pc = "read" /\ signalled)
  <2>1. Seen = <<pkt_len>> \o buffer
    BY <1>5 DEF Seen
  <2>2. <<pkt_len>> \in Bytes
    BY <1>1, <1>2
  <2> QED BY <1>1, <2>1, <2>2, Joined
<1>6. CASE pc = "read" /\ ~signalled
  <2>1. Seen = <<pkt_len>> \o Append(buffer, sharedMem[6])
    BY <1>6 DEF Seen
  <2>2. sharedMem[6] \in 0 .. 255
    BY <1>6 DEF RxInv, RxPoints
  <2>3. <<pkt_len>> \in Bytes /\ Append(buffer, sharedMem[6]) \in Bytes
    BY <1>1, <1>2, <2>2, OneByte
  <2> QED BY <2>1, <2>3, Joined
<1>7. CASE /\ ~(pc = "length" /\ ~signalled)
           /\ ~(pc = "rest" \/ (pc = "read" /\ signalled))
           /\ ~(pc = "read" /\ ~signalled)
  BY <1>3, <1>7 DEF Seen
<1> QED BY <1>4, <1>5, <1>6, <1>7

LEMMA StreamIs ==
    ASSUME RxInv
    PROVE  /\ Seen \in Bytes /\ rxfifo \in Bytes /\ incoming \in Bytes
           /\ rxfifo \o incoming \in Bytes
           /\ Stream \in Bytes
           /\ Len(Stream) = Len(Seen) + (Len(rxfifo) + Len(incoming))
           /\ \A n \in 1 .. Len(Seen) : Stream[n] = Seen[n]
<1>1. Seen \in Bytes /\ rxfifo \in Bytes /\ incoming \in Bytes
  BY SeenIs DEF RxInv, RxChipOK
<1>2. rxfifo \o incoming \in Bytes /\ Len(rxfifo \o incoming) = Len(rxfifo) + Len(incoming)
  BY <1>1, Joined
<1> DEFINE r == rxfifo \o incoming
<1> HIDE DEF r
<1>3. r \in Bytes /\ Len(r) = Len(rxfifo) + Len(incoming)
  BY <1>2 DEF r
<1>4. /\ Seen \o r \in Bytes /\ Len(Seen \o r) = Len(Seen) + Len(r)
      /\ \A n \in 1 .. Len(Seen) + Len(r) :
            (Seen \o r)[n] = IF n <= Len(Seen) THEN Seen[n] ELSE r[n - Len(Seen)]
  BY <1>1, <1>3, Joined
<1>5. Len(Seen) \in Nat /\ Len(r) \in Nat
  BY <1>1, <1>3, OneByte
<1>6. \A n \in 1 .. Len(Seen) : n \in 1 .. Len(Seen) + Len(r) /\ n <= Len(Seen)
  BY <1>5
<1>7. Stream = Seen \o r
  BY DEF Stream, r
<1> QED BY <1>1, <1>2, <1>3, <1>4, <1>6, <1>7

\* The driver reads from the mailbox what it has asked for, byte by byte.
LEMMA StreamDriver ==
    ASSUME AskInv, RxInv, UNCHANGED chipVars, Driver \/ Calling, Following'
    PROVE  /\ Following /\ Stream' = Stream /\ (BeforeRx' => BeforeRx)
           /\ UNCHANGED <<mode, goal, incoming, frame, begun, heard>>
<1>1. UNCHANGED <<mode, goal, rxfifo, incoming, frame>>
  BY DEF chipVars
<1>2. Mailbox /\ Program
  BY DEF AskInv
<1>3. pkt_len \in 0 .. 255 /\ buffer \in Bytes
  BY DEF RxInv
<1>4. \A b \in 0 .. 255 : <<b>> \in Bytes /\ <<b>> \o <<>> = <<b>>
  <2> TAKE b \in 0 .. 255
  <2>1. <<b>> \in Bytes
    BY DEF Bytes
  <2> QED BY <2>1, ConcatEmptySeq DEF Bytes
<1>5. ASSUME Seen' = Seen, Following, BeforeRx' => BeforeRx, UNCHANGED <<begun, heard>>
      PROVE  /\ Following /\ Stream' = Stream /\ (BeforeRx' => BeforeRx)
             /\ UNCHANGED <<mode, goal, incoming, frame, begun, heard>>
  BY <1>1, <1>5 DEF Stream
<1>6. Getting
  <2>1. CASE Configuring \/ Sending
    <3>1. pc' \notin GetPoints
      <4>1. CASE Configuring
        BY <4>1 DEF Configuring, Boot, BootFails, Reset, Configure, Control, InitEnds,
           ChangeRateOn, RateChanged, Go, Leave, GetPoints
      <4>2. CASE Sending
        BY <4>2, Points DEF SendPoints, GetPoints
      <4> QED BY <2>1, <4>1, <4>2
    <3> QED BY <3>1 DEF Following, GetPoints
  <2>2. CASE Call
    <3>1. StartGet => signalled'
      BY <1>2, Cmd DEF StartGet
    <3> QED BY <2>2, <3>1 DEF Call, StartSend, StartGet, ChangeRate, Following
  <2> QED BY <2>1, <2>2 DEF Driver, Calling
<1>7. CASE GoRx
  <2>1. pc = "flush" /\ ~signalled /\ pc' = "rx" /\ UNCHANGED <<begun, heard>>
    BY <1>7 DEF GoRx, Then, Go, Returned, portVars
  <2>2. Seen = <<>> /\ Seen' = <<>>
    BY <2>1 DEF Seen
  <2> QED BY <1>5, <2>1, <2>2 DEF Following, BeforeRx
<1>8. CASE AwaitRx
  <2>1. pc = "rx" /\ pc' = "rx" /\ UNCHANGED <<begun, heard>>
    BY <1>8 DEF AwaitRx, Poll, Then, Go, portVars
  <2>2. Seen = <<>> /\ Seen' = <<>>
    BY <2>1 DEF Seen
  <2>3. sharedMem'[0] = SNOP
    BY <1>2, <1>8, Cmd DEF AwaitRx, Poll, Holds
  <2> QED BY <1>5, <2>1, <2>2, <2>3 DEF Following, BeforeRx, SNOP, SRX
<1>9. ASSUME NEW from, NEW to \in {"count", "rest"}, Look(from, to)
      PROVE  pc = from /\ ~signalled /\ pc' = to /\ signalled' /\ UNCHANGED <<begun, heard>>
  <2>1. pc = from /\ ~signalled /\ UNCHANGED <<begun, heard>> /\ (pc' = to \/ pc' = "give up")
    BY <1>9 DEF Look, Go, Returned, portVars
  <2>2. pc' = to
    BY <2>1 DEF Following
  <2>3. ~late
    BY <1>9, <2>2 DEF Look, Go
  <2>4. signalled'
    BY <1>2, <1>9, <2>3, CountRead DEF Look
  <2> QED BY <2>1, <2>2, <2>4
<1>10. CASE Listen \/ Nothing
  <2>1. pc \in {"rx", "count"} /\ pc' = "count" /\ UNCHANGED <<begun, heard>>
    BY <1>9, <1>10 DEF Listen, Nothing
  <2>2. Seen = <<>> /\ Seen' = <<>>
    BY <2>1 DEF Seen
  <2> QED BY <1>5, <2>1, <2>2 DEF Following, BeforeRx
<1>11. CASE ReadLength
  <2>1. pc = "count" /\ pc' = "length" /\ UNCHANGED <<begun, heard>>
    BY <1>11 DEF ReadLength, Then, Go, portVars
  <2>2. signalled'
    BY <1>2, <1>11, FifoRead DEF ReadLength
  <2>3. Seen = <<>> /\ Seen' = <<>>
    BY <2>1, <2>2 DEF Seen
  <2> QED BY <1>5, <2>1, <2>3 DEF Following, BeforeRx
<1>12. CASE GotLength
  <2>1. pc = "length" /\ ~signalled /\ pc' = "rest" /\ UNCHANGED <<begun, heard>>
    BY <1>9, <1>12 DEF GotLength
  <2>2. pkt_len' = sharedMem[6] /\ buffer' = buffer
    BY <1>12, Extended DEF GotLength, ValueOf
  <2>3. buffer = <<>> /\ sharedMem[6] \in 0 .. 255
    BY <1>2, <2>1 DEF Program, RxInv, RxPoints
  <2>4. Seen = <<sharedMem[6]>> /\ Seen' = <<pkt_len'>> \o buffer'
    BY <2>1 DEF Seen
  <2>5. Seen' = Seen
    BY <1>4, <2>2, <2>3, <2>4
  <2> QED BY <1>5, <2>1, <2>5 DEF Following, BeforeRx
<1>13. CASE Incomplete \/ ReadFirst
  <2>1. /\ pc = "rest" /\ pc' \in {"rest", "read"} /\ signalled'
        /\ UNCHANGED <<begun, heard, pkt_len, buffer>>
    <3>1. CASE Incomplete
      BY <1>9, <3>1 DEF Incomplete, localVars
    <3>2. CASE ReadFirst
      <4>1. signalled'
        BY <1>2, <3>2, FifoRead DEF ReadFirst
      <4> QED BY <3>2, <4>1 DEF ReadFirst, Then, Go, localVars, portVars
    <3> QED BY <1>13, <3>1, <3>2
  <2>2. Seen = <<pkt_len>> \o buffer /\ Seen' = <<pkt_len'>> \o buffer'
    BY <2>1 DEF Seen
  <2>3. Seen' = Seen
    BY <2>1, <2>2
  <2> QED BY <1>5, <2>1, <2>3 DEF Following, BeforeRx
<1>14. CASE ReadOn
  <2>1. /\ pc = "read" /\ ~signalled /\ pc' = "read" /\ UNCHANGED <<begun, heard, pkt_len>>
        /\ buffer' = Append(buffer, sharedMem[6])
    BY <1>14, Extended DEF ReadOn, Go, Returned, ValueOf, portVars
  <2>2. signalled'
    BY <1>2, <1>14, FifoRead DEF ReadOn
  <2>3. Seen = <<pkt_len>> \o Append(buffer, sharedMem[6]) /\ Seen' = <<pkt_len'>> \o buffer'
    BY <2>1, <2>2 DEF Seen
  <2>4. Seen' = Seen
    BY <2>1, <2>3
  <2> QED BY <1>5, <2>1, <2>4 DEF Following, BeforeRx
<1>15. CASE GetReturns \/ GetTimesOut
  BY <1>15 DEF GetReturns, GetTimesOut, Leave, Go, Following
<1> QED BY <1>6, <1>7, <1>8, <1>10, <1>11, <1>12, <1>13, <1>14, <1>15 DEF Getting

\* Concatenation as a name of its own keeps the provers from taking it apart.
Cat(s, t) == s \o t

LEMMA CatIs ==
    \A s \in Bytes, t \in Bytes : Cat(s, t) \in Bytes /\ Cat(<<>>, s) = s
<1> TAKE s \in Bytes, t \in Bytes
<1>1. s \o t \in Bytes
  BY ConcatProperties DEF Bytes
<1>2. <<>> \o s = s
  BY ConcatEmptySeq DEF Bytes
<1> QED BY <1>1, <1>2 DEF Cat

LEMMA CatAssoc ==
    \A s \in Bytes, t \in Bytes, u \in Bytes : Cat(Cat(s, t), u) = Cat(s, Cat(t, u))
BY ConcatAssociative DEF Bytes, Cat

\* The head of the FIFO moves on to what the driver has taken.
LEMMA HandedFirst ==
    ASSUME NEW r \in Bytes, NEW c \in Bytes, r # <<>>
    PROVE  Cat(<<Head(r)>>, Cat(Tail(r), c)) = Cat(<<>>, Cat(r, c))
<1> DEFINE h == <<Head(r)>>
           t == Tail(r)
<1>1. h \in Bytes /\ t \in Bytes /\ Cat(h, t) = r
  BY HeadOn DEF Cat
<1> HIDE DEF h, t
<1>2. Cat(Cat(h, t), c) = Cat(h, Cat(t, c))
  BY <1>1, CatAssoc
<1>3. Cat(<<>>, Cat(r, c)) = Cat(r, c)
  BY CatIs
<1>4. Cat(h, Cat(t, c)) = Cat(<<>>, Cat(r, c))
  BY <1>1, <1>2, <1>3
<1> QED BY <1>4 DEF h, t

LEMMA HandedOn ==
    \A p \in Bytes, b \in Bytes, r \in Bytes, c \in Bytes :
        r # <<>> => Cat(Cat(p, Append(b, Head(r))), Cat(Tail(r), c)) = Cat(Cat(p, b), Cat(r, c))
<1> SUFFICES ASSUME NEW p \in Bytes, NEW b \in Bytes, NEW r \in Bytes, NEW c \in Bytes,
                    r # <<>>
             PROVE  Cat(Cat(p, Append(b, Head(r))), Cat(Tail(r), c)) = Cat(Cat(p, b), Cat(r, c))
  OBVIOUS
<1> DEFINE t == Tail(r)
           e == Append(b, Head(r))
<1>1. e \in Bytes /\ t \in Bytes
  BY OneByte
<1>2. Cat(e, t) = Cat(b, r)
  BY Handed DEF Cat
<1> HIDE DEF t, e
<1>3. Cat(t, c) \in Bytes /\ Cat(r, c) \in Bytes
  BY <1>1, CatIs
<1>4. Cat(Cat(p, e), Cat(t, c)) = Cat(p, Cat(e, Cat(t, c)))
  BY <1>1, <1>3, CatAssoc
<1>5. Cat(Cat(e, t), c) = Cat(e, Cat(t, c))
  BY <1>1, CatAssoc
<1>6. Cat(Cat(b, r), c) = Cat(b, Cat(r, c))
  BY CatAssoc
<1>7. Cat(Cat(p, b), Cat(r, c)) = Cat(p, Cat(b, Cat(r, c)))
  BY <1>3, CatAssoc
<1>8. Cat(Cat(p, e), Cat(t, c)) = Cat(Cat(p, b), Cat(r, c))
  BY <1>2, <1>4, <1>5, <1>6, <1>7
<1> QED BY <1>8 DEF t, e

\* What the PRU reads for the driver stays in order.
LEMMA StreamPru ==
    ASSUME IdleInv, AskInv, RxInv, Pru, Following'
    PROVE  \/ pc = "flush" /\ Stream' = incoming /\ UNCHANGED <<mode, goal, incoming, frame, begun>>
           \/ /\ Following /\ Stream' = Stream /\ ~BeforeRx'
              /\ UNCHANGED <<incoming, frame, begun, heard>>
              /\ Open' => Open \/ BeforeRx
<1>1. /\ signalled /\ ~signalled' /\ UNCHANGED <<pc, pkt_len, buffer, begun, heard>>
      /\ Program /\ Pending
  BY PruEffect DEF Pru, AskInv, portVars
<1>2. incoming \in Bytes /\ rxfifo \in Bytes /\ buffer \in Bytes /\ pkt_len \in 0 .. 255
      /\ mode # RX_FIFO_ERROR
  BY DEF RxInv, RxChipOK
<1>3. CASE pc = "flush"
  <2>1. Strobe(SFRX)
    BY <1>3, PruEffect
  <2>2. rxfifo' = <<>> /\ UNCHANGED <<mode, goal, incoming, frame>>
    BY <2>1 DEF Strobe, SRES, SIDLE, SRX, STX, SFRX, SNOP
  <2>3. Seen' = <<>>
    BY <1>1, <1>3 DEF Seen
  <2>4. <<>> \o incoming = incoming
    BY <1>2, Joined
  <2>5. Stream' = incoming
    BY <2>2, <2>3, <2>4 DEF Stream
  <2> QED BY <1>1, <1>3, <2>2, <2>5
<1>4. ASSUME pc # "flush", Stream' = Stream, UNCHANGED <<incoming, frame>>,
             Open' => Open \/ BeforeRx
      PROVE  /\ Following /\ Stream' = Stream /\ ~BeforeRx'
             /\ UNCHANGED <<incoming, frame, begun, heard>>
             /\ Open' => Open \/ BeforeRx
  BY <1>1, <1>4 DEF Following, BeforeRx
<1>5. CASE pc = "rx"
  <2>1. Seen = <<>> /\ Seen' = <<>>
    BY <1>1, <1>5 DEF Seen
  <2>2. CASE sharedMem[0] = SRX
    <3>1. Strobe(SRX) \/ UNCHANGED chipVars
      BY <1>5, PruEffect
    <3>2. UNCHANGED <<rxfifo, incoming, frame>>
      BY <3>1 DEF Strobe, SRES, SIDLE, SRX, STX, SFRX, SNOP, chipVars
    <3> QED BY <1>1, <1>4, <1>5, <2>1, <2>2, <3>2 DEF BeforeRx, Stream
  <2>3. CASE sharedMem[0] # SRX
    <3>1. Holds(sharedMem, SNOP, 1)
      BY <1>1, <1>5, <2>3 DEF Pending, Holds
    <3>2. Strobe(SNOP)
      BY <3>1, PruStrobe
    <3>3. UNCHANGED <<mode, goal, rxfifo, incoming, frame>>
      BY <3>2 DEF Strobe, SRES, SIDLE, SRX, STX, SFRX, SNOP, chipVars
    <3> QED BY <1>4, <1>5, <2>1, <3>3 DEF Open, Stream
  <2> QED BY <2>2, <2>3
<1>6. CASE pc \in {"count", "rest"}
  <2>1. UNCHANGED <<mode, goal, rxfifo, incoming, frame>>
    BY <1>6, PruEffect DEF chipVars
  <2>2. Seen' = Seen
    BY <1>1, <1>6 DEF Seen
  <2> QED BY <1>4, <1>6, <2>1, <2>2 DEF Open, Stream
<1>7. CASE pc \in {"length", "read"}
  <2>1. ReadFifo /\ sharedMem'[6] = FifoByte
    BY <1>7, PruEffect
  <2>2. rxfifo # <<>>
    <3>1. CASE pc = "length"
      BY <1>1, <3>1 DEF RxInv, RxPoints
    <3>2. CASE pc = "read"
      <4>1. Len(buffer) <= pkt_len + 1 /\ pkt_len + 2 <= Len(rxfifo) + Len(buffer) + 0
        BY <1>1, <3>2 DEF RxInv, RxPoints
      <4>2. Len(buffer) \in Nat /\ Len(rxfifo) \in Nat
        BY <1>2, OneByte
      <4>3. Len(rxfifo) # 0
        BY <1>2, <4>1, <4>2
      <4> QED BY <4>3, EmptySeq
    <3> QED BY <1>7, <3>1, <3>2
  <2>3. /\ UNCHANGED <<mode, goal, incoming, frame>>
        /\ rxfifo' = Tail(rxfifo) /\ sharedMem'[6] = Head(rxfifo)
    BY <2>1, <2>2 DEF ReadFifo, FifoByte
  <2>4. Open' = Open
    BY <2>3 DEF Open
  <2>5. <<pkt_len>> \in Bytes
    BY <1>2 DEF Bytes
  <2>6. CASE pc = "length"
    <3>1. Seen = <<>> /\ Seen' = <<Head(rxfifo)>>
      BY <1>1, <2>3, <2>6 DEF Seen
    <3>2. Cat(<<Head(rxfifo)>>, Cat(Tail(rxfifo), incoming)) = Cat(<<>>, Cat(rxfifo, incoming))
      BY <1>2, <2>2, HandedFirst
    <3>3. Stream' = Stream
      BY <2>3, <3>1, <3>2 DEF Stream, Cat
    <3> QED BY <1>4, <2>3, <2>4, <2>6, <3>3
  <2>7. CASE pc = "read"
    <3>1. Seen = <<pkt_len>> \o buffer /\ Seen' = <<pkt_len>> \o Append(buffer, Head(rxfifo))
      BY <1>1, <2>3, <2>7 DEF Seen
    <3> DEFINE p == <<pkt_len>>
    <3>2. Cat(Cat(p, Append(buffer, Head(rxfifo))), Cat(Tail(rxfifo), incoming))
             = Cat(Cat(p, buffer), Cat(rxfifo, incoming))
      <4>1. p \in Bytes
        BY <2>5
      <4> HIDE DEF p
      <4>2. buffer \in Bytes /\ rxfifo \in Bytes /\ incoming \in Bytes
        BY <1>2
      <4>3. \A q \in Bytes :
               Cat(Cat(q, Append(buffer, Head(rxfifo))), Cat(Tail(rxfifo), incoming))
                  = Cat(Cat(q, buffer), Cat(rxfifo, incoming))
        BY <2>2, <4>2, HandedOn
      <4> QED BY <4>1, <4>3
    <3>3. Stream' = Stream
      BY <2>3, <3>1, <3>2 DEF Stream, Cat
    <3> QED BY <1>4, <2>3, <2>4, <2>7, <3>3
  <2> QED BY <1>7, <2>6, <2>7
<1> QED BY <1>1, <1>3, <1>5, <1>6, <1>7 DEF Following

\* How a sequence of bytes begins
Begins(s, f) == Len(f) + 3 <= Len(s) /\ \A n \in 1 .. Len(f) + 3 : s[n] = Framed(f)[n]

\* The first frame since the flush is still coming in
First == incoming # <<>> /\ Stream = Framed(frame)

\* It has come in.
Whole == \E f \in Frames \cup Noise : Begins(Stream, f) /\ (f \in Frames => f \in heard)

\* The frames that have been in the air during the call
InAir == begun \cap (Frames \cup Noise)

\* The flush has met a frame whose first bytes it took; another may follow it.
Cut == \E f \in InAir : \E k \in 2 .. Len(f) + 3 : Stream = Rest(f, k)
CutThenWhole ==
    \E f, g \in InAir : \E k \in 2 .. Len(f) + 3 : Stream = Rest(f, k) \o Framed(g)

\* From the flush on the bytes begin with a whole frame, which was heard during the
\* call, or with the rest of one that began before.
InOrder ==
    Following =>
        \/ Stream = <<>>
        \/ First
        \/ Whole
        \/ (BeforeRx => ~Open) /\ Cut
        \/ ~BeforeRx /\ ~Open /\ CutThenWhole

\* Nothing comes in and nothing goes.
LEMMA InOrderSame ==
    ASSUME InOrder, Following, Stream' = Stream, begun \subseteq begun', heard \subseteq heard',
           BeforeRx' => BeforeRx,
           Open' => Open \/ (BeforeRx /\ ~BeforeRx'), First => First' \/ Whole'
    PROVE  InOrder'
<1>1. Whole => Whole'
  BY DEF Whole
<1>2. Cut => Cut'
  BY DEF Cut, InAir
<1>3. CutThenWhole => CutThenWhole'
  BY DEF CutThenWhole, InAir
<1> QED BY <1>1, <1>2, <1>3 DEF InOrder

LEMMA Appended ==
    \A s \in Bytes, r \in Bytes, n \in Bytes : Cat(s, Cat(r, n)) = Cat(Cat(s, Cat(r, <<>>)), n)
<1> TAKE s \in Bytes, r \in Bytes, n \in Bytes
<1>1. Cat(r, <<>>) = r
  BY ConcatEmptySeq DEF Cat, Bytes
<1>2. Cat(Cat(s, r), n) = Cat(s, Cat(r, n))
  BY CatAssoc
<1> QED BY <1>1, <1>2

\* A frame that begins to arrive is put behind what came before.
LEMMA StreamArrive ==
    ASSUME RxInv, Formatted, Arrive, UNCHANGED Seen
    PROVE  /\ frame' \in Frames \cup Noise /\ incoming' = Framed(frame') /\ incoming' # <<>>
           /\ Open /\ ~Open' /\ Stream' = Cat(Stream, Framed(frame'))
<1>1. /\ frame' \in Frames \cup Noise /\ incoming' = Framed(frame')
      /\ incoming = <<>> /\ mode = RX /\ UNCHANGED <<mode, goal, rxfifo>>
  BY ArriveIs
<1>2. Framed(frame') \in Bytes /\ Framed(frame') # <<>>
  BY <1>1, FramedIs
<1>3. Seen \in Bytes /\ rxfifo \in Bytes
  BY StreamIs
<1>4. Cat(Seen, Cat(rxfifo, Framed(frame'))) = Cat(Cat(Seen, Cat(rxfifo, <<>>)), Framed(frame'))
  <2> DEFINE n == Framed(frame')
  <2>1. n \in Bytes
    BY <1>2
  <2> HIDE DEF n
  <2>2. Cat(Seen, Cat(rxfifo, n)) = Cat(Cat(Seen, Cat(rxfifo, <<>>)), n)
    BY <1>3, <2>1, Appended
  <2> QED BY <2>2 DEF n
<1>5. Stream = Cat(Seen, Cat(rxfifo, <<>>))
  BY <1>1 DEF Stream, Cat
<1>6. Stream' = Cat(Seen, Cat(rxfifo, Framed(frame')))
  BY <1>1 DEF Stream, Cat
<1>7. Open /\ ~Open'
  BY <1>1, <1>2 DEF Open
<1> QED BY <1>1, <1>2, <1>4, <1>5, <1>6, <1>7

\* A byte received moves to the FIFO; with the last one the radio goes idle.
LEMMA StreamReceive ==
    ASSUME RegsInv, RxInv, Receive, UNCHANGED Seen
    PROVE  /\ ~Open' /\ Stream' = Stream /\ UNCHANGED frame
           /\ incoming' = <<>> <=> LastByte
<1>1. incoming \in Bytes /\ rxfifo \in Bytes
  BY DEF RxInv, RxChipOK
<1>2. /\ incoming # <<>> /\ mode = RX /\ UNCHANGED frame
      /\ rxfifo' = Append(rxfifo, Head(incoming)) /\ incoming' = Tail(incoming)
  BY DEF Receive
<1>3. mode' = IF LastByte THEN IDLE ELSE RX
  BY DEF Receive, StateAfter, RegsInv, Field
<1>4. incoming' = <<>> <=> LastByte
  BY <1>1, <1>2, OneByte DEF LastByte
<1>5. ~Open'
  BY <1>3, <1>4 DEF Open, IDLE, RX, SETTLING
<1>6. rxfifo' \o incoming' = rxfifo \o incoming
  BY <1>1, <1>2, Handed
<1>7. Stream' = Stream
  BY <1>6 DEF Stream
<1> QED BY <1>2, <1>4, <1>5, <1>7

LEMMA InOrderChip ==
    ASSUME IdleInv, AskInv, RegsInv, RxInv, Formatted, Coming, InOrder, ChipMoves, Following
    PROVE  InOrder'
<1>1. UNCHANGED <<pc, signalled, sharedMem, pkt_len, buffer>>
  BY DEF ChipMoves, spiVars, localVars
<1>2. Seen' = Seen /\ BeforeRx' = BeforeRx
  BY <1>1 DEF Seen, BeforeRx
<1>3. heard \subseteq heard' /\ begun \subseteq begun'
  BY DEF ChipMoves, portVars
<1>4. CASE Settled
  <2>1. UNCHANGED <<rxfifo, incoming, frame>> /\ (Open' => Open)
    BY <1>4 DEF Settled, Open, RX, IDLE, SETTLING
  <2>2. Stream' = Stream
    BY <1>2, <2>1 DEF Stream
  <2>3. First => First'
    BY <2>1, <2>2 DEF First
  <2> QED BY <1>2, <1>3, <2>1, <2>2, <2>3, InOrderSame
<1>5. CASE Transmitted
  <2>1. UNCHANGED <<rxfifo, incoming, frame>> /\ mode' = IDLE
    BY <1>5 DEF Transmitted, StateAfter, RegsInv, Field
  <2>2. Stream' = Stream
    BY <1>2, <2>1 DEF Stream
  <2>3. First => First'
    BY <2>1, <2>2 DEF First
  <2>4. ~Open'
    BY <2>1 DEF Open, IDLE, RX, SETTLING
  <2> QED BY <1>2, <1>3, <2>2, <2>3, <2>4, InOrderSame
<1>6. CASE Receive
  <2>1. /\ ~Open' /\ Stream' = Stream /\ UNCHANGED frame
        /\ incoming' = <<>> <=> LastByte
    BY <1>2, <1>6, StreamReceive
  <2>2. First => First' \/ Whole'
    <3>1. SUFFICES ASSUME First PROVE First' \/ Whole'
      OBVIOUS
    <3>2. CASE ~LastByte
      BY <2>1, <3>1, <3>2 DEF First
    <3>3. CASE LastByte
      <4>1. frame \in Frames \cup Noise /\ Stream' = Framed(frame)
        BY <2>1, <3>1 DEF First, Coming
      <4>2. frame \in Frames => frame \in heard'
        <5>1. call = "get"
          BY DEF AskInv, Program, Following, GetPoints
        <5>2. ~Settled /\ ~Arrive /\ ~Transmitted
          BY <1>6 DEF Receive, Settled, Arrive, Transmitted, RX, TX, SETTLING
        <5> QED BY <3>3, <5>1, <5>2 DEF ChipMoves
      <4>3. Begins(Stream', frame)
        <5>1. Len(Framed(frame)) = Len(frame) + 3 /\ Len(frame) \in Nat
          BY <4>1, FramedIs, FrameIs
        <5>2. Len(frame) + 3 <= Len(Framed(frame))
          BY <5>1
        <5> QED BY <4>1, <5>2 DEF Begins
      <4> QED BY <4>1, <4>2, <4>3 DEF Whole
    <3> QED BY <3>2, <3>3
  <2> QED BY <1>2, <1>3, <2>1, <2>2, InOrderSame
<1>7. CASE Arrive
  <2>1. /\ frame' \in Frames \cup Noise /\ incoming' = Framed(frame') /\ incoming' # <<>>
        /\ Open /\ ~Open' /\ Stream' = Cat(Stream, Framed(frame'))
    BY <1>2, <1>7, StreamArrive
  <2>2. Framed(frame') \in Bytes /\ Stream \in Bytes
    BY <2>1, FramedIs, StreamIs
  <2>3. CASE Stream = <<>>
    <3>1. Stream' = Framed(frame')
      BY <2>1, <2>2, <2>3, CatIs
    <3> QED BY <2>1, <3>1 DEF InOrder, First
  <2>4. CASE Whole
    <3>1. PICK f \in Frames \cup Noise : Begins(Stream, f) /\ (f \in Frames => f \in heard)
      BY <2>4 DEF Whole
    <3> DEFINE n == Framed(frame')
    <3>2. /\ Len(Stream') = Len(Stream) + Len(n)
          /\ \A k \in 1 .. Len(Stream) + Len(n) :
                Stream'[k] = IF k <= Len(Stream) THEN Stream[k] ELSE n[k - Len(Stream)]
      BY <2>1, <2>2, Joined DEF Cat
    <3>3. Len(Stream) \in Nat /\ Len(n) \in Nat /\ Len(f) \in Nat
      BY <2>2, FrameIs, OneByte
    <3> HIDE DEF n
    <3>4. Begins(Stream', f)
      <4>1. Len(f) + 3 <= Len(Stream) /\ \A k \in 1 .. Len(f) + 3 : Stream[k] = Framed(f)[k]
        BY <3>1 DEF Begins
      <4>2. Len(f) + 3 <= Len(Stream')
        BY <3>2, <3>3, <4>1
      <4>3. \A k \in 1 .. Len(f) + 3 : Stream'[k] = Framed(f)[k]
        <5> TAKE k \in 1 .. Len(f) + 3
        <5>1. k \in 1 .. Len(Stream) + Len(n) /\ k <= Len(Stream)
          BY <3>3, <4>1
        <5>2. Stream'[k] = Stream[k]
          BY <3>2, <5>1
        <5> QED BY <4>1, <5>2
      <4> QED BY <4>2, <4>3 DEF Begins
    <3>5. Whole'
      BY <1>3, <3>1, <3>4 DEF Whole
    <3> QED BY <3>5 DEF InOrder
  <2>5. CASE (BeforeRx => ~Open) /\ Cut
    <3>1. PICK f \in InAir : \E k \in 2 .. Len(f) + 3 : Stream = Rest(f, k)
      BY <2>5 DEF Cut
    <3>2. \E k \in 2 .. Len(f) + 3 : Stream' = Rest(f, k) \o Framed(frame')
      BY <2>1, <3>1 DEF Cat
    <3>4. frame' \in begun'
      <4>1. call = "get"
        BY DEF AskInv, Program, Following, GetPoints
      <4>2. ~Settled /\ ~Receive /\ ~Transmitted
        BY <1>7 DEF Receive, Settled, Arrive, Transmitted, RX, TX, SETTLING
      <4> QED BY <4>1, <4>2 DEF ChipMoves
    <3>5. f \in InAir' /\ frame' \in InAir'
      BY <1>3, <2>1, <3>1, <3>4 DEF InAir
    <3>3. CutThenWhole'
      BY <3>2, <3>5 DEF CutThenWhole
    <3> QED BY <1>2, <2>1, <2>5, <3>3 DEF InOrder
  <2>6. ~First /\ ~(~Open /\ CutThenWhole)
    BY <1>7, <2>1 DEF First, Arrive
  <2> QED BY <2>3, <2>4, <2>5, <2>6 DEF InOrder
<1> QED BY <1>4, <1>5, <1>6, <1>7 DEF ChipMoves

LEMMA InOrderInit == Init => InOrder
BY DEF Init, InOrder, Following

LEMMA InOrderStep ==
    ASSUME IdleInv, AskInv, RegsInv, RxInv, Formatted, Coming, Coming', Begun', InOrder,
           [Next]_vars
    PROVE  InOrder'
<1>1. SUFFICES ASSUME Following' PROVE InOrder'
  BY DEF InOrder
<1>2. CASE Driver \/ Calling
  <2>1. /\ Following /\ Stream' = Stream /\ (BeforeRx' => BeforeRx)
        /\ UNCHANGED <<mode, goal, incoming, frame, begun, heard>>
    BY <1>1, <1>2, StreamDriver DEF Driver, Calling
  <2>2. (Open' => Open) /\ (First => First')
    BY <2>1 DEF Open, First
  <2> QED BY <2>1, <2>2, InOrderSame
<1>3. CASE Pru
  <2>1. CASE /\ pc = "flush" /\ Stream' = incoming
             /\ UNCHANGED <<mode, goal, incoming, frame, begun>>
    <3>1. CASE incoming' = <<>>
      BY <2>1, <3>1 DEF InOrder
    <3>2. CASE incoming' # <<>>
      <4>1. frame' \in Frames \cup Noise /\ Len(frame') \in 0 .. 50
        BY <3>2, FrameIs DEF Coming
      <4>2. PICK k \in 1 .. Len(frame') + 3 : incoming' = Rest(frame', k)
        BY <3>2 DEF Coming
      <4>3. CASE k = 1
        <5>1. Stream' = Framed(frame')
          BY <2>1, <4>1, <4>2, <4>3, RestIs
        <5> QED BY <3>2, <5>1 DEF InOrder, First
      <4>4. CASE k # 1
        <5>1. k \in 2 .. Len(frame') + 3
          BY <4>1, <4>4
        <5>4. call' = "get"
          BY <1>3, <2>1 DEF AskInv, Program, GetPoints, Pru, portVars
        <5>5. frame' \in InAir'
          BY <3>2, <4>1, <5>4 DEF Begun, InAir
        <5>2. Cut'
          BY <2>1, <4>2, <5>1, <5>5 DEF Cut
        <5>3. ~Open'
          BY <3>2 DEF Open
        <5> QED BY <5>2, <5>3 DEF InOrder
      <4> QED BY <4>3, <4>4
    <3> QED BY <3>1, <3>2
  <2>2. CASE /\ Following /\ Stream' = Stream /\ ~BeforeRx'
             /\ UNCHANGED <<incoming, frame, begun, heard>>
             /\ Open' => Open \/ BeforeRx
    <3>1. First => First'
      BY <2>2 DEF First
    <3> QED BY <2>2, <3>1, InOrderSame
  <2> QED BY <1>1, <1>3, <2>1, <2>2, StreamPru
<1>4. CASE ChipMoves
  <2>1. Following
    BY <1>1, <1>4 DEF ChipMoves, spiVars, Following
  <2> QED BY <1>4, <2>1, InOrderChip
<1>5. CASE Restart
  BY <1>1, <1>5 DEF Restart, Following
<1>6. CASE Tick \/ UNCHANGED vars
  <2>1. UNCHANGED <<mode, goal, rxfifo, incoming, frame, sharedMem, signalled, pc,
                    pkt_len, buffer, begun, heard>>
    BY <1>6 DEF Tick, vars, chipVars, spiVars, localVars, portVars
  <2>2. Stream' = Stream /\ (Open' => Open) /\ (First => First')
    BY <2>1 DEF Stream, Seen, Open, First
  <2>3. Following /\ (BeforeRx' => BeforeRx)
    BY <1>1, <2>1 DEF Following, BeforeRx
  <2> QED BY <2>1, <2>2, <2>3, InOrderSame
<1> QED BY <1>2, <1>3, <1>4, <1>5, <1>6 DEF Next
-----------------------------------------------------------------------------
(* What a get returns                                                      *)
\* A part of a sequence of bytes
LEMMA PartIs ==
    ASSUME NEW s, NEW m \in Int, NEW e \in Int, \A n \in m .. e : s[n] \in 0 .. 255
    PROVE  /\ SubSeq(s, m, e) \in Bytes
           /\ Len(SubSeq(s, m, e)) = IF m <= e THEN e - m + 1 ELSE 0
           /\ \A n \in 1 .. e - m + 1 : SubSeq(s, m, e)[n] = s[m + n - 1]
BY SubSeqProperties DEF Bytes

LEMMA Slice ==
    ASSUME NEW s \in Bytes, NEW m \in Nat \ {0}, NEW e \in Nat, e <= Len(s)
    PROVE  /\ SubSeq(s, m, e) \in Bytes
           /\ Len(SubSeq(s, m, e)) = IF m <= e THEN e - m + 1 ELSE 0
           /\ \A n \in 1 .. e - m + 1 : SubSeq(s, m, e)[n] = s[m + n - 1]
<1>1. \A n \in m .. e : s[n] \in 0 .. 255
  <2> DEFINE l == Len(s)
  <2>1. l \in Nat /\ e <= l
    BY OneByte
  <2> HIDE DEF l
  <2>2. m .. e \subseteq 1 .. l
    BY <2>1
  <2>3. \A n \in 1 .. l : s[n] \in 0 .. 255
    BY ElementOfSeq DEF Bytes, l
  <2> QED BY <2>2, <2>3
<1>2. m \in Int /\ e \in Int
  OBVIOUS
<1> QED BY <1>1, <1>2, PartIs

\* A packet that stands in s behind its length
LEMMA Found ==
    ASSUME NEW s \in Bytes, NEW q \in Bytes, s[1] = Len(q), Len(q) + 1 <= Len(s),
           \A n \in 1 .. Len(q) : s[n + 1] = q[n]
    PROVE  SubSeq(s, 2, s[1] + 1) = q
<1> DEFINE e == s[1] + 1
           u == SubSeq(s, 2, e)
<1>1. Len(q) \in Nat /\ Len(s) \in Nat /\ e = Len(q) + 1
  BY OneByte
<1>2. 2 \in Nat \ {0} /\ e \in Nat /\ e <= Len(s)
  BY <1>1
<1> HIDE DEF e
<1>3. /\ u \in Bytes
      /\ Len(u) = IF 2 <= e THEN e - 2 + 1 ELSE 0
      /\ \A n \in 1 .. e - 2 + 1 : u[n] = s[2 + n - 1]
  BY <1>2, Slice
<1> HIDE DEF u
<1>4. Len(u) = Len(q) /\ \A n \in 1 .. Len(u) : u[n] = q[n]
  <2>1. Len(u) = Len(q)
    BY <1>1, <1>3
  <2>2. ASSUME NEW n \in 1 .. Len(q) PROVE u[n] = q[n]
    <3>1. n \in 1 .. e - 2 + 1 /\ 2 + n - 1 = n + 1
      BY <1>1
    <3> QED BY <1>3, <3>1
  <2> QED BY <2>1, <2>2
<1>5. u = q
  BY <1>3, <1>4, SeqEqual DEF Bytes
<1> QED BY <1>5 DEF u, e

\* The driver has read its packet behind its length.
LEMMA ReadOff ==
    ASSUME RxInv, pc = "read", ~signalled, Len(buffer) = pkt_len + 1
    PROVE  LET q == SubSeq(buffer, 1, pkt_len)
           IN  /\ q \in Bytes /\ Len(q) = pkt_len
               /\ Stream[1] = pkt_len
               /\ Len(q) + 3 + Len(incoming) <= Len(Stream)
               /\ \A n \in 1 .. Len(q) : Stream[n + 1] = q[n]
<1> DEFINE p == pkt_len
           b == buffer
           x == sharedMem[6]
           h == <<p>>
           a == Append(b, x)
           q == SubSeq(b, 1, p)
<1>1. p \in 0 .. 255 /\ b \in Bytes /\ x \in 0 .. 255 /\ Len(b) = p + 1
  BY DEF RxInv, RxPoints
<1>2. h \in Bytes /\ Len(h) = 1 /\ h[1] = p
  BY <1>1 DEF Bytes
<1>3. /\ a \in Bytes /\ Len(a) = p + 2
      /\ \A n \in 1 .. p : a[n] = b[n]
  <2>1. /\ a \in Bytes /\ Len(a) = Len(b) + 1
        /\ \A n \in 1 .. Len(b) : a[n] = b[n]
    BY <1>1, AppendProperties DEF Bytes
  <2> QED BY <1>1, <2>1
<1>4. Seen = h \o a
  BY DEF Seen
<1> HIDE DEF h, a
<1>5. /\ Len(Seen) = p + 3 /\ Seen[1] = p
      /\ \A n \in 1 .. p : Seen[n + 1] = b[n]
  <2>1. /\ Len(h \o a) = Len(h) + Len(a)
        /\ \A n \in 1 .. Len(h) + Len(a) :
              (h \o a)[n] = IF n <= Len(h) THEN h[n] ELSE a[n - Len(h)]
    BY <1>2, <1>3, Joined
  <2> HIDE DEF p, b
  <2>2. \A n \in 1 .. p + 3 : Seen[n] = IF n <= 1 THEN h[n] ELSE a[n - 1]
    BY <1>1, <1>2, <1>3, <1>4, <2>1
  <2>3. Seen[1] = p
    BY <1>1, <1>2, <2>2
  <2>4. \A n \in 1 .. p : Seen[n + 1] = b[n]
    <3> TAKE n \in 1 .. p
    <3>1. n + 1 \in 1 .. p + 3 /\ ~(n + 1 <= 1) /\ (n + 1) - 1 = n
      BY <1>1
    <3> QED BY <1>3, <2>2, <3>1
  <2> QED BY <1>1, <1>2, <1>3, <1>4, <2>1, <2>3, <2>4
<1>6. /\ Len(Stream) = Len(Seen) + (Len(rxfifo) + Len(incoming))
      /\ \A n \in 1 .. Len(Seen) : Stream[n] = Seen[n]
      /\ Len(rxfifo) \in Nat /\ Len(incoming) \in Nat
  BY StreamIs, OneByte
<1>7. Stream[1] = p /\ \A n \in 1 .. p : Stream[n + 1] = b[n]
  <2>1. 1 \in 1 .. Len(Seen) /\ \A n \in 1 .. p : n + 1 \in 1 .. Len(Seen)
    BY <1>1, <1>5
  <2> QED BY <1>5, <1>6, <2>1
<1>8. q \in Bytes /\ Len(q) = p /\ \A n \in 1 .. p : q[n] = b[n]
  <2>1. 1 \in Nat \ {0} /\ p \in Nat /\ p <= Len(b)
    BY <1>1
  <2> HIDE DEF p, b
  <2>2. /\ q \in Bytes
        /\ Len(q) = IF 1 <= p THEN p - 1 + 1 ELSE 0
        /\ \A n \in 1 .. p - 1 + 1 : q[n] = b[1 + n - 1]
    BY <1>1, <2>1, Slice
  <2> HIDE DEF q
  <2> QED BY <1>1, <2>2
<1> HIDE DEF q
<1>9. Len(q) + 3 + Len(incoming) <= Len(Stream)
  BY <1>1, <1>5, <1>6, <1>8
<1>10. \A n \in 1 .. Len(q) : Stream[n + 1] = q[n]
  BY <1>7, <1>8
<1> QED BY <1>7, <1>8, <1>9, <1>10 DEF q

\* What the checksum accepts was received during the call, or is read out of step.
LEMMA GetHeard ==
    ASSUME RxInv, Coming, InOrder, pc = "read", ~signalled, Len(buffer) = pkt_len + 1,
           SubSeq(buffer, 1, pkt_len) \in Frames
    PROVE  \/ SubSeq(buffer, 1, pkt_len) \in heard
           \/ \E f, g \in begun : SubSeq(buffer, 1, pkt_len) \in OutOfStep(f, g)
<1> DEFINE q == SubSeq(buffer, 1, pkt_len)
<1>1. /\ q \in Bytes /\ Stream[1] = Len(q)
      /\ Len(q) + 3 + Len(incoming) <= Len(Stream)
      /\ \A n \in 1 .. Len(q) : Stream[n + 1] = q[n]
  BY ReadOff
<1>2. q \in Frames
  OBVIOUS
<1> DEFINE Goal == q \in heard \/ \E f, g \in begun : q \in OutOfStep(f, g)
<1>3. SUFFICES Goal
  OBVIOUS
<1> HIDE DEF q
<1>4. Len(q) \in Nat /\ Len(incoming) \in Nat /\ Len(Stream) \in Nat /\ Stream \in Bytes
      /\ incoming \in Bytes
  BY <1>1, StreamIs, OneByte
<1>5. Stream # <<>>
  <2>1. Len(Stream) # 0
    BY <1>1, <1>4
  <2> QED BY <2>1, EmptySeq
<1>6. ~First
  <2>1. SUFFICES ASSUME First PROVE FALSE
    OBVIOUS
  <2>2. frame \in Frames \cup Noise /\ incoming # <<>> /\ Stream = Framed(frame)
    BY <2>1 DEF First, Coming
  <2>3. Len(Stream) = Len(frame) + 3 /\ Stream[1] = Len(frame)
    BY <2>2, FramedIs
  <2>4. Len(incoming) >= 1
    BY <1>4, <2>2, OneByte
  <2> QED BY <1>1, <1>4, <2>3, <2>4
<1>7. CASE Whole
  <2>1. PICK f \in Frames \cup Noise : Begins(Stream, f) /\ (f \in Frames => f \in heard)
    BY <1>7 DEF Whole
  <2>2. f \in Bytes /\ Len(f) \in Nat
    BY FrameIs
  <2>3. \A n \in 1 .. Len(f) + 3 : Stream[n] = Framed(f)[n]
    BY <2>1 DEF Begins
  <2>4. Framed(f)[1] = Len(f) /\ \A n \in 1 .. Len(f) : Framed(f)[n + 1] = f[n]
    BY FramedIs
  <2>5. Len(f) = Len(q)
    <3>1. 1 \in 1 .. Len(f) + 3
      BY <2>2
    <3> QED BY <1>1, <2>3, <2>4, <3>1
  <2>6. \A n \in 1 .. Len(f) : f[n] = q[n]
    <3> TAKE n \in 1 .. Len(f)
    <3>1. n + 1 \in 1 .. Len(f) + 3
      BY <2>2
    <3> QED BY <1>1, <2>3, <2>4, <2>5, <3>1
  <2>7. f = q
    BY <1>1, <2>2, <2>5, <2>6, SeqEqual DEF Bytes
  <2> QED BY <1>2, <2>1, <2>7
<1>8. ASSUME NEW f \in InAir, NEW g \in InAir, NEW k \in 2 .. Len(f) + 3,
             NEW s \in Bytes, s = Rest(f, k) \o Framed(g), s[1] = Len(q), Len(q) + 3 <= Len(s), \A n \in 1 .. Len(q) : s[n + 1] = q[n]
      PROVE  Goal
  <2>1. SubSeq(s, 2, s[1] + 1) = q
    <3>1. Len(q) + 1 <= Len(s)
      BY <1>4, <1>8, OneByte
    <3> QED BY <1>1, <1>8, <3>1, Found
  <2>2. q \in OutOfStep(f, g)
    BY <1>2, <1>8, <2>1 DEF OutOfStep
  <2> QED BY <2>2 DEF InAir
<1>9. CASE CutThenWhole
  <2>2. Len(q) + 3 <= Len(Stream)
    BY <1>1, <1>4
  <2>3. PICK f \in InAir, g \in InAir :
           \E k \in 2 .. Len(f) + 3 : Stream = Rest(f, k) \o Framed(g)
    BY <1>9 DEF CutThenWhole
  <2> QED BY <1>1, <1>4, <1>8, <2>2, <2>3
<1>10. CASE Cut
  <2>2. PICK f \in InAir : \E k \in 2 .. Len(f) + 3 : Stream = Rest(f, k)
    BY <1>10 DEF Cut
  <2>3. PICK k \in 2 .. Len(f) + 3 : Stream = Rest(f, k)
    BY <2>2
  <2> DEFINE t == Framed(f)
             s == Stream \o t
  <2>4. t \in Bytes
    <3>1. f \in Frames \cup Noise
      BY DEF InAir
    <3> QED BY <3>1, FramedIs
  <2>5. Len(t) \in Nat
    BY <2>4, OneByte
  <2> HIDE DEF t
  <2>6. /\ s \in Bytes /\ Len(s) = Len(Stream) + Len(t)
        /\ \A n \in 1 .. Len(Stream) + Len(t) :
              s[n] = IF n <= Len(Stream) THEN Stream[n] ELSE t[n - Len(Stream)]
    BY <1>4, <2>4, Joined
  <2>7. s = Rest(f, k) \o Framed(f)
    BY <2>3 DEF t
  <2> HIDE DEF s
  <2>8. Len(q) + 3 <= Len(s) /\ Len(q) + 3 <= Len(Stream)
    BY <1>1, <1>4, <2>5, <2>6
  <2>9. \A n \in 1 .. Len(Stream) : s[n] = Stream[n]
    <3> TAKE n \in 1 .. Len(Stream)
    <3>1. n \in 1 .. Len(Stream) + Len(t) /\ n <= Len(Stream)
      BY <1>4, <2>5
    <3> QED BY <2>6, <3>1
  <2>10. s[1] = Len(q)
    <3>1. 1 \in 1 .. Len(Stream)
      BY <1>4, <2>8
    <3> QED BY <1>1, <2>9, <3>1
  <2>11. \A n \in 1 .. Len(q) : s[n + 1] = q[n]
    <3> TAKE n \in 1 .. Len(q)
    <3>1. n + 1 \in 1 .. Len(Stream)
      BY <1>4, <2>8
    <3> QED BY <1>1, <2>9, <3>1
  <2> QED BY <1>8, <2>6, <2>7, <2>8, <2>10, <2>11
<1> QED BY <1>5, <1>6, <1>7, <1>9, <1>10 DEF InOrder, Following
-----------------------------------------------------------------------------
(* The refinement                                                          *)
\* What went over the air is the packet of the call.
LEMMA OutgoingIs ==
    ASSUME AskInv, IdleInv, TxInv, Transmitted, call = "send"
    PROVE  ~done /\ Outgoing = packet
<1>1. mode = TX /\ txfifo # <<>>
  BY DEF Transmitted
<1>2. Program /\ TxFifo /\ TxEnds /\ Fills
  BY DEF IdleInv, AskInv, TxInv
<1>3. pc \in SendPoints
  BY <1>2 DEF Program, GetPoints, SetUpPoints
<1>4. pc \in {"enter", "leave"}
  <2>1. pc \notin {"tx count", "idle"}
    BY <1>1, <1>2 DEF TxFifo, EmptyPoints
  <2>2. pc \notin {"fill", "filled"}
    BY <1>1, <1>2 DEF Fills, IDLE, TX
  <2> QED BY <1>3, <2>1, <2>2 DEF SendPoints
<1>5. ~done /\ Filling(Len(packet) + 1)
  BY <1>1, <1>2, <1>4 DEF TxFifo
<1>6. packet \in Bytes /\ Len(packet) \in Nat /\ txfifo \in Bytes
  BY <1>2, <1>3, FrameIs, OneByte DEF Program, TxFifo
<1>7. txfifo[1] = Len(packet) /\ Len(packet) + 1 <= Len(txfifo)
  BY <1>5, <1>6 DEF Filling
<1>8. \A n \in 1 .. Len(packet) : txfifo[n + 1] = packet[n]
  <2> TAKE n \in 1 .. Len(packet)
  <2>1. n + 1 \in 2 .. Len(packet) + 1 /\ (n + 1) - 1 = n
    BY <1>6
  <2> QED BY <1>5, <2>1 DEF Filling
<1>9. SubSeq(txfifo, 2, txfifo[1] + 1) = packet
  BY <1>6, <1>7, <1>8, Found
<1> QED BY <1>5, <1>9 DEF Outgoing

LEMMA PortInit == Init => Port!Init
BY DEF Init, Port!Init, Port!NoPacket

\* Every step of the driver and of the radio is a step of the port, or none.
LEMMA PortStep ==
    ASSUME RadioInv, Coming, Coming', Begun, InOrder, [Next]_vars
    PROVE  [Port!Next]_(Port!vars)
<1>1. IdleInv /\ AskInv /\ RxInv /\ TxInv /\ Program /\ TxEnds
  BY DEF RadioInv, AskInv, TxInv
<1>2. ASSUME UNCHANGED portVars
      PROVE  [Port!Next]_(Port!vars)
  BY <1>2 DEF portVars, Port!vars
<1>3. CASE Configuring
  BY <1>2, <1>3 DEF Configuring
<1>4. CASE Sending
  <2>1. CASE SendReturns
    <3>1. pc = "leave" /\ ~signalled /\ StatusNow # TX
      BY <2>1 DEF SendReturns, Leave, Go, Returned
    <3>2. call = "send" /\ done
      BY <1>1, <3>1 DEF Program, SendPoints, TxEnds
    <3>3. Port!EndSend
      BY <2>1, <3>2 DEF SendReturns, Port!EndSend, Port!NoPacket
    <3> QED BY <3>3 DEF Port!Next
  <2>2. CASE ~SendReturns
    <3>1. UNCHANGED portVars
      BY <1>4, <2>2 DEF Sending, GoIdle, AwaitIdle, WriteLength, WriteByte, Filled,
         GoTx, AwaitTx, Entered, AwaitEnd, Poll, Then
    <3> QED BY <1>2, <3>1
  <2> QED BY <2>1, <2>2
<1>5. CASE Getting
  <2>1. CASE GetReturns
    <3> DEFINE q == SubSeq(buffer, 1, pkt_len)
    <3>1. pc = "read" /\ ~signalled /\ Len(buffer) = pkt_len + 1
      <4>1. pkt_len \in 0 .. 255
        BY <1>1 DEF RxInv
      <4> QED BY <2>1, <4>1 DEF GetReturns, Leave, Go, Returned, PKT_OVERHEAD
    <3>2. call = "get"
      BY <1>1, <3>1 DEF Program, GetPoints
    <3>3. q \in Frames => q \in heard \/ \E f, g \in begun : q \in OutOfStep(f, g)
      BY <1>1, <3>1, GetHeard
    <3>4. EndGet(IF q \in Frames THEN <<"ok", q>> ELSE <<"checksum", <<>>>>)
      BY <2>1 DEF GetReturns
    <3> HIDE DEF q
    <3>5. Port!EndGet
      BY <3>2, <3>3, <3>4 DEF EndGet, Port!EndGet, Port!NoPacket
    <3> QED BY <3>5 DEF Port!Next
  <2>2. CASE GetTimesOut
    <3>1. pc = "give up" /\ EndGet(<<"timeout", <<>>>>)
      BY <2>2 DEF GetTimesOut, Leave, Go
    <3>2. call = "get"
      BY <1>1, <3>1 DEF Program, GetPoints
    <3>3. Port!EndGet
      BY <3>1, <3>2 DEF EndGet, Port!EndGet, Port!NoPacket
    <3> QED BY <3>3 DEF Port!Next
  <2>3. CASE ~GetReturns /\ ~GetTimesOut
    <3>1. UNCHANGED portVars
      BY <1>5, <2>3 DEF Getting, GoRx, AwaitRx, Listen, Nothing, ReadLength, GotLength,
         Incomplete, ReadFirst, ReadOn, Look, Poll, Then
    <3> QED BY <1>2, <3>1
  <2> QED BY <2>1, <2>2, <2>3
<1>6. CASE Calling
  <2>1. CASE StartSend
    <3>1. call = "none"
      BY <1>1, <2>1 DEF StartSend, Program, SendPoints, GetPoints
    <3>2. packet' \in Frames /\ Port!BeginSend(packet')
      BY <2>1, <3>1 DEF StartSend, Port!BeginSend
    <3> QED BY <3>2 DEF Port!Next
  <2>2. CASE StartGet
    <3>1. call = "none"
      BY <1>1, <2>2 DEF StartGet, Program, SendPoints, GetPoints
    <3>3. begun' \in {{}} \cup {{f} : f \in Frames \cup Noise}
      BY <2>2 DEF StartGet, UnderWay, Coming
    <3>2. Port!BeginGet
      BY <2>2, <3>1, <3>3 DEF StartGet, Port!BeginGet
    <3> QED BY <3>2 DEF Port!Next
  <2>3. CASE ChangeRate
    BY <1>2, <2>3 DEF ChangeRate
  <2> QED BY <1>6, <2>1, <2>2, <2>3 DEF Calling, Call
<1>7. CASE ChipMoves
  <2>1. CASE Settled /\ UNCHANGED portVars
    BY <1>2, <2>1
  <2>4. CASE /\ Arrive
             /\ begun' = IF call = "get" THEN begun \cup {frame'} ELSE begun
             /\ UNCHANGED <<call, packet, aired, done, heard, result>>
    <3>1. CASE call = "get"
      <4>1. frame' \in Frames \cup Noise
        BY <2>4 DEF Arrive
      <4>2. Port!Begin(frame')
        BY <2>4, <3>1 DEF Port!Begin
      <4> QED BY <4>1, <4>2 DEF Port!Next
    <3>2. CASE call # "get"
      BY <1>2, <2>4, <3>2 DEF portVars
    <3> QED BY <3>1, <3>2
  <2>2. CASE /\ Receive
             /\ heard' = IF LastByte /\ call = "get" /\ frame \in Frames
                         THEN heard \cup {frame} ELSE heard
             /\ UNCHANGED <<call, packet, aired, done, begun, result>>
    <3>1. CASE LastByte /\ call = "get" /\ frame \in Frames
      <4>2. frame \in begun
        BY <2>2, <3>1 DEF Receive, Begun
      <4>1. Port!Hear(frame)
        BY <2>2, <3>1, <4>2 DEF Port!Hear
      <4> QED BY <3>1, <4>1 DEF Port!Next
    <3>2. CASE ~(LastByte /\ call = "get" /\ frame \in Frames)
      BY <1>2, <2>2, <3>2 DEF portVars
    <3> QED BY <3>1, <3>2
  <2>3. CASE /\ Transmitted
             /\ IF call = "send" THEN aired' = {Outgoing} /\ done' = TRUE
                ELSE UNCHANGED <<aired, done>>
             /\ UNCHANGED <<call, packet, begun, heard, result>>
    <3>1. CASE call = "send"
      <4>1. ~done /\ Outgoing = packet
        BY <1>1, <2>3, <3>1, OutgoingIs
      <4>2. Port!Transmit
        BY <2>3, <3>1, <4>1 DEF Port!Transmit
      <4> QED BY <4>2 DEF Port!Next
    <3>2. CASE call # "send"
      BY <1>2, <2>3, <3>2 DEF portVars
    <3> QED BY <3>1, <3>2
  <2> QED BY <1>7, <2>1, <2>2, <2>3, <2>4 DEF ChipMoves
<1>8. CASE Restart
  <2>1. Port!Restart
    BY <1>8 DEF Restart, Port!Restart, Port!NoPacket
  <2> QED BY <2>1 DEF Port!Next
<1>9. CASE Pru \/ Tick \/ UNCHANGED vars
  BY <1>2, <1>9 DEF Pru, Tick, vars
<1> QED BY <1>3, <1>4, <1>5, <1>6, <1>7, <1>8, <1>9 DEF Next, Driver

\* Everything that is invariant about the reception of whole packets
FollowInv == RadioInv /\ Formatted /\ Coming /\ Begun /\ InOrder

LEMMA FollowInit == Init => FollowInv
BY RadioInit, FormattedInit, InOrderInit, ComingInit, BegunInit DEF FollowInv

LEMMA FollowStep == FollowInv /\ [Next]_vars => FollowInv'
<1> SUFFICES ASSUME FollowInv, [Next]_vars PROVE FollowInv'
  OBVIOUS
<1>1. RadioInv /\ Formatted /\ Coming /\ Begun /\ InOrder /\ RadioInv'
  BY RadioStep DEF FollowInv
<1>2. IdleInv /\ AskInv /\ RegsInv /\ RxInv /\ RegsInv' /\ AskInv'
  BY <1>1 DEF RadioInv
<1>3. Formatted' /\ Coming' /\ Begun'
  BY <1>1, <1>2, FormattedStep, ComingStep, BegunStep
<1>4. InOrder'
  BY <1>1, <1>2, <1>3, InOrderStep
<1> QED BY <1>1, <1>3, <1>4 DEF FollowInv

\* The driver keeps the promise of the port, whatever the packets and the checksum are:
\* a send returns after its packet, and no other, was on the air; a get returns what was
\* received whole during the call, or what stands out of step in frames that were in
\* the air during the call, whatever the flush has cut off and whatever an earlier call
\* or a killed program has left in the FIFO (cc1200_rate.c:171-256).
THEOREM PortKept == Spec => ImplementsPort
<1>1. Init => Port!Init
  BY PortInit
<1>2. FollowInv /\ FollowInv' /\ [Next]_vars => [Port!Next]_(Port!vars)
  BY PortStep DEF FollowInv
<1> QED BY <1>1, <1>2, FollowInit, FollowStep, PTL DEF Spec, ImplementsPort, Port!Spec
=============================================================================
