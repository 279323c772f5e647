-------------------------------- MODULE Chip --------------------------------
(***************************************************************************)
(* The CC1200 as SPIv1.h and cc1200_rate.c rely on it: a state machine     *)
(* moved by command strobes, a FIFO per direction, registers that say what *)
(* happens at the end of a packet.  External: the chip is not part of the  *)
(* program.  What it hears is chosen freely, at most MaxFrames frames.     *)
(***************************************************************************)
EXTENDS Registers

CONSTANTS
    Frames,     \* payloads that packet_deserialize accepts
    Noise,      \* payloads that it refuses
    MaxFrames   \* frames that reach the antenna (bound)

ASSUME ChipAssumption ==
    /\ Frames # {} /\ Frames \cap Noise = {}
    /\ \A f \in Frames \cup Noise : f \in Seq(0 .. 255) /\ Len(f) <= 50
    /\ MaxFrames \in Nat

\* CC1200_STATES; CALLIBRATE is not told from SETTLING
IDLE == 0
RX == 1
TX == 2
SETTLING == 5
RX_FIFO_ERROR == 6

\* Command strobes
SRES == \h30
SRX == \h34
STX == \h35
SIDLE == \h36
SFRX == \h3A
SNOP == \h3D

\* The registers on which the model depends; writes to others are ignored
Watched == { SYMBOL_RATE2, SYMBOL_RATE1, SYMBOL_RATE0, PKT_CFG2, PKT_CFG1,
             PKT_CFG0, RFEND_CFG1, RFEND_CFG0, PKT_LEN }

VARIABLES
    mode,       \* CC1200_STATES
    goal,       \* the state that SETTLING leads to
    regs,       \* the watched registers
    rxfifo,     \* received bytes
    txfifo,     \* bytes to transmit
    incoming,   \* the bytes of the frame under way that are still to come
    frame,      \* ghost: the payload of the frame that has arrived last
    arrivals    \* ghost: frames that have reached the antenna

chipVars == <<mode, goal, regs, rxfifo, txfifo, incoming, frame, arrivals>>

\* A chip that was powered up by whatever ran before
ChipInit ==
    /\ mode = IDLE /\ goal = IDLE
    /\ regs = [a \in Watched |-> 0]
    /\ rxfifo = <<>> /\ txfifo = <<>>
    /\ incoming = <<>> /\ frame = <<>> /\ arrivals = 0

VariableLength == Field(regs[PKT_CFG0], 5, 2) = 1
FifoMode == Field(regs[PKT_CFG2], 0, 2) = 0
AppendStatus == Field(regs[PKT_CFG1], 0, 1) = 1

\* RFEND_CFG: the state after a packet, 0 IDLE and 3 RX or TX again
StateAfter(cfg, again) == IF Field(cfg, 4, 2) = 0 THEN IDLE ELSE again
-----------------------------------------------------------------------------
(* What a SPI transaction does *)

Settle(s) == mode' = SETTLING /\ goal' = s

Strobe(cmd) ==
    \/ /\ cmd = SRES
       /\ mode' = IDLE /\ goal' = IDLE
       /\ regs' = [a \in Watched |-> 0]
       /\ rxfifo' = <<>> /\ txfifo' = <<>> /\ incoming' = <<>>
       /\ frame' = <<>> /\ UNCHANGED arrivals
    \/ /\ cmd = SIDLE
       /\ IF mode = IDLE THEN UNCHANGED <<mode, goal>> ELSE Settle(IDLE)
       /\ incoming' = <<>>
       /\ UNCHANGED <<regs, rxfifo, txfifo, frame, arrivals>>
    \/ /\ cmd = SRX
       /\ IF mode = RX THEN UNCHANGED <<mode, goal>> ELSE Settle(RX)
       /\ UNCHANGED <<regs, rxfifo, txfifo, incoming, frame, arrivals>>
    \/ /\ cmd = STX
       /\ IF mode = TX THEN UNCHANGED <<mode, goal>> ELSE Settle(TX)
       /\ incoming' = <<>>
       /\ UNCHANGED <<regs, rxfifo, txfifo, frame, arrivals>>
    \/ /\ cmd = SFRX
       /\ rxfifo' = <<>>
       /\ UNCHANGED <<mode, goal, regs, txfifo, incoming, frame, arrivals>>
    \/ cmd = SNOP /\ UNCHANGED chipVars

WriteRegister(adr, val) ==
    /\ regs' = IF adr \in Watched THEN [regs EXCEPT ![adr] = val] ELSE regs
    /\ UNCHANGED <<mode, goal, rxfifo, txfifo, incoming, frame, arrivals>>

WriteFifo(val) ==
    /\ txfifo' = Append(txfifo, val)
    /\ UNCHANGED <<mode, goal, regs, rxfifo, incoming, frame, arrivals>>

\* A register read back; the counters of the FIFOs are registers too
Register(adr) ==
    CASE adr = NUM_RXBYTES -> Len(rxfifo)
      [] adr = NUM_TXBYTES -> Len(txfifo)
      [] adr \in Watched -> regs[adr]
      [] OTHER -> 0

\* The byte a read of the FIFO returns; a read too many is an error
FifoByte == IF rxfifo = <<>> THEN 0 ELSE Head(rxfifo)

ReadFifo ==
    /\ IF rxfifo = <<>> THEN mode' = RX_FIFO_ERROR /\ UNCHANGED rxfifo
                        ELSE rxfifo' = Tail(rxfifo) /\ UNCHANGED mode
    /\ UNCHANGED <<goal, regs, txfifo, incoming, frame, arrivals>>
-----------------------------------------------------------------------------
(* What the chip does by itself *)

Settled ==
    /\ mode = SETTLING
    /\ mode' = goal /\ goal' = IDLE
    /\ UNCHANGED <<regs, rxfifo, txfifo, incoming, frame, arrivals>>

\* The two status bytes the radio appends: RSSI, and LQI with the CRC bit
StatusBytes == IF AppendStatus THEN <<200, 255>> ELSE <<>>

\* The preamble and the sync word of a frame have been found
Arrive ==
    /\ mode = RX /\ incoming = <<>> /\ arrivals < MaxFrames
    /\ VariableLength /\ FifoMode
    /\ \E f \in Frames \cup Noise :
          /\ Len(f) <= regs[PKT_LEN]
          /\ incoming' = <<Len(f)>> \o f \o StatusBytes
          /\ frame' = f
    /\ arrivals' = arrivals + 1
    /\ UNCHANGED <<mode, goal, regs, rxfifo, txfifo>>

LastByte == Len(incoming) = 1

\* One byte; the last one ends the packet
Receive ==
    /\ mode = RX /\ incoming # <<>>
    /\ rxfifo' = Append(rxfifo, Head(incoming))
    /\ incoming' = Tail(incoming)
    /\ mode' = IF LastByte THEN StateAfter(regs[RFEND_CFG1], RX) ELSE RX
    /\ UNCHANGED <<goal, regs, txfifo, frame, arrivals>>

\* The packet in the TX FIFO, without its length, and what is behind it
Outgoing == SubSeq(txfifo, 2, txfifo[1] + 1)

\* The transmission is over
Transmitted ==
    /\ mode = TX /\ txfifo # <<>> /\ Len(txfifo) > txfifo[1]
    /\ txfifo' = SubSeq(txfifo, txfifo[1] + 2, Len(txfifo))
    /\ mode' = StateAfter(regs[RFEND_CFG0], TX)
    /\ UNCHANGED <<goal, regs, rxfifo, incoming, frame, arrivals>>
=============================================================================
