---------------------------- MODULE RadioDriver -----------------------------
(***************************************************************************)
(* cc1200_rate.c over the chip: cc1200_init, cc1200_change_rate,           *)
(* cc1200_send_packet and cc1200_get_packet as one sequential program that *)
(* issues SPI calls, and the chip that goes on while the program computes. *)
(* The points of the program (pc) are named for the call that is awaited.  *)
(***************************************************************************)
EXTENDS Spi, FiniteSetsExt

CONSTANTS
    UserRates,      \* rates the controllers select (indices from 1)
    MaxRestarts     \* times the program is killed and started again (bound)

ASSUME DriverAssumption ==
    /\ UserRates \subseteq DOMAIN MINSTREL_RATES
    /\ MaxRestarts \in Nat

VARIABLES
    pc,
    i,          \* loop counter: registers or bytes written
    rate,       \* ghost: index of the rate selected last
    pkt_len,    \* the length byte read from the FIFO
    buffer,     \* the bytes read after it
    late,       \* TIMEOUT milliseconds have passed since timeout_started
    restarts,
    call, packet, aired, done, begun, heard, result     \* ghosts, see RadioPort

localVars == <<i, pkt_len, buffer>>
portVars == <<call, packet, aired, done, begun, heard, result>>
vars == <<chipVars, spiVars, pc, localVars, rate, late, restarts, portVars>>

Init ==
    /\ ChipInit /\ SpiInit
    /\ pc = "boot" /\ i = 0 /\ pkt_len = 0 /\ buffer = <<>>
    /\ rate = 0 /\ late = FALSE /\ restarts = 0
    /\ call = "none" /\ packet = <<>> /\ aired = {} /\ done = FALSE
    /\ begun = {} /\ heard = {} /\ result = <<"none", <<>>>>

\* The awaited call returns and the program goes on to the next one
Go(from, to) == pc = from /\ Returned /\ pc' = to

\* Nothing is awaited any more: the function returns
Leave(from) == Go(from, "ready") /\ UNCHANGED <<sharedMem, signalled>>
-----------------------------------------------------------------------------
(* cc1200_init *)

\* spi_init, then the reset
Boot ==
    /\ pc = "boot" /\ pc' = "reset"
    /\ cc1200_cmd(SRES)
    /\ UNCHANGED <<status_CC1200, localVars, rate>>

\* spi_init fails and the program exits
BootFails ==
    /\ pc = "boot" /\ pc' = "exit"
    /\ UNCHANGED <<spiVars, localVars, rate>>

Reset ==
    /\ Go("reset", "snop")
    /\ cc1200_cmd(SNOP)
    /\ UNCHANGED <<localVars, rate>>

Configure ==
    /\ pc \in {"snop", "config"} /\ Go(pc, "config")
    /\ i < Len(InitWrites) /\ i' = i + 1
    /\ cc1200_reg_write(InitWrites[i'].adr, InitWrites[i'].val)
    /\ UNCHANGED <<pkt_len, buffer, rate>>

\* Read PKT_LEN back, to no effect
Control ==
    /\ Go("config", "control")
    /\ i = Len(InitWrites) /\ i' = 0
    /\ cc1200_reg_read(PKT_LEN)
    /\ UNCHANGED <<pkt_len, buffer, rate>>

\* The rate of the table is that of index 2, 1200 symbols per second
InitEnds ==
    /\ Leave("control")
    /\ rate' = 2
    /\ UNCHANGED localVars

(* cc1200_change_rate *)

ChangeRate ==
    /\ pc = "ready" /\ pc' = "rate"
    /\ rate' \in UserRates
    /\ i' = 1
    /\ cc1200_reg_write(SYMBOL_RATE2, RateWrites(MINSTREL_RATES[rate'])[1].val)
    /\ UNCHANGED <<status_CC1200, pkt_len, buffer, late, portVars>>

ChangeRateOn ==
    /\ Go("rate", "rate")
    /\ i < 3 /\ i' = i + 1
    /\ LET w == RateWrites(MINSTREL_RATES[rate])[i']
       IN  cc1200_reg_write(w.adr, w.val)
    /\ UNCHANGED <<pkt_len, buffer, rate>>

RateChanged ==
    /\ Leave("rate")
    /\ i = 3 /\ i' = 0
    /\ UNCHANGED <<pkt_len, buffer, rate>>

Configuring ==
    /\ \/ Boot \/ BootFails \/ Reset \/ Configure \/ Control \/ InitEnds
       \/ ChangeRateOn \/ RateChanged
    /\ UNCHANGED <<late, portVars>>
-----------------------------------------------------------------------------
(* cc1200_send_packet *)

\* A call between two others, with nothing else to note
Then(from, to) == Go(from, to) /\ UNCHANGED <<localVars, portVars>>

\* One more round of a loop that polls the status
Poll(at) == Then(at, at) /\ cc1200_cmd(SNOP)

\* packet_serialize, then the first look at the TX FIFO
StartSend ==
    /\ pc = "ready" /\ pc' = "tx count"
    /\ cc1200_reg_read(NUM_TXBYTES)
    /\ call' = "send" /\ done' = FALSE
    /\ packet' \in Frames
    /\ UNCHANGED <<status_CC1200, localVars, aired, begun, heard, result>>

GoIdle == Then("tx count", "idle") /\ cc1200_cmd(SIDLE)

AwaitIdle == StatusNow # IDLE /\ Poll("idle")

\* Mutant: the status is not looked at
WriteLength_AtOnce ==
    Then("idle", "fill") /\ cc1200_reg_write(REG_FIFO, Len(packet))

WriteLength ==
    /\ StatusNow = IDLE
    /\ Then("idle", "fill") /\ cc1200_reg_write(REG_FIFO, Len(packet))

WriteByte ==
    /\ Go("fill", "fill")
    /\ i < Len(packet) /\ i' = i + 1
    /\ cc1200_reg_write(REG_FIFO, packet[i'])
    /\ UNCHANGED <<pkt_len, buffer, portVars>>

\* The second look at the TX FIFO
Filled ==
    /\ Go("fill", "filled")
    /\ i = Len(packet) /\ i' = 0
    /\ cc1200_reg_read(NUM_TXBYTES)
    /\ UNCHANGED <<pkt_len, buffer, portVars>>

GoTx == Then("filled", "enter") /\ cc1200_cmd(STX)

AwaitTx == StatusNow # TX /\ Poll("enter")

\* TX is entered, and the second loop polls for the first time
Entered == StatusNow = TX /\ Then("enter", "leave") /\ cc1200_cmd(SNOP)

AwaitEnd == StatusNow = TX /\ Poll("leave")

\* TX is left; the result is always cc1200_status_send_ok
SendReturns ==
    /\ Leave("leave") /\ StatusNow # TX
    /\ call' = "none" /\ packet' = <<>> /\ done' = FALSE
    /\ result' = <<"sent", <<>>>>
    /\ UNCHANGED <<localVars, aired, begun, heard>>

Sending ==
    /\ \/ GoIdle \/ AwaitIdle \/ WriteLength \/ WriteByte \/ Filled
       \/ GoTx \/ AwaitTx \/ Entered \/ AwaitEnd \/ SendReturns
    /\ UNCHANGED <<rate, late>>
-----------------------------------------------------------------------------
(* cc1200_get_packet.  The clock is read at the head of each round and     *)
(* compared at the head of the next; `late' at the comparison comes to the *)
(* same, as time may pass at any moment.                                   *)

\* The frame that is just coming in, in a set
UnderWay == IF incoming = <<>> THEN {} ELSE {frame}

\* Mutant: the RX FIFO is not flushed
StartGet_NoFlush ==
    /\ pc = "ready" /\ pc' = "flush"
    /\ cc1200_cmd(SNOP)
    /\ call' = "get" /\ begun' = UnderWay /\ heard' = {} /\ late' = FALSE
    /\ UNCHANGED <<status_CC1200, localVars, packet, aired, done, result>>

StartGet ==
    /\ pc = "ready" /\ pc' = "flush"
    /\ cc1200_cmd(SFRX)
    /\ call' = "get" /\ begun' = UnderWay /\ heard' = {} /\ late' = FALSE
    /\ UNCHANGED <<status_CC1200, localVars, packet, aired, done, result>>

GoRx == Then("flush", "rx") /\ cc1200_cmd(SRX)

AwaitRx == StatusNow # RX /\ Poll("rx")

\* Another look at the RX FIFO, or none because the time is over
Look(from, to) ==
    /\ IF late THEN Go(from, "give up") /\ cc1200_cmd(SFRX)
       ELSE Go(from, to) /\ cc1200_reg_read(NUM_RXBYTES)
    /\ UNCHANGED portVars

Listen == StatusNow = RX /\ Look("rx", "count") /\ UNCHANGED localVars

Nothing ==
    /\ ValueOf(NUM_RXBYTES) = 0
    /\ Look("count", "count")
    /\ UNCHANGED localVars

\* Something is in the FIFO
ReadLength ==
    /\ ValueOf(NUM_RXBYTES) > 0
    /\ Then("count", "length") /\ cc1200_reg_read(REG_FIFO)

GotLength ==
    /\ Look("length", "rest")
    /\ pkt_len' = ValueOf(REG_FIFO)
    /\ UNCHANGED <<i, buffer>>

\* Mutant: the two status bytes are not waited for
Complete_NoOverhead == ValueOf(NUM_RXBYTES) >= pkt_len

Complete == ValueOf(NUM_RXBYTES) >= pkt_len + PKT_OVERHEAD

\* Mutant: the time is only looked at while the FIFO is empty
Incomplete_NoLimit ==
    ~Complete /\ Then("rest", "rest") /\ cc1200_reg_read(NUM_RXBYTES)

Incomplete == ~Complete /\ Look("rest", "rest") /\ UNCHANGED localVars

\* The whole packet and the two bytes after it are read one by one
ReadFirst == Complete /\ Then("rest", "read") /\ cc1200_reg_read(REG_FIFO)

ReadOn ==
    /\ Go("read", "read")
    /\ Len(buffer) < pkt_len + PKT_OVERHEAD - 1
    /\ buffer' = Append(buffer, ValueOf(REG_FIFO))
    /\ cc1200_reg_read(REG_FIFO)
    /\ UNCHANGED <<i, pkt_len, portVars>>

EndGet(outcome) ==
    /\ call' = "none" /\ begun' = {} /\ heard' = {} /\ result' = outcome
    /\ pkt_len' = 0 /\ buffer' = <<>>
    /\ UNCHANGED <<i, packet, aired, done>>

\* packet_deserialize accepts the payload, or returns NULL
GetReturns ==
    /\ Leave("read")
    /\ Len(buffer) = pkt_len + PKT_OVERHEAD - 1
    /\ LET payload == SubSeq(buffer, 1, pkt_len)
       IN  EndGet(IF payload \in Frames THEN <<"ok", payload>>
                                        ELSE <<"checksum", <<>>>>)

GetTimesOut == Leave("give up") /\ EndGet(<<"timeout", <<>>>>)

Getting ==
    /\ \/ GoRx \/ AwaitRx \/ Listen \/ Nothing \/ ReadLength \/ GotLength
       \/ Incomplete \/ ReadFirst \/ ReadOn \/ GetReturns \/ GetTimesOut
    /\ UNCHANGED <<rate, late>>
-----------------------------------------------------------------------------
\* The next call of the controllers
Call ==
    \/ StartSend /\ UNCHANGED <<rate, late>>
    \/ StartGet /\ UNCHANGED rate
    \/ ChangeRate

\* The program, which the chip does not wait for
Driver ==
    /\ Configuring \/ Sending \/ Getting
    /\ UNCHANGED <<chipVars, restarts>>

Calling == Call /\ UNCHANGED <<chipVars, restarts>>

\* TIMEOUT milliseconds pass during a get
Tick ==
    /\ call = "get" /\ ~late /\ late' = TRUE
    /\ UNCHANGED <<chipVars, spiVars, pc, localVars, rate, restarts, portVars>>

(* The PRU and the chip *)

Pru ==
    /\ Serve
    /\ UNCHANGED <<pc, localVars, rate, late, restarts, portVars>>

ChipMoves ==
    /\ \/ Settled /\ UNCHANGED portVars
       \/ /\ Arrive
          /\ begun' = IF call = "get" THEN begun \cup {frame'} ELSE begun
          /\ UNCHANGED <<call, packet, aired, done, heard, result>>
       \/ /\ Receive
          /\ heard' = IF LastByte /\ call = "get" /\ frame \in Frames
                      THEN heard \cup {frame} ELSE heard
          /\ UNCHANGED <<call, packet, aired, done, begun, result>>
       \/ /\ Transmitted
          /\ IF call = "send" THEN aired' = {Outgoing} /\ done' = TRUE
             ELSE UNCHANGED <<aired, done>>
          /\ UNCHANGED <<call, packet, begun, heard, result>>
    /\ UNCHANGED <<spiVars, pc, localVars, rate, late, restarts>>

\* The program is killed and started again; chip and mailbox stay as they are
Restart ==
    /\ pc # "boot" /\ restarts < MaxRestarts
    /\ restarts' = restarts + 1
    /\ pc' = "boot" /\ signalled' = FALSE /\ status_CC1200' = 255
    /\ i' = 0 /\ pkt_len' = 0 /\ buffer' = <<>>
    /\ rate' = 0 /\ late' = FALSE
    /\ call' = "none" /\ packet' = <<>> /\ done' = FALSE
    /\ begun' = {} /\ heard' = {} /\ result' = <<"none", <<>>>>
    /\ UNCHANGED <<chipVars, sharedMem, aired>>

Next == Driver \/ Calling \/ Tick \/ Pru \/ ChipMoves \/ Restart

Spec == Init /\ [][Next]_vars

(***************************************************************************)
(* Fairness.  The program never blocks but in the wait for the PRU, which  *)
(* serves what it is given; time passes; the chip settles and ends a       *)
(* packet it has begun.  No frame has to arrive, no call has to be made.   *)
(***************************************************************************)
Fairness ==
    /\ WF_vars(Driver) /\ WF_vars(Pru) /\ WF_vars(Tick)
    /\ WF_vars(ChipMoves /\ arrivals' = arrivals)

FairSpec == Spec /\ Fairness
-----------------------------------------------------------------------------
(* Properties *)

\* The variables of the program and the mailbox keep their types.
TypeOK ==
    /\ mode \in {IDLE, RX, TX, SETTLING, RX_FIFO_ERROR} /\ goal \in {IDLE, RX, TX}
    /\ regs \in [Watched -> 0 .. 255]
    /\ rxfifo \in Seq(0 .. 255) /\ txfifo \in Seq(0 .. 255)
    /\ sharedMem \in [Words -> 0 .. 255] /\ signalled \in BOOLEAN
    /\ i \in 0 .. Len(InitWrites) /\ pkt_len \in 0 .. 255
    /\ buffer \in Seq(0 .. 255)

\* A frame in the RX FIFO, and what is left of it from byte k on
Framed(f) == <<Len(f)>> \o f \o <<200, 255>>
Rest(f, k) == SubSeq(Framed(f), k, Len(f) + 3)

\* The packets on which a reader may come who begins inside frame f and takes what he
\* finds there for a length, g being the frame that comes in next
OutOfStep(f, g) ==
    {p \in Frames : \E k \in 2 .. Len(f) + 3 :
        LET s == Rest(f, k) \o Framed(g)
        IN  s[1] + 3 <= Len(s) /\ SubSeq(s, 2, s[1] + 1) = p}

\* The refinement: with a status that is always one transaction old, a chip that
\* changes its mode between two polls, frames that end before or during the
\* flush, and restarts in the middle of anything, the driver keeps the promise
\* of RadioPort: nothing of an earlier call is returned, only what was heard whole, or
\* what stands out of step in the frames that were in the air.  The controllers are
\* modelled on a port where the last does not happen (OutOfStep is empty).
Port == INSTANCE RadioPort WITH
            Frames <- Frames, Noise <- Noise, OutOfStep <- OutOfStep,
            call <- call, packet <- packet, aired <- aired, done <- done,
            begun <- begun, heard <- heard, result <- result
ImplementsPort == Port!Spec

\* The TX FIFO is filled while the chip is idle, although the status that says
\* so was clocked out before the chip saw the strobe: an earlier write would
\* meet a chip that is still leaving RX or TX.
FilledInIdle == pc \in {"fill", "filled"} => mode = IDLE

\* Bytes of the longest packet in the RX FIFO
Longest == Max({1 + Len(f) + PKT_OVERHEAD : f \in Frames \cup Noise})

\* Whatever was received, flushed, cut off or left unread, the driver never reads
\* a byte that is not there, and the RX FIFO never holds more than two packets:
\* one whose reception goes on while cc1200_get_packet flushes the FIFO, and the
\* one it waits for.  Configured says that there is room for two; a FIFO that
\* under- or overflows is in a state that no loop waits for.
NoFifoError ==
    /\ mode # RX_FIFO_ERROR
    /\ Len(rxfifo) + Len(incoming) <= 2 * Longest

\* The exponent and the 20-bit mantissa in the three registers spell that rate,
\* rounded down
Spells(r2, r1, r0, bauds) ==
    LET value(m) == (2^20 + m) * 2^Field(r2, 4, 4)
        mantissa == Field(r2, 0, 4) * 2^16 + r1 * 2^8 + r0
    IN  value(mantissa) <= Scaled(bauds) /\ Scaled(bauds) < value(mantissa + 1)

\* Between two calls the radio has the packet format the loops count on, with
\* the other fields of the table untouched, and the rate selected last to the
\* precision of the mantissa, for the table as well as for every index.
Configured ==
    pc = "ready" =>
        /\ VariableLength /\ FifoMode
        /\ Len(StatusBytes) = PKT_OVERHEAD
        /\ \A p \in Frames : Len(p) <= regs[PKT_LEN]
        /\ 2 * (1 + regs[PKT_LEN] + PKT_OVERHEAD) <= 128
        /\ Field(regs[PKT_CFG0], 0, 5) = Field(RegSettings(PKT_CFG0).val, 0, 5)
        /\ Field(regs[PKT_CFG2], 2, 6) = Field(RegSettings(PKT_CFG2).val, 2, 6)
        /\ Spells(regs[SYMBOL_RATE2], regs[SYMBOL_RATE1], regs[SYMBOL_RATE0],
                  MINSTREL_RATES[rate])

\* The program waits for state s, which no status has shown before the chip left it
Unnoticed(at, s) ==
    pc = at /\ mode = IDLE /\ IF signalled THEN sharedMem[0] = SNOP ELSE StatusNow # s

\* Every call ends, unless a packet began and ended between two polls of one of
\* the loops that wait for RX (line 213) and TX (line 196): these two are all
\* there is to fear, no other wait of the driver is without an end.
CallsReturn ==
    call # "none" ~> call = "none" \/ Unnoticed("rx", RX) \/ Unnoticed("enter", TX)
=============================================================================
