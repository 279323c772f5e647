------------------------- MODULE RadioDriver_proofs -------------------------
(***************************************************************************)
(* The driver over the chip, for every set of packets, rates and restarts: *)
(* the status it reads is one transaction old, and yet good enough to fill *)
(* the TX FIFO of an idle radio only; and the 180 writes of cc1200_init    *)
(* and the three of cc1200_change_rate leave the radio configured.         *)
(***************************************************************************)
EXTENDS RadioDriver, TLAPS

\* The radio is idle, or will be without anybody's doing
Calm == mode = IDLE \/ (mode = SETTLING /\ goal = IDLE)

Modes ==
    /\ mode \in {IDLE, RX, TX, SETTLING, RX_FIFO_ERROR}
    /\ goal \in {IDLE, RX, TX}

Mailbox == sharedMem = [w \in Words |-> sharedMem[w]]

\* At "idle" either SIDLE is on its way, or it has been obeyed: the radio is calm,
\* and a status that says idle says so for good.
AwaitsIdle ==
    pc = "idle" =>
        IF signalled
        THEN /\ sharedMem[3] = 1
             /\ (sharedMem[0] = SIDLE \/ (sharedMem[0] = SNOP /\ Calm))
        ELSE Calm /\ (StatusNow = IDLE => mode = IDLE)

\* From then on the mailbox holds nothing that moves the radio
Fills ==
    /\ pc \in {"fill", "filled"} => mode = IDLE
    /\ pc = "fill" /\ signalled => sharedMem[0] = REG_FIFO /\ sharedMem[3] = 2
    /\ pc = "filled" /\ signalled => sharedMem[0] = \h2F + 128 /\ sharedMem[3] = 3

IdleInv == Modes /\ Mailbox /\ AwaitsIdle /\ Fills

\* The program is elsewhere
Elsewhere == pc \notin {"idle", "fill", "filled"}
-----------------------------------------------------------------------------
\* The status word spells the mode (SPIv1.c:295-299).
LEMMA StatusSpelt ==
    \A m \in {IDLE, RX, TX, SETTLING, RX_FIFO_ERROR} : State(m * 16) = m
BY DEF State, Field, IDLE, RX, TX, SETTLING, RX_FIFO_ERROR

LEMMA Extended == ~IsExtended(REG_FIFO) /\ IsExtended(NUM_TXBYTES)
<1>1. /\ Field(REG_FIFO, 8, 1) # 1 /\ Field(REG_FIFO, 9, 1) # 1
      /\ Field(REG_FIFO, 10, 1) # 1 /\ Field(REG_FIFO, 11, 1) # 1
      /\ Field(REG_FIFO, 13, 1) # 1
  BY DEF Field, REG_FIFO
<1>2. Field(NUM_TXBYTES, 8, 1) = 1
  BY DEF Field, NUM_TXBYTES
<1> QED BY <1>1, <1>2 DEF IsExtended

\* What the calls put into the mailbox
LEMMA CallMailbox ==
    ASSUME Mailbox
    PROVE  /\ \A cmd : cc1200_cmd(cmd) =>
                 Mailbox' /\ signalled' /\ sharedMem'[0] = cmd /\ sharedMem'[3] = 1
           /\ \A adr, val : cc1200_reg_write(adr, val) => Mailbox'
           /\ \A adr : cc1200_reg_read(adr) => Mailbox'
BY DEF Mailbox, Words, Signal, cc1200_cmd, cc1200_reg_write, cc1200_reg_read

\* The two accesses the driver makes while the radio has to stay idle
LEMMA FillMailbox ==
    ASSUME Mailbox
    PROVE  /\ \A val : cc1200_reg_write(REG_FIFO, val) =>
                 Mailbox' /\ signalled' /\ sharedMem'[0] = REG_FIFO /\ sharedMem'[3] = 2
           /\ cc1200_reg_read(NUM_TXBYTES) =>
                 /\ Mailbox' /\ signalled'
                 /\ sharedMem'[0] = \h2F + 128 /\ sharedMem'[3] = 3
<1>1. REG_FIFO % 256 = REG_FIFO
  BY DEF REG_FIFO
<1> QED BY <1>1, Extended
        DEF Mailbox, Words, Signal, cc1200_reg_write, cc1200_reg_read
-----------------------------------------------------------------------------
LEMMA IdleInit == Init => IdleInv
BY DEF Init, ChipInit, SpiInit, IdleInv, Modes, Mailbox, AwaitsIdle, Fills

\* The program at work: nothing moves the radio, and only after the status has
\* said idle the FIFO is filled.
LEMMA IdleConfiguring ==
    ASSUME IdleInv, Configuring
    PROVE  Mailbox' /\ Elsewhere'
<1> USE DEF IdleInv
<1>1. CASE Boot \/ Reset
  BY <1>1, CallMailbox DEF Boot, Reset, Go, Elsewhere
<1>2. CASE BootFails
  BY <1>2 DEF BootFails, spiVars, Mailbox, Elsewhere
<1>3. CASE Configure
  BY <1>3, CallMailbox DEF Configure, Go, Elsewhere
<1>4. CASE Control
  BY <1>4, CallMailbox DEF Control, Go, Elsewhere
<1>5. CASE InitEnds \/ RateChanged
  BY <1>5 DEF InitEnds, RateChanged, Leave, Go, Mailbox, Elsewhere
<1>6. CASE ChangeRateOn
  BY <1>6, CallMailbox DEF ChangeRateOn, Go, Elsewhere
<1> QED BY <1>1, <1>2, <1>3, <1>4, <1>5, <1>6 DEF Configuring

LEMMA IdleGetting ==
    ASSUME IdleInv, Getting
    PROVE  Mailbox' /\ Elsewhere'
<1> USE DEF IdleInv
<1>1. CASE GoRx \/ AwaitRx
  BY <1>1, CallMailbox DEF GoRx, AwaitRx, Poll, Then, Go, Elsewhere
<1>2. \A from, to : Look(from, to) /\ to \in {"count", "rest"} => Mailbox' /\ Elsewhere'
  BY CallMailbox DEF Look, Go, Elsewhere
<1>3. CASE Listen \/ Nothing \/ GotLength \/ Incomplete
  BY <1>2, <1>3 DEF Listen, Nothing, GotLength, Incomplete
<1>4. CASE ReadLength \/ ReadFirst
  BY <1>4, CallMailbox DEF ReadLength, ReadFirst, Then, Go, Elsewhere
<1>5. CASE ReadOn
  BY <1>5, CallMailbox DEF ReadOn, Go, Elsewhere
<1>6. CASE GetReturns \/ GetTimesOut
  BY <1>6 DEF GetReturns, GetTimesOut, Leave, Go, Mailbox, Elsewhere
<1> QED BY <1>1, <1>3, <1>4, <1>5, <1>6 DEF Getting

LEMMA IdleCalling ==
    ASSUME IdleInv, Calling
    PROVE  Mailbox' /\ Elsewhere'
<1> USE DEF IdleInv
<1>1. CASE StartSend
  BY <1>1, CallMailbox DEF StartSend, Elsewhere
<1>2. CASE StartGet
  BY <1>2, CallMailbox DEF StartGet, Elsewhere
<1>3. CASE ChangeRate
  BY <1>3, CallMailbox DEF ChangeRate, Elsewhere
<1> QED BY <1>1, <1>2, <1>3 DEF Calling, Call

\* An answer that says idle ends the first loop of cc1200_send_packet
\* (cc1200_rate.c:177-180); what follows leaves the radio alone until STX.
LEMMA IdleSending ==
    ASSUME IdleInv, Sending, UNCHANGED chipVars
    PROVE  IdleInv'
<1> USE DEF IdleInv
<1>1. Modes' /\ UNCHANGED <<mode, goal>>
  BY DEF chipVars, Modes
<1>2. CASE GoIdle
  <2>1. pc' = "idle" /\ cc1200_cmd(SIDLE)
    BY <1>2 DEF GoIdle, Then, Go
  <2>2. Mailbox' /\ signalled' /\ sharedMem'[0] = SIDLE /\ sharedMem'[3] = 1
    BY <2>1, CallMailbox
  <2> QED BY <1>1, <2>1, <2>2 DEF AwaitsIdle, Fills
<1>3. CASE AwaitIdle
  <2>1. pc = "idle" /\ pc' = "idle" /\ ~signalled
    BY <1>3 DEF AwaitIdle, Poll, Then, Go, Returned
  <2>2. Mailbox' /\ signalled' /\ sharedMem'[0] = SNOP /\ sharedMem'[3] = 1
    BY <1>3, CallMailbox DEF AwaitIdle, Poll
  <2>3. Calm'
    BY <1>1, <2>1 DEF AwaitsIdle, Calm
  <2> QED BY <1>1, <2>1, <2>2, <2>3 DEF AwaitsIdle, Fills
<1>4. CASE WriteLength
  <2>1. pc = "idle" /\ pc' = "fill" /\ ~signalled /\ StatusNow = IDLE
    BY <1>4 DEF WriteLength, Then, Go, Returned
  <2>2. Mailbox' /\ signalled' /\ sharedMem'[0] = REG_FIFO /\ sharedMem'[3] = 2
    BY <1>4, FillMailbox DEF WriteLength
  <2>3. mode' = IDLE
    BY <1>1, <2>1 DEF AwaitsIdle
  <2> QED BY <1>1, <2>1, <2>2, <2>3 DEF AwaitsIdle, Fills
<1>5. CASE WriteByte
  <2>1. pc = "fill" /\ pc' = "fill"
    BY <1>5 DEF WriteByte, Go
  <2>2. Mailbox' /\ signalled' /\ sharedMem'[0] = REG_FIFO /\ sharedMem'[3] = 2
    BY <1>5, FillMailbox DEF WriteByte
  <2> QED BY <1>1, <2>1, <2>2 DEF AwaitsIdle, Fills
<1>6. CASE Filled
  <2>1. pc = "fill" /\ pc' = "filled"
    BY <1>6 DEF Filled, Go
  <2>2. Mailbox' /\ signalled' /\ sharedMem'[0] = \h2F + 128 /\ sharedMem'[3] = 3
    BY <1>6, FillMailbox DEF Filled
  <2> QED BY <1>1, <2>1, <2>2 DEF AwaitsIdle, Fills
<1>7. CASE GoTx \/ AwaitTx \/ Entered \/ AwaitEnd
  <2>1. Mailbox' /\ Elsewhere'
    BY <1>7, CallMailbox DEF GoTx, AwaitTx, Entered, AwaitEnd, Poll, Then, Go, Elsewhere
  <2> QED BY <1>1, <2>1 DEF Elsewhere, AwaitsIdle, Fills
<1>8. CASE SendReturns
  <2>1. Mailbox' /\ Elsewhere'
    BY <1>8 DEF SendReturns, Leave, Go, Mailbox, Elsewhere
  <2> QED BY <1>1, <2>1 DEF Elsewhere, AwaitsIdle, Fills
<1> QED BY <1>2, <1>3, <1>4, <1>5, <1>6, <1>7, <1>8 DEF Sending

\* The PRU passes the mailbox on: SIDLE calms the radio, and the answer says
\* idle only if the radio was idle before.
LEMMA IdlePru ==
    ASSUME IdleInv, Pru
    PROVE  IdleInv'
<1> USE DEF IdleInv
<1>1. signalled /\ ~signalled' /\ pc' = pc
  BY DEF Pru, Serve
<1>2. Mailbox' /\ sharedMem'[5] = mode * 16
  BY DEF Pru, Serve, Answer, Mailbox, Words
<1>3. StatusNow' = mode
  BY <1>2, StatusSpelt DEF StatusNow, Modes
<1>4. Modes'
  <2>1. \/ \E cmd : Strobe(cmd)
        \/ ReadFifo
        \/ \E val : WriteFifo(val)
        \/ \E adr, val : WriteRegister(adr, val)
        \/ UNCHANGED chipVars
    BY DEF Pru, Serve
  <2> QED BY <2>1 DEF Strobe, Settle, ReadFifo, WriteFifo, WriteRegister, chipVars, Modes
<1>5. AwaitsIdle'
  <2>1. SUFFICES ASSUME pc = "idle" PROVE Calm' /\ (mode = IDLE => mode' = IDLE)
    BY <1>1, <1>3 DEF AwaitsIdle
  <2>2. sharedMem[3] = 1 /\ (sharedMem[0] = SIDLE \/ (sharedMem[0] = SNOP /\ Calm))
    BY <1>1, <2>1 DEF AwaitsIdle
  <2>3. Strobe(sharedMem[0])
    BY <2>2 DEF Pru, Serve
  <2>4. CASE sharedMem[0] = SIDLE
    <3>1. IF mode = IDLE THEN UNCHANGED <<mode, goal>> ELSE Settle(IDLE)
      BY <2>3, <2>4 DEF Strobe, SRES, SIDLE, SRX, STX, SFRX, SNOP
    <3>2. CASE mode = IDLE
      BY <3>1, <3>2 DEF Calm
    <3>3. CASE mode # IDLE
      BY <3>1, <3>3 DEF Settle, Calm
    <3> QED BY <3>2, <3>3
  <2>5. CASE sharedMem[0] = SNOP /\ Calm
    BY <2>3, <2>5 DEF Strobe, chipVars, Calm, SRES, SIDLE, SRX, STX, SFRX, SNOP
  <2> QED BY <2>2, <2>4, <2>5
<1>6. Fills'
  <2>1. SUFFICES ASSUME pc \in {"fill", "filled"} PROVE mode' = mode
    BY <1>1 DEF Fills
  <2>2. CASE pc = "fill"
    <3>1. sharedMem[0] = REG_FIFO /\ sharedMem[3] = 2
      BY <1>1, <2>2 DEF Fills
    <3>2. WriteFifo(sharedMem[1])
      BY <3>1 DEF Pru, Serve, REG_FIFO
    <3> QED BY <3>2 DEF WriteFifo
  <2>3. CASE pc = "filled"
    <3>1. sharedMem[0] = \h2F + 128 /\ sharedMem[3] = 3
      BY <1>1, <2>3 DEF Fills
    <3>2. UNCHANGED chipVars
      BY <3>1 DEF Pru, Serve
    <3> QED BY <3>2 DEF chipVars
  <2> QED BY <2>1, <2>2, <2>3
<1> QED BY <1>2, <1>4, <1>5, <1>6

\* By itself an idle radio stays idle, and a calm one becomes idle.
LEMMA IdleChip ==
    ASSUME IdleInv, ChipMoves
    PROVE  IdleInv'
<1> USE DEF IdleInv
<1>1. UNCHANGED <<sharedMem, signalled, pc>>
  BY DEF ChipMoves, spiVars
<1>2. /\ Modes' /\ (mode = IDLE => mode' = IDLE) /\ (Calm => Calm')
  <2>1. CASE Settled
    BY <2>1 DEF Settled, Modes, Calm, IDLE, SETTLING
  <2>2. CASE Arrive
    BY <2>2 DEF Arrive, Modes, Calm
  <2>3. CASE Receive
    BY <2>3 DEF Receive, StateAfter, Modes, Calm, IDLE, RX, SETTLING
  <2>4. CASE Transmitted
    BY <2>4 DEF Transmitted, StateAfter, Modes, Calm, IDLE, TX, SETTLING
  <2> QED BY <2>1, <2>2, <2>3, <2>4 DEF ChipMoves
<1>3. Mailbox' /\ StatusNow' = StatusNow
  BY <1>1 DEF Mailbox, StatusNow
<1> QED BY <1>1, <1>2, <1>3 DEF AwaitsIdle, Fills

LEMMA IdleStep == IdleInv /\ [Next]_vars => IdleInv'
<1> SUFFICES ASSUME IdleInv, [Next]_vars PROVE IdleInv'
  OBVIOUS
<1>1. ASSUME UNCHANGED chipVars, Mailbox', Elsewhere' PROVE IdleInv'
  BY <1>1 DEF chipVars, IdleInv, Modes, Elsewhere, AwaitsIdle, Fills
<1>2. CASE Driver
  BY <1>1, <1>2, IdleConfiguring, IdleGetting, IdleSending DEF Driver
<1>3. CASE Calling
  BY <1>1, <1>3, IdleCalling DEF Calling
<1>4. CASE Restart
  <2>1. UNCHANGED chipVars /\ Mailbox' /\ Elsewhere'
    BY <1>4 DEF Restart, IdleInv, Mailbox, Elsewhere
  <2> QED BY <1>1, <2>1
<1>5. CASE Tick \/ UNCHANGED vars
  <2>1. UNCHANGED <<mode, goal, sharedMem, signalled, pc>>
    BY <1>5 DEF Tick, vars, chipVars, spiVars
  <2> QED BY <2>1 DEF IdleInv, Modes, Mailbox, AwaitsIdle, Fills, Calm, StatusNow
<1> QED BY <1>2, <1>3, <1>4, <1>5, IdlePru, IdleChip DEF Next

\* The TX FIFO is filled in an idle radio, whatever it was doing when the send
\* began and however long it takes to settle (cc1200_rate.c:171-190).
THEOREM FillsIdleRadio == Spec => []FilledInIdle
<1>1. IdleInv => FilledInIdle
  BY DEF IdleInv, Fills, FilledInIdle
<1> QED BY <1>1, IdleInit, IdleStep, PTL DEF Spec
-----------------------------------------------------------------------------
(* The tables of registers and the symbol rates                            *)
\* The values of the tables are bytes (register_config.c).
LEMMA StdByte == \A k \in 1 .. 47 : StdValues[k] \in 0 .. 255
BY DEF StdValues

LEMMA ExtByte == \A k \in 1 .. 130 : ExtValues[k] \in 0 .. 255
BY DEF ExtValues

\* The entries of the first table that the model interprets
LEMMA StdNamed ==
  /\ StdValues[20] = \h3F /\ StdValues[21] = \h75 /\ StdValues[22] = \h10
  /\ StdValues[39] = 0 /\ StdValues[40] = 3 /\ StdValues[41] = 0 /\ StdValues[42] = \h0F
  /\ StdValues[43] = 0
BY DEF StdValues

\* The addresses of the first table are written as they are, those of the second
\* in two bytes (SPIv1.c).
LEMMA Low ==
  ASSUME NEW a \in 0 .. 255 PROVE ~IsExtended(a)
BY DEF IsExtended, Field

LEMMA High ==
  ASSUME NEW a \in 0 .. 255 PROVE IsExtended(EXT_ADR + a) /\ (EXT_ADR + a) % 256 = a
<1>1. Field(EXT_ADR + a, 8, 1) = 1
  BY DEF Field, EXT_ADR
<1> QED BY <1>1 DEF IsExtended, EXT_ADR

\* build_pkg_cfg0_std and build_pkg_cfg2_std: the fields of the table are all zero
\* (cc1200_rate.c:38-93).
LEMMA Format ==
    build_pkg_cfg0_std(PKT_MODE) = 32 /\ build_pkg_cfg2_std(PKT_FORMAT) = 0
<1>1. StdValues[41] = 0 /\ StdValues[39] = 0
  BY StdNamed
<1>2. RegSettings(PKT_CFG0).val = 0 /\ RegSettings(PKT_CFG2).val = 0
  BY <1>1 DEF RegSettings, PKT_CFG0, PKT_CFG2
<1> QED BY <1>2 DEF build_pkg_cfg0_std, build_pkg_cfg2_std, build_pkg_cfg0, build_pkg_cfg2,
                    Field, PKT_MODE, PKT_FORMAT

\* The elements of a sequence put together from two, or three
LEMMA TwoParts ==
    ASSUME NEW W, NEW A \in Seq(W), NEW B \in Seq(W), NEW a \in Nat, NEW b \in Nat,
           a = Len(A), b = Len(B)
    PROVE  /\ A \o B \in Seq(W) /\ Len(A \o B) = a + b
           /\ \A k \in 1 .. a : (A \o B)[k] = A[k]
           /\ \A k \in 1 .. b : (A \o B)[a + k] = B[k]
OBVIOUS

\* A function on 1 .. n is a sequence of n elements.
LEMMA Listed ==
    ASSUME NEW W, NEW n \in Nat, NEW S \in [1 .. n -> W]
    PROVE  S \in Seq(W) /\ Len(S) = n
OBVIOUS

\* S is A, B and C one after the other.
EndToEnd(S, A, B, C) ==
    /\ Len(S) = Len(A) + Len(B) + Len(C)
    /\ \A k \in 1 .. Len(A) : S[k] = A[k]
    /\ \A k \in 1 .. Len(B) : S[Len(A) + k] = B[k]
    /\ \A k \in 1 .. Len(C) : S[Len(A) + Len(B) + k] = C[k]

LEMMA ThreeParts ==
    ASSUME NEW W, NEW A \in Seq(W), NEW B \in Seq(W), NEW C \in Seq(W)
    PROVE  EndToEnd(A \o B \o C, A, B, C)
<1> DEFINE D == A \o B
<1>0. PICK a \in Nat, b \in Nat, c \in Nat : a = Len(A) /\ b = Len(B) /\ c = Len(C)
  OBVIOUS
<1>1. /\ D \in Seq(W) /\ Len(D) = a + b
      /\ \A k \in 1 .. a : D[k] = A[k]
      /\ \A k \in 1 .. b : D[a + k] = B[k]
  BY <1>0, TwoParts
<1> HIDE DEF D
<1>2. PICK d \in Nat : d = a + b
  OBVIOUS
<1>3. D \in Seq(W) /\ d = Len(D)
  BY <1>1, <1>2
<1>4. /\ Len(D \o C) = d + c
      /\ \A k \in 1 .. d : (D \o C)[k] = D[k]
      /\ \A k \in 1 .. c : (D \o C)[d + k] = C[k]
  BY <1>0, <1>3, TwoParts
<1>5. /\ Len(D \o C) = a + b + c
      /\ \A k \in 1 .. a : (D \o C)[k] = A[k]
      /\ \A k \in 1 .. b : (D \o C)[a + k] = B[k]
      /\ \A k \in 1 .. c : (D \o C)[a + b + k] = C[k]
  BY <1>1, <1>2, <1>4
<1>6. EndToEnd(D \o C, A, B, C)
  BY <1>0, <1>5 DEF EndToEnd
<1> QED BY <1>6 DEF D

\* The 180 writes of cc1200_init, in order (cc1200_rate.c:114-136).
LEMMA InitWritesAre ==
  /\ Len(InitWrites) = 180
  /\ \A k \in 1 .. 47 : InitWrites[k] = [adr |-> k - 1, val |-> StdValues[k]]
  /\ \A k \in 48 .. 177 : InitWrites[k] = [adr |-> ExtAddress(k - 48), val |-> ExtValues[k - 47]]
  /\ InitWrites[178] = [adr |-> PKT_CFG0, val |-> 32]
  /\ InitWrites[179] = [adr |-> PKT_CFG2, val |-> 0]
  /\ InitWrites[180] = [adr |-> PKT_LEN,  val |-> 50]
<1> DEFINE A == [k \in 1 .. 47 |-> RegSettings(k - 1)]
           B == [k \in 1 .. 130 |-> ExtRegSettings(k - 1)]
           C == << [adr |-> PKT_CFG0, val |-> build_pkg_cfg0_std(PKT_MODE)],
            [adr |-> PKT_CFG2, val |-> build_pkg_cfg2_std(PKT_FORMAT)],
            [adr |-> PKT_LEN,  val |-> 50] >>
           W == [adr : Nat, val : 0 .. 255]
<1>1. InitWrites = A \o B \o C
  BY DEF InitWrites, MAX_REG, MAX_EXT_REG
<1>2. \A k \in 1 .. 47 : A[k] = [adr |-> k - 1, val |-> StdValues[k]]
  BY DEF RegSettings
<1>3. \A k \in 1 .. 130 : B[k] = [adr |-> ExtAddress(k - 1), val |-> ExtValues[k]]
  BY DEF ExtRegSettings
<1>4. \A k \in 0 .. 129 : ExtAddress(k) \in Nat
  BY DEF ExtAddress, EXT_ADR
<1>5. C = << [adr |-> PKT_CFG0, val |-> 32], [adr |-> PKT_CFG2, val |-> 0],
             [adr |-> PKT_LEN,  val |-> 50] >>
  BY Format
<1>6. PICK a \in Nat, b \in Nat, c \in Nat : a = 47 /\ b = 130 /\ c = 3
  OBVIOUS
<1>7. A \in [1 .. a -> W]
  <2>1. ASSUME NEW k \in 1 .. 47 PROVE RegSettings(k - 1) \in W
    <3>1. StdValues[k] \in 0 .. 255
      <4> HIDE DEF A, B, C, W
      <4> QED BY StdByte, Zenon
    <3>2. RegSettings(k - 1) = [adr |-> k - 1, val |-> StdValues[k]]
      BY <1>2
    <3> HIDE DEF A, B, C
    <3> QED BY <3>1, <3>2
  <2> HIDE DEF W
  <2> QED BY <1>6, <2>1
<1>8. B \in [1 .. b -> W]
  <2>1. ASSUME NEW k \in 1 .. 130 PROVE ExtRegSettings(k - 1) \in W
    <3>1. ExtValues[k] \in 0 .. 255
      <4> HIDE DEF A, B, C, W
      <4> QED BY ExtByte, Zenon
    <3>2. ExtAddress(k - 1) \in Nat
      <4>1. k - 1 \in 0 .. 129
        OBVIOUS
      <4> QED BY <1>4, <4>1
    <3>3. ExtRegSettings(k - 1) = [adr |-> ExtAddress(k - 1), val |-> ExtValues[k]]
      BY <1>3
    <3> HIDE DEF A, B, C
    <3> QED BY <3>1, <3>2, <3>3
  <2> HIDE DEF W
  <2> QED BY <1>6, <2>1
<1>9. C \in Seq(W) /\ Len(C) = c
  BY <1>5, <1>6 DEF PKT_CFG0, PKT_CFG2, PKT_LEN
<1> HIDE DEF A, B, C, W
<1>10. /\ A \in Seq(W) /\ a = Len(A)
       /\ B \in Seq(W) /\ b = Len(B)
       /\ C \in Seq(W) /\ c = Len(C)
  <2>1. A \in Seq(W) /\ Len(A) = a
    BY <1>7, Listed
  <2>2. B \in Seq(W) /\ Len(B) = b
    BY <1>8, Listed
  <2> QED BY <1>9, <2>1, <2>2
<1>11. /\ Len(InitWrites) = a + b + c
       /\ \A k \in 1 .. a : InitWrites[k] = A[k]
       /\ \A k \in 1 .. b : InitWrites[a + k] = B[k]
       /\ \A k \in 1 .. c : InitWrites[a + b + k] = C[k]
  <2>1. EndToEnd(A \o B \o C, A, B, C)
    BY <1>10, ThreeParts
  <2>2. EndToEnd(InitWrites, A, B, C)
    BY <1>1, <2>1
  <2> QED BY <1>10, <2>2 DEF EndToEnd
<1>12. Len(InitWrites) = 180
  BY <1>6, <1>11
<1>13. \A k \in 1 .. 47 : InitWrites[k] = [adr |-> k - 1, val |-> StdValues[k]]
  BY <1>2, <1>6, <1>11
<1>14. ASSUME NEW k \in 48 .. 177
       PROVE  InitWrites[k] = [adr |-> ExtAddress(k - 48), val |-> ExtValues[k - 47]]
  <2>1. k - 47 \in 1 .. 130 /\ (k - 47) - 1 = k - 48 /\ a + (k - 47) = k
    BY <1>6
  <2>2. InitWrites[a + (k - 47)] = B[k - 47]
    BY <1>6, <1>11, <2>1
  <2> QED BY <1>3, <2>1, <2>2
<1>15. InitWrites[178] = C[1] /\ InitWrites[179] = C[2] /\ InitWrites[180] = C[3]
  <2>1. a + b + 1 = 178 /\ a + b + 2 = 179 /\ a + b + 3 = 180 /\ c = 3
    BY <1>6
  <2>2. InitWrites[a + b + 1] = C[1] /\ InitWrites[a + b + 2] = C[2] /\ InitWrites[a + b + 3] = C[3]
    BY <1>6, <1>11
  <2> QED BY <2>1, <2>2
<1> QED BY <1>5, <1>12, <1>13, <1>14, <1>15

\* There are nine rates (minstrel.h).
LEMMA Rates == DOMAIN MINSTREL_RATES = 1 .. 9
BY DEF MINSTREL_RATES


\* log_2 yields the exponent that brackets its argument (cc1200_rate.c:142-144).
LEMMA Log ==
    ASSUME NEW s \in Nat, NEW E \in 0 .. 30, 2^E <= s, s < 2 * 2^E PROVE log_2(s) = E
<1> DEFINE Pow == [k \in 0 .. 30 |-> 2^k]
<1>1. \A e \in 0 .. 30 : 2^e = Pow[e]
  OBVIOUS
<1>2. /\ Pow[0] = 1 /\ Pow[1] = 2 /\ Pow[2] = 4
          /\ Pow[3] = 8 /\ Pow[4] = 16 /\ Pow[5] = 32
          /\ Pow[6] = 64 /\ Pow[7] = 128 /\ Pow[8] = 256
          /\ Pow[9] = 512 /\ Pow[10] = 1024 /\ Pow[11] = 2048
          /\ Pow[12] = 4096 /\ Pow[13] = 8192 /\ Pow[14] = 16384
          /\ Pow[15] = 32768 /\ Pow[16] = 65536 /\ Pow[17] = 131072
          /\ Pow[18] = 262144 /\ Pow[19] = 524288 /\ Pow[20] = 1048576
          /\ Pow[21] = 2097152 /\ Pow[22] = 4194304 /\ Pow[23] = 8388608
          /\ Pow[24] = 16777216 /\ Pow[25] = 33554432 /\ Pow[26] = 67108864
          /\ Pow[27] = 134217728 /\ Pow[28] = 268435456 /\ Pow[29] = 536870912
          /\ Pow[30] = 1073741824
  OBVIOUS
<1> HIDE DEF Pow
<1>3. \A a \in 0 .. 30 : Pow[a] \in Nat
  BY <1>2
<1>4. \A a \in 0 .. 29 : Pow[a+1] = 2 * Pow[a]
  BY <1>2
<1>5. \A a \in 0 .. 30, b \in 0 .. 30 : a < b => 2 * Pow[a] <= Pow[b]
  BY <1>2
<1>6. ASSUME NEW e \in 0 .. 30, 2^e <= s, s \div 2 < 2^e PROVE e = E
  <2>0. Pow[e] <= s /\ s \div 2 < Pow[e] /\ Pow[e] \in Nat
    BY <1>1, <1>3, <1>6
  <2>1. s < 2 * Pow[e]
    BY <2>0
  <2>2. Pow[E] <= s /\ s < 2 * Pow[E]
    BY <1>1
  <2>3. ~(e < E)
    BY <1>3, <1>5, <2>1, <2>2
  <2>4. ~(E < e)
    BY <1>3, <1>5, <2>0, <2>2
  <2> QED BY <2>3, <2>4
<1>7. 2^E <= s /\ s \div 2 < 2^E
  BY <1>1, <1>3
<1> QED BY <1>6, <1>7 DEF log_2

\* Hence the exponent of a symbol rate (cc1200_rate.c:150)
LEMMA Exponent ==
    ASSUME NEW b, NEW s \in Nat, NEW E \in 20 .. 30, s = Scaled(b), 2^E <= s, s < 2 * 2^E
    PROVE  srate_e(b) = E - 20
<1>1. log_2(s) = E
  <2>1. E \in 0 .. 30
    OBVIOUS
  <2> QED BY <2>1, Log
<1> QED BY <1>1 DEF srate_e

\* The three writes of a rate go to the three registers, are bytes, and spell the
\* rate to the precision of the mantissa.
Spelt(b) ==
    LET w == RateWrites(b)
    IN  /\ w[1].adr = SYMBOL_RATE2 /\ w[2].adr = SYMBOL_RATE1 /\ w[3].adr = SYMBOL_RATE0
        /\ \A k \in 1 .. 3 : w[k].val \in 0 .. 255
        /\ Spells(w[1].val, w[2].val, w[3].val, b)

\* The mantissa of a rate, with its leading one, has 21 bits.
LEMMA Division ==
    ASSUME NEW s \in Nat, NEW D \in {8, 16, 32, 64, 128, 256, 512},
           2^20 * D <= s, s < 2^21 * D
    PROVE  /\ s \div D \in 2^20 .. 2^21 - 1
           /\ (s \div D) * D <= s /\ s < (s \div D + 1) * D
<1>1. CASE D = 8
  BY <1>1
<1>2. CASE D = 16
  BY <1>2
<1>3. CASE D = 32
  BY <1>3
<1>4. CASE D = 64
  BY <1>4
<1>5. CASE D = 128
  BY <1>5
<1>6. CASE D = 256
  BY <1>6
<1>7. CASE D = 512
  BY <1>7
<1> QED BY <1>1, <1>2, <1>3, <1>4, <1>5, <1>6, <1>7

\* Cut into 4, 8 and 8 bits the mantissa can be put together again
\* (cc1200_rate.c:151-155).
LEMMA Spelling ==
    ASSUME NEW b, NEW s \in Nat, s = Scaled(b),
           NEW e \in 0 .. 10, srate_e(b) = e,
           NEW D \in {8, 16, 32, 64, 128, 256, 512}, 2^e = D,
           2^20 * D <= s, s < 2^21 * D
    PROVE  Spelt(b)
<1> DEFINE w == RateWrites(b)
           q == s \div D
           m == q - 2^20
           h == m \div 65536
           l == m \div 256
<1>1. q \in 2^20 .. 2^21 - 1 /\ q * D <= s /\ s < (q + 1) * D
  BY Division
<1>2. srate_m(b) = m /\ m \in 0 .. 2^20 - 1 /\ q = 2^20 + m
  BY <1>1 DEF srate_m
<1> HIDE DEF q, m
<1>3. w = << [adr |-> SYMBOL_RATE2, val |-> Field(e, 0, 4) * 2^4 + Field(m, 16, 4)],
             [adr |-> SYMBOL_RATE1, val |-> Field(m, 8, 8)],
             [adr |-> SYMBOL_RATE0, val |-> Field(m, 0, 8)] >>
  BY <1>2 DEF RateWrites
<1> HIDE DEF w
<1> DEFINE r2 == w[1].val
           r1 == w[2].val
           r0 == w[3].val
<1>4. /\ h \in 0 .. 15 /\ l \in 0 .. 4095
      /\ m % 256 \in 0 .. 255 /\ m = l * 256 + (m % 256)
      /\ l % 256 \in 0 .. 255 /\ l = h * 256 + (l % 256)
  <2>1. l \in 0 .. 4095 /\ m % 256 \in 0 .. 255 /\ m = l * 256 + (m % 256)
    BY <1>2
  <2>2. h = l \div 256
    BY <1>2
  <2> HIDE DEF l, h
  <2>3. h \in 0 .. 15 /\ l % 256 \in 0 .. 255 /\ l = h * 256 + (l % 256)
    BY <2>1, <2>2
  <2> QED BY <2>1, <2>3
<1> HIDE DEF h
<1>5. r2 = e * 16 + h /\ r1 = l % 256 /\ r0 = m % 256
  BY <1>2, <1>3, <1>4 DEF Field, h
<1> HIDE DEF l
<1>6. r2 \in 0 .. 255 /\ r1 \in 0 .. 255 /\ r0 \in 0 .. 255
  BY <1>4, <1>5
<1>7. Field(r2, 4, 4) = e /\ Field(r2, 0, 4) = h
  <2>1. ASSUME NEW x \in 0 .. 15, NEW y \in 0 .. 15
        PROVE  /\ ((x * 16 + y) \div 16) % 16 = x
               /\ ((x * 16 + y) \div 1) % 16 = y
    OBVIOUS
  <2>2. e \in 0 .. 15
    OBVIOUS
  <2>3. Field(r2, 4, 4) = (r2 \div 16) % 16 /\ Field(r2, 0, 4) = (r2 \div 1) % 16
    BY DEF Field
  <2>4. r2 = e * 16 + h /\ h \in 0 .. 15
    BY <1>4, <1>5
  <2> HIDE DEF r2
  <2> QED BY <2>1, <2>2, <2>3, <2>4
<1>8. h * 2^16 + r1 * 2^8 + r0 = m
  BY <1>4, <1>5
<1>9. Spells(r2, r1, r0, b)
  BY <1>1, <1>2, <1>7, <1>8 DEF Spells
<1> QED BY <1>3, <1>6, <1>9 DEF Spelt, w

\* Every rate of the table is spelt.
LEMMA EveryRateSpelt == \A r \in 1 .. 9 : Spelt(MINSTREL_RATES[r])
<1>1. Spelt(1000)
  <2>1. 13743895 = Scaled(1000)
    BY DEF Scaled
  <2>2. ASSUME NEW E \in 20 .. 30, E = 23  PROVE 2^E <= 13743895 /\ 13743895 < 2 * 2^E
    BY <2>2
  <2>3. srate_e(1000) = 3
    BY <2>1, <2>2, Exponent
  <2>4. ASSUME NEW e \in 0 .. 10, e = 3  PROVE 2^e = 8
    BY <2>4
  <2> QED BY <2>1, <2>3, <2>4, Spelling
<1>2. Spelt(1200)
  <2>1. 16492674 = Scaled(1200)
    BY DEF Scaled
  <2>2. ASSUME NEW E \in 20 .. 30, E = 23  PROVE 2^E <= 16492674 /\ 16492674 < 2 * 2^E
    BY <2>2
  <2>3. srate_e(1200) = 3
    BY <2>1, <2>2, Exponent
  <2>4. ASSUME NEW e \in 0 .. 10, e = 3  PROVE 2^e = 8
    BY <2>4
  <2> QED BY <2>1, <2>3, <2>4, Spelling
<1>3. Spelt(2400)
  <2>1. 32985348 = Scaled(2400)
    BY DEF Scaled
  <2>2. ASSUME NEW E \in 20 .. 30, E = 24  PROVE 2^E <= 32985348 /\ 32985348 < 2 * 2^E
    BY <2>2
  <2>3. srate_e(2400) = 4
    BY <2>1, <2>2, Exponent
  <2>4. ASSUME NEW e \in 0 .. 10, e = 4  PROVE 2^e = 16
    BY <2>4
  <2> QED BY <2>1, <2>3, <2>4, Spelling
<1>4. Spelt(4800)
  <2>1. 65970697 = Scaled(4800)
    BY DEF Scaled
  <2>2. ASSUME NEW E \in 20 .. 30, E = 25  PROVE 2^E <= 65970697 /\ 65970697 < 2 * 2^E
    BY <2>2
  <2>3. srate_e(4800) = 5
    BY <2>1, <2>2, Exponent
  <2>4. ASSUME NEW e \in 0 .. 10, e = 5  PROVE 2^e = 32
    BY <2>4
  <2> QED BY <2>1, <2>3, <2>4, Spelling
<1>5. Spelt(9600)
  <2>1. 131941395 = Scaled(9600)
    BY DEF Scaled
  <2>2. ASSUME NEW E \in 20 .. 30, E = 26  PROVE 2^E <= 131941395 /\ 131941395 < 2 * 2^E
    BY <2>2
  <2>3. srate_e(9600) = 6
    BY <2>1, <2>2, Exponent
  <2>4. ASSUME NEW e \in 0 .. 10, e = 6  PROVE 2^e = 64
    BY <2>4
  <2> QED BY <2>1, <2>3, <2>4, Spelling
<1>6. Spelt(12500)
  <2>1. 171798691 = Scaled(12500)
    BY DEF Scaled
  <2>2. ASSUME NEW E \in 20 .. 30, E = 27  PROVE 2^E <= 171798691 /\ 171798691 < 2 * 2^E
    BY <2>2
  <2>3. srate_e(12500) = 7
    BY <2>1, <2>2, Exponent
  <2>4. ASSUME NEW e \in 0 .. 10, e = 7  PROVE 2^e = 128
    BY <2>4
  <2> QED BY <2>1, <2>3, <2>4, Spelling
<1>7. Spelt(25000)
  <2>1. 343597383 = Scaled(25000)
    BY DEF Scaled
  <2>2. ASSUME NEW E \in 20 .. 30, E = 28  PROVE 2^E <= 343597383 /\ 343597383 < 2 * 2^E
    BY <2>2
  <2>3. srate_e(25000) = 8
    BY <2>1, <2>2, Exponent
  <2>4. ASSUME NEW e \in 0 .. 10, e = 8  PROVE 2^e = 256
    BY <2>4
  <2> QED BY <2>1, <2>3, <2>4, Spelling
<1>8. Spelt(37500)
  <2>1. 515396075 = Scaled(37500)
    BY DEF Scaled
  <2>2. ASSUME NEW E \in 20 .. 30, E = 28  PROVE 2^E <= 515396075 /\ 515396075 < 2 * 2^E
    BY <2>2
  <2>3. srate_e(37500) = 8
    BY <2>1, <2>2, Exponent
  <2>4. ASSUME NEW e \in 0 .. 10, e = 8  PROVE 2^e = 256
    BY <2>4
  <2> QED BY <2>1, <2>3, <2>4, Spelling
<1>9. Spelt(50000)
  <2>1. 687194767 = Scaled(50000)
    BY DEF Scaled
  <2>2. ASSUME NEW E \in 20 .. 30, E = 29  PROVE 2^E <= 687194767 /\ 687194767 < 2 * 2^E
    BY <2>2
  <2>3. srate_e(50000) = 9
    BY <2>1, <2>2, Exponent
  <2>4. ASSUME NEW e \in 0 .. 10, e = 9  PROVE 2^e = 512
    BY <2>4
  <2> QED BY <2>1, <2>3, <2>4, Spelling
<1> QED BY <1>1, <1>2, <1>3, <1>4, <1>5, <1>6, <1>7, <1>8, <1>9 DEF MINSTREL_RATES
-----------------------------------------------------------------------------
(* The calls: what the program has put into the mailbox at each point      *)
\* The points inside the two calls, and before the first of them
SendPoints == {"tx count", "idle", "fill", "filled", "enter", "leave"}
GetPoints == {"flush", "rx", "count", "length", "rest", "read", "give up"}
SetUpPoints == {"boot", "exit", "reset", "snop", "config", "control"}

\* The loop counter and the ghosts of RadioPort at each point
Program ==
    /\ pc \in SetUpPoints \cup {"ready", "rate"} \cup SendPoints \cup GetPoints
    /\ pc \notin {"config", "rate", "fill"} => i = 0
    /\ pc = "config" => i \in 1 .. 180
    /\ pc = "rate" => i \in 1 .. 3
    /\ pc = "fill" => i \in 0 .. Len(packet)
    /\ pc \in {"ready", "rate"} \cup SendPoints \cup GetPoints => rate \in 1 .. 9
    /\ pc \in SendPoints => call = "send" /\ packet \in Frames
    /\ pc \in GetPoints => call = "get" /\ ~done
    /\ pc \notin SendPoints \cup GetPoints => call = "none" /\ ~done
    /\ pc # "read" => buffer = <<>>
    /\ done \in BOOLEAN

\* The mailbox m holds n words, of which the first is the header
Holds(m, header, n) == m[0] = header /\ m[3] = n

\* It holds the write of val to adr.
HoldsWrite(m, adr, val) ==
    IF IsExtended(adr)
    THEN Holds(m, \h2F, 3) /\ m[1] = adr % 256 /\ m[2] = val % 256
    ELSE Holds(m, adr % 256, 2) /\ m[1] = val

\* The call that is under way at each point
Pending ==
    signalled =>
        /\ pc \notin {"boot", "exit", "ready"}
        /\ pc = "reset" => Holds(sharedMem, SRES, 1)
        /\ pc \in {"snop", "leave"} => Holds(sharedMem, SNOP, 1)
        /\ pc = "config" => HoldsWrite(sharedMem, InitWrites[i].adr, InitWrites[i].val)
        /\ pc = "control" => Holds(sharedMem, PKT_LEN + 128, 2)
        /\ pc = "rate" =>
              HoldsWrite(sharedMem, RateWrites(MINSTREL_RATES[rate])[i].adr,
                                    RateWrites(MINSTREL_RATES[rate])[i].val)
        /\ pc \in {"tx count", "filled"} => Holds(sharedMem, \h2F + 128, 3)
        /\ pc = "idle" => Holds(sharedMem, SIDLE, 1) \/ Holds(sharedMem, SNOP, 1)
        /\ pc = "fill" =>
              /\ Holds(sharedMem, REG_FIFO, 2)
              /\ sharedMem[1] = IF i = 0 THEN Len(packet) ELSE packet[i]
        /\ pc = "enter" => Holds(sharedMem, STX, 1) \/ Holds(sharedMem, SNOP, 1)
        /\ pc \in {"flush", "give up"} => Holds(sharedMem, SFRX, 1)
        /\ pc = "rx" => Holds(sharedMem, SRX, 1) \/ Holds(sharedMem, SNOP, 1)
        /\ pc \in {"count", "rest"} => Holds(sharedMem, \h2F + 128, 3) /\ sharedMem[1] = \hD7
        /\ pc \in {"length", "read"} => Holds(sharedMem, REG_FIFO + 128, 2)

\* The program and the PRU agree on the call that is under way.
AskInv == Mailbox /\ Program /\ Pending

\* What each call puts into the mailbox
LEMMA Cmd ==
    ASSUME Mailbox, NEW cmd, cc1200_cmd(cmd)
    PROVE  Mailbox' /\ signalled' /\ Holds(sharedMem', cmd, 1)
BY CallMailbox DEF Holds

LEMMA Write ==
    ASSUME Mailbox, NEW adr, NEW val, cc1200_reg_write(adr, val)
    PROVE  Mailbox' /\ signalled' /\ HoldsWrite(sharedMem', adr, val)
<1>1. CASE IsExtended(adr)
  BY <1>1 DEF Mailbox, Words, Signal, cc1200_reg_write, Holds, HoldsWrite
<1>2. CASE ~IsExtended(adr)
  BY <1>2 DEF Mailbox, Words, Signal, cc1200_reg_write, Holds, HoldsWrite
<1> QED BY <1>1, <1>2

LEMMA FifoWrite ==
    ASSUME Mailbox, NEW val, cc1200_reg_write(REG_FIFO, val)
    PROVE  Mailbox' /\ signalled' /\ Holds(sharedMem', REG_FIFO, 2) /\ sharedMem'[1] = val
<1>1. REG_FIFO % 256 = REG_FIFO
  BY DEF REG_FIFO
<1> QED BY <1>1, Extended DEF Mailbox, Words, Signal, cc1200_reg_write, Holds

LEMMA FifoRead ==
    ASSUME Mailbox, cc1200_reg_read(REG_FIFO)
    PROVE  Mailbox' /\ signalled' /\ Holds(sharedMem', REG_FIFO + 128, 2)
<1>1. REG_FIFO % 128 = REG_FIFO
  BY DEF REG_FIFO
<1> QED BY <1>1, Extended DEF Mailbox, Words, Signal, cc1200_reg_read, Holds

LEMMA LengthRead ==
    ASSUME Mailbox, cc1200_reg_read(PKT_LEN)
    PROVE  Mailbox' /\ signalled' /\ Holds(sharedMem', PKT_LEN + 128, 2)
<1>1. PKT_LEN % 128 = PKT_LEN /\ ~IsExtended(PKT_LEN)
  BY DEF PKT_LEN, IsExtended, Field
<1> QED BY <1>1 DEF Mailbox, Words, Signal, cc1200_reg_read, Holds

LEMMA CountRead ==
    ASSUME Mailbox
    PROVE  /\ cc1200_reg_read(NUM_TXBYTES) =>
                 Mailbox' /\ signalled' /\ Holds(sharedMem', \h2F + 128, 3)
           /\ cc1200_reg_read(NUM_RXBYTES) =>
                 /\ Mailbox' /\ signalled'
                 /\ Holds(sharedMem', \h2F + 128, 3) /\ sharedMem'[1] = \hD7
<1>1. NUM_TXBYTES % 256 = \hD6 /\ NUM_RXBYTES % 256 = \hD7
  BY DEF NUM_TXBYTES, NUM_RXBYTES
<1>2. IsExtended(NUM_RXBYTES)
  BY DEF IsExtended, Field, NUM_RXBYTES
<1> QED BY <1>1, <1>2, Extended DEF Mailbox, Words, Signal, cc1200_reg_read, Holds

\* A step that leaves program and mailbox alone
LEMMA AskSame ==
    ASSUME AskInv, UNCHANGED <<sharedMem, signalled, pc, i, rate, buffer, call, packet>>,
           (call = "send" /\ done' \in BOOLEAN) \/ done' = done
    PROVE  AskInv'
<1>1. Program /\ Pending /\ Mailbox
  BY DEF AskInv
<1>2. Program'
  <2>1. CASE done' = done
    BY <1>1, <2>1 DEF Program
  <2>2. CASE call = "send" /\ done' \in BOOLEAN
    BY <1>1, <2>2 DEF Program, SendPoints, GetPoints
  <2> QED BY <2>1, <2>2
<1>3. Pending'
  BY <1>1 DEF Pending
<1>4. Mailbox'
  BY <1>1 DEF Mailbox
<1> QED BY <1>2, <1>3, <1>4 DEF AskInv

\* The agreement, step by step
LEMMA AskInit == Init => AskInv
BY DEF Init, ChipInit, SpiInit, AskInv, Mailbox, Program, Pending,
       SetUpPoints, SendPoints, GetPoints

USE DEF SetUpPoints, SendPoints, GetPoints

LEMMA AskConfiguring ==
    ASSUME AskInv, Configuring
    PROVE  AskInv'
<1> USE DEF AskInv
<1>1. UNCHANGED <<call, packet, done>>
  BY DEF Configuring, portVars
<1>2. CASE Boot
  <2>1. Mailbox' /\ signalled' /\ UNCHANGED <<i, buffer, rate>>
        /\ pc = "boot" /\ pc' = "reset" /\ Holds(sharedMem', SRES, 1)
    BY <1>2, Cmd DEF Boot, localVars
  <2> QED BY <1>1, <2>1 DEF Program, Pending
<1>9. CASE Reset
  <2>1. Mailbox' /\ signalled' /\ UNCHANGED <<i, buffer, rate>>
        /\ pc = "reset" /\ pc' = "snop" /\ Holds(sharedMem', SNOP, 1)
    BY <1>9, Cmd DEF Reset, Go, localVars
  <2> QED BY <1>1, <2>1 DEF Program, Pending
<1>3. CASE BootFails
  BY <1>1, <1>3 DEF BootFails, spiVars, localVars, Mailbox, Program, Pending
<1>4. CASE Configure
  <2>1. /\ pc \in {"snop", "config"} /\ pc' = "config"
        /\ i < 180 /\ i' = i + 1 /\ UNCHANGED <<buffer, rate>>
    BY <1>4, InitWritesAre DEF Configure, Go
  <2>2. Mailbox' /\ signalled'
        /\ HoldsWrite(sharedMem', InitWrites[i'].adr, InitWrites[i'].val)
    <3>1. cc1200_reg_write(InitWrites[i'].adr, InitWrites[i'].val)
      BY <1>4 DEF Configure
    <3> QED BY <3>1, Write
  <2>3. i' \in 1 .. 180
    <3> HIDE DEF SetUpPoints, SendPoints, GetPoints
    <3>1. i \in 0 .. 180
      BY <2>1 DEF Program
    <3> QED BY <2>1, <3>1
  <2> QED BY <1>1, <2>1, <2>2, <2>3 DEF Program, Pending
<1>5. CASE Control
  <2>1. /\ pc = "config" /\ pc' = "control" /\ i' = 0 /\ UNCHANGED <<buffer, rate>>
    BY <1>5 DEF Control, Go
  <2>2. Mailbox' /\ signalled' /\ Holds(sharedMem', PKT_LEN + 128, 2)
    BY <1>5, LengthRead DEF Control
  <2> QED BY <1>1, <2>1, <2>2 DEF Program, Pending
<1>6. CASE InitEnds
  <2>1. /\ pc = "control" /\ pc' = "ready" /\ UNCHANGED <<i, buffer>> /\ rate' = 2
        /\ UNCHANGED <<sharedMem, signalled>> /\ ~signalled
    BY <1>6 DEF InitEnds, Leave, Go, Returned, localVars
  <2> QED BY <1>1, <2>1 DEF Program, Pending, Mailbox
<1>7. CASE ChangeRateOn
  <2>1. /\ pc = "rate" /\ pc' = "rate" /\ i < 3 /\ i' = i + 1 /\ UNCHANGED <<buffer, rate>>
    BY <1>7 DEF ChangeRateOn, Go
  <2>2. Mailbox' /\ signalled'
        /\ HoldsWrite(sharedMem', RateWrites(MINSTREL_RATES[rate])[i'].adr,
                                  RateWrites(MINSTREL_RATES[rate])[i'].val)
    BY <1>7, Write DEF ChangeRateOn
  <2>3. i' \in 1 .. 3
    BY <2>1 DEF Program
  <2> QED BY <1>1, <2>1, <2>2, <2>3 DEF Program, Pending
<1>8. CASE RateChanged
  <2>1. /\ pc = "rate" /\ pc' = "ready" /\ i' = 0 /\ UNCHANGED <<rate, buffer>>
        /\ UNCHANGED <<sharedMem, signalled>> /\ ~signalled
    BY <1>8 DEF RateChanged, Leave, Go, Returned
  <2> QED BY <1>1, <2>1 DEF Program, Pending, Mailbox
<1> QED BY <1>2, <1>9, <1>3, <1>4, <1>5, <1>6, <1>7, <1>8 DEF Configuring

LEMMA AskSending ==
    ASSUME AskInv, Sending
    PROVE  AskInv'
<1> USE DEF AskInv
<1>1. UNCHANGED rate
  BY DEF Sending
<1>2. ASSUME NEW from, NEW to, Then(from, to)
      PROVE  pc = from /\ pc' = to /\ ~signalled /\ UNCHANGED <<i, buffer, call, packet, done>>
  BY <1>2 DEF Then, Go, Returned, localVars, portVars
<1>3. ASSUME NEW cmd, NEW from \in SendPoints \ {"fill"}, NEW to \in SendPoints,
             Then(from, to), cc1200_cmd(cmd),
             \/ to \in {"idle", "enter", "leave"} /\ cmd = SNOP
             \/ to = "idle" /\ cmd = SIDLE
             \/ to = "enter" /\ cmd = STX
      PROVE  AskInv'
  <2>1. Mailbox' /\ signalled' /\ Holds(sharedMem', cmd, 1)
    BY <1>3, Cmd
  <2>2. Program'
    BY <1>1, <1>2, <1>3 DEF Program
  <2>3. Pending'
    BY <1>2, <1>3, <2>1 DEF Pending
  <2> QED BY <2>1, <2>2, <2>3
<1>4. CASE GoIdle \/ AwaitIdle \/ GoTx \/ AwaitTx \/ Entered \/ AwaitEnd
  BY <1>3, <1>4 DEF GoIdle, AwaitIdle, GoTx, AwaitTx, Entered, AwaitEnd, Poll
<1>5. CASE WriteLength
  <2>1. pc = "idle" /\ pc' = "fill" /\ UNCHANGED <<i, buffer, call, packet, done>>
    BY <1>2, <1>5 DEF WriteLength
  <2>2. /\ Mailbox' /\ signalled' /\ Holds(sharedMem', REG_FIFO, 2)
        /\ sharedMem'[1] = Len(packet)
    BY <1>5, FifoWrite DEF WriteLength
  <2>3. i' = 0 /\ Len(packet') \in Nat
    BY <2>1, ChipAssumption DEF Program
  <2> QED BY <1>1, <2>1, <2>2, <2>3 DEF Program, Pending
<1>6. CASE WriteByte
  <2>1. /\ pc = "fill" /\ pc' = "fill" /\ i < Len(packet) /\ i' = i + 1
        /\ UNCHANGED <<buffer, call, packet, done>>
    BY <1>6 DEF WriteByte, Go, portVars
  <2>2. /\ Mailbox' /\ signalled' /\ Holds(sharedMem', REG_FIFO, 2)
        /\ sharedMem'[1] = packet[i']
    BY <1>6, FifoWrite DEF WriteByte
  <2>3. i' # 0 /\ i' \in 0 .. Len(packet')
    BY <2>1, ChipAssumption DEF Program
  <2> QED BY <1>1, <2>1, <2>2, <2>3 DEF Program, Pending
<1>7. CASE Filled
  <2>1. /\ pc = "fill" /\ pc' = "filled" /\ i' = 0
        /\ UNCHANGED <<buffer, call, packet, done>>
    BY <1>7 DEF Filled, Go, portVars
  <2>2. Mailbox' /\ signalled' /\ Holds(sharedMem', \h2F + 128, 3)
    BY <1>7, CountRead DEF Filled
  <2> QED BY <1>1, <2>1, <2>2 DEF Program, Pending
<1>8. CASE SendReturns
  <2>1. /\ pc = "leave" /\ pc' = "ready" /\ UNCHANGED <<i, buffer>>
        /\ call' = "none" /\ done' = FALSE
        /\ UNCHANGED <<sharedMem, signalled>> /\ ~signalled
    BY <1>8 DEF SendReturns, Leave, Go, Returned, localVars
  <2> QED BY <1>1, <2>1 DEF Program, Pending, Mailbox
<1> QED BY <1>4, <1>5, <1>6, <1>7, <1>8 DEF Sending

LEMMA AskGetting ==
    ASSUME AskInv, Getting
    PROVE  AskInv'
<1> USE DEF AskInv
<1>1. UNCHANGED rate
  BY DEF Getting
<1>2. ASSUME pc \in GetPoints, pc' \in GetPoints, UNCHANGED <<i, call, done>>,
             pc' # "read" => buffer' = <<>>, Mailbox',
             pc' \in {"flush", "give up"} => Holds(sharedMem', SFRX, 1),
             pc' = "rx" => Holds(sharedMem', SRX, 1) \/ Holds(sharedMem', SNOP, 1),
             pc' \in {"count", "rest"} =>
                 Holds(sharedMem', \h2F + 128, 3) /\ sharedMem'[1] = \hD7,
             pc' \in {"length", "read"} => Holds(sharedMem', REG_FIFO + 128, 2)
      PROVE  AskInv'
  <2>1. Program'
    <3>1. /\ pc' \in GetPoints
          /\ pc' \notin SetUpPoints \cup {"ready", "rate"} \cup SendPoints
      BY <1>2
    <3>2. i = 0 /\ rate \in 1 .. 9 /\ call = "get" /\ ~done /\ done \in BOOLEAN
      BY <1>2 DEF Program
    <3>3. pc' \notin {"config", "rate", "fill"}
      BY <3>1
    <3> HIDE DEF SetUpPoints, SendPoints, GetPoints
    <3> QED BY <1>1, <1>2, <3>1, <3>2, <3>3 DEF Program
  <2>2. Pending'
    BY <1>2 DEF Pending
  <2> QED BY <1>2, <2>1, <2>2
<1>3. ASSUME NEW from, NEW to, Then(from, to)
      PROVE  pc = from /\ pc' = to /\ UNCHANGED <<i, buffer, call, done>>
  BY <1>3 DEF Then, Go, localVars, portVars
<1>4. CASE GoRx \/ AwaitRx
  <2>1. \E cmd \in {SRX, SNOP} : cc1200_cmd(cmd)
    BY <1>4 DEF GoRx, AwaitRx, Poll
  <2>2. Mailbox' /\ (Holds(sharedMem', SRX, 1) \/ Holds(sharedMem', SNOP, 1))
    BY <2>1, Cmd
  <2>3. pc \in {"flush", "rx"} /\ pc' = "rx" /\ UNCHANGED <<i, buffer, call, done>>
    BY <1>3, <1>4 DEF GoRx, AwaitRx, Poll
  <2> QED BY <1>2, <2>2, <2>3 DEF Program
<1>5. ASSUME NEW from \in {"rx", "count", "length", "rest"}, NEW to \in {"count", "rest"},
             Look(from, to), UNCHANGED <<i, buffer>>
      PROVE  AskInv'
  <2>1. pc = from /\ UNCHANGED <<call, done>>
    BY <1>5 DEF Look, Go, portVars
  <2>2. CASE late
    <3>1. pc' = "give up" /\ Mailbox' /\ Holds(sharedMem', SFRX, 1)
      BY <1>5, <2>2, Cmd DEF Look, Go
    <3> QED BY <1>2, <1>5, <2>1, <3>1 DEF Program
  <2>3. CASE ~late
    <3>1. pc' = to /\ Mailbox' /\ Holds(sharedMem', \h2F + 128, 3) /\ sharedMem'[1] = \hD7
      BY <1>5, <2>3, CountRead DEF Look, Go
    <3> QED BY <1>2, <1>5, <2>1, <3>1 DEF Program
  <2> QED BY <2>2, <2>3
<1>6. CASE Listen \/ Nothing \/ GotLength \/ Incomplete
  BY <1>5, <1>6 DEF Listen, Nothing, GotLength, Incomplete, localVars
<1>7. CASE ReadLength \/ ReadFirst
  <2>1. Mailbox' /\ Holds(sharedMem', REG_FIFO + 128, 2)
    BY <1>7, FifoRead DEF ReadLength, ReadFirst
  <2>2. pc \in {"count", "rest"} /\ pc' \in {"length", "read"}
        /\ UNCHANGED <<i, buffer, call, done>>
    BY <1>3, <1>7 DEF ReadLength, ReadFirst
  <2> QED BY <1>2, <2>1, <2>2 DEF Program
<1>8. CASE ReadOn
  <2>1. Mailbox' /\ Holds(sharedMem', REG_FIFO + 128, 2)
    BY <1>8, FifoRead DEF ReadOn
  <2>2. pc = "read" /\ pc' = "read" /\ UNCHANGED <<i, call, done>>
    BY <1>8 DEF ReadOn, Go, portVars
  <2> QED BY <1>2, <2>1, <2>2
<1>9. CASE GetReturns \/ GetTimesOut
  <2>1. /\ pc \in {"read", "give up"} /\ pc' = "ready" /\ call' = "none"
        /\ buffer' = <<>> /\ UNCHANGED <<i, done>>
        /\ UNCHANGED <<sharedMem, signalled>> /\ ~signalled
    BY <1>9 DEF GetReturns, GetTimesOut, Leave, Go, Returned, EndGet
  <2> QED BY <1>1, <2>1 DEF Program, Pending, Mailbox
<1> QED BY <1>4, <1>6, <1>7, <1>8, <1>9 DEF Getting

LEMMA AskCalling ==
    ASSUME AskInv, Calling
    PROVE  AskInv'
<1> USE DEF AskInv
<1>1. CASE StartSend /\ UNCHANGED rate
  <2>1. Mailbox' /\ Holds(sharedMem', \h2F + 128, 3)
    BY <1>1, CountRead DEF StartSend
  <2>2. /\ pc = "ready" /\ pc' = "tx count" /\ call' = "send" /\ done' = FALSE
        /\ packet' \in Frames /\ UNCHANGED <<i, buffer, rate>>
    BY <1>1 DEF StartSend, localVars
  <2> QED BY <2>1, <2>2 DEF Program, Pending
<1>2. CASE StartGet /\ UNCHANGED rate
  <2>1. Mailbox' /\ Holds(sharedMem', SFRX, 1)
    BY <1>2, Cmd DEF StartGet
  <2>2. /\ pc = "ready" /\ pc' = "flush" /\ call' = "get"
        /\ UNCHANGED <<i, buffer, rate, done>>
    BY <1>2 DEF StartGet, localVars
  <2> QED BY <2>1, <2>2 DEF Program, Pending
<1>3. CASE ChangeRate
  <2>1. /\ pc = "ready" /\ pc' = "rate" /\ i' = 1 /\ rate' \in 1 .. 9
        /\ UNCHANGED <<buffer, call, packet, done>>
    BY <1>3, DriverAssumption, Rates DEF ChangeRate, portVars
  <2>2. Mailbox' /\ HoldsWrite(sharedMem', SYMBOL_RATE2,
                               RateWrites(MINSTREL_RATES[rate'])[1].val)
    BY <1>3, Write DEF ChangeRate
  <2>3. RateWrites(MINSTREL_RATES[rate'])[1].adr = SYMBOL_RATE2
    BY <2>1, EveryRateSpelt DEF Spelt
  <2>4. HoldsWrite(sharedMem', RateWrites(MINSTREL_RATES[rate'])[i'].adr,
                               RateWrites(MINSTREL_RATES[rate'])[i'].val)
    BY <2>1, <2>2, <2>3
  <2> QED BY <2>1, <2>2, <2>4 DEF Program, Pending
<1> QED BY <1>1, <1>2, <1>3 DEF Calling, Call

LEMMA AskStep ==
    ASSUME AskInv, [Next]_vars
    PROVE  AskInv'
<1> USE DEF AskInv
<1>1. CASE Driver
  BY <1>1, AskConfiguring, AskSending, AskGetting DEF Driver
<1>2. CASE Calling
  BY <1>2, AskCalling
<1>3. CASE Restart
  <2>1. /\ pc' = "boot" /\ i' = 0 /\ buffer' = <<>> /\ call' = "none"
        /\ done' = FALSE /\ signalled' = FALSE /\ UNCHANGED sharedMem
    BY <1>3 DEF Restart
  <2> QED BY <2>1 DEF Program, Pending, Mailbox
<1>4. CASE Pru
  <2>1. /\ UNCHANGED <<pc, i, buffer, rate, call, packet, done>> /\ ~signalled'
    BY <1>4 DEF Pru, Serve, localVars, portVars
  <2>2. Mailbox'
    BY <1>4 DEF Pru, Serve, Answer, Mailbox, Words
  <2>3. Program'
    BY <2>1 DEF Program
  <2>4. Pending'
    BY <2>1 DEF Pending
  <2> QED BY <2>2, <2>3, <2>4
<1>5. CASE ChipMoves
  <2>1. UNCHANGED <<sharedMem, signalled, pc, i, buffer, rate, call, packet>>
    BY <1>5 DEF ChipMoves, spiVars, localVars, portVars
  <2>2. (call = "send" /\ done' \in BOOLEAN) \/ done' = done
    BY <1>5 DEF ChipMoves, portVars
  <2> QED BY <2>1, <2>2, AskSame
<1>6. CASE Tick \/ UNCHANGED vars
  <2>1. UNCHANGED <<sharedMem, signalled, pc, i, buffer, rate, call, packet, done>>
    BY <1>6 DEF Tick, vars, spiVars, localVars, portVars
  <2> QED BY <2>1, AskSame
<1> QED BY <1>1, <1>2, <1>3, <1>4, <1>5, <1>6 DEF Next

HIDE DEF SetUpPoints, SendPoints, GetPoints
-----------------------------------------------------------------------------
(* The answers: what the PRU does with it                                  *)
\* A call goes on at its own points until it returns.
LEMMA Points ==
    /\ Sending => /\ pc \in SendPoints /\ pc' \in SendPoints \cup {"ready"}
                  /\ UNCHANGED rate /\ ~signalled
    /\ Getting => /\ pc \in GetPoints /\ pc' \in GetPoints \cup {"ready"}
                  /\ UNCHANGED rate /\ ~signalled
<1>1. ASSUME Sending
      PROVE  /\ pc \in SendPoints /\ pc' \in SendPoints \cup {"ready"}
             /\ UNCHANGED rate /\ ~signalled
  <2>1. UNCHANGED rate
    BY <1>1 DEF Sending
  <2> USE DEF SendPoints, Go, Returned
  <2>2. CASE GoIdle \/ AwaitIdle \/ WriteLength \/ WriteByte \/ Filled
    BY <2>1, <2>2 DEF GoIdle, AwaitIdle, WriteLength, WriteByte, Filled, Poll, Then
  <2>3. CASE GoTx \/ AwaitTx \/ Entered \/ AwaitEnd \/ SendReturns
    BY <2>1, <2>3 DEF GoTx, AwaitTx, Entered, AwaitEnd, SendReturns, Poll, Then, Leave
  <2> QED BY <1>1, <2>2, <2>3 DEF Sending
<1>2. ASSUME Getting
      PROVE  /\ pc \in GetPoints /\ pc' \in GetPoints \cup {"ready"}
             /\ UNCHANGED rate /\ ~signalled
  <2>1. UNCHANGED rate
    BY <1>2 DEF Getting
  <2> USE DEF GetPoints, Go, Returned
  <2>2. CASE GoRx \/ AwaitRx \/ Listen \/ Nothing \/ ReadLength \/ GotLength
    BY <2>1, <2>2
       DEF GoRx, AwaitRx, Listen, Nothing, ReadLength, GotLength, Look, Poll, Then
  <2>3. CASE Incomplete \/ ReadFirst \/ ReadOn \/ GetReturns \/ GetTimesOut
    BY <2>1, <2>3
       DEF Incomplete, ReadFirst, ReadOn, GetReturns, GetTimesOut, Look, Then, Leave
  <2> QED BY <1>2, <2>2, <2>3 DEF Getting
<1> QED BY <1>1, <1>2

\* What the PRU does
LEMMA PruStrobe ==
    ASSUME Pru, NEW cmd, Holds(sharedMem, cmd, 1)
    PROVE  Strobe(cmd)
BY DEF Pru, Serve, Holds

LEMMA PruFifo ==
    /\ Pru /\ Holds(sharedMem, REG_FIFO, 2) => WriteFifo(sharedMem[1])
    /\ Pru /\ Holds(sharedMem, REG_FIFO + 128, 2) /\ Mailbox =>
          ReadFifo /\ sharedMem'[6] = FifoByte
    /\ Pru /\ Holds(sharedMem, PKT_LEN + 128, 2) => UNCHANGED chipVars
<1>1. ASSUME Pru, Holds(sharedMem, REG_FIFO, 2)
      PROVE  WriteFifo(sharedMem[1])
  BY <1>1 DEF Pru, Serve, Holds, REG_FIFO
<1>2. ASSUME Pru, Holds(sharedMem, REG_FIFO + 128, 2), Mailbox
      PROVE  ReadFifo /\ sharedMem'[6] = FifoByte
  <2>1. ReadFifo /\ Answer(FifoByte, 0)
    BY <1>2 DEF Pru, Serve, Holds, REG_FIFO
  <2> QED BY <1>2, <2>1 DEF Answer, Mailbox, Words
<1>3. ASSUME Pru, Holds(sharedMem, PKT_LEN + 128, 2)
      PROVE  UNCHANGED chipVars
  BY <1>3 DEF Pru, Serve, Holds, REG_FIFO, PKT_LEN
<1> QED BY <1>1, <1>2, <1>3

LEMMA PruCount ==
    ASSUME Pru, Mailbox, Holds(sharedMem, \h2F + 128, 3)
    PROVE  /\ UNCHANGED chipVars
           /\ sharedMem'[7] = Register(EXT_ADR + sharedMem[1])
<1>1. UNCHANGED chipVars /\ Answer(0, Register(EXT_ADR + sharedMem[1]))
  BY DEF Pru, Serve, Holds
<1> QED BY <1>1 DEF Answer, Mailbox, Words

\* The registers of the model are in the first table.
LEMMA WatchedAre == \A a \in Watched : a \in 0 .. 46
BY DEF Watched, SYMBOL_RATE2, SYMBOL_RATE1, SYMBOL_RATE0, PKT_CFG2, PKT_CFG1,
       PKT_CFG0, RFEND_CFG1, RFEND_CFG0, PKT_LEN

\* An address of the first table reaches its register.
LEMMA PruWrite ==
    ASSUME Pru, NEW adr \in 0 .. 46, NEW val \in 0 .. 255, HoldsWrite(sharedMem, adr, val)
    PROVE  WriteRegister(adr, val)
<1>1. ~IsExtended(adr) /\ adr % 256 = adr
  BY Low
<1>2. Holds(sharedMem, adr, 2) /\ sharedMem[1] = val
  BY <1>1 DEF HoldsWrite
<1> QED BY <1>2 DEF Pru, Serve, Holds, REG_FIFO

\* One of the second table reaches the register behind its second byte.
LEMMA PruWriteExt ==
    ASSUME Pru, NEW adr \in {EXT_ADR + x : x \in 0 .. 255}, NEW val \in 0 .. 255,
           HoldsWrite(sharedMem, adr, val)
    PROVE  \E y \in 0 .. 255 : WriteRegister(EXT_ADR + y, val)
<1>1. PICK x \in 0 .. 255 : adr = EXT_ADR + x
  OBVIOUS
<1>2. IsExtended(adr) /\ adr % 256 = x /\ val % 256 = val
  BY <1>1, High
<1>3. Holds(sharedMem, \h2F, 3) /\ sharedMem[1] = x /\ sharedMem[2] = val
  BY <1>2 DEF HoldsWrite
<1>4. WriteRegister(EXT_ADR + x, val)
  BY <1>3 DEF Pru, Serve, Holds
<1> QED BY <1>4

\* Either way one register is written.
LEMMA PruWrites ==
    ASSUME Pru, NEW adr \in 0 .. 46 \cup {EXT_ADR + x : x \in 0 .. 255},
           NEW val \in 0 .. 255, HoldsWrite(sharedMem, adr, val)
    PROVE  \E y : WriteRegister(y, val)
<1>1. CASE adr \in 0 .. 46
  <2>1. WriteRegister(adr, val)
    BY <1>1, PruWrite
  <2> QED BY <2>1
<1>2. CASE adr \in {EXT_ADR + x : x \in 0 .. 255}
  <2>1. PICK y \in 0 .. 255 : WriteRegister(EXT_ADR + y, val)
    BY <1>2, PruWriteExt
  <2> QED BY <2>1
<1> QED BY <1>1, <1>2

\* One register changes.
LEMMA WriteEffect ==
    ASSUME NEW adr, NEW val, WriteRegister(adr, val)
    PROVE  /\ UNCHANGED <<mode, goal, rxfifo, txfifo, incoming, frame, arrivals>>
           /\ regs \in [Watched -> 0 .. 255] =>
                 \A a \in Watched : regs'[a] = IF a = adr THEN val ELSE regs[a]
BY DEF WriteRegister

LEMMA ExtNotWatched == \A y \in 0 .. 255 : EXT_ADR + y \notin Watched
BY WatchedAre DEF EXT_ADR

\* The call of each point, served
LEMMA PruEffect ==
    ASSUME AskInv, Pru
    PROVE  /\ pc = "reset" => Strobe(SRES)
           /\ pc = "idle" => Strobe(SIDLE) \/ UNCHANGED chipVars
           /\ pc = "enter" => Strobe(STX) \/ UNCHANGED chipVars
           /\ pc = "rx" => Strobe(SRX) \/ UNCHANGED chipVars
           /\ pc \in {"flush", "give up"} => Strobe(SFRX)
           /\ pc = "fill" => WriteFifo(sharedMem[1])
           /\ pc \in {"length", "read"} => ReadFifo /\ sharedMem'[6] = FifoByte
           /\ pc \in {"count", "rest"} => sharedMem'[7] = Len(rxfifo)
           /\ pc \in {"boot", "exit", "ready", "snop", "control", "tx count", "filled",
                      "leave", "count", "rest"} => UNCHANGED chipVars
           /\ pc \notin {"reset", "config", "rate"} => UNCHANGED regs
           /\ signalled /\ ~signalled' /\ sharedMem'[5] = mode * 16
           /\ UNCHANGED <<pc, i, rate, pkt_len, buffer, call, packet, done>>
<1>1. /\ signalled /\ ~signalled'
      /\ UNCHANGED <<pc, i, rate, pkt_len, buffer, call, packet, done>>
  BY DEF Pru, Serve, localVars, portVars
<1>2. Mailbox /\ Program /\ Pending
  BY DEF AskInv
<1>3. sharedMem'[5] = mode * 16
  BY <1>2 DEF Pru, Serve, Answer, Mailbox, Words
<1>4. Strobe(SNOP) => UNCHANGED chipVars
  BY DEF Strobe, SRES, SIDLE, SRX, STX, SFRX, SNOP
<1>5. /\ pc = "reset" => Strobe(SRES)
      /\ pc = "idle" => Strobe(SIDLE) \/ UNCHANGED chipVars
      /\ pc = "enter" => Strobe(STX) \/ UNCHANGED chipVars
      /\ pc = "rx" => Strobe(SRX) \/ UNCHANGED chipVars
      /\ pc \in {"flush", "give up"} => Strobe(SFRX)
      /\ pc \in {"snop", "leave"} => UNCHANGED chipVars
  <2>1. \A cmd : Holds(sharedMem, cmd, 1) => Strobe(cmd)
    BY PruStrobe
  <2>2. /\ pc = "reset" => Holds(sharedMem, SRES, 1)
        /\ pc = "idle" => Holds(sharedMem, SIDLE, 1) \/ Holds(sharedMem, SNOP, 1)
        /\ pc = "enter" => Holds(sharedMem, STX, 1) \/ Holds(sharedMem, SNOP, 1)
        /\ pc = "rx" => Holds(sharedMem, SRX, 1) \/ Holds(sharedMem, SNOP, 1)
        /\ pc \in {"flush", "give up"} => Holds(sharedMem, SFRX, 1)
        /\ pc \in {"snop", "leave"} => Holds(sharedMem, SNOP, 1)
    BY <1>1, <1>2 DEF Pending
  <2> QED BY <1>4, <2>1, <2>2, Zenon
<1>6. /\ pc = "fill" => WriteFifo(sharedMem[1])
      /\ pc \in {"length", "read"} => ReadFifo /\ sharedMem'[6] = FifoByte
      /\ pc = "control" => UNCHANGED chipVars
  BY <1>1, <1>2, PruFifo DEF Pending
<1>7. pc \in {"tx count", "filled", "count", "rest"} => UNCHANGED chipVars
  BY <1>1, <1>2, PruCount DEF Pending
<1>8. pc \in {"count", "rest"} => sharedMem'[7] = Len(rxfifo)
  <2>1. SUFFICES ASSUME pc \in {"count", "rest"} PROVE sharedMem'[7] = Len(rxfifo)
    OBVIOUS
  <2>2. sharedMem[1] = \hD7 /\ Holds(sharedMem, \h2F + 128, 3)
    BY <1>1, <1>2, <2>1 DEF Pending
  <2>3. sharedMem'[7] = Register(EXT_ADR + sharedMem[1])
    BY <1>2, <2>2, PruCount
  <2>4. EXT_ADR + sharedMem[1] = NUM_RXBYTES
    BY <2>2 DEF EXT_ADR, NUM_RXBYTES
  <2>5. NUM_RXBYTES \notin Watched /\ NUM_RXBYTES # NUM_TXBYTES
    BY WatchedAre DEF NUM_RXBYTES, NUM_TXBYTES
  <2> QED BY <2>3, <2>4, <2>5 DEF Register
<1>9. pc \notin {"boot", "exit", "ready"}
  BY <1>1, <1>2 DEF Pending
<1>10. pc \notin {"reset", "config", "rate"} => UNCHANGED regs
  <2>1. \A cmd : Strobe(cmd) /\ cmd # SRES => UNCHANGED regs
    BY DEF Strobe, chipVars
  <2>2. UNCHANGED chipVars \/ WriteFifo(sharedMem[1]) \/ ReadFifo => UNCHANGED regs
    BY DEF chipVars, WriteFifo, ReadFifo
  <2>3. SIDLE # SRES /\ STX # SRES /\ SRX # SRES /\ SFRX # SRES
    BY DEF SRES, SIDLE, SRX, STX, SFRX
  <2>4. pc \in {"idle", "enter", "rx", "flush", "give up", "snop", "leave", "fill", "length",
                "read", "control", "tx count", "filled", "count", "rest",
                "reset", "config", "rate"}
    BY <1>2, <1>9 DEF Program, SetUpPoints, SendPoints, GetPoints
  <2> QED BY <1>5, <1>6, <1>7, <2>1, <2>2, <2>3, <2>4
<1> QED BY <1>1, <1>3, <1>5, <1>6, <1>7, <1>8, <1>9, <1>10
-----------------------------------------------------------------------------
(* The registers                                                           *)
\* Register a after the first k writes of cc1200_init
Stored(k, a) ==
    CASE a = PKT_CFG0 /\ k >= 178 -> 32
      [] a = PKT_LEN /\ k >= 180 -> 50
      [] ~(a = PKT_CFG0 /\ k >= 178) /\ ~(a = PKT_LEN /\ k >= 180) ->
            IF k > a THEN StdValues[a + 1] ELSE 0

\* The registers of the symbol rate
RateRegisters == {SYMBOL_RATE2, SYMBOL_RATE1, SYMBOL_RATE0}

\* What has been stored so far, what the packet format needs, and the rate
AllStored(k) == \A a \in Watched : regs[a] = Stored(k, a)

FormatStored == \A a \in Watched \ RateRegisters : regs[a] = Stored(180, a)

RateStored ==
    Spells(regs[SYMBOL_RATE2], regs[SYMBOL_RATE1], regs[SYMBOL_RATE0], MINSTREL_RATES[rate])

\* Writes that have reached the radio
Written == IF signalled THEN i - 1 ELSE i

\* The rate that cc1200_change_rate is writing
PartlySpelt ==
    LET w == RateWrites(MINSTREL_RATES[rate])
    IN  /\ Written >= 1 => regs[SYMBOL_RATE2] = w[1].val
        /\ Written >= 2 => regs[SYMBOL_RATE1] = w[2].val
        /\ Written >= 3 => regs[SYMBOL_RATE0] = w[3].val

\* The registers at each point of the program: all zero after the reset, then the
\* writes of cc1200_init one by one, later the format for good and a spelt rate
\* except while a new one is written.
RegsInv ==
    /\ regs \in [Watched -> 0 .. 255]
    /\ regs[RFEND_CFG1] \in {0, \h0F} /\ regs[RFEND_CFG0] = 0
    /\ pc = "snop" \/ (pc = "reset" /\ ~signalled) => AllStored(0)
    /\ pc = "config" => AllStored(Written)
    /\ pc = "control" => AllStored(180)
    /\ pc \in {"ready", "rate"} \cup SendPoints \cup GetPoints => FormatStored
    /\ pc \in {"ready"} \cup SendPoints \cup GetPoints => RateStored
    /\ pc = "rate" => PartlySpelt

\* The addresses, for the provers
LEMMA WatchedNamed ==
    /\ Watched = {19, 20, 21, 38, 39, 40, 41, 42, 46}
    /\ RateRegisters = {19, 20, 21}
    /\ SYMBOL_RATE2 = 19 /\ SYMBOL_RATE1 = 20 /\ SYMBOL_RATE0 = 21
    /\ PKT_CFG2 = 38 /\ PKT_CFG1 = 39 /\ PKT_CFG0 = 40 /\ PKT_LEN = 46
    /\ RFEND_CFG1 = 41 /\ RFEND_CFG0 = 42
BY DEF Watched, RateRegisters, SYMBOL_RATE2, SYMBOL_RATE1, SYMBOL_RATE0, PKT_CFG2,
       PKT_CFG1, PKT_CFG0, RFEND_CFG1, RFEND_CFG0, PKT_LEN

\* What cc1200_init has stored is a byte; before the first write it is zero.
LEMMA StoredByte ==
    ASSUME NEW a \in Watched, NEW k \in 0 .. 180
    PROVE  Stored(k, a) \in 0 .. 255
<1>1. a + 1 \in 1 .. 47
  BY WatchedAre
<1>2. StdValues[a + 1] \in 0 .. 255
  BY <1>1, StdByte
<1> QED BY <1>2 DEF Stored

LEMMA StoredNone == \A a \in Watched : Stored(0, a) = 0
BY WatchedAre DEF Stored

\* Every write of cc1200_init is one of a byte to a register of the two tables.
LEMMA WritesAre ==
    \A k \in 1 .. 180 :
        /\ InitWrites[k].adr \in 0 .. 46 \cup {EXT_ADR + x : x \in 0 .. 255}
        /\ InitWrites[k].val \in 0 .. 255
<1> TAKE k \in 1 .. 180
<1>1. CASE k \in 1 .. 47
  <2>1. InitWrites[k].adr = k - 1 /\ InitWrites[k].val = StdValues[k]
    BY <1>1, InitWritesAre
  <2>2. StdValues[k] \in 0 .. 255 /\ k - 1 \in 0 .. 46
    BY <1>1, StdByte
  <2> QED BY <2>1, <2>2
<1>2. CASE k \in 48 .. 177
  <2>1. InitWrites[k].adr = ExtAddress(k - 48) /\ InitWrites[k].val = ExtValues[k - 47]
    BY <1>2, InitWritesAre
  <2>2. \E x \in 0 .. 255 : ExtAddress(k - 48) = EXT_ADR + x
    <3> DEFINE j == k - 48
    <3>1. j \in 0 .. 129
      BY <1>2
    <3> HIDE DEF j
    <3>2. \E x \in {j, j + 42, j + 89} : ExtAddress(j) = EXT_ADR + x
      BY <3>1 DEF ExtAddress
    <3>3. {j, j + 42, j + 89} \subseteq 0 .. 255
      BY <3>1
    <3> QED BY <3>2, <3>3 DEF j
  <2>3. ExtValues[k - 47] \in 0 .. 255
    <3>1. k - 47 \in 1 .. 130
      BY <1>2
    <3> QED BY <3>1, ExtByte
  <2> QED BY <2>1, <2>2, <2>3
<1>3. CASE k \in {178, 179, 180}
  <2>1. InitWrites[k].adr \in {38, 40, 46} /\ InitWrites[k].val \in {0, 32, 50}
    BY <1>3, InitWritesAre, WatchedNamed
  <2> QED BY <2>1
<1> QED BY <1>1, <1>2, <1>3

\* One more write
LEMMA StoredOn ==
    ASSUME NEW k \in 1 .. 180, NEW a \in Watched
    PROVE  Stored(k, a) = IF a = InitWrites[k].adr THEN InitWrites[k].val
                                                   ELSE Stored(k - 1, a)
<1>1. a \in 0 .. 46
  BY WatchedAre
<1>2. CASE k \in 1 .. 47
  <2>1. InitWrites[k].adr = k - 1 /\ InitWrites[k].val = StdValues[k]
    BY <1>2, InitWritesAre
  <2>2. StdValues[k] \in 0 .. 255
    BY <1>2, StdByte
  <2>3. CASE a = k - 1
    BY <1>1, <1>2, <2>1, <2>2, <2>3 DEF Stored
  <2>4. CASE a # k - 1
    <3>1. (k > a) <=> (k - 1 > a)
      BY <1>1, <2>4
    <3> QED BY <1>1, <1>2, <2>1, <2>2, <2>4, <3>1 DEF Stored
  <2> QED BY <2>3, <2>4
<1>3. CASE k \in 48 .. 177
  <2>1. InitWrites[k].adr = ExtAddress(k - 48) /\ InitWrites[k].val = ExtValues[k - 47]
    BY <1>3, InitWritesAre
  <2>2. \A x \in 0 .. 129 : a # ExtAddress(x)
    BY <1>1 DEF ExtAddress, EXT_ADR
  <2>3. a # ExtAddress(k - 48)
    <3>1. k - 48 \in 0 .. 129
      BY <1>3
    <3> QED BY <2>2, <3>1
  <2>4. Stored(k, a) = Stored(k - 1, a)
    BY <1>1, <1>3 DEF Stored
  <2> QED BY <2>1, <2>3, <2>4
<1>4. CASE k = 178
  <2>1. InitWrites[k].adr = 40 /\ InitWrites[k].val = 32
    BY <1>4, InitWritesAre, WatchedNamed
  <2> QED BY <1>1, <1>4, <2>1, WatchedNamed DEF Stored
<1>5. CASE k = 179
  <2>1. InitWrites[k].adr = 38 /\ InitWrites[k].val = 0
    BY <1>5, InitWritesAre, WatchedNamed
  <2> QED BY <1>1, <1>5, <2>1, StdNamed, WatchedNamed DEF Stored
<1>6. CASE k = 180
  <2>1. InitWrites[k].adr = 46 /\ InitWrites[k].val = 50
    BY <1>6, InitWritesAre, WatchedNamed
  <2> QED BY <1>1, <1>6, <2>1, WatchedNamed DEF Stored
<1> QED BY <1>2, <1>3, <1>4, <1>5, <1>6

\* The radio goes to IDLE after a packet it has sent, and stays in RX or goes to IDLE
\* after one it has received.
LEMMA StoredRfend ==
    ASSUME NEW k \in 0 .. 180
    PROVE  Stored(k, RFEND_CFG1) \in {0, \h0F} /\ Stored(k, RFEND_CFG0) = 0
BY WatchedNamed, StdNamed DEF Stored

\* The rate of the table
LEMMA TableRate ==
    Spells(Stored(180, SYMBOL_RATE2), Stored(180, SYMBOL_RATE1), Stored(180, SYMBOL_RATE0),
           MINSTREL_RATES[2])
<1>1. /\ Stored(180, SYMBOL_RATE2) = \h3F /\ Stored(180, SYMBOL_RATE1) = \h75
      /\ Stored(180, SYMBOL_RATE0) = \h10
  BY WatchedNamed, StdNamed DEF Stored
<1>2. Field(\h3F, 4, 4) = 3 /\ Field(\h3F, 0, 4) = 15
  BY DEF Field
<1>3. ASSUME NEW e, e = 3 PROVE 2^e = 8
  BY <1>3
<1>4. 2^Field(\h3F, 4, 4) = 8
  BY <1>2, <1>3
<1>5. Scaled(1200) = 16492674 /\ MINSTREL_RATES[2] = 1200
  BY DEF Scaled, MINSTREL_RATES
<1> QED BY <1>1, <1>2, <1>4, <1>5 DEF Spells

\* The registers, step by step
LEMMA RegsInit == Init => RegsInv
<1> SUFFICES ASSUME Init PROVE RegsInv
  OBVIOUS
<1>1. pc = "boot" /\ regs = [a \in Watched |-> 0]
  BY DEF Init, ChipInit
<1> QED BY <1>1, WatchedNamed DEF RegsInv, SendPoints, GetPoints

\* The driver itself leaves the registers alone
LEMMA RegsDriver ==
    ASSUME AskInv, RegsInv, UNCHANGED chipVars, Driver \/ Calling
    PROVE  RegsInv'
<1>1. UNCHANGED regs
  BY DEF chipVars
<1>2. /\ regs' \in [Watched -> 0 .. 255]
      /\ regs'[RFEND_CFG1] \in {0, \h0F} /\ regs'[RFEND_CFG0] = 0
  BY <1>1 DEF RegsInv
<1>3. /\ \A k : AllStored(k) => AllStored(k)'
      /\ FormatStored => FormatStored'
      /\ UNCHANGED rate => (RateStored => RateStored')
  BY <1>1 DEF AllStored, FormatStored, RateStored
<1> USE DEF SetUpPoints, SendPoints, GetPoints
<1>4. ASSUME pc \in {"ready"} \cup SendPoints \cup GetPoints,
             pc' \in {"ready"} \cup SendPoints \cup GetPoints, UNCHANGED rate
      PROVE  RegsInv'
  BY <1>2, <1>3, <1>4 DEF RegsInv
<1>5. CASE Sending \/ Getting
  <2>1. /\ pc \in SendPoints \cup GetPoints /\ UNCHANGED rate
        /\ pc' \in {"ready"} \cup SendPoints \cup GetPoints
    BY <1>5, Points
  <2> QED BY <1>4, <2>1
<1>6. CASE (StartSend \/ StartGet) /\ UNCHANGED rate
  BY <1>4, <1>6 DEF StartSend, StartGet
<1>7. CASE ChangeRate
  <2>1. pc = "ready" /\ pc' = "rate" /\ i' = 1 /\ signalled'
    BY <1>7, Write DEF ChangeRate, AskInv
  <2>2. PartlySpelt'
    BY <2>1 DEF PartlySpelt, Written
  <2> QED BY <1>2, <1>3, <2>1, <2>2 DEF RegsInv
<1>8. CASE Boot \/ BootFails
  <2>1. (pc' = "reset" /\ signalled') \/ pc' = "exit"
    BY <1>8, Cmd DEF Boot, BootFails, AskInv
  <2> QED BY <1>2, <2>1 DEF RegsInv
<1>9. CASE Reset
  <2>1. pc = "reset" /\ ~signalled /\ pc' = "snop"
    BY <1>9 DEF Reset, Go, Returned
  <2> QED BY <1>2, <1>3, <2>1 DEF RegsInv
<1>10. CASE Configure
  <2>1. /\ pc \in {"snop", "config"} /\ pc' = "config" /\ i' = i + 1 /\ ~signalled
        /\ signalled' /\ i \in Nat
    <3>1. /\ pc \in {"snop", "config"} /\ pc' = "config" /\ i' = i + 1 /\ ~signalled
      BY <1>10 DEF Configure, Go, Returned
    <3>2. cc1200_reg_write(InitWrites[i'].adr, InitWrites[i'].val)
      BY <1>10 DEF Configure
    <3>3. signalled'
      BY <3>2, Write DEF AskInv
    <3>4. i \in Nat
      <4> HIDE DEF SetUpPoints, SendPoints, GetPoints
      <4>1. Program
        BY DEF AskInv
      <4>2. pc \in {"snop", "config"}
        BY <3>1
      <4>3. i \in 0 .. 180
        BY <4>1, <4>2 DEF Program
      <4> QED BY <4>3
    <3> QED BY <3>1, <3>3, <3>4
  <2>2. AllStored(i)
    <3>1. CASE pc = "snop"
      BY <3>1 DEF RegsInv, AskInv, Program
    <3>2. CASE pc = "config"
      BY <2>1, <3>2 DEF RegsInv, Written
    <3> QED BY <2>1, <3>1, <3>2
  <2>3. Written' = i
    BY <2>1 DEF Written
  <2>4. AllStored(Written)'
    BY <1>1, <2>2, <2>3 DEF AllStored
  <2> QED BY <1>2, <2>1, <2>4 DEF RegsInv
<1>11. CASE Control
  <2>1. pc = "config" /\ pc' = "control" /\ i = 180 /\ ~signalled
    BY <1>11, InitWritesAre DEF Control, Go, Returned
  <2>2. AllStored(180)
    BY <2>1 DEF RegsInv, Written
  <2> QED BY <1>2, <1>3, <2>1, <2>2 DEF RegsInv
<1>12. CASE InitEnds
  <2>1. pc = "control" /\ pc' = "ready" /\ rate' = 2
    BY <1>12 DEF InitEnds, Leave, Go
  <2>2. AllStored(180)'
    BY <1>3, <2>1 DEF RegsInv
  <2>3. FormatStored' /\ RateStored'
    BY <2>1, <2>2, TableRate, WatchedNamed DEF AllStored, FormatStored, RateStored
  <2> QED BY <1>2, <2>1, <2>3 DEF RegsInv
<1>13. CASE ChangeRateOn
  <2>1. /\ pc = "rate" /\ pc' = "rate" /\ i' = i + 1 /\ ~signalled /\ UNCHANGED rate
        /\ signalled' /\ i \in Nat
    <3>1. pc = "rate" /\ pc' = "rate" /\ i' = i + 1 /\ ~signalled /\ UNCHANGED rate
      BY <1>13 DEF ChangeRateOn, Go, Returned
    <3>2. signalled'
      BY <1>13, Write DEF ChangeRateOn, AskInv
    <3>3. i \in Nat
      BY <3>1 DEF AskInv, Program
    <3> QED BY <3>1, <3>2, <3>3
  <2>2. Written' = Written
    BY <2>1 DEF Written
  <2>3. PartlySpelt'
    BY <1>1, <2>1, <2>2 DEF PartlySpelt, RegsInv
  <2> QED BY <1>2, <1>3, <2>1, <2>3 DEF RegsInv
<1>14. CASE RateChanged
  <2>1. pc = "rate" /\ pc' = "ready" /\ i = 3 /\ ~signalled /\ UNCHANGED rate
    BY <1>14 DEF RateChanged, Leave, Go, Returned
  <2>2. rate \in 1 .. 9
    BY <2>1 DEF AskInv, Program
  <2>3. RateStored
    <3> DEFINE w == RateWrites(MINSTREL_RATES[rate])
    <3>1. /\ regs[SYMBOL_RATE2] = w[1].val /\ regs[SYMBOL_RATE1] = w[2].val
          /\ regs[SYMBOL_RATE0] = w[3].val
      BY <2>1 DEF RegsInv, PartlySpelt, Written
    <3>2. Spells(w[1].val, w[2].val, w[3].val, MINSTREL_RATES[rate])
      BY <2>2, EveryRateSpelt DEF Spelt
    <3> QED BY <3>1, <3>2 DEF RateStored
  <2> QED BY <1>2, <1>3, <2>1, <2>3 DEF RegsInv
<1> QED BY <1>5, <1>6, <1>7, <1>8, <1>9, <1>10, <1>11, <1>12, <1>13, <1>14
       DEF Driver, Configuring, Calling, Call

LEMMA RegsPru ==
    ASSUME AskInv, RegsInv, Pru
    PROVE  RegsInv'
<1> USE DEF SetUpPoints, SendPoints, GetPoints
<1>1. signalled /\ ~signalled' /\ UNCHANGED <<pc, i, rate>>
  BY PruEffect
<1>0. regs \in [Watched -> 0 .. 255]
  BY DEF RegsInv
<1>2. CASE pc \notin {"reset", "config", "rate"}
  <2>1. UNCHANGED regs
    BY <1>2, PruEffect
  <2>2. /\ \A k : AllStored(k) => AllStored(k)'
        /\ FormatStored => FormatStored'
        /\ RateStored => RateStored'
    BY <1>1, <2>1 DEF AllStored, FormatStored, RateStored
  <2> QED BY <1>1, <1>2, <2>1, <2>2 DEF RegsInv
<1>3. CASE pc = "reset"
  <2>1. regs' = [a \in Watched |-> 0]
    <3>1. Strobe(SRES)
      BY <1>3, PruEffect
    <3> QED BY <3>1 DEF Strobe, SRES, SIDLE, SRX, STX, SFRX, SNOP
  <2>2. AllStored(0)'
    BY <2>1, StoredNone DEF AllStored
  <2> QED BY <1>1, <1>3, <2>1, <2>2, WatchedNamed DEF RegsInv
<1>4. CASE pc = "config"
  <2>1. i \in 1 .. 180 /\ HoldsWrite(sharedMem, InitWrites[i].adr, InitWrites[i].val)
    BY <1>1, <1>4 DEF AskInv, Program, Pending
  <2> DEFINE adr == InitWrites[i].adr
             val == InitWrites[i].val
  <2>2. adr \in 0 .. 46 \cup {EXT_ADR + x : x \in 0 .. 255} /\ val \in 0 .. 255
    <3> HIDE DEF adr, val
    <3> QED BY <2>1, WritesAre, Zenon DEF adr, val
  <2>3. \A a \in Watched : Stored(i, a) = IF a = adr THEN val ELSE Stored(i - 1, a)
    BY <2>1, StoredOn
  <2>4. HoldsWrite(sharedMem, adr, val)
    BY <2>1
  <2> HIDE DEF adr, val
  <2>5. \A a \in Watched : regs'[a] = IF a = adr THEN val ELSE regs[a]
    <3>1. CASE adr \in 0 .. 46
      <4>1. WriteRegister(adr, val)
        BY <2>2, <2>4, <3>1, PruWrite
      <4> QED BY <1>0, <4>1, WriteEffect
    <3>2. CASE adr \in {EXT_ADR + x : x \in 0 .. 255}
      <4>1. PICK y \in 0 .. 255 : WriteRegister(EXT_ADR + y, val)
        BY <2>2, <2>4, <3>2, PruWriteExt
      <4>2. \A a \in Watched : regs'[a] = regs[a]
        <5>1. EXT_ADR + y \notin Watched
          BY ExtNotWatched
        <5> QED BY <1>0, <4>1, <5>1 DEF WriteRegister
      <4>3. adr \notin Watched
        BY <3>2, ExtNotWatched
      <4> QED BY <4>2, <4>3
    <3> QED BY <2>2, <3>1, <3>2
  <2>6. \A a \in Watched : regs[a] = Stored(i - 1, a)
    BY <1>1, <1>4 DEF RegsInv, Written, AllStored
  <2>7. \A a \in Watched : regs'[a] = Stored(i, a)
    BY <2>3, <2>5, <2>6
  <2>8. AllStored(Written)'
    BY <1>1, <2>7 DEF AllStored, Written
  <2>9. regs' \in [Watched -> 0 .. 255]
    <3>1. \A a \in Watched : regs'[a] \in 0 .. 255
      <4>1. i \in 0 .. 180
        BY <2>1
      <4>2. \A a \in Watched : Stored(i, a) \in 0 .. 255
        BY <4>1, StoredByte
      <4> QED BY <2>7, <4>2
    <3>2. PICK y : WriteRegister(y, val)
      BY <2>2, <2>4, PruWrites
    <3>3. regs' = [regs EXCEPT ![y] = val] \/ regs' = regs
      BY <3>2 DEF WriteRegister
    <3> QED BY <2>2, <3>1, <3>3 DEF RegsInv
  <2>10. regs'[RFEND_CFG1] \in {0, \h0F} /\ regs'[RFEND_CFG0] = 0
    BY <2>1, <2>7, StoredRfend, WatchedNamed
  <2> QED BY <1>1, <1>4, <2>8, <2>9, <2>10 DEF RegsInv
<1>5. CASE pc = "rate"
  <2> DEFINE w == RateWrites(MINSTREL_RATES[rate])
  <2>1. i \in 1 .. 3 /\ rate \in 1 .. 9 /\ HoldsWrite(sharedMem, w[i].adr, w[i].val)
    BY <1>1, <1>5 DEF AskInv, Program, Pending
  <2>2. /\ w[1].adr = 19 /\ w[2].adr = 20 /\ w[3].adr = 21
        /\ \A k \in 1 .. 3 : w[k].val \in 0 .. 255
    BY <2>1, EveryRateSpelt, WatchedNamed DEF Spelt
  <2>3. /\ i > 1 => regs[19] = w[1].val
        /\ i > 2 => regs[20] = w[2].val
    BY <1>1, <1>5, <2>1, WatchedNamed DEF RegsInv, PartlySpelt, Written
  <2> HIDE DEF w
  <2>4. w[i].adr \in {19, 20, 21} /\ w[i].val \in 0 .. 255
    BY <2>1, <2>2
  <2>5. WriteRegister(w[i].adr, w[i].val)
    <3>1. PICK a, v : a = w[i].adr /\ v = w[i].val
      OBVIOUS
    <3>2. a \in 0 .. 46 /\ v \in 0 .. 255
      BY <2>4, <3>1
    <3>3. HoldsWrite(sharedMem, a, v)
      BY <2>1, <3>1
    <3>4. WriteRegister(a, v)
      BY <3>2, <3>3, PruWrite
    <3> QED BY <3>1, <3>4
  <2>6. \A a \in Watched : regs'[a] = IF a = w[i].adr THEN w[i].val ELSE regs[a]
    BY <1>0, <2>5, WriteEffect
  <2>7. regs' \in [Watched -> 0 .. 255]
    BY <2>4, <2>5 DEF WriteRegister, RegsInv
  <2>8. regs'[41] = regs[41] /\ regs'[42] = regs[42]
    BY <2>4, <2>6, WatchedNamed
  <2>9. FormatStored'
    BY <1>5, <2>4, <2>6, WatchedNamed DEF RegsInv, FormatStored
  <2>10. /\ i >= 1 => regs'[19] = w[1].val
         /\ i >= 2 => regs'[20] = w[2].val
         /\ i >= 3 => regs'[21] = w[3].val
    <3>1. 19 \in Watched /\ 20 \in Watched /\ 21 \in Watched
      BY WatchedNamed
    <3> QED BY <2>1, <2>2, <2>3, <2>6, <3>1
  <2>11. PartlySpelt'
    BY <1>1, <2>10, WatchedNamed DEF PartlySpelt, Written, w
  <2> QED BY <1>1, <1>5, <2>7, <2>8, <2>9, <2>11, WatchedNamed DEF RegsInv
<1> QED BY <1>2, <1>3, <1>4, <1>5

LEMMA RegsSame ==
    ASSUME RegsInv, UNCHANGED regs,
           UNCHANGED <<pc, i, rate, signalled>> \/ pc' = "boot"
    PROVE  RegsInv'
<1>1. CASE pc' = "boot"
  BY <1>1 DEF RegsInv, SendPoints, GetPoints
<1>2. CASE UNCHANGED <<pc, i, rate, signalled>>
  <2>1. /\ AllStored(0) => AllStored(0)'
        /\ AllStored(180) => AllStored(180)'
        /\ AllStored(Written) => AllStored(Written)'
        /\ FormatStored => FormatStored'
        /\ RateStored => RateStored'
        /\ PartlySpelt => PartlySpelt'
    BY <1>2 DEF AllStored, FormatStored, RateStored, PartlySpelt, Written
  <2> QED BY <1>2, <2>1 DEF RegsInv
<1> QED BY <1>1, <1>2

LEMMA RegsStep ==
    ASSUME AskInv, RegsInv, [Next]_vars
    PROVE  RegsInv'
<1>1. CASE Driver \/ Calling
  BY <1>1, RegsDriver DEF Driver, Calling
<1>2. CASE Pru
  BY <1>2, RegsPru
<1>3. CASE ChipMoves
  BY <1>3, RegsSame
     DEF ChipMoves, Settled, Arrive, Receive, Transmitted, spiVars, localVars
<1>4. CASE Restart
  BY <1>4, RegsSame DEF Restart, chipVars
<1>5. CASE Tick \/ UNCHANGED vars
  BY <1>5, RegsSame DEF Tick, vars, chipVars, spiVars, localVars
<1> QED BY <1>1, <1>2, <1>3, <1>4, <1>5 DEF Next

\* The registers of a radio that is ready are those the loops count on.
LEMMA ConfiguredHolds ==
    ASSUME RegsInv
    PROVE  Configured
<1> SUFFICES ASSUME pc = "ready"
             PROVE  /\ VariableLength /\ FifoMode
                    /\ Len(StatusBytes) = PKT_OVERHEAD
                    /\ \A p \in Frames : Len(p) <= regs[PKT_LEN]
                    /\ 2 * (1 + regs[PKT_LEN] + PKT_OVERHEAD) <= 128
                    /\ Field(regs[PKT_CFG0], 0, 5) = Field(RegSettings(PKT_CFG0).val, 0, 5)
                    /\ Field(regs[PKT_CFG2], 2, 6) = Field(RegSettings(PKT_CFG2).val, 2, 6)
                    /\ RateStored
  BY DEF Configured, RateStored
<1>1. FormatStored /\ RateStored
  BY DEF RegsInv
<1>2. /\ regs[PKT_CFG0] = 32 /\ regs[PKT_CFG1] = 3 /\ regs[PKT_CFG2] = 0
      /\ regs[PKT_LEN] = 50
  BY <1>1, WatchedNamed, StdNamed DEF FormatStored, Stored
<1>3. VariableLength /\ FifoMode /\ AppendStatus
  BY <1>2 DEF VariableLength, FifoMode, AppendStatus, Field
<1>4. Len(StatusBytes) = PKT_OVERHEAD
  BY <1>3 DEF StatusBytes, PKT_OVERHEAD
<1>5. \A p \in Frames : Len(p) <= regs[PKT_LEN]
  BY <1>2, ChipAssumption
<1>6. RegSettings(PKT_CFG0).val = 0 /\ RegSettings(PKT_CFG2).val = 0
  BY WatchedNamed, StdNamed DEF RegSettings
<1>7. /\ Field(regs[PKT_CFG0], 0, 5) = Field(RegSettings(PKT_CFG0).val, 0, 5)
      /\ Field(regs[PKT_CFG2], 2, 6) = Field(RegSettings(PKT_CFG2).val, 2, 6)
  BY <1>2, <1>6 DEF Field
<1> QED BY <1>1, <1>2, <1>3, <1>4, <1>5, <1>7 DEF PKT_OVERHEAD

\* Between two calls the radio has the format and the rate that the driver counts
\* on, however often the program was killed in the middle of its writes
\* (cc1200_rate.c:114-162).
THEOREM RadioConfigured == Spec => []Configured
<1>1. AskInv /\ RegsInv => Configured
  BY ConfiguredHolds
<1>2. Init => AskInv /\ RegsInv
  BY AskInit, RegsInit
<1>3. AskInv /\ RegsInv /\ [Next]_vars => AskInv' /\ RegsInv'
  BY AskStep, RegsStep
<1> QED BY <1>1, <1>2, <1>3, PTL DEF Spec
=============================================================================
