-------------------------------- MODULE Spi ---------------------------------
(***************************************************************************)
(* SPIv1.c: every access to the radio is a mailbox in the memory that the  *)
(* ARM core shares with the PRU.  The caller fills the words to send and   *)
(* their number, signals the PRU and waits; the PRU clocks the words out,  *)
(* puts what the chip answered three words further on and signals back.    *)
(* The first byte of the answer is the status the chip had BEFORE it saw   *)
(* the command; get_status_cc1200 returns that of the last call.           *)
(*                                                                         *)
(* A caller step is what happens between two waits: the end of one call,   *)
(* whatever the driver computes, and the beginning of the next call.       *)
(***************************************************************************)
EXTENDS Chip

VARIABLES
    sharedMem,      \* the words 0 to 3 and 5 to 7 of the mailbox
    signalled,      \* ARM_PRU0_INTERRUPT is on its way, the caller waits
    status_CC1200   \* the global of that name

spiVars == <<sharedMem, signalled, status_CC1200>>

Words == {0, 1, 2, 3, 5, 6, 7}

SpiInit ==
    /\ sharedMem = [w \in Words |-> 0]
    /\ signalled = FALSE
    /\ status_CC1200 = 255      \* 0xFFFFFFFF, of which bits 4 to 6 are used

State(status) == Field(status, 4, 3)

\* What get_status_cc1200 returns before the next call
get_status_cc1200 == State(status_CC1200)

\* What it returns at the end of the call that has been answered
StatusNow == State(sharedMem[5])
-----------------------------------------------------------------------------
(* The beginning of a call *)

Signal(words) ==
    /\ sharedMem' = words
    /\ signalled' = TRUE

cc1200_cmd(cmd) == Signal([sharedMem EXCEPT ![0] = cmd, ![3] = 1])

\* Mutant: the address is put into the mailbox as it is
cc1200_reg_write_NoMask(adr, val) ==
    IF IsExtended(adr)
    THEN Signal([sharedMem EXCEPT ![0] = \h2F, ![1] = adr,
                                  ![2] = val % 256, ![3] = 3])
    ELSE Signal([sharedMem EXCEPT ![0] = adr % 256, ![1] = val, ![3] = 2])

cc1200_reg_write(adr, val) ==
    IF IsExtended(adr)
    THEN Signal([sharedMem EXCEPT ![0] = \h2F, ![1] = adr % 256,
                                  ![2] = val % 256, ![3] = 3])
    ELSE Signal([sharedMem EXCEPT ![0] = adr % 256, ![1] = val, ![3] = 2])

cc1200_reg_read(adr) ==
    IF IsExtended(adr)
    THEN Signal([sharedMem EXCEPT ![0] = \h2F + 128, ![1] = adr % 256,
                                  ![2] = 0, ![3] = 3])
    ELSE Signal([sharedMem EXCEPT ![0] = (adr % 128) + 128, ![1] = 0, ![3] = 2])

(* The end of a call *)

\* The wait is over; the caller notes the status.  Signals nothing by itself.
Returned ==
    /\ ~signalled
    /\ status_CC1200' = sharedMem[5]

\* What cc1200_reg_read returns for that address
ValueOf(adr) == sharedMem[IF IsExtended(adr) THEN 7 ELSE 6]
-----------------------------------------------------------------------------
(* The PRU: takes the mailbox through the SPI bus *)

Answer(w6, w7) ==
    sharedMem' = [sharedMem EXCEPT ![5] = mode * 16, ![6] = w6, ![7] = w7]

Serve ==
    LET header == sharedMem[0]
        reading == header >= 128
        n == sharedMem[3]
        short == header % 128
        extended == EXT_ADR + sharedMem[1]
    IN  /\ signalled /\ signalled' = FALSE
        /\ UNCHANGED status_CC1200
        /\ \/ n = 1 /\ Strobe(header) /\ Answer(0, 0)
           \/ /\ n = 2 /\ reading /\ short = REG_FIFO
              /\ ReadFifo /\ Answer(FifoByte, 0)
           \/ /\ n = 2 /\ reading /\ short # REG_FIFO
              /\ Answer(Register(short), 0) /\ UNCHANGED chipVars
           \/ /\ n = 2 /\ ~reading /\ short = REG_FIFO
              /\ WriteFifo(sharedMem[1]) /\ Answer(0, 0)
           \/ /\ n = 2 /\ ~reading /\ short # REG_FIFO
              /\ WriteRegister(short, sharedMem[1]) /\ Answer(0, 0)
           \/ /\ n = 3 /\ reading
              /\ Answer(0, Register(extended)) /\ UNCHANGED chipVars
           \/ /\ n = 3 /\ ~reading
              /\ WriteRegister(extended, sharedMem[2]) /\ Answer(0, 0)
=============================================================================
