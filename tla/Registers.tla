----------------------------- MODULE Registers ------------------------------
(***************************************************************************)
(* What cc1200_rate.c writes into the registers of the radio: the tables   *)
(* of register_config.c, the packet format bits and the symbol rate.  Pure *)
(* operators on numbers; a register is written `field by field', so a      *)
(* field is named by its lowest bit and its width.                         *)
(***************************************************************************)
EXTENDS Integers, Sequences

\* Bits lo .. lo + width - 1 of x
Field(x, lo, width) == (x \div 2^lo) % 2^width

\* Register addresses (register_config.h), as far as the model interprets them
EXT_ADR == \h2F00
SYMBOL_RATE2 == \h13
SYMBOL_RATE1 == \h14
SYMBOL_RATE0 == \h15
PKT_CFG2 == \h26
PKT_CFG1 == \h27
PKT_CFG0 == \h28
RFEND_CFG1 == \h29
RFEND_CFG0 == \h2A
PKT_LEN == \h2E
NUM_TXBYTES == \h2FD6
NUM_RXBYTES == \h2FD7
REG_FIFO == \h3F

\* adr & EXT_ADR is not zero
IsExtended(adr) == \E bit \in {8, 9, 10, 11, 13} : Field(adr, bit, 1) = 1

\* Values of the standard registers, from address 0 upwards without a gap
StdValues ==
    << \h06, \h06, \h30, \h3C, \h93, \h0B, \h51, \hDE, \hA9, \h03, \h06, \h0B,
       \h4C, \h14, \h8A, \hC8, \h10, \h42, \h05, \h3F, \h75, \h10, \h27, \hEE,
       \h00, \hB1, \h20, \h11, \h94, \h00, \h00, \h0B, \h12, \h08, \h21, \h00,
       \h00, \h00, \h00, \h03, \h00, \h0F, \h00, \h7F, \h56, \h0F, \h0A >>

MAX_REG == 47

\* RegSettings[i] for the C index i
RegSettings(i) == [adr |-> i, val |-> StdValues[i + 1]]

\* The addresses of the extended registers come in three blocks
ExtAddress(i) ==
    EXT_ADR + CASE i < 58 -> i
                [] i \in 58 .. 120 -> i + 42
                [] i > 120 -> i + 89

ExtValues ==
    << \h1C, \h20, 3, 0, 0, 2, 1, 0, 0, 0, 0, 0, \h56, \hAA, \hAA, 2, \hEE, \h10,
       7, \hAF, 0, \h20, \h40, \h0E, \h28, 3, 0, \h33, \hFF, \h17, 0, 0, \h6E,
       \h1C, \hAC, \h14, 0, 0, 0, \hB5, 0, 2, 0, 0, \h10, 0, 0, 9, 1, 1, \h0E,
       \hA0, 3, 4, 3, 0, 0, 0, 0, 0, 0, 0, 0, 0, 0, 0, 0, 0, 0, 0, 0, \h80, 0,
       \h41, 0, \hFF, 0, 0, 0, 0, \hD1, 0, \h3F, 0, 0, \h30, \h7F, 0, 0, 0, 0, 0,
       2, 0, 0, 0, 0, 0, 0, 1, 0, \h20, \h11, 0, \h10, 0, 0, 0, 0, 0, 0, 0, 0,
       \h0B, \h40, 0, 0, \h3C, 0, 0, 0, 0, 0, 0, 0, 0, 0, 0, \h0F, 0, 0 >>

MAX_EXT_REG == 130

ExtRegSettings(i) == [adr |-> ExtAddress(i), val |-> ExtValues[i + 1]]
-----------------------------------------------------------------------------
(* Packet format *)

PKT_MODE == 1       \* variable length
PKT_FORMAT == 0     \* FIFO
PKT_OVERHEAD == 2   \* bytes that the radio appends to a received packet

build_pkg_cfg0(length_config, pkt_bit_len, uart_mode_en, uart_swap_en) ==
    Field(length_config, 0, 2) * 2^5 + Field(pkt_bit_len, 0, 3) * 2^2
        + Field(uart_mode_en, 0, 1) * 2 + Field(uart_swap_en, 0, 1)

\* The other fields as the table has them; the table is indexed by the address
build_pkg_cfg0_std(length_config) ==
    LET std == RegSettings(PKT_CFG0).val
    IN  build_pkg_cfg0(length_config, Field(std, 2, 3), Field(std, 1, 1), Field(std, 0, 1))

build_pkg_cfg2(byte_swap_en, fg_mode_en, cca_mode, pkt_format) ==
    Field(byte_swap_en, 0, 1) * 2^6 + Field(fg_mode_en, 0, 1) * 2^5
        + Field(cca_mode, 0, 3) * 2^2 + Field(pkt_format, 0, 2)

build_pkg_cfg2_std(pkt_format) ==
    LET std == RegSettings(PKT_CFG2).val
    IN  build_pkg_cfg2(Field(std, 6, 1), Field(std, 5, 1), Field(std, 2, 3), pkt_format)

\* Mutant: the registers set here are overwritten by the table
InitWrites_TableLast ==
    << [adr |-> PKT_CFG0, val |-> build_pkg_cfg0_std(PKT_MODE)],
       [adr |-> PKT_CFG2, val |-> build_pkg_cfg2_std(PKT_FORMAT)],
       [adr |-> PKT_LEN,  val |-> 50] >>
      \o [i \in 1 .. MAX_REG |-> RegSettings(i - 1)]
      \o [i \in 1 .. MAX_EXT_REG |-> ExtRegSettings(i - 1)]

\* The register writes of cc1200_init, in order
InitWrites ==
    [i \in 1 .. MAX_REG |-> RegSettings(i - 1)]
      \o [i \in 1 .. MAX_EXT_REG |-> ExtRegSettings(i - 1)]
      \o << [adr |-> PKT_CFG0, val |-> build_pkg_cfg0_std(PKT_MODE)],
            [adr |-> PKT_CFG2, val |-> build_pkg_cfg2_std(PKT_FORMAT)],
            [adr |-> PKT_LEN,  val |-> 50] >>
-----------------------------------------------------------------------------
(* Symbol rate *)

\* In symbols per second, by index
MINSTREL_RATES == <<1000, 1200, 2400, 4800, 9600, 12500, 25000, 37500, 50000>>

\* rate / 1000 * 2^39 / F_XOSC, rounded down, with F_XOSC = 40000: this is
\* (rate / 100) * 2^32 / 3125, divided in two steps to stay below 2^31
Scaled(rate) ==
    LET high == (rate \div 100) * 2^16
    IN  (high \div 3125) * 2^16 + ((high % 3125) * 2^16) \div 3125

\* The exponent of the largest power of two in x
log_2(x) == CHOOSE e \in 0 .. 30 : 2^e <= x /\ x \div 2 < 2^e

srate_e(rate) == log_2(Scaled(rate)) - 20
srate_m(rate) == Scaled(rate) \div 2^srate_e(rate) - 2^20

\* The register writes of cc1200_change_rate, in order
RateWrites(rate) ==
    LET e == srate_e(rate)  m == srate_m(rate)
    IN  << [adr |-> SYMBOL_RATE2, val |-> Field(e, 0, 4) * 2^4 + Field(m, 16, 4)],
           [adr |-> SYMBOL_RATE1, val |-> Field(m, 8, 8)],
           [adr |-> SYMBOL_RATE0, val |-> Field(m, 0, 8)] >>
=============================================================================
