# Verification of the CC1200 rate adaptation protocol

A sender and a receiver, each a process on its own board with a CC1200 radio, transfer
data in small packets. Every packet is acknowledged and tells the receiver the symbol
rate of the next one; the sender chooses the rates with Minstrel. This directory
holds TLA+ models of the protocol, TLC configurations that check them on small
instances, and TLAPS proofs for all instances. Paths below are relative to the
repository; `sender.c` and the like are in `src/controller`, `src/minstrel` and
`src/cc1200`.

## The system

| Component | State | Operations | Talks to |
|---|---|---|---|
| Minstrel (`minstrel.c`) | rate table, rate state, statistics; globals `is_prob_ack`, `timeout_count` | `minstrel_get_next_rate`, `minstrel_update` | called by the sender after every attempt |
| Sender (`sender.c`) | `next_ack`, tokens, last packet, timer | `sender_init` (handshake), `sender_send_and_ack` | driver, Minstrel |
| Receiver (`receiver.c`) | `last_ack_rcv`, the last announced rates, `timeout_counter`, tokens | `receiver_init`, `receiver_receive_and_ack` | driver |
| Radio driver (`cc1200_rate.c`) | the point in a call, a length byte and a buffer | `cc1200_init`, `cc1200_send_packet`, `cc1200_get_packet`, `cc1200_change_rate` | SPI calls |
| SPI transport (`SPIv1.c`), register tables (`register_config.c`) | a mailbox shared with the PRU, the status of the last transaction | `cc1200_cmd`, `cc1200_reg_write`, `cc1200_reg_read` | PRU firmware and chip, which are not in the repository |
| CC1200 chip (external) | mode, registers, two FIFOs | strobes, packets that come and go | the air |
| Simulated radio (`cc1200_mockup.c`) | a shared buffer with a mutex per direction, debug flags | the same functions, `cc1200_debug_*` | both threads of a test |
| Packet format (`packet.c`) | none | serialise, deserialise, checksum | drivers, controllers |
| Sender interface, main programs, user interface | the Minstrel struct, sockets | start, slicing, printing | sender, receiver |
| Test replacement of Minstrel (`minstrel_mockup.c`) | a rate and an outcome flag | as Minstrel; asking for the rate changes it | sender and user interface, default build only |
| Simulation (`stats_sim.c`) | an earlier rate control with its statistics | a loop over packets with random outcomes | nobody |
| `log.c` | - | logging | - |

The default build (`BUILD_LOCAL_ONLY`) links the simulated radio and runs sender and
receiver as threads; the production build links the real driver and `minstrel.c`.

What is hard: two processes with a timer each, of which either may fire while the other
is about to answer; lost, corrupted, repeated and late frames; ids that wrap; a rate
change that only works if both sides make it; two independent searches for a common
rate after losses; an algorithm with hidden state (a skipped update, a failure
counter no success resets); a buffer shared by two threads and only partly protected
by its mutex; a chip that goes on by itself while the driver looks at a status one
transaction old; a program that is killed and started again while the other goes on.
What makes each component correct:

* Minstrel: a silent link reaches the fallback rate in bounded time; current, best and
  most reliable rate are rates that were measured; only the announcement of a probe is
  skipped.
* Sender and receiver together: every slice is delivered, in order, at least once;
  an acknowledgement is never taken for that of another slice; both are on the same
  rate after an acknowledgement; a transfer ends.
* Simulated radio: every frame is read at most once and in order, the heap is used
  correctly, and the buffer behaves as one slot.
* Packet format: what is read is what was written, and damage is noticed.
* Radio driver: a send puts its packet on the air once, a get returns a packet that was
  received during the call (or what the checksum lets pass of the frames of that time)
  and nothing of an earlier one, the FIFOs are never misread, every call ends.
* After a restart the two find each other, and little is lost.

## Modules

| Module | Models | Composes |
|---|---|---|
| `Minstrel` | `minstrel.c` as operators on one record; no variables | |
| `MinstrelLoop` | the calls of `minstrel_update` with every pattern of outcomes | `Minstrel` |
| `Driver` | what the two radios do to frames | `Minstrel` (for its rates) |
| `Sender`, `Receiver` | the controllers | `Driver` |
| `Session` | both processes, their timers, the debug calls of a test | `Sender`, `Receiver` |
| `Restart` | a session over radios whose programs are killed and started again | `Session` |
| `StopAndWait` | the promise of `Session`: numbered transfers, one at a time | |
| `MockBuffer` | one buffer of the simulated radio, access by access | |
| `OneSlot` | the promise of `MockBuffer`, which is what `Driver` assumes | |
| `Packet` | serialisation and checksum on bytes | |
| `Registers` | the values `cc1200_init` and `cc1200_change_rate` write; no variables | |
| `Chip` | the CC1200 as the driver relies on it (external) | `Registers` |
| `Spi` | the mailbox, the PRU and the status of a transaction | `Chip` |
| `RadioDriver` | the four functions of `cc1200_rate.c`, one SPI call after the other | `Spi` |
| `RadioPort` | the promise of `RadioDriver` | |
| `MCRadioDriver` | a packet, noise, and the rates of the code for `RadioDriver` | `RadioDriver` |
| `MinstrelMockup`, `StatsSim` | `minstrel_mockup.c` and `stats_sim.c` as operators on a record | |
| `RateControl` | the three rate controls, each with the calls of its program | `MinstrelLoop`, the two above |
| `*_proofs` | theorems about the module of that name; `RateControl_proofs` is also about `MinstrelLoop`, `RadioFifo_proofs` about `RadioDriver` | |

**Minstrel.** The struct and the two globals are one record. `minstrel_update(m, ok, id)`
is the set of records a call can leave: more than one because `rand()` picks the probe
and because the floating-point statistics are abstracted. What is kept of them is
`measured`, the rates that were credited with a success: these are exactly the rates
whose `ewma` and throughput are not zero, so one of them is the maximum, and which one
depends on measured times. `spinning` marks the call that never returns from
`set_probe_rate`. The struct starts zeroed, as `sender_interface_init` allocates it;
`minstrel_init` is called by nobody.

**Driver.** `air[n]` is the frame that waits for node `n`, at most one. Over the simulated
radio it is the shared buffer: every send overwrites it, only reading empties it, and a
test may swallow or corrupt a write. Over the real one it is the RX FIFO: a frame gets
there only if the node is in RX mode, on the rate of the transmitter and nothing is
waiting yet; it may then still be missed or garbled; a timeout flushes it (`SFRX`). A
packet keeps the header fields the protocol uses. Its payload is the number of its slice,
a ghost value the code does not see. `intact` stands for the length check of
`packet_deserialize` and the checksum; the model lets every garbled frame be noticed, and
`Packet` says which errors this is true of.

**Sender.** An action is one pass through the loop of `sender_send_and_ack`: `StartSend`
(the call), `AckOk`, `AckWrong`, `AckGarbled` and `AckTimeout` (the outcomes of
`sender_rcv_ack` with everything the pass does afterwards: the update of Minstrel, the
change of rate, the new packet). Slice 0 is the handshake of `sender_init`, which skips
Minstrel and leaves the rate.

**Receiver.** `Accept`, `RcvGarbled` and `RcvTimeout` are the outcomes of
`receiver_receive`, with the counting of failures and the three steps of its fallback;
`InitAck`, `SendAck` and `Adapt` are the acknowledgement and the change of rate after it,
separate because the sender can act between them.

**Session.** Interleaves the two, with a timer each. With `Prompt` FALSE a timer may
expire at any moment. With `Prompt` TRUE no timer expires while a frame waits to be read
or while the receiver is between taking a packet and listening again: the round trip is
shorter than `TIMEOUT`, which is what the constant was chosen for. Over the simulated
radio, too, the sender is modelled with `minstrel.c`. The default build, the one with that
radio, links `minstrel_mockup.c` instead; what is delivered does not depend on it, since
`cc1200_change_rate` does nothing there and the receiver only copies the rates.

**MockBuffer.** Writer and reader as threads with a program counter, cut at each access
to `shared_buffer`, its length and the heap. Frames are numbered by allocation and the
number is the address. Using memory that is not allocated is undefined behaviour; the
model records it in `fault` and stops. `overlap` records whether a write and a read
have ever been under way together.

**Packet.** A frame is serialised, at most one byte of it is changed or its end is cut
off, and it is read as `cc1200_get_packet` and the controllers read it. The header has
22 bytes while `getHeaderSize` says 23, so each frame ends in an uninitialised byte;
the model has it.

**RadioDriver.** One program counter, named for the SPI call that is awaited. A step is
everything between the return of one call and the start of the next: it reads the
mailbox, computes, and fills the mailbox again. `Pru` passes the mailbox through the
chip and leaves the status from *before* the command; between any two steps of the
program the chip may settle, receive a byte, end a packet or begin another
(`ChipMoves`). `Restart` kills the program anywhere and leaves the chip and the mailbox as
they are; the second `cc1200_init` of `main_sender.c` is a restart at `ready`. The clock of
`cc1200_get_packet` is the flag `late`, which may become true at any moment of a get.
`call`, `packet`, `aired`, `done`, `begun`, `heard` and `result` are ghosts and the refinement
mapping to `RadioPort`: `begun` has the frames that were in the air during a get, `heard`
the packets whose reception ended during it.

**Chip, Spi, Registers.** `Registers` has the two tables of `register_config.c` as they are,
and the arithmetic of the packet format and symbol rate in integers: the product the
code rounds down is a rational with the denominator 3125. `Chip` interprets nine of the
registers and ignores writes to the others. It is external: what is assumed of it is
that a strobe moves it through SETTLING, that it reports the mode, that it takes packets
of the format it is configured for, and returns to the mode of `RFEND_CFG` after them.
`SFRX` during a reception empties the FIFO and leaves the reception going, so that the
rest of a packet comes in as if it were one; this is the assumption worst for the driver.

**Restart.** The steps of `Session` over a radio, and `RestartSender` and `RestartReceiver`
at any point. A restart empties what the node has received, puts its radio on rate 0 and
zeroes everything of the program; the peer is not told. `returned` collects what any life
of the receiver has handed to its caller. Whether the programs are prompt is chosen in
the initial state, so both kinds are in one run.

**RateControl.** Which of the three programs runs is chosen in the initial state.
`minstrel_mockup.c` has a pass of its own: `minstrel_update`, then the ten calls of
`minstrel_get_next_rate` that `ui_update` makes to print ten lines, then the one of
`sender_build_pkt`. The simulation counts attempts, recomputes its rates in every
update and may probe any rate but the current one.

## Runs

| Run | Question | Answer |
|---|---|---|
| `rate_control` | Do the three rate controls come down on a silent link, and stay consistent? | yes |
| `session_mockup` | Is the session a stop-and-wait transfer over the simulated radio, and does it end? | yes |
| `session_radio` | Is it one over the real radio with timers that fire at any time? | yes |
| `session_prompt` | With prompt programs: same rate after each ACK, and how can a transfer hang? | only in two ways |
| `restart` | Does a program that is started again find its peer, and what is lost? | yes; two slices per restart of the receiver |
| `radio_driver` | Does the driver keep `RadioPort`, and does every call end? | yes; but for two waits |
| `mock_buffer` | Is the shared buffer one slot, and when is the heap in danger? | yes; on overlap only |
| `packet` | Which damage of a frame is noticed? | see below |
| `probe_spin` | Does picking a probe end? (`minstrel.c:135`) | no |
| `duplicate` | Is every payload returned once? (`test_controller_communication.c:458`) | no |
| `stranded` | Is the fallback rate used once Minstrel is there? (`minstrel.c:152`) | no |
| `mock_race` | Is the old frame allocated when a write frees it? (`cc1200_mockup.c:96`) | no |

The last four state what a comment or a test says; TLC shows a run of the code that
does otherwise, and `PROJECT.json` ("findings") explains each.

`probe_spin`: a success at a lower rate, while `rates.current` is the highest index,
with an id that is divisible by ten, starts a loop that never ends. `stranded`: the
radio follows the rate the *packet* announced, `is_new_rate` compares two entries of
the *table*; when these agree the radio stays where it is although Minstrel is on the
fallback rate, and if the receiver has meanwhile left that rate the transfer hangs for
good. `DoneOrStranded` shows that this and the endless probe loop are the only ways.

`Window`, the invariant most rests on: neither side is ever more than one transfer
behind the other and no frame under way belongs to an older one, although nobody
checks ids on reception. From it follow `AckNumbersSuffice` (ids that wrap tell the
right ACK from all others, with as few as two of them) and the refinement.

`LossBounded`: a receiver that starts in the middle of a transfer takes a data packet for
the handshake, acknowledges it and throws the payload away, and its predecessor may
have acknowledged a slice it never returned. `Recovers` is `DoneOrStranded` with restarts.

`ImplementsPort` is what entitles `Driver` to treat a send as one step and to say that a get
returns only what was received since it began. It has one exception, which `RadioPort` spells
out: the flush of `cc1200_rate.c:209` does not stop a frame that is coming in, so the driver
may begin to read inside it and take for a packet what stands there and in the next frame,
if the checksum lets it pass (`OutOfStep`). The run contains this case (`FoundInNoise`): the
damaged frame holds a byte that reads as a length, followed by a packet. `Driver` and the
controllers leave the exception out, as they leave out all damage a sum does not notice.
`CallsReturn` names the two waits without
an end: those for RX (`cc1200_rate.c:213`) and TX (`:196`), if a whole packet begins and
ends between two polls. `NoFifoError` and `Configured` belong together: the RX FIFO never
holds more than two packets, and the configured length leaves room for two.

### Bounds

| Constant | Code | TLC | Why enough |
|---|---|---|---|
| `MAX_RATES` | 9 | 3, 4 | highest, lowest and a rate between; with four a probe passes over rates it may try later |
| `ProbeInterval` | 10 | 3 | probes and normal successes alternate, with ids on both sides of the wrap |
| `TimeoutLimit` | 2 | 1, 2 | only the equality with the limit matters |
| `IdMod` | 2^32 | 3, 6 | ids wrap within the run; the proofs hold for any value from 2 |
| `RCV_MAX_TIMEOUTS` | 4 | 1, 2 | every step of the fallback happens; `TimeoutCap` joins all counts beyond the last |
| `NumSlices` | unbounded | 2 to 6 | more slices than ids, so that a number is used twice (not in `restart`, where each life counts anew) |
| `MaxDebugCalls` | unbounded | 0 to 2 | two writes lost or corrupted, in either direction; unbounded losses are in the radio runs |
| `MaxRestarts` | unbounded | 1 of each program | both may be started again in one run; a further restart forgets all that the first left |
| `Frames`, `Noise` | up to 50 bytes | one of 2, one of 3 | a packet, and a damaged frame in which a reader out of step finds it; their bytes are also read as lengths, and the FIFO bound is in lengths |
| `MaxFrames` (`Chip`) | unbounded | 3 | one before or during the flush, one cut by it, one that is waited for |
| `UserRates` | 9 rates | the last | the formula is evaluated for all nine (`EveryRateSpelt`) |
| `PktCounts` | 2^32 | 256 | both are 1 modulo 5, so the wrap looks alike |
| `MaxFails` | - | 18 | two above the bound that `FallbackWithin` states |
| `MaxFrames` (`MockBuffer`) | unbounded | 6 | a fault takes two frames; the rest repeat every overlap with other contents |
| `BYTE`, `Ids`, `TokenValues`, `Rates`, `MaxPayload` | 256, 2^32, 2^16, 256, 10 | 3, sample, sample, 1 value, 2 | values with one, two and four bytes; sums that wrap; the proofs hold for all |

### Fairness

Both programs are busy loops that nothing blocks, so each step that stays possible is
taken (weak fairness on every action of the two programs, none on the debug calls). Over
the simulated radio this is enough. A real radio may miss every frame, and no protocol
would end: `FairRadioSpec` adds strong fairness of *being heard*: if a node is again and
again in RX mode on the rate of a transmission, one is received intact at last. There is
no assumption that the two ever are on the same rate: that they get there is what
`DoneOrStranded` checks. `Restart` has the same assumptions, for the steps of the session;
nothing is assumed of restarts. In `RadioDriver` the program, the PRU, the time and the
chip's own steps are weakly fair, but no frame has to arrive and no call be made. Weak
fairness does not promise that a poll comes at the right moment, which is why
`CallsReturn` has its two exceptions. The plain `<>Done` is not true of the code for the two reasons named.

## Proofs

All theorems hold for every value of the constants that satisfies the named assumptions.

* `RateControl_proofs`, about `MinstrelLoop`: `TableConsistent` and `SkipsAnnouncementOnly`, from one invariant
  each on the record (`Consistent`, `Skipping`), which recomputing the rates and every
  branch of `minstrel_update` restore. `TypeCorrect`; `DescentProgress` and from it `BoundedDescent`,
  that a silent link is tried at the fallback rate after at most
  `1 + 5 * (TimeoutLimit + 1)` failures. `FallbackWithin` is not inductive: it says
  nothing of the way down. `FallbackProgress` is: failures seen plus failures still
  needed (`Distance`: steps left times failures per step, less those already counted,
  plus one for a skipped update) never exceed the bound, since each failure takes one
  from the second and adds one to the first. The rates are no part of it, so the
  argument holds for any statistics.
* `RateControl_proofs`, about `RateControl`: `LowestRateBounded` for all three programs. The
  simulation has a measure of its own: it steps down with every failure, so the steps left
  and the skipped update are all that counts (`SimDistance`); the mockup is at rate 0 after one
  failure.
  `SimTableConsistent`, as for Minstrel but with the rates recomputed in every update.
* `Session_proofs`: `TypeCorrect`, `WindowHolds`, `AckComparisonCorrect` and `Refinement`
  (`Session` implements `StopAndWait`), for both radios, any number of rates, ids and slices,
  and any timing. `Window` is inductive together with `TypeOK`. It needs the four parts:
  where the sender is, the handshake (before the receiver has its first packet), where
  the receiver is relative to the sender, and the frames in the air; the last is what
  makes accepting any id safe.
  Over a radio `AirIsNeverShared`, `AcksAreFresh` and `RatesMeet`. The first two
  follow from `Turns`: which side may send is decided by where sender and receiver are
  and by which frames wait; it is inductive over a radio, where a repetition takes the
  place of what the sender had not read. `RatesMeet` needs two more: `HandshakeSlow`
  (until the handshake is acknowledged nothing but rate 0 has been announced) and, for
  prompt programs, `Together` (the receiver holds and answers the very packet that was
  built last, and is on or goes to the rate it announces until it gives up).
* `Restart_proofs`: `LossIsBounded`, for any number of restarts, rates, ids and slices. It does
  not use `Window`, which a restart of the receiver breaks: `OneTurn` says who may speak,
  `FirstReceiver` what a life of the receiver that has had no packet can meet, and `Balance`
  that the slices missing so far, and those that the present state can still lose, are at
  most two per restart. Over the simulated radio, where there are no restarts, nothing is
  missing.
* `RadioDriver_proofs`: `FillsIdleRadio` and `RadioConfigured`, for every set of packets, rates
  and restarts. The invariant `IdleInv` says why a stale status is enough: while the driver
  waits for IDLE, either the strobe is still on its way or the radio is idle or settling
  to it, and nothing that follows moves it until `STX`. `AskInv` says what is in the
  mailbox at each point of the program: the call that was begun there, or what a killed
  program left. `RegsInv` gives the registers written so far at each point, which needs the
  tables evaluated (`InitWrites` by address, the nine symbol rates by `EveryRateSpelt`).
* `RadioFifo_proofs`: `ReadsWhatIsThere`, `TypeCorrect` and `PortKept`. `RxInv` is an account of the bytes in
  the RX FIFO, of those still to come and of those the driver has yet to read (`Burden`)
  at each point of the program: the status is old, but the FIFO only grows until the driver
  reads it, and the driver reads no more than it has counted. `TxInv` does the same for the TX
  FIFO, which is empty or holds the packet of the call. Type correctness is not easier than
  this: that an answer of the chip is a byte rests on the FIFOs holding fewer than 256.
  `PortKept` is the refinement: the driver implements `RadioPort` (`ImplementsPort`) for all
  packets, noise, rates and restarts. A send is simple, it follows from `TxInv`. For a get the number of the bytes is not enough, their order is needed: `Stream`
  joins what the driver has taken since the flush, what is in the FIFO and what is still to
  come, and every byte keeps its place in it from the antenna to the buffer. `InOrder` says
  that it begins with a whole frame, heard during the call once it is complete, or is the
  rest of a frame that the flush has cut, perhaps with one whole frame behind it, both of
  which were in the air during the call (`Begun`). In the first case what the checksum
  accepts was heard, in the second it is `OutOfStep` in the two.
* `MockBuffer_proofs`: `TypeCorrect`, `Faultless`, `Leakless`, `InOrder` and `SlotRefinement`
  (`MockBuffer` implements `OneSlot`, whether reads and writes overlap or not). The
  invariant `HeapInv` adds what the pointers name at each point of the two threads and
  the order of the frame numbers; without an overlap a reader's frame is allocated,
  with one it may be gone, and then the next access is a fault. This
  is what lets `Driver` read a buffer in one step.
* `Packet_proofs`: `UnharmedIsReadBack`, `WrongByteIsNoticed` and `ShortFrameIsNoticed`, for
  every id, token, rate and payload and for bytes of any size. The invariant, `PacketInv`, says only
  where the bytes that arrive come from: they are what `packet_serialize` wrote of a
  well-formed packet and the byte behind it, untouched, with one byte replaced, or cut off;
  `RoundTrip` and the others are not inductive, because they speak of a frame once it
  is read. The work is in the operators. `Layout` says which byte of which field is where
  in a frame, `HeaderReads` that the header is read as it was written (a number is the
  sum of its digits, `Digits`), `OneWrongByte` that one wrong byte changes one field only,
  and a wrong low byte changes it by as much as the byte is off; that is less than 256, so
  the sums differ modulo 256 (`SumsDiffer`). A wrong upper byte of `payload_len` need not
  change the checksum but does change the length, and `packet_deserialize` returns NULL.
  `CutRead` holds whatever is read behind the end, not only for the equal bytes of the
  action `Read`. `PartialSums` is why the model may add first and take the remainder once,
  where the code does so after every summand, in 32 bits.
* `Minstrel_proofs`: the lemma that `RateControl_proofs` and `Session_proofs` share, that
  `minstrel_update` maps a record of the type to records of the type.

The assumptions are those a reader would expect of the constants (numbers are numbers, there are at
least two ids, three rates), of the values in a packet that they fit into their fields (a byte has at least
three values, since a packet's type is 1 or 2), and of the packets of the driver that there is at least one, that they
are sequences of at most 50 bytes, and that no packet is also noise. No theorem
has a hypothesis beyond these: what the checksum of `packet.c` fails to tell apart, which
is a sum of bytes and no guarantee, is in the statement of `PortKept` and not in an
assumption. For packets and noise among which nobody out of step finds a packet, `OutOfStep`
is empty and the exception of `RadioPort` is gone.

The induction theorems of the library take an operator as a parameter, which the provers
cannot instantiate. The sums and the concatenation of `Packet` are folds, and their lemmas do
without: `Least` gets the least element of a set of numbers from the well-founded order, and
`UpTo` turns it into induction up to a bound for a property that is given as a *set*, which is an ordinary
variable. With it `FoldExists` and `FlattenExists` show that the recursive functions the
community modules choose exist, so that the equations they were chosen by hold.

Every safety invariant and every refinement of the passing runs has a theorem. Model-checked only:
the liveness properties `EventuallyDone`, `DoneOrStranded`, `Recovers` and `CallsReturn` (the prover
has no fairness or ENABLED).

## What the models leave out

* Values of the statistics, measured durations, the wrap of the counters behind them.
* In `Session` a transmission is one step, with one frame per direction; `RadioDriver` has
  the FIFOs and the polling. Capture effects and collisions are losses or garbled frames.
* The inside of the chip and the firmware of the PRU, which are not in the repository: an
  overflow of the FIFOs is shown not to occur, and calibration is part of settling.
* Garbled frames the sum does not notice. `OneByteNoticed` shows that one wrong byte is
  noticed in the low byte of each field, in the payload, the checksum and the whole of
  `payload_len`. The upper bytes of `id`, `ack` and the tokens are not covered, although
  `packet.c:58` speaks of the sum of bytes.
* The bytes of a slice, and how `sender_interface_send_data` cuts them.
* The handler of SIGINT (`SPIv1.c:91`), which disables the PRU under a program that may be
  waiting for it: what the driver library does then is not in the repository, and the
  models have the program killed instead. `spi_shutdown` has no caller.
* What the user interface draws, and `log.c`: neither has state the protocol reads. The one
  effect of the interface, its calls of `minstrel_get_next_rate`, is in `MinstrelMockup`.

Seen while modelling and not made a run: the second best rate. `minstrel.c:153` promises the
way `best throughput -> second best throughput`, and `minstrel.c:85`, `:107` and the
repository's `README.md:33` speak of the second best throughput too, but the search for it
(`minstrel.c:108-113`) is commented out and line 117 takes the rate below the best one, be
it a rate that was never measured; therefore `RatesConsistent` says nothing of it. The test
replacement: `minstrel_mockup.c:39` says `get next higher rate if possible, all 5 packets`, but
line 42 climbs one step per *call*, and a pass calls it eleven times, ten of them for the
screen, so one such pass leads from the lowest to the highest rate; no property rests on
how it climbs. And in short: `sender.c:35-37` stores the random token before
it replaces a 0, against `sender.h:12`; `receiver.c:158-162` takes the second best rate after
`RCV_MAX_TIMEOUTS` failures where `receiver.h:36` speaks of the fallback rate; the first
step down leads from `CURRENT_RATE` to `BEST_RATE`, which name the same rate, where
`minstrel.c:152-153` promises a lower one; `minstrel.c:201` credits an exchange to the rate the table names at
that moment, where `minstrel.c:50` speaks of the cycles of a given rate; `cc1200_rate.h:88-89`
promises a get that gives up after its time, which the wait of `cc1200_rate.c:213` does not.

## Plan

Done: `Minstrel`, `MinstrelLoop`, `Driver`, `Sender`, `Receiver`, `StopAndWait`, `Session`;
`OneSlot`, `MockBuffer`; `Packet`; `Registers`, `Chip`, `Spi`, `RadioDriver` refining
`RadioPort`; `Restart`; `MinstrelMockup`, `StatsSim`, `RateControl`; proofs of type correctness
and of every safety invariant of the passing runs, and of the refinements
of the session, of the simulated radio and of the driver.

Next, in this order:

1. The slicing of `sender_interface_send_data`, with the short last slice, over `Session`.
2. The integer parts of the statistics: the mean of the durations, the counters and their
   wrap.
