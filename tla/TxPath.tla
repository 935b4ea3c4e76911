-------------------------------- MODULE TxPath --------------------------------
(***************************************************************************)
(* The transmit path: everything the device says to the host goes through  *)
(* device->tx_buf.  The event task writes discover announcements, replies  *)
(* and logs, and is the only reader: event_step takes one block per call   *)
(* and hands it to the transmit DMA, after waiting for the DMA to be ready.*)
(* The motor control code writes observations and sensor errors.           *)
(*                                                                         *)
(* The repository does not say in which context the motor code runs.  In   *)
(* Spec it preempts the event task anywhere and everybody writes whatever  *)
(* already waits.  Two more specifications assume something about the      *)
(* application, which is not in the repository: TurnsSpec, that one loop   *)
(* calls the motor code and event_step in turn; LightSpec, that replies    *)
(* and observations are also rare enough.                                  *)
(*                                                                         *)
(* The event task accesses the volatile fields of the ring one step at a   *)
(* time; the statements that fill a block are one step.                    *)
(*                                                                         *)
(* A message is its number, counted from 1 in the order of the calls of    *)
(* device_write_buffer; 0 is a block nothing was written to.               *)
(***************************************************************************)
EXTENDS Integers, Sequences

CONSTANTS MAX_BLOCK_SIZE,   \* slots of tx_buf
          DISCOVER_PERIOD,  \* calls of event_step per announcement, 1000
          MaxMessages,      \* bound on the messages ever written
          Backlog,          \* under a light load replies and observations are
                            \* written while fewer blocks than this wait
          NDEBUG            \* TRUE in a build that drops the asserts

ASSUME TxAssumption == /\ MAX_BLOCK_SIZE \in Nat \ {0, 1}
                       /\ DISCOVER_PERIOD \in Nat \ {0}
                       /\ MaxMessages \in Nat
                       /\ Backlog \in Nat
                       /\ NDEBUG \in BOOLEAN

VARIABLES pool, prev_w_block, w, r, overflow,  \* device->tx_buf
          discover_count,
          gState,        \* "READY", or what the DMA is sending: the slot, and
                         \* the message it held when the transfer began
          pc, return_to, \* the event task: next access, and where a write ends
          src,           \* message the event task is writing
          reg,           \* value of w or r loaded to be incremented
          tx_block,      \* block returned by buffer_get_read_block
          written,       \* messages passed to device_write_buffer so far
          accepted,      \* those the ring stored, in order
          wire,          \* what the DMA sent
          failed_assert  \* line of buffer.c whose assert failed, or 0

ring == <<pool, prev_w_block, w, r, overflow>>
task == <<pc, return_to, src, reg, tx_block, discover_count>>
vars == <<ring, task, gState, written, accepted, wire, failed_assert>>

Messages == 0 .. MaxMessages

Buf == INSTANCE RingBuffer WITH Content <- Messages, Zeroed <- 0

NULL == Buf!NULL

READY == [block |-> NULL, first |-> 0]

At(label) == failed_assert = 0 /\ pc = label

Goto(label) == pc' = label /\ UNCHANGED <<return_to, src, reg, tx_block, discover_count>>
-------------------------------------------------------------------------------
(***************************************************************************)
(* buffer_write_block, as the event task executes it.  It returns 0 whether*)
(* it stored the message or found the ring full.                           *)
(***************************************************************************)
BeginWrite(label) ==
  /\ written < MaxMessages
  /\ written' = written + 1
  /\ src' = written'
  /\ pc' = "w_overflow"
  /\ return_to' = label

CompareAlwaysMutant ==
  /\ At("w_overflow")
  /\ Goto(IF overflow THEN "w_assert" ELSE "w_compare")
  /\ UNCHANGED <<ring, gState, written, accepted, wire, failed_assert>>

WriteOverflow ==
  /\ At("w_overflow")
  /\ Goto(IF overflow THEN "w_assert" ELSE "w_copy")
  /\ UNCHANGED <<ring, gState, written, accepted, wire, failed_assert>>

WriteAssert ==
  /\ At("w_assert")
  /\ IF w <= r \/ NDEBUG
     THEN Goto("w_compare") /\ UNCHANGED failed_assert
     ELSE failed_assert' = 14 /\ UNCHANGED task
  /\ UNCHANGED <<ring, gState, written, accepted, wire>>

WriteCompare ==
  /\ At("w_compare")
  /\ Goto(IF w = r THEN return_to ELSE "w_copy")
  /\ UNCHANGED <<ring, gState, written, accepted, wire, failed_assert>>

WriteCopy ==
  /\ At("w_copy")
  /\ pool' = [pool EXCEPT ![w] = [buffer |-> src, state |-> 0]]
  /\ prev_w_block' = w
  /\ accepted' = Append(accepted, src)
  /\ Goto("w_load")
  /\ UNCHANGED <<w, r, overflow, gState, written, wire, failed_assert>>

WriteLoad ==
  /\ At("w_load")
  /\ reg' = w
  /\ pc' = "w_store"
  /\ UNCHANGED <<return_to, src, tx_block, discover_count>>
  /\ UNCHANGED <<ring, gState, written, accepted, wire, failed_assert>>

WriteStore ==
  /\ At("w_store")
  /\ w' = Buf!Wrap(reg)
  /\ Goto("w_flag")
  /\ UNCHANGED <<pool, prev_w_block, r, overflow>>
  /\ UNCHANGED <<gState, written, accepted, wire, failed_assert>>

WriteFlag ==
  /\ At("w_flag")
  /\ overflow' = (overflow \/ w = 0)
  /\ Goto(return_to)
  /\ UNCHANGED <<pool, prev_w_block, w, r>>
  /\ UNCHANGED <<gState, written, accepted, wire, failed_assert>>
-------------------------------------------------------------------------------
(***************************************************************************)
(* event_step: announce every DISCOVER_PERIOD calls, transmit one block,   *)
(* and handle a received frame, whose callback may reply or log.           *)
(***************************************************************************)
CountDiscover ==
  /\ At("event_step")
  /\ discover_count' = (discover_count + 1) % DISCOVER_PERIOD
  /\ \/ /\ discover_count' = 0
        /\ BeginWrite("r_overflow")
     \/ /\ discover_count' # 0 \/ written = MaxMessages
        /\ pc' = "r_overflow"
        /\ UNCHANGED <<return_to, src, written>>
  /\ UNCHANGED <<reg, tx_block>>
  /\ UNCHANGED <<ring, gState, accepted, wire, failed_assert>>

\* The test of event_step for a block.  tx_block is NULL without one.
ReadOverflow ==
  /\ At("r_overflow")
  /\ Goto(IF overflow THEN "r_load" ELSE "r_assert")
  /\ UNCHANGED <<ring, gState, written, accepted, wire, failed_assert>>

ReadAssert ==
  /\ At("r_assert")
  /\ IF r <= w \/ NDEBUG
     THEN Goto("r_compare") /\ UNCHANGED failed_assert
     ELSE failed_assert' = 60 /\ UNCHANGED task
  /\ UNCHANGED <<ring, gState, written, accepted, wire>>

ReadCompare ==
  /\ At("r_compare")
  /\ Goto(IF r = w THEN "parse" ELSE "r_load")
  /\ UNCHANGED <<ring, gState, written, accepted, wire, failed_assert>>

ReadLoad ==
  /\ At("r_load")
  /\ tx_block' = r
  /\ reg' = r
  /\ pc' = "r_store"
  /\ UNCHANGED <<return_to, src, discover_count>>
  /\ UNCHANGED <<ring, gState, written, accepted, wire, failed_assert>>

ReadStore ==
  /\ At("r_store")
  /\ r' = Buf!Wrap(reg)
  /\ Goto(IF r' = 0 THEN "r_clear" ELSE "device_write")
  /\ UNCHANGED <<pool, prev_w_block, w, overflow>>
  /\ UNCHANGED <<gState, written, accepted, wire, failed_assert>>

NoClearMutant ==
  /\ At("r_clear")
  /\ Goto("device_write")
  /\ UNCHANGED <<ring, gState, written, accepted, wire, failed_assert>>

ReadClear ==
  /\ At("r_clear")
  /\ overflow' = FALSE
  /\ Goto("device_write")
  /\ UNCHANGED <<pool, prev_w_block, w, r>>
  /\ UNCHANGED <<gState, written, accepted, wire, failed_assert>>

NoWaitMutant ==
  /\ At("device_write")
  /\ gState' = IF gState = READY
               THEN [block |-> tx_block, first |-> pool[tx_block].buffer]
               ELSE gState
  /\ tx_block' = NULL
  /\ pc' = "parse"
  /\ UNCHANGED <<return_to, src, reg, discover_count>>
  /\ UNCHANGED <<ring, written, accepted, wire, failed_assert>>

(***************************************************************************)
(* Waits for gState, then starts a transfer that reads the block in place, *)
(* although its slot was given back to the writers.                        *)
(***************************************************************************)
device_write ==
  /\ At("device_write")
  /\ gState = READY
  /\ gState' = [block |-> tx_block, first |-> pool[tx_block].buffer]
  /\ tx_block' = NULL
  /\ pc' = "parse"
  /\ UNCHANGED <<return_to, src, reg, discover_count>>
  /\ UNCHANGED <<ring, written, accepted, wire, failed_assert>>

(***************************************************************************)
(* The received frame is handled.  Its callback may reply and may log, more*)
(* than once: motor_flash_params_cb logs what motor_params_save has logged.*)
(***************************************************************************)
parse ==
  /\ At("parse")
  /\ \/ pc' = "event_step" /\ UNCHANGED <<return_to, src, written>>
     \/ BeginWrite("parse")
  /\ UNCHANGED <<reg, tx_block, discover_count>>
  /\ UNCHANGED <<ring, gState, accepted, wire, failed_assert>>
-------------------------------------------------------------------------------
(***************************************************************************)
(* motor_observation_write_pack, or the log of a sensor error, in the motor*)
(* code: the whole call of device_write_buffer, which nothing preempts.    *)
(***************************************************************************)
MotorWrites ==
  /\ failed_assert = 0
  /\ written < MaxMessages
  /\ written' = written + 1
  /\ IF ~Buf!WriterAssert /\ ~NDEBUG
     THEN failed_assert' = 14 /\ UNCHANGED <<ring, accepted>>
     ELSE /\ UNCHANGED failed_assert
          /\ \/ Buf!NoFreeBlock /\ UNCHANGED <<ring, accepted>>
             \/ /\ Buf!buffer_write_block(written')
                /\ accepted' = Append(accepted, written')
  /\ UNCHANGED <<task, gState, wire>>

\* The DMA has sent the last byte of the block.
TransmitComplete ==
  /\ gState # READY
  /\ wire' = Append(wire, [first |-> gState.first,
                           last |-> pool[gState.block].buffer])
  /\ gState' = READY
  /\ UNCHANGED <<ring, task, written, accepted, failed_assert>>
-------------------------------------------------------------------------------
Init ==
  /\ Buf!Init
  /\ discover_count = 0
  /\ gState = READY
  /\ pc = "event_step"
  /\ return_to = "parse"
  /\ src = 0
  /\ reg = 0
  /\ tx_block = NULL
  /\ written = 0
  /\ accepted = <<>>
  /\ wire = <<>>
  /\ failed_assert = 0

WriteBlock == \/ WriteOverflow
              \/ WriteAssert
              \/ WriteCompare
              \/ WriteCopy
              \/ WriteLoad
              \/ WriteStore
              \/ WriteFlag

ReadBlock == \/ ReadOverflow
             \/ ReadAssert
             \/ ReadCompare
             \/ ReadLoad
             \/ ReadStore
             \/ ReadClear

event_step == CountDiscover \/ WriteBlock \/ ReadBlock \/ device_write \/ parse

Next == event_step \/ MotorWrites \/ TransmitComplete

Spec == Init /\ [][Next]_vars

(***************************************************************************)
(* What the application may be assumed to do.  The motor code that takes   *)
(* turns with event_step finds the task between two calls.  Under a light  *)
(* load who would reply or observe finds fewer than Backlog blocks waiting.*)
(***************************************************************************)
MotorTakesTurn == pc = "event_step" /\ MotorWrites

TurnsNext == event_step \/ MotorTakesTurn \/ TransmitComplete

TurnsSpec == Init /\ [][TurnsNext]_vars

LightLoad == written' # written => Buf!Count < Backlog

LightNext == \/ CountDiscover
             \/ WriteBlock
             \/ ReadBlock
             \/ device_write
             \/ parse /\ LightLoad
             \/ MotorTakesTurn /\ LightLoad
             \/ TransmitComplete

LightSpec == Init /\ [][LightNext]_vars

\* The loop around event_step always comes back, and transfers end.
FairLightSpec == LightSpec /\ WF_vars(event_step) /\ WF_vars(TransmitComplete)
-------------------------------------------------------------------------------
TypeOK ==
  /\ pool \in [Buf!Slots -> Buf!Block]
  /\ {prev_w_block, tx_block, gState.block} \subseteq Buf!Slots \union {NULL}
  /\ {w, r, reg} \subseteq Buf!Slots
  /\ overflow \in BOOLEAN
  /\ discover_count \in 0 .. DISCOVER_PERIOD - 1
  /\ {src, written, gState.first} \subseteq Messages
  /\ accepted \in Seq(Messages)
  /\ wire \in Seq([first : Messages, last : Messages])
  /\ failed_assert \in {0, 14, 60}

(***************************************************************************)
(* The host receives the messages the ring accepted, in the order of the   *)
(* calls that wrote them, none left out and none twice: holds when the     *)
(* motor code takes turns with event_step.                                 *)
(***************************************************************************)
TransmittedInOrder ==
  \A i \in 1 .. Len(wire) : i <= Len(accepted) /\ wire[i].first = accepted[i]

(***************************************************************************)
(* A message that the DMA began to send is the one it ends with: no writer *)
(* reuses the slot during the transfer.                                    *)
(***************************************************************************)
TransmittedWhole ==
  \A i \in 1 .. Len(wire) : wire[i].first = wire[i].last

(***************************************************************************)
(* device_write_buffer returns 0 for a message it drops, too.  Under a     *)
(* light load it drops none, neither in a task that is preempted by the    *)
(* DMA's end nor in the motor code: the ring has accepted every message    *)
(* but the one the event task is just writing.                             *)
(***************************************************************************)
NothingDropped ==
  Len(accepted) =
    written - (IF pc \in {"w_overflow", "w_assert", "w_compare", "w_copy"} THEN 1 ELSE 0)

(***************************************************************************)
(* Under a light load what was written is transmitted in the end.          *)
(***************************************************************************)
EveryWriteTransmitted ==
  \A n \in 1 .. MaxMessages : written >= n ~> Len(wire) >= n
===============================================================================
