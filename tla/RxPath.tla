-------------------------------- MODULE RxPath --------------------------------
(***************************************************************************)
(* The receive path of event.c: the event task and the UART interrupt      *)
(* share device->rx_buf with no lock and no interrupt masking.             *)
(*                                                                         *)
(*   HAL_UARTEx_RxEventCallback  (interrupt, atomic for the task): marks   *)
(*       the block claimed last as complete, claims the next block and     *)
(*       points the receive DMA at it.                                     *)
(*   event_step  (task): peeks at the oldest block, and when it is         *)
(*       complete takes it off the ring and parses it.                     *)
(*                                                                         *)
(* The interrupt may run between any two accesses the task makes to the    *)
(* volatile fields of the ring, so each of these accesses is a step here.  *)
(* r = ++r % MAX_BLOCK_SIZE modifies r twice without a sequence point; a   *)
(* build may store the unreduced value first, so the two stores are two    *)
(* steps (the interrupt need not run between them).                        *)
(*                                                                         *)
(* A frame is its number, counted from 1; 0 is a block no frame reached.   *)
(* The host sends well-formed protocol frames separated by an idle line.   *)
(***************************************************************************)
EXTENDS Integers, Sequences

CONSTANTS MAX_BLOCK_SIZE,  \* slots of rx_buf
          MaxFrames,       \* bound on the frames the host ever sends
          Window,          \* frames the host has outstanding at most
          NDEBUG           \* TRUE in a build that drops the asserts

ASSUME RxAssumption == /\ MAX_BLOCK_SIZE \in Nat \ {0, 1}
                       /\ MaxFrames \in Nat
                       /\ Window \in Nat
                       /\ NDEBUG \in BOOLEAN

VARIABLES pool, prev_w_block, w, r, overflow,  \* device->rx_buf
          dma,           \* slot the receive DMA fills; NULL: RX not armed
          irq,           \* the idle-line event of a frame is pending
          sent,          \* frames sent by the host
          pc, op,        \* the task: next access, and the call it is part of
          rx_block,      \* block returned by buffer_get_read_block
          header,        \* frame whose header parse has just checked
          handled,       \* what dispatch passed to callbacks, in order
          failed_assert  \* line of buffer.c whose assert failed, or 0

ring == <<pool, prev_w_block, w, r, overflow>>
task == <<pc, op, rx_block, header, handled>>
vars == <<ring, dma, irq, sent, task, failed_assert>>

Frames == 0 .. MaxFrames

Buf == INSTANCE RingBuffer WITH Content <- Frames, Zeroed <- 0

NULL == Buf!NULL

Running == failed_assert = 0
-------------------------------------------------------------------------------
(***************************************************************************)
(* event_run: claim the first block and start the DMA.  The task calls it  *)
(* once before its loop of event_step; no interrupt comes before.          *)
(***************************************************************************)
event_run ==
  /\ pc = "event_run"
  /\ Buf!buffer_get_write_block(pool)
  /\ dma' = w
  /\ pc' = "overflow"
  /\ UNCHANGED <<irq, sent, op, rx_block, header, handled, failed_assert>>

(***************************************************************************)
(* The DMA stores a frame of the host in the armed block.  With no block   *)
(* armed nobody receives it.                                               *)
(***************************************************************************)
HostSends ==
  /\ Running
  /\ pc # "event_run"
  /\ ~irq
  /\ sent < MaxFrames
  /\ sent - Len(handled) < Window
  /\ sent' = sent + 1
  /\ IF dma # NULL
     THEN /\ pool' = [pool EXCEPT ![dma].buffer = sent']
          /\ irq' = TRUE
     ELSE UNCHANGED <<pool, irq>>
  /\ UNCHANGED <<prev_w_block, w, r, overflow, dma, task, failed_assert>>

Completed == [pool EXCEPT ![prev_w_block].state = 1]

NoRearmMutant ==
  /\ Running
  /\ irq
  /\ irq' = FALSE
  /\ pool' = Completed
  /\ dma' = NULL
  /\ UNCHANGED <<prev_w_block, w, r, overflow, sent, task, failed_assert>>

RearmSameMutant ==
  /\ Running
  /\ irq
  /\ irq' = FALSE
  /\ IF Buf!NoFreeBlock
     THEN pool' = Completed /\ UNCHANGED <<prev_w_block, w, r, overflow, dma>>
     ELSE Buf!buffer_get_write_block(Completed) /\ dma' = prev_w_block
  /\ UNCHANGED <<sent, task, failed_assert>>

CompleteAfterClaimMutant ==
  /\ Running
  /\ irq
  /\ irq' = FALSE
  /\ IF Buf!NoFreeBlock
     THEN UNCHANGED <<pool, prev_w_block, w, r, overflow, dma>>
     ELSE /\ Buf!buffer_get_write_block([pool EXCEPT ![w].state = 1])
          /\ dma' = w
  /\ UNCHANGED <<sent, task, failed_assert>>

(***************************************************************************)
(* Runs to completion for the task.  A full ring leaves the DMA stopped,   *)
(* and as only this callback restarts it, stopped for good.                *)
(***************************************************************************)
HAL_UARTEx_RxEventCallback ==
  /\ Running
  /\ irq
  /\ irq' = FALSE
  /\ IF ~Buf!WriterAssert /\ ~NDEBUG
     THEN /\ pool' = Completed
          /\ failed_assert' = 38
          /\ UNCHANGED <<prev_w_block, w, r, overflow, dma>>
     ELSE /\ UNCHANGED failed_assert
          /\ IF Buf!NoFreeBlock
             THEN /\ pool' = Completed
                  /\ dma' = NULL
                  /\ UNCHANGED <<prev_w_block, w, r, overflow>>
             ELSE /\ Buf!buffer_get_write_block(Completed)
                  /\ dma' = w
  /\ UNCHANGED <<sent, task>>
-------------------------------------------------------------------------------
(***************************************************************************)
(* event_step.  op tells buffer_seek_read_block from buffer_get_read_block,*)
(* whose tests are the same code.                                          *)
(***************************************************************************)
At(label) == Running /\ pc = label

Goto(label) == pc' = label /\ UNCHANGED <<op, rx_block, header, handled>>

NextEventStep == pc' = "overflow" /\ op' = "seek"

BlockFound == IF op = "seek" THEN "state" ELSE "increment"

ReadOverflow ==
  /\ At("overflow")
  /\ Goto(IF overflow THEN BlockFound ELSE "assert")
  /\ UNCHANGED <<ring, dma, irq, sent, failed_assert>>

CheckAssert ==
  /\ At("assert")
  /\ IF r <= w \/ NDEBUG
     THEN Goto("compare") /\ UNCHANGED failed_assert
     ELSE /\ failed_assert' = IF op = "seek" THEN 79 ELSE 60
          /\ UNCHANGED task
  /\ UNCHANGED <<ring, dma, irq, sent>>

\* parse does not look at the pointer it is given.
CompareEmpty ==
  /\ At("compare")
  /\ \/ r # w /\ Goto(BlockFound)
     \/ /\ r = w
        /\ op = "seek"
        /\ NextEventStep
        /\ UNCHANGED <<rx_block, header, handled>>
     \/ /\ r = w
        /\ op = "get"
        /\ rx_block' = NULL
        /\ pc' = "header"
        /\ UNCHANGED <<op, header, handled>>
  /\ UNCHANGED <<ring, dma, irq, sent, failed_assert>>

StateIgnoredMutant ==
  /\ At("state")
  /\ op' = "get"
  /\ pc' = "overflow"
  /\ UNCHANGED <<rx_block, header, handled>>
  /\ UNCHANGED <<ring, dma, irq, sent, failed_assert>>

ReadState ==
  /\ At("state")
  /\ op' = IF pool[r].state = 1 THEN "get" ELSE "seek"
  /\ pc' = "overflow"
  /\ UNCHANGED <<rx_block, header, handled>>
  /\ UNCHANGED <<ring, dma, irq, sent, failed_assert>>

IncrementR ==
  /\ At("increment")
  /\ rx_block' = r
  /\ r' = r + 1
  /\ pc' = "reduce"
  /\ UNCHANGED <<op, header, handled>>
  /\ UNCHANGED <<pool, prev_w_block, w, overflow, dma, irq, sent, failed_assert>>

ReduceR ==
  /\ At("reduce")
  /\ r' = Buf!Wrap(rx_block)
  /\ Goto(IF r' = 0 THEN "clear" ELSE "header")
  /\ UNCHANGED <<pool, prev_w_block, w, overflow, dma, irq, sent, failed_assert>>

ClearOverflow ==
  /\ At("clear")
  /\ overflow' = FALSE
  /\ Goto("header")
  /\ UNCHANGED <<pool, prev_w_block, w, r, dma, irq, sent, failed_assert>>

(***************************************************************************)
(* protocol_header_parse reads the block in place, after its slot was given*)
(* back to the ring.  A block with no frame, and whatever lies at the null *)
(* pointer, fail the test of the magic number.                             *)
(***************************************************************************)
ParseHeader ==
  /\ At("header")
  /\ IF rx_block # NULL /\ pool[rx_block].buffer # 0
     THEN /\ header' = pool[rx_block].buffer
          /\ pc' = "dispatch"
          /\ UNCHANGED <<op, rx_block>>
     ELSE /\ NextEventStep
          /\ rx_block' = NULL
          /\ UNCHANGED header
  /\ UNCHANGED <<ring, dma, irq, sent, handled, failed_assert>>

\* dispatch hands the payload, still in the same slot, to the callback.
Dispatch ==
  /\ At("dispatch")
  /\ handled' = Append(handled, [header |-> header,
                                 payload |-> pool[rx_block].buffer])
  /\ header' = 0
  /\ rx_block' = NULL
  /\ NextEventStep
  /\ UNCHANGED <<ring, dma, irq, sent, failed_assert>>
-------------------------------------------------------------------------------
Init ==
  /\ Buf!Init
  /\ dma = NULL
  /\ irq = FALSE
  /\ sent = 0
  /\ pc = "event_run"
  /\ op = "seek"
  /\ rx_block = NULL
  /\ header = 0
  /\ handled = <<>>
  /\ failed_assert = 0

event_step ==
  \/ ReadOverflow
  \/ CheckAssert
  \/ CompareEmpty
  \/ ReadState
  \/ IncrementR
  \/ ReduceR
  \/ ClearOverflow
  \/ ParseHeader
  \/ Dispatch

Next ==
  \/ event_run
  \/ HostSends
  \/ HAL_UARTEx_RxEventCallback
  \/ event_step

Spec == Init /\ [][Next]_vars

(***************************************************************************)
(* The task's loop is always scheduled again and a pending interrupt is    *)
(* always taken; the host owes us nothing.                                 *)
(***************************************************************************)
Fairness == /\ WF_vars(event_run)
            /\ WF_vars(event_step)
            /\ WF_vars(HAL_UARTEx_RxEventCallback)

FairSpec == Spec /\ Fairness
-------------------------------------------------------------------------------
TypeOK ==
  /\ pool \in [Buf!Slots -> Buf!Block]
  /\ prev_w_block \in Buf!Slots \union {NULL}
  /\ w \in Buf!Slots
  /\ r \in 0 .. MAX_BLOCK_SIZE
  /\ overflow \in BOOLEAN
  /\ dma \in Buf!Slots \union {NULL}
  /\ irq \in BOOLEAN
  /\ sent \in Frames
  /\ pc \in {"event_run", "overflow", "assert", "compare", "state", "increment",
             "reduce", "clear", "header", "dispatch"}
  /\ op \in {"seek", "get"}
  /\ rx_block \in Buf!Slots \union {NULL}
  /\ header \in Frames
  /\ handled \in Seq([header : Frames, payload : Frames])
  /\ failed_assert \in {0, 38, 60, 79}

Parsing == pc \in {"reduce", "clear", "header", "dispatch"} /\ rx_block # NULL

(***************************************************************************)
(* The callbacks see the host's frames in order, each once and whole:      *)
(* never the header of one with the payload of another.                    *)
(***************************************************************************)
ExactlyOnceInOrder ==
  \A i \in 1 .. Len(handled) : handled[i] = [header |-> i, payload |-> i]

(***************************************************************************)
(* event_step passes what buffer_get_read_block returns to parse without a *)
(* test, because buffer_seek_read_block has just returned a block: the ring*)
(* must not look empty to the second call when it did not to the first.    *)
(***************************************************************************)
NeverParsesNull == pc = "header" => rx_block # NULL

(***************************************************************************)
(* The slot is given back before the block is parsed: the interrupt must   *)
(* not point the DMA at it while the task still reads it.                  *)
(***************************************************************************)
ParsedBlockIsPrivate == Parsing => dma # rx_block

(***************************************************************************)
(* No frame of the host finds the receiver switched off.                   *)
(***************************************************************************)
ReceiverStaysArmed == pc # "event_run" /\ ~irq => dma # NULL

(***************************************************************************)
(* Every frame the host sends reaches a callback.                          *)
(***************************************************************************)
EveryFrameHandled ==
  \A n \in 1 .. MaxFrames : sent >= n ~> Len(handled) >= n

(***************************************************************************)
(* buffer.c:60 and :79, the reader's assert in the task.                   *)
(***************************************************************************)
ReaderAssertHolds == failed_assert \notin {60, 79}

-------------------------------------------------------------------------------
(***************************************************************************)
(* Why it works while at most MAX_BLOCK_SIZE - 2 frames are outstanding.   *)
(* Count the blocks claimed for the DMA and the blocks the task has taken. *)
(* The slots from the read position on hold the frames after those taken,  *)
(* in order; the last claimed slot is the DMA's, and the slot behind the   *)
(* read position is the one being parsed.                                  *)
(***************************************************************************)
Busy == pc \in {"reduce", "clear", "header", "dispatch"}

Claimed == sent + (IF irq THEN 0 ELSE 1)

Taken == Len(handled) + (IF Busy THEN 1 ELSE 0)

Waiting == Claimed - Taken

\* r as it will be after the second store of the increment
ReadPos == IF pc = "reduce" THEN Buf!Wrap(rx_block) ELSE r

Offset(s) == IF s >= ReadPos THEN s - ReadPos ELSE s - ReadPos + MAX_BLOCK_SIZE

\* The read position before it was reduced, until overflow is cleared
Unreduced == IF pc = "reduce" THEN rx_block + 1
             ELSE IF pc = "clear" THEN MAX_BLOCK_SIZE ELSE r

WaitingBounds == 1 <= Waiting /\ sent - Len(handled) <= Window

PointersInv ==
  /\ Offset(w) = Waiting
  /\ Offset(dma) = Waiting - 1
  /\ prev_w_block = dma
  /\ overflow <=> Unreduced + Waiting >= MAX_BLOCK_SIZE

BlocksInv ==
  /\ \A s \in Buf!Slots : Offset(s) < Waiting - 1 =>
       pool[s] = [buffer |-> Taken + 1 + Offset(s), state |-> 1]
  /\ pool[dma].state = 0
  /\ irq => pool[dma].buffer = sent

TaskInv ==
  /\ pc = "state" => op = "seek"
  /\ pc = "increment" \/ Busy => op = "get"
  /\ op = "get" /\ ~Busy => Waiting >= 2
  /\ pc = "clear" => r = 0
  /\ IF pc = "reduce" THEN r = rx_block + 1 ELSE r \in Buf!Slots
  /\ Busy => /\ rx_block \in Buf!Slots
             /\ ReadPos = Buf!Wrap(rx_block)
             /\ pool[rx_block].buffer = Taken
  /\ ~Busy => rx_block = NULL
  /\ pc = "dispatch" => header = Taken

RingInv ==
  pc # "event_run" /\ Running
    => WaitingBounds /\ PointersInv /\ BlocksInv /\ TaskInv
===============================================================================
