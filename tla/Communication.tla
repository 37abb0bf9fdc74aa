----------------------------- MODULE Communication -----------------------------
(***************************************************************************)
(* How bytes of the VE.Bus become frames (src/ve_bus.cpp,                  *)
(* include/rs485_serial.h): the UART fills its FIFO, the receive interrupt *)
(* switches itself off and notifies the communication task, the task       *)
(* collects bytes up to END_OF_FRAME, keeps a copy of the frame for        *)
(* receive_cb and decodes it, and switches the interrupt on again.         *)
(*                                                                         *)
(* A byte is its position on the bus; ends holds the positions of the      *)
(* END_OF_FRAME bytes.  What is done with a decoded frame is modelled in   *)
(* FrameCodec and VEBusRequests.                                           *)
(***************************************************************************)
EXTENDS Integers, Sequences, SequencesExt, FiniteSets

CONSTANTS
  HwFifoSize, \* bytes the UART holds (32)
  BufferSize, \* VEBUS_MAX_BUFFER_SIZE
  ListSize,   \* VEBUS_MAX_RECEIVE_BUFFER
  MaxBytes    \* bound on the bytes on the bus

ASSUME SizesAssumption ==
  /\ HwFifoSize \in Nat \ {0}
  /\ BufferSize \in Nat \ {0}
  /\ ListSize \in Nat \ {0}
  /\ MaxBytes \in Nat

VARIABLES
  running,       \* _communitationIsRunning
  resumed,       \* _communitationIsResumed
  receiveBuffer, \* _receiveBuffer
  receiveList,   \* _receiveBufferList
  hasCallback,   \* whether receive_cb is set
  task,          \* where communication_task is
  notified,      \* its notification count, which pdTRUE clears
  irqEnabled,    \* the receive interrupt in the NVIC
  isr,           \* where on_uart_receive is
  fifo,          \* the UART's receive FIFO
  \* history
  n, ends,       \* the bytes on the bus so far, those that end a frame
  lost,          \* bytes that were dropped on the way
  decoded,       \* the frames handed to decodeVEbusFrame
  delivered      \* the frames handed to receive_cb

shared == <<running, resumed, hasCallback, n, ends>>
frames == <<receiveBuffer, receiveList, decoded, delivered>>
vars == <<running, resumed, receiveBuffer, receiveList, hasCallback, task, notified,
          irqEnabled, isr, fifo, n, ends, lost, decoded, delivered>>

-------------------------------------------------------------------------------
(* The bus and the UART: a byte that finds the FIFO full is lost.           *)
BusByte(isEnd) ==
  /\ n < MaxBytes
  /\ n' = n + 1
  /\ ends' = IF isEnd THEN ends \cup {n + 1} ELSE ends
  /\ IF Len(fifo) < HwFifoSize
       THEN fifo' = Append(fifo, n + 1) /\ UNCHANGED lost
       ELSE lost' = lost \cup {n + 1} /\ UNCHANGED fifo
  /\ UNCHANGED <<running, resumed, hasCallback, task, notified, irqEnabled, isr, frames>>

-------------------------------------------------------------------------------
(* on_uart_receive.  The interrupt is level triggered: it is raised as long *)
(* as bytes are there.  The task may run on the other core meanwhile.       *)
IsrDisable ==
  /\ isr = "idle"
  /\ irqEnabled
  /\ fifo # <<>>
  /\ irqEnabled' = FALSE
  /\ isr' = "give"
  /\ UNCHANGED <<shared, frames, task, notified, fifo, lost>>

IsrGive ==
  /\ isr = "give"
  /\ notified' = TRUE
  /\ isr' = "idle"
  /\ UNCHANGED <<shared, frames, task, irqEnabled, fifo, lost>>

-------------------------------------------------------------------------------
(* communication_task.                                                      *)

(* ulTaskNotifyTake returns with a notification or after 20 ms. *)
NotifyTake ==
  /\ task = "take"
  /\ notified' = FALSE
  /\ task' = "handle"
  /\ UNCHANGED <<shared, frames, irqEnabled, isr, fifo, lost>>

(* commandHandling up to its loop.  It returns true when communication is   *)
(* stopped and false when there are no bytes; the task tries again then.    *)
HandleBegin ==
  /\ task = "handle"
  /\ \/ /\ ~running
        /\ task' = "check"
        /\ UNCHANGED resumed
     \/ /\ running
        /\ resumed' = FALSE
        /\ task' = IF fifo = <<>> THEN "handle" ELSE "read"
  /\ UNCHANGED <<running, hasCallback, n, ends, frames, notified, irqEnabled, isr, fifo, lost>>

(* Faults: a full buffer is not emptied, so push refuses the byte; the loop *)
(* does not stop at END_OF_FRAME.                                           *)
Room_None(s) == s
AfterByte_NoBreak(s) == IF Len(fifo) = 1 /\ Last(s) \in ends THEN "store" ELSE "read"

(* The receive buffer before the push: cleared when it is full. *)
Room(s) == IF Len(s) = BufferSize THEN <<>> ELSE s

AfterByte(s) == IF Last(s) \in ends THEN "store" ELSE "read"

ReadByte ==
  /\ task = "read"
  /\ fifo # <<>>
  /\ LET c    == Head(fifo)
         kept == Room(receiveBuffer)
     IN  /\ receiveBuffer' = IF Len(kept) < BufferSize THEN Append(kept, c) ELSE kept
         /\ lost' = lost \cup (Range(Append(receiveBuffer, c)) \ Range(receiveBuffer'))
         /\ task' = AfterByte(receiveBuffer')
  /\ fifo' = Tail(fifo)
  /\ UNCHANGED <<shared, receiveList, decoded, delivered, notified, irqEnabled, isr>>

(* No byte left and no END_OF_FRAME: commandHandling returns false. *)
ReadNoMore ==
  /\ task = "read"
  /\ fifo = <<>>
  /\ task' = "handle"
  /\ UNCHANGED <<shared, frames, notified, irqEnabled, isr, fifo, lost>>

(* Fault: the buffer is not cleared. *)
Cleared_Not == receiveBuffer

(* static_vector::push refuses an element when the list is full. *)
Stored(s) == IF Len(receiveList) < ListSize THEN Append(receiveList, s) ELSE receiveList

Cleared == <<>>

(* A frame is complete: it goes to the list, is decoded, and leaves the     *)
(* receive buffer; commandHandling returns true.                            *)
StoreFrame ==
  /\ task = "store"
  /\ receiveList' = Stored(receiveBuffer)
  /\ decoded' = Append(decoded, receiveBuffer)
  /\ receiveBuffer' = Cleared
  /\ task' = "check"
  /\ UNCHANGED <<shared, delivered, notified, irqEnabled, isr, fifo, lost>>

(* The loop of the task goes on while there are bytes. *)
CheckAvailable ==
  /\ task = "check"
  /\ task' = IF fifo # <<>> THEN "handle" ELSE "enable"
  /\ UNCHANGED <<shared, frames, notified, irqEnabled, isr, fifo, lost>>

(* Fault: the interrupt stays off. *)
IrqAfterLoop_Off == irqEnabled

IrqAfterLoop == TRUE

EnableReceiveCallback ==
  /\ task = "enable"
  /\ irqEnabled' = IrqAfterLoop
  /\ task' = "take"
  /\ UNCHANGED <<shared, frames, notified, isr, fifo, lost>>

-------------------------------------------------------------------------------
(* Fault: the list is not cleared after the callbacks. *)
AfterMaintain_Keep == receiveList

AfterMaintain == <<>>

(* The last part of Maintain, under _semaphoreReceiveData. *)
MaintainReceive ==
  /\ receiveList # <<>>
  /\ delivered' = IF hasCallback THEN delivered \o receiveList ELSE delivered
  /\ receiveList' = AfterMaintain
  /\ UNCHANGED <<shared, receiveBuffer, decoded, task, notified, irqEnabled, isr, fifo, lost>>

StartCommunication ==
  /\ running' = TRUE
  /\ resumed' = TRUE
  /\ UNCHANGED <<hasCallback, n, ends, frames, task, notified, irqEnabled, isr, fifo, lost>>

StopCommunication ==
  /\ running' = FALSE
  /\ UNCHANGED <<resumed, hasCallback, n, ends, frames, task, notified, irqEnabled, isr, fifo, lost>>

-------------------------------------------------------------------------------
(* Setup has started communication and the task has set its interrupt up.   *)
Init ==
  /\ running = TRUE /\ resumed = TRUE
  /\ receiveBuffer = <<>> /\ receiveList = <<>>
  /\ hasCallback \in BOOLEAN
  /\ task = "take" /\ notified = FALSE
  /\ irqEnabled = TRUE /\ isr = "idle"
  /\ fifo = <<>> /\ n = 0 /\ ends = {} /\ lost = {}
  /\ decoded = <<>> /\ delivered = <<>>

TaskStep ==
  \/ NotifyTake \/ HandleBegin \/ ReadByte \/ ReadNoMore
  \/ StoreFrame \/ CheckAvailable \/ EnableReceiveCallback

Next ==
  \/ \E isEnd \in BOOLEAN : BusByte(isEnd)
  \/ IsrDisable \/ IsrGive
  \/ TaskStep
  \/ MaintainReceive
  \/ StartCommunication \/ StopCommunication

Spec == Init /\ [][Next]_vars

(* The task has the highest priority in use, shared with two others under   *)
(* time slicing on two cores: it always goes on.                            *)
FairSpec == Spec /\ WF_vars(TaskStep)

-------------------------------------------------------------------------------
(* Properties.                                                              *)

Positions == 1 .. MaxBytes

(* The buffers keep their sizes (static_vector, the UART's FIFO); the task  *)
(* stores and decodes a frame only at its END_OF_FRAME.                     *)
TypeOK ==
  /\ running \in BOOLEAN /\ resumed \in BOOLEAN /\ hasCallback \in BOOLEAN
  /\ notified \in BOOLEAN /\ irqEnabled \in BOOLEAN
  /\ task \in {"take", "handle", "read", "store", "check", "enable"}
  /\ isr \in {"idle", "give"}
  /\ n \in 0 .. MaxBytes /\ ends \subseteq 1 .. n /\ lost \subseteq 1 .. n
  /\ fifo \in Seq(Positions) /\ Len(fifo) <= HwFifoSize
  /\ receiveBuffer \in Seq(Positions) /\ Len(receiveBuffer) <= BufferSize
  /\ receiveList \in Seq(Seq(Positions)) /\ Len(receiveList) <= ListSize
  /\ decoded \in Seq(Seq(Positions)) /\ delivered \in Seq(Seq(Positions))
  /\ task = "store" => receiveBuffer # <<>> /\ Last(receiveBuffer) \in ends

(* Every byte of the bus is in one place: lost, decoded, in the receive     *)
(* buffer or in the UART, and those that are not lost are in the order of   *)
(* the bus.  Nothing is decoded twice and nothing is left over from an      *)
(* earlier frame.                                                           *)
EveryByteOnce ==
  LET kept == FlattenSeq(decoded) \o receiveBuffer \o fifo
  IN  /\ \A j, k \in 1 .. Len(kept) : j < k => kept[j] < kept[k]
      /\ lost \cap Range(kept) = {}
      /\ lost \cup Range(kept) = 1 .. n

(* What is decoded is one frame at most: it ends with the only END_OF_FRAME *)
(* it has.  The frame that follows a loss may lack its beginning or be      *)
(* glued to one that lacks its end; the receive path has no checksum test   *)
(* that would notice.                                                       *)
OneFrameAtATime ==
  \A k \in 1 .. Len(decoded) : {j \in 1 .. Len(decoded[k]) : decoded[k][j] \in ends} = {Len(decoded[k])}

(* receive_cb gets frames that were decoded, in their order and once each,  *)
(* although Maintain runs in a task of its own and the list may refuse      *)
(* frames.                                                                  *)
DeliveredInOrder ==
  LET given == delivered \o receiveList
  IN  /\ \A j, k \in 1 .. Len(given) : j < k => Last(given[j]) < Last(given[k])
      /\ Range(given) \subseteq Range(decoded)

(* The task does not sleep behind a switched off interrupt: whoever has     *)
(* switched it off has notified the task, or is about to.  Otherwise every  *)
(* frame would wait for the 20 ms of ulTaskNotifyTake.                      *)
NoLostWakeup ==
  (task = "take" /\ ~irqEnabled) => (notified \/ isr = "give")

Handled(p) == \E k \in 1 .. Len(decoded) : Last(decoded[k]) = p

(* A frame whose END_OF_FRAME the UART has got is decoded, whatever was     *)
(* lost before it, unless communication is stopped.                         *)
EveryFrameIsDecoded ==
  \A p \in Positions :
    (p \in Range(fifo) /\ p \in ends) ~> (Handled(p) \/ ~running)
===============================================================================
