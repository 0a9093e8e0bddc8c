------------------------------- MODULE NsUart -------------------------------
(***************************************************************************)
(* The serial driver of ns16550.c in interrupt mode: a receive and a       *)
(* transmit ring, the interrupt handler that moves bytes between them and  *)
(* the chip, and a thread that reads and writes.                           *)
(*                                                                         *)
(* Bytes are numbered in the order in which they come in, and in which     *)
(* they are written.                                                       *)
(***************************************************************************)
EXTENDS Integers, Sequences, FiniteSets

CONSTANTS UART_BUF_SIZE,   \* places of a ring: 512
          SP_FIFO_SIZE,    \* places of the chip's FIFOs: 16
          WriteSizes, ReadSizes,   \* sizes of the calls
          MaxWritten, MaxArrived   \* bounds: bytes in a behaviour

ASSUME UartConstants ==
    /\ UART_BUF_SIZE \in Nat \ {0} /\ SP_FIFO_SIZE \in Nat \ {0}
    /\ WriteSizes \subseteq Nat \ {0} /\ ReadSizes \subseteq Nat \ {0}
    /\ MaxWritten \in Nat /\ MaxArrived \in Nat

VARIABLES TxData, RxData,   \* the rings
          txfifo, rxfifo,   \* the chip's FIFOs
          ier, thre,        \* its enabled interrupts; "transmitter empty" latched
          isr,              \* the handler: off, or has it sent something?
          wpc, buf,         \* the writing thread: next step, bytes not yet dealt with
          written, arrived, \* bytes handed to write, bytes come in
          line, got,        \* bytes gone out, bytes handed to the reader
          upset             \* history: what disturbed the transmission, see Upset

txVars == <<TxData, txfifo, thre, line>>
rxVars == <<RxData, rxfifo, arrived, got>>
vars == <<TxData, RxData, txfifo, rxfifo, ier, thre, isr, wpc, buf, written, arrived,
          line, got, upset>>

Least(a, b) == IF a < b THEN a ELSE b

-----------------------------------------------------------------------------
(* Rings.                                                                  *)

Places == 0..(UART_BUF_SIZE - 1)

initialize_buffer == [Buf |-> [p \in Places |-> 0], Count |-> 0, pHead |-> 0, pTail |-> 0]

\* Buf after s was stored from the tail on; of bytes for one place the last stays.
Stored(r, s) ==
    [p \in Places |->
       LET i == {j \in 1..Len(s) : (r.pTail + j - 1) % UART_BUF_SIZE = p}
       IN  IF i = {} THEN r.Buf[p] ELSE s[CHOOSE j \in i : \A k \in i : k <= j]]

\* Mutant: what does not fit is not stored.
enqueue_to_buffer_DropNew(r, s) ==
    LET n == Least(Len(s), UART_BUF_SIZE - r.Count)
    IN  [Buf |-> Stored(r, SubSeq(s, 1, n)), Count |-> r.Count + n,
         pHead |-> r.pHead, pTail |-> (r.pTail + n) % UART_BUF_SIZE]

\* Bytes go to the tail one by one; after an overflow the ring is full and its
\* head is its tail.
enqueue_to_buffer(r, s) ==
    LET tail == (r.pTail + Len(s)) % UART_BUF_SIZE
        over == r.Count + Len(s) > UART_BUF_SIZE
    IN  [Buf |-> Stored(r, s), Count |-> IF over THEN UART_BUF_SIZE ELSE r.Count + Len(s),
         pHead |-> IF over THEN tail ELSE r.pHead, pTail |-> tail]

\* At most len bytes from the head: what they are and what is left.
Front(r, len) ==
    [i \in 1..Least(len, r.Count) |-> r.Buf[(r.pHead + i - 1) % UART_BUF_SIZE]]
dequeue_from_buffer(r, len) ==
    LET n == Least(len, r.Count)
    IN  [r EXCEPT !.Count = @ - n, !.pHead = (@ + n) % UART_BUF_SIZE]

Contents(r) == Front(r, r.Count)

-----------------------------------------------------------------------------
(* The chip.                                                               *)

\* NS16550_open has reset the rings and enabled the receive interrupt.
Init ==
    /\ TxData = initialize_buffer /\ RxData = initialize_buffer
    /\ txfifo = <<>> /\ rxfifo = <<>> /\ ier = {"rx"} /\ thre = TRUE
    /\ isr = "off" /\ wpc = "idle" /\ buf = <<>>
    /\ written = 0 /\ arrived = 0 /\ line = <<>> /\ got = <<>> /\ upset = {}

THOLD == txfifo = <<>>

\* "race": the chip or its handler acted while the thread was writing, or bytes
\* came in while others were going out.  "overrun": the transmit ring was full.
Upset(what, when) == upset' = IF when THEN upset \cup {what} ELSE upset

\* A byte leaves the FIFO; with the last one the transmitter is empty.
Shift ==
    /\ txfifo # <<>> /\ txfifo' = Tail(txfifo) /\ line' = Append(line, Head(txfifo))
    /\ thre' = (Len(txfifo) = 1)
    /\ Upset("race", wpc # "idle")
    /\ UNCHANGED <<TxData, rxVars, ier, isr, wpc, buf, written>>

\* A byte comes in; the handler is quick enough for the FIFO to have a place.
Arrive ==
    /\ arrived < MaxArrived /\ Len(rxfifo) < SP_FIFO_SIZE
    /\ Upset("race", wpc # "idle" \/ ~THOLD \/ TxData.Count > 0)
    /\ arrived' = arrived + 1 /\ rxfifo' = Append(rxfifo, arrived + 1)
    /\ UNCHANGED <<txVars, RxData, got, ier, isr, wpc, buf, written>>

RxPending == "rx" \in ier /\ rxfifo # <<>>
TxPending == "tx" \in ier /\ thre

\* Bytes beyond the FIFO's places are lost.
Fill(s) == SubSeq(txfifo \o s, 1, Least(Len(txfifo \o s), SP_FIFO_SIZE))

\* Enabling the transmit interrupt while the transmitter is empty latches it.
NS16550_set_interrupt(mask, latched) ==
    /\ ier' = mask
    /\ thre' = (txfifo' = <<>> /\ (latched \/ "tx" \in mask \ ier))
AllButTx == {"rx"}
All == {"rx", "tx"}

-----------------------------------------------------------------------------
(* NS16550_interrupt_handler.                                              *)

Enter ==
    /\ isr = "off" /\ (RxPending \/ TxPending)
    /\ Upset("race", wpc # "idle")
    /\ isr' = "none"
    /\ UNCHANGED <<txVars, rxVars, ier, wpc, buf, written>>

\* Mutant: the transmit interrupt is off after every round.
NextMask_Off(count) == AllButTx

\* The transmit interrupt stays on if this call of the handler has sent anything.
NextMask(count) == IF count = "some" THEN All ELSE AllButTx

\* One round of NS16550_interrupt_process.  Reading the identification register
\* clears a transmitter interrupt if it reports it; receiving goes first.  With
\* nothing pending this is the last round.
Round ==
    /\ isr # "off"
    /\ IF RxPending
       THEN /\ RxData' = enqueue_to_buffer(RxData, rxfifo)
            /\ rxfifo' = <<>>
       ELSE UNCHANGED <<RxData, rxfifo>>
    /\ LET sends == TxData.Count > 0 /\ THOLD
           count == IF sends THEN "some" ELSE isr
           clear == ~RxPending /\ TxPending
       IN  /\ IF sends
              THEN /\ txfifo' = Fill(Front(TxData, SP_FIFO_SIZE))
                   /\ TxData' = dequeue_from_buffer(TxData, SP_FIFO_SIZE)
              ELSE UNCHANGED <<txfifo, TxData>>
           /\ NS16550_set_interrupt(NextMask(count), thre /\ ~clear)
           /\ isr' = IF RxPending \/ TxPending THEN count ELSE "off"
    /\ UNCHANGED <<line, arrived, got, wpc, buf, written, upset>>

Handler == Enter \/ Round

-----------------------------------------------------------------------------
(* The thread.  An interrupt that is pending comes before its next step.    *)

Runs == isr = "off" /\ ~RxPending /\ ~TxPending

\* NS16550_write_string_int: is the transmitter idle?
Write ==
    /\ wpc = "idle" /\ Runs
    /\ \E n \in WriteSizes :
         /\ written + n <= MaxWritten /\ written' = written + n
         /\ buf' = [i \in 1..n |-> written + i]
    /\ wpc' = IF THOLD THEN "direct" ELSE "cache"
    /\ UNCHANGED <<txVars, rxVars, ier, isr, upset>>

\* Then the first bytes go to the chip ...
Direct ==
    /\ wpc = "direct" /\ Runs /\ wpc' = "enable"
    /\ LET n == Least(Len(buf), SP_FIFO_SIZE)
       IN  /\ txfifo' = Fill(SubSeq(buf, 1, n)) /\ thre' = FALSE
           /\ buf' = SubSeq(buf, n + 1, Len(buf))
    /\ UNCHANGED <<TxData, line, rxVars, ier, isr, written, upset>>

\* ... its interrupt is enabled ...
Enable ==
    /\ wpc = "enable" /\ Runs
    /\ wpc' = IF buf = <<>> THEN "idle" ELSE "cache"
    /\ UNCHANGED txfifo /\ NS16550_set_interrupt(All, thre)
    /\ UNCHANGED <<TxData, line, rxVars, isr, buf, written, upset>>

\* Mutant: the rest goes in front of what is there already.
Cache_Front ==
    /\ wpc = "cache" /\ Runs /\ wpc' = "idle"
    /\ TxData' = enqueue_to_buffer(initialize_buffer, buf \o Contents(TxData)) /\ buf' = <<>>
    /\ Upset("overrun", TxData.Count + Len(buf) > UART_BUF_SIZE)
    /\ UNCHANGED <<txfifo, thre, line, rxVars, ier, isr, written>>

\* ... and the rest goes to the ring, with interrupts disabled.
Cache ==
    /\ wpc = "cache" /\ Runs /\ wpc' = "idle"
    /\ TxData' = enqueue_to_buffer(TxData, buf) /\ buf' = <<>>
    /\ Upset("overrun", TxData.Count + Len(buf) > UART_BUF_SIZE)
    /\ UNCHANGED <<txfifo, thre, line, rxVars, ier, isr, written>>

\* NS16550_read without a timeout, with interrupts disabled.
Read ==
    /\ wpc = "idle" /\ Runs
    /\ \E n \in ReadSizes :
         /\ got' = got \o Front(RxData, n)
         /\ RxData' = dequeue_from_buffer(RxData, n)
    /\ UNCHANGED <<txVars, rxfifo, arrived, ier, isr, wpc, buf, written, upset>>

Thread == Write \/ Direct \/ Enable \/ Cache \/ Read

Next == Shift \/ Arrive \/ Handler \/ Thread
Spec == Init /\ [][Next]_vars

\* The chip shifts bytes out, interrupts are served, and a write that was begun
\* goes on.
FairSpec == Spec /\ WF_vars(Shift) /\ WF_vars(Handler) /\ WF_vars(Direct \/ Enable \/ Cache)

-----------------------------------------------------------------------------
(* Properties.                                                             *)

RingSound(r) ==
    /\ r.Count \in 0..UART_BUF_SIZE /\ r.pHead \in Places /\ r.pTail \in Places
    /\ (r.pHead + r.Count) % UART_BUF_SIZE = r.pTail

\* The state is well typed, and of both rings head, tail and count agree, with
\* full and empty told apart by the count alone.
TypeOK ==
    /\ RingSound(TxData) /\ RingSound(RxData)
    /\ Len(txfifo) <= SP_FIFO_SIZE /\ Len(rxfifo) <= SP_FIFO_SIZE
    /\ ier \subseteq {"rx", "tx"} /\ thre \in BOOLEAN
    /\ isr \in {"off", "none", "some"} /\ wpc \in {"idle", "direct", "enable", "cache"}
    /\ buf \in Seq(Nat) /\ line \in Seq(Nat) /\ got \in Seq(Nat)
    /\ upset \subseteq {"race", "overrun"}

\* What waits to be read is the newest that came in, without a gap, and what was
\* read before is older and in order; nothing at all is missing as long as no
\* more came in than the ring holds ("drop the most oldest data when add").
RxNewest ==
    LET s == Contents(RxData) \o rxfifo
        first == arrived - Len(s)
    IN  /\ \A i \in 1..Len(s) : s[i] = first + i
        /\ \A i \in 1..Len(got) : got[i] <= first /\ (i > 1 => got[i - 1] < got[i])
        /\ arrived <= UART_BUF_SIZE => Len(got) = first

\* As long as nothing disturbed the transmission, bytes go out in the order in
\* which they were written, and none is lost between ring, chip and a write that
\* is under way.
TxInOrder ==
    upset = {} => line \o txfifo \o Contents(TxData) \o buf = [i \in 1..written |-> i]

\* What is left in the transmit ring does go out, without another write, unless
\* the chip and the thread got into each other's way.
TxDrains == TxData.Count > 0 ~> (TxData.Count = 0 \/ "race" \in upset)
=============================================================================
