----------------------------- MODULE TeamReach ------------------------------
(***************************************************************************)
(* The sorting controller: main thread, interrupts, panel and service      *)
(* threads on one processor, and the robot arm and load cell it serves.    *)
(*                                                                         *)
(* The robot grabs Batch resistors onto the load cell and pulses GPIO 34,  *)
(* then takes them off one at a time, pulsing GPIO 37 after each; it works *)
(* slower than the controller.  Contacts bounce after a pulse.             *)
(***************************************************************************)
EXTENDS MainLoop, Panel, Services

CONSTANTS Loads,         \* readings of a full load cell
          Weights,       \* by how much a resistor changes the reading
          Glitches,      \* pins on which a stray edge can come at any time
          MaxParts,      \* bound: resistors handled in a behaviour
          MaxClicks,     \* clicks that can fall into one 800 ms delay: 2 or 3,
                         \* the touch thread looks every 300 ms
          Threads        \* the threads of lower priority that get to run

ASSUME LineConstants ==
    /\ Loads \subseteq Nat /\ Weights \subseteq Nat
    /\ Glitches \subseteq Pins
    /\ Threads \subseteq {"touch", "gui", "flush", "nb", "file"}
    /\ MaxParts \in Nat /\ MaxClicks \in Nat

VARIABLES held,      \* resistors still on the load cell
          part,      \* weight of the resistor taken off last
          placed,    \* resistors taken off, plus the total restored from the log
          clicks, acks   \* messages posted by clicks, by services in this delay

lineVars == <<held, part, placed>>
vars == <<mainVars, halted, scale, queueVars, ien, pend, touchVars, lcd,
          serviceVars, lineVars, clicks, acks>>

Init ==
    /\ MainInit /\ PanelInit /\ ServicesInit
    /\ scale = 0 /\ held = 0 /\ part = 0 /\ placed = 0 /\ clicks = 0 /\ acks = 0

-----------------------------------------------------------------------------
Waiting == pc = "recv" /\ main_mq = <<>>
Queued(op) == \E i \in 1..Len(main_mq) : main_mq[i].op = op

Signals == {INPUT_SIGNAL, INPUT_SIGNAL2}

\* The robot moves on when the controller is done with its last pulse.
Served ==
    /\ ~Queued(1) /\ ~Queued(9)
    /\ \/ pc = "recv" /\ Signals \cap Raised = {}
       \/ pc = "store1" /\ Signals \cap pend = {}

GrabAll ==
    /\ held = 0 /\ Served /\ fpc = "loop" /\ placed + Batch <= MaxParts
    /\ scale' \in Loads /\ held' = Batch
    /\ Edge(INPUT_SIGNAL2)
    /\ UNCHANGED <<mainVars, halted, queueVars, ien, touchVars, lcd, serviceVars,
                   part, placed, clicks, acks>>

TakeOff ==
    /\ held > 0 /\ Served
    /\ \E w \in Weights : w <= scale /\ part' = w /\ scale' = scale - w
    /\ held' = held - 1 /\ placed' = placed + 1
    /\ Edge(INPUT_SIGNAL)
    /\ UNCHANGED <<mainVars, halted, queueVars, ien, touchVars, lcd, serviceVars,
                   clicks, acks>>

\* A pulse that is being handled bounces, or a stray edge arrives.
Noise ==
    /\ \/ (Queued(1) \/ pc \in {"measure", "delay"}) /\ Edge(INPUT_SIGNAL)
       \/ (Queued(9) \/ pc = "sum") /\ Edge(INPUT_SIGNAL2)
       \/ \E p \in Glitches : Edge(p)
    /\ UNCHANGED <<mainVars, halted, scale, queueVars, ien, touchVars, lcd,
                   serviceVars, lineVars, clicks, acks>>

\* A finger on the touch panel.
Press ==
    /\ XPT2046_USE_GPIO_INT /\ Edge(XPT2046_USE_GPIO_NUM)
    /\ UNCHANGED <<mainVars, halted, scale, queueVars, ien, touchVars, lcd,
                   serviceVars, lineVars, clicks, acks>>

-----------------------------------------------------------------------------
Runs(thread) == thread \in Threads /\ MainBlocked

\* placed follows a restored total, so that the two can be compared.
Main ==
    /\ MainThread
    /\ placed' = IF Recv(3) THEN placed + Head(main_mq).val[1] ELSE placed
    /\ IF pc = "recv" THEN clicks' = 0 /\ acks' = 0 ELSE UNCHANGED <<clicks, acks>>
    /\ UNCHANGED <<scale, touchVars, lcd, serviceVars, held, part>>

DelayOver ==
    /\ EndPulse
    /\ UNCHANGED <<halted, scale, touchVars, lcd, serviceVars, lineVars, clicks, acks>>

SignalIsr ==
    /\ input_interrupt_isr \/ input_interrupt_isr2
    /\ UNCHANGED <<scale, touchVars, lcd, serviceVars, lineVars, clicks, acks>>

TouchIsr ==
    /\ XPT2046_touch_irq_handler
    /\ UNCHANGED <<mainVars, halted, scale, queueVars, lcd, serviceVars, lineVars,
                   clicks, acks>>

Touch ==
    /\ Runs("touch") /\ TouchThread
    /\ UNCHANGED <<mainVars, halted, scale, queueVars, lcd, serviceVars, lineVars,
                   clicks, acks>>

\* Clicks and answers are far apart (300 ms and more): few fall into the 800 ms
\* of the delay, and one at most into the 2 ms of a conversion.
Room(posted, max) ==
    pc = "recv" \/ posted < IF pc = "delay" THEN max ELSE 1

Click ==
    /\ Runs("gui") /\ Room(clicks, MaxClicks)
    /\ simple_gui_task
    /\ clicks' = IF pc = "recv" THEN 0 ELSE clicks + 1
    /\ UNCHANGED <<mainVars, halted, scale, ien, pend, output_mq, nbiot_mq, file_mq,
                   lcd, serviceVars, lineVars, acks>>

Flush ==
    /\ Runs("flush") /\ rt_flush_task
    /\ UNCHANGED <<mainVars, halted, scale, ien, pend, main_mq, nbiot_mq, file_mq,
                   touchVars, serviceVars, lineVars, clicks, acks>>

Service ==
    /\ \/ Runs("nb") /\ (nb_get_csq \/ nb_get_time \/ nb_send_v_q)
       \/ Runs("file") /\ ReadLog
    /\ Room(acks, 1)
    /\ acks' = IF pc = "recv" THEN 0 ELSE acks + 1
    /\ UNCHANGED <<mainVars, halted, scale, output_mq, ien, pend, touchVars, lcd,
                   lineVars, clicks>>

ServiceTake ==
    /\ \/ Runs("nb") /\ TakeSample
       \/ Runs("file") /\ WriteLog
    /\ UNCHANGED <<mainVars, halted, scale, output_mq, ien, pend, touchVars, lcd,
                   lineVars, clicks, acks>>

\* All that is not a step of the main thread.
Others ==
    \/ GrabAll \/ TakeOff \/ Noise \/ Press
    \/ DelayOver \/ SignalIsr \/ TouchIsr
    \/ Touch \/ Click \/ Flush \/ Service \/ ServiceTake

Next == ~halted /\ (Main \/ Others)

Spec == Init /\ [][Next]_vars

\* The scheduler runs the highest ready thread, interrupts are taken, the
\* delay ends, the screen is repainted, the robot goes on with its batch.
Fairness ==
    /\ WF_vars(~halted /\ Main) /\ WF_vars(~halted /\ DelayOver)
    /\ WF_vars(~halted /\ SignalIsr) /\ WF_vars(~halted /\ Flush)
    /\ SF_vars(~halted /\ TakeOff)

FairSpec == Spec /\ Fairness

-----------------------------------------------------------------------------
ControlType ==
    /\ pc \in {"install1", "install2", "create", "recv", "measure", "delay",
              "store2", "load1", "store1", "sum"}
    /\ reg \subseteq Pins /\ ien \subseteq Pins /\ pend \subseteq Pins
    /\ ctrl_flow \in {0, 1} /\ adc_measure_count \in 0..255
    /\ pulse_out \in {0, 1} /\ halted \in BOOLEAN

\* Three words: year, month, day.
DateType == {d \in Seq(Nat) : Len(d) = 3}

DataType ==
    /\ adc_sum \in Nat /\ temp_adc \in Nat
    /\ res_t \in [v_measure : Nat, v_threshold : 0..(UINT_MOD - 1), qualified : {0, 1}]
    /\ info_t \in [total : Nat, qualified_amount : Nat, date : DateType]
    /\ stat_t \in [csq : Nat, msg_id : 0..MSG_ID_MAX]
    /\ scale \in Nat /\ held \in 0..Batch /\ part \in Nat /\ placed \in Nat

QueueType ==
    /\ main_mq \in Seq(MainMessages) /\ Len(main_mq) <= MainMax
    /\ output_mq \in Seq(Messages) /\ Len(output_mq) <= OutputMax
    /\ nbiot_mq \in Seq(Messages) /\ Len(nbiot_mq) <= NbiotMax
    /\ file_mq \in Seq(Messages) /\ Len(file_mq) <= FileMax
    /\ touch_mq \in Seq({0, 6, 7}) /\ Len(touch_mq) <= TouchMax

ThreadType ==
    /\ tpc \in {"wait", "mask", "stable", "unmask"}
    /\ treg \subseteq Pins /\ touch_event \in BOOLEAN
    /\ nbpc \in {"csq", "time", "loop", "publish"} /\ fpc \in {"start", "loop"}

\* What the handlers keep has its type (threshold, identifier and countdown stay
\* in their ranges), no queue holds more than it was created for, and every
\* message has the words or characters that the case of main() taking it reads.
TypeOK == ControlType /\ DataType /\ QueueType /\ ThreadType

\* The countdown never runs below zero, although it is decremented without a
\* test and an unsigned char would wrap to 255: a batch is open exactly while
\* the countdown is positive, whatever edges arrive and in whatever order the
\* enable register is written, and case 1 and case 9 hold on to what they saw of
\* ctrl_flow while the ADC converts and the pulse lasts.
CountdownSound ==
    /\ adc_measure_count \in 0..Batch
    /\ ctrl_flow = 1 <=> adc_measure_count > 0
    /\ pc \in {"measure", "delay"} => ctrl_flow = 1
    /\ pc = "sum" => ctrl_flow = 0

\* When the controller is done with a pulse, every resistor the robot took off
\* has been counted, and counted once, however often the contacts bounced and
\* whatever was restored from the log: a pulse is neither lost nor doubled by
\* the masking in input_interrupt_isr and the unmasking after the delay.
CountedOnce == Waiting /\ Served => info_t.total = placed

\* The countdown of case 1 and the robot agree: between two messages a batch is
\* open exactly while resistors are left on the load cell, as many as
\* adc_measure_count says.  One missed or doubled pulse would shift it for ever.
CountdownInStep ==
    Waiting /\ Served /\ INPUT_SIGNAL2 \notin pend =>
        adc_measure_count = held /\ (ctrl_flow = 1 <=> held > 0)

\* A waiting main thread can hear the next pulse it needs: the pin of the
\* resistors is unmasked again after every message, and without a batch so is
\* the pin of the batches.  No message is under way that would unmask it later.
NeverDeaf ==
    Waiting /\ ~halted =>
        /\ INPUT_SIGNAL \in ien
        /\ ctrl_flow = 0 => INPUT_SIGNAL2 \in ien

\* While a resistor is handled its pin is masked until the delay is over, so
\* that the glitches of its contact cannot start a second measurement.
GlitchesMasked ==
    pc \in {"measure", "delay"} => INPUT_SIGNAL \notin ien

\* The verdict on the output pin during the delay is about the resistor just
\* taken off: measured against the reading left by the one before it.
MeasuresOwnPart ==
    pc = "delay" => /\ res_t.v_measure = 2 * part
                    /\ pulse_out = res_t.qualified

\* When a signal interrupt is taken there is room for its message in main_mq.
\* rt_mq_send would drop it, and its pin would stay masked for ever.
RoomForSignal ==
    Signals \cap Raised # {} => Len(main_mq) < MainMax

\* A batch is not started again before its last resistor: the load is read
\* anew only when the countdown has reached zero, stray edges on any pin and
\* lost updates of the enable register included.
BatchAtomic ==
    [][adc_measure_count' > adc_measure_count => ctrl_flow = 0 /\ adc_measure_count = 0]_vars

\* A batch that was opened is finished.
BatchCompletes == ctrl_flow = 1 ~> ctrl_flow = 0

\* The identifier on the screen is that of the last sample published, as the
\* label the flush thread draws it under says.
LcdAcked ==
    Waiting /\ output_mq = <<>> /\ lcd.msg_id # Blank => lcd.msg_id = acked

\* The sample of the resistor being sorted, if it found room in the queue,
\* spells the measured value, the verdict and its identifier in decimal.
MeasurementSent ==
    pc = "delay" => \A i \in 1..Len(nbiot_mq) :
        LET s == nbiot_mq[i].val
        IN  SampleId(s) = stat_t.msg_id =>
              /\ Spelled(s, 1, 4) = res_t.v_measure
              /\ Spelled(s, 5, 5) = res_t.qualified

\* It spells the threshold the resistor was judged by, too.
ThresholdSent ==
    pc = "delay" => \A i \in 1..Len(nbiot_mq) :
        SampleId(nbiot_mq[i].val) = stat_t.msg_id =>
            Spelled(nbiot_mq[i].val, 9, 12) = res_t.v_threshold

\* No assertion of the kernel fails.
NeverHalted == ~halted
=============================================================================
