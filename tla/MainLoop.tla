------------------------------ MODULE MainLoop ------------------------------
(***************************************************************************)
(* main(): the controller thread, priority 10, and the two interrupt       *)
(* handlers it installs.  The thread handles one message of main_mq at a   *)
(* time.  It lets other threads run only where it blocks: waiting for a    *)
(* message, during the 2 ms the ADC converts, and during the 800 ms the    *)
(* sorting pulse lasts.  pc names those places and the points between the  *)
(* load and the store of the interrupt enable register.                    *)
(***************************************************************************)
EXTENDS Integers, Queues, Intc

CONSTANTS Batch,        \* adc_measure_count of a full batch: 6 in the code
          V_INIT,       \* initial threshold: 350
          V_STEP,       \* step of the threshold buttons: 10
          UINT_MOD,     \* unsigned int arithmetic: 2^32
          MSG_ID_MAX,   \* greatest message identifier: 999
          Garbage,      \* values the uninitialised temp_adc can have
          Days,         \* values a day of the month in memory can have
          AdcFaults     \* may the I2C transfer to the ADC fail?

ASSUME MainLoopConstants ==
    /\ Batch \in 1..255 /\ UINT_MOD \in Nat \ {0} /\ MSG_ID_MAX \in Nat
    /\ V_INIT \in 0..(UINT_MOD - 1) /\ V_STEP \in 0..(UINT_MOD - 1)
    /\ Garbage \subseteq Nat /\ Garbage # {}
    /\ Days \subseteq Nat /\ 13 \in Days
    /\ AdcFaults \in BOOLEAN

VARIABLES pc, reg,                       \* control point; loaded IEN register
          ctrl_flow, adc_sum, temp_adc, adc_measure_count,
          res_t, info_t, stat_t,
          pulse_out,                     \* level of the PULSE_OUT pin
          halted,                        \* an RT_ASSERT failed: the CPU spins
          scale                          \* what ADC channel S3 measures

mainVars == <<pc, reg, ctrl_flow, adc_sum, temp_adc, adc_measure_count,
              res_t, info_t, stat_t, pulse_out>>

InitDate == <<2022, 7, 13>>              \* a date: year, mon, day

Wrap(x) == x % UINT_MOD

(* Messages to the flush thread. *)
send_data_msg(r, p) == rt_mq_send(output_mq, OutputMax,
    Msg(1, <<r.v_measure, r.qualified, p.total, p.qualified_amount>>))
\* Mutant: sent before the change.
send_v_threshold_msg_Stale(mq, r) == rt_mq_send(mq, OutputMax, Msg(2, <<res_t.v_threshold>>))
send_v_threshold_msg(mq, r) == rt_mq_send(mq, OutputMax, Msg(2, <<r.v_threshold>>))
send_rtc_msg(mq, p) == rt_mq_send(mq, OutputMax, Msg(3, p.date))
send_product_info_msg(mq, p) == rt_mq_send(mq, OutputMax,
    Msg(4, <<p.total, p.qualified_amount>>))
send_csq(t) == rt_mq_send(output_mq, OutputMax, Msg(5, <<t.csq>>))
send_msg_id_msg(t) == rt_mq_send(output_mq, OutputMax, Msg(6, <<t.msg_id>>))

\* Decimal digits as characters; a quotient above 9 runs past '9'.
Chr(d) == (48 + d) % 256

Thousands(v) == Chr(v \div 1000)
Hundreds(v) == Chr((v % 1000) \div 100)
Tens(v) == Chr((v % 100) \div 10)
Units(v) == Chr(v % 10)
\* The hundreds of the identifier are what is left of three digits; those of
\* the threshold are computed with a modulus of 100.
IdHundreds(id) == Chr(id \div 100)
ThresholdHundreds(v) == Chr((v % 100) \div 100)

\* The characters of a sample: measured value, verdict, identifier, threshold.
SampleChars(v, q, id, th) ==
    <<Thousands(v), Hundreds(v), Tens(v), Units(v), Chr(q),
      IdHundreds(id), Tens(id), Units(id),
      Thousands(th), ThresholdHundreds(th), Tens(th), Units(th)>>

send_nb_msg(r, t) == rt_mq_send(nbiot_mq, NbiotMax,
    Msg(1, SampleChars(r.v_measure, r.qualified, t.msg_id, r.v_threshold)))

send_info_to_file_msg(mq, p) == rt_mq_send(mq, FileMax,
    Msg(1, <<p.total, p.qualified_amount>>))
send_date_to_file_msg(mq, p) == rt_mq_send(mq, FileMax, Msg(2, p.date))

\* rt_device_read of the ADC, whose result nobody looks at: a transfer that
\* fails leaves the variable as it was, one cut short yields zero bytes.
AdcRead(old) == {scale} \cup (IF AdcFaults THEN {old, 0} ELSE {})

\* Mutant: the reading itself, not the difference.
set_v_measure_Gross(sum, adc) == 2 * adc
set_v_measure(sum, adc) == 2 * (IF sum >= adc THEN sum - adc ELSE 0)

\* Mutant: no wrap-around.
set_msg_id_NoWrap(id) == id + 1
set_msg_id(id) == IF id + 1 > MSG_ID_MAX THEN 0 ELSE id + 1

\* Numbers from the characters of a message.
set_csq(c) == Wrap((c[1] - 48) * 10 + c[2] - 48)
set_date_time(c) ==
    <<Wrap((c[1] - 48) * 1000 + (c[2] - 48) * 100 + (c[3] - 48) * 10 + c[4] - 48),
      Wrap((c[5] - 48) * 10 + c[6] - 48), Wrap((c[7] - 48) * 10 + c[8] - 48)>>

-----------------------------------------------------------------------------
init_datastructure ==
    /\ res_t = [v_measure |-> 0, v_threshold |-> V_INIT, qualified |-> 0]
    /\ info_t = [total |-> 0, qualified_amount |-> 0, date |-> InitDate]
    /\ stat_t = [csq |-> 0, msg_id |-> 0]

\* main() up to the point where the first handler is installed.  It would return if
\* rt_device_find did not know the ADC, but rt_ls1x_drv_init has just registered it.
MainInit ==
    /\ pc = "install1" /\ reg = {}
    /\ init_datastructure
    /\ ctrl_flow = 0 /\ adc_sum = 0 /\ adc_measure_count = 0
    /\ temp_adc \in Garbage             \* not initialised by the code
    /\ pulse_out = 0 /\ halted = FALSE
    /\ output_mq = send_rtc_msg(send_v_threshold_msg(<<>>, res_t), info_t)
    /\ main_mq = <<>> /\ nbiot_mq = <<>> /\ file_mq = <<>>
    /\ ien = (IF XPT2046_USE_GPIO_INT THEN {XPT2046_USE_GPIO_NUM} ELSE {}) /\ pend = {}

\* ls1x_install_gpio_isr leaves the pin enabled.  main_mq is created last.
InstallIsr ==
    /\ \/ pc = "install1" /\ pc' = "install2" /\ EnableLoad(INPUT_SIGNAL)
          /\ EnableStore(INPUT_SIGNAL, ien)
       \/ pc = "install2" /\ pc' = "create" /\ EnableLoad(INPUT_SIGNAL2)
          /\ EnableStore(INPUT_SIGNAL2, ien)
    /\ UNCHANGED <<reg, ctrl_flow, adc_sum, temp_adc, adc_measure_count,
                   res_t, info_t, stat_t, pulse_out, queueVars>>

CreateQueues ==
    /\ pc = "create" /\ pc' = "recv"
    /\ UNCHANGED <<reg, ctrl_flow, adc_sum, temp_adc, adc_measure_count,
                   res_t, info_t, stat_t, pulse_out, queueVars, ien, pend>>

Booting == pc \in {"install1", "install2", "create"}

\* input_interrupt_isr and input_interrupt_isr2: mask the pin, post 1 or 9.
\* rt_mq_send asserts that the queue exists.
Isr(p, op) ==
    /\ p \in Raised
    /\ IsrDisable(p)
    /\ IF Booting THEN halted' = TRUE /\ UNCHANGED main_mq
       ELSE main_mq' = rt_mq_send(main_mq, MainMax, Msg(op, <<>>)) /\ UNCHANGED halted
    /\ UNCHANGED <<mainVars, output_mq, nbiot_mq, file_mq>>
input_interrupt_isr == Isr(INPUT_SIGNAL, 1)
input_interrupt_isr2 == Isr(INPUT_SIGNAL2, 9)

-----------------------------------------------------------------------------
Recv(op) ==
    /\ pc = "recv" /\ main_mq # <<>>
    /\ Head(main_mq).op = op
    /\ main_mq' = Tail(main_mq)

\* Mutant: case 1 without its test.
SingleGrabbed_NoTest ==
    /\ Recv(1) /\ pc' = "measure"
    /\ UNCHANGED <<reg, ctrl_flow, adc_sum, temp_adc, adc_measure_count, res_t,
                   info_t, stat_t, pulse_out, output_mq, nbiot_mq, file_mq, ien, pend>>

\* case 1, up to the ADC read.  Without a batch nothing is done: the pin that
\* raised the message stays masked.
SingleGrabbed ==
    /\ Recv(1)
    /\ pc' = IF ctrl_flow = 1 THEN "measure" ELSE "recv"
    /\ UNCHANGED <<reg, ctrl_flow, adc_sum, temp_adc, adc_measure_count, res_t,
                   info_t, stat_t, pulse_out, output_mq, nbiot_mq, file_mq, ien, pend>>

\* case 1, from the ADC read to the delay: judge the part, drive the sorting
\* output, report to the display and to the network.
Measure ==
    /\ pc = "measure" /\ pc' = "delay"
    /\ \E adc \in AdcRead(temp_adc) :
         LET v == set_v_measure(adc_sum, adc)
             q == IF v > res_t.v_threshold THEN 1 ELSE 0
             r == [res_t EXCEPT !.v_measure = v, !.qualified = q]
             p == [info_t EXCEPT !.total = Wrap(@ + 1), !.qualified_amount = Wrap(@ + q)]
             t == [stat_t EXCEPT !.msg_id = set_msg_id(@)]
         IN  /\ temp_adc' = adc /\ adc_sum' = adc
             /\ res_t' = r /\ info_t' = p /\ stat_t' = t /\ pulse_out' = q
             /\ output_mq' = send_data_msg(r, p)
             /\ nbiot_mq' = send_nb_msg(r, t)
    /\ UNCHANGED <<reg, ctrl_flow, adc_measure_count, main_mq, file_mq, ien, pend>>

\* case 1 after the delay: end the pulse, count down, begin to unmask the
\* batch pin after the last part, or else the part pin.
EndPulse ==
    /\ pc = "delay"
    /\ pulse_out' = 0
    /\ adc_measure_count' = (adc_measure_count - 1) % 256
    /\ reg' = ien
    /\ IF adc_measure_count' = 0
       THEN ctrl_flow' = 0 /\ EnableLoad(INPUT_SIGNAL2) /\ pc' = "store2"
       ELSE UNCHANGED ctrl_flow /\ EnableLoad(INPUT_SIGNAL) /\ pc' = "store1"
    /\ UNCHANGED <<adc_sum, temp_adc, res_t, info_t, stat_t, queueVars, ien>>

\* Mutant: the part pin is unmasked only within a batch.
UnmaskBatch_Only ==
    /\ pc = "store2" /\ pc' = "recv"
    /\ EnableStore(INPUT_SIGNAL2, reg)
    /\ reg' = {}
    /\ UNCHANGED <<ctrl_flow, adc_sum, temp_adc, adc_measure_count, res_t,
                   info_t, stat_t, pulse_out, queueVars, pend>>

UnmaskBatch ==
    /\ pc = "store2" /\ pc' = "load1"
    /\ EnableStore(INPUT_SIGNAL2, reg)
    /\ reg' = {}
    /\ UNCHANGED <<ctrl_flow, adc_sum, temp_adc, adc_measure_count, res_t,
                   info_t, stat_t, pulse_out, queueVars, pend>>

LoadPart ==
    /\ pc = "load1" /\ pc' = "store1"
    /\ EnableLoad(INPUT_SIGNAL) /\ reg' = ien
    /\ UNCHANGED <<ctrl_flow, adc_sum, temp_adc, adc_measure_count, res_t,
                   info_t, stat_t, pulse_out, queueVars, ien>>

\* Mutant: the part pin is not unmasked.
UnmaskPart_Skip ==
    /\ pc = "store1" /\ pc' = "recv" /\ reg' = {}
    /\ UNCHANGED <<ctrl_flow, adc_sum, temp_adc, adc_measure_count, res_t,
                   info_t, stat_t, pulse_out, queueVars, ien, pend>>

UnmaskPart ==
    /\ pc = "store1" /\ pc' = "recv"
    /\ EnableStore(INPUT_SIGNAL, reg)
    /\ reg' = {}
    /\ UNCHANGED <<ctrl_flow, adc_sum, temp_adc, adc_measure_count, res_t,
                   info_t, stat_t, pulse_out, queueVars, pend>>

\* Mutant: case 9 without its test.
AllGrabbed_NoTest ==
    /\ Recv(9) /\ pc' = "sum"
    /\ UNCHANGED <<reg, ctrl_flow, adc_sum, temp_adc, adc_measure_count, res_t,
                   info_t, stat_t, pulse_out, output_mq, nbiot_mq, file_mq, ien, pend>>

\* case 9, up to the ADC read.
AllGrabbed ==
    /\ Recv(9)
    /\ pc' = IF ctrl_flow = 0 THEN "sum" ELSE "recv"
    /\ UNCHANGED <<reg, ctrl_flow, adc_sum, temp_adc, adc_measure_count, res_t,
                   info_t, stat_t, pulse_out, output_mq, nbiot_mq, file_mq, ien, pend>>

\* case 9: read the full load and open the batch.
OpenBatch ==
    /\ pc = "sum" /\ pc' = "recv"
    /\ adc_sum' \in AdcRead(adc_sum)
    /\ adc_measure_count' = Batch /\ ctrl_flow' = 1
    /\ UNCHANGED <<reg, temp_adc, res_t, info_t, stat_t, pulse_out, queueVars, ien, pend>>

-----------------------------------------------------------------------------
\* The cases that neither measure nor touch the pins change some of the
\* records and queues only.
Records == UNCHANGED <<pc, reg, ctrl_flow, adc_sum, temp_adc, adc_measure_count,
                       pulse_out, nbiot_mq, ien, pend>>

\* case 2: the log was blank, have it filled.
FillLog ==
    /\ Recv(2) /\ Records
    /\ file_mq' = send_date_to_file_msg(send_info_to_file_msg(file_mq, info_t), info_t)
    /\ UNCHANGED <<res_t, info_t, stat_t, output_mq>>

\* case 3: restore from the log.  The message has six words and the buffer
\* five, so the day is whatever follows the buffer in memory.
Restore ==
    /\ Recv(3) /\ Records
    /\ \E d \in Days :
         LET m == Head(main_mq).val
             p == [total |-> m[1], qualified_amount |-> m[2], date |-> <<m[3], m[4], d>>]
         IN  /\ info_t' = p
             /\ output_mq' = send_product_info_msg(send_rtc_msg(output_mq, p), p)
    /\ UNCHANGED <<res_t, stat_t, file_mq>>

\* case 4: signal quality; case 5: network date.
SetCsq ==
    /\ Recv(4) /\ Records
    /\ stat_t' = [stat_t EXCEPT !.csq = set_csq(Head(main_mq).val)]
    /\ output_mq' = send_csq(stat_t')
    /\ UNCHANGED <<res_t, info_t, file_mq>>

SetDate ==
    /\ Recv(5) /\ Records
    /\ info_t' = [info_t EXCEPT !.date = set_date_time(Head(main_mq).val)]
    /\ output_mq' = send_rtc_msg(output_mq, info_t')
    /\ UNCHANGED <<res_t, stat_t, file_mq>>

\* case 6 and case 7: the threshold buttons.
MoveThreshold ==
    /\ \/ Recv(6) /\ res_t' = [res_t EXCEPT !.v_threshold = Wrap(@ + V_STEP)]
       \/ Recv(7) /\ res_t' = [res_t EXCEPT !.v_threshold = Wrap(@ + UINT_MOD - V_STEP)]
    /\ Records
    /\ output_mq' = send_v_threshold_msg(output_mq, res_t')
    /\ UNCHANGED <<info_t, stat_t, file_mq>>

\* case 8: the network thread published a sample.
Published ==
    /\ Recv(8) /\ Records
    /\ output_mq' = send_msg_id_msg(stat_t)
    /\ UNCHANGED <<res_t, info_t, stat_t, file_mq>>

MainThread ==
    /\ \/ InstallIsr \/ CreateQueues
       \/ SingleGrabbed \/ Measure \/ UnmaskBatch \/ LoadPart \/ UnmaskPart
       \/ AllGrabbed \/ OpenBatch
       \/ FillLog \/ Restore \/ SetCsq \/ SetDate \/ MoveThreshold \/ Published
    /\ UNCHANGED halted

\* A thread of lower priority runs only while the main thread is blocked.
MainBlocked ==
    \/ pc \in {"measure", "delay", "sum"}
    \/ pc = "recv" /\ main_mq = <<>>
=============================================================================
