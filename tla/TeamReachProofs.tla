--------------------------- MODULE TeamReachProofs --------------------------
(***************************************************************************)
(* Theorems about TeamReach, for every value of its constants: any batch   *)
(* size up to 255, any queue capacities, any noise, any timing.            *)
(***************************************************************************)
EXTENDS TeamReach, TLAPS

-----------------------------------------------------------------------------
(* The countdown of a batch. *)

ctlVars == <<pc, ctrl_flow, adc_measure_count>>

\* Only eight steps of the main thread touch the control state: all others,
\* interrupts and the other threads included, leave it alone.
LEMMA ControlSteps ==
    ASSUME Next
    PROVE  \/ UNCHANGED ctlVars
           \/ InstallIsr \/ CreateQueues \/ SingleGrabbed \/ Measure \/ EndPulse
           \/ UnmaskBatch \/ LoadPart \/ UnmaskPart \/ AllGrabbed \/ OpenBatch
<1>1. CASE GrabAll \/ TakeOff \/ Noise \/ Press
  BY <1>1, SMTT(30) DEF GrabAll, TakeOff, Noise, Press, mainVars, ctlVars
<1>2. CASE Main
  BY <1>2, Zenon DEF Main, MainThread, FillLog, Restore, SetCsq, SetDate, MoveThreshold,
              Published, Records, ctlVars
<1>3. CASE DelayOver
  BY <1>3, Zenon DEF DelayOver
<1>4. CASE SignalIsr \/ TouchIsr
  BY <1>4, SMTT(30) DEF SignalIsr, TouchIsr, input_interrupt_isr, input_interrupt_isr2,
     Isr, mainVars, ctlVars
<1>5. CASE Touch \/ Click \/ Flush \/ Service \/ ServiceTake
  BY <1>5, Zenon DEF Touch, Click, Flush, Service, ServiceTake, mainVars, ctlVars
<1> QED
  BY <1>1, <1>2, <1>3, <1>4, <1>5, Zenon DEF Next, Others

LEMMA BatchRange == Batch \in Nat /\ 1 <= Batch /\ Batch <= 255
  BY MainLoopConstants, SMT

LEMMA CountdownStep ==
    ASSUME CountdownSound, [Next]_vars
    PROVE  CountdownSound'
<1> USE BatchRange, SMT
<1>1. CASE UNCHANGED ctlVars
  BY <1>1, Zenon DEF CountdownSound, ctlVars
<1>2. CASE InstallIsr \/ CreateQueues \/ UnmaskBatch \/ LoadPart \/ UnmaskPart
  BY <1>2, Zenon DEF CountdownSound, InstallIsr, CreateQueues, UnmaskBatch, LoadPart, UnmaskPart
<1>3. CASE SingleGrabbed \/ AllGrabbed
  BY <1>3, Zenon DEF CountdownSound, SingleGrabbed, AllGrabbed
<1>4. CASE Measure
  BY <1>4, Zenon DEF CountdownSound, Measure
<1>5. CASE EndPulse
  <2>1. adc_measure_count \in 1..Batch /\ ctrl_flow = 1
    BY <1>5 DEF EndPulse, CountdownSound
  <2>2. adc_measure_count' = adc_measure_count - 1
    BY <1>5, <2>1 DEF EndPulse
  <2> QED
    BY <1>5, <2>1, <2>2 DEF EndPulse, CountdownSound
<1>6. CASE OpenBatch
  BY <1>6 DEF CountdownSound, OpenBatch
<1>7. CASE UNCHANGED vars
  BY <1>1, <1>7, Zenon DEF vars, mainVars, ctlVars
<1> QED
  BY <1>1, <1>2, <1>3, <1>4, <1>5, <1>6, <1>7, ControlSteps, Zenon

\* A batch is open exactly while its countdown is positive, and the countdown,
\* an unsigned char decremented without a test, never runs below zero: with
\* any noise on the pins, lost updates of the enable register and full queues.
THEOREM CountdownTheorem == Spec => []CountdownSound
<1>1. Init => CountdownSound
  BY BatchRange, SMT DEF Init, MainInit, CountdownSound
<1> QED
  BY <1>1, CountdownStep, PTL DEF Spec

\* No step restarts a batch that is not finished.
THEOREM BatchAtomicTheorem == Spec => BatchAtomic
<1> DEFINE A == adc_measure_count' > adc_measure_count =>
                    ctrl_flow = 0 /\ adc_measure_count = 0
<1>1. CountdownSound /\ [Next]_vars => [A]_vars
  <2> SUFFICES ASSUME CountdownSound, Next PROVE A
    BY Zenon
  <2> USE BatchRange, SMT
  <2>1. CASE UNCHANGED ctlVars
    BY <2>1 DEF ctlVars, CountdownSound
  <2>2. CASE EndPulse
    <3>1. adc_measure_count \in 1..Batch
      BY <2>2 DEF EndPulse, CountdownSound
    <3> QED
      BY <2>2, <3>1 DEF EndPulse
  <2>3. CASE OpenBatch
    BY <2>3 DEF OpenBatch, CountdownSound
  <2>4. CASE \/ InstallIsr \/ CreateQueues \/ SingleGrabbed \/ Measure
             \/ UnmaskBatch \/ LoadPart \/ UnmaskPart \/ AllGrabbed
    <3>1. UNCHANGED adc_measure_count
      <4>1. CASE InstallIsr \/ CreateQueues \/ SingleGrabbed \/ AllGrabbed
        BY <4>1, Zenon DEF InstallIsr, CreateQueues, SingleGrabbed, AllGrabbed
      <4>2. CASE Measure
        BY <4>2, Zenon DEF Measure
      <4>3. CASE UnmaskBatch \/ LoadPart \/ UnmaskPart
        BY <4>3, Zenon DEF UnmaskBatch, LoadPart, UnmaskPart
      <4> QED
        BY <2>4, <4>1, <4>2, <4>3, Zenon
    <3> QED
      BY <3>1 DEF CountdownSound
  <2> QED
    BY <2>1, <2>2, <2>3, <2>4, ControlSteps, Zenon
<1> QED
  BY <1>1, CountdownTheorem, PTL DEF Spec, BatchAtomic

-----------------------------------------------------------------------------
(* Types. *)

LEMMA SendType ==
    ASSUME NEW S, NEW q \in Seq(S), NEW m \in S, NEW max \in Nat, Len(q) <= max
    PROVE  rt_mq_send(q, max, m) \in Seq(S) /\ Len(rt_mq_send(q, max, m)) <= max
  BY DEF rt_mq_send

LEMMA TailType ==
    ASSUME NEW S, NEW q \in Seq(S), q # <<>>
    PROVE  /\ Head(q) \in S /\ Tail(q) \in Seq(S) /\ Len(Tail(q)) = Len(q) - 1
           /\ Len(q) \in Nat \ {0}
  OBVIOUS

LEMMA MessageTypes ==
    /\ \A op \in {1, 2, 6, 7, 8, 9} :
         Msg(op, <<>>) \in MainMessages /\ Msg(op, <<>>).op = op
    /\ \A m \in Saved : Msg(3, m) \in MainMessages /\ Msg(3, m).op = 3
    /\ \A c \in Csqs : Msg(4, c) \in MainMessages /\ Msg(4, c).op = 4
    /\ \A d \in Dates : Msg(5, d) \in MainMessages /\ Msg(5, d).op = 5
<1>1. <<>> \in Seq(Nat)
  OBVIOUS
<1> QED
  BY <1>1, ServiceConstants, SMT DEF Msg, MainMessages, Messages

LEMMA Constants ==
    /\ MainMax \in Nat /\ OutputMax \in Nat /\ NbiotMax \in Nat /\ FileMax \in Nat
    /\ MainMax > 0 /\ OutputMax > 0 /\ NbiotMax > 0 /\ FileMax > 0
    /\ UINT_MOD \in Nat /\ UINT_MOD > 0 /\ MSG_ID_MAX \in Nat
    /\ V_INIT \in 0..(UINT_MOD - 1) /\ V_STEP \in 0..(UINT_MOD - 1)
    /\ \A x \in Int : Wrap(x) \in 0..(UINT_MOD - 1)
  BY QueueSizes, MainLoopConstants, SMT DEF Wrap

LEMMA ControlTypeStep ==
    ASSUME TypeOK, [Next]_vars
    PROVE  ControlType'
<1> USE DEF ControlType, TypeOK
<1>0. UNCHANGED <<pc, reg, ien, pend, ctrl_flow, adc_measure_count, pulse_out, halted>>
        => ControlType'
  BY SMTT(30)
<1>1. CASE GrabAll \/ TakeOff \/ Noise \/ Press
  BY <1>1, LineConstants DEF GrabAll, TakeOff, Noise, Press, Edge, mainVars, Pins
<1>2. CASE Main
  <2>1. CASE InstallIsr \/ CreateQueues
    BY <1>2, <2>1, SMTT(30) DEF Main, MainThread, InstallIsr, CreateQueues, EnableLoad,
       EnableStore, Pins
  <2>2. CASE SingleGrabbed \/ AllGrabbed
    BY <1>2, <2>2, SMTT(30) DEF Main, MainThread, SingleGrabbed, AllGrabbed
  <2>3. CASE Measure
    BY <1>2, <2>3, ZenonT(30) DEF Main, MainThread, Measure
  <2>4. CASE UnmaskBatch \/ LoadPart \/ UnmaskPart
    BY <1>2, <2>4, SMTT(30) DEF Main, MainThread, UnmaskBatch, LoadPart, UnmaskPart,
       EnableLoad, EnableStore, Pins
  <2>5. CASE OpenBatch
    BY <1>2, <2>5, BatchRange, SMTT(30) DEF Main, MainThread, OpenBatch
  <2>6. CASE FillLog \/ Restore \/ SetCsq \/ SetDate \/ MoveThreshold \/ Published
    BY <1>0, <1>2, <2>6, Zenon DEF Main, MainThread, FillLog, Restore, SetCsq, SetDate,
       MoveThreshold, Published, Records
  <2> QED
    BY <1>2, <2>1, <2>2, <2>3, <2>4, <2>5, <2>6, SMTT(30) DEF Main, MainThread
<1>3. CASE DelayOver
  BY <1>3, SMT DEF DelayOver, EndPulse, EnableLoad
<1>4. CASE SignalIsr
  <2> PICK p, op : Isr(p, op)
    BY <1>4, Zenon DEF SignalIsr, input_interrupt_isr, input_interrupt_isr2
  <2>1. UNCHANGED <<pc, reg, ctrl_flow, adc_measure_count, pulse_out>>
    BY Zenon DEF Isr, mainVars
  <2>2. ien' \subseteq Pins /\ pend' \subseteq Pins
    BY Zenon DEF Isr, IsrDisable, DisableStore
  <2>3. halted' \in BOOLEAN
    BY Zenon DEF Isr
  <2> QED
    BY <2>1, <2>2, <2>3, Zenon
<1>5. CASE TouchIsr \/ Touch
  BY <1>5 DEF TouchIsr, XPT2046_touch_irq_handler, Touch, TouchThread, TouchWake, TouchMask,
              TouchSample, TouchUnmask, EnableLoad, EnableStore, DisableStore, mainVars,
              ThreadType, Pins
<1>6. CASE Click \/ Flush \/ Service \/ ServiceTake \/ UNCHANGED vars
  BY <1>0, <1>6, Zenon DEF Click, Flush, Service, ServiceTake, vars, mainVars
<1> QED
  BY <1>1, <1>2, <1>3, <1>4, <1>5, <1>6, Zenon DEF Next, Others

LEMMA ThreadTypeStep ==
    ASSUME TypeOK, [Next]_vars
    PROVE  ThreadType'
<1> USE DEF ThreadType, TypeOK
<1>0. UNCHANGED <<tpc, treg, touch_event, nbpc, fpc>> => ThreadType'
  BY SMTT(30)
<1>1. CASE \/ GrabAll \/ TakeOff \/ Noise \/ Press \/ Main \/ DelayOver \/ SignalIsr
           \/ Flush \/ UNCHANGED vars
  BY <1>0, <1>1, Zenon DEF GrabAll, TakeOff, Noise, Press, Main, DelayOver, SignalIsr,
     Flush, vars, touchVars, serviceVars
<1>2. CASE TouchIsr
  BY <1>2, Zenon DEF TouchIsr, XPT2046_touch_irq_handler, serviceVars
<1>3. CASE Touch
  BY <1>3, Zenon DEF Touch, TouchThread, TouchWake, TouchMask, TouchSample,
     TouchUnmask, serviceVars, ControlType
<1>4. CASE Click
  BY <1>0, <1>4, Zenon DEF Click, simple_gui_task, serviceVars
<1>5. CASE Service \/ ServiceTake
  BY <1>5, Zenon DEF Service, ServiceTake, nb_get_csq, nb_get_time, nb_send_v_q, ReadLog,
              TakeSample, WriteLog, touchVars, serviceVars
<1> QED
  BY <1>1, <1>2, <1>3, <1>4, <1>5, Zenon DEF Next, Others

LEMMA AdcType ==
    ASSUME scale \in Nat
    PROVE  \A old \in Nat : AdcRead(old) \subseteq Nat
  BY DEF AdcRead

\* What a case of main() finds behind val_arr[0].
LEMMA HeadMessage ==
    ASSUME TypeOK, main_mq # <<>>
    PROVE  LET m == Head(main_mq).val
           IN  /\ m \in Seq(Nat)
               /\ Head(main_mq).op = 3 => /\ m[1] \in Nat /\ m[2] \in Nat
                                         /\ m[3] \in Nat /\ m[4] \in Nat
               /\ Head(main_mq).op = 4 => m[1] \in Nat /\ m[2] \in Nat
               /\ Head(main_mq).op = 5 => \A i \in 1..8 : m[i] \in Nat
<1> DEFINE h == Head(main_mq)
<1>1. h \in MainMessages
  BY TailType, Zenon DEF TypeOK, QueueType
<1>2. /\ h.val \in Seq(Nat) /\ (h.op = 3 => Len(h.val) = 5)
      /\ (h.op = 4 => Len(h.val) = 2) /\ (h.op = 5 => Len(h.val) = 8)
  BY <1>1, Zenon DEF MainMessages, Messages
<1> HIDE DEF h
<1>3. \A i \in 1..Len(h.val) : h.val[i] \in Nat
  BY <1>2
<1>4. h.op = 3 => \A i \in 1..5 : h.val[i] \in Nat
  BY <1>2, <1>3, Zenon
<1>5. h.op = 4 => \A i \in 1..2 : h.val[i] \in Nat
  BY <1>2, <1>3, Zenon
<1>6. h.op = 5 => \A i \in 1..8 : h.val[i] \in Nat
  BY <1>2, <1>3, Zenon
<1> QED
  BY <1>2, <1>4, <1>5, <1>6, SMT DEF h

LEMMA ThreeWords ==
    ASSUME NEW y \in Nat, NEW m \in Nat, NEW d \in Nat
    PROVE  <<y, m, d>> \in DateType
  BY DEF DateType

LEMMA DataTypeStep ==
    ASSUME TypeOK, [Next]_vars
    PROVE  DataType'
<1> DEFINE dataVars == <<adc_sum, temp_adc, res_t, info_t, stat_t, scale, held, part, placed>>
<1>0. DataType
  BY Zenon DEF TypeOK
<1>1. UNCHANGED dataVars => DataType'
  BY <1>0, Zenon DEF DataType
<1>2. CASE GrabAll
  <2>1. scale' \in Nat /\ held' \in 0..Batch
    BY <1>2, LineConstants, BatchRange, SMT DEF GrabAll
  <2> QED
    BY <1>0, <1>2, <2>1, Zenon DEF GrabAll, DataType, mainVars
<1>3. CASE TakeOff
  <2>1. scale' \in Nat /\ part' \in Nat /\ placed' \in Nat /\ held' \in 0..Batch
    BY <1>0, <1>3, LineConstants, BatchRange, SMTT(30) DEF TakeOff, DataType
  <2> QED
    BY <1>0, <1>3, <2>1, Zenon DEF TakeOff, DataType, mainVars
<1>4. CASE Noise \/ Press \/ SignalIsr \/ TouchIsr
  BY <1>1, <1>4, SMTT(30) DEF Noise, Press, SignalIsr, input_interrupt_isr,
     input_interrupt_isr2, Isr, TouchIsr, mainVars, lineVars
<1>5. CASE Main
  <2>0. UNCHANGED <<scale, held, part>> /\ placed' \in Nat
    <3>1. placed' = (IF Recv(3) THEN placed + Head(main_mq).val[1] ELSE placed)
      BY <1>5, Zenon DEF Main
    <3>2. Recv(3) => Head(main_mq).val[1] \in Nat
      BY HeadMessage, Zenon DEF Recv
    <3>3. placed \in Nat
      BY <1>0, Zenon DEF DataType
    <3> QED
      BY <1>5, <3>1, <3>2, <3>3 DEF Main
  <2>1. CASE \/ InstallIsr \/ CreateQueues \/ SingleGrabbed \/ UnmaskBatch \/ LoadPart
             \/ UnmaskPart \/ AllGrabbed \/ FillLog \/ Published
    <3>1. UNCHANGED <<adc_sum, temp_adc, res_t, info_t, stat_t>>
      BY <2>1, Zenon DEF InstallIsr, CreateQueues, SingleGrabbed, UnmaskBatch, LoadPart,
                  UnmaskPart, AllGrabbed, FillLog, Published, Records
    <3> QED
      BY <1>0, <2>0, <3>1, SMTT(30) DEF DataType
  <2>2. CASE Measure
    <3>1. PICK adc \in AdcRead(temp_adc) :
            LET v == set_v_measure(adc_sum, adc)
                q == IF v > res_t.v_threshold THEN 1 ELSE 0
            IN  /\ temp_adc' = adc /\ adc_sum' = adc
                /\ res_t' = [res_t EXCEPT !.v_measure = v, !.qualified = q]
                /\ info_t' = [info_t EXCEPT !.total = Wrap(@ + 1),
                                            !.qualified_amount = Wrap(@ + q)]
                /\ stat_t' = [stat_t EXCEPT !.msg_id = set_msg_id(@)]
      BY <2>2, Zenon DEF Measure
    <3> DEFINE v == set_v_measure(adc_sum, adc)
               q == IF v > res_t.v_threshold THEN 1 ELSE 0
    <3>2. adc \in Nat /\ v \in Nat /\ q \in {0, 1}
      BY <1>0, AdcType, SMT DEF set_v_measure, DataType
    <3> HIDE DEF v, q
    <3>3. stat_t' \in [csq : Nat, msg_id : 0..MSG_ID_MAX]
      BY <1>0, <3>1, Constants, SMT DEF set_msg_id, DataType
    <3>4. res_t' \in [v_measure : Nat, v_threshold : 0..(UINT_MOD - 1), qualified : {0, 1}]
      <4>1. res_t' = [res_t EXCEPT !.v_measure = v, !.qualified = q]
        BY <3>1, Zenon DEF v, q
      <4> QED
        BY <1>0, <3>2, <4>1, Zenon DEF DataType
    <3>5. info_t' \in [total : Nat, qualified_amount : Nat, date : DateType]
      <4>1. Wrap(info_t.total + 1) \in Nat /\ Wrap(info_t.qualified_amount + q) \in Nat
        BY <1>0, <3>2, Constants, SMT DEF DataType
      <4>2. info_t' = [info_t EXCEPT !.total = Wrap(info_t.total + 1),
                                     !.qualified_amount = Wrap(info_t.qualified_amount + q)]
        BY <3>1, Zenon DEF v, q
      <4> QED
        BY <1>0, <4>1, <4>2, Zenon DEF DataType
    <3> QED
      BY <1>0, <2>0, <3>1, <3>2, <3>3, <3>4, <3>5, SMTT(30) DEF DataType
  <2>3. CASE OpenBatch
    BY <1>0, <2>0, <2>3, AdcType, SMTT(30) DEF OpenBatch, DataType
  <2>4. CASE Restore
    <3> DEFINE m == Head(main_mq).val
    <3>2. m[1] \in Nat /\ m[2] \in Nat /\ m[3] \in Nat /\ m[4] \in Nat
      BY <2>4, HeadMessage, ZenonT(30) DEF Restore, Recv
    <3>3. \E d \in Days : info_t' = [total |-> m[1], qualified_amount |-> m[2],
                                     date |-> <<m[3], m[4], d>>]
      BY <2>4, ZenonT(30) DEF Restore
    <3>4. info_t' \in [total : Nat, qualified_amount : Nat, date : DateType]
      <4>1. PICK d \in Days : info_t' = [total |-> m[1], qualified_amount |-> m[2],
                                         date |-> <<m[3], m[4], d>>]
        BY <3>3, Zenon
      <4>2. <<m[3], m[4], d>> \in DateType
        BY <3>2, MainLoopConstants, ThreeWords, Zenon
      <4> HIDE DEF m
      <4> QED
        BY <3>2, <4>1, <4>2, Zenon
    <3> QED
      BY <1>0, <2>0, <2>4, <3>4, ZenonT(30) DEF Restore, Records, DataType
  <2>5. CASE SetCsq \/ SetDate
    <3> DEFINE c == Head(main_mq).val
    <3>1. SetCsq => set_csq(c) \in Nat
      <4>1. SetCsq => c[1] \in Nat /\ c[2] \in Nat
        BY HeadMessage, Zenon DEF SetCsq, Recv
      <4> QED
        BY <4>1, Constants, SMT DEF set_csq
    <3>2. SetDate => set_date_time(c) \in DateType
      <4>1. SetDate => \A i \in 1..8 : c[i] \in Nat
        BY HeadMessage, ZenonT(30) DEF SetDate, Recv
      <4> DEFINE y == (c[1] - 48) * 1000 + (c[2] - 48) * 100 + (c[3] - 48) * 10 + c[4] - 48
                 mon == (c[5] - 48) * 10 + c[6] - 48
                 day == (c[7] - 48) * 10 + c[8] - 48
      <4>2. SetDate => y \in Int /\ mon \in Int /\ day \in Int
        BY <4>1, SMT
      <4>3. set_date_time(c) = <<Wrap(y), Wrap(mon), Wrap(day)>>
        BY Zenon DEF set_date_time
      <4> HIDE DEF y, mon, day
      <4>4. \A x \in Int : Wrap(x) \in Nat
        BY Constants, SMT
      <4> QED
        BY <4>2, <4>3, <4>4, ThreeWords, Zenon
    <3> HIDE DEF c
    <3>3. CASE SetCsq
      BY <1>0, <2>0, <3>1, <3>3, Zenon DEF SetCsq, Records, DataType, c
    <3>4. CASE SetDate
      BY <1>0, <2>0, <3>2, <3>4, Zenon DEF SetDate, Records, DataType, c
    <3> QED
      BY <2>5, <3>3, <3>4, Zenon
  <2>6. CASE MoveThreshold
    <3>1. \E x \in Int : res_t' = [res_t EXCEPT !.v_threshold = Wrap(x)]
      BY <1>0, <2>6, Constants, SMT DEF MoveThreshold, DataType
    <3> QED
      BY <1>0, <2>0, <2>6, <3>1, Constants DEF MoveThreshold, Records, DataType
  <2> QED
    BY <1>5, <2>1, <2>2, <2>3, <2>4, <2>5, <2>6, SMTT(30) DEF Main, MainThread
<1>6. CASE DelayOver
  BY <1>1, <1>6, Zenon DEF DelayOver, EndPulse, lineVars
<1>7. CASE Touch \/ Click \/ Flush \/ Service \/ ServiceTake \/ UNCHANGED vars
  BY <1>1, <1>7, Zenon DEF Touch, Click, Flush, Service, ServiceTake, vars, mainVars, lineVars
<1> QED
  BY <1>2, <1>3, <1>4, <1>5, <1>6, <1>7, Zenon DEF Next, Others

Ops == {1, 2, 3, 4, 5, 6}

LEMMA WordsType ==
    ASSUME NEW op \in Ops, NEW v \in Seq(Nat)
    PROVE  Msg(op, v) \in Messages
  BY SMTT(30) DEF Msg, Messages, Ops

LEMMA OneWord ==
    ASSUME NEW op \in Ops, NEW a \in Nat
    PROVE  Msg(op, <<a>>) \in Messages
  BY DEF Msg, Messages, Ops

LEMMA TwoWords ==
    ASSUME NEW op \in Ops, NEW a \in Nat, NEW b \in Nat
    PROVE  Msg(op, <<a, b>>) \in Messages
  BY DEF Msg, Messages, Ops

LEMMA FourWords ==
    ASSUME NEW op \in Ops, NEW a \in Nat, NEW b \in Nat, NEW c \in Nat, NEW d \in Nat
    PROVE  Msg(op, <<a, b, c, d>>) \in Messages
  BY DEF Msg, Messages, Ops

LEMMA CharacterTypes ==
    ASSUME NEW v \in Nat
    PROVE  /\ Thousands(v) \in Nat /\ Hundreds(v) \in Nat /\ Tens(v) \in Nat
           /\ Units(v) \in Nat /\ Chr(v) \in Nat
           /\ IdHundreds(v) \in Nat /\ ThresholdHundreds(v) \in Nat
<1>1. \A d \in Int : Chr(d) \in Nat
  BY SMT DEF Chr
<1>2. /\ v \div 1000 \in Int /\ v \div 100 \in Int /\ (v % 1000) \div 100 \in Int
      /\ (v % 100) \div 100 \in Int /\ (v % 100) \div 10 \in Int /\ v % 10 \in Int
  BY SMT
<1> QED
  BY <1>1, <1>2 DEF Thousands, Hundreds, Tens, Units, IdHundreds, ThresholdHundreds

LEMMA SampleType ==
    ASSUME NEW v \in Nat, NEW q \in Nat, NEW id \in Nat, NEW th \in Nat
    PROVE  SampleChars(v, q, id, th) \in Seq(Nat)
  BY CharacterTypes DEF SampleChars

\* Every message the main thread sends is one.
LEMMA SentTypes ==
    ASSUME NEW r, r.v_measure \in Nat, r.v_threshold \in Nat, r.qualified \in Nat,
           NEW p, p.total \in Nat, p.qualified_amount \in Nat, p.date \in Seq(Nat),
           NEW t, t.csq \in Nat, t.msg_id \in Nat,
           NEW mq \in Seq(Messages),
           QueueType
    PROVE  /\ Len(mq) <= OutputMax =>
                /\ send_v_threshold_msg(mq, r) \in Seq(Messages)
                /\ Len(send_v_threshold_msg(mq, r)) <= OutputMax
                /\ send_rtc_msg(mq, p) \in Seq(Messages)
                /\ Len(send_rtc_msg(mq, p)) <= OutputMax
                /\ send_product_info_msg(mq, p) \in Seq(Messages)
                /\ Len(send_product_info_msg(mq, p)) <= OutputMax
           /\ Len(mq) <= FileMax =>
                /\ send_info_to_file_msg(mq, p) \in Seq(Messages)
                /\ Len(send_info_to_file_msg(mq, p)) <= FileMax
                /\ send_date_to_file_msg(mq, p) \in Seq(Messages)
                /\ Len(send_date_to_file_msg(mq, p)) <= FileMax
           /\ send_data_msg(r, p) \in Seq(Messages) /\ Len(send_data_msg(r, p)) <= OutputMax
           /\ send_csq(t) \in Seq(Messages) /\ Len(send_csq(t)) <= OutputMax
           /\ send_msg_id_msg(t) \in Seq(Messages) /\ Len(send_msg_id_msg(t)) <= OutputMax
           /\ send_nb_msg(r, t) \in Seq(Messages) /\ Len(send_nb_msg(r, t)) <= NbiotMax
<1>0. /\ output_mq \in Seq(Messages) /\ Len(output_mq) <= OutputMax
      /\ nbiot_mq \in Seq(Messages) /\ Len(nbiot_mq) <= NbiotMax
  BY Zenon DEF QueueType
<1>1. {1, 2, 3, 4, 5, 6} = Ops
  BY Zenon DEF Ops
<1>2. Msg(3, p.date) \in Messages /\ Msg(2, p.date) \in Messages
  BY <1>1, WordsType, Zenon
<1>3. /\ Msg(4, <<p.total, p.qualified_amount>>) \in Messages
      /\ Msg(1, <<p.total, p.qualified_amount>>) \in Messages
  BY <1>1, TwoWords, Zenon
<1>4. Msg(2, <<r.v_threshold>>) \in Messages
  BY <1>1, OneWord, Zenon
<1>5. Msg(1, <<r.v_measure, r.qualified, p.total, p.qualified_amount>>) \in Messages
  BY <1>1, FourWords, Zenon
<1>6. Msg(5, <<t.csq>>) \in Messages /\ Msg(6, <<t.msg_id>>) \in Messages
  BY <1>1, OneWord, Zenon
<1>7. send_nb_msg(r, t) \in Seq(Messages) /\ Len(send_nb_msg(r, t)) <= NbiotMax
  <2> DEFINE s == SampleChars(r.v_measure, r.qualified, t.msg_id, r.v_threshold)
  <2>1. s \in Seq(Nat)
    BY SampleType, Zenon
  <2>2. send_nb_msg(r, t) = rt_mq_send(nbiot_mq, NbiotMax, Msg(1, s))
    BY Zenon DEF send_nb_msg
  <2> HIDE DEF s
  <2>3. Msg(1, s) \in Messages
    BY <1>1, <2>1, WordsType, Zenon
  <2> QED
    BY <1>0, <2>2, <2>3, SendType, Constants, Zenon
<1> USE SendType, Constants
<1>8. /\ send_data_msg(r, p) \in Seq(Messages) /\ Len(send_data_msg(r, p)) <= OutputMax
      /\ send_csq(t) \in Seq(Messages) /\ Len(send_csq(t)) <= OutputMax
      /\ send_msg_id_msg(t) \in Seq(Messages) /\ Len(send_msg_id_msg(t)) <= OutputMax
  BY <1>0, <1>5, <1>6, Zenon DEF send_data_msg, send_csq, send_msg_id_msg
<1>9. ASSUME Len(mq) <= OutputMax
      PROVE  /\ send_v_threshold_msg(mq, r) \in Seq(Messages)
             /\ Len(send_v_threshold_msg(mq, r)) <= OutputMax
             /\ send_rtc_msg(mq, p) \in Seq(Messages)
             /\ Len(send_rtc_msg(mq, p)) <= OutputMax
             /\ send_product_info_msg(mq, p) \in Seq(Messages)
             /\ Len(send_product_info_msg(mq, p)) <= OutputMax
  BY <1>2, <1>3, <1>4, <1>9, Zenon DEF send_v_threshold_msg, send_rtc_msg,
     send_product_info_msg
<1>10. ASSUME Len(mq) <= FileMax
       PROVE  /\ send_info_to_file_msg(mq, p) \in Seq(Messages)
              /\ Len(send_info_to_file_msg(mq, p)) <= FileMax
              /\ send_date_to_file_msg(mq, p) \in Seq(Messages)
              /\ Len(send_date_to_file_msg(mq, p)) <= FileMax
  BY <1>2, <1>3, <1>10, Zenon DEF send_info_to_file_msg, send_date_to_file_msg
<1> QED
  BY <1>7, <1>8, <1>9, <1>10, Zenon

\* The fields of the records, as the messages need them.
LEMMA FieldTypes ==
    ASSUME NEW r \in [v_measure : Nat, v_threshold : 0..(UINT_MOD - 1), qualified : {0, 1}],
           NEW p \in [total : Nat, qualified_amount : Nat, date : DateType],
           NEW t \in [csq : Nat, msg_id : 0..MSG_ID_MAX]
    PROVE  /\ r.v_measure \in Nat /\ r.v_threshold \in Nat /\ r.qualified \in Nat
           /\ p.total \in Nat /\ p.qualified_amount \in Nat /\ p.date \in Seq(Nat)
           /\ t.csq \in Nat /\ t.msg_id \in Nat
<1>1. /\ r.v_threshold \in 0..(UINT_MOD - 1) /\ r.qualified \in {0, 1}
      /\ t.msg_id \in 0..MSG_ID_MAX /\ p.date \in DateType
      /\ r.v_measure \in Nat /\ t.csq \in Nat
      /\ p.total \in Nat /\ p.qualified_amount \in Nat
  BY Zenon
<1>2. DateType \subseteq Seq(Nat)
  BY Zenon DEF DateType
<1>3. 0..(UINT_MOD - 1) \subseteq Nat /\ 0..MSG_ID_MAX \subseteq Nat /\ {0, 1} \subseteq Nat
  OBVIOUS
<1> QED
  BY <1>1, <1>2, <1>3, Zenon

LEMMA QueueTypeStep ==
    ASSUME TypeOK, [Next]_vars
    PROVE  QueueType'
<1>0. QueueType /\ DataType /\ DataType'
  BY DataTypeStep, Zenon DEF TypeOK
<1> DEFINE main == main_mq' \in Seq(MainMessages) /\ Len(main_mq') <= MainMax
           output == output_mq' \in Seq(Messages) /\ Len(output_mq') <= OutputMax
           nbiot == nbiot_mq' \in Seq(Messages) /\ Len(nbiot_mq') <= NbiotMax
           file == file_mq' \in Seq(Messages) /\ Len(file_mq') <= FileMax
           touch == touch_mq' \in Seq({0, 6, 7}) /\ Len(touch_mq') <= TouchMax
<1>1. /\ UNCHANGED main_mq => main
      /\ UNCHANGED output_mq => output
      /\ UNCHANGED nbiot_mq => nbiot
      /\ UNCHANGED file_mq => file
      /\ UNCHANGED touch_mq => touch
  BY <1>0, Zenon DEF QueueType
<1>2. SUFFICES main /\ output /\ nbiot /\ file /\ touch
  BY Zenon DEF QueueType
<1>3. main_mq # <<>> /\ main_mq' = Tail(main_mq) => main
  BY <1>0, TailType, Constants, SMTT(30) DEF QueueType
<1> HIDE DEF main, output, nbiot, file, touch
<1>4. CASE GrabAll \/ TakeOff \/ Noise \/ Press \/ DelayOver \/ UNCHANGED vars
  BY <1>1, <1>4, Zenon DEF GrabAll, TakeOff, Noise, Press, DelayOver, EndPulse, vars,
     touchVars, queueVars
<1>5. CASE TouchIsr
  BY <1>1, <1>5, Zenon DEF TouchIsr, XPT2046_touch_irq_handler, queueVars
<1>a. \A m \in MainMessages : main_mq' = rt_mq_send(main_mq, MainMax, m) => main
  BY <1>0, SendType, Constants, Zenon DEF QueueType, main
<1>6. CASE SignalIsr
  <2>1. Msg(1, <<>>) \in MainMessages /\ Msg(9, <<>>) \in MainMessages
    BY MessageTypes, Zenon
  <2> QED
    BY <1>1, <1>a, <1>6, <2>1, Zenon DEF SignalIsr, input_interrupt_isr, input_interrupt_isr2,
       Isr, touchVars
<1>7. CASE Main
  <2>0. touch
    BY <1>1, <1>7, Zenon DEF Main, touchVars
  <2>1. \A op : Recv(op) => main
    BY <1>3, Zenon DEF Recv
  <2>f. /\ res_t'.v_measure \in Nat /\ res_t'.v_threshold \in Nat /\ res_t'.qualified \in Nat
        /\ info_t'.total \in Nat /\ info_t'.qualified_amount \in Nat
        /\ info_t'.date \in Seq(Nat) /\ stat_t'.csq \in Nat /\ stat_t'.msg_id \in Nat
    BY <1>0, FieldTypes, Zenon DEF DataType
  <2>2. \A mq \in Seq(Messages) :
          /\ Len(mq) <= OutputMax =>
                /\ send_v_threshold_msg(mq, res_t') \in Seq(Messages)
                /\ Len(send_v_threshold_msg(mq, res_t')) <= OutputMax
                /\ send_rtc_msg(mq, info_t') \in Seq(Messages)
                /\ Len(send_rtc_msg(mq, info_t')) <= OutputMax
                /\ send_product_info_msg(mq, info_t') \in Seq(Messages)
                /\ Len(send_product_info_msg(mq, info_t')) <= OutputMax
          /\ Len(mq) <= FileMax =>
                /\ send_info_to_file_msg(mq, info_t') \in Seq(Messages)
                /\ Len(send_info_to_file_msg(mq, info_t')) <= FileMax
                /\ send_date_to_file_msg(mq, info_t') \in Seq(Messages)
                /\ Len(send_date_to_file_msg(mq, info_t')) <= FileMax
    BY <1>0, <2>f, SentTypes, Zenon
  <2>3. /\ output_mq' = send_data_msg(res_t', info_t') => output
        /\ output_mq' = send_csq(stat_t') => output
        /\ output_mq' = send_msg_id_msg(stat_t') => output
        /\ nbiot_mq' = send_nb_msg(res_t', stat_t') => nbiot
    <3>1. <<>> \in Seq(Messages)
      OBVIOUS
    <3>2. send_data_msg(res_t', info_t') \in Seq(Messages)
          /\ Len(send_data_msg(res_t', info_t')) <= OutputMax
          /\ send_csq(stat_t') \in Seq(Messages) /\ Len(send_csq(stat_t')) <= OutputMax
          /\ send_msg_id_msg(stat_t') \in Seq(Messages)
          /\ Len(send_msg_id_msg(stat_t')) <= OutputMax
          /\ send_nb_msg(res_t', stat_t') \in Seq(Messages)
          /\ Len(send_nb_msg(res_t', stat_t')) <= NbiotMax
      BY <1>0, <2>f, <3>1, SentTypes, Zenon
    <3> QED
      BY <3>2, Zenon DEF output, nbiot
  <2>4. output_mq \in Seq(Messages) /\ Len(output_mq) <= OutputMax
        /\ file_mq \in Seq(Messages) /\ Len(file_mq) <= FileMax
    BY <1>0, Zenon DEF QueueType
  <2>5. CASE InstallIsr \/ CreateQueues
    BY <1>1, <2>0, <2>5, Zenon DEF InstallIsr, CreateQueues, queueVars
  <2>6. CASE UnmaskBatch \/ LoadPart \/ UnmaskPart
    BY <1>1, <2>0, <2>6, Zenon DEF UnmaskBatch, LoadPart, UnmaskPart, queueVars
  <2>7. CASE SingleGrabbed \/ AllGrabbed
    BY <1>1, <2>0, <2>1, <2>7, Zenon DEF SingleGrabbed, AllGrabbed
  <2>8. CASE Measure
    BY <1>1, <2>0, <2>3, <2>8, Zenon DEF Measure
  <2>9. CASE OpenBatch
    BY <1>1, <2>0, <2>9, SMTT(30) DEF OpenBatch, queueVars
  <2>10. CASE FillLog
    BY <1>1, <2>0, <2>1, <2>2, <2>4, <2>10, SMTT(30) DEF FillLog, Records, file
  <2>11. CASE Restore
    BY <1>1, <2>0, <2>1, <2>2, <2>4, <2>11, Zenon DEF Restore, Records, output
  <2>12. CASE SetCsq
    BY <1>1, <2>0, <2>1, <2>3, <2>12, Zenon DEF SetCsq, Records
  <2>13. CASE SetDate
    BY <1>1, <2>0, <2>1, <2>2, <2>4, <2>13, Zenon DEF SetDate, Records, output
  <2>14. CASE MoveThreshold
    BY <1>1, <2>0, <2>1, <2>2, <2>4, <2>14, Zenon DEF MoveThreshold, Records, output
  <2>15. CASE Published
    BY <1>1, <2>0, <2>1, <2>3, <2>15, Zenon DEF Published, Records
  <2> QED
    BY <1>7, <2>5, <2>6, <2>7, <2>8, <2>9, <2>10, <2>11, <2>12, <2>13, <2>14, <2>15, Zenon
       DEF Main, MainThread
<1>8. CASE Touch
  <2>1. CASE TouchSample
    <3>1. ASSUME NEW t \in Targets, SendTouch(t) PROVE touch
      <4>1. t \in {0, 6, 7} /\ TouchMax \in Nat /\ TouchMax >= 1
        BY PanelConstants
      <4>2. touch_mq \in Seq({0, 6, 7})
        BY <1>0, Zenon DEF QueueType
      <4> DEFINE S == {0, 6, 7}
      <4> HIDE DEF S
      <4>3. Len(touch_mq) < TouchMax =>
              Append(touch_mq, t) \in Seq(S) /\ Len(Append(touch_mq, t)) <= TouchMax
        BY <4>1, <4>2 DEF S
      <4>4. <<t>> \in Seq(S) /\ Len(<<t>>) <= TouchMax
        BY <4>1 DEF S
      <4> QED
        BY <3>1, <4>3, <4>4, ZenonT(30) DEF SendTouch, touch, S
    <3> QED
      BY <1>1, <1>8, <2>1, <3>1, Zenon DEF Touch, TouchSample, queueVars
  <2> QED
    BY <1>1, <1>8, <2>1, Zenon DEF Touch, TouchThread, TouchWake, TouchMask, TouchUnmask, queueVars
<1>9. CASE Click
  <2>1. touch_mq # <<>> /\ touch_mq' = Tail(touch_mq) => touch /\ Head(touch_mq) \in {0, 6, 7}
    BY <1>0, TailType, PanelConstants DEF QueueType, touch
  <2>2. Msg(6, <<>>) \in MainMessages /\ Msg(7, <<>>) \in MainMessages
    BY MessageTypes, Zenon
  <2>3. touch /\ main
    BY <1>1, <1>9, <1>a, <2>1, <2>2, Zenon DEF Click, simple_gui_task
  <2> QED
    BY <1>1, <1>9, <2>3, Zenon DEF Click
<1>10. CASE Flush
  <2>1. output
    BY <1>0, <1>10, TailType, Constants DEF QueueType, Flush, rt_flush_task, output
  <2> QED
    BY <1>1, <1>10, <2>1, SMTT(30) DEF Flush, touchVars
<1>11. CASE Service
  <2>1. main /\ UNCHANGED <<nbiot_mq, file_mq>>
    BY <1>1, <1>11, <1>a, MessageTypes, Zenon DEF Service, nb_get_csq, nb_get_time, nb_send_v_q, ReadLog
  <2> QED
    BY <1>1, <1>11, <2>1, SMTT(30) DEF Service, touchVars
<1>12. CASE ServiceTake
  <2>1. nbiot /\ file /\ UNCHANGED main_mq
    <3>1. nbiot_mq # <<>> /\ nbiot_mq' = Tail(nbiot_mq) => nbiot
      BY <1>0, TailType, Constants DEF QueueType, nbiot
    <3>2. file_mq # <<>> /\ file_mq' = Tail(file_mq) => file
      BY <1>0, TailType, Constants DEF QueueType, file
    <3> QED
      BY <1>1, <1>12, <3>1, <3>2, Zenon DEF ServiceTake, TakeSample, WriteLog
  <2> QED
    BY <1>1, <1>12, <2>1, Zenon DEF ServiceTake, touchVars
<1> QED
  BY <1>4, <1>5, <1>6, <1>7, <1>8, <1>9, <1>10, <1>11, <1>12, Zenon DEF Next, Others

LEMMA TypeInit == Init => TypeOK
<1> SUFFICES ASSUME Init PROVE TypeOK
  BY Zenon
<1>1. ControlType
  <2>1. 0 \in 0..255
    BY SMT
  <2>2. ien \subseteq Pins /\ reg \subseteq Pins /\ pend \subseteq Pins
    BY Zenon DEF Init, MainInit, Pins
  <2> QED
    BY <2>1, <2>2, Zenon DEF Init, MainInit, ControlType
<1>2. DataType
  <2>1. 0 \in 0..(UINT_MOD - 1) /\ 0 \in 0..MSG_ID_MAX /\ 0 \in 0..Batch
    BY Constants, MainLoopConstants, SMT
  <2>2. InitDate \in DateType
    BY SMT DEF InitDate, DateType
  <2>3. temp_adc \in Nat
    BY MainLoopConstants, Zenon DEF Init, MainInit
  <2> QED
    BY <2>1, <2>2, <2>3, Constants, Zenon DEF Init, MainInit, init_datastructure, DataType
<1>3. QueueType
  <2>1. /\ main_mq = <<>> /\ nbiot_mq = <<>> /\ file_mq = <<>> /\ touch_mq = <<>>
        /\ output_mq = send_rtc_msg(send_v_threshold_msg(<<>>, res_t), info_t)
    BY Zenon DEF Init, MainInit, PanelInit
  <2>2. res_t.v_threshold \in Nat /\ info_t.date \in Seq(Nat)
    BY <1>2, FieldTypes, SMTT(30) DEF DataType
  <2>3. Msg(2, <<res_t.v_threshold>>) \in Messages /\ Msg(3, info_t.date) \in Messages
    BY <2>2, OneWord, WordsType, Zenon DEF Ops
  <2>4. output_mq \in Seq(Messages) /\ Len(output_mq) <= OutputMax
    <3>1. <<>> \in Seq(Messages) /\ Len(<<>>) <= OutputMax
      BY Constants
    <3> DEFINE mq == send_v_threshold_msg(<<>>, res_t)
    <3>2. mq \in Seq(Messages) /\ Len(mq) <= OutputMax
      BY <2>3, <3>1, SendType, Constants, Zenon DEF send_v_threshold_msg
    <3> HIDE DEF mq
    <3>3. send_rtc_msg(mq, info_t) \in Seq(Messages) /\ Len(send_rtc_msg(mq, info_t)) <= OutputMax
      BY <2>3, <3>2, SendType, Constants, Zenon DEF send_rtc_msg
    <3> QED
      BY <2>1, <3>3, Zenon DEF mq
  <2> QED
    BY <2>1, <2>4, Constants, PanelConstants, SMTT(30) DEF QueueType
<1>4. ThreadType
  BY ZenonT(30) DEF Init, PanelInit, ServicesInit, ThreadType
<1> QED
  BY <1>1, <1>2, <1>3, <1>4, Zenon DEF TypeOK

\* Every variable has its type, threshold, identifier and countdown stay in their
\* ranges, no queue exceeds the size it was created with, and each message on main_mq carries the
\* words its case in main() reads, for any sizes, batch, readings and threads.
THEOREM TypeTheorem == Spec => []TypeOK
<1>1. TypeOK /\ [Next]_vars => TypeOK'
  BY ControlTypeStep, DataTypeStep, QueueTypeStep, ThreadTypeStep, Zenon DEF TypeOK
<1> QED
  BY TypeInit, <1>1, PTL DEF Spec

-----------------------------------------------------------------------------
(* Masking. *)

HasOne(q) == \E i \in 1..Len(q) : q[i].op = 1
AtMostOne(q) == \A i, j \in 1..Len(q) : q[i].op = 1 /\ q[j].op = 1 => i = j

\* Sending another message leaves the number of ones; sending a one to a queue
\* without one leaves at most one.
LEMMA SendOnes ==
    ASSUME NEW q \in Seq(MainMessages), NEW m \in MainMessages, NEW max
    PROVE  /\ rt_mq_send(q, max, m) \in Seq(MainMessages)
           /\ m.op # 1 /\ AtMostOne(q) => AtMostOne(rt_mq_send(q, max, m))
           /\ m.op # 1 /\ HasOne(rt_mq_send(q, max, m)) => HasOne(q)
           /\ ~HasOne(q) => AtMostOne(rt_mq_send(q, max, m))
<1> DEFINE r == Append(q, m)
<1>1. r \in Seq(MainMessages) /\ Len(r) = Len(q) + 1 /\ r[Len(q) + 1] = m
  OBVIOUS
<1>2. \A i \in 1..Len(q) : r[i] = q[i]
  OBVIOUS
<1>3. \A i \in 1..Len(r) : i \in 1..Len(q) \/ i = Len(q) + 1
  BY <1>1
<1> HIDE DEF r
<1>4. m.op # 1 /\ AtMostOne(q) => AtMostOne(r)
  BY <1>1, <1>2, <1>3, Zenon DEF AtMostOne
<1>5. m.op # 1 /\ HasOne(r) => HasOne(q)
  BY <1>1, <1>2, <1>3, Zenon DEF HasOne
<1>6. ~HasOne(q) => AtMostOne(q) /\ AtMostOne(r)
  BY <1>1, <1>2, <1>3, Zenon DEF HasOne, AtMostOne
<1> QED
  BY <1>1, <1>4, <1>5, <1>6, Zenon DEF rt_mq_send, r

LEMMA TakeOnes ==
    ASSUME NEW q \in Seq(MainMessages), q # <<>>, AtMostOne(q)
    PROVE  /\ Head(q) \in MainMessages /\ Tail(q) \in Seq(MainMessages)
           /\ AtMostOne(Tail(q))
           /\ HasOne(Tail(q)) => HasOne(q)
           /\ Head(q).op = 1 => HasOne(q) /\ ~HasOne(Tail(q))
<1> DEFINE r == Tail(q)
<1>1. r \in Seq(MainMessages) /\ Len(r) = Len(q) - 1 /\ Head(q) = q[1] /\ Len(q) \in Nat \ {0}
  OBVIOUS
<1>2. \A i \in 1..Len(r) : r[i] = q[i + 1] /\ i + 1 \in 1..Len(q)
  OBVIOUS
<1>3. q[1] \in MainMessages /\ 1 \in 1..Len(q)
  BY <1>1
<1> HIDE DEF r
<1>4. AtMostOne(r)
  <2> SUFFICES ASSUME NEW i \in 1..Len(r), NEW j \in 1..Len(r), r[i].op = 1, r[j].op = 1
               PROVE  i = j
    BY Zenon DEF AtMostOne
  <2>1. i + 1 = j + 1
    BY <1>2, Zenon DEF AtMostOne
  <2> QED
    BY <2>1
<1>5. HasOne(r) => HasOne(q)
  BY <1>1, <1>2, Zenon DEF HasOne
<1>6. q[1].op = 1 => HasOne(q) /\ ~HasOne(r)
  BY <1>1, <1>2, <1>3 DEF HasOne, AtMostOne
<1> QED
  BY <1>1, <1>3, <1>4, <1>5, <1>6, Zenon DEF r

HandlingPart == pc \in {"measure", "delay", "store2", "load1", "store1"}

MaskInv ==
    /\ main_mq \in Seq(MainMessages) /\ AtMostOne(main_mq)
    /\ Booting => main_mq = <<>>
    /\ HasOne(main_mq) => INPUT_SIGNAL \notin ien /\ ~HandlingPart
    /\ HandlingPart => INPUT_SIGNAL \notin ien
    /\ pc = "store2" => INPUT_SIGNAL \notin reg
    /\ tpc \in {"wait", "stable"}

maskVars == <<main_mq, pc, ien, reg, tpc>>

LEMMA MaskStep ==
    ASSUME ~XPT2046_USE_GPIO_INT, TypeOK, MaskInv, [Next]_vars
    PROVE  MaskInv'
<1>1. CASE UNCHANGED maskVars
  BY <1>1, SMTT(30) DEF MaskInv, maskVars, AtMostOne, HasOne, Booting, HandlingPart
<1>2. CASE GrabAll \/ TakeOff \/ Noise \/ Press \/ TouchIsr
  <2>1. UNCHANGED <<mainVars, queueVars, ien, tpc>>
    <3>1. CASE GrabAll \/ TakeOff
      BY <3>1, Zenon DEF GrabAll, TakeOff, touchVars
    <3>2. CASE Noise \/ Press
      BY <3>2, Zenon DEF Noise, Press, touchVars
    <3>3. CASE TouchIsr
      BY <3>3, Zenon DEF TouchIsr, XPT2046_touch_irq_handler
    <3> QED
      BY <1>2, <3>1, <3>2, <3>3, Zenon
  <2> QED
    BY <1>1, <2>1, Zenon DEF mainVars, queueVars, maskVars
<1>3. CASE Flush \/ ServiceTake \/ UNCHANGED vars
  <2>1. UNCHANGED <<mainVars, main_mq, ien, tpc>>
    <3>1. CASE Flush
      BY <3>1, Zenon DEF Flush, touchVars
    <3>2. CASE ServiceTake
      BY <3>2, Zenon DEF ServiceTake, TakeSample, WriteLog, touchVars
    <3>3. CASE UNCHANGED vars
      BY <3>3, Zenon DEF vars, queueVars, touchVars
    <3> QED
      BY <1>3, <3>1, <3>2, <3>3, Zenon
  <2> QED
    BY <1>1, <2>1, Zenon DEF mainVars, maskVars
<1>4. CASE Touch
  <2>1. UNCHANGED <<main_mq, pc, reg>>
    BY <1>4, SMTT(30) DEF Touch, mainVars, queueVars
  <2>2. UNCHANGED ien /\ tpc' \in {"wait", "stable"}
    BY <1>4, Zenon DEF Touch, TouchThread, TouchWake, TouchMask, TouchSample, TouchUnmask, MaskInv
  <2> QED
    BY <2>1, <2>2, Zenon DEF MaskInv, Booting, HandlingPart
<1>5. CASE \E op \in {2, 3, 4, 5, 6, 7, 8} : Recv(op) /\ Records /\ UNCHANGED tpc
  BY <1>5, TakeOnes, SMTT(30) DEF Recv, Records, MaskInv, Booting, HandlingPart
<1>6. CASE Main
  <2>1. CASE FillLog \/ Restore \/ SetCsq \/ SetDate \/ MoveThreshold \/ Published
    BY <1>5, <1>6, <2>1, SMTT(30) DEF Main, touchVars, FillLog, Restore, SetCsq,
       SetDate, MoveThreshold, Published
  <2>2. CASE InstallIsr \/ CreateQueues
    <3>1. Booting /\ pc' \in {"install2", "create", "recv"} /\ UNCHANGED <<main_mq, reg, tpc>>
      BY <1>6, <2>2, Zenon DEF Main, touchVars, InstallIsr, CreateQueues, queueVars, Booting
    <3> QED
      BY <3>1 DEF MaskInv, Booting, HandlingPart, HasOne
  <2>3. CASE SingleGrabbed
    <3>1. /\ pc = "recv" /\ main_mq # <<>> /\ Head(main_mq).op = 1 /\ main_mq' = Tail(main_mq)
          /\ pc' \in {"measure", "recv"} /\ UNCHANGED <<ien, reg, tpc>>
      BY <1>6, <2>3, Zenon DEF Main, touchVars, SingleGrabbed, Recv
    <3>2. /\ main_mq' \in Seq(MainMessages) /\ AtMostOne(main_mq')
          /\ HasOne(main_mq) /\ ~HasOne(main_mq')
      BY <3>1, TakeOnes, Zenon DEF MaskInv
    <3> QED
      BY <3>1, <3>2, SMTT(30) DEF MaskInv, Booting, HandlingPart
  <2>3a. CASE AllGrabbed
    <3>1. /\ pc = "recv" /\ main_mq # <<>> /\ Head(main_mq).op = 9 /\ main_mq' = Tail(main_mq)
          /\ pc' \in {"sum", "recv"} /\ UNCHANGED <<ien, reg, tpc>>
      BY <1>6, <2>3a, Zenon DEF Main, touchVars, AllGrabbed, Recv
    <3>2. /\ main_mq' \in Seq(MainMessages) /\ AtMostOne(main_mq')
          /\ HasOne(main_mq') => HasOne(main_mq)
      BY <3>1, TakeOnes, Zenon DEF MaskInv
    <3> QED
      BY <3>1, <3>2, SMTT(30) DEF MaskInv, Booting, HandlingPart
  <2>4. CASE Measure \/ OpenBatch
    <3>1. /\ UNCHANGED <<main_mq, ien, reg, tpc>>
          /\ \/ pc = "measure" /\ pc' = "delay"
             \/ pc = "sum" /\ pc' = "recv"
      <4>1. CASE Measure
        BY <1>6, <4>1, SMTT(30) DEF Main, touchVars, Measure
      <4>2. CASE OpenBatch
        BY <1>6, <4>2, SMTT(30) DEF Main, touchVars, OpenBatch, queueVars
      <4> QED
        BY <2>4, <4>1, <4>2, Zenon
    <3> QED
      BY <3>1, Zenon DEF MaskInv, Booting, HandlingPart
  <2>5. CASE UnmaskBatch
    <3>1. /\ pc = "store2" /\ pc' = "load1" /\ ien' = reg \cup {INPUT_SIGNAL2} /\ reg' = {}
          /\ UNCHANGED <<main_mq, tpc>>
      BY <1>6, <2>5, Zenon DEF Main, touchVars, UnmaskBatch, EnableStore, queueVars
    <3>2. INPUT_SIGNAL # INPUT_SIGNAL2
      BY DEF INPUT_SIGNAL, INPUT_SIGNAL2
    <3> QED
      BY <3>1, <3>2, Zenon DEF MaskInv, Booting, HandlingPart
  <2>6. CASE LoadPart
    <3>1. /\ pc = "load1" /\ pc' = "store1" /\ UNCHANGED <<ien, main_mq, tpc>>
      BY <1>6, <2>6, Zenon DEF Main, touchVars, LoadPart, queueVars
    <3> QED
      BY <3>1, Zenon DEF MaskInv, Booting, HandlingPart
  <2>7. CASE UnmaskPart
    <3>1. /\ pc = "store1" /\ pc' = "recv" /\ UNCHANGED <<main_mq, tpc>>
      BY <1>6, <2>7, SMTT(30) DEF Main, touchVars, UnmaskPart, queueVars
    <3> QED
      BY <3>1, Zenon DEF MaskInv, Booting, HandlingPart
  <2> QED
    BY <1>6, <2>1, <2>2, <2>3, <2>3a, <2>4, <2>5, <2>6, <2>7, Zenon DEF Main, MainThread
<1>7. CASE DelayOver
  <2>1. /\ pc = "delay" /\ pc' \in {"store2", "store1"} /\ reg' = ien
        /\ UNCHANGED <<main_mq, ien, tpc>>
    BY <1>7, SMTT(30) DEF DelayOver, EndPulse, touchVars, queueVars
  <2> QED
    BY <2>1, SMTT(30) DEF MaskInv, Booting, HandlingPart
<1>8. CASE SignalIsr
  <2>1. \E p \in {INPUT_SIGNAL, INPUT_SIGNAL2}, op \in {1, 9} :
          Isr(p, op) /\ (op = 1 <=> p = INPUT_SIGNAL) /\ UNCHANGED tpc
    BY <1>8, SMTT(30) DEF SignalIsr, input_interrupt_isr, input_interrupt_isr2,
       touchVars, INPUT_SIGNAL, INPUT_SIGNAL2
  <2> QED
    BY <2>1, SendOnes, MessageTypes, SMT
       DEF Isr, Raised, IsrDisable, DisableStore, mainVars, MaskInv, Booting, HandlingPart
<1>9. CASE Click \/ Service
  <2>1. \/ main_mq' = main_mq
        \/ \E m \in MainMessages : m.op # 1 /\ main_mq' = rt_mq_send(main_mq, MainMax, m)
    <3>1. CASE Click
      <4>1. touch_mq # <<>> => Head(touch_mq) \in {0, 6, 7}
        BY TailType, SMTT(30) DEF TypeOK, QueueType
      <4> QED
        BY <3>1, <4>1, MessageTypes DEF Click, simple_gui_task
    <3>2. CASE Service
      BY <3>2, MessageTypes, SMTT(30) DEF Service, nb_get_csq, nb_get_time,
         nb_send_v_q, ReadLog
    <3> QED
      BY <1>9, <3>1, <3>2, SMTT(30)
  <2>2. UNCHANGED <<pc, ien, reg, tpc>> /\ MainBlocked
    BY <1>9, Zenon DEF Click, Service, Runs, simple_gui_task, mainVars, touchVars
  <2> QED
    BY <2>1, <2>2, SendOnes DEF MaskInv, MainBlocked, Booting, HandlingPart, HasOne, AtMostOne
<1> QED
  BY <1>1, <1>2, <1>3, <1>4, <1>6, <1>7, <1>8, <1>9, SMTT(30) DEF Next, Others

\* In the build that polls the touch panel, the pin of the resistors is masked
\* from the interrupt to the end of the delay, whatever edges arrive: the code's
\* "eliminate signal glitches".  The interrupt-driven build loses this, see run
\* race; the invariant needs that at most one message 1 is on its way.
THEOREM MaskTheorem ==
    ASSUME ~XPT2046_USE_GPIO_INT
    PROVE  Spec => []GlitchesMasked
<1>1. Init => MaskInv
  BY DEF Init, MainInit, PanelInit, MaskInv, AtMostOne, HasOne, Booting, HandlingPart
<1>2. TypeOK /\ MaskInv /\ [Next]_vars => MaskInv'
  BY MaskStep, Zenon
<1>3. MaskInv => GlitchesMasked
  BY Zenon DEF MaskInv, GlitchesMasked, HandlingPart
<1> QED
  BY <1>1, <1>2, <1>3, TypeTheorem, PTL DEF Spec

-----------------------------------------------------------------------------
(* The controller and the robot stay in step, in the build that polls the  *)
(* touch panel and without stray edges: the invariant, and that the robot  *)
(* and the start preserve it.  The other steps, and the theorems, are in   *)
(* LineProofs.                                                             *)

\* The contacts bounce but no stray edges come, the touch panel does not
\* interrupt, the queue has room and the total does not wrap round.
CleanLine ==
    /\ ~XPT2046_USE_GPIO_INT /\ Glitches = {}
    /\ MaxClicks >= 2 /\ MaxClicks + 3 <= MainMax
    /\ MaxParts < UINT_MOD /\ \A m \in Saved : m[1] + MaxParts < UINT_MOD

\* What the operator may post while the sorting pulse lasts, and one answer.
Posts == MaxClicks + 1

\* A resistor was taken off and is not counted yet: its pulse is latched on a
\* pin that is enabled or about to be, is in the queue, or is being measured.
Uncounted ==
    \/ Queued(1) \/ pc = "measure" \/ INPUT_SIGNAL \in Raised
    \/ pc = "store1" /\ INPUT_SIGNAL \in pend

\* A batch pulse is under way: the batch is grabbed and not open yet, or a
\* contact bounced and got through.
Grabbed == Queued(9) \/ pc = "sum" \/ INPUT_SIGNAL2 \in Raised

One(b) == IF b THEN 1 ELSE 0

\* Until main_mq exists no pin has an edge, so no handler runs.
BootInv ==
    Booting => /\ main_mq = <<>> /\ pend = {} /\ fpc = "start" /\ ctrl_flow = 0
               /\ (pc = "install2" => INPUT_SIGNAL \in ien)
               /\ (pc = "create" => Signals \subseteq ien)

\* The count, the countdown and the robot: what is taken off is counted or
\* about to be, and the countdown is what is left, or was before this resistor.
CountInv ==
    /\ info_t.total + One(Uncounted) = placed
    /\ placed + held < UINT_MOD /\ held <= MaxParts
    /\ ctrl_flow = 1 => held + One(Uncounted \/ pc = "delay") = adc_measure_count
    /\ ctrl_flow = 0 => ~Uncounted /\ held = IF Grabbed THEN Batch ELSE 0

\* The pin of the resistors is masked from its interrupt to the end of the
\* delay, and its message is in the queue meanwhile or being handled.
PartPin ==
    /\ HandlingPart => INPUT_SIGNAL \notin ien /\ ~Queued(1)
    /\ pc = "store2" => INPUT_SIGNAL \notin reg
    /\ pc \in {"recv", "sum"} => (INPUT_SIGNAL \in ien <=> ~Queued(1))
    /\ pc = "sum" => ~Queued(1) /\ INPUT_SIGNAL \notin pend

\* The pin of the batches: no pulse of it gets in the way of a resistor, and
\* without a batch it is enabled or its message is in the queue.
BatchPin ==
    /\ ctrl_flow = 1 /\ (Uncounted \/ pc \in {"delay", "store1"}) => ~Grabbed
    /\ ctrl_flow = 1 /\ pc = "store1" => reg = ien
    /\ pc \in {"store2", "load1"} => ctrl_flow = 0 /\ INPUT_SIGNAL2 \notin pend /\ ~Queued(9)
    /\ pc = "load1" => INPUT_SIGNAL2 \in ien
    /\ pc = "store1" /\ ctrl_flow = 0 => INPUT_SIGNAL2 \in reg
    /\ pc = "store1" /\ Queued(9) => INPUT_SIGNAL2 \notin ien
    /\ pc \in {"recv", "store1"} /\ ctrl_flow = 0 => INPUT_SIGNAL2 \in ien \/ Queued(9)

\* Where signals stand in the queue: a resistor's last of all, a batch's at the
\* end, once more if the enable register was stored back in between.
Again == IF INPUT_SIGNAL2 \in ien \/ pc = "store1" THEN 0 ELSE 1
PlaceInv ==
    \A i \in 1..Len(main_mq) :
        /\ main_mq[i].op = 1 => i = Len(main_mq)
        /\ main_mq[i].op = 9 /\ ctrl_flow = 0 /\ pc # "sum" => i >= Len(main_mq) - Again
        /\ main_mq[i].op = 3 => /\ i = 1 /\ pc = "recv" /\ ctrl_flow = 0 /\ placed = 0
                                /\ main_mq[i].val \in Saved

\* How full the queue can be.
RoomInv ==
    /\ clicks \in 0..MaxClicks /\ acks \in 0..1
    /\ pc \in {"measure", "delay"} => Len(main_mq) <= clicks + acks
    /\ pc \in {"store2", "load1"} => Len(main_mq) <= Posts
    /\ pc \in {"store1", "recv"} =>
         /\ ~Queued(9) => Len(main_mq) <= Posts + One(Queued(1))
         /\ ctrl_flow = 0 /\ Queued(9) => Len(main_mq) <= Posts + 1 + Again
         /\ ctrl_flow = 1 /\ Grabbed => Len(main_mq) <= 2 + Again
    /\ pc = "sum" => clicks <= 1 /\ Len(main_mq) <= clicks + acks + Again

StartInv ==
    fpc = "start" => placed = 0 /\ held = 0 /\ ctrl_flow = 0 /\ ~Queued(3)

\* The reference of the next measurement is the reading before it.
ScaleInv ==
    ~AdcFaults =>
        /\ ctrl_flow = 1 => adc_sum = scale + (IF Uncounted THEN part ELSE 0)
        /\ pc = "delay" => res_t.v_measure = 2 * part /\ pulse_out = res_t.qualified

PanelInv == tpc \in {"wait", "stable"} /\ pend \subseteq Signals /\ ~halted

LineInv == /\ PanelInv /\ BootInv /\ CountInv /\ PartPin /\ BatchPin /\ PlaceInv
           /\ RoomInv /\ StartInv /\ ScaleInv

\* With what is proved already, before and after the step.
Known == CleanLine /\ TypeOK /\ TypeOK' /\ CountdownSound /\ CountdownSound' /\ LineInv /\ Next
-----------------------------------------------------------------------------
(* The queue. *)

PostGives(m) ==
    /\ Len(main_mq') = Len(main_mq) + 1 /\ main_mq'[Len(main_mq) + 1] = m
    /\ \A i \in 1..Len(main_mq) : main_mq'[i] = main_mq[i]
    /\ \A op \in 1..9 : Queued(op)' <=> Queued(op) \/ m.op = op

LEMMA PostFacts ==
    ASSUME main_mq \in Seq(MainMessages), NEW m \in MainMessages, Len(main_mq) < MainMax,
           main_mq' = rt_mq_send(main_mq, MainMax, m)
    PROVE  PostGives(m)
<1>1. main_mq' = Append(main_mq, m)
  BY Zenon DEF rt_mq_send
<1>2. /\ Len(main_mq') = Len(main_mq) + 1 /\ main_mq'[Len(main_mq) + 1] = m
      /\ \A i \in 1..Len(main_mq) : main_mq'[i] = main_mq[i]
      /\ Len(main_mq) \in Nat
  BY <1>1
<1>3. \A i \in 1..Len(main_mq') : i \in 1..Len(main_mq) \/ i = Len(main_mq) + 1
  BY <1>2
<1>4. Len(main_mq) + 1 \in 1..Len(main_mq') /\ \A i \in 1..Len(main_mq) : i \in 1..Len(main_mq')
  BY <1>2
<1>5. ASSUME NEW op \in 1..9 PROVE Queued(op)' <=> Queued(op) \/ m.op = op
  BY <1>2 DEF Queued
<1> QED
  BY <1>2, <1>5, Zenon DEF PostGives

TakeGives ==
    /\ Len(main_mq) >= 1 /\ Len(main_mq') = Len(main_mq) - 1
    /\ Head(main_mq) = main_mq[1] /\ main_mq[1] \in MainMessages
    /\ \A i \in 1..Len(main_mq') : main_mq'[i] = main_mq[i + 1] /\ i + 1 \in 1..Len(main_mq)
    /\ \A op \in 1..9 : Queued(op) <=> Queued(op)' \/ main_mq[1].op = op

LEMMA TakeFacts ==
    ASSUME main_mq \in Seq(MainMessages), main_mq # <<>>, main_mq' = Tail(main_mq)
    PROVE  TakeGives
<1>1. /\ Len(main_mq) \in Nat /\ Len(main_mq) >= 1 /\ Len(main_mq') = Len(main_mq) - 1
      /\ Head(main_mq) = main_mq[1]
  OBVIOUS
<1>2. \A i \in 1..Len(main_mq') : main_mq'[i] = main_mq[i + 1] /\ i + 1 \in 1..Len(main_mq)
  OBVIOUS
<1>3. 1 \in 1..Len(main_mq) /\ main_mq[1] \in MainMessages
  OBVIOUS
<1>4. \A i \in 1..Len(main_mq) : i = 1 \/ i - 1 \in 1..Len(main_mq')
  OBVIOUS
<1>5. \A i \in 1..Len(main_mq) : i # 1 => main_mq[i] = main_mq'[i - 1]
  OBVIOUS
<1>6. ASSUME NEW op \in 1..9 PROVE Queued(op) <=> Queued(op)' \/ main_mq[1].op = op
  <2>1. ASSUME Queued(op) PROVE Queued(op)' \/ main_mq[1].op = op
    BY <2>1, <1>4, <1>5, Zenon DEF Queued
  <2>2. ASSUME Queued(op)' PROVE Queued(op)
    BY <2>2 DEF Queued
  <2>3. ASSUME main_mq[1].op = op PROVE Queued(op)
    BY <2>3 DEF Queued
  <2> QED
    BY <2>1, <2>2, <2>3, Zenon
<1> QED
  BY <1>6 DEF TakeGives

\* The numbers of the state are numbers.
Numbers ==
    /\ info_t.total \in Nat /\ placed \in Nat /\ held \in 0..Batch /\ adc_measure_count \in 0..255
    /\ Len(main_mq) \in Nat /\ ctrl_flow \in {0, 1} /\ adc_sum \in Nat /\ scale \in Nat /\ part \in Nat
    /\ Batch \in 1..255 /\ MaxClicks \in Nat /\ MaxParts \in Nat /\ UINT_MOD \in Nat /\ MainMax \in Nat

LEMMA NumberFacts ==
    ASSUME TypeOK PROVE Numbers
<1>1. Len(main_mq) \in Nat
  BY DEF TypeOK, QueueType
<1>2. Batch \in 1..255 /\ MaxClicks \in Nat /\ MaxParts \in Nat /\ UINT_MOD \in Nat /\ MainMax \in Nat
  BY MainLoopConstants, LineConstants, QueueSizes, Zenon
<1> QED
  BY <1>1, <1>2, Zenon DEF TypeOK, ControlType, DataType, Numbers

\* The robot grabs a batch only when none is open, and its pulse is heard.
LEMMA GrabAllStep ==
    ASSUME Known, GrabAll
    PROVE  LineInv'
<1>0. /\ Numbers /\ CleanLine /\ CountdownSound /\ CountdownSound' /\ PanelInv /\ BootInv /\ CountInv
      /\ PartPin /\ BatchPin /\ PlaceInv /\ RoomInv /\ StartInv /\ ScaleInv
  BY NumberFacts, Zenon DEF Known, LineInv
<1>1. /\ held = 0 /\ fpc = "loop" /\ placed + Batch <= MaxParts /\ held' = Batch /\ pend' = pend \cup {INPUT_SIGNAL2}
      /\ UNCHANGED <<pc, reg, ctrl_flow, adc_measure_count, adc_sum, res_t, info_t, pulse_out, main_mq, ien, tpc, halted, fpc, part, placed, clicks, acks>>
  BY Zenon DEF GrabAll, Edge, mainVars, queueVars, touchVars, serviceVars
<1>2. /\ ~Queued(1) /\ ~Queued(9) /\ pc \in {"recv", "store1"}
      /\ pc = "recv" => INPUT_SIGNAL \notin Raised /\ INPUT_SIGNAL2 \notin Raised
      /\ pc = "store1" => INPUT_SIGNAL \notin pend /\ INPUT_SIGNAL2 \notin pend
  BY Zenon DEF GrabAll, Served, Signals
<1>3. ~Uncounted /\ ~Grabbed
  BY <1>2, Zenon DEF Uncounted, Grabbed, Raised
<1>4. ctrl_flow = 0 /\ INPUT_SIGNAL2 \in ien
  BY <1>0, <1>1, <1>2, <1>3 DEF CountInv, One, CountdownSound, BatchPin, Numbers
<1>5. Queued(1)' = Queued(1) /\ Queued(9)' = Queued(9) /\ Queued(3)' = Queued(3)
  BY <1>1, Zenon DEF Queued
<1>6. ~Uncounted' /\ Grabbed'
  BY <1>1, <1>3, <1>4, <1>5 DEF Uncounted, Grabbed, Raised, INPUT_SIGNAL, INPUT_SIGNAL2
<1>7. PanelInv'
  BY <1>0, <1>1, Zenon DEF PanelInv, Signals
<1>8. BootInv'
  BY <1>1, <1>2, Zenon DEF BootInv, Booting
<1>9. CountInv'
  BY <1>0, <1>1, <1>4, <1>6 DEF CountInv, One, Numbers, CleanLine
<1>10. PartPin'
  BY <1>0, <1>1, <1>5 DEF PartPin, HandlingPart, INPUT_SIGNAL, INPUT_SIGNAL2
<1>11. BatchPin'
  BY <1>0, <1>1, <1>2, <1>4, <1>5 DEF BatchPin
<1>12. PlaceInv'
  BY <1>0, <1>1, Zenon DEF PlaceInv, Again
<1>13. RoomInv'
  BY <1>0, <1>1, <1>4, <1>5 DEF RoomInv, Again
<1>14. StartInv'
  BY <1>1, Zenon DEF StartInv
<1>15. ScaleInv'
  BY <1>1, <1>2, <1>4 DEF ScaleInv
<1> QED
  BY <1>7, <1>8, <1>9, <1>10, <1>11, <1>12, <1>13, <1>14, <1>15, Zenon DEF LineInv

\* The robot takes a resistor off, and its pulse is heard now or when the pin is unmasked.
LEMMA TakeOffStep ==
    ASSUME Known, TakeOff
    PROVE  LineInv'
<1>0. /\ Numbers /\ CleanLine /\ CountdownSound /\ CountdownSound' /\ PanelInv /\ BootInv /\ CountInv
      /\ PartPin /\ BatchPin /\ PlaceInv /\ RoomInv /\ StartInv /\ ScaleInv
  BY NumberFacts, Zenon DEF Known, LineInv
<1>1. /\ held > 0 /\ held' = held - 1 /\ placed' = placed + 1 /\ pend' = pend \cup {INPUT_SIGNAL}
      /\ part' \in Nat /\ scale = scale' + part' /\ scale' \in Nat
      /\ UNCHANGED <<pc, reg, ctrl_flow, adc_measure_count, adc_sum, res_t, info_t, pulse_out, main_mq, ien, tpc, halted, fpc, clicks, acks>>
  BY DEF TakeOff, Edge, mainVars, queueVars, touchVars, serviceVars, Known, TypeOK, DataType
<1>2. /\ ~Queued(1) /\ ~Queued(9) /\ pc \in {"recv", "store1"}
      /\ pc = "recv" => INPUT_SIGNAL \notin Raised /\ INPUT_SIGNAL2 \notin Raised
      /\ pc = "store1" => INPUT_SIGNAL \notin pend /\ INPUT_SIGNAL2 \notin pend
  BY Zenon DEF TakeOff, Served, Signals
<1>3. ~Uncounted /\ ~Grabbed
  BY <1>2, Zenon DEF Uncounted, Grabbed, Raised
<1>4. ctrl_flow = 1
  BY <1>0, <1>1, <1>3 DEF CountInv, Numbers
<1>5. Queued(1)' = Queued(1) /\ Queued(9)' = Queued(9) /\ Queued(3)' = Queued(3)
  BY <1>1, Zenon DEF Queued
<1>6. Uncounted' /\ ~Grabbed'
  BY <1>0, <1>1, <1>2, <1>5 DEF Uncounted, Grabbed, PartPin, Raised, INPUT_SIGNAL, INPUT_SIGNAL2
<1>7. PanelInv'
  BY <1>0, <1>1, Zenon DEF PanelInv, Signals
<1>8. BootInv'
  BY <1>1, <1>2, Zenon DEF BootInv, Booting
<1>9. CountInv'
  <2>1. /\ held > 0 /\ held' = held - 1 /\ placed' = placed + 1
        /\ UNCHANGED <<pc, ctrl_flow, adc_measure_count, info_t, fpc>>
    BY <1>1, Zenon
  <2>2. Numbers /\ CountInv
    BY <1>0, Zenon
  <2> QED
    BY <1>2, <1>3, <1>6, <2>1, <2>2 DEF CountInv, One, Numbers
<1>10. PartPin'
  BY <1>0, <1>1, <1>2, <1>5, Zenon DEF PartPin, HandlingPart
<1>11. BatchPin'
  BY <1>0, <1>1, <1>5, <1>6 DEF BatchPin, INPUT_SIGNAL, INPUT_SIGNAL2
<1>12. PlaceInv'
  BY <1>0, <1>1, <1>4 DEF PlaceInv
<1>13. RoomInv'
  BY <1>0, <1>1, <1>5, <1>6, Zenon DEF RoomInv, Again
<1>14. StartInv'
  BY <1>0, <1>1 DEF StartInv
<1>15. ScaleInv'
  BY <1>0, <1>1, <1>2, <1>3, <1>4, <1>6 DEF ScaleInv
<1> QED
  BY <1>7, <1>8, <1>9, <1>10, <1>11, <1>12, <1>13, <1>14, <1>15, Zenon DEF LineInv

\* Contacts bounce while their pulse is handled: the pin of the resistors is masked
\* then, and that of the batches is masked or its pulse under way.
LEMMA NoiseStep ==
    ASSUME Known, Noise
    PROVE  LineInv'
<1>0. /\ Numbers /\ CleanLine /\ CountdownSound /\ CountdownSound' /\ PanelInv /\ BootInv /\ CountInv
      /\ PartPin /\ BatchPin /\ PlaceInv /\ RoomInv /\ StartInv /\ ScaleInv
  BY NumberFacts, Zenon DEF Known, LineInv
<1>1. /\ \/ (Queued(1) \/ pc \in {"measure", "delay"}) /\ pend' = pend \cup {INPUT_SIGNAL}
         \/ (Queued(9) \/ pc = "sum") /\ pend' = pend \cup {INPUT_SIGNAL2}
      /\ UNCHANGED <<pc, reg, ctrl_flow, adc_measure_count, adc_sum, res_t, info_t, pulse_out, main_mq, ien, tpc, halted, fpc, held, part, placed, scale, clicks, acks>>
  BY Zenon DEF Noise, Edge, mainVars, queueVars, touchVars, serviceVars, lineVars, Known, CleanLine
<1>2. Queued(1)' = Queued(1) /\ Queued(9)' = Queued(9) /\ Queued(3)' = Queued(3)
  BY <1>1, Zenon DEF Queued
<1>3. ~Booting
  BY <1>0, <1>1 DEF BootInv, Booting, Queued
<1>4. pc \in {"recv", "sum"} \/ HandlingPart
  BY <1>3, Zenon DEF Known, TypeOK, ControlType, Booting, HandlingPart
<1>5. Uncounted' = Uncounted
  BY <1>0, <1>1, <1>2 DEF Uncounted, PartPin, HandlingPart, Raised, INPUT_SIGNAL, INPUT_SIGNAL2
<1>6. Grabbed' = Grabbed
  BY <1>1, <1>2 DEF Grabbed, Raised, INPUT_SIGNAL, INPUT_SIGNAL2
<1>7. PanelInv'
  BY <1>0, <1>1, <1>2, <1>3, <1>4, <1>5, <1>6, Zenon DEF PanelInv, Signals, INPUT_SIGNAL, INPUT_SIGNAL2
<1>8. BootInv'
  BY <1>1, <1>3, Zenon DEF BootInv, Booting
<1>9. CountInv'
  BY <1>0, <1>1, <1>5, <1>6, Zenon DEF CountInv
<1>10. PartPin'
  BY <1>0, <1>1, <1>2 DEF PartPin, HandlingPart, INPUT_SIGNAL, INPUT_SIGNAL2
<1>11. BatchPin'
  BY <1>0, <1>1, <1>2, <1>5, <1>6 DEF BatchPin, INPUT_SIGNAL, INPUT_SIGNAL2
<1>12. PlaceInv'
  BY <1>0, <1>1, Zenon DEF PlaceInv, Again
<1>13. RoomInv'
  BY <1>0, <1>1, <1>2, <1>6, Zenon DEF RoomInv, Again
<1>14. StartInv'
  BY <1>0, <1>1, <1>2, Zenon DEF StartInv
<1>15. ScaleInv'
  BY <1>0, <1>1, <1>5, Zenon DEF ScaleInv
<1> QED
  BY <1>7, <1>8, <1>9, <1>10, <1>11, <1>12, <1>13, <1>14, <1>15, Zenon DEF LineInv

\* Installing the handlers and creating the queue.
LEMMA BootStep ==
    ASSUME Known, Main, InstallIsr \/ CreateQueues
    PROVE  LineInv'
<1>0. /\ Numbers /\ CleanLine /\ CountdownSound /\ CountdownSound' /\ PanelInv /\ BootInv /\ CountInv
      /\ PartPin /\ BatchPin /\ PlaceInv /\ RoomInv /\ StartInv /\ ScaleInv
  BY NumberFacts, Zenon DEF Known, LineInv
<1>1. /\ Booting /\ UNCHANGED <<reg, ctrl_flow, adc_measure_count, adc_sum, res_t, info_t, pulse_out, main_mq, tpc,
                              halted, fpc, held, part, placed, scale, clicks, acks>>
      /\ pend' \subseteq pend
      /\ \/ pc = "install1" /\ pc' = "install2" /\ ien' = ien \cup {INPUT_SIGNAL}
         \/ pc = "install2" /\ pc' = "create" /\ ien' = ien \cup {INPUT_SIGNAL2}
         \/ pc = "create" /\ pc' = "recv" /\ ien' = ien
  BY Zenon DEF Main, serviceVars, touchVars, MainThread, InstallIsr, CreateQueues, EnableLoad, EnableStore, Recv,
     Booting, queueVars
<1>2. main_mq = <<>> /\ pend' = {} /\ pend = {} /\ fpc = "start" /\ ctrl_flow = 0
  BY <1>0, <1>1, Zenon DEF BootInv
<1>3. Len(main_mq) = 0 /\ Len(main_mq') = 0
  BY <1>1, <1>2, Zenon
<1>4. ~Queued(1)' /\ ~Queued(9)' /\ ~Queued(3)' /\ ~Queued(1) /\ ~Queued(9)
  BY <1>3 DEF Queued
<1>5. ~Uncounted' /\ ~Grabbed' /\ ~Uncounted /\ ~Grabbed
  BY <1>1, <1>2, <1>4, Zenon DEF Uncounted, Grabbed, Raised
<1>6. PanelInv'
  BY <1>0, <1>1, Zenon DEF PanelInv
<1>7. BootInv'
  BY <1>0, <1>1, Zenon DEF BootInv, Signals
<1>8. CountInv'
  BY <1>0, <1>1, <1>5, Zenon DEF CountInv, One
<1>9. PartPin'
  BY <1>0, <1>1, <1>4, Zenon DEF PartPin, HandlingPart, BootInv, Signals
<1>10. BatchPin'
  BY <1>0, <1>1 DEF BatchPin, BootInv, Signals
<1>11. PlaceInv'
  BY <1>3 DEF PlaceInv
<1>12. RoomInv'
  BY <1>0, <1>1, <1>3 DEF RoomInv, Again, One, Posts, Numbers
<1>13. StartInv'
  BY <1>0, <1>1, <1>4, Zenon DEF StartInv
<1>14. ScaleInv'
  BY <1>1, <1>2 DEF ScaleInv
<1> QED
  BY <1>6, <1>7, <1>8, <1>9, <1>10, <1>11, <1>12, <1>13, <1>14, Zenon DEF LineInv
=============================================================================
