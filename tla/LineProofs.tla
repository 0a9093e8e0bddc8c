----------------------------- MODULE LineProofs -----------------------------
(***************************************************************************)
(* The controller and the robot stay in step, in the build that polls the  *)
(* touch panel and without stray edges: no pulse is lost or doubled, every *)
(* resistor is measured against its predecessor and counted once, and no   *)
(* signal finds main_mq full, for any batch size and any queue with three  *)
(* places more than there are clicks in a delay.                           *)
(***************************************************************************)
EXTENDS TeamReachProofs

\* A message that is no signal is taken: what is left still has room.
LEMMA ShorterQueue ==
    ASSUME Numbers, RoomInv, pc = "recv", clicks' = 0, acks' = 0, UNCHANGED <<pc, ctrl_flow>>,
           Len(main_mq') = Len(main_mq) - 1, Again' = Again, Again \in {0, 1},
           Queued(1)' <=> Queued(1), Queued(9)' <=> Queued(9), Grabbed' <=> Grabbed
    PROVE  RoomInv'
<1> DEFINE n == Len(main_mq')
           l == Len(main_mq)
<1>1. /\ ~Queued(9) => l <= Posts + One(Queued(1))
      /\ ctrl_flow = 0 /\ Queued(9) => l <= Posts + 1 + Again
      /\ ctrl_flow = 1 /\ Grabbed => l <= 2 + Again
  BY Zenon DEF RoomInv
<1>2. /\ l \in Nat /\ n = l - 1 /\ One(Queued(1)) \in {0, 1} /\ Posts \in Nat
      /\ 0 \in 0..MaxClicks /\ 0 \in 0..1
  BY DEF Numbers, One, Posts
<1>3. One(Queued(1)') = One(Queued(1))
  BY Zenon DEF One
<1> HIDE DEF n, l
<1>4. /\ ~Queued(9) => n <= Posts + One(Queued(1))
      /\ ctrl_flow = 0 /\ Queued(9) => n <= Posts + 1 + Again
      /\ ctrl_flow = 1 /\ Grabbed => n <= 2 + Again
  BY <1>1, <1>2
<1> USE DEF n
<1> QED
  BY <1>2, <1>3, <1>4, Zenon DEF RoomInv

\* The cases that only change records: the queue moves up by one.
LEMMA OtherStep ==
    ASSUME Known, Main, FillLog \/ SetCsq \/ SetDate \/ MoveThreshold \/ Published
    PROVE  LineInv'
<1>0. /\ Numbers /\ CleanLine /\ CountdownSound /\ CountdownSound' /\ PanelInv /\ BootInv /\ CountInv
      /\ PartPin /\ BatchPin /\ PlaceInv /\ RoomInv /\ StartInv /\ ScaleInv
  BY NumberFacts, Zenon DEF Known, LineInv
<1>1. \E op \in {2, 4, 5, 6, 7, 8} :
        /\ pc = "recv" /\ main_mq # <<>> /\ main_mq' = Tail(main_mq) /\ Head(main_mq).op = op
        /\ clicks' = 0 /\ acks' = 0 /\ info_t'.total = info_t.total
        /\ UNCHANGED <<pc, reg, ctrl_flow, adc_measure_count, adc_sum, pulse_out, ien, pend, tpc, halted, fpc,
                       held, part, placed, scale>>
  <2>1. /\ UNCHANGED <<pc, reg, ctrl_flow, adc_measure_count, adc_sum, pulse_out, ien, pend>>
        /\ info_t'.total = info_t.total
        /\ \E op \in {2, 4, 5, 6, 7, 8} : Recv(op)
    BY Zenon DEF FillLog, SetCsq, SetDate, MoveThreshold, Published, Records, Known, TypeOK, DataType
  <2> QED
    BY <2>1 DEF Main, serviceVars, touchVars, MainThread, Recv
<1>2. TakeGives /\ main_mq[1].op \in {2, 4, 5, 6, 7, 8} /\ pc = "recv"
  BY <1>1, TakeFacts, Zenon DEF Known, TypeOK, QueueType, TakeGives
<1>3. /\ clicks' = 0 /\ acks' = 0 /\ info_t'.total = info_t.total
      /\ UNCHANGED <<pc, reg, ctrl_flow, adc_measure_count, adc_sum, pulse_out, ien, pend, tpc, halted, fpc,
                     held, part, placed, scale>>
  BY <1>1, Zenon
<1>4. (Queued(1)' <=> Queued(1)) /\ (Queued(9)' <=> Queued(9)) /\ (Queued(3)' <=> Queued(3))
  BY <1>2 DEF TakeGives
<1>5. (Uncounted' <=> Uncounted) /\ (Grabbed' <=> Grabbed) /\ Again' = Again /\ Again \in {0, 1}
  BY <1>3, <1>4, Zenon DEF Uncounted, Grabbed, Raised, Again
<1>6. PanelInv'
  BY <1>0, <1>3, Zenon DEF PanelInv
<1>7. BootInv'
  BY <1>2, <1>3, Zenon DEF BootInv, Booting
<1>8. CountInv'
  BY <1>0, <1>3, <1>5, Zenon DEF CountInv, One
<1>9. PartPin'
  BY <1>0, <1>3, <1>4, Zenon DEF PartPin, HandlingPart
<1>10. BatchPin'
  BY <1>0, <1>3, <1>4, <1>5, Zenon DEF BatchPin
<1>11. PlaceInv'
  <2> SUFFICES ASSUME NEW i \in 1..Len(main_mq')
               PROVE  /\ main_mq'[i].op = 1 => i = Len(main_mq')
                      /\ main_mq'[i].op = 9 /\ ctrl_flow = 0 /\ pc # "sum" => i >= Len(main_mq') - Again
                      /\ main_mq'[i].op # 3
    BY <1>3, <1>5, Zenon DEF PlaceInv
  <2>1. main_mq'[i] = main_mq[i + 1] /\ i + 1 \in 1..Len(main_mq) /\ i + 1 # 1 /\ Len(main_mq') = Len(main_mq) - 1
    <3>1. main_mq'[i] = main_mq[i + 1] /\ i + 1 \in 1..Len(main_mq) /\ Len(main_mq') = Len(main_mq) - 1
      BY <1>2, Zenon DEF TakeGives
    <3> QED
      BY <3>1
  <2> QED
    BY <1>0, <1>5, <2>1 DEF PlaceInv
<1>12. RoomInv'
  <2>1. Len(main_mq') = Len(main_mq) - 1
    BY <1>2, Zenon DEF TakeGives
  <2> QED
    BY <1>0, <1>2, <1>3, <1>4, <1>5, <2>1, ShorterQueue, Zenon
<1>13. StartInv'
  BY <1>0, <1>3, <1>4, Zenon DEF StartInv
<1>14. ScaleInv'
  BY <1>0, <1>2, <1>3, <1>5, Zenon DEF ScaleInv
<1> QED
  BY <1>6, <1>7, <1>8, <1>9, <1>10, <1>11, <1>12, <1>13, <1>14, Zenon DEF LineInv

\* case 3: the log is restored before anything was counted.
LEMMA RestoreStep ==
    ASSUME Known, Main, Restore
    PROVE  LineInv'
<1>0. /\ Numbers /\ CleanLine /\ CountdownSound /\ CountdownSound' /\ PanelInv /\ BootInv /\ CountInv
      /\ PartPin /\ BatchPin /\ PlaceInv /\ RoomInv /\ StartInv /\ ScaleInv
  BY NumberFacts, Zenon DEF Known, LineInv
<1>1. /\ pc = "recv" /\ main_mq # <<>> /\ main_mq' = Tail(main_mq) /\ Head(main_mq).op = 3
      /\ clicks' = 0 /\ acks' = 0 /\ info_t'.total = Head(main_mq).val[1]
      /\ placed' = placed + Head(main_mq).val[1]
      /\ UNCHANGED <<pc, reg, ctrl_flow, adc_measure_count, adc_sum, pulse_out, ien, pend, tpc, halted, fpc,
                     held, part, scale>>
  BY DEF Restore, Records, Main, serviceVars, touchVars, MainThread, Recv
<1>2. TakeGives /\ main_mq[1].op = 3 /\ 1 \in 1..Len(main_mq)
  BY <1>1, TakeFacts DEF Known, TypeOK, QueueType
<1>3. Queued(3) /\ (Queued(1)' <=> Queued(1)) /\ (Queued(9)' <=> Queued(9))
  BY <1>2 DEF TakeGives
<1>4. main_mq[1].val \in Saved /\ ctrl_flow = 0 /\ placed = 0
  BY <1>0, <1>2, Zenon DEF PlaceInv
<1>5. /\ main_mq[1].val[1] \in Nat /\ main_mq[1].val[1] + MaxParts < UINT_MOD
      /\ info_t'.total = main_mq[1].val[1] /\ placed' = main_mq[1].val[1]
  <2>1. main_mq[1].val \in Seq(Nat) /\ Len(main_mq[1].val) = 5
    BY <1>4, ServiceConstants, Zenon
  <2>2. main_mq[1].val[1] \in Nat
    BY <2>1
  <2> QED
    BY <1>0, <1>1, <1>4, <2>2 DEF CleanLine
<1>6. (Uncounted' <=> Uncounted) /\ (Grabbed' <=> Grabbed) /\ Again' = Again /\ Again \in {0, 1}
  BY <1>1, <1>3, Zenon DEF Uncounted, Grabbed, Raised, Again
<1>7. ~Uncounted /\ fpc # "start"
  BY <1>0, <1>3, <1>4, Zenon DEF CountInv, StartInv
<1>8. PanelInv'
  BY <1>0, <1>1, Zenon DEF PanelInv
<1>9. BootInv'
  BY <1>1, Zenon DEF BootInv, Booting
<1>10. CountInv'
  <2> DEFINE v == main_mq[1].val[1]
  <2>1. One(Uncounted') = 0 /\ ~Uncounted' /\ held <= MaxParts /\ held = IF Grabbed THEN Batch ELSE 0
    BY <1>0, <1>4, <1>6, <1>7, Zenon DEF One, CountInv
  <2>2. /\ v \in Nat /\ held \in Nat /\ MaxParts \in Nat /\ UINT_MOD \in Nat
        /\ v + MaxParts < UINT_MOD
    BY <1>0, <1>5 DEF Numbers
  <2> HIDE DEF v
  <2>3. v + 0 = v /\ v + held < UINT_MOD /\ 0 # 1
    BY <2>1, <2>2
  <2> USE DEF v
  <2> QED
    BY <1>1, <1>4, <1>5, <1>6, <2>1, <2>3, Zenon DEF CountInv
<1>11. PartPin'
  BY <1>0, <1>1, <1>3, Zenon DEF PartPin, HandlingPart
<1>12. BatchPin'
  BY <1>0, <1>1, <1>3, <1>6, Zenon DEF BatchPin
<1>13. PlaceInv'
  <2> SUFFICES ASSUME NEW i \in 1..Len(main_mq')
               PROVE  /\ main_mq'[i].op = 1 => i = Len(main_mq')
                      /\ main_mq'[i].op = 9 /\ ctrl_flow = 0 /\ pc # "sum" => i >= Len(main_mq') - Again
                      /\ main_mq'[i].op # 3
    BY <1>1, <1>6, Zenon DEF PlaceInv
  <2>1. main_mq'[i] = main_mq[i + 1] /\ i + 1 \in 1..Len(main_mq) /\ i + 1 # 1 /\ Len(main_mq') = Len(main_mq) - 1
    BY <1>0, <1>2 DEF TakeGives
  <2> QED
    BY <1>0, <1>6, <2>1 DEF PlaceInv
<1>14. RoomInv'
  <2>1. Len(main_mq') = Len(main_mq) - 1
    BY <1>2, Zenon DEF TakeGives
  <2> QED
    BY <1>0, <1>1, <1>3, <1>6, <2>1, ShorterQueue, Zenon
<1>15. StartInv'
  BY <1>1, <1>7, Zenon DEF StartInv
<1>16. ScaleInv'
  BY <1>1, <1>4 DEF ScaleInv
<1> QED
  BY <1>8, <1>9, <1>10, <1>11, <1>12, <1>13, <1>14, <1>15, <1>16, Zenon DEF LineInv

\* case 1: the message is the last of the queue, and its resistor is measured.
LEMMA SingleGrabbedStep ==
    ASSUME Known, Main, SingleGrabbed
    PROVE  LineInv'
<1>0. /\ Numbers /\ CleanLine /\ CountdownSound /\ CountdownSound' /\ PanelInv /\ BootInv /\ CountInv
      /\ PartPin /\ BatchPin /\ PlaceInv /\ RoomInv /\ StartInv /\ ScaleInv
  BY NumberFacts, Zenon DEF Known, LineInv
<1>1. /\ pc = "recv" /\ pc' = (IF ctrl_flow = 1 THEN "measure" ELSE "recv") /\ clicks' = 0 /\ acks' = 0
      /\ main_mq # <<>> /\ main_mq' = Tail(main_mq) /\ Head(main_mq).op = 1
      /\ UNCHANGED <<reg, ctrl_flow, adc_measure_count, adc_sum, res_t, info_t, pulse_out, ien, pend, tpc, halted,
                     fpc, held, part, placed, scale>>
  <2>1. /\ pc = "recv" /\ pc' = (IF ctrl_flow = 1 THEN "measure" ELSE "recv") /\ clicks' = 0 /\ acks' = 0
        /\ main_mq # <<>> /\ main_mq' = Tail(main_mq) /\ Head(main_mq).op = 1
    BY DEF Main, MainThread, SingleGrabbed, Recv
  <2>2. UNCHANGED <<reg, ctrl_flow, adc_measure_count, adc_sum, res_t, info_t, pulse_out, ien, pend, tpc, halted,
                    fpc, held, part, placed, scale>>
    BY DEF Main, serviceVars, touchVars, MainThread, SingleGrabbed, Recv
  <2> QED
    BY <2>1, <2>2, Zenon
<1>2. TakeGives /\ main_mq[1].op = 1
  BY <1>1, TakeFacts DEF Known, TypeOK, QueueType
<1>3. Len(main_mq) = 1 /\ Len(main_mq') = 0
  BY <1>0, <1>2 DEF TakeGives, PlaceInv
<1>4. Queued(1) /\ ~Queued(1)' /\ ~Queued(9)' /\ ~Queued(3)'
  BY <1>2, <1>3 DEF Queued
<1>5. Uncounted /\ ctrl_flow = 1 /\ ~Grabbed
  BY <1>0, <1>4, Zenon DEF Uncounted, CountInv, BatchPin, Numbers
<1>6. Uncounted' /\ ~Grabbed'
  BY <1>1, <1>4, <1>5, Zenon DEF Uncounted, Grabbed, Raised
<1>7. PanelInv'
  BY <1>0, <1>1, Zenon DEF PanelInv
<1>8. BootInv'
  BY <1>1, Zenon DEF BootInv, Booting
<1>9. CountInv'
  BY <1>0, <1>1, <1>5, <1>6, Zenon DEF CountInv, One
<1>10. PartPin'
  BY <1>0, <1>1, <1>4, <1>5, Zenon DEF PartPin
<1>11. BatchPin'
  BY <1>1, <1>5, <1>6, Zenon DEF BatchPin
<1>12. PlaceInv'
  BY <1>3 DEF PlaceInv
<1>13. RoomInv'
  <2>1. pc' = "measure" /\ clicks' = 0 /\ acks' = 0 /\ Len(main_mq') = 0 /\ 0 \in 0..MaxClicks /\ 0 \in 0..1
    BY <1>0, <1>1, <1>3, <1>5 DEF Numbers
  <2> QED
    BY <2>1 DEF RoomInv
<1>14. StartInv'
  BY <1>0, <1>1, <1>5 DEF StartInv
<1>15. ScaleInv'
  BY <1>0, <1>1, <1>5, <1>6, Zenon DEF ScaleInv
<1> QED
  BY <1>7, <1>8, <1>9, <1>10, <1>11, <1>12, <1>13, <1>14, <1>15, Zenon DEF LineInv

\* case 9: a batch pulse opens a batch, or is the bounce of one that is open.
LEMMA AllGrabbedStep ==
    ASSUME Known, Main, AllGrabbed
    PROVE  LineInv'
<1>0. /\ Numbers /\ CleanLine /\ CountdownSound /\ CountdownSound' /\ PanelInv /\ BootInv /\ CountInv
      /\ PartPin /\ BatchPin /\ PlaceInv /\ RoomInv /\ StartInv /\ ScaleInv
  BY NumberFacts, Zenon DEF Known, LineInv
<1>1. /\ pc = "recv" /\ pc' = (IF ctrl_flow = 0 THEN "sum" ELSE "recv") /\ clicks' = 0 /\ acks' = 0
      /\ main_mq # <<>> /\ main_mq' = Tail(main_mq) /\ Head(main_mq).op = 9
      /\ UNCHANGED <<reg, ctrl_flow, adc_measure_count, adc_sum, res_t, info_t, pulse_out, ien, pend, tpc, halted,
                     fpc, held, part, placed, scale>>
  BY DEF Main, serviceVars, touchVars, MainThread, AllGrabbed, Recv
<1>2. TakeGives /\ main_mq[1].op = 9 /\ 1 \in 1..Len(main_mq)
  BY <1>1, TakeFacts DEF Known, TypeOK, QueueType
<1>3. Queued(9) /\ (Queued(1)' <=> Queued(1)) /\ (Queued(3)' <=> Queued(3))
  BY <1>2 DEF TakeGives
<1>4. ~Uncounted /\ Grabbed
  BY <1>0, <1>3, Zenon DEF Grabbed, CountInv, BatchPin, Numbers
<1>5. ~Queued(1) /\ INPUT_SIGNAL \in ien /\ INPUT_SIGNAL \notin pend
  BY <1>0, <1>1, <1>4, Zenon DEF Uncounted, PartPin, Raised
<1>6. ~Uncounted' /\ (ctrl_flow = 0 => Grabbed')
  BY <1>1, <1>3, <1>5, Zenon DEF Uncounted, Grabbed, Raised
<1>7. Len(main_mq) <= (IF ctrl_flow = 0 THEN 1 + Again ELSE 2 + Again) /\ Again \in {0, 1} /\ Again' = Again
  BY <1>0, <1>1, <1>4 DEF PlaceInv, RoomInv, Numbers, Again
<1>8. \A i \in 1..Len(main_mq') : main_mq'[i].op # 3 /\ main_mq'[i].op # 1
  <2> SUFFICES ASSUME NEW i \in 1..Len(main_mq') PROVE main_mq'[i].op # 3 /\ main_mq'[i].op # 1
    BY Zenon
  <2>1. main_mq'[i] = main_mq[i + 1] /\ i + 1 \in 1..Len(main_mq) /\ i + 1 # 1
    BY <1>2 DEF TakeGives
  <2>2. main_mq[i + 1].op # 3
    BY <1>0, <2>1, Zenon DEF PlaceInv
  <2>3. main_mq[i + 1].op # 1
    BY <1>5, <2>1, Zenon DEF Queued
  <2> QED
    BY <2>1, <2>2, <2>3, Zenon
<1>9. PanelInv'
  BY <1>0, <1>1, Zenon DEF PanelInv
<1>10. BootInv'
  BY <1>1, Zenon DEF BootInv, Booting
<1>11. CountInv'
  BY <1>0, <1>1, <1>4, <1>6, Zenon DEF CountInv, One
<1>12. PartPin'
  BY <1>1, <1>3, <1>5, Zenon DEF PartPin, HandlingPart
<1>13. BatchPin'
  BY <1>1, <1>6, Zenon DEF BatchPin
<1>14. PlaceInv'
  BY <1>1, <1>0 DEF PlaceInv
<1>15. RoomInv'
  BY <1>0, <1>1, <1>2, <1>7 DEF RoomInv, One, Posts, Numbers, CleanLine
<1>16. StartInv'
  BY <1>0, <1>1, <1>3, Zenon DEF StartInv
<1>17. ScaleInv'
  BY <1>0, <1>1, <1>4, <1>6, Zenon DEF ScaleInv
<1> QED
  BY <1>9, <1>10, <1>11, <1>12, <1>13, <1>14, <1>15, <1>16, <1>17, Zenon DEF LineInv

\* case 1: the reading is compared with the one before, and the resistor counted.
LEMMA MeasureStep ==
    ASSUME Known, Main, Measure
    PROVE  LineInv'
<1>0. /\ Numbers /\ CleanLine /\ CountdownSound /\ CountdownSound' /\ PanelInv /\ BootInv /\ CountInv
      /\ PartPin /\ BatchPin /\ PlaceInv /\ RoomInv /\ StartInv /\ ScaleInv
  BY NumberFacts, Zenon DEF Known, LineInv
<1>1. /\ pc = "measure" /\ pc' = "delay"
      /\ info_t'.total = (info_t.total + 1) % UINT_MOD
      /\ UNCHANGED <<reg, ctrl_flow, adc_measure_count, main_mq, ien, pend, tpc, halted, fpc, held, part, placed,
                     scale, clicks, acks>>
  BY Zenon DEF Main, serviceVars, touchVars, MainThread, Measure, Recv, Wrap, Known, TypeOK, DataType
<1>2. ~AdcFaults => adc_sum' = scale /\ res_t'.v_measure = set_v_measure(adc_sum, scale) /\ pulse_out' = res_t'.qualified
  BY DEF Measure, AdcRead
<1>3. Queued(1)' = Queued(1) /\ Queued(9)' = Queued(9) /\ Queued(3)' = Queued(3)
  BY <1>1, Zenon DEF Queued
<1>4. Uncounted /\ ctrl_flow = 1 /\ ~Grabbed
  BY <1>0, <1>1, Zenon DEF Uncounted, CountInv, BatchPin, Numbers
<1>5. ~Uncounted' /\ ~Grabbed'
  BY <1>0, <1>1, <1>3, <1>4, Zenon DEF Uncounted, Grabbed, PartPin, HandlingPart, Raised
<1>6. info_t'.total = info_t.total + 1
  BY <1>0, <1>1, <1>4 DEF CountInv, One, Numbers
<1>7. PanelInv'
  BY <1>0, <1>1, Zenon DEF PanelInv
<1>8. BootInv'
  BY <1>1, Zenon DEF BootInv, Booting
<1>9. CountInv'
  BY <1>0, <1>1, <1>4, <1>5, <1>6 DEF CountInv, One, Numbers
<1>10. PartPin'
  BY <1>0, <1>1, <1>3, Zenon DEF PartPin, HandlingPart
<1>11. BatchPin'
  BY <1>1, <1>5, Zenon DEF BatchPin
<1>12. PlaceInv'
  BY <1>0, <1>1, Zenon DEF PlaceInv, Again
<1>13. RoomInv'
  BY <1>0, <1>1, Zenon DEF RoomInv
<1>14. StartInv'
  BY <1>0, <1>1, <1>4 DEF StartInv
<1>15. ScaleInv'
  BY <1>0, <1>1, <1>2, <1>4, <1>5 DEF ScaleInv, Numbers, set_v_measure
<1> QED
  BY <1>7, <1>8, <1>9, <1>10, <1>11, <1>12, <1>13, <1>14, <1>15, Zenon DEF LineInv

\* case 1, after the last resistor: the pin of the batches is enabled again.
LEMMA UnmaskBatchStep ==
    ASSUME Known, Main, UnmaskBatch
    PROVE  LineInv'
<1>0. /\ Numbers /\ CleanLine /\ CountdownSound /\ CountdownSound' /\ PanelInv /\ BootInv /\ CountInv
      /\ PartPin /\ BatchPin /\ PlaceInv /\ RoomInv /\ StartInv /\ ScaleInv
  BY NumberFacts, Zenon DEF Known, LineInv
<1>1. /\ pc = "store2" /\ pc' = "load1" /\ ien' = reg \cup {INPUT_SIGNAL2}
      /\ UNCHANGED <<ctrl_flow, adc_measure_count, adc_sum, res_t, info_t, pulse_out, main_mq, pend, tpc, halted, fpc,
                     held, part, placed, scale, clicks, acks>>
  BY Zenon DEF Main, serviceVars, touchVars, MainThread, UnmaskBatch, EnableStore, Recv, queueVars
<1>2. Queued(1)' = Queued(1) /\ Queued(9)' = Queued(9) /\ Queued(3)' = Queued(3)
  BY <1>1, Zenon DEF Queued
<1>3. ctrl_flow = 0 /\ ~Queued(1) /\ ~Queued(9) /\ INPUT_SIGNAL \notin ien /\ INPUT_SIGNAL \notin reg /\ INPUT_SIGNAL2 \notin pend
  BY <1>0, <1>1, Zenon DEF PartPin, BatchPin, HandlingPart
<1>4. ~Uncounted /\ ~Grabbed
  BY <1>1, <1>3, Zenon DEF Uncounted, Grabbed, Raised
<1>5. ~Uncounted' /\ ~Grabbed'
  BY <1>1, <1>2, <1>3, Zenon DEF Uncounted, Grabbed, Raised
<1>6. \A i \in 1..Len(main_mq) : main_mq[i].op # 9
  BY <1>3, Zenon DEF Queued
<1>7. PanelInv'
  BY <1>0, <1>1, Zenon DEF PanelInv
<1>8. BootInv'
  BY <1>1, Zenon DEF BootInv, Booting
<1>9. CountInv'
  BY <1>0, <1>1, <1>4, <1>5, Zenon DEF CountInv, One
<1>10. PartPin'
  BY <1>1, <1>2, <1>3 DEF PartPin, INPUT_SIGNAL, INPUT_SIGNAL2
<1>11. BatchPin'
  BY <1>1, <1>2, <1>3 DEF BatchPin
<1>12. PlaceInv'
  BY <1>0, <1>1, <1>6, Zenon DEF PlaceInv
<1>13. RoomInv'
  BY <1>0, <1>1, Zenon DEF RoomInv
<1>14. StartInv'
  BY <1>0, <1>1, <1>2, Zenon DEF StartInv
<1>15. ScaleInv'
  BY <1>1, <1>3 DEF ScaleInv
<1> QED
  BY <1>7, <1>8, <1>9, <1>10, <1>11, <1>12, <1>13, <1>14, <1>15, Zenon DEF LineInv

\* ... then the latch of the other pin is cleared and the register loaded ...
LEMMA LoadPartStep ==
    ASSUME Known, Main, LoadPart
    PROVE  LineInv'
<1>0. /\ Numbers /\ CleanLine /\ CountdownSound /\ CountdownSound' /\ PanelInv /\ BootInv /\ CountInv
      /\ PartPin /\ BatchPin /\ PlaceInv /\ RoomInv /\ StartInv /\ ScaleInv
  BY NumberFacts, Zenon DEF Known, LineInv
<1>1. /\ pc = "load1" /\ pc' = "store1" /\ pend' = pend \ {INPUT_SIGNAL} /\ reg' = ien
      /\ UNCHANGED <<ctrl_flow, adc_measure_count, adc_sum, res_t, info_t, pulse_out, main_mq, ien, tpc, halted, fpc,
                     held, part, placed, scale, clicks, acks>>
  BY Zenon DEF Main, serviceVars, touchVars, MainThread, LoadPart, EnableLoad, Recv, queueVars
<1>2. Queued(1)' = Queued(1) /\ Queued(9)' = Queued(9) /\ Queued(3)' = Queued(3)
  BY <1>1, Zenon DEF Queued
<1>3. ctrl_flow = 0 /\ ~Queued(1) /\ ~Queued(9) /\ INPUT_SIGNAL \notin ien /\ INPUT_SIGNAL2 \notin pend /\ INPUT_SIGNAL2 \in ien
  BY <1>0, <1>1, Zenon DEF PartPin, BatchPin, HandlingPart
<1>4. ~Uncounted /\ ~Grabbed
  BY <1>1, <1>3, Zenon DEF Uncounted, Grabbed, Raised
<1>5. ~Uncounted' /\ ~Grabbed'
  BY <1>1, <1>2, <1>3, Zenon DEF Uncounted, Grabbed, Raised
<1>6. \A i \in 1..Len(main_mq) : main_mq[i].op # 9
  BY <1>3, Zenon DEF Queued
<1>7. PanelInv'
  BY <1>0, <1>1, Zenon DEF PanelInv
<1>8. BootInv'
  BY <1>1, Zenon DEF BootInv, Booting
<1>9. CountInv'
  BY <1>0, <1>1, <1>4, <1>5, Zenon DEF CountInv, One
<1>10. PartPin'
  BY <1>1, <1>2, <1>3, Zenon DEF PartPin
<1>11. BatchPin'
  BY <1>1, <1>2, <1>3 DEF BatchPin
<1>12. PlaceInv'
  BY <1>0, <1>1, <1>6, Zenon DEF PlaceInv
<1>13. RoomInv'
  BY <1>0, <1>1, <1>5 DEF RoomInv, Again, One, Posts, Numbers
<1>14. StartInv'
  BY <1>0, <1>1, <1>2, Zenon DEF StartInv
<1>15. ScaleInv'
  BY <1>1, <1>3 DEF ScaleInv
<1> QED
  BY <1>7, <1>8, <1>9, <1>10, <1>11, <1>12, <1>13, <1>14, <1>15, Zenon DEF LineInv

\* ... and stored: a pulse that came meanwhile is heard now.
LEMMA UnmaskPartStep ==
    ASSUME Known, Main, UnmaskPart
    PROVE  LineInv'
<1>0. /\ Numbers /\ CleanLine /\ CountdownSound /\ CountdownSound' /\ PanelInv /\ BootInv /\ CountInv
      /\ PartPin /\ BatchPin /\ PlaceInv /\ RoomInv /\ StartInv /\ ScaleInv
  BY NumberFacts, Zenon DEF Known, LineInv
<1>1. /\ pc = "store1" /\ pc' = "recv" /\ ien' = reg \cup {INPUT_SIGNAL}
      /\ UNCHANGED <<ctrl_flow, adc_measure_count, adc_sum, res_t, info_t, pulse_out, main_mq, pend, tpc, halted, fpc,
                     held, part, placed, scale, clicks, acks>>
  BY Zenon DEF Main, serviceVars, touchVars, MainThread, UnmaskPart, EnableStore, Recv, queueVars
<1>2. Queued(1)' = Queued(1) /\ Queued(9)' = Queued(9) /\ Queued(3)' = Queued(3)
  BY <1>1, Zenon DEF Queued
<1>3. ~Queued(1) /\ INPUT_SIGNAL \notin ien
  BY <1>0, <1>1, Zenon DEF PartPin, HandlingPart
<1>4. Uncounted' = Uncounted
  BY <1>1, <1>2, Zenon DEF Uncounted, Raised
<1>5. ctrl_flow = 0 => INPUT_SIGNAL2 \in reg /\ (INPUT_SIGNAL2 \in ien \/ Queued(9))
  BY <1>0, <1>1, Zenon DEF BatchPin
<1>6. ctrl_flow = 1 => reg = ien /\ ~Grabbed
  BY <1>0, <1>1, Zenon DEF BatchPin
<1>7. Grabbed' = Grabbed
  BY <1>0, <1>1, <1>2, <1>5, <1>6 DEF Grabbed, Numbers, Raised, INPUT_SIGNAL, INPUT_SIGNAL2
<1>8. ctrl_flow = 0 => Again' = Again
  BY <1>1, <1>5, Zenon DEF Again
<1>9. Again = 0
  BY <1>1, Zenon DEF Again
<1>10. PanelInv'
  BY <1>0, <1>1, Zenon DEF PanelInv
<1>11. BootInv'
  BY <1>1, Zenon DEF BootInv, Booting
<1>12. CountInv'
  BY <1>0, <1>1, <1>4, <1>7, Zenon DEF CountInv
<1>13. PartPin'
  BY <1>1, <1>2, <1>3, Zenon DEF PartPin, HandlingPart
<1>14. BatchPin'
  BY <1>1, <1>5, <1>6, <1>7, Zenon DEF BatchPin
<1>15. PlaceInv'
  BY <1>0, <1>1, <1>8, Zenon DEF PlaceInv
<1>16. RoomInv'
  BY <1>0, <1>1, <1>2, <1>6, <1>7, <1>8, Zenon DEF RoomInv
<1>17. StartInv'
  BY <1>0, <1>1, <1>2, Zenon DEF StartInv
<1>18. ScaleInv'
  BY <1>0, <1>1, <1>4, Zenon DEF ScaleInv
<1> QED
  BY <1>10, <1>11, <1>12, <1>13, <1>14, <1>15, <1>16, <1>17, <1>18, Zenon DEF LineInv

\* case 9: the countdown starts with the resistors the robot holds.
LEMMA OpenBatchStep ==
    ASSUME Known, Main, OpenBatch
    PROVE  LineInv'
<1>0. /\ Numbers /\ CleanLine /\ CountdownSound /\ CountdownSound' /\ PanelInv /\ BootInv /\ CountInv
      /\ PartPin /\ BatchPin /\ PlaceInv /\ RoomInv /\ StartInv /\ ScaleInv
  BY NumberFacts, Zenon DEF Known, LineInv
<1>1. /\ pc = "sum" /\ pc' = "recv" /\ adc_measure_count' = Batch /\ ctrl_flow' = 1
      /\ (~AdcFaults => adc_sum' = scale)
      /\ UNCHANGED <<reg, res_t, info_t, pulse_out, main_mq, ien, pend, tpc, halted, fpc,
                     held, part, placed, scale, clicks, acks>>
  BY Zenon DEF Main, serviceVars, touchVars, MainThread, OpenBatch, AdcRead, Recv, queueVars
<1>2. Queued(1)' = Queued(1) /\ Queued(9)' = Queued(9) /\ Queued(3)' = Queued(3)
  BY <1>1, Zenon DEF Queued
<1>3. ctrl_flow = 0 /\ Grabbed /\ ~Uncounted /\ held = Batch
  BY <1>0, <1>1, Zenon DEF CountdownSound, CountInv, Grabbed
<1>4. ~Queued(1) /\ INPUT_SIGNAL \notin pend /\ INPUT_SIGNAL \in ien
  BY <1>0, <1>1, Zenon DEF PartPin
<1>5. ~Uncounted'
  BY <1>1, <1>2, <1>4, Zenon DEF Uncounted, Raised
<1>6. Again' = Again /\ Again \in {0, 1} /\ fpc # "start"
  BY <1>0, <1>1, <1>3 DEF Again, StartInv, Numbers
<1>7. \A i \in 1..Len(main_mq) : main_mq[i].op # 3
  BY <1>0, <1>1, Zenon DEF PlaceInv
<1>8. PanelInv'
  BY <1>0, <1>1, Zenon DEF PanelInv
<1>9. BootInv'
  BY <1>1, Zenon DEF BootInv, Booting
<1>10. CountInv'
  BY <1>0, <1>1, <1>3, <1>5 DEF CountInv, One, Numbers
<1>11. PartPin'
  BY <1>1, <1>2, <1>4, Zenon DEF PartPin, HandlingPart
<1>12. BatchPin'
  BY <1>1, <1>5 DEF BatchPin
<1>13. PlaceInv'
  BY <1>0, <1>1, Zenon DEF PlaceInv
<1>14. RoomInv'
  BY <1>0, <1>1 DEF RoomInv, Again, One, Posts, Numbers, CleanLine
<1>15. StartInv'
  BY <1>1, <1>6, Zenon DEF StartInv
<1>16. ScaleInv'
  BY <1>0, <1>1, <1>5 DEF ScaleInv, Numbers
<1> QED
  BY <1>8, <1>9, <1>10, <1>11, <1>12, <1>13, <1>14, <1>15, <1>16, Zenon DEF LineInv

\* case 1, after the delay: the countdown follows the robot.
LEMMA DelayOverStep ==
    ASSUME Known, DelayOver
    PROVE  LineInv'
<1>0. /\ Numbers /\ CleanLine /\ CountdownSound /\ CountdownSound' /\ PanelInv /\ BootInv /\ CountInv
      /\ PartPin /\ BatchPin /\ PlaceInv /\ RoomInv /\ StartInv /\ ScaleInv
  BY NumberFacts, Zenon DEF Known, LineInv
<1>1. /\ pc = "delay" /\ adc_measure_count' = (adc_measure_count - 1) % 256 /\ reg' = ien
      /\ \/ /\ adc_measure_count' = 0 /\ ctrl_flow' = 0 /\ pend' = pend \ {INPUT_SIGNAL2} /\ pc' = "store2"
         \/ /\ adc_measure_count' # 0 /\ ctrl_flow' = ctrl_flow /\ pend' = pend \ {INPUT_SIGNAL} /\ pc' = "store1"
      /\ UNCHANGED <<adc_sum, res_t, info_t, main_mq, ien, tpc, halted, fpc, held, part, placed, scale, clicks, acks>>
  BY Zenon DEF DelayOver, EndPulse, EnableLoad, queueVars, touchVars, serviceVars, lineVars
<1>2. Queued(1)' = Queued(1) /\ Queued(9)' = Queued(9) /\ Queued(3)' = Queued(3)
  BY <1>1, Zenon DEF Queued
<1>3. ctrl_flow = 1 /\ adc_measure_count \in 1..Batch
  BY <1>0, <1>1 DEF CountdownSound
<1>4. adc_measure_count' = adc_measure_count - 1
  BY <1>0, <1>1, <1>3 DEF Numbers
<1>5. ~Grabbed /\ INPUT_SIGNAL \notin ien /\ ~Queued(1) /\ ~Queued(9) /\ INPUT_SIGNAL2 \notin Raised
  BY <1>0, <1>1, <1>3, Zenon DEF BatchPin, PartPin, HandlingPart, Grabbed
<1>6. ~Uncounted /\ ~Uncounted' /\ ~Grabbed'
  BY <1>1, <1>2, <1>5, Zenon DEF Uncounted, Grabbed, Raised
<1>7. \A i \in 1..Len(main_mq) : main_mq[i].op # 9 /\ main_mq[i].op # 3
  BY <1>0, <1>1, <1>5, Zenon DEF Queued, PlaceInv
<1>8. PanelInv'
  BY <1>0, <1>1, <1>2, <1>3, <1>4, <1>5, <1>6, <1>7, Zenon DEF PanelInv, Signals, INPUT_SIGNAL, INPUT_SIGNAL2
<1>9. BootInv'
  BY <1>1, Zenon DEF BootInv, Booting
<1>10. CountInv'
  BY <1>0, <1>1, <1>5, <1>6 DEF CountInv, One, Numbers
<1>11. PartPin'
  BY <1>1, <1>2, <1>5, Zenon DEF PartPin
<1>12. BatchPin'
  BY <1>1, <1>2, <1>3, <1>5, <1>6 DEF BatchPin
<1>13. PlaceInv'
  BY <1>0, <1>1, <1>7, Zenon DEF PlaceInv
<1>14. RoomInv'
  BY <1>0, <1>1, <1>6 DEF RoomInv, Again, One, Posts, Numbers
<1>15. StartInv'
  BY <1>0, <1>1, <1>3 DEF StartInv
<1>16. ScaleInv'
  BY <1>0, <1>1, <1>6 DEF ScaleInv
<1> QED
  BY <1>8, <1>9, <1>10, <1>11, <1>12, <1>13, <1>14, <1>15, <1>16, Zenon DEF LineInv

\* input_interrupt_isr: the message finds room and is the last of the queue.
LEMMA PartIsrStep ==
    ASSUME Known, input_interrupt_isr, UNCHANGED <<scale, touchVars, lcd, serviceVars, lineVars, clicks, acks>>
    PROVE  LineInv'
<1>0. /\ Numbers /\ CleanLine /\ CountdownSound /\ CountdownSound' /\ PanelInv /\ BootInv /\ CountInv
      /\ PartPin /\ BatchPin /\ PlaceInv /\ RoomInv /\ StartInv /\ ScaleInv
  BY NumberFacts, Zenon DEF Known, LineInv
<1>1. INPUT_SIGNAL \in Raised /\ INPUT_SIGNAL \in ien /\ INPUT_SIGNAL \in pend
  BY Zenon DEF input_interrupt_isr, Isr, Raised
<1>2. ~Booting
  BY <1>0, <1>1, Zenon DEF BootInv
<1>3. pc = "recv" /\ ~Queued(1)
  BY <1>0, <1>1, <1>2, Zenon DEF PartPin, HandlingPart, Known, TypeOK, ControlType, Booting
<1>4. /\ ien' = ien \ {INPUT_SIGNAL} /\ pend' = pend \ {INPUT_SIGNAL}
      /\ main_mq' = rt_mq_send(main_mq, MainMax, Msg(1, <<>>))
      /\ UNCHANGED <<pc, reg, ctrl_flow, adc_measure_count, adc_sum, res_t, info_t, pulse_out, tpc, halted, fpc,
                     held, part, placed, scale, clicks, acks>>
  BY <1>2, Zenon DEF input_interrupt_isr, Isr, IsrDisable, DisableStore, mainVars, touchVars, serviceVars, lineVars
<1>5. Uncounted /\ ctrl_flow = 1 /\ ~Grabbed /\ ~Queued(9)
  BY <1>0, <1>1, Zenon DEF Uncounted, CountInv, BatchPin, Numbers, Grabbed
<1>6. Len(main_mq) <= Posts /\ Len(main_mq) < MainMax
  BY <1>0, <1>3, <1>5 DEF RoomInv, One, Posts, CleanLine, Numbers
<1>7. PostGives(Msg(1, <<>>)) /\ Msg(1, <<>>).op = 1
  <2>1. Msg(1, <<>>) \in MainMessages /\ Msg(1, <<>>).op = 1
    BY MessageTypes, Zenon
  <2> QED
    BY <1>4, <1>6, <2>1, PostFacts, Zenon DEF Known, TypeOK, QueueType
<1>8. Queued(1)' /\ ~Queued(9)' /\ (Queued(3)' <=> Queued(3))
  BY <1>5, <1>7 DEF PostGives
<1>9. Uncounted' /\ ~Grabbed'
  BY <1>4, <1>5, <1>8, Zenon DEF Uncounted, Grabbed, Raised
<1>10. PanelInv'
  BY <1>0, <1>4, Zenon DEF PanelInv
<1>11. BootInv'
  BY <1>3, <1>4, Zenon DEF BootInv, Booting
<1>12. CountInv'
  BY <1>0, <1>4, <1>5, <1>9, Zenon DEF CountInv, One
<1>13. PartPin'
  BY <1>3, <1>4, <1>8, Zenon DEF PartPin, HandlingPart
<1>14. BatchPin'
  BY <1>3, <1>4, <1>5, <1>9 DEF BatchPin
<1>15. PlaceInv'
  <2> SUFFICES ASSUME NEW i \in 1..Len(main_mq')
               PROVE  (main_mq'[i].op = 1 => i = Len(main_mq')) /\ main_mq'[i].op # 3
    BY <1>4, <1>5, Zenon DEF PlaceInv
  <2>1. CASE i = Len(main_mq) + 1
    BY <1>7, <2>1 DEF PostGives
  <2>2. CASE i # Len(main_mq) + 1
    <3>1. i \in 1..Len(main_mq) /\ main_mq'[i] = main_mq[i]
      BY <1>7, <2>2 DEF PostGives
    <3> QED
      BY <1>0, <1>3, <1>5, <3>1, Zenon DEF PlaceInv, Queued
  <2> QED
    BY <2>1, <2>2, Zenon
<1>16. RoomInv'
  <2>1. Len(main_mq') = Len(main_mq) + 1
    BY <1>7, Zenon DEF PostGives
  <2> QED
    BY <1>0, <1>3, <1>4, <1>6, <1>8, <1>9, <2>1 DEF RoomInv, One, Posts, Numbers
<1>17. StartInv'
  BY <1>0, <1>4, <1>8, Zenon DEF StartInv
<1>18. ScaleInv'
  BY <1>0, <1>4, <1>5, <1>9, Zenon DEF ScaleInv
<1> QED
  BY <1>10, <1>11, <1>12, <1>13, <1>14, <1>15, <1>16, <1>17, <1>18, Zenon DEF LineInv

\* input_interrupt_isr2: there is room for a batch pulse and for one bounce of it.
LEMMA BatchIsrStep ==
    ASSUME Known, input_interrupt_isr2, UNCHANGED <<scale, touchVars, lcd, serviceVars, lineVars, clicks, acks>>
    PROVE  LineInv'
<1>0. /\ Numbers /\ CleanLine /\ CountdownSound /\ CountdownSound' /\ PanelInv /\ BootInv /\ CountInv
      /\ PartPin /\ BatchPin /\ PlaceInv /\ RoomInv /\ StartInv /\ ScaleInv
  BY NumberFacts, Zenon DEF Known, LineInv
<1>1. INPUT_SIGNAL2 \in Raised /\ INPUT_SIGNAL2 \in ien /\ INPUT_SIGNAL2 \in pend
  BY Zenon DEF input_interrupt_isr2, Isr, Raised
<1>2. ~Booting /\ Grabbed
  BY <1>0, <1>1, Zenon DEF BootInv, Grabbed
<1>3. /\ pc \in {"recv", "store1", "sum"} /\ (ctrl_flow = 1 => pc = "recv" /\ ~Uncounted)
      /\ (pc = "store1" => ~Queued(9)) /\ ~Uncounted /\ ~Queued(1)
  <2>1. pc \notin {"store2", "load1"} /\ (pc = "store1" => ~Queued(9))
    BY <1>0, <1>1, Zenon DEF BatchPin
  <2>2. ~Uncounted /\ (ctrl_flow = 1 => pc \notin {"delay", "store1"})
    BY <1>0, <1>2, Zenon DEF BatchPin, CountInv, Numbers
  <2>3. ~Queued(1) /\ pc # "measure"
    BY <2>2, Zenon DEF Uncounted
  <2>4. (pc = "sum" => ctrl_flow = 0) /\ (pc = "delay" => ctrl_flow = 1)
    BY <1>0, Zenon DEF CountdownSound
  <2> QED
    BY <1>2, <2>1, <2>2, <2>3, <2>4 DEF Known, TypeOK, ControlType, Booting
<1>4. /\ ien' = ien \ {INPUT_SIGNAL2} /\ pend' = pend \ {INPUT_SIGNAL2}
      /\ main_mq' = rt_mq_send(main_mq, MainMax, Msg(9, <<>>))
      /\ UNCHANGED <<pc, reg, ctrl_flow, adc_measure_count, adc_sum, res_t, info_t, pulse_out, tpc, halted, fpc,
                     held, part, placed, scale, clicks, acks>>
  BY <1>2, Zenon DEF input_interrupt_isr2, Isr, IsrDisable, DisableStore, mainVars, touchVars, serviceVars, lineVars
<1>5. Again = 0 /\ Again' = IF pc = "store1" THEN 0 ELSE 1
  BY <1>1, <1>4, Zenon DEF Again
<1>6. /\ pc = "sum" => Len(main_mq) <= clicks + acks
      /\ pc # "sum" /\ ctrl_flow = 0 => Len(main_mq) <= Posts + One(Queued(9))
      /\ ctrl_flow = 1 => Len(main_mq) <= 2
  BY <1>0, <1>2, <1>3, <1>5 DEF RoomInv, One, Posts, Numbers
<1>7. Len(main_mq) < MainMax
  BY <1>0, <1>6 DEF RoomInv, One, Posts, CleanLine, Numbers
<1>8. PostGives(Msg(9, <<>>)) /\ Msg(9, <<>>).op = 9
  <2>1. Msg(9, <<>>) \in MainMessages /\ Msg(9, <<>>).op = 9
    BY MessageTypes, Zenon
  <2> QED
    BY <1>4, <1>7, <2>1, PostFacts, Zenon DEF Known, TypeOK, QueueType
<1>9. ~Queued(1)' /\ Queued(9)' /\ (Queued(3)' <=> Queued(3)) /\ Len(main_mq') = Len(main_mq) + 1
  BY <1>3, <1>8 DEF PostGives
<1>10. ~Uncounted' /\ Grabbed'
  BY <1>3, <1>4, <1>9, Zenon DEF Uncounted, Grabbed, Raised
<1>11. PanelInv'
  BY <1>0, <1>4, Zenon DEF PanelInv
<1>12. BootInv'
  BY <1>3, <1>4, Zenon DEF BootInv, Booting
<1>13. CountInv'
  BY <1>0, <1>2, <1>3, <1>4, <1>10, Zenon DEF CountInv, One
<1>14. PartPin'
  BY <1>0, <1>3, <1>4, <1>9 DEF PartPin, HandlingPart, INPUT_SIGNAL, INPUT_SIGNAL2
<1>15. BatchPin'
  BY <1>0, <1>3, <1>4, <1>9, <1>10, Zenon DEF BatchPin
<1>16. PlaceInv'
  <2> SUFFICES ASSUME NEW i \in 1..Len(main_mq')
               PROVE  /\ main_mq'[i].op # 1
                      /\ main_mq'[i].op = 9 /\ ctrl_flow = 0 /\ pc # "sum" => i >= Len(main_mq') - Again'
                      /\ main_mq'[i].op = 3 => /\ i = 1 /\ pc = "recv" /\ ctrl_flow = 0 /\ placed = 0
                                               /\ main_mq'[i].val \in Saved
    BY <1>4, Zenon DEF PlaceInv
  <2>1. CASE i = Len(main_mq) + 1
    BY <1>5, <1>8, <2>1 DEF PostGives
  <2>2. CASE i # Len(main_mq) + 1
    <3>1. i \in 1..Len(main_mq) /\ main_mq'[i] = main_mq[i]
      BY <1>8, <2>2 DEF PostGives
    <3>2. main_mq[i].op # 1 /\ (pc = "store1" => main_mq[i].op # 9)
      BY <1>3, <3>1, Zenon DEF Queued
    <3> QED
      BY <1>0, <1>5, <1>9, <3>1, <3>2 DEF PlaceInv
  <2> QED
    BY <2>1, <2>2, Zenon
<1>17. RoomInv'
  BY <1>0, <1>3, <1>4, <1>5, <1>6, <1>9 DEF RoomInv, One, Posts, Numbers
<1>18. StartInv'
  BY <1>0, <1>4, <1>9, Zenon DEF StartInv
<1>19. ScaleInv'
  BY <1>0, <1>3, <1>4, <1>10, Zenon DEF ScaleInv
<1> QED
  BY <1>11, <1>12, <1>13, <1>14, <1>15, <1>16, <1>17, <1>18, <1>19, Zenon DEF LineInv

\* A post by a thread that runs while the main thread is blocked: the queue has
\* room, and the message, no signal, disturbs nothing.
Post(m) == main_mq' = main_mq \/ (main_mq' = rt_mq_send(main_mq, MainMax, m) /\ m \in MainMessages /\ m.op \notin {1, 9})

\* How such a step changes the counters of the delay and the file thread.
Paced(m) ==
    /\ m.op = 3 => m.val \in Saved /\ fpc = "start" /\ fpc' # "start"
    /\ fpc' = fpc \/ fpc' # "start"
    /\ \/ pc = "recv" /\ clicks' \in {0, clicks} /\ acks' \in {0, acks}
       \/ pc # "recv" /\ clicks' = clicks + 1 /\ acks' = acks /\ (pc = "delay" \/ clicks < 1) /\ clicks < MaxClicks
       \/ pc # "recv" /\ clicks' = clicks /\ acks' = acks + 1 /\ acks < 1

LEMMA PostStep ==
    ASSUME Known, NEW m, Post(m), MainBlocked, Paced(m),
           UNCHANGED <<pc, reg, ctrl_flow, adc_measure_count, adc_sum, res_t, info_t, pulse_out, ien, pend, tpc, halted,
                       held, part, placed, scale>>
    PROVE  LineInv'
<1>0. /\ Numbers /\ CleanLine /\ CountdownSound /\ PanelInv /\ BootInv /\ CountInv
      /\ PartPin /\ BatchPin /\ PlaceInv /\ RoomInv /\ StartInv /\ ScaleInv
  BY NumberFacts, Zenon DEF Known, LineInv
<1>1. pc \in {"measure", "delay", "sum"} \/ (pc = "recv" /\ Len(main_mq) = 0)
  <2>1. main_mq = <<>> => Len(main_mq) = 0
    OBVIOUS
  <2> QED
    BY DEF MainBlocked
<1>2. Len(main_mq) <= clicks + acks + 1 /\ Len(main_mq) < MainMax /\ clicks \in Nat /\ acks \in Nat
  BY <1>0, <1>1 DEF RoomInv, Again, CleanLine, Numbers
<1>3. \/ main_mq' = main_mq
      \/ PostGives(m) /\ m \in MainMessages /\ m.op \notin {1, 9}
  BY <1>2, PostFacts, Zenon DEF Post, Known, TypeOK, QueueType
<1>4. /\ (Queued(1)' <=> Queued(1)) /\ (Queued(9)' <=> Queued(9))
      /\ Len(main_mq') = Len(main_mq) \/ Len(main_mq') = Len(main_mq) + 1
      /\ fpc' = "start" => (Queued(3)' <=> Queued(3))
  <2>1. CASE main_mq' = main_mq
    BY <2>1, Zenon DEF Queued
  <2>2. CASE PostGives(m) /\ m.op \notin {1, 9}
    BY <2>2 DEF PostGives, Paced
  <2> QED
    BY <1>3, <2>1, <2>2, Zenon
<1>5. (Uncounted' <=> Uncounted) /\ (Grabbed' <=> Grabbed) /\ Again' = Again /\ Again \in {0, 1}
  BY <1>4, Zenon DEF Uncounted, Grabbed, Raised, Again
<1>6. fpc = "start" => pc = "recv" /\ ctrl_flow = 0 /\ placed = 0
  BY <1>0, <1>1 DEF StartInv, CountInv, Grabbed, Numbers, CountdownSound
<1>7. ~Queued(1)
  BY <1>0, <1>1 DEF PartPin, HandlingPart, Queued
<1>8. PlaceInv'
  <2>1. CASE main_mq' = main_mq
    BY <1>0, <1>5, <2>1, Zenon DEF PlaceInv
  <2>2. CASE PostGives(m) /\ m \in MainMessages /\ m.op \notin {1, 9}
    <3> SUFFICES ASSUME NEW i \in 1..Len(main_mq')
                 PROVE  /\ main_mq'[i].op # 1
                        /\ main_mq'[i].op = 9 => ctrl_flow = 1 \/ pc = "sum"
                        /\ main_mq'[i].op = 3 => /\ i = 1 /\ pc = "recv" /\ ctrl_flow = 0 /\ placed = 0
                                                 /\ main_mq'[i].val \in Saved
      BY Zenon DEF PlaceInv
    <3>1. CASE i = Len(main_mq) + 1
      <4>1. main_mq'[i] = m
        BY <2>2, <3>1, Zenon DEF PostGives
      <4>2. m.op = 3 => i = 1 /\ pc = "recv" /\ ctrl_flow = 0 /\ placed = 0
        BY <1>1, <1>6, <3>1 DEF Paced
      <4> QED
        BY <2>2, <4>1, <4>2, Zenon DEF Paced
    <3>2. CASE i # Len(main_mq) + 1
      <4>1. i \in 1..Len(main_mq) /\ main_mq'[i] = main_mq[i]
        BY <2>2, <3>2 DEF PostGives
      <4>2. main_mq[i].op # 1
        BY <1>7, <4>1, Zenon DEF Queued
      <4>3. ctrl_flow = 1 \/ pc = "sum"
        BY <1>0, <1>1, <4>1 DEF CountdownSound
      <4> QED
        BY <1>0, <4>1, <4>2, <4>3, Zenon DEF PlaceInv
    <3> QED
      BY <3>1, <3>2, Zenon
  <2> QED
    BY <1>3, <2>1, <2>2, Zenon
<1>9. RoomInv'
  <2>1. clicks' \in 0..MaxClicks /\ acks' \in 0..1
    BY <1>0 DEF Paced, RoomInv, Numbers
  <2>2. CASE pc = "recv"
    <3> DEFINE n == Len(main_mq')
    <3>1. n \in 0..1
      <4>1. Len(main_mq) = 0
        BY <1>1, <2>2, Zenon
      <4>2. n = 0 \/ n = 1
        BY <1>4, <4>1
      <4> QED
        BY <4>2
    <3>2. RoomInv' <=>
            /\ clicks' \in 0..MaxClicks /\ acks' \in 0..1
            /\ ~Queued(9)' => n <= Posts + One(Queued(1)')
            /\ ctrl_flow = 0 /\ Queued(9)' => n <= Posts + 1 + Again'
            /\ ctrl_flow = 1 /\ Grabbed' => n <= 2 + Again'
      BY <2>2, Zenon DEF RoomInv
    <3> HIDE DEF n
    <3> QED
      BY <1>0, <1>5, <2>1, <3>1, <3>2 DEF One, Posts, Numbers
  <2>3. CASE pc # "recv"
    <3> DEFINE n == Len(main_mq')
               l == Len(main_mq)
    <3>1. /\ (clicks' = clicks + 1 /\ acks' = acks) \/ (clicks' = clicks /\ acks' = acks + 1)
          /\ pc = "sum" => clicks' <= 1
      BY <1>0, <2>3 DEF Paced, RoomInv
    <3>2. n <= l + 1 /\ n \in Nat /\ l \in Nat
      BY <1>4
    <3>3. /\ pc \in {"measure", "delay"} => l <= clicks + acks
          /\ pc = "sum" => l <= clicks + acks + Again
      BY <1>0, Zenon DEF RoomInv
    <3>4. pc \notin {"store2", "load1", "store1", "recv"} /\ pc' = pc
      BY <1>1, <2>3, Zenon
    <3>5. /\ pc \in {"measure", "delay"} => n <= clicks' + acks'
          /\ pc = "sum" => clicks' <= 1 /\ n <= clicks' + acks' + Again'
      <4>1. clicks' \in Nat /\ acks' \in Nat /\ clicks \in Nat /\ acks \in Nat /\ Again \in 0..1 /\ Again' = Again
        BY <1>2, <1>5, <2>1
      <4> HIDE DEF n, l
      <4>2. CASE clicks' = clicks + 1 /\ acks' = acks
        <5>1. ASSUME l <= clicks + acks PROVE n <= clicks' + acks'
          BY <3>2, <4>1, <4>2, <5>1
        <5>2. ASSUME l <= clicks + acks + Again PROVE n <= clicks' + acks' + Again'
          BY <3>2, <4>1, <4>2, <5>2
        <5> QED
          BY <3>1, <3>3, <5>1, <5>2, Zenon
      <4>3. CASE clicks' = clicks /\ acks' = acks + 1
        <5>1. ASSUME l <= clicks + acks PROVE n <= clicks' + acks'
          BY <3>2, <4>1, <4>3, <5>1
        <5>2. ASSUME l <= clicks + acks + Again PROVE n <= clicks' + acks' + Again'
          BY <3>2, <4>1, <4>3, <5>2
        <5> QED
          BY <3>1, <3>3, <5>1, <5>2, Zenon
      <4> QED
        BY <3>1, <4>2, <4>3, Zenon
    <3> QED
      BY <2>1, <3>4, <3>5, Zenon DEF RoomInv
  <2> QED
    BY <2>2, <2>3, Zenon
<1>10. PanelInv' /\ BootInv'
  BY <1>0, <1>1, Zenon DEF PanelInv, BootInv, Booting
<1>11. CountInv' /\ PartPin' /\ ScaleInv'
  BY <1>0, <1>4, <1>5, Zenon DEF CountInv, One, PartPin, HandlingPart, ScaleInv
<1>12. BatchPin'
  BY <1>0, <1>4, <1>5, Zenon DEF BatchPin
<1>13. StartInv'
  BY <1>0, <1>4, Zenon DEF StartInv, Paced
<1> QED
  BY <1>8, <1>9, <1>10, <1>11, <1>12, <1>13, Zenon DEF LineInv

\* What the invariant speaks of, but for the touch thread and the queue.
lineState == <<pc, reg, ctrl_flow, adc_measure_count, adc_sum, res_t, info_t, pulse_out, ien, pend, halted,
               held, part, placed, scale>>

LEMMA ClickStep ==
    ASSUME Known, Click
    PROVE  LineInv'
<1> DEFINE h == Head(touch_mq)
           m == Msg(IF h = 0 THEN 6 ELSE h, <<>>)
<1>1. h \in {0, 6, 7}
  <2>1. touch_mq \in Seq({0, 6, 7}) /\ touch_mq # <<>>
    BY Zenon DEF Known, TypeOK, QueueType, Click, simple_gui_task
  <2> QED
    BY <2>1
<1>2. m \in MainMessages /\ m.op \in {6, 7}
  BY <1>1, MessageTypes, Zenon
<1>3. Post(m)
  <2>1. main_mq' = IF h = 0 THEN main_mq ELSE rt_mq_send(main_mq, MainMax, Msg(h, <<>>))
    BY Zenon DEF Click, simple_gui_task
  <2> HIDE DEF h
  <2> QED
    BY <1>2, <2>1 DEF Post
<1>4. MainBlocked /\ UNCHANGED <<lineState, tpc, fpc, acks>>
  BY Zenon DEF Click, Runs, simple_gui_task, mainVars, serviceVars, lineVars, lineState
<1>5. clicks \in Nat /\ MaxClicks \in Nat /\ MaxClicks >= 2
  BY NumberFacts DEF Known, LineInv, RoomInv, Numbers, CleanLine
<1>6. \/ pc = "recv" /\ clicks' = 0
      \/ pc # "recv" /\ clicks' = clicks + 1 /\ (pc = "delay" \/ clicks < 1) /\ clicks < MaxClicks
  BY <1>5 DEF Click, Room
<1>7. Paced(m)
  <2> HIDE DEF m
  <2> QED
    BY <1>2, <1>4, <1>6 DEF Paced
<1> HIDE DEF m
<1> QED
  BY <1>3, <1>4, <1>7, PostStep, Zenon DEF lineState

LEMMA ServiceStep ==
    ASSUME Known, Service
    PROVE  LineInv'
<1>1. \E m \in MainMessages :
        /\ main_mq' = main_mq \/ main_mq' = rt_mq_send(main_mq, MainMax, m)
        /\ m.op \in {2, 3, 4, 5, 8}
        /\ m.op = 3 => m.val \in Saved /\ fpc = "start" /\ fpc' # "start"
        /\ fpc' = fpc \/ fpc' # "start"
  <2> DEFINE P(m) == /\ main_mq' = main_mq \/ main_mq' = rt_mq_send(main_mq, MainMax, m)
                     /\ m.op \in {2, 3, 4, 5, 8}
                     /\ m.op = 3 => m.val \in Saved /\ fpc = "start" /\ fpc' # "start"
                     /\ fpc' = fpc \/ fpc' # "start"
  <2>1. Msg(2, <<>>) \in MainMessages /\ Msg(2, <<>>).op = 2 /\ Msg(8, <<>>) \in MainMessages /\ Msg(8, <<>>).op = 8
    BY MessageTypes, Zenon
  <2>2. CASE nb_get_csq
    <3>1. CASE main_mq' = main_mq
      <4>1. P(Msg(2, <<>>))
        BY <2>1, <2>2, <3>1 DEF nb_get_csq
      <4> QED
        BY <2>1, <4>1, Zenon
    <3>2. ASSUME NEW c \in Csqs, main_mq' = rt_mq_send(main_mq, MainMax, Msg(4, c)) PROVE P(Msg(4, c)) /\ Msg(4, c) \in MainMessages
      BY <2>2, <3>2, MessageTypes DEF nb_get_csq
    <3> QED
      BY <2>2, <3>1, <3>2, Zenon DEF nb_get_csq
  <2>3. CASE nb_get_time
    <3>1. CASE main_mq' = main_mq
      <4>1. P(Msg(2, <<>>))
        BY <2>1, <2>3, <3>1 DEF nb_get_time
      <4> QED
        BY <2>1, <4>1, Zenon
    <3>2. ASSUME NEW d \in Dates, main_mq' = rt_mq_send(main_mq, MainMax, Msg(5, d)) PROVE P(Msg(5, d)) /\ Msg(5, d) \in MainMessages
      BY <2>3, <3>2, MessageTypes DEF nb_get_time
    <3> QED
      BY <2>3, <3>1, <3>2, Zenon DEF nb_get_time
  <2>4. CASE nb_send_v_q
    <3>1. P(Msg(8, <<>>))
      BY <2>1, <2>4 DEF nb_send_v_q
    <3> QED
      BY <2>1, <3>1, Zenon
  <2>5. CASE ReadLog
    <3>1. CASE main_mq' = main_mq \/ main_mq' = rt_mq_send(main_mq, MainMax, Msg(2, <<>>))
      <4>1. P(Msg(2, <<>>))
        BY <2>1, <2>5, <3>1 DEF ReadLog
      <4> QED
        BY <2>1, <4>1, Zenon
    <3>2. ASSUME NEW s \in Saved, main_mq' = rt_mq_send(main_mq, MainMax, Msg(3, s)) PROVE P(Msg(3, s)) /\ Msg(3, s) \in MainMessages
      <4>1. Msg(3, s).val = s
        BY Zenon DEF Msg
      <4> QED
        BY <2>5, <3>2, <4>1, MessageTypes, Zenon DEF ReadLog
    <3> QED
      BY <2>5, <3>1, <3>2, Zenon DEF ReadLog
  <2> QED
    BY <2>2, <2>3, <2>4, <2>5, Zenon DEF Service
<1>2. PICK m \in MainMessages :
        /\ main_mq' = main_mq \/ main_mq' = rt_mq_send(main_mq, MainMax, m)
        /\ m.op \in {2, 3, 4, 5, 8}
        /\ m.op = 3 => m.val \in Saved /\ fpc = "start" /\ fpc' # "start"
        /\ fpc' = fpc \/ fpc' # "start"
  BY <1>1, Zenon
<1>3. Post(m)
  BY <1>2 DEF Post
<1>4. MainBlocked /\ UNCHANGED <<lineState, tpc, clicks>>
  BY Zenon DEF Service, Runs, mainVars, touchVars, lineVars, lineState
<1>5. acks \in 0..1
  BY Zenon DEF Known, LineInv, RoomInv
<1>6. \/ pc = "recv" /\ acks' = 0
      \/ pc # "recv" /\ acks' = acks + 1 /\ acks < 1
  BY Zenon DEF Service, Room
<1>7. Paced(m)
  BY <1>2, <1>4, <1>6, Zenon DEF Paced
<1> QED
  BY <1>3, <1>4, <1>7, PostStep, Zenon DEF lineState

LEMMA QuietStep ==
    ASSUME LineInv, UNCHANGED <<lineState, main_mq, fpc, clicks, acks>>, tpc' \in {"wait", "stable"}
    PROVE  LineInv'
<1>0. /\ PanelInv /\ BootInv /\ CountInv /\ PartPin /\ BatchPin /\ PlaceInv /\ RoomInv /\ StartInv /\ ScaleInv
  BY Zenon DEF LineInv
<1>1. /\ UNCHANGED <<pc, reg, ctrl_flow, adc_measure_count, adc_sum, res_t, info_t, pulse_out, ien, pend, halted>>
      /\ UNCHANGED <<held, part, placed, scale, main_mq, fpc, clicks, acks>>
  BY Zenon DEF lineState
<1>2. /\ (Queued(1)' <=> Queued(1)) /\ (Queued(9)' <=> Queued(9)) /\ (Queued(3)' <=> Queued(3))
  BY Zenon DEF Queued
<1>3. (Uncounted' <=> Uncounted) /\ (Grabbed' <=> Grabbed) /\ Again' = Again
  BY <1>1, <1>2, Zenon DEF Uncounted, Grabbed, Raised, Again
<1>4. PanelInv' /\ BootInv'
  BY <1>0, <1>1, Zenon DEF PanelInv, BootInv, Booting
<1>5. CountInv'
  BY <1>0, <1>1, <1>3, Zenon DEF CountInv, One
<1>6. PartPin' /\ BatchPin'
  BY <1>0, <1>1, <1>2, <1>3, Zenon DEF PartPin, HandlingPart, BatchPin
<1>7. PlaceInv'
  BY <1>0, <1>1, <1>3, Zenon DEF PlaceInv
<1>8. RoomInv'
  BY <1>0, <1>1, <1>2, <1>3, Zenon DEF RoomInv, One
<1>9. StartInv' /\ ScaleInv'
  BY <1>0, <1>1, <1>2, <1>3, Zenon DEF StartInv, ScaleInv
<1> QED
  BY <1>4, <1>5, <1>6, <1>7, <1>8, <1>9, Zenon DEF LineInv

LEMMA TouchStep ==
    ASSUME Known, Touch
    PROVE  LineInv'
<1>1. UNCHANGED <<ien, pend>> /\ tpc' \in {"wait", "stable"}
  BY Zenon DEF Touch, TouchThread, TouchWake, TouchMask, TouchSample, TouchUnmask, Known, CleanLine, LineInv, PanelInv
<1>2. UNCHANGED <<lineState, main_mq, fpc, clicks, acks>>
  BY <1>1, Zenon DEF Touch, mainVars, queueVars, serviceVars, lineVars, lineState
<1> QED
  BY <1>1, <1>2, QuietStep, Zenon DEF Known

LEMMA IdleStep ==
    ASSUME LineInv, Flush \/ ServiceTake \/ UNCHANGED vars
    PROVE  LineInv'
<1>1. UNCHANGED <<lineState, main_mq, fpc, clicks, acks, tpc>>
  <2>1. CASE Flush
    BY <2>1, Zenon DEF Flush, mainVars, touchVars, serviceVars, lineVars, lineState
  <2>2. CASE ServiceTake
    BY <2>2, Zenon DEF ServiceTake, TakeSample, WriteLog, mainVars, touchVars, serviceVars, lineVars, lineState
  <2>3. CASE UNCHANGED vars
    BY <2>3, Zenon DEF vars, mainVars, queueVars, touchVars, serviceVars, lineVars, lineState
  <2> QED
    BY <2>1, <2>2, <2>3, Zenon
<1> QED
  BY <1>1, QuietStep, Zenon DEF LineInv, PanelInv

LEMMA LineInit ==
    ASSUME CleanLine, Init
    PROVE  LineInv
<1>1. /\ pc = "install1" /\ ctrl_flow = 0 /\ main_mq = <<>> /\ pend = {} /\ halted = FALSE /\ info_t.total = 0
      /\ tpc = "wait" /\ fpc = "start" /\ held = 0 /\ placed = 0 /\ clicks = 0 /\ acks = 0
  BY Zenon DEF Init, MainInit, PanelInit, ServicesInit, init_datastructure
<1>2. Len(main_mq) = 0
  BY <1>1, Zenon
<1>3. \A op \in 1..9 : ~Queued(op)
  BY <1>2 DEF Queued
<1>4. ~Uncounted /\ ~Grabbed
  BY <1>1, <1>3 DEF Uncounted, Grabbed, Raised
<1>5. MaxParts \in Nat /\ UINT_MOD \in Nat /\ MaxClicks \in Nat
  BY LineConstants, MainLoopConstants, Zenon
<1>6. PanelInv /\ BootInv /\ PartPin /\ BatchPin /\ StartInv /\ ScaleInv
  BY <1>1, <1>3 DEF PanelInv, BootInv, PartPin, HandlingPart, BatchPin, StartInv, ScaleInv
<1>7. CountInv /\ RoomInv
  BY <1>1, <1>4, <1>5 DEF CountInv, One, RoomInv, CleanLine
<1>8. PlaceInv
  BY <1>2 DEF PlaceInv
<1> QED
  BY <1>6, <1>7, <1>8, Zenon DEF LineInv

LEMMA LineStep ==
    ASSUME CleanLine, TypeOK, TypeOK', CountdownSound, CountdownSound', LineInv, [Next]_vars
    PROVE  LineInv'
<1>1. CASE UNCHANGED vars
  BY <1>1, IdleStep, Zenon
<1>2. CASE Next
  <2>1. Known
    BY <1>2, Zenon DEF Known
  <2>2. ~Press /\ ~TouchIsr
    <3>1. XPT2046_USE_GPIO_NUM \notin pend
      BY DEF LineInv, PanelInv, Signals, INPUT_SIGNAL, INPUT_SIGNAL2, XPT2046_USE_GPIO_NUM
    <3> QED
      BY <3>1, Zenon DEF Press, TouchIsr, XPT2046_touch_irq_handler, Raised, CleanLine
  <2>3. CASE Main
    <3>1. \/ InstallIsr \/ CreateQueues
          \/ SingleGrabbed \/ Measure \/ UnmaskBatch \/ LoadPart \/ UnmaskPart
          \/ AllGrabbed \/ OpenBatch
          \/ FillLog \/ Restore \/ SetCsq \/ SetDate \/ MoveThreshold \/ Published
      BY <2>3, Zenon DEF Main, MainThread
    <3> QED
      BY Zenon, <2>1, <2>3, <3>1, BootStep, SingleGrabbedStep, MeasureStep, UnmaskBatchStep, LoadPartStep,
         UnmaskPartStep, AllGrabbedStep, OpenBatchStep, OtherStep, RestoreStep
  <2>4. CASE SignalIsr
    BY <2>1, <2>4, PartIsrStep, BatchIsrStep, Zenon DEF SignalIsr
  <2> QED
    BY Zenon, <2>1, <2>2, <2>3, <2>4, GrabAllStep, TakeOffStep, NoiseStep, DelayOverStep, TouchStep, ClickStep,
       ServiceStep, IdleStep DEF Next, Others
<1> QED
  BY <1>1, <1>2, Zenon

LEMMA LineInvariant ==
    ASSUME CleanLine
    PROVE  Spec => [](LineInv /\ TypeOK /\ CountdownSound)
<1>1. Init => LineInv
  BY LineInit, Zenon
<1>2. TypeOK /\ TypeOK' /\ CountdownSound /\ CountdownSound' /\ LineInv /\ [Next]_vars => LineInv'
  BY LineStep, Zenon
<1> QED
  BY <1>1, <1>2, TypeTheorem, CountdownTheorem, PTL DEF Spec

-----------------------------------------------------------------------------
\* Every resistor the robot takes off is counted, and counted once: bouncing
\* contacts, an operator at the panel and network answers may interleave with
\* the masking of the interrupt and its unmasking after the delay as they like.
THEOREM PartsCountedOnce ==
    ASSUME CleanLine
    PROVE  Spec => []CountedOnce
<1>1. LineInv /\ TypeOK => CountedOnce
  <2> SUFFICES ASSUME LineInv, TypeOK, Waiting, Served PROVE info_t.total = placed
    BY Zenon DEF CountedOnce
  <2>1. ~Uncounted
    BY Zenon DEF Waiting, Served, Uncounted, Raised, Signals
  <2> QED
    BY <2>1, NumberFacts DEF LineInv, CountInv, One, Numbers
<1> QED
  BY <1>1, LineInvariant, PTL

\* The countdown in case 1 of main() is in step with the robot whenever the
\* controller waits for it: adc_measure_count resistors are left on the cell.
THEOREM CountdownStaysInStep ==
    ASSUME CleanLine
    PROVE  Spec => []CountdownInStep
<1>1. LineInv /\ TypeOK /\ CountdownSound => CountdownInStep
  <2> SUFFICES ASSUME LineInv, TypeOK, CountdownSound, Waiting, Served, INPUT_SIGNAL2 \notin pend
               PROVE  adc_measure_count = held /\ (ctrl_flow = 1 <=> held > 0)
    BY Zenon DEF CountdownInStep
  <2>1. ~Uncounted /\ ~Grabbed /\ pc = "recv"
    BY Zenon DEF Waiting, Served, Uncounted, Grabbed, Raised, Signals
  <2>2. /\ Numbers
        /\ ctrl_flow = 1 => held + 0 = adc_measure_count
        /\ ctrl_flow = 0 => held = 0
        /\ adc_measure_count \in 0..Batch
        /\ ctrl_flow = 1 <=> adc_measure_count > 0
    BY <2>1, NumberFacts, Zenon DEF LineInv, CountInv, One, CountdownSound
  <2> QED
    BY <2>2 DEF Numbers
<1> QED
  BY <1>1, LineInvariant, PTL

\* The main thread never waits for a pulse it could not hear: both unmaskings
\* after the delay load and store the shared enable register in two steps, and
\* the interrupts between them take nothing away that is not put back.
THEOREM LineNeverDeaf ==
    ASSUME CleanLine
    PROVE  Spec => []NeverDeaf
<1>1. LineInv => NeverDeaf
  <2> SUFFICES ASSUME LineInv, Waiting
               PROVE  INPUT_SIGNAL \in ien /\ (ctrl_flow = 0 => INPUT_SIGNAL2 \in ien)
    BY Zenon DEF NeverDeaf
  <2>1. Len(main_mq) = 0
    BY Zenon DEF Waiting
  <2>2. ~Queued(1) /\ ~Queued(9)
    BY <2>1 DEF Queued
  <2> QED
    BY <2>2, Zenon DEF LineInv, PartPin, BatchPin, Waiting
<1> QED
  BY <1>1, LineInvariant, PTL

\* A signal interrupt finds room in main_mq: with at most three clicks and one
\* answer during a delay the six places main() creates are enough.
THEOREM SignalsFindRoom ==
    ASSUME CleanLine
    PROVE  Spec => []RoomForSignal
<1>1. LineInv /\ TypeOK => RoomForSignal
  <2> SUFFICES ASSUME LineInv, TypeOK, Signals \cap Raised # {}
               PROVE  Len(main_mq) < MainMax
    BY Zenon DEF RoomForSignal
  <2> DEFINE n == Len(main_mq)
  <2>1. /\ Numbers /\ CleanLine /\ CountInv /\ RoomInv /\ BatchPin
        /\ ~Booting
    BY NumberFacts, Zenon DEF LineInv, BootInv, Raised
  <2>2. /\ n \in Nat /\ MaxClicks \in Nat /\ MaxClicks >= 2 /\ MaxClicks + 3 <= MainMax /\ MainMax \in Nat
        /\ clicks \in 0..MaxClicks /\ acks \in 0..1 /\ Again \in 0..1
    BY <2>1 DEF Numbers, CleanLine, RoomInv, Again
  <2>3. \/ INPUT_SIGNAL \in Raised /\ ctrl_flow = 1 /\ Uncounted
        \/ INPUT_SIGNAL2 \in Raised /\ Again = 0 /\ Grabbed
    <3>1. INPUT_SIGNAL \in Raised \/ INPUT_SIGNAL2 \in Raised
      BY Zenon DEF Signals
    <3>2. INPUT_SIGNAL \in Raised => Uncounted /\ ctrl_flow = 1
      BY <2>1, Zenon DEF Uncounted, CountInv, Numbers
    <3>3. INPUT_SIGNAL2 \in Raised => Again = 0 /\ Grabbed
      BY Zenon DEF Again, Raised, Grabbed
    <3> QED
      BY <3>1, <3>2, <3>3, Zenon
  <2>4. pc \in {"recv", "measure", "delay", "store2", "load1", "store1", "sum"}
    BY <2>1, Zenon DEF TypeOK, ControlType, Booting
  <2>5. CASE pc \in {"measure", "delay"}
    <3>1. n <= clicks + acks
      BY <2>1, <2>5, Zenon DEF RoomInv
    <3>2. n < MainMax
      <4> HIDE DEF n
      <4> QED
        BY <2>2, <3>1
    <3> QED
      BY <3>2, Zenon
  <2>6. CASE pc \in {"store2", "load1"}
    <3>1. n <= MaxClicks + 1
      BY <2>1, <2>6, Zenon DEF RoomInv, Posts
    <3>2. n < MainMax
      <4> HIDE DEF n
      <4> QED
        BY <2>2, <3>1
    <3> QED
      BY <3>2, Zenon
  <2>7. CASE pc = "sum"
    <3>1. n <= clicks + acks + Again /\ clicks <= 1
      BY <2>1, <2>7, Zenon DEF RoomInv
    <3>2. n < MainMax
      <4> HIDE DEF n
      <4> QED
        BY <2>2, <3>1
    <3> QED
      BY <3>2, Zenon
  <2>8. CASE pc \in {"store1", "recv"}
    <3>1. \/ n <= MaxClicks + 1 + 1
          \/ n <= MaxClicks + 1
          \/ n <= 2 + Again
      <4>1. CASE ~Queued(9)
        BY <2>1, <2>8, <4>1 DEF RoomInv, Posts, One, Numbers
      <4>2. CASE Queued(9) /\ ctrl_flow = 0
        <5>1. Again = 0
          BY <2>3, <4>2
        <5> QED
          BY <2>1, <2>8, <4>2, <5>1 DEF RoomInv, Posts, Numbers
      <4>3. CASE Queued(9) /\ ctrl_flow = 1
        BY <2>1, <2>8, <4>3, Zenon DEF RoomInv, Grabbed
      <4> QED
        BY <2>1, <4>1, <4>2, <4>3, Zenon DEF Numbers
    <3>2. n < MainMax
      <4> HIDE DEF n
      <4> QED
        BY <2>2, <3>1
    <3> QED
      BY <3>2, Zenon
  <2> QED
    BY <2>4, <2>5, <2>6, <2>7, <2>8, Zenon
<1> QED
  BY <1>1, LineInvariant, PTL

\* The verdict on the output pin is about the resistor just taken off, as long
\* as no conversion fails: the reference of a measurement is the reading before.
THEOREM VerdictIsOfOwnPart ==
    ASSUME CleanLine, ~AdcFaults
    PROVE  Spec => []MeasuresOwnPart
<1>1. LineInv => MeasuresOwnPart
  BY Zenon DEF LineInv, ScaleInv, MeasuresOwnPart
<1> QED
  BY <1>1, LineInvariant, PTL
=============================================================================
