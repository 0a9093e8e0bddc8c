------------------------------- MODULE Panel --------------------------------
(***************************************************************************)
(* The operator panel: the touch interrupt and the touch thread            *)
(* (priority 15), the GUI thread that turns a touch into a button click,   *)
(* and the flush thread that repaints the LCD (both priority 19).          *)
(*                                                                         *)
(* XPT2046_USE_GPIO_INT is the build option of xpt2046.h: with TRUE (the   *)
(* shipped setting) a touch raises GPIO 54, with FALSE the thread polls.   *)
(***************************************************************************)
EXTENDS Integers, Queues, Intc

CONSTANTS TouchMax,   \* TS_MESSAGE_MAX: 16
          Targets     \* what the operator may touch: the buttons that raise and
                      \* lower the threshold post 6 and 7, 0 is everything else

ASSUME PanelConstants ==
    /\ XPT2046_USE_GPIO_INT \in BOOLEAN
    /\ TouchMax \in Nat \ {0} /\ Targets \subseteq {0, 6, 7}

VARIABLES tpc, treg,      \* touch thread: control point, loaded IEN register
          touch_event,    \* TOUCH_CLICK_EVENT is set
          touch_mq,       \* touch_msg_queue: the button under each touch
          lcd             \* the cells of the grid

touchVars == <<tpc, treg, touch_event, touch_mq>>

Blank == -1     \* a cell nothing was drawn in

PanelInit ==
    /\ tpc = "wait" /\ treg = {} /\ touch_event = FALSE /\ touch_mq = <<>>
    /\ lcd = [v_measure |-> Blank, qualified |-> Blank, total |-> Blank,
              qualified_amount |-> Blank, v_threshold |-> Blank,
              date |-> <<Blank, Blank, Blank>>, csq |-> Blank, msg_id |-> Blank]

\* XPT2046_touch_irq_handler: with the panel pressed it masks the pin, sets
\* the event and unmasks the pin again; with the panel released it returns.
XPT2046_touch_irq_handler ==
    /\ XPT2046_USE_GPIO_NUM \in Raised
    /\ EnableLoad(XPT2046_USE_GPIO_NUM)
    /\ \E click_down \in BOOLEAN : touch_event' = (touch_event \/ click_down)
    /\ UNCHANGED <<ien, tpc, treg, touch_mq>>

\* After 200 ms: wait for the event and load the register to mask the pin, or
\* see the panel pressed.
TouchWake ==
    /\ tpc = "wait"
    /\ IF XPT2046_USE_GPIO_INT
       THEN touch_event /\ touch_event' = FALSE /\ treg' = ien /\ tpc' = "mask"
       ELSE tpc' = "stable" /\ UNCHANGED <<touch_event, treg>>
    /\ UNCHANGED <<ien, pend, touch_mq>>

TouchMask ==
    /\ tpc = "mask" /\ tpc' = "stable"
    /\ DisableStore(XPT2046_USE_GPIO_NUM, treg) /\ treg' = {}
    /\ UNCHANGED <<touch_event, touch_mq>>

\* A full touch queue is cleared before the message is sent again.
SendTouch(t) ==
    touch_mq' = IF Len(touch_mq) < TouchMax THEN Append(touch_mq, t) ELSE <<t>>

\* 100 ms later: a touch that is still there and reads as a point of the
\* screen is queued; then the register is loaded to unmask the pin.
TouchSample ==
    /\ tpc = "stable"
    /\ (\E t \in Targets : SendTouch(t)) \/ UNCHANGED touch_mq
    /\ IF XPT2046_USE_GPIO_INT
       THEN EnableLoad(XPT2046_USE_GPIO_NUM) /\ treg' = ien /\ tpc' = "unmask"
       ELSE tpc' = "wait" /\ UNCHANGED <<pend, treg>>
    /\ UNCHANGED <<ien, touch_event>>

TouchUnmask ==
    /\ tpc = "unmask" /\ tpc' = "wait"
    /\ EnableStore(XPT2046_USE_GPIO_NUM, treg) /\ treg' = {}
    /\ UNCHANGED <<pend, touch_event, touch_mq>>

TouchThread == TouchWake \/ TouchMask \/ TouchSample \/ TouchUnmask

\* Mutant: pressing and releasing a button both post.
simple_gui_task_Twice ==
    /\ touch_mq # <<>> /\ touch_mq' = Tail(touch_mq)
    /\ LET m == Msg(Head(touch_mq), <<>>)
       IN  main_mq' = IF Head(touch_mq) = 0 THEN main_mq
                      ELSE rt_mq_send(rt_mq_send(main_mq, MainMax, m), MainMax, m)
    /\ UNCHANGED <<tpc, treg, touch_event>>

\* simple_gui_task: the click handler of the touched button posts its code.
simple_gui_task ==
    /\ touch_mq # <<>> /\ touch_mq' = Tail(touch_mq)
    /\ main_mq' = IF Head(touch_mq) = 0 THEN main_mq
                  ELSE rt_mq_send(main_mq, MainMax, Msg(Head(touch_mq), <<>>))
    /\ UNCHANGED <<tpc, treg, touch_event>>

\* What the flush thread draws for a message.
Redraw(screen, m) ==
    CASE m.op = 1 -> [screen EXCEPT !.v_measure = m.val[1], !.qualified = m.val[2],
                                    !.total = m.val[3], !.qualified_amount = m.val[4]]
      [] m.op = 2 -> [screen EXCEPT !.v_threshold = m.val[1]]
      [] m.op = 3 -> [screen EXCEPT !.date = m.val]
      [] m.op = 4 -> [screen EXCEPT !.total = m.val[1], !.qualified_amount = m.val[2]]
      [] m.op = 5 -> [screen EXCEPT !.csq = m.val[1]]
      [] m.op = 6 -> [screen EXCEPT !.msg_id = m.val[1]]

rt_flush_task ==
    /\ output_mq # <<>> /\ output_mq' = Tail(output_mq)
    /\ lcd' = Redraw(lcd, Head(output_mq))
=============================================================================
