------------------------------- MODULE Screen -------------------------------
(***************************************************************************)
(* What the operator gets to see.  The main thread reports every change to *)
(* the flush thread through output_datas_mq, which has four places; the    *)
(* flush thread has the lowest priority, and what is sent while it starves *)
(* is dropped.  A history variable, which no step of the system reads,     *)
(* remembers which cells of the grid are out of date for that reason.      *)
(***************************************************************************)
EXTENDS TeamReach

VARIABLE missed    \* cells whose latest update found the queue full

screenVars == <<vars, missed>>

\* The cells that a message redraws.
Draws(op) ==
    CASE op = 1 -> {"v_measure", "qualified", "total", "qualified_amount"}
      [] op = 2 -> {"v_threshold"}
      [] op = 3 -> {"date"}
      [] op = 4 -> {"total", "qualified_amount"}
      [] op = 5 -> {"csq"}
      [] op = 6 -> {"msg_id"}

\* The messages that the next step of main() has for the flush thread.
Reports ==
    CASE pc = "measure" -> <<1>>
      [] pc = "recv" /\ main_mq # <<>> ->
           (CASE Head(main_mq).op = 3 -> <<3, 4>>
              [] Head(main_mq).op = 4 -> <<5>>
              [] Head(main_mq).op = 5 -> <<3>>
              [] Head(main_mq).op \in {6, 7} -> <<2>>
              [] Head(main_mq).op = 8 -> <<6>>
              [] OTHER -> <<>>)
      [] OTHER -> <<>>

\* The cells of those that find a place, and of those that find none.
Queueing == UNION {Draws(Reports[i]) : i \in {j \in DOMAIN Reports : Len(output_mq) + j <= OutputMax}}
Dropping == UNION {Draws(Reports[i]) : i \in {j \in DOMAIN Reports : Len(output_mq) + j > OutputMax}}

ScreenInit == Init /\ missed = {}

ScreenNext ==
    /\ ~halted
    /\ \/ Main /\ missed' = (missed \ Queueing) \cup Dropping
       \/ Others /\ UNCHANGED missed

ScreenSpec == ScreenInit /\ [][ScreenNext]_screenVars

-----------------------------------------------------------------------------
\* The cell will show v when the messages of mq are drawn on the screen: the last of
\* them that redraws it says so, or none does and it shows v already.
Redraws(m, c) == c \in Draws(m.op)
WillShow(mq, screen, c, v) ==
    \/ \E i \in DOMAIN mq :
          /\ Redraws(mq[i], c) /\ (\A j \in DOMAIN mq : Redraws(mq[j], c) => j <= i)
          /\ Redraw(screen, mq[i])[c] = v
    \/ (\A i \in DOMAIN mq : ~Redraws(mq[i], c)) /\ screen[c] = v

\* What the main thread knows of the cells.  (The identifier in the last one is that
\* of a moment that has passed; see LcdAcked.)
Latest == [v_measure |-> res_t.v_measure, qualified |-> res_t.qualified,
          v_threshold |-> res_t.v_threshold, total |-> info_t.total,
          qualified_amount |-> info_t.qualified_amount, date |-> info_t.date,
          csq |-> stat_t.csq]

Fresh(mq, screen, known, c) ==
    \/ WillShow(mq, screen, c, known[c])
    \/ WillShow(mq, screen, c, Blank) /\ known[c] = 0

\* However long the flush thread starves and whatever it misses, a cell is out of
\* date only if its own latest update was dropped: all others show, once the queue is
\* drawn, what the main thread knows (nothing, as long as it knows nothing).  An update
\* is not forgotten, overtaken by an older one, or spoiled by one of another cell
\* that was dropped, and the next one that finds a place repairs a cell.
LcdFresh == \A c \in DOMAIN Latest \ missed : Fresh(output_mq, lcd, Latest, c)
=============================================================================
