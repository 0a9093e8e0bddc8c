------------------------------ MODULE MCScreen ------------------------------
(* The instance of TeamReach with the history of the screen. *)
EXTENDS MCTeamReach, Screen

\* In the polled build a latched edge on a masked pin is forgotten when the pin is
\* unmasked, unless it comes between the clearing of the latch and the store.
Latched == IF pc = "store1" THEN pend
           ELSE pend \cap (ien \cup IF pc = "store2" THEN {INPUT_SIGNAL2} ELSE {})

\* What decides the further course of the system, with batches of one part, and
\* LcdFresh.  Left out are the log messages, the contents of the samples and what
\* became of them, the weight of a part, the counts of a delay that is over, and what a
\* cell shows that is missed or about to be redrawn.
Live ==
    <<mainVars, halted, scale, main_mq, output_mq, Len(nbiot_mq), ien, Latched,
      touchVars, nbpc, fpc, held, placed, missed,
      IF pc \in {"measure", "delay", "sum"} THEN <<clicks, acks>> ELSE <<>>,
      [c \in DOMAIN Latest |->
         IF c \in missed \/ (\E i \in DOMAIN output_mq : Redraws(output_mq[i], c))
         THEN Blank ELSE lcd[c]]>>
=============================================================================
