-------------------------------- MODULE Intc --------------------------------
(***************************************************************************)
(* Interrupt controller INTC3 of the LS1B, the one that serves GPIO 32 to  *)
(* 61, as ls1x_gpio.c drives it.  All three pins the program uses sit in   *)
(* one enable register, which is changed by read-modify-write: a thread    *)
(* that enables or disables a pin loads the register and stores it again,  *)
(* and nothing keeps an interrupt or another thread out in between.        *)
(***************************************************************************)
EXTENDS Integers

CONSTANT XPT2046_USE_GPIO_INT   \* build option: the touch panel interrupts

VARIABLES ien,   \* LS1x_INTC_IEN: the pins whose interrupt is enabled
          pend   \* the pins with a latched falling edge

INPUT_SIGNAL == 37            \* one resistor is in place
INPUT_SIGNAL2 == 34           \* all resistors are grabbed
XPT2046_USE_GPIO_NUM == 54    \* the touch panel is pressed
Pins == {INPUT_SIGNAL, INPUT_SIGNAL2, XPT2046_USE_GPIO_NUM}

\* A falling edge is latched whether or not the pin is enabled.
Edge(p) == pend' = pend \cup {p}

\* The pins whose interrupt is taken now.
Raised == pend \cap ien

\* Mutant: the latch is not cleared.
EnableLoad_KeepLatch(p) == UNCHANGED pend

\* ls1x_enable_gpio_interrupt: clear the latch and load the register ...
EnableLoad(p) == pend' = pend \ {p}
\* ... and store what was loaded, with the pin's bit set.
EnableStore(p, loaded) == ien' = loaded \cup {p}

\* ls1x_disable_gpio_interrupt after its load: store without the pin's bit
\* and clear the latch.
DisableStore(p, loaded) ==
    /\ ien' = loaded \ {p}
    /\ pend' = pend \ {p}

\* Mutant: the pin is not masked.
IsrDisable_NoMask(p) == pend' = pend \ {p} /\ UNCHANGED ien

\* An interrupt handler runs to its end: dispatch clears the latch, and its
\* own load and store cannot be separated.
IsrDisable(p) == DisableStore(p, ien)
=============================================================================
