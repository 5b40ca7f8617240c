-------------------------------- MODULE Led --------------------------------
(***************************************************************************)
(* The LEDs of the Discovery board (src/led.rs), on port E.  The output    *)
(* data register ODR is the set of LEDs that are lit.  Every function      *)
(* writes BSRR, which sets or resets one bit of ODR and leaves the others  *)
(* alone, so one call is one atomic update of the set; the operators give  *)
(* the new value of ODR.  led_toggle reads ODR first and writes BSRR       *)
(* later: its two halves are separate operators, so that a caller can be   *)
(* interrupted between them.                                               *)
(***************************************************************************)

\* The LEDs that main() initialises and uses.
LEDs == {"LD3", "LD4", "LD5"}

led_set(odr, led, lit) == IF lit THEN odr \cup {led} ELSE odr \ {led}

led_on(odr, led) == odr \cup {led}

\* Mutated form: the reset half of BSRR missed (1 << pin, not 1 << (pin + 16)).
led_off_sets(odr, led) == odr \cup {led}

led_off(odr, led) == odr \ {led}

\* First half of led_toggle: the state to give the LED, read from ODR.
led_toggle_read(odr, led) == led \notin odr

\* Second half of led_toggle: the BSRR write.
led_toggle_write(odr, led, new_state) == led_set(odr, led, new_state)
=============================================================================
