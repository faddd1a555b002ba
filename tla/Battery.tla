------------------------------- MODULE Battery -------------------------------
(***************************************************************************)
(* battery.cpp of simpler_main_project: two timers take turns. The first   *)
(* switches the voltage divider on, the second, 10 ms later, reads it,     *)
(* switches it off, shows the host the charge and arms the first again.    *)
(* Voltages are means of ADC readings; the arithmetic is that of the code  *)
(* in integers, 3.3 V / 4096 * 430 / 330 being 4.3 V / 4096 a unit.        *)
(***************************************************************************)
EXTENDS Integers

CONSTANT Voltages       \* means of the ADC that are told apart, within 0..4095

VARIABLES
    raw,                \* mean of the ADC at this moment (external)
    armed,              \* the timers BTstack's run loop holds
    voltage_read_gpio,  \* the divider is switched on
    battery_value       \* what the battery service shows the host

vars == <<raw, armed, voltage_read_gpio, battery_value>>

TypeOK ==
    /\ raw \in Voltages
    /\ armed \subseteq {"start", "read"}
    /\ voltage_read_gpio \in BOOLEAN
    /\ battery_value \in 0..255

Init ==
    /\ raw \in Voltages
    /\ armed = {} /\ voltage_read_gpio = FALSE /\ battery_value = 0

\* Hundred times the charge, in units of 1 / 36864 percent: 3.3 V are empty
\* and 4.2 V full, a diode takes 0.23 V.
Scaled(r) == 4300 * r - 3070 * 4096

\* The cast to uint8_t cuts the fraction off. Of a charge of -1 or less it is
\* undefined: the build's helper saturates, or the low byte is kept.
Charge(r) ==
    IF Scaled(r) >= 0 THEN {Scaled(r) \div 36864}
    ELSE {0, (-((-Scaled(r)) \div 36864)) % 256}

init ==
    /\ voltage_read_gpio' = FALSE
    /\ battery_value' = 100
    /\ armed' = {"start"}
    /\ UNCHANGED raw

battery_sense_start_timer_callback ==
    /\ "start" \in armed
    /\ voltage_read_gpio' = TRUE
    /\ armed' = (armed \ {"start"}) \cup {"read"}
    /\ UNCHANGED <<raw, battery_value>>

\* MUTANT: the first timer is not armed again.
battery_sense_read_timer_callback_Once ==
    /\ "read" \in armed
    /\ voltage_read_gpio' = FALSE
    /\ battery_value' \in Charge(raw)
    /\ armed' = armed \ {"read"}
    /\ UNCHANGED raw

battery_sense_read_timer_callback ==
    /\ "read" \in armed
    /\ voltage_read_gpio' = FALSE
    /\ battery_value' \in Charge(raw)
    /\ armed' = (armed \ {"read"}) \cup {"start"}
    /\ UNCHANGED raw

\* The watchdog resets the pins, the service and the run loop.
Reset ==
    /\ armed' = {} /\ voltage_read_gpio' = FALSE /\ battery_value' = 0
    /\ UNCHANGED raw

\* The cell drains, is charged, or is measured with a different noise.
Drift ==
    /\ raw' \in Voltages
    /\ UNCHANGED <<armed, voltage_read_gpio, battery_value>>
=============================================================================
