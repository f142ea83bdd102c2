---------------------------------- MODULE Gpio ----------------------------------
(***************************************************************************)
(* The general purpose pins (gpio.c).  A register of one bit per pin is    *)
(* the set of the pins whose bit is set; 32 pins share a word.  A function *)
(* is the set of its three bits, and ten pins share a word of functions.   *)
(* Pins over 53 are refused by the code and left out here.                 *)
(***************************************************************************)
EXTENDS Integers

CONSTANTS Pins, EventRegisters

gpio_pin == 0 .. 53

ASSUME PinsAssumption == Pins \subseteq gpio_pin

VARIABLES
    fsel,       \* the function of a pin
    latch,      \* the pins driven high if they are outputs
    pull,       \* the resistor of a pin: 0 none, 1 down, 2 up
    events,     \* events[r]: the pins whose event register r lets through
    detected    \* GPEDS

gpioVars == <<fsel, latch, pull, events, detected>>

GPIO_FUNC_INPUT  == {}
GPIO_FUNC_OUTPUT == {0}
GPIO_FUNC_ALT5   == {1}

GpioTypeOK ==
    /\ fsel \in [Pins -> SUBSET (0 .. 2)] /\ pull \in [Pins -> 0 .. 2]
    /\ latch \subseteq Pins /\ detected \subseteq Pins
    /\ events \in [EventRegisters -> SUBSET Pins]

GpioInit ==
    /\ fsel = [p \in Pins |-> GPIO_FUNC_INPUT] /\ pull = [p \in Pins |-> 0]
    /\ latch = {} /\ detected = {}
    /\ events = [r \in EventRegisters |-> {}]

Word(pin) == {p \in Pins : p \div 32 = pin \div 32}
One(pin, val) == IF val = 1 THEN {pin} ELSE {}

put_in_register_Bug(read, pin, val) == One(pin, val)

\* What is written to the word of pin of a register that reads as read.
put_in_register(read, pin, val) == (read \cap Word(pin)) \cup One(pin, val)

\* GPSET and GPCLEAR cannot be read; 0 is what a read of them is taken to give.
WriteOnly == {}

FieldCleared_Bug(field) == field

FieldCleared(field) == {}

\* value &= ~(7<<((pin%10)*3)); value |= function<<((pin%10)*3);
FunctionSet(fs, pin, function) == [fs EXCEPT ![pin] = FieldCleared(@) \cup function]

gpio_set_function(pin, function) ==
    /\ fsel' = FunctionSet(fsel, pin, function)
    /\ UNCHANGED <<latch, pull, events, detected>>

\* The level of a pin that drives nothing comes from outside.
gpio_read(pin, level) == fsel[pin] = GPIO_FUNC_OUTPUT => level = (pin \in latch)

gpio_set_on(pin) == latch' = latch \cup put_in_register(WriteOnly, pin, 1)
gpio_set_off(pin) == latch' = latch \ put_in_register(WriteOnly, pin, 1)

\* For an output only; otherwise GPIO_INVALID_REQUEST is returned.
gpio_write(pin, val) ==
    /\ fsel[pin] = GPIO_FUNC_OUTPUT
    /\ IF val = 1 THEN gpio_set_on(pin) ELSE gpio_set_off(pin)
    /\ UNCHANGED <<fsel, pull, events, detected>>

\* The resistor goes to the pins clocked while GPPUD names it.
Pulled(pl, pin, resistor) == [pl EXCEPT ![pin] = resistor]

gpio_set_pullupdownoff(pin, resistor) ==
    /\ pull' = Pulled(pull, pin, resistor)
    /\ UNCHANGED <<fsel, latch, events, detected>>

\* Which register each of the gpio_event functions writes.  The one for a low
\* level writes that of the rising edge.
EventRegister(event) ==
    CASE event = "rising_edge_sync" -> "GPREN0"
      [] event = "falling_edge_sync" -> "GPFEN0"
      [] event = "rising_edge_async" -> "GPAREN0"
      [] event = "falling_edge_async" -> "GPAFEN0"
      [] event = "highlevel" -> "GPHEN0"
      [] event = "lowlevel" -> "GPREN0"

gpio_event(event, pin, val) ==
    /\ LET r == EventRegister(event)
       IN  events' = [events EXCEPT ![r] = (@ \ Word(pin)) \cup put_in_register(@, pin, val)]
    /\ UNCHANGED <<fsel, latch, pull, detected>>

\* A pin does what some register lets through.
Event(pin) ==
    /\ \E r \in EventRegisters : pin \in events[r]
    /\ detected' = detected \cup {pin}
    /\ UNCHANGED <<fsel, latch, pull, events>>

\* Ones written to GPEDS clear their events.
gpio_event_clear(pin) ==
    /\ detected' = detected \ put_in_register(detected, pin, 1)
    /\ UNCHANGED <<fsel, latch, pull, events>>

gpio_event_detected(pin) == pin \in detected

================================================================================
