-------------------------------- MODULE Devices --------------------------------
(***************************************************************************)
(* The mini UART (mini_uart.c) and the clock of the cores (VCmailbox.c) on *)
(* top of the pins: whatever prints or asks the VideoCore first starts the *)
(* UART, for the clock as it then is.                                      *)
(***************************************************************************)
EXTENDS Gpio

CONSTANTS Functions, Events     \* that programs give to pins

VARIABLES
    is_enabled, is_turbo,       \* of mini_uart.c and VCmailbox.c
    baud,                       \* AUX_MU_BAUD_REG
    late,                       \* the clock went up with the UART running
    called                      \* the pins the last call was for

uartVars == <<is_enabled, is_turbo, baud, late>>
deviceVars == <<gpioVars, uartVars, called>>

UartPins == {14, 15}

ASSUME DevicesAssumption ==
    /\ UartPins \subseteq Pins
    /\ Functions \subseteq SUBSET (0 .. 2)
    /\ \A event \in Events : EventRegister(event) \in EventRegisters

DevicesTypeOK ==
    /\ GpioTypeOK
    /\ {is_enabled, is_turbo, late} \subseteq BOOLEAN
    /\ baud \in {0, 270, 433} /\ called \subseteq Pins

DevicesInit ==
    /\ GpioInit
    /\ is_enabled = FALSE /\ is_turbo = FALSE /\ late = FALSE
    /\ baud = 0 /\ called = {}

\* The divisor for 115200 baud at 250 or 400 MHz.
Divisor == IF is_turbo THEN 433 ELSE 270

TX == 14
RX == 15

\* Returns at once when the UART is enabled.
uart_init ==
    /\ ~is_enabled
    /\ baud' = Divisor
    /\ fsel' = FunctionSet(FunctionSet(fsel, TX, GPIO_FUNC_ALT5), RX, GPIO_FUNC_ALT5)
    /\ pull' = Pulled(Pulled(pull, TX, 0), RX, 0)
    /\ is_enabled' = TRUE
    /\ called' = UartPins
    /\ UNCHANGED <<latch, events, detected, is_turbo, late>>

\* The clock that stays is_turbo's; a refused request panics and ends the program.
set_max_freq ==
    /\ is_turbo' = TRUE
    /\ late' = (late \/ (is_enabled /\ ~is_turbo))
    /\ called' = {}
    /\ UNCHANGED <<gpioVars, is_enabled, baud>>

\* Programs leave the pins of a running UART to it.
Free(pin) == ~is_enabled \/ pin \notin UartPins

\* A call for pin, or an event at it.
ForPin(pin) ==
    /\ \/ Free(pin) /\ \E f \in Functions : gpio_set_function(pin, f)
       \/ Free(pin) /\ \E resistor \in {0, 2} : gpio_set_pullupdownoff(pin, resistor)
       \/ \E val \in {0, 1} : gpio_write(pin, val)
       \/ \E event \in Events, val \in {0, 1} : gpio_event(event, pin, val)
       \/ Event(pin)
    /\ called' = {pin}
    /\ UNCHANGED uartVars

Clears(pin) ==
    /\ gpio_event_clear(pin)
    /\ called' = {pin}
    /\ UNCHANGED uartVars

DevicesNext ==
    \/ uart_init \/ set_max_freq
    \/ \E pin \in Pins : ForPin(pin) \/ Clears(pin)

DevicesSpec == DevicesInit /\ [][DevicesNext]_deviceVars

--------------------------------------------------------------------------------
(* Properties. *)

\* gpio.h: "settings for other pins should be unchanged", although up to 32 pins
\* share the word that a call reads, changes and writes back.
OthersKeep ==
    \A p \in Pins \ called' :
        /\ fsel'[p] = fsel[p] /\ pull'[p] = pull[p]
        /\ (p \in latch') = (p \in latch)
        /\ \A r \in EventRegisters : (p \in events'[r]) = (p \in events[r])

\* Events of pins in another word survive gpio_event_clear().  Those in its own
\* word do not: it writes the ones it has read, and a one clears.
ClearsOneWord ==
    \A p \in Pins : p \in detected /\ p \notin detected' =>
        \E q \in called' : p \div 32 = q \div 32

\* Whatever a program did with the pins before, a running UART has both of them,
\* without pull resistors.
UartHasPins ==
    is_enabled => \A p \in UartPins : fsel[p] = GPIO_FUNC_ALT5 /\ pull[p] = 0

\* The divisor fits the clock unless the clock went up with the UART running:
\* uart_init() then returns at once, and nothing else sets the divisor.
BaudFits == is_enabled => (baud = (IF is_turbo THEN 433 ELSE 270)) = ~late

\* Whatever a program does with pins and clock before, a running UART has its
\* pins, and the right divisor unless the clock was raised after it.
UartIsSet == DevicesTypeOK /\ UartHasPins /\ BaudFits

\* Calls and events for one pin leave the others' registers alone, and clearing
\* its event those in the other word.
PinsKeep == [][OthersKeep /\ ClearsOneWord]_deviceVars

\* The inductive invariant: the clock goes up late only under a running UART.
DevicesInv == UartIsSet /\ (late => is_enabled /\ is_turbo)
================================================================================
