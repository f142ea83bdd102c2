-------------------------------- MODULE RegisterMap --------------------------------
(***************************************************************************)
(* The addresses of the device registers, which the headers of libpi list  *)
(* by hand, and the word that starts the ARM timer (armtimer.c).           *)
(***************************************************************************)
EXTENDS AddressMap, FiniteSets

MMIO == \h3F000000
LOCAL_PERIPHERALS == \h40000000

\* The registers of a device as name and offset from base.
At(base, offsets) == [name \in DOMAIN offsets |-> base + offsets[name]]

Gpios == At(MMIO + \h200000,
    [GPFSEL0 |-> \h00, GPFSEL1 |-> \h04, GPFSEL2 |-> \h08, GPFSEL3 |-> \h0C,
     GPFSEL4 |-> \h10, GPFSEL5 |-> \h14, GPSET0 |-> \h1C, GPSET1 |-> \h20,
     GPCLEAR0 |-> \h28, GPCLEAR1 |-> \h2C, GPLEV0 |-> \h34, GPLEV1 |-> \h38,
     GPPUD |-> \h94, GPPUDCLK0 |-> \h98, GPPUDCLK1 |-> \h9C,
     GPEDS0 |-> \h40, GPEDS1 |-> \h44, GPREN0 |-> \h4C, GPREN1 |-> \h50,
     GPFEN0 |-> \h58, GPFEN1 |-> \h5C, GPHEN0 |-> \h64, GPHEN1 |-> \h68,
     GPLEN0 |-> \h70, GPLEN1 |-> \h74, GPAREN0 |-> \h7C, GPAREN1 |-> \h80,
     GPAFEN0 |-> \h88, GPAFEN1 |-> \h8C])

MiniUart == At(MMIO + \h215000,
    [AUX_ENABLES |-> \h04, AUX_MU_IO_REG |-> \h40, AUX_MU_IER_REG |-> \h44,
     AUX_MU_IIR_REG |-> \h48, AUX_MU_LCR_REG |-> \h4C, AUX_MU_MCR_REG |-> \h50,
     AUX_MU_LSR_REG |-> \h54, AUX_MU_MSR_REG |-> \h58, AUX_MU_SCRATCH |-> \h5C,
     AUX_MU_CNTL_REG |-> \h60, AUX_MU_STAT_REG |-> \h64, AUX_MU_BAUD_REG |-> \h68])

ArmTimer == At(MMIO + \hB400,
    [arm_timer_Load |-> 0, arm_timer_Value |-> 4, arm_timer_Control |-> 8,
     arm_timer_IRQClear |-> 12, arm_timer_RAWIRQ |-> 16, arm_timer_MaskedIRQ |-> 20,
     arm_timer_Reload |-> 24, arm_timer_PreDivider |-> 28,
     arm_timer_FreeRunningCounter |-> 32])

Bcm2837 == At(MMIO + \hB200,
    [IRQ_BASIC_PENDING |-> \h00, IRQ_GPU_PENDING1 |-> \h04, IRQ_GPU_PENDING2 |-> \h08,
     FIQ_CONTROL |-> \h0C, IRQ_GPU_ENABLE1 |-> \h10, IRQ_GPU_ENABLE2 |-> \h14,
     IRQ_BASIC_ENABLE |-> \h18, IRQ_GPU_DISABLE1 |-> \h1C, IRQ_GPU_DISABLE2 |-> \h20,
     IRQ_BASIC_DISABLE |-> \h24])

\* Those a core has of its own are the ones of core 0 plus CoreStep times its number.
Qa7 == At(LOCAL_PERIPHERALS,
    [CORE_TIMER_INTERRUPT_CTRL |-> \h40, CORE_MAILBOX_INTERRUPT |-> \h50,
     CORE_MAILBOX_WRITETOSET |-> \h80, CORE_MAILBOX_WRITETOCLEAR |-> \hC0,
     CORE_INTERRUPT_IRQ_SOURCE |-> \h60, LOCAL_TIMER_CONTROL |-> \h34,
     LOCAL_TIMER_CLEAR_RELOAD |-> \h38, LOCAL_TIMER_ROUTING |-> \h24,
     GPU_ROUTING_INTERRUPT |-> \h0C])

CoreStep(name) ==
    CASE name \in {"CORE_TIMER_INTERRUPT_CTRL", "CORE_MAILBOX_INTERRUPT",
                   "CORE_INTERRUPT_IRQ_SOURCE"} -> 4
      [] name \in {"CORE_MAILBOX_WRITETOSET", "CORE_MAILBOX_WRITETOCLEAR"} -> 16
      [] OTHER -> 0

PerCore == [r \in {q \in (DOMAIN Qa7) \X (0 .. 3) : q[2] = 0 \/ CoreStep(q[1]) # 0} |->
              Qa7[r[1]] + CoreStep(r[1]) * r[2]]

VcMailbox == At(MMIO + \hB880,
    [MBOX_READ |-> \h00, MBOX_POLL |-> \h10, MBOX_SENDER |-> \h14, MBOX_STATUS |-> \h18,
     MBOX_CONFIG |-> \h1C, MBOX_WRITE |-> \h20])

\* What timer_get_time() reads and reboot() writes.
SystemTimer == [timer |-> MMIO + \h3004]
Reset == [PM_RSTC |-> MMIO + \h10001C, PM_WDOG |-> MMIO + \h100024]

Blocks == <<Gpios, MiniUart, ArmTimer, Bcm2837, PerCore, VcMailbox, SystemTimer,
            Reset>>

EveryRegister == UNION {{<<d, name>> : name \in DOMAIN Blocks[d]} : d \in DOMAIN Blocks}
AddressOf(r) == Blocks[r[1]][r[2]]

\* The fields of rpi_arm_timer_ctrl_t: lowest bit and number of bits.
Field == [use_32bit_counter |-> <<1, 1>>, prescaler |-> <<2, 2>>, int_enabled |-> <<5, 1>>,
          timer_enabled |-> <<7, 1>>, counter_enabled |-> <<9, 1>>,
          counter_prescaler |-> <<16, 7>>]

\* RPI_ARMTIMER_CTRL_32BIT, _ENABLE, _INT_ENABLE and _PRESCALE_256.
Control32Bit == 2 ^ 1
ControlEnable == 2 ^ 7
ControlIntEnable == 2 ^ 5
Prescale256 == 2 * 2 ^ 2

\* What timer_interrupt_init() writes to arm_timer_Control.
timer_interrupt_init == Control32Bit + ControlEnable + ControlIntEnable + Prescale256

FieldValue(word, f) == (word \div 2 ^ Field[f][1]) % 2 ^ Field[f][2]

--------------------------------------------------------------------------------
(* Properties. *)

\* No two of the addresses typed by hand, on whatever core, are one register, each
\* is aligned, and the MMU maps each as a device wherever the VideoCore's memory
\* starts below them.
RegistersApart(vc) ==
    /\ Cardinality({AddressOf(r) : r \in EveryRegister}) = Cardinality(EveryRegister)
    /\ \A r \in EveryRegister : /\ AddressOf(r) % 4 = 0
                      /\ vc <= Mmio * Pages =>
                           populate_tables(vc)[AddressOf(r) \div 2 ^ 21].type = Device

\* The masks of the timer's control word set the fields of its struct: 32 bits,
\* running and interrupting, and but for the prescaler all else 0.
TimerRuns ==
    \A f \in DOMAIN Field \ {"prescaler"} :
        FieldValue(timer_interrupt_init, f) =
          IF f \in {"use_32bit_counter", "int_enabled", "timer_enabled"} THEN 1 ELSE 0

\* The prescaler means clock/256 by the comment of its struct: "11 = clock/256".
PrescalerIs256 == FieldValue(timer_interrupt_init, "prescaler") = 3
================================================================================
