----------------------------- MODULE Interrupts -----------------------------
(***************************************************************************)
(* From the boot loader to the shell, and every way an interrupt takes:    *)
(* src/boot.asm, kernel_main.c, gdt.c, idt.c, isr.asm, pic.c, pit.c,       *)
(* serial.c and kernel.c.  The two 8259 controllers and the CPU are        *)
(* external; an IRQ line is a number in 0 .. 15.  This is the machine as   *)
(* the boot context sees it: where schedule() goes is in Kernel.           *)
(***************************************************************************)
EXTENDS Integers, Sequences, FiniteSets, FiniteSetsExt

CONSTANTS
    Lines,     \* the IRQ lines that devices raise, 0 (PIT) and 1 (keyboard) among them
    Faults,    \* the CPU exceptions that happen
    TickWrap,  \* 2^32: tick_count is a uint32_t
    Sleeps     \* the arguments of sleep_ticks

Irqs   == 0 .. 15
Master == 0 .. 7
Slave  == 8 .. 15

ASSUME InterruptsAssumption ==
    /\ {0, 1} \subseteq Lines /\ Lines \subseteq Irqs \ {2}
    /\ Faults \subseteq 0 .. 31
    /\ TickWrap \in Nat \ {0}
    /\ Sleeps \subseteq 0 .. (TickWrap - 1)

VARIABLES
    at,            \* where the boot context is in kernel_main, or "stopped"
    serial_ready,
    gdt, idt,      \* the code selector is loaded; the vectors with a gate
    pic,           \* offset of each controller; imr, irr, isr: sets of lines
    irq_handlers,
    eflags_if,
    stack,         \* what interrupts have pushed on the boot stack, top last
    kbd,           \* full: the keyboard's output buffer is full;
                   \* missed: it was when the controllers were reset (history)
    tick_count, sleep,
    end,           \* why the machine stopped, and the vector it shows
    cause          \* the last vector the CPU took: raised by "fault" or "irq" (history)

vars == <<at, serial_ready, gdt, idt, pic, irq_handlers, eflags_if, stack, kbd,
          tick_count, sleep, end, cause>>

tables == <<serial_ready, gdt, idt, irq_handlers>>
clock  == <<tick_count, sleep>>

Running == at # "stopped"

\* The code of the boot context runs: no frame lies on its stack.
Runs(place) == at = place /\ stack = <<>>

Stop(why, vector) ==
    /\ at' = "stopped"
    /\ eflags_if' = FALSE
    /\ end' = [why |-> why, vector |-> vector, serial |-> serial_ready]

NoVector == -1
NoCause  == [by |-> "none", vector |-> NoVector]
NoSleep  == [start |-> 0, ticks |-> 0, passed |-> 0]
-----------------------------------------------------------------------------
\* Words on the stack: what they are, and their value.
Word(name, value) == <<name, value>>

\* The CPU pushes EFLAGS, CS and EIP, and for some exceptions a code.
ErrorCodes == {8, 10, 11, 12, 13, 14, 17, 21, 29, 30}

CpuPush(vector) ==
    <<Word("eflags", IF eflags_if THEN 1 ELSE 0), Word("cs", 8), Word("eip", 0)>>
        \o (IF vector \in ErrorCodes THEN <<Word("code", 0)>> ELSE <<>>)

\* Mutant: no stub knows the exceptions added after the 486.
ISR_ERR_486 == {8, 10, 11, 12, 13, 14, 17}

\* The stubs of isr.asm that rely on the CPU's error code ...
ISR_ERR == {8, 10, 11, 12, 13, 14, 17, 21, 29, 30}

\* ... the others push a 0 in its place; then the vector.
StubPush(vector) ==
    (IF vector \in ISR_ERR THEN <<>> ELSE <<Word("code", 0)>>) \o <<Word("int_no", vector)>>

\* common_isr_stub: pusha, and ds; the stack is now a registers_t.
CommonPush == [i \in 1 .. 8 |-> Word("reg", i)] \o <<Word("ds", 16)>>

\* regs->int_no, at offset 36 from the top.
int_no == stack[Len(stack) - 9][2]

\* The end of common_isr_stub drops ds, the registers, int_no and err_code.
Unwound == SubSeq(stack, 1, Len(stack) - 11)

\* A vector without a gate, or without a valid selector, becomes a triple
\* fault: the machine starts again.
Enter(vector) ==
    \/ /\ gdt /\ vector \in idt
       /\ stack' = stack \o CpuPush(vector) \o StubPush(vector) \o CommonPush
       /\ eflags_if' = FALSE
       /\ UNCHANGED <<at, end>>
    \/ /\ ~(gdt /\ vector \in idt)
       /\ Stop("reset", vector)
       /\ UNCHANGED stack
-----------------------------------------------------------------------------
\* The 8259s.  Line 2 of the master is the slave's output; a lower number
\* has priority; a line in service holds back itself and those below it.
Pending(lines) ==
    {i \in (pic.irr \ pic.imr) \cap lines : \A j \in pic.isr \cap lines : i < j}

MasterPending ==
    Pending(Master) \cup
        (IF Pending(Slave) # {} /\ 2 \notin pic.imr /\ \A j \in pic.isr \cap Master : j > 2
         THEN {2} ELSE {})

Vector(line) == IF line < 8 THEN pic.offset[1] + line ELSE pic.offset[2] + line - 8

\* The controllers take part in the interrupt of one line: the bit of the
\* line, and for the slave that of line 2, are in service.
InService(line) == IF line < 8 THEN {line} ELSE {2, line}

Irq(line) ==
    /\ eflags_if
    /\ MasterPending # {}
    /\ LET m == Min(MasterPending)
       IN  line = IF m = 2 THEN Min(Pending(Slave)) ELSE m
    /\ Enter(Vector(line))
    /\ cause' = [by |-> "irq", vector |-> Vector(line)]
    /\ pic' = [pic EXCEPT !.irr = @ \ {line}, !.isr = @ \cup InService(line)]
    /\ UNCHANGED <<tables, kbd, clock>>

\* A line that falls before the CPU answers: the controller names its line
\* 7, and nothing of its own is in service.
Spurious(line) ==
    /\ eflags_if
    /\ line \in {7, 15}
    /\ pic.isr = {}
    /\ Enter(Vector(line))
    /\ cause' = [by |-> "irq", vector |-> Vector(line)]
    /\ pic' = [pic EXCEPT !.isr = IF line = 15 THEN {2} ELSE {}]
    /\ UNCHANGED <<tables, kbd, clock>>

\* A CPU exception, in the boot context or in a handler.
Fault(vector) ==
    /\ Running
    /\ cause.by = "fault" => stack = <<>>
    /\ Enter(vector)
    /\ cause' = [by |-> "fault", vector |-> vector]
    /\ UNCHANGED <<tables, pic, kbd, clock>>

\* Devices: a rising edge is kept until the line is served.
Raise(line) ==
    /\ line # 1
    /\ pic' = [pic EXCEPT !.irr = @ \cup {line}]
    /\ UNCHANGED <<at, tables, eflags_if, stack, kbd, clock, end, cause>>

\* The next scancode waits in the keyboard until port 0x60 has been read.
KeyEvent ==
    /\ ~kbd.full
    /\ kbd' = [kbd EXCEPT !.full = TRUE]
    /\ pic' = [pic EXCEPT !.irr = @ \cup {1}]
    /\ UNCHANGED <<at, tables, eflags_if, stack, clock, end, cause>>
-----------------------------------------------------------------------------
\* A non-specific EOI ends the highest line in service of a controller.
Eoi(bits, lines) == bits \ {j \in lines : j = Min(bits \cap lines)}

\* Mutant: the slave gets no EOI.
pic_send_eoi_master_only(irq) == Eoi(pic.isr, IF pic.isr \cap Master = {} THEN {} ELSE Master)

pic_send_eoi(irq) ==
    LET ended == IF irq >= 8 /\ pic.isr \cap Slave # {} THEN Eoi(pic.isr, Slave) ELSE pic.isr
    IN  IF ended \cap Master # {} THEN Eoi(ended, Master) ELSE ended

\* kernel_panic: cli, the message on the screen and, once it is ready, on the
\* serial port; then hlt for ever.
kernel_panic(vector) ==
    /\ Stop("panic", vector)
    /\ UNCHANGED <<tables, pic, stack, kbd, clock, cause>>

\* Mutant: a counter that does not wrap around.
timer_handler_wide ==
    /\ tick_count' = tick_count + 1
    /\ sleep' = IF at = "sleep" THEN [sleep EXCEPT !.passed = Min({@ + 1, TickWrap})] ELSE sleep
    /\ UNCHANGED kbd

\* timer_handler and keyboard_handler, as far as this module is concerned.
timer_handler ==
    /\ tick_count' = (tick_count + 1) % TickWrap
    /\ sleep' = IF at = "sleep" THEN [sleep EXCEPT !.passed = Min({@ + 1, TickWrap})] ELSE sleep
    /\ UNCHANGED kbd

keyboard_handler ==
    /\ kbd' = [kbd EXCEPT !.full = FALSE]
    /\ UNCHANGED clock

\* common_isr_handler for a hardware interrupt, EOI, the end of the common
\* stub and iret.
HandleIrq ==
    /\ Running /\ stack # <<>> /\ int_no \in 32 .. 47
    /\ LET irq == int_no - 32
       IN  /\ CASE irq_handlers[irq] = "timer_handler" -> timer_handler
                [] irq_handlers[irq] = "keyboard_handler" -> keyboard_handler
                [] OTHER -> UNCHANGED <<kbd, clock>>
           /\ pic' = [pic EXCEPT !.isr = pic_send_eoi(irq)]
    /\ stack' = SubSeq(Unwound, 1, Len(Unwound) - 3)
    /\ eflags_if' = (Unwound[Len(Unwound) - 2] = Word("eflags", 1))
    /\ cause' = NoCause
    /\ UNCHANGED <<at, tables, end>>

\* common_isr_handler for an exception: kernel_panic(exception_names[vec]).
HandleException ==
    /\ Running /\ stack # <<>> /\ int_no < 32
    /\ kernel_panic(int_no)
-----------------------------------------------------------------------------
\* Mutant: interrupts are enabled before the keyboard driver is there.
BootOrderStiEarly ==
    <<"gdt_init", "vga_init", "serial_init", "boot_screen", "idt_init", "pic_init",
      "pit_init", "pmm_init", "scheduler_init", "sti", "keyboard_init", "shell">>

\* Mutant: interrupts are enabled before the controllers are remapped.
BootOrderRemapLate ==
    <<"gdt_init", "vga_init", "serial_init", "boot_screen", "idt_init", "pit_init",
      "pmm_init", "keyboard_init", "scheduler_init", "sti", "pic_init", "shell">>

\* The calls of kernel_main, in order.
BootOrder ==
    <<"gdt_init", "vga_init", "serial_init", "boot_screen", "idt_init", "pic_init",
      "pit_init", "pmm_init", "keyboard_init", "scheduler_init", "sti", "shell">>

\* The call of kernel_main that is reached next returns.
Call(name) ==
    \E i \in 1 .. (Len(BootOrder) - 1) :
        /\ BootOrder[i] = name
        /\ Runs(name)
        /\ at' = BootOrder[i + 1]

\* What GRUB leaves: interrupts off, the controllers as the BIOS set them.
Init ==
    /\ at = "kernel_start"
    /\ serial_ready = FALSE
    /\ gdt = FALSE
    /\ idt = {}
    /\ \E masked \in {{}, Irqs} :
          pic = [offset |-> <<8, 112>>, imr |-> masked, irr |-> {}, isr |-> {}]
    /\ irq_handlers = [i \in Irqs |-> "none"]
    /\ eflags_if = FALSE
    /\ stack = <<>>
    /\ kbd = [full |-> FALSE, missed |-> FALSE]
    /\ tick_count = 0
    /\ sleep = NoSleep
    /\ end = [why |-> "none", vector |-> NoVector, serial |-> FALSE]
    /\ cause = NoCause

\* boot.asm: "Validate Multiboot magic in EAX".
kernel_start ==
    /\ Runs("kernel_start")
    /\ \/ at' = BootOrder[1] /\ UNCHANGED <<eflags_if, end>>
       \/ Stop("bad_magic", NoVector)
    /\ UNCHANGED <<tables, pic, stack, kbd, clock, cause>>

gdt_init ==
    /\ Call("gdt_init")
    /\ gdt' = TRUE
    /\ UNCHANGED <<serial_ready, idt, irq_handlers, pic, eflags_if, stack, kbd, clock, end, cause>>

serial_init ==
    /\ Call("serial_init")
    /\ serial_ready' = TRUE
    /\ UNCHANGED <<gdt, idt, irq_handlers, pic, eflags_if, stack, kbd, clock, end, cause>>

\* vga_init, boot_screen and pmm_init keep what they change to themselves.
OwnState ==
    /\ Call("vga_init") \/ Call("boot_screen") \/ Call("pmm_init")
    /\ UNCHANGED <<tables, pic, eflags_if, stack, kbd, clock, end, cause>>

\* Vectors 0 .. 47 get an interrupt gate; the handler table is cleared.
idt_init ==
    /\ Call("idt_init")
    /\ idt' = 0 .. 47
    /\ irq_handlers' = [i \in Irqs |-> "none"]
    /\ UNCHANGED <<serial_ready, gdt, pic, eflags_if, stack, kbd, clock, end, cause>>

\* Mutant: the lines of the slave stay masked.
pic_init_slave_masked ==
    /\ Call("pic_init")
    /\ pic' = [offset |-> <<32, 40>>, imr |-> Slave, irr |-> {}, isr |-> {}]
    /\ kbd' = [kbd EXCEPT !.missed = kbd.full]
    /\ UNCHANGED <<tables, eflags_if, stack, clock, end, cause>>

\* ICW1 forgets the edges seen so far: a line that is already high stays
\* unnoticed until it falls.  All lines are unmasked.
pic_init ==
    /\ Call("pic_init")
    /\ pic' = [offset |-> <<32, 40>>, imr |-> {}, irr |-> {}, isr |-> {}]
    /\ kbd' = [kbd EXCEPT !.missed = kbd.full]
    /\ UNCHANGED <<tables, eflags_if, stack, clock, end, cause>>

irq_register_handler(irq, handler) ==
    /\ irq_handlers' = [irq_handlers EXCEPT ![irq] = handler]
    /\ UNCHANGED <<serial_ready, gdt, idt>>

pit_init ==
    /\ Call("pit_init")
    /\ irq_register_handler(0, "timer_handler")
    /\ UNCHANGED <<pic, eflags_if, stack, kbd, clock, end, cause>>

keyboard_init ==
    /\ Call("keyboard_init")
    /\ irq_register_handler(1, "keyboard_handler")
    /\ UNCHANGED <<pic, eflags_if, stack, kbd, clock, end, cause>>

\* There may be no page for the idle process: kernel_panic.
scheduler_init ==
    \/ /\ Call("scheduler_init")
       /\ UNCHANGED <<tables, pic, eflags_if, stack, kbd, clock, end, cause>>
    \/ /\ Runs("scheduler_init")
       /\ kernel_panic(NoVector)

\* Mutant: left to scheduler_init, as scheduler.h says ("enable interrupts").
sti_skipped ==
    /\ Call("sti")
    /\ UNCHANGED <<tables, pic, eflags_if, stack, kbd, clock, end, cause>>

sti ==
    /\ Call("sti")
    /\ eflags_if' = TRUE
    /\ UNCHANGED <<tables, pic, stack, kbd, clock, end, cause>>
-----------------------------------------------------------------------------
\* cmd_reboot and cmd_exit: cli, and the reset by the keyboard controller or
\* the power supply, or else hlt.
Shutdown ==
    /\ Runs("shell")
    /\ Stop("shutdown", NoVector)
    /\ UNCHANGED <<tables, pic, stack, kbd, clock, cause>>

\* sleep_ticks, which nothing in the repository calls, called by the shell.
sleep_ticks(ticks) ==
    /\ Runs("shell")
    /\ at' = "sleep"
    /\ sleep' = [start |-> tick_count, ticks |-> ticks, passed |-> 0]
    /\ UNCHANGED <<tables, pic, eflags_if, stack, kbd, tick_count, end, cause>>

\* Mutant: the deadline is computed first, and compared with the counter.
Slept_deadline == tick_count >= (sleep.start + sleep.ticks) % TickWrap

\* (tick_count - start) < ticks no longer holds.
Slept == (tick_count - sleep.start) % TickWrap >= sleep.ticks

WakeUp ==
    /\ Runs("sleep")
    /\ Slept
    /\ at' = "shell"
    /\ sleep' = NoSleep
    /\ UNCHANGED <<tables, pic, eflags_if, stack, kbd, tick_count, end, cause>>
-----------------------------------------------------------------------------
BootStep ==
    \/ kernel_start \/ gdt_init \/ OwnState \/ serial_init \/ idt_init \/ pic_init
    \/ pit_init \/ keyboard_init \/ scheduler_init \/ sti

Device == KeyEvent \/ \E line \in Lines : Raise(line)

Next ==
    \/ BootStep
    \/ \E line \in Irqs : Irq(line) \/ Spurious(line)
    \/ \E vector \in Faults : Fault(vector)
    \/ HandleIrq \/ HandleException
    \/ Device
    \/ Shutdown
    \/ \E ticks \in Sleeps : sleep_ticks(ticks)
    \/ WakeUp

Spec == Init /\ [][Next]_vars

(***************************************************************************)
(* Fairness.  The CPU goes on, answers the controllers, and the PIT pulses *)
(* for ever.  Between two ticks, 10 ms apart, a sleeper looks at the       *)
(* counter: strong fairness.                                               *)
(***************************************************************************)
FairSpec ==
    /\ Spec
    /\ WF_vars(BootStep)
    /\ WF_vars(HandleIrq) /\ WF_vars(HandleException)
    /\ WF_vars(Raise(0))
    /\ \A line \in Lines : SF_vars(Irq(line))
    /\ SF_vars(WakeUp)
-----------------------------------------------------------------------------
Places == {"kernel_start", "sleep", "stopped"} \cup {BootOrder[i] : i \in DOMAIN BootOrder}

TypeOK ==
    /\ at \in Places
    /\ serial_ready \in BOOLEAN /\ gdt \in BOOLEAN /\ eflags_if \in BOOLEAN
    /\ idt \subseteq 0 .. 255
    /\ pic.imr \subseteq Irqs /\ pic.irr \subseteq Irqs /\ pic.isr \subseteq Irqs
    /\ irq_handlers \in [Irqs -> {"none", "timer_handler", "keyboard_handler"}]
    /\ kbd \in [full : BOOLEAN, missed : BOOLEAN]
    /\ tick_count \in 0 .. (TickWrap - 1)
    /\ sleep \in [start : 0 .. (TickWrap - 1), ticks : Sleeps \cup {0}, passed : 0 .. TickWrap]

(***************************************************************************)
(* Whether or not the CPU pushes an error code, the frame is a registers_t *)
(* when common_isr_handler reads it: int_no is the vector the CPU took,    *)
(* and iret would find EIP, CS and EFLAGS.                                 *)
(***************************************************************************)
FrameFits ==
    Running /\ stack # <<>> =>
        /\ int_no = cause.vector
        /\ [i \in 1 .. 3 |-> Unwound[Len(Unwound) - 3 + i][1]] = <<"eflags", "cs", "eip">>

(***************************************************************************)
(* The machine stops for a reason: a panic shows the exception that really *)
(* happened (no IRQ is taken for one, as it would be with the vectors of   *)
(* the BIOS), or that of scheduler_init; it starts again by itself only    *)
(* for an exception that comes before the IDT; and the panic is mirrored   *)
(* to the serial port if it comes after serial_init.                       *)
(***************************************************************************)
StopsForCause ==
    /\ end.why = "reset" => cause.by = "fault" /\ idt = {}
    /\ end.why = "panic" =>
          /\ end.serial
          /\ end.vector # NoVector => cause = [by |-> "fault", vector |-> end.vector]

(***************************************************************************)
(* Outside handlers no line is in service, in either controller: no line   *)
(* is held back for ever.  Spurious interrupts and those without a handler *)
(* are acknowledged as well, and never end the service of another line.    *)
(***************************************************************************)
NothingInService ==
    /\ Running /\ stack = <<>> => pic.isr = {}
    /\ Running /\ stack # <<>> /\ cause.by = "irq" =>
          pic.isr \subseteq InService(int_no - 32)

\* "Busy-wait until the tick counter has advanced by at least ticks", also
\* when it wraps around meanwhile.
SleepsLongEnough ==
    [][at = "sleep" /\ at' = "shell" => sleep.passed >= sleep.ticks]_vars

\* The lines in the order of their priority: the slave's are at line 2.
Rank(line) == CASE line < 2 -> line [] line \in Slave -> line - 6 [] OTHER -> line + 7

\* Interrupts are accepted, and no line above this one asks for the CPU.
Quiet(line) == eflags_if /\ \A other \in pic.irr : Rank(other) >= Rank(line)

\* Every request of a device is served, if those above it do not claim the
\* CPU all the time and the machine does not stop.
IrqsServed ==
    \A line \in Lines :
        ([]<>Quiet(line)) => (line \in pic.irr ~> line \notin pic.irr \/ ~Running)

\* Every scancode is read, unless one was waiting when the controllers were
\* reset: then IRQ1 never comes again, since keyboard_init does not read it.
KeysRead ==
    []<>Quiet(1) => (kbd.full ~> ~kbd.full \/ kbd.missed \/ ~Running)

\* A sleeper comes back.
SleepEnds == at = "sleep" ~> at # "sleep"
=============================================================================
