-------------------------- MODULE Interrupts_proof --------------------------
(***************************************************************************)
(* Theorems about Interrupts, for any devices, any exceptions, any width   *)
(* of the tick counter and any sleeps.                                     *)
(***************************************************************************)
EXTENDS Interrupts, TLAPS, SequenceTheorems

USE DEF vars, tables, clock

\* What TypeOK leaves open: the words on the stack, and the shape of records.
WordNames == {"eflags", "cs", "eip", "code", "int_no", "reg", "ds"}
Words     == WordNames \X Int
PicType   == [offset : Int \X Int, imr : SUBSET Irqs, irr : SUBSET Irqs, isr : SUBSET Irqs]
EndType   == [why : {"none", "reset", "panic", "bad_magic", "shutdown"}, vector : Int,
              serial : BOOLEAN]
CauseType == [by : {"none", "irq", "fault"}, vector : Int]

Shapes ==
    /\ TypeOK
    /\ pic \in PicType /\ end \in EndType /\ cause \in CauseType
    /\ stack \in Seq(Words)

(***************************************************************************)
(* What the machine has at each place of kernel_main: the code selector,   *)
(* the gates and the serial port in this order, the vectors of the         *)
(* controllers before interrupts are enabled.                              *)
(***************************************************************************)
BeforeGdt    == {"kernel_start", "gdt_init"}
BeforeSerial == BeforeGdt \cup {"vga_init", "serial_init"}
BeforeIdt    == BeforeSerial \cup {"boot_screen", "idt_init"}
BeforePic    == BeforeIdt \cup {"pic_init"}
Serving      == {"shell", "sleep"}

BootFacts ==
    /\ idt \in {{}, 0 .. 47}
    /\ Running =>
          /\ at \notin BeforeGdt => gdt
          /\ at \notin BeforeSerial => serial_ready
          /\ idt # {} <=> at \notin BeforeIdt
          /\ at \notin BeforePic => pic.offset = <<32, 40>>
          /\ end.why = "none"
          /\ at \notin Serving => ~eflags_if
    /\ ~Running => ~eflags_if

(***************************************************************************)
(* The stack: nothing, the frame of one interrupt or exception, or that of *)
(* an exception in an interrupt handler.                                   *)
(***************************************************************************)
StackFacts ==
    Running =>
        /\ stack = <<>> /\ at \in Serving => eflags_if
        /\ stack # <<>> =>
              /\ ~eflags_if
              /\ idt # {}
              /\ Len(stack) \in {14, 28}
              /\ stack[Len(stack) - 13][1] = "eflags"
              /\ stack[Len(stack) - 12][1] = "cs"
              /\ stack[Len(stack) - 11][1] = "eip"
              /\ int_no = cause.vector
              /\ \/ /\ cause.by = "irq" /\ cause.vector \in 32 .. 47
                    /\ Len(stack) = 14 /\ stack[1] = Word("eflags", 1)
                    /\ at \in Serving
                 \/ cause.by = "fault" /\ cause.vector \in 0 .. 31

\* A sleeper counts every tick that tick_count shows, across its wrap.
TicksCounted == at = "sleep" => (tick_count - sleep.start) % TickWrap <= sleep.passed

MachineInv ==
    Shapes /\ BootFacts /\ StackFacts /\ NothingInService /\ StopsForCause /\ TicksCounted
-----------------------------------------------------------------------------
\* kernel_main goes from one call to the next, with no frame on the stack.
Moves(from, to) == stack = <<>> /\ at = from /\ at' = to

\* The twelve places of kernel_main, one by one.
LEMMA BootOrderIs ==
    /\ Len(BootOrder) = 12 /\ DOMAIN BootOrder = 1 .. 12
    /\ BootOrder[1] = "gdt_init" /\ BootOrder[2] = "vga_init" /\ BootOrder[3] = "serial_init"
    /\ BootOrder[4] = "boot_screen" /\ BootOrder[5] = "idt_init" /\ BootOrder[6] = "pic_init"
    /\ BootOrder[7] = "pit_init" /\ BootOrder[8] = "pmm_init" /\ BootOrder[9] = "keyboard_init"
    /\ BootOrder[10] = "scheduler_init" /\ BootOrder[11] = "sti" /\ BootOrder[12] = "shell"
    /\ \A i \in 1 .. 12 : i \in {1, 2, 3, 4, 5, 6, 7, 8, 9, 10, 11, 12}
  BY DEF BootOrder

\* The order of the calls in kernel_main.
LEMMA CallMoves ==
    /\ Call("gdt_init") => Moves("gdt_init", "vga_init")
    /\ Call("vga_init") => Moves("vga_init", "serial_init")
    /\ Call("serial_init") => Moves("serial_init", "boot_screen")
    /\ Call("boot_screen") => Moves("boot_screen", "idt_init")
    /\ Call("idt_init") => Moves("idt_init", "pic_init")
    /\ Call("pic_init") => Moves("pic_init", "pit_init")
    /\ Call("pit_init") => Moves("pit_init", "pmm_init")
    /\ Call("pmm_init") => Moves("pmm_init", "keyboard_init")
    /\ Call("keyboard_init") => Moves("keyboard_init", "scheduler_init")
    /\ Call("scheduler_init") => Moves("scheduler_init", "sti")
    /\ Call("sti") => Moves("sti", "shell")
<1>1. ASSUME NEW name, Call(name)
      PROVE  \E i \in 1 .. 11 : BootOrder[i] = name /\ Moves(name, BootOrder[i + 1])
  BY <1>1, BootOrderIs DEF Call, Runs, Moves
<1> QED BY <1>1, BootOrderIs

\* The places are those that the facts about the boot name.
LEMMA PlacesAre ==
    Places = BeforePic \cup Serving \cup
             {"pit_init", "pmm_init", "keyboard_init", "scheduler_init", "sti", "stopped"}
  BY BootOrderIs DEF Places, BeforePic, BeforeIdt, BeforeSerial, BeforeGdt, Serving
-----------------------------------------------------------------------------
\* u is s with t behind it, and s has m words.
Joined(s, t, u, m) ==
    /\ u \in Seq(Words)
    /\ Len(u) = m + Len(t)
    /\ \A i \in 1 .. m : u[i] = s[i]
    /\ \A i \in 1 .. Len(t) : u[m + i] = t[i]

\* Sequences that are put one behind the other keep their elements.
LEMMA ConcatFacts ==
    \A s, t \in Seq(Words) : Joined(s, t, s \o t, Len(s))
<1> SUFFICES ASSUME NEW s \in Seq(Words), NEW t \in Seq(Words)
             PROVE  Joined(s, t, s \o t, Len(s))
  OBVIOUS
<1>1. s \o t \in Seq(Words) /\ Len(s \o t) = Len(s) + Len(t)
  OBVIOUS
<1>2. \A i \in 1 .. Len(s) : (s \o t)[i] = s[i]
  OBVIOUS
<1>3. \A i \in 1 .. Len(t) : (s \o t)[Len(s) + i] = t[i]
  OBVIOUS
<1> QED BY <1>1, <1>2, <1>3 DEF Joined

\* What the CPU pushes: an error code, or not, behind EIP.
LEMMA CpuWords ==
    ASSUME NEW vector \in 0 .. 255
    PROVE  /\ CpuPush(vector) \in Seq(Words)
           /\ Len(CpuPush(vector)) = IF vector \in ErrorCodes THEN 4 ELSE 3
           /\ CpuPush(vector)[1] = Word("eflags", IF eflags_if THEN 1 ELSE 0)
           /\ CpuPush(vector)[2] = Word("cs", 8)
           /\ CpuPush(vector)[3] = Word("eip", 0)
<1> DEFINE s == <<Word("eflags", IF eflags_if THEN 1 ELSE 0), Word("cs", 8), Word("eip", 0)>>
           t == IF vector \in ErrorCodes THEN <<Word("code", 0)>> ELSE <<>>
<1>1. s \in Seq(Words) /\ Len(s) = 3
  BY DEF Words, WordNames, Word
<1>2. t \in Seq(Words) /\ Len(t) = IF vector \in ErrorCodes THEN 1 ELSE 0
  BY DEF Words, WordNames, Word
<1>3. /\ s[1] = Word("eflags", IF eflags_if THEN 1 ELSE 0)
      /\ s[2] = Word("cs", 8) /\ s[3] = Word("eip", 0)
  OBVIOUS
<1> HIDE DEF s, t
<1>4. CpuPush(vector) = s \o t
  BY DEF CpuPush, s, t
<1>5. Joined(s, t, CpuPush(vector), Len(s))
  BY <1>1, <1>2, <1>4, ConcatFacts, Zenon
<1> QED BY <1>1, <1>2, <1>3, <1>5 DEF Joined

\* What the stub pushes: the vector, above an error code if there is none.
LEMMA StubWords ==
    ASSUME NEW vector \in 0 .. 255
    PROVE  /\ StubPush(vector) \in Seq(Words)
           /\ Len(StubPush(vector)) = IF vector \in ErrorCodes THEN 1 ELSE 2
           /\ StubPush(vector)[Len(StubPush(vector))] = Word("int_no", vector)
<1> DEFINE s == IF vector \in ISR_ERR THEN <<>> ELSE <<Word("code", 0)>>
           t == <<Word("int_no", vector)>>
<1>1. s \in Seq(Words) /\ Len(s) = IF vector \in ErrorCodes THEN 0 ELSE 1
  BY DEF Words, WordNames, Word, ISR_ERR, ErrorCodes
<1>2. t \in Seq(Words) /\ Len(t) = 1 /\ t[1] = Word("int_no", vector)
  BY DEF Words, WordNames, Word
<1> HIDE DEF s, t
<1>3. StubPush(vector) = s \o t
  BY DEF StubPush, s, t
<1>4. Joined(s, t, StubPush(vector), Len(s))
  BY <1>1, <1>2, <1>3, ConcatFacts, Zenon
<1> QED BY <1>1, <1>2, <1>4 DEF Joined

\* What the common stub pushes.
LEMMA CommonWords == CommonPush \in Seq(Words) /\ Len(CommonPush) = 9
<1> DEFINE s == [i \in 1 .. 8 |-> Word("reg", i)]
           t == <<Word("ds", 16)>>
<1>1. s \in [1 .. 8 -> Words]
  BY DEF Words, WordNames, Word
<1>2. t \in Seq(Words) /\ Len(t) = 1
  BY DEF Words, WordNames, Word
<1> HIDE DEF s, t
<1>3. s \in Seq(Words) /\ Len(s) = 8
  <2>1. s \in Seq(Words)
    BY <1>1, 8 \in Nat, SeqDef
  <2>2. DOMAIN s = 1 .. Len(s) /\ Len(s) \in Nat
    BY <2>1
  <2>3. DOMAIN s = 1 .. 8
    BY <1>1
  <2>4. ASSUME NEW n \in Nat, 1 .. n = 1 .. 8 PROVE n = 8
    <3>1. 8 \in 1 .. n /\ 9 \notin 1 .. n
      BY <2>4
    <3> QED BY <3>1
  <2> QED BY <2>1, <2>2, <2>3, <2>4
<1>4. CommonPush = s \o t
  BY DEF CommonPush, s, t
<1>5. Joined(s, t, CommonPush, Len(s))
  BY <1>2, <1>3, <1>4, ConcatFacts, Zenon
<1> QED BY <1>2, <1>3, <1>5 DEF Joined

\* What lies on the stack once the CPU, the stub and the common stub have
\* pushed their words.
Pushed(vector) == stack \o CpuPush(vector) \o StubPush(vector) \o CommonPush

\* The error code is there exactly once: a registers_t fits on the frame.
LEMMA FrameLayout ==
    ASSUME stack \in Seq(Words), NEW vector \in 0 .. 255
    PROVE  /\ Pushed(vector) \in Seq(Words)
           /\ Len(Pushed(vector)) = Len(stack) + 14
           /\ Pushed(vector)[Len(stack) + 1] = Word("eflags", IF eflags_if THEN 1 ELSE 0)
           /\ Pushed(vector)[Len(stack) + 2] = Word("cs", 8)
           /\ Pushed(vector)[Len(stack) + 3] = Word("eip", 0)
           /\ Pushed(vector)[Len(stack) + 5] = Word("int_no", vector)
<1> DEFINE cpu  == CpuPush(vector)
           stub == StubPush(vector)
           one  == stack \o cpu
           two  == one \o stub
           all  == two \o CommonPush
           n    == Len(stack)
<1>1. n \in Nat /\ stack \in Seq(Words)
  OBVIOUS
<1>2. CommonPush \in Seq(Words) /\ Len(CommonPush) = 9
  BY CommonWords
<1>3. /\ cpu \in Seq(Words) /\ Len(cpu) = IF vector \in ErrorCodes THEN 4 ELSE 3
      /\ cpu[1] = Word("eflags", IF eflags_if THEN 1 ELSE 0)
      /\ cpu[2] = Word("cs", 8) /\ cpu[3] = Word("eip", 0)
  BY CpuWords
<1>4. /\ stub \in Seq(Words) /\ Len(stub) = IF vector \in ErrorCodes THEN 1 ELSE 2
      /\ stub[Len(stub)] = Word("int_no", vector)
  BY StubWords
<1>5. Pushed(vector) = all
  BY DEF Pushed
<1> HIDE DEF cpu, stub
<1>6. Joined(stack, cpu, one, n)
  BY <1>1, <1>3, ConcatFacts, Zenon
<1> HIDE DEF one
<1>7. Joined(one, stub, two, Len(one))
  <2>1. one \in Seq(Words)
    BY <1>6 DEF Joined
  <2> QED BY <1>4, <2>1, ConcatFacts, Zenon
<1> HIDE DEF two
<1>8. Joined(two, CommonPush, all, Len(two))
  <2>1. two \in Seq(Words)
    BY <1>7 DEF Joined
  <2> QED BY <1>2, <2>1, ConcatFacts, Zenon
<1> HIDE DEF all, n
<1>9. /\ Len(one) = n + Len(cpu) /\ Len(two) = n + 5
      /\ one[n + 1] = cpu[1] /\ one[n + 2] = cpu[2] /\ one[n + 3] = cpu[3]
  BY <1>1, <1>3, <1>4, <1>6, <1>7 DEF Joined
<1>10. /\ two[n + 1] = cpu[1] /\ two[n + 2] = cpu[2] /\ two[n + 3] = cpu[3]
       /\ two[n + 5] = stub[Len(stub)]
  <2>1. {n + 1, n + 2, n + 3} \subseteq 1 .. Len(one)
    BY <1>1, <1>3, <1>9
  <2>2. n + 5 = Len(one) + Len(stub) /\ Len(stub) \in 1 .. Len(stub)
    BY <1>1, <1>3, <1>4, <1>9
  <2>3. \A i \in 1 .. Len(one) : two[i] = one[i]
    BY <1>7 DEF Joined
  <2>4. \A i \in 1 .. Len(stub) : two[Len(one) + i] = stub[i]
    BY <1>7 DEF Joined
  <2> QED BY <1>9, <2>1, <2>2, <2>3, <2>4
<1>11. /\ all \in Seq(Words) /\ Len(all) = n + 14
       /\ all[n + 1] = two[n + 1] /\ all[n + 2] = two[n + 2] /\ all[n + 3] = two[n + 3]
       /\ all[n + 5] = two[n + 5]
  <2>1. {n + 1, n + 2, n + 3, n + 5} \subseteq 1 .. Len(two)
    BY <1>1, <1>9
  <2>2. all \in Seq(Words) /\ Len(all) = Len(two) + Len(CommonPush)
    BY <1>8 DEF Joined
  <2>3. \A i \in 1 .. Len(two) : all[i] = two[i]
    BY <1>8 DEF Joined
  <2> QED BY <1>1, <1>2, <1>9, <2>1, <2>2, <2>3
<1> QED BY <1>3, <1>4, <1>5, <1>10, <1>11 DEF n
-----------------------------------------------------------------------------
\* The state in which GRUB hands over satisfies the invariant.
LEMMA InitMachine == Init => MachineInv
<1> SUFFICES ASSUME Init PROVE MachineInv
  OBVIOUS
<1> USE InterruptsAssumption DEF Init
<1>1. TypeOK
  <2>1. at \in Places
    BY PlacesAre DEF BeforePic, BeforeIdt, BeforeSerial, BeforeGdt
  <2>2. pic.imr \subseteq Irqs /\ pic.irr \subseteq Irqs /\ pic.isr \subseteq Irqs
    OBVIOUS
  <2>3. sleep \in [start : 0 .. (TickWrap - 1), ticks : Sleeps \cup {0}, passed : 0 .. TickWrap]
    BY DEF NoSleep
  <2>4. /\ irq_handlers \in [Irqs -> {"none", "timer_handler", "keyboard_handler"}]
        /\ kbd \in [full : BOOLEAN, missed : BOOLEAN]
    OBVIOUS
  <2>5. tick_count \in 0 .. (TickWrap - 1) /\ idt \subseteq 0 .. 255
    OBVIOUS
  <2>6. serial_ready \in BOOLEAN /\ gdt \in BOOLEAN /\ eflags_if \in BOOLEAN
    OBVIOUS
  <2> HIDE DEF Init
  <2> QED BY <2>1, <2>2, <2>3, <2>4, <2>5, <2>6 DEF TypeOK
<1>2. Shapes
  BY <1>1 DEF Shapes, PicType, EndType, CauseType, NoCause, NoVector, Irqs
<1>3. BootFacts
  BY DEF BootFacts, Running, BeforePic, BeforeIdt, BeforeSerial, BeforeGdt, Serving
<1>4. StackFacts /\ NothingInService /\ StopsForCause /\ TicksCounted
  BY DEF StackFacts, NothingInService, StopsForCause, TicksCounted, Serving
<1> QED BY <1>2, <1>3, <1>4 DEF MachineInv

\* What a step of kernel_main leaves alone.
Kept == UNCHANGED <<stack, tick_count, sleep, cause>>

\* A call of kernel_main that returns keeps the invariant, if it leaves the
\* tables as the next place needs them.
LEMMA BootCall ==
    ASSUME MachineInv, Kept, NEW from \in Places, NEW to \in Places, Moves(from, to),
           {from, to} \cap {"stopped", "sleep"} = {},
           TypeOK', pic' \in PicType, UNCHANGED end, BootFacts',
           pic'.isr = {}, to = "shell" => eflags_if'
    PROVE  MachineInv'
<1> USE DEF Kept, Moves, MachineInv
<1>1. Shapes'
  BY DEF Shapes
<1>2. Running /\ Running' /\ end.why = "none"
  BY DEF Running, BootFacts, Moves
<1>3. StackFacts'
  BY DEF StackFacts, Serving
<1>4. NothingInService' /\ StopsForCause' /\ TicksCounted'
  BY <1>2 DEF NothingInService, StopsForCause, TicksCounted
<1> QED BY <1>1, <1>3, <1>4

\* The machine stops: its tables are what they were.
LEMMA StopShapes ==
    ASSUME Shapes, NEW why \in {"reset", "panic", "bad_magic", "shutdown"}, NEW vector \in Int,
           Stop(why, vector), cause' \in CauseType, pic' \in PicType,
           UNCHANGED <<tables, stack, kbd, clock>>
    PROVE  Shapes'
<1>1. end' \in EndType
  BY DEF Stop, EndType, Shapes, TypeOK
<1>2. at' \in Places /\ eflags_if' \in BOOLEAN
  BY PlacesAre DEF Stop
<1>3. TypeOK'
  BY <1>2 DEF Shapes, TypeOK, PicType
<1> QED BY <1>1, <1>3 DEF Shapes

\* The steps of kernel_main, the tables they fill included.
LEMMA BootStepKeeps ==
    ASSUME MachineInv, BootStep PROVE MachineInv'
<1> USE InterruptsAssumption
<1> DEFINE Table == /\ TypeOK' /\ pic' \in PicType /\ BootFacts' /\ pic'.isr = {}
<1>0. /\ Shapes /\ BootFacts /\ TypeOK /\ pic \in PicType /\ end \in EndType
      /\ Running /\ stack = <<>> => pic.isr = {}
      /\ StackFacts
  BY DEF MachineInv, Shapes, NothingInService
<1> USE DEF BeforePic, BeforeIdt, BeforeSerial, BeforeGdt, Serving
<1>1. CASE kernel_start
  <2>1. CASE Stop("bad_magic", NoVector)
    <3>1. Shapes'
      BY <1>1, <2>1, StopShapes DEF kernel_start, NoVector, MachineInv, Shapes
    <3>2. BootFacts' /\ StackFacts' /\ NothingInService' /\ TicksCounted' /\ StopsForCause'
      BY <1>0, <1>1, <2>1
      DEF kernel_start, Stop, Runs, BootFacts, StackFacts, Running, NothingInService, TicksCounted,
          StopsForCause
    <3> QED BY <3>1, <3>2 DEF MachineInv
  <2>2. CASE at' = BootOrder[1] /\ UNCHANGED <<eflags_if, end>>
    <3>1. Moves("kernel_start", "gdt_init") /\ Kept
      BY <1>1, <2>2, BootOrderIs DEF kernel_start, Runs, Moves, Kept
    <3>2. Table
      BY <1>0, <1>1, <2>2, <3>1, PlacesAre
      DEF kernel_start, Moves, TypeOK, BootFacts, Running
    <3> QED BY <1>0, <2>2, <3>1, <3>2, PlacesAre, BootCall
  <2> QED BY <1>1, <2>1, <2>2 DEF kernel_start
<1>2. CASE gdt_init
  <2>1. Moves("gdt_init", "vga_init") /\ Kept
    BY <1>2, CallMoves DEF gdt_init, Kept
  <2>2. Table
    BY <1>0, <1>2, <2>1, PlacesAre DEF gdt_init, Moves, TypeOK, BootFacts, Running
  <2> QED BY <1>0, <1>2, <2>1, <2>2, PlacesAre, BootCall DEF gdt_init
<1>3. CASE serial_init
  <2>1. Moves("serial_init", "boot_screen") /\ Kept
    BY <1>3, CallMoves DEF serial_init, Kept
  <2>2. Table
    BY <1>0, <1>3, <2>1, PlacesAre DEF serial_init, Moves, TypeOK, BootFacts, Running
  <2> QED BY <1>0, <1>3, <2>1, <2>2, PlacesAre, BootCall DEF serial_init
<1>4. CASE OwnState
  <2>1. Kept /\ UNCHANGED <<tables, pic, eflags_if, kbd, end>>
    BY <1>4 DEF OwnState, Kept
  <2>2. ASSUME NEW from \in {"vga_init", "boot_screen", "pmm_init"},
               NEW to \in {"serial_init", "idt_init", "keyboard_init"}, Moves(from, to),
               from = "vga_init" <=> to = "serial_init", from = "boot_screen" <=> to = "idt_init"
        PROVE  MachineInv'
    <3>1. Table
      BY <1>0, <2>1, <2>2, PlacesAre DEF Kept, Moves, TypeOK, BootFacts, Running
    <3> QED BY <1>0, <2>1, <2>2, <3>1, PlacesAre, BootCall
  <2> QED BY <1>4, <2>2, CallMoves DEF OwnState
<1>5. CASE idt_init
  <2>1. Moves("idt_init", "pic_init") /\ Kept
    BY <1>5, CallMoves DEF idt_init, Kept
  <2>2. Table
    BY <1>0, <1>5, <2>1, PlacesAre DEF idt_init, Moves, TypeOK, BootFacts, Running
  <2> QED BY <1>0, <1>5, <2>1, <2>2, PlacesAre, BootCall DEF idt_init
<1>6. CASE pic_init
  <2>1. Moves("pic_init", "pit_init") /\ Kept
    BY <1>6, CallMoves DEF pic_init, Kept
  <2>2. pic' = [offset |-> <<32, 40>>, imr |-> {}, irr |-> {}, isr |-> {}]
    BY <1>6 DEF pic_init
  <2>3. pic' \in PicType /\ pic'.isr = {} /\ pic'.offset = <<32, 40>>
    BY <2>2 DEF PicType
  <2>4. TypeOK'
    BY <1>0, <1>6, <2>1, <2>3, PlacesAre DEF pic_init, Moves, TypeOK, PicType
  <2>5. BootFacts'
    BY <1>0, <1>6, <2>1, <2>3 DEF pic_init, Moves, BootFacts, Running
  <2> QED BY <1>0, <1>6, <2>1, <2>3, <2>4, <2>5, PlacesAre, BootCall DEF pic_init
<1>7. CASE pit_init
  <2>1. Moves("pit_init", "pmm_init") /\ Kept
    BY <1>7, CallMoves DEF pit_init, Kept
  <2>2. Table
    BY <1>0, <1>7, <2>1, PlacesAre
    DEF pit_init, irq_register_handler, Moves, TypeOK, BootFacts, Running
  <2> QED BY <1>0, <1>7, <2>1, <2>2, PlacesAre, BootCall DEF pit_init
<1>8. CASE keyboard_init
  <2>1. Moves("keyboard_init", "scheduler_init") /\ Kept
    BY <1>8, CallMoves DEF keyboard_init, Kept
  <2>2. Table
    BY <1>0, <1>8, <2>1, PlacesAre
    DEF keyboard_init, irq_register_handler, Moves, TypeOK, BootFacts, Running
  <2> QED BY <1>0, <1>8, <2>1, <2>2, PlacesAre, BootCall DEF keyboard_init
<1>9. CASE scheduler_init
  <2>1. CASE Call("scheduler_init") /\
             UNCHANGED <<tables, pic, eflags_if, stack, kbd, clock, end, cause>>
    <3>1. Moves("scheduler_init", "sti") /\ Kept
      BY <2>1, CallMoves DEF Kept
    <3>2. Table
      BY <1>0, <2>1, <3>1, PlacesAre DEF Moves, TypeOK, BootFacts, Running
    <3> QED BY <1>0, <2>1, <3>1, <3>2, PlacesAre, BootCall
  <2>2. CASE Runs("scheduler_init") /\ kernel_panic(NoVector)
    <3>1. Shapes'
      BY <2>2, StopShapes DEF kernel_panic, NoVector, MachineInv, Shapes
    <3>2. BootFacts' /\ StackFacts' /\ NothingInService' /\ TicksCounted' /\ StopsForCause'
      BY <1>0, <2>2
      DEF kernel_panic, Stop, Runs, BootFacts, StackFacts, Running, NothingInService, TicksCounted,
          StopsForCause
    <3> QED BY <3>1, <3>2 DEF MachineInv
  <2> QED BY <1>9, <2>1, <2>2 DEF scheduler_init
<1>10. CASE sti
  <2>1. Moves("sti", "shell") /\ Kept
    BY <1>10, CallMoves DEF sti, Kept
  <2>2. Table
    BY <1>0, <1>10, <2>1, PlacesAre DEF sti, Moves, TypeOK, BootFacts, Running
  <2> QED BY <1>0, <1>10, <2>1, <2>2, PlacesAre, BootCall DEF sti
<1> QED
  BY <1>1, <1>2, <1>3, <1>4, <1>5, <1>6, <1>7, <1>8, <1>9, <1>10 DEF BootStep
-----------------------------------------------------------------------------
\* An interrupt or exception that finds its gate: the frame is in place.
LEMMA EnterFrame ==
    ASSUME MachineInv, NEW vector \in 0 .. 47, stack' = Pushed(vector)
    PROVE  /\ stack' \in Seq(Words) /\ stack' # <<>>
           /\ Len(stack') = Len(stack) + 14
           /\ stack'[Len(stack') - 13][1] = "eflags"
           /\ stack'[Len(stack') - 12][1] = "cs"
           /\ stack'[Len(stack') - 11][1] = "eip"
           /\ int_no' = vector
           /\ stack = <<>> /\ eflags_if => stack'[1] = Word("eflags", 1)
<1>1. stack \in Seq(Words) /\ vector \in 0 .. 255 /\ Len(stack) \in Nat
  BY DEF MachineInv, Shapes
<1>2. /\ stack' \in Seq(Words) /\ Len(stack') = Len(stack) + 14
      /\ stack'[Len(stack) + 1] = Word("eflags", IF eflags_if THEN 1 ELSE 0)
      /\ stack'[Len(stack) + 2] = Word("cs", 8)
      /\ stack'[Len(stack) + 3] = Word("eip", 0)
      /\ stack'[Len(stack) + 5] = Word("int_no", vector)
  BY <1>1, FrameLayout
<1>3. /\ Len(stack') - 13 = Len(stack) + 1 /\ Len(stack') - 12 = Len(stack) + 2
      /\ Len(stack') - 11 = Len(stack) + 3 /\ Len(stack') - 9 = Len(stack) + 5
  BY <1>1, <1>2
<1>4. int_no' = vector
  BY <1>2, <1>3 DEF int_no, Word
<1>5. stack = <<>> /\ eflags_if => stack'[1] = Word("eflags", 1)
  BY <1>2
<1> QED BY <1>1, <1>2, <1>3, <1>4, <1>5 DEF Word

\* With interrupts enabled the tables are complete, no handler runs and no
\* line is in service.
LEMMA Accepting ==
    ASSUME MachineInv, eflags_if
    PROVE  /\ Running /\ at \in Serving /\ stack = <<>> /\ pic.isr = {}
           /\ gdt /\ idt = 0 .. 47 /\ end.why = "none"
           /\ \A line \in Irqs : Vector(line) = 32 + line
<1>1. Running /\ at \in Serving
  BY DEF MachineInv, BootFacts
<1>2. stack = <<>> /\ pic.isr = {}
  BY <1>1 DEF MachineInv, StackFacts, NothingInService
<1>3. gdt /\ idt = 0 .. 47 /\ end.why = "none" /\ pic.offset = <<32, 40>>
  BY <1>1
  DEF MachineInv, BootFacts, Serving, BeforePic, BeforeIdt, BeforeSerial, BeforeGdt
<1>4. \A line \in Irqs : Vector(line) = 32 + line
  BY <1>3 DEF Vector, Irqs
<1> QED BY <1>1, <1>2, <1>3, <1>4

\* A line, spurious or not, interrupts the boot context.
LEMMA LineTaken ==
    ASSUME MachineInv, eflags_if, NEW line \in Irqs, Enter(Vector(line)),
           cause' = [by |-> "irq", vector |-> Vector(line)],
           pic' \in PicType, pic'.offset = pic.offset, pic'.isr \subseteq InService(line),
           UNCHANGED <<tables, kbd, clock>>
    PROVE  MachineInv'
<1>1. /\ Running /\ at \in Serving /\ stack = <<>> /\ pic.isr = {}
      /\ gdt /\ idt = 0 .. 47 /\ end.why = "none" /\ Vector(line) = 32 + line
  BY Accepting
<1>2. Vector(line) \in 32 .. 47 /\ Vector(line) \in 0 .. 47
  BY <1>1 DEF Irqs
<1>3. stack' = Pushed(Vector(line)) /\ eflags_if' = FALSE /\ UNCHANGED <<at, end>>
  BY <1>1, <1>2 DEF Enter, Pushed
<1>4. /\ stack' \in Seq(Words) /\ stack' # <<>> /\ Len(stack') = 14
      /\ stack'[Len(stack') - 13][1] = "eflags"
      /\ stack'[Len(stack') - 12][1] = "cs"
      /\ stack'[Len(stack') - 11][1] = "eip"
      /\ int_no' = Vector(line) /\ stack'[1] = Word("eflags", 1)
  <2> DEFINE vector == Vector(line)
  <2>1. vector \in 0 .. 47 /\ stack' = Pushed(vector) /\ Len(stack) = 0
    BY <1>1, <1>2, <1>3
  <2> HIDE DEF vector
  <2>2. /\ stack' \in Seq(Words) /\ stack' # <<>>
        /\ Len(stack') = Len(stack) + 14
        /\ stack'[Len(stack') - 13][1] = "eflags"
        /\ stack'[Len(stack') - 12][1] = "cs"
        /\ stack'[Len(stack') - 11][1] = "eip"
        /\ int_no' = vector
        /\ stack = <<>> /\ eflags_if => stack'[1] = Word("eflags", 1)
    BY <2>1, EnterFrame
  <2> QED BY <1>1, <2>1, <2>2 DEF vector
<1>5. cause'.by = "irq" /\ cause'.vector = Vector(line) /\ cause' \in CauseType
  BY <1>2 DEF CauseType
<1>6. Shapes'
  BY <1>3, <1>4, <1>5 DEF MachineInv, Shapes, TypeOK, PicType
<1>7. BootFacts'
  BY <1>1, <1>3 DEF MachineInv, BootFacts, Running
<1>8. StackFacts'
  BY <1>1, <1>2, <1>3, <1>4, <1>5 DEF StackFacts
<1>9. NothingInService'
  BY <1>1, <1>4 DEF NothingInService, InService, Irqs
<1>10. StopsForCause' /\ TicksCounted'
  BY <1>1, <1>3 DEF MachineInv, StopsForCause, TicksCounted
<1> QED BY <1>6, <1>7, <1>8, <1>9, <1>10 DEF MachineInv

\* Interrupts, spurious ones included.
LEMMA IrqKeeps ==
    ASSUME MachineInv, NEW line \in Irqs, Irq(line) \/ Spurious(line)
    PROVE  MachineInv'
<1>1. pic \in PicType
  BY DEF MachineInv, Shapes
<1>2. CASE Irq(line)
  <2>1. pic.isr = {} /\ InService(line) \subseteq Irqs
    <3>1. pic.isr = {}
      BY <1>2, Accepting DEF Irq
    <3> QED BY <3>1 DEF InService, Irqs
  <2>2. pic' = [pic EXCEPT !.irr = @ \ {line}, !.isr = @ \cup InService(line)]
    BY <1>2 DEF Irq
  <2>3. pic' \in PicType /\ pic'.offset = pic.offset /\ pic'.isr \subseteq InService(line)
    BY <1>1, <2>1, <2>2 DEF PicType
  <2> QED BY <1>2, <2>3, LineTaken DEF Irq
<1>3. CASE Spurious(line)
  <2>1. pic' = [pic EXCEPT !.isr = IF line = 15 THEN {2} ELSE {}]
    BY <1>3 DEF Spurious
  <2>2. pic' \in PicType /\ pic'.offset = pic.offset /\ pic'.isr \subseteq InService(line)
    BY <1>1, <2>1 DEF PicType, InService, Irqs
  <2> QED BY <1>3, <2>2, LineTaken DEF Spurious
<1> QED BY <1>2, <1>3

\* An exception, in the boot context or in an interrupt handler.
LEMMA FaultKeeps ==
    ASSUME MachineInv, NEW vector \in Faults, Fault(vector)
    PROVE  MachineInv'
<1>1. /\ vector \in 0 .. 31 /\ vector \in 0 .. 47 /\ vector \in Int
      /\ Running /\ UNCHANGED <<tables, pic, kbd, clock>>
      /\ cause' = [by |-> "fault", vector |-> vector]
      /\ Enter(vector)
  BY InterruptsAssumption DEF Fault
<1>2. cause'.by = "fault" /\ cause'.vector = vector /\ cause' \in CauseType
  BY <1>1 DEF CauseType
<1>3. pic' \in PicType
  BY <1>1 DEF MachineInv, Shapes
<1>4. CASE gdt /\ vector \in idt
  <2>1. stack' = Pushed(vector) /\ eflags_if' = FALSE /\ UNCHANGED <<at, end>>
    BY <1>1, <1>4 DEF Enter, Pushed
  <2>2. /\ stack' \in Seq(Words) /\ stack' # <<>> /\ Len(stack') = Len(stack) + 14
        /\ stack'[Len(stack') - 13][1] = "eflags"
        /\ stack'[Len(stack') - 12][1] = "cs"
        /\ stack'[Len(stack') - 11][1] = "eip"
        /\ int_no' = vector
    BY <1>1, <2>1, EnterFrame
  <2>3. Len(stack') \in {14, 28}
    <3>1. CASE stack = <<>>
      BY <2>2, <3>1
    <3>2. CASE stack # <<>>
      <4>1. cause.by # "fault"
        BY <3>2 DEF Fault
      <4>2. Len(stack) = 14
        BY <1>1, <3>2, <4>1 DEF MachineInv, StackFacts
      <4> QED BY <2>2, <4>2
    <3> QED BY <3>1, <3>2
  <2>4. Shapes'
    BY <1>1, <1>2, <2>1, <2>2 DEF MachineInv, Shapes, TypeOK
  <2>5. BootFacts'
    BY <1>1, <2>1 DEF MachineInv, BootFacts, Running
  <2>6. StackFacts'
    BY <1>1, <1>2, <1>4, <2>1, <2>2, <2>3 DEF StackFacts
  <2>7. NothingInService' /\ StopsForCause' /\ TicksCounted'
    BY <1>1, <1>2, <2>1, <2>2
    DEF MachineInv, BootFacts, NothingInService, StopsForCause, TicksCounted
  <2> QED BY <2>4, <2>5, <2>6, <2>7 DEF MachineInv
<1>5. CASE ~(gdt /\ vector \in idt)
  <2>1. idt = {}
    BY <1>1, <1>5
    DEF MachineInv, BootFacts, BeforeIdt, BeforeSerial, BeforeGdt
  <2>2. Stop("reset", vector) /\ UNCHANGED stack
    BY <1>1, <1>5 DEF Enter
  <2>3. Shapes'
    BY <1>1, <1>2, <1>3, <2>2, StopShapes DEF MachineInv
  <2>4. BootFacts' /\ StackFacts' /\ NothingInService' /\ TicksCounted' /\ StopsForCause'
    BY <1>1, <1>2, <2>1, <2>2
    DEF Stop, BootFacts, StackFacts, NothingInService, TicksCounted, StopsForCause, Running
  <2> QED BY <2>3, <2>4 DEF MachineInv
<1> QED BY <1>4, <1>5

\* The exception handler: kernel_panic.
LEMMA ExceptionKeeps ==
    ASSUME MachineInv, HandleException
    PROVE  MachineInv'
<1>1. /\ Running /\ stack # <<>> /\ int_no < 32 /\ Stop("panic", int_no)
      /\ UNCHANGED <<tables, pic, stack, kbd, clock, cause>>
  BY DEF HandleException, kernel_panic
<1>2. int_no = cause.vector /\ cause.by = "fault" /\ int_no \in Int /\ idt # {}
  <2>1. cause.vector \in Int
    BY DEF MachineInv, Shapes, CauseType
  <2>2. /\ int_no = cause.vector /\ idt # {}
        /\ \/ cause.by = "irq" /\ cause.vector \in 32 .. 47
           \/ cause.by = "fault"
    BY <1>1 DEF MachineInv, StackFacts
  <2> QED BY <1>1, <2>1, <2>2
<1>3. serial_ready = TRUE
  BY <1>1, <1>2
  DEF MachineInv, Shapes, TypeOK, BootFacts, BeforeIdt, BeforeSerial, BeforeGdt
<1>4. Shapes'
  BY <1>1, <1>2, StopShapes DEF MachineInv, Shapes
<1>5. cause = [by |-> "fault", vector |-> int_no]
  BY <1>2 DEF MachineInv, Shapes, CauseType
<1>6. BootFacts' /\ StackFacts' /\ NothingInService' /\ TicksCounted' /\ StopsForCause'
  BY <1>1, <1>2, <1>3, <1>5
  DEF MachineInv, Stop, BootFacts, StackFacts, NothingInService, TicksCounted, StopsForCause,
      Running
<1> QED BY <1>4, <1>6 DEF MachineInv

\* Devices, at any time.
LEMMA DeviceKeeps ==
    ASSUME MachineInv, Device
    PROVE  MachineInv'
<1>1. /\ UNCHANGED <<at, tables, eflags_if, stack, clock, end, cause>>
      /\ kbd' \in [full : BOOLEAN, missed : BOOLEAN]
      /\ \E line \in Irqs : pic' = [pic EXCEPT !.irr = @ \cup {line}]
  <2>1. CASE KeyEvent
    <3>1. kbd' \in [full : BOOLEAN, missed : BOOLEAN]
      BY <2>1 DEF KeyEvent, MachineInv, Shapes, TypeOK
    <3>2. 1 \in Irqs /\ pic' = [pic EXCEPT !.irr = @ \cup {1}]
      BY <2>1 DEF KeyEvent, Irqs
    <3> QED BY <2>1, <3>1, <3>2 DEF KeyEvent
  <2>2. ASSUME NEW line \in Lines, Raise(line) PROVE <1>1!:
    BY <2>2, InterruptsAssumption DEF Raise, MachineInv, Shapes, TypeOK
  <2> QED BY <2>1, <2>2 DEF Device
<1>2. pic' \in PicType /\ pic'.isr = pic.isr /\ pic'.offset = pic.offset
  BY <1>1 DEF MachineInv, Shapes, PicType
<1>3. int_no' = int_no
  BY <1>1 DEF int_no
<1>4. Shapes'
  BY <1>1, <1>2 DEF MachineInv, Shapes, TypeOK, PicType
<1>5. BootFacts' /\ StackFacts' /\ NothingInService' /\ StopsForCause' /\ TicksCounted'
  BY <1>1, <1>2, <1>3
  DEF MachineInv, BootFacts, StackFacts, NothingInService, StopsForCause, TicksCounted, Running,
      InService
<1> QED BY <1>4, <1>5 DEF MachineInv
-----------------------------------------------------------------------------
\* The least of one number, and of two.
LEMMA MinFacts ==
    /\ \A x \in Int : Min({x}) = x
    /\ \A x, y \in Int : Min({x, y}) = IF x <= y THEN x ELSE y
  BY DEF Min

\* The end-of-interrupt commands take every line out of service.
LEMMA EoiEnds ==
    ASSUME NEW irq \in Irqs, pic.isr \subseteq InService(irq)
    PROVE  pic_send_eoi(irq) = {}
<1>1. ASSUME NEW bits, NEW lines, NEW x \in Int, bits \cap lines = {x}, bits \subseteq {x}
      PROVE  Eoi(bits, lines) = {}
  BY <1>1, MinFacts DEF Eoi
<1>2. CASE irq < 8
  <2>1. pic.isr \in {{}, {irq}} /\ irq \in Master /\ ~(irq >= 8)
    BY <1>2 DEF InService, Irqs, Master
  <2>2. CASE pic.isr = {}
    BY <2>1, <2>2 DEF pic_send_eoi
  <2>3. CASE pic.isr = {irq}
    <3>1. pic.isr \cap Master = {irq} /\ irq \in Int
      BY <2>1, <2>3 DEF Irqs
    <3>2. Eoi(pic.isr, Master) = {}
      BY <1>1, <2>3, <3>1
    <3> QED BY <2>1, <3>1, <3>2 DEF pic_send_eoi
  <2> QED BY <2>1, <2>2, <2>3
<1>3. CASE irq >= 8
  <2> DEFINE ended == IF irq >= 8 /\ pic.isr \cap Slave # {} THEN Eoi(pic.isr, Slave) ELSE pic.isr
  <2>1. pic.isr \subseteq {2, irq} /\ irq \in Slave /\ irq \notin Master /\ irq \in Int
    BY <1>3 DEF InService, Irqs, Master, Slave
  <2>2. 2 \in Master /\ 2 \notin Slave
    BY DEF Master, Slave
  <2>3. ended \subseteq {2}
    <3>1. CASE irq \in pic.isr
      <4>1. pic.isr \cap Slave = {irq}
        BY <2>1, <2>2, <3>1
      <4>2. ended = pic.isr \ {j \in Slave : j = irq}
        BY <1>3, <2>1, <4>1, MinFacts DEF Eoi
      <4> QED BY <2>1, <4>2
    <3>2. CASE irq \notin pic.isr
      BY <2>1, <2>2, <3>2
    <3> QED BY <3>1, <3>2
  <2>4. pic_send_eoi(irq) = IF ended \cap Master # {} THEN Eoi(ended, Master) ELSE ended
    BY DEF pic_send_eoi
  <2> HIDE DEF ended
  <2>5. CASE ended = {}
    BY <2>4, <2>5
  <2>6. CASE ended = {2}
    <3>1. ended \cap Master = {2}
      BY <2>2, <2>6
    <3>2. Eoi(ended, Master) = {}
      BY <1>1, <2>6, <3>1
    <3> QED BY <2>4, <3>1, <3>2
  <2> QED BY <2>3, <2>5, <2>6
<1> QED BY <1>2, <1>3 DEF Irqs

\* A remainder without a division, and what one tick adds to the time slept.
LEMMA TickAhead ==
    ASSUME NEW t \in 0 .. (TickWrap - 1), NEW start \in 0 .. (TickWrap - 1), NEW passed \in Int,
           (t - start) % TickWrap <= passed
    PROVE  /\ (t + 1) % TickWrap \in 0 .. (TickWrap - 1)
           /\ (((t + 1) % TickWrap) - start) % TickWrap <= passed + 1
           /\ (((t + 1) % TickWrap) - start) % TickWrap <= TickWrap
<1>1. TickWrap \in Nat /\ TickWrap > 0
  BY InterruptsAssumption
<1>2. ASSUME NEW a \in Int, -TickWrap <= a, a <= TickWrap
      PROVE  a % TickWrap = IF a < 0 THEN IF a = -TickWrap THEN 0 ELSE a + TickWrap
                            ELSE IF a = TickWrap THEN 0 ELSE a
  BY <1>1, <1>2
<1> DEFINE a == t - start
           b == t + 1
           u == b % TickWrap
           c == u - start
<1>3. a \in Int /\ -TickWrap <= a /\ a <= TickWrap /\ b \in Int /\ -TickWrap <= b /\ b <= TickWrap
  BY <1>1
<1>4. u = IF t + 1 = TickWrap THEN 0 ELSE t + 1
  <2> HIDE DEF b
  <2>1. u = IF b < 0 THEN IF b = -TickWrap THEN 0 ELSE b + TickWrap
            ELSE IF b = TickWrap THEN 0 ELSE b
    BY <1>2, <1>3
  <2> QED BY <1>1, <2>1 DEF b
<1>5. a % TickWrap = IF t < start THEN t - start + TickWrap ELSE t - start
  <2> HIDE DEF a
  <2>1. a % TickWrap = IF a < 0 THEN IF a = -TickWrap THEN 0 ELSE a + TickWrap
                       ELSE IF a = TickWrap THEN 0 ELSE a
    BY <1>2, <1>3
  <2> QED BY <1>1, <2>1 DEF a
<1> HIDE DEF u
<1>6. c \in Int /\ -TickWrap <= c /\ c <= TickWrap /\ u \in 0 .. (TickWrap - 1)
  BY <1>1, <1>4
<1>7. c % TickWrap = IF u < start THEN u - start + TickWrap ELSE u - start
  <2> HIDE DEF c
  <2>1. c % TickWrap = IF c < 0 THEN IF c = -TickWrap THEN 0 ELSE c + TickWrap
                       ELSE IF c = TickWrap THEN 0 ELSE c
    BY <1>2, <1>6
  <2> QED BY <1>1, <1>6, <2>1 DEF c
<1>8. c % TickWrap <= passed + 1 /\ c % TickWrap <= TickWrap
  BY <1>1, <1>4, <1>5, <1>6, <1>7
<1> QED BY <1>6, <1>8 DEF u

\* The handlers change the clock and the keyboard as their types allow, and
\* the sleeper keeps counting.
LEMMA HandlerEffect ==
    ASSUME MachineInv, timer_handler \/ keyboard_handler \/ UNCHANGED <<kbd, clock>>,
           UNCHANGED at
    PROVE  /\ kbd' \in [full : BOOLEAN, missed : BOOLEAN]
           /\ tick_count' \in 0 .. (TickWrap - 1)
           /\ sleep' \in [start : 0 .. (TickWrap - 1), ticks : Sleeps \cup {0},
                          passed : 0 .. TickWrap]
           /\ TicksCounted'
<1>1. /\ TicksCounted /\ kbd \in [full : BOOLEAN, missed : BOOLEAN]
      /\ tick_count \in 0 .. (TickWrap - 1)
      /\ sleep \in [start : 0 .. (TickWrap - 1), ticks : Sleeps \cup {0}, passed : 0 .. TickWrap]
  BY DEF MachineInv, Shapes, TypeOK
<1>2. CASE keyboard_handler \/ UNCHANGED <<kbd, clock>>
  <2>1. /\ kbd' \in [full : BOOLEAN, missed : BOOLEAN]
        /\ UNCHANGED <<tick_count, sleep>>
    BY <1>1, <1>2 DEF keyboard_handler
  <2> QED BY <1>1, <2>1 DEF TicksCounted
<1>3. CASE timer_handler
  <2>1. /\ UNCHANGED kbd
        /\ tick_count' = (tick_count + 1) % TickWrap
        /\ sleep' = IF at = "sleep" THEN [sleep EXCEPT !.passed = Min({@ + 1, TickWrap})]
                    ELSE sleep
    BY <1>3 DEF timer_handler
  <2>2. TickWrap \in Nat /\ TickWrap > 0
    BY InterruptsAssumption
  <2>3. (tick_count + 1) % TickWrap \in 0 .. (TickWrap - 1)
    <3> DEFINE t == tick_count + 1
    <3>1. t \in Int
      BY <1>1
    <3> HIDE DEF t
    <3>2. t % TickWrap \in 0 .. (TickWrap - 1)
      BY <2>2, <3>1
    <3> QED BY <3>2 DEF t
  <2>4. CASE at # "sleep"
    BY <1>1, <2>1, <2>3, <2>4 DEF TicksCounted
  <2>5. CASE at = "sleep"
    <3> DEFINE passed == Min({sleep.passed + 1, TickWrap})
    <3>1. /\ sleep.start \in 0 .. (TickWrap - 1) /\ sleep.passed \in 0 .. TickWrap
          /\ (tick_count - sleep.start) % TickWrap <= sleep.passed
      BY <1>1, <2>5 DEF TicksCounted
    <3>2. passed = IF sleep.passed + 1 <= TickWrap THEN sleep.passed + 1 ELSE TickWrap
      <4>1. sleep.passed + 1 \in Int /\ TickWrap \in Int
        BY <2>2, <3>1
      <4> QED BY <4>1, MinFacts
    <3> HIDE DEF passed
    <3>3. passed \in 0 .. TickWrap
      BY <2>2, <3>1, <3>2
    <3>4. sleep' = [sleep EXCEPT !.passed = passed]
      BY <2>1, <2>5 DEF passed
    <3>5. sleep'.start = sleep.start /\ sleep'.passed = passed
      BY <1>1, <3>4
    <3>6. /\ (tick_count' - sleep.start) % TickWrap <= sleep.passed + 1
          /\ (tick_count' - sleep.start) % TickWrap <= TickWrap
      BY <1>1, <2>1, <3>1, TickAhead
    <3>7. (tick_count' - sleep'.start) % TickWrap <= passed
      BY <3>2, <3>5, <3>6
    <3>8. TicksCounted'
      BY <3>5, <3>7 DEF TicksCounted
    <3>9. sleep' \in [start : 0 .. (TickWrap - 1), ticks : Sleeps \cup {0},
                      passed : 0 .. TickWrap]
      BY <1>1, <3>3, <3>4
    <3> QED BY <1>1, <2>1, <2>3, <3>8, <3>9
  <2> QED BY <2>4, <2>5
<1> QED BY <1>2, <1>3

\* The interrupt handler: the line is out of service, the frame is gone and
\* interrupts are enabled again.
LEMMA HandleIrqKeeps ==
    ASSUME MachineInv, HandleIrq
    PROVE  MachineInv'
<1> DEFINE irq == int_no - 32
<1>1. /\ Running /\ stack # <<>> /\ int_no \in 32 .. 47
      /\ UNCHANGED <<at, tables, end>> /\ cause' = NoCause
      /\ pic' = [pic EXCEPT !.isr = pic_send_eoi(irq)]
      /\ stack' = SubSeq(Unwound, 1, Len(Unwound) - 3)
      /\ eflags_if' = (Unwound[Len(Unwound) - 2] = Word("eflags", 1))
  BY DEF HandleIrq
<1>2. timer_handler \/ keyboard_handler \/ UNCHANGED <<kbd, clock>>
  BY DEF HandleIrq
<1>3. /\ cause.by = "irq" /\ at \in Serving
      /\ Len(stack) = 14 /\ stack[1] = Word("eflags", 1)
  <2>1. int_no = cause.vector
    BY <1>1 DEF MachineInv, StackFacts
  <2>2. cause.vector \notin 0 .. 31
    <3>1. cause.vector \in 32 .. 47
      BY <1>1, <2>1, Zenon
    <3> QED BY <3>1
  <2> QED BY <1>1, <2>2 DEF MachineInv, StackFacts
<1>4. irq \in Irqs /\ pic.isr \subseteq InService(irq)
  BY <1>1, <1>3 DEF MachineInv, NothingInService, Irqs
<1>5. pic_send_eoi(irq) = {}
  <2> HIDE DEF irq
  <2> QED BY <1>4, EoiEnds
<1> HIDE DEF irq
<1>6. pic' \in PicType /\ pic'.isr = {} /\ pic'.offset = pic.offset
  BY <1>1, <1>5 DEF MachineInv, Shapes, PicType
<1>7. stack' = <<>> /\ eflags_if' = TRUE
  <2>1. stack \in Seq(Words) /\ Len(stack) = 14
    BY <1>3 DEF MachineInv, Shapes
  <2>2. Unwound = SubSeq(stack, 1, 3)
    BY <1>3 DEF Unwound
  <2>3. Unwound \in Seq(Words) /\ Len(Unwound) = 3 /\ Unwound[1] = stack[1]
    BY <2>1, <2>2
  <2>4. stack' = SubSeq(Unwound, 1, 0)
    BY <1>1, <2>3
  <2>5. stack' = <<>>
    BY <2>3, <2>4
  <2>6. eflags_if' = (Unwound[1] = Word("eflags", 1))
    BY <1>1, <2>3
  <2> QED BY <1>3, <2>3, <2>5, <2>6
<1>8. cause' \in CauseType
  BY <1>1 DEF NoCause, NoVector, CauseType
<1>9. /\ kbd' \in [full : BOOLEAN, missed : BOOLEAN]
      /\ tick_count' \in 0 .. (TickWrap - 1)
      /\ sleep' \in [start : 0 .. (TickWrap - 1), ticks : Sleeps \cup {0}, passed : 0 .. TickWrap]
      /\ TicksCounted'
  BY <1>1, <1>2, HandlerEffect
<1>10. Shapes'
  <2>1. UNCHANGED <<at, serial_ready, gdt, idt, irq_handlers, end>>
    BY <1>1
  <2>2. pic'.imr \subseteq Irqs /\ pic'.irr \subseteq Irqs /\ pic'.isr \subseteq Irqs
    BY <1>6 DEF PicType
  <2>3. TypeOK'
    BY <1>7, <1>9, <2>1, <2>2 DEF MachineInv, Shapes, TypeOK
  <2> QED BY <1>6, <1>7, <1>8, <2>1, <2>3 DEF MachineInv, Shapes
<1>11. BootFacts'
  BY <1>1, <1>3, <1>6, <1>7 DEF MachineInv, BootFacts, Running
<1>12. StackFacts' /\ NothingInService'
  BY <1>6, <1>7 DEF StackFacts, NothingInService
<1>13. StopsForCause'
  BY <1>1 DEF MachineInv, BootFacts, StopsForCause
<1> QED BY <1>9, <1>10, <1>11, <1>12, <1>13 DEF MachineInv

\* The shell: the end, and sleep_ticks.
LEMMA ShellKeeps ==
    ASSUME MachineInv,
           Shutdown \/ WakeUp \/ \E ticks \in Sleeps : sleep_ticks(ticks)
    PROVE  MachineInv'
<1>1. CASE Shutdown
  <2>1. Shapes'
    BY <1>1, StopShapes DEF Shutdown, MachineInv, Shapes, NoVector
  <2>2. BootFacts' /\ StackFacts' /\ NothingInService' /\ TicksCounted' /\ StopsForCause'
    BY <1>1
    DEF MachineInv, Shutdown, Stop, BootFacts, StackFacts, NothingInService, TicksCounted,
        StopsForCause, Running
  <2> QED BY <2>1, <2>2 DEF MachineInv
<1>2. CASE WakeUp \/ \E ticks \in Sleeps : sleep_ticks(ticks)
  <2>1. /\ stack = <<>> /\ at \in Serving /\ at' \in Serving
        /\ UNCHANGED <<tables, pic, eflags_if, stack, kbd, tick_count, end, cause>>
    BY <1>2 DEF WakeUp, sleep_ticks, Runs, Serving
  <2>2. sleep' \in [start : 0 .. (TickWrap - 1), ticks : Sleeps \cup {0}, passed : 0 .. TickWrap]
    BY <1>2, InterruptsAssumption
    DEF WakeUp, sleep_ticks, NoSleep, MachineInv, Shapes, TypeOK
  <2>3. TicksCounted'
    <3>1. ASSUME at' = "sleep" PROVE sleep'.start = tick_count /\ sleep'.passed = 0
      BY <1>2, <3>1 DEF WakeUp, sleep_ticks
    <3>2. (tick_count - tick_count) % TickWrap = 0
      BY InterruptsAssumption DEF MachineInv, Shapes, TypeOK
    <3> QED BY <2>1, <3>1, <3>2 DEF TicksCounted
  <2>4. at' \in Places
    BY <2>1, PlacesAre
  <2>5. Shapes'
    BY <2>1, <2>2, <2>4 DEF MachineInv, Shapes, TypeOK
  <2>6. Running /\ Running'
    BY <2>1 DEF Running, Serving
  <2>7. BootFacts'
    BY <2>1, <2>6 DEF MachineInv, BootFacts, Serving, BeforePic, BeforeIdt, BeforeSerial, BeforeGdt
  <2>8. StackFacts' /\ NothingInService' /\ StopsForCause'
    BY <2>1, <2>6 DEF MachineInv, StackFacts, NothingInService, StopsForCause
  <2> QED BY <2>3, <2>5, <2>7, <2>8 DEF MachineInv
<1> QED BY <1>1, <1>2
-----------------------------------------------------------------------------
\* Every step keeps the invariant.
LEMMA MachineStep ==
    ASSUME MachineInv, [Next]_vars PROVE MachineInv'
<1>1. CASE UNCHANGED vars
  <2>1. int_no' = int_no /\ Running' = Running
    BY <1>1 DEF int_no, Running
  <2>2. Shapes' /\ BootFacts'
    BY <1>1, <2>1 DEF MachineInv, Shapes, TypeOK, BootFacts
  <2>3. StackFacts'
    BY <1>1, <2>1 DEF MachineInv, StackFacts
  <2>4. NothingInService' /\ StopsForCause' /\ TicksCounted'
    BY <1>1, <2>1 DEF MachineInv, NothingInService, StopsForCause, TicksCounted, InService
  <2> QED BY <2>2, <2>3, <2>4 DEF MachineInv
<1> QED
  BY <1>1, BootStepKeeps, IrqKeeps, FaultKeeps, HandleIrqKeeps, ExceptionKeeps, DeviceKeeps,
     ShellKeeps
  DEF Next

\* The invariant of the machine, from the boot loader to the shell.
THEOREM MachineCorrect == Spec => []MachineInv
  BY InitMachine, MachineStep, PTL DEF Spec

\* Every variable has its type: the tick counter stays in 32 bits.
THEOREM InterruptsTypeOK == Spec => []TypeOK
<1>1. MachineInv => TypeOK
  BY DEF MachineInv, Shapes
<1> QED BY <1>1, MachineCorrect, PTL

(***************************************************************************)
(* Whatever the exception or the line, and nested or not: the frame that   *)
(* common_isr_handler reads is a registers_t, and iret finds its three     *)
(* words behind it.                                                        *)
(***************************************************************************)
THEOREM FrameAlwaysFits == Spec => []FrameFits
<1>1. MachineInv => FrameFits
  <2> SUFFICES ASSUME MachineInv, Running, stack # <<>> PROVE FrameFits
    BY DEF FrameFits
  <2>1. /\ stack \in Seq(Words) /\ Len(stack) \in {14, 28}
        /\ stack[Len(stack) - 13][1] = "eflags"
        /\ stack[Len(stack) - 12][1] = "cs"
        /\ stack[Len(stack) - 11][1] = "eip"
        /\ int_no = cause.vector
    BY DEF MachineInv, Shapes, StackFacts
  <2> DEFINE n == Len(stack)
             f == [i \in 1 .. 3 |-> Unwound[Len(Unwound) - 3 + i][1]]
  <2>2. Unwound = SubSeq(stack, 1, n - 11) /\ n \in {14, 28}
    BY <2>1 DEF Unwound
  <2>3. Len(Unwound) = n - 11 /\ \A i \in 1 .. (n - 11) : Unwound[i] = stack[i]
    <3>1. n - 11 \in 1 .. Len(stack)
      <4>1. \A m \in {14, 28} : m - 11 \in 1 .. m
        OBVIOUS
      <4> QED BY <2>1, <4>1
    <3> QED BY <2>1, <2>2, <3>1
  <2> HIDE DEF n
  <2>4. \A i \in 1 .. 3 : f[i] = stack[n - 14 + i][1]
    BY <2>2, <2>3
  <2>5. f[1] = "eflags" /\ f[2] = "cs" /\ f[3] = "eip"
    <3>1. n - 14 + 1 = n - 13 /\ n - 14 + 2 = n - 12 /\ n - 14 + 3 = n - 11
      BY <2>2
    <3> QED BY <2>1, <2>4, <3>1 DEF n
  <2>6. f = <<"eflags", "cs", "eip">>
    <3>1. DOMAIN f = 1 .. 3
      OBVIOUS
    <3>2. f = [i \in 1 .. 3 |-> f[i]]
      OBVIOUS
    <3> DEFINE g == <<"eflags", "cs", "eip">>
    <3>3. g = [i \in 1 .. 3 |-> g[i]] /\ g[1] = "eflags" /\ g[2] = "cs" /\ g[3] = "eip"
      OBVIOUS
    <3> HIDE DEF f, g
    <3>4. \A i \in 1 .. 3 : f[i] = g[i]
      <4>1. \A i \in 1 .. 3 : i = 1 \/ i = 2 \/ i = 3
        OBVIOUS
      <4> QED BY <2>5, <3>3, <4>1
    <3>5. f = g
      BY <3>2, <3>3, <3>4
    <3> QED BY <3>5 DEF g
  <2> QED BY <2>1, <2>6 DEF FrameFits
<1> QED BY <1>1, MachineCorrect, PTL

\* A panic shows the exception that happened, on the serial port as well; no
\* exception after idt_init resets the machine, and no interrupt ever does.
THEOREM StopIsExplained == Spec => []StopsForCause
<1>1. MachineInv => StopsForCause
  BY DEF MachineInv
<1> QED BY <1>1, MachineCorrect, PTL

\* No line stays in service behind its handler: each of the sixteen, and the
\* spurious ones, is acknowledged at the right controllers.
THEOREM LinesAcknowledged == Spec => []NothingInService
<1>1. MachineInv => NothingInService
  BY DEF MachineInv
<1> QED BY <1>1, MachineCorrect, PTL

\* sleep_ticks never returns early, also when tick_count wraps around.
THEOREM NeverShortSleep == Spec => SleepsLongEnough
<1>1. ASSUME MachineInv, [Next]_vars, at = "sleep", at' = "shell"
      PROVE  sleep.passed >= sleep.ticks
  <2>1. WakeUp
    <3>1. ~BootStep
      <4>1. ASSUME BootStep PROVE at # "sleep"
        <5>1. Call("sti") => at = "sti"
          BY CallMoves DEF Moves
        <5> QED
          BY <4>1, CallMoves
          DEF BootStep, kernel_start, gdt_init, OwnState, serial_init, idt_init, pic_init, pit_init,
              keyboard_init, scheduler_init, sti, Runs, Moves
      <4> QED BY <1>1, <4>1
    <3>2. ~HandleIrq /\ ~HandleException /\ ~Device /\ ~Shutdown
      BY <1>1 DEF HandleIrq, HandleException, kernel_panic, Stop, Device, Raise, KeyEvent, Shutdown
    <3>3. ~\E line \in Irqs : Irq(line) \/ Spurious(line)
      BY <1>1 DEF Irq, Spurious, Enter, Stop
    <3>4. ~\E vector \in Faults : Fault(vector)
      BY <1>1 DEF Fault, Enter, Stop
    <3>5. ~\E ticks \in Sleeps : sleep_ticks(ticks)
      BY <1>1 DEF sleep_ticks
    <3> QED BY <1>1, <3>1, <3>2, <3>3, <3>4, <3>5 DEF Next
  <2>2. (tick_count - sleep.start) % TickWrap >= sleep.ticks
    BY <2>1 DEF WakeUp, Slept
  <2>3. (tick_count - sleep.start) % TickWrap <= sleep.passed
    BY <1>1 DEF MachineInv, TicksCounted
  <2>4. /\ sleep \in [start : 0 .. (TickWrap - 1), ticks : Sleeps \cup {0}, passed : 0 .. TickWrap]
        /\ tick_count \in 0 .. (TickWrap - 1)
    BY <1>1 DEF MachineInv, Shapes, TypeOK
  <2>5. sleep.ticks \in Int /\ sleep.passed \in Int
    <3>1. Sleeps \cup {0} \subseteq Int /\ 0 .. TickWrap \subseteq Int
      BY InterruptsAssumption
    <3>2. sleep.ticks \in Sleeps \cup {0} /\ sleep.passed \in 0 .. TickWrap
      BY <2>4
    <3> QED BY <3>1, <3>2
  <2>6. (tick_count - sleep.start) % TickWrap \in Int
    <3> DEFINE t == tick_count - sleep.start
    <3>1. t \in Int
      BY <2>4
    <3> HIDE DEF t
    <3>2. t % TickWrap \in Int
      BY <3>1, InterruptsAssumption
    <3> QED BY <3>2 DEF t
  <2> QED BY <2>2, <2>3, <2>5, <2>6
<1>2. MachineInv /\ [Next]_vars =>
          [at = "sleep" /\ at' = "shell" => sleep.passed >= sleep.ticks]_vars
  BY <1>1
<1> QED BY <1>2, MachineCorrect, PTL DEF Spec, SleepsLongEnough
=============================================================================
