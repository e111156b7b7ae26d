-------------------------------- MODULE Mpe --------------------------------
(***************************************************************************)
(* Start-up and shutdown of the processors of the x86-qemu machine: the    *)
(* boot loader, _start_c, the kernel's main, the handshake of mpe_init     *)
(* with the other processors, and halt with __am_stop_the_world.           *)
(*                                                                         *)
(* Processor 0 boots alone, initialises the kernel and then starts the     *)
(* others one after the other.  Every processor passes through the same    *)
(* boot code and the same unsynchronised statics: the loader's stack, the  *)
(* is_ap flag of the boot record and the descriptor that set_gdt loads     *)
(* from.  What keeps them apart is the order of the steps.                 *)
(***************************************************************************)
EXTENDS Integers, FiniteSets

CONSTANTS
  NCPU,       \* __am_ncpu: how many processors the MP table lists
  Halters     \* processors whose kernel may call halt, say by a failed assert

ASSUME MpeAssumption == NCPU \in Nat \ {0} /\ Halters \subseteq 0 .. (NCPU - 1)

CPU == 0 .. (NCPU - 1)

VARIABLES
  pc,          \* where each processor is
  is_ap,       \* boot_record()->is_ap
  jmp_code,    \* boot_record()->jmp_code: the loader, or a jump to itself
  loads,       \* how often the kernel image was read from the disk
  data,        \* the static descriptor of set_gdt: whose GDT it names
  gdtr,        \* whose GDT each processor has loaded, or none
  pmm_ready,   \* pmm_init has run
  user_entry,  \* mpe_init has stored the entry
  ap_ready,
  cpu,         \* the loop variable of mpe_init on processor 0
  stop,        \* stop[c]: the loop variable of __am_stop_the_world on c
  sent,        \* processors whose INIT and start-up messages are on their way
  power        \* the machine is on

vars == <<pc, is_ap, jmp_code, loads, data, gdtr, pmm_ready, user_entry,
          ap_ready, cpu, stop, sent, power>>

None == NCPU

PC == {"off", "reset", "loader", "start", "gdt_write", "gdt_load", "ap_gdt_write",
       "ap_gdt_load", "main", "mpe_loop", "mpe_wait", "ready", "run", "halt", "halted", "spin"}

TypeOK ==
  /\ pc \in [CPU -> PC]
  /\ is_ap \in BOOLEAN /\ jmp_code \in {"loader", "self"} /\ loads \in Nat
  /\ data \in CPU \cup {None} /\ gdtr \in [CPU -> CPU \cup {None}]
  /\ pmm_ready \in BOOLEAN /\ user_entry \in BOOLEAN /\ ap_ready \in {0, 1}
  /\ cpu \in 1 .. NCPU /\ stop \in [CPU -> 0 .. NCPU]
  /\ sent \subseteq CPU /\ power \in BOOLEAN

Init ==
  /\ pc = [c \in CPU |-> IF c = 0 THEN "reset" ELSE "off"]
  /\ is_ap = FALSE /\ jmp_code = "loader" /\ loads = 0
  /\ data = None /\ gdtr = [c \in CPU |-> None]
  /\ pmm_ready = FALSE /\ user_entry = FALSE /\ ap_ready = 0
  /\ cpu = 1 /\ stop = [c \in CPU |-> 0]
  /\ sent = {} /\ power = TRUE

At(c, label) == power /\ pc[c] = label
Goto(c, label) == pc' = [pc EXCEPT ![c] = label]

\* Writing the INIT and start-up messages for d to the interrupt command register;
\* nothing waits for their delivery.
lapic_bootap(d) == sent' = sent \cup {d}

bootRecord == <<is_ap, jmp_code>>
descriptor == <<data, gdtr>>
kernel == <<pmm_ready, user_entry>>
handshake == <<ap_ready, cpu>>
shutdown == <<stop, sent, power>>

-----------------------------------------------------------------------------
(* The boot loader and _start_c, the same code on every processor *)

\* The first instruction after a reset or a start-up message.
BootSector(c) ==
  /\ At(c, "reset")
  /\ Goto(c, IF jmp_code = "self" THEN "spin" ELSE "loader")
  /\ UNCHANGED <<bootRecord, loads, descriptor, kernel, handshake, shutdown>>

\* Reading the image clears .bss and every initialised variable of the kernel.
load_kernel(c) ==
  /\ At(c, "loader")
  /\ IF is_ap THEN UNCHANGED <<loads, kernel, ap_ready>>
     ELSE /\ loads' = loads + 1
          /\ pmm_ready' = FALSE /\ user_entry' = FALSE /\ ap_ready' = 0
  /\ Goto(c, "start")
  /\ UNCHANGED <<bootRecord, descriptor, cpu, shutdown>>

\* _start_c leaves the loader's stack for the processor's own on both paths; the
\* first processor runs __am_bootcpu_init before that.
start_c(c) ==
  /\ At(c, "start")
  /\ Goto(c, IF is_ap THEN "ap_gdt_write" ELSE "gdt_write")
  /\ UNCHANGED <<bootRecord, loads, descriptor, kernel, handshake, shutdown>>

\* set_gdt: the store to the static descriptor, then lgdt.
SetGdtWrite(c) ==
  /\ At(c, "gdt_write") \/ At(c, "ap_gdt_write")
  /\ data' = c
  /\ Goto(c, IF pc[c] = "gdt_write" THEN "gdt_load" ELSE "ap_gdt_load")
  /\ UNCHANGED <<bootRecord, loads, gdtr, kernel, handshake, shutdown>>

SetGdtLoad(c) ==
  /\ At(c, "gdt_load") \/ At(c, "ap_gdt_load")
  /\ gdtr' = [gdtr EXCEPT ![c] = data]
  /\ Goto(c, IF pc[c] = "ap_gdt_load" THEN "ready" ELSE "main")
  /\ UNCHANGED <<bootRecord, loads, data, kernel, handshake, shutdown>>

-----------------------------------------------------------------------------
(* main and mpe_init on the first processor *)

\* A plausible bug: the processors are started before the kernel is initialised.
Main_LateInit(c) ==
  /\ At(c, "main")
  /\ user_entry' = TRUE
  /\ jmp_code' = "loader"
  /\ Goto(c, "mpe_loop")
  /\ UNCHANGED <<pmm_ready, is_ap, loads, descriptor, handshake, shutdown>>

\* os->init(); then mpe_init stores the entry and patches the boot record.
Main(c) ==
  /\ At(c, "main")
  /\ pmm_ready' = TRUE /\ user_entry' = TRUE
  /\ jmp_code' = "loader"
  /\ Goto(c, "mpe_loop")
  /\ UNCHANGED <<is_ap, loads, descriptor, handshake, shutdown>>

\* A plausible bug: the boot record is patched anew for every processor.
BootAp_Patch(c) ==
  /\ At(c, "mpe_loop")
  /\ cpu < NCPU
  /\ is_ap' = TRUE /\ jmp_code' = "loader"
  /\ lapic_bootap(cpu)
  /\ Goto(c, "mpe_wait")
  /\ UNCHANGED <<loads, descriptor, kernel, handshake, stop, power>>

\* A plausible bug: the next processor is started without waiting for this one.
BootAp_NoWait(c) ==
  /\ At(c, "mpe_loop")
  /\ cpu < NCPU
  /\ is_ap' = TRUE
  /\ lapic_bootap(cpu)
  /\ cpu' = cpu + 1
  /\ UNCHANGED <<pc, jmp_code, loads, descriptor, kernel, ap_ready, stop, power>>

BootAp(c) ==
  /\ At(c, "mpe_loop")
  /\ cpu < NCPU
  /\ is_ap' = TRUE
  /\ lapic_bootap(cpu)
  /\ Goto(c, "mpe_wait")
  /\ UNCHANGED <<jmp_code, loads, descriptor, kernel, handshake, stop, power>>

\* xchg(&ap_ready, 0) returns 1; while it returns 0 nothing changes.
ApAnswered(c) ==
  /\ At(c, "mpe_wait")
  /\ ap_ready = 1
  /\ ap_ready' = 0
  /\ cpu' = cpu + 1
  /\ Goto(c, "mpe_loop")
  /\ UNCHANGED <<bootRecord, loads, descriptor, kernel, shutdown>>

MpeDone(c) ==
  /\ At(c, "mpe_loop")
  /\ cpu = NCPU
  /\ Goto(c, "run")
  /\ UNCHANGED <<bootRecord, loads, descriptor, kernel, handshake, shutdown>>

\* A plausible bug: the answer is lost.
ApReady_Silent(c) ==
  /\ At(c, "ready")
  /\ Goto(c, "run")
  /\ UNCHANGED <<bootRecord, loads, descriptor, kernel, handshake, shutdown>>

\* othercpu_entry: xchg(&ap_ready, 1), then the user entry.
ApReady(c) ==
  /\ At(c, "ready")
  /\ ap_ready' = 1
  /\ Goto(c, "run")
  /\ UNCHANGED <<bootRecord, loads, descriptor, kernel, cpu, shutdown>>

-----------------------------------------------------------------------------
(* halt *)

Halt(c) ==
  /\ c \in Halters
  /\ At(c, "run")
  /\ jmp_code' = "self"
  /\ Goto(c, "halt")
  /\ UNCHANGED <<is_ap, loads, descriptor, kernel, handshake, shutdown>>

\* One turn of the loop of __am_stop_the_world: every processor but c is told to
\* run the boot sector, which now jumps to itself.
StopCpu(c) ==
  /\ At(c, "halt")
  /\ stop[c] < NCPU
  /\ stop' = [stop EXCEPT ![c] = @ + 1]
  /\ IF stop[c] = c THEN UNCHANGED sent ELSE lapic_bootap(stop[c])
  /\ UNCHANGED <<pc, bootRecord, loads, descriptor, kernel, handshake, power>>

\* A plausible bug: the shutdown port is never written.
PowerOff_Missing(c) ==
  /\ At(c, "halt")
  /\ stop[c] = NCPU
  /\ Goto(c, "halted")
  /\ UNCHANGED <<bootRecord, loads, descriptor, kernel, handshake, stop, sent, power>>

\* outw(0x604, 0x2000)
PowerOff(c) ==
  /\ At(c, "halt")
  /\ stop[c] = NCPU
  /\ power' = FALSE
  /\ Goto(c, "halted")
  /\ UNCHANGED <<bootRecord, loads, descriptor, kernel, handshake, stop, sent>>

-----------------------------------------------------------------------------
\* The messages arrive: d drops whatever it was doing.
Reset(d) ==
  /\ power /\ d \in sent
  /\ sent' = sent \ {d}
  /\ Goto(d, "reset")
  /\ UNCHANGED <<bootRecord, loads, descriptor, kernel, handshake, stop, power>>

-----------------------------------------------------------------------------
Step(c) ==
  \/ BootSector(c) \/ load_kernel(c) \/ start_c(c) \/ SetGdtWrite(c) \/ SetGdtLoad(c)
  \/ Main(c) \/ BootAp(c) \/ ApAnswered(c) \/ MpeDone(c) \/ ApReady(c)
  \/ StopCpu(c) \/ PowerOff(c)

Next == \E c \in CPU : Step(c) \/ Halt(c) \/ Reset(c)

Spec == Init /\ [][Next]_vars

\* A processor that can take a step takes one, and a message arrives at last;
\* whether a kernel halts is open.
FairSpec == Spec /\ \A c \in CPU : WF_vars(Step(c)) /\ WF_vars(Reset(c))

-----------------------------------------------------------------------------
(* A processor that runs the kernel finds it initialised by main, with the entry
   stored, from an image that was read from the disk only once, and runs on its
   own descriptor table although set_gdt goes through one unprotected static. *)
RunsInitialised ==
  \A c \in CPU : pc[c] \in {"run", "halt"} =>
    pmm_ready /\ user_entry /\ loads = 1 /\ gdtr[c] = c

(* The loader's stack at 0xa000 belongs to one processor at a time. *)
BootStackExclusive ==
  \A c, d \in CPU : pc[c] \in {"loader", "start"} /\ pc[d] \in {"loader", "start"} => c = d

(* Every processor reaches the kernel's entry, unless some processor halts first:
   no answer of the handshake is lost or consumed twice. *)
AllRun == <>(jmp_code = "self" \/ \A c \in CPU : pc[c] = "run")

(* When the kernel of some processor halts, the machine is switched off, even in the
   middle of the start-up of the others, unless two processors that halt at the same
   time have each sent the other its reset before either came to the port. *)
HaltPowersOff ==
  (\E c \in CPU : pc[c] = "halt")
    ~> ~power \/ \E c, d \in CPU : c # d /\ stop[c] > d /\ stop[d] > c

(* A processor that a halting one has stopped is parked in the boot sector once the
   message arrives and never runs the kernel again, whatever start-up was still
   going on and whatever messages it is sent afterwards. *)
StoppedStays ==
  \A h, c \in CPU : pc[h] \in {"halt", "halted"} /\ c < stop[h] /\ c # h =>
    c \in sent \/ pc[c] \in {"reset", "spin"}
=============================================================================
