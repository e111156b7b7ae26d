-------------------------------- MODULE Cte --------------------------------
(***************************************************************************)
(* Contexts and traps of AbstractMachine on x86-qemu, 32-bit: cte.c,       *)
(* trap32.S and ucontext of vme.c, on one processor.                       *)
(*                                                                         *)
(* Memory is the kernel stacks, a word per address; stack t is the S words *)
(* below Kend(t).  Registers and words hold integers.  The code runs with  *)
(* interrupts off from the `cli' of a vector's stub to the `iret', so all  *)
(* of it is one action, Handle.  The gates are trap gates: the processor   *)
(* enters a stub with interrupts still on, and an interrupt may come in    *)
(* before the `cli'.  A processor in a stub has eip = Stub(vector).        *)
(*                                                                         *)
(* The client of cte_init is a scheduler that saves the context it is      *)
(* given under the current thread and returns any saved context; it drops  *)
(* the context of the boot code, which never runs again.  Words below a    *)
(* stack pointer are dead; the C frames of the handler and of the code     *)
(* that runs next overwrite them, at once in the model.                    *)
(***************************************************************************)
EXTENDS Integers, Sequences, SequencesExt

CONSTANTS KThread,      \* kernel threads: numbers of their stacks
          UThread,      \* threads that run in user mode
          Boot,         \* the kernel thread that calls cte_init
          S,            \* words of a kernel stack
          Seed,         \* contents the threads compute with
          MaxWords,     \* words a kernel thread keeps on its stack
          Soft,         \* vectors of traps and faults: 14, 128, 129
          Line          \* vectors of the interrupts that are enabled

Thread == KThread \cup UThread

ASSUME CteAssumption ==
  /\ Thread \subseteq Nat \ {0} /\ KThread \cap UThread = {} /\ Boot \in KThread
  /\ MaxWords \in Nat /\ S \in Nat /\ S >= 28 + MaxWords /\ Seed \subseteq 1..9
  /\ Line \subseteq 32..63 /\ Soft \subseteq {14, 128, 129}

VARIABLES mem,      \* the words of the kernel stacks
          cpu,      \* the registers
          cr3,      \* the current address space
          esp0,     \* tss.esp0, the stack a trap from user mode starts on
          current,  \* client: the running thread
          pool,     \* client: the saved context of each other thread
          isr,      \* local APIC: the vector in service, 0 if none
          expect    \* history: what each thread must find when it goes on

vars == <<mem, cpu, cr3, esp0, current, pool, isr, expect>>
-----------------------------------------------------------------------------
NoCtx == -1
Junk  == -2
IsSet == 1      \* FL_IF in eflags

KCODE == 8
KDATA == 16
UCODE == 27
UDATA == 35
KernelSpace == 100
UserTop     == 9000      \* uvm_area.end
KStart      == 2000      \* __am_kcontext_start
PanicRet    == 2001      \* __am_panic_on_return
Entry(t)    == 5000 + t
Arg(t)      == 2200 + t
Space(t)    == 2300 + t  \* the address space of a user thread
Stub(v)     == 3000 + v
Code(v)     == 4000 + v

Kend(t)    == t * S
Stack(t)   == (Kend(t) - S)..(Kend(t) - 1)
inUser(r)  == r.cs = UCODE

\* struct Context, as word offsets.
off == [cr3 |-> 0, ds |-> 1, eax |-> 2, ebx |-> 3, ecx |-> 4, edx |-> 5,
        esp0 |-> 6, esi |-> 7, edi |-> 8, ebp |-> 9, eip |-> 10, cs |-> 11,
        eflags |-> 12, esp |-> 13, ss3 |-> 14]
ContextWords == 15
Gpr == <<"eax", "ebx", "ecx", "edx", "esi", "edi", "ebp">>

\* Memory m with the words f written over it.
Over(f, m) == [a \in DOMAIN f \cup DOMAIN m |-> IF a \in DOMAIN f THEN f[a] ELSE m[a]]

store(m, ctx, fields) ==
  Over([a \in {ctx + off[f] : f \in DOMAIN fields} |->
          fields[CHOOSE f \in DOMAIN fields : a = ctx + off[f]]], m)

\* pushl, for each word of ws in turn: [m, sp] after it.
pushAll(m, sp, ws) ==
  [m |-> Over([a \in (sp - Len(ws))..(sp - 1) |-> ws[sp - a]], m), sp |-> sp - Len(ws)]

\* The words of its kernel stack a thread with registers r still needs.
live(m, t, r) == IF inUser(r) THEN <<>> ELSE [a \in r.esp..(Kend(t) - 1) |-> m[a]]

\* The dead words of stack t, below sp, are overwritten.
clobber(m, t, sp) == Over([a \in {b \in Stack(t) : b < sp} |-> Junk], m)

blank == [ds |-> 0, eax |-> 0, ebx |-> 0, ecx |-> 0, edx |-> 0, esi |-> 0,
          edi |-> 0, ebp |-> 0, eip |-> 0, cs |-> 0, eflags |-> 0, esp |-> 0]

(***************************************************************************)
(* New contexts, at the top of the stack they are for.                     *)
(***************************************************************************)
zeroed(m, ctx) == Over([a \in ctx..(ctx + ContextWords - 1) |-> 0], m)

kregs(t) == [blank EXCEPT !.ds = KDATA, !.cs = KCODE, !.eip = KStart,
                          !.eflags = IsSet, !.esp = Kend(t),
                          !.eax = Arg(t), !.ebx = Entry(t)]
uregs(t) == [blank EXCEPT !.ds = UDATA, !.cs = UCODE, !.eip = Entry(t),
                          !.eflags = IsSet, !.esp = UserTop]

kcontext(m, t, ctx) == store(zeroed(m, ctx), ctx, kregs(t))
ucontext(m, t, ctx) ==
  store(store(zeroed(m, ctx), ctx, uregs(t)), ctx,
        [ss3 |-> UDATA, esp0 |-> Kend(t), cr3 |-> Space(t)])

(***************************************************************************)
(* __am_iret: the memory and the registers it leaves.  To a user context   *)
(* it pops the context itself.  To a kernel context it first copies six    *)
(* words, from the highest down, to just below the new stack pointer, and  *)
(* pops the copy: of a context of kcontext the copy overlaps the original. *)
(***************************************************************************)
moved == <<"eflags", "cs", "eip", "ebp", "edi", "esi">>

\* A plausible bug: copies the lowest word first.
copied_LowFirst(m, ctx, sp) ==
  LET w[i \in DOMAIN moved] ==
        LET src == ctx + off[moved[i]]
        IN  IF sp - src \in i+1..6 THEN w[sp - src] ELSE m[src]
  IN  w

\* The words copied: the i-th is read after the first i - 1 were written.
copied(m, ctx, sp) ==
  LET w[i \in DOMAIN moved] ==
        LET src == ctx + off[moved[i]]
        IN  IF sp - src \in 1..i-1 THEN w[sp - src] ELSE m[src]
  IN  w

iret(m, ctx) ==
  LET r  == [f \in DOMAIN blank |-> m[ctx + off[f]]]
      w  == copied(m, ctx, r.esp)
      up == [eflags |-> w[1], cs |-> w[2], eip |-> w[3], ebp |-> w[4],
             edi |-> w[5], esi |-> w[6]]
  IN  IF r.cs # KCODE THEN [m |-> m, r |-> r]
      ELSE [m |-> Over([a \in (r.esp - 6)..(r.esp - 1) |-> w[r.esp - a]], m),
            r |-> Over(up, r)]
-----------------------------------------------------------------------------
Init ==
  /\ mem = [a \in UNION {Stack(t) : t \in Thread} |-> Junk]
  /\ cpu = [kregs(Boot) EXCEPT !.eip = Code(0), !.eflags = 0]
  /\ cr3 = KernelSpace /\ esp0 = 0
  /\ current = Boot
  /\ pool = [t \in Thread |-> NoCtx]
  /\ isr = 0
  /\ expect = [t \in Thread |-> <<>>]

running == cpu.eip \in {Code(v) : v \in Seed} \cup {Entry(t) : t \in Thread}

\* The boot thread makes the contexts of all the others and gives them to the
\* scheduler, then enables interrupts or yields; nothing goes back to it.
booting    == current = Boot /\ cpu.eip = Code(0)
created(t) == pool[t] # NoCtx
booted     == booting /\ \A t \in Thread \ {Boot} : created(t)

Kcontext(t) ==
  /\ booting /\ ~created(t)
  /\ LET ctx == Kend(t) - ContextWords
     IN  /\ mem' = kcontext(mem, t, ctx)
         /\ pool' = [pool EXCEPT ![t] = ctx]
  /\ expect' = [expect EXCEPT ![t] = <<[r |-> kregs(t), words |-> <<>>]>>]
  /\ UNCHANGED <<cpu, cr3, esp0, current, isr>>

Ucontext(t) ==
  /\ booting /\ ~created(t)
  /\ LET ctx == Kend(t) - ContextWords
     IN  /\ mem' = ucontext(mem, t, ctx)
         /\ pool' = [pool EXCEPT ![t] = ctx]
  /\ expect' = [expect EXCEPT ![t] = <<[r |-> uregs(t), words |-> <<>>]>>]
  /\ UNCHANGED <<cpu, cr3, esp0, current, isr>>

\* The thread computes: every register gets a value of its own.
Compute(v) ==
  /\ running /\ cpu.eip # Code(v)
  /\ cpu' = [f \in DOMAIN cpu |-> IF \E i \in DOMAIN Gpr : Gpr[i] = f
                                  THEN 10 * v + (CHOOSE i \in DOMAIN Gpr : Gpr[i] = f)
                                  ELSE IF f = "eip" THEN Code(v) ELSE cpu[f]]
  /\ UNCHANGED <<mem, cr3, esp0, current, pool, isr, expect>>

\* A plausible bug: the return address and the argument are swapped.
KcontextStart_Swapped ==
  /\ cpu.eip = KStart
  /\ LET st == pushAll(mem, cpu.esp, <<PanicRet, cpu.eax>>)
     IN  mem' = st.m /\ cpu' = [cpu EXCEPT !.esp = st.sp, !.eip = cpu.ebx]
  /\ UNCHANGED <<cr3, esp0, current, pool, isr, expect>>

\* The first instructions of a kernel thread call its entry with the argument.
KcontextStart ==
  /\ cpu.eip = KStart
  /\ LET st == pushAll(mem, cpu.esp, <<cpu.eax, PanicRet>>)
     IN  mem' = st.m /\ cpu' = [cpu EXCEPT !.esp = st.sp, !.eip = cpu.ebx]
  /\ UNCHANGED <<cr3, esp0, current, pool, isr, expect>>

\* A kernel thread keeps words on its stack.
PushWord(v) ==
  /\ running /\ ~inUser(cpu) /\ cpu.esp > Kend(current) - MaxWords
  /\ LET st == pushAll(mem, cpu.esp, <<v>>)
     IN  mem' = st.m /\ cpu' = [cpu EXCEPT !.esp = st.sp]
  /\ UNCHANGED <<cr3, esp0, current, pool, isr, expect>>

\* iset, in a kernel thread.
Iset(enable) ==
  /\ booted \/ (running /\ ~inUser(cpu))
  /\ cpu.eflags # enable
  /\ cpu' = [cpu EXCEPT !.eflags = enable]
  /\ UNCHANGED <<mem, cr3, esp0, current, pool, isr, expect>>

(***************************************************************************)
(* The processor enters the gate of vector v: from user mode on tss.esp0   *)
(* with ss and esp, then eflags, cs, eip, and an error code for some       *)
(* faults.  A trap gate leaves IF alone.                                   *)
(***************************************************************************)
HasError(v) == v \in {8} \cup 10..14

Enter(v) ==
  LET from == IF inUser(cpu) THEN esp0 ELSE cpu.esp
      st   == pushAll(mem, from,
                (IF inUser(cpu) THEN <<UDATA, cpu.esp>> ELSE <<>>)
                \o <<cpu.eflags, cpu.cs, cpu.eip>>
                \o (IF HasError(v) THEN <<Junk>> ELSE <<>>))
  IN  /\ mem' = st.m
      /\ cpu' = [cpu EXCEPT !.esp = st.sp, !.cs = KCODE, !.eip = Stub(v)]
      /\ expect' = [expect EXCEPT ![current] =
                      Append(@, [r |-> cpu, words |-> live(mem, current, cpu)])]
      /\ UNCHANGED <<cr3, esp0, current, pool>>

\* yield (129); from user mode also a system call (128) or a page fault (14).
SoftTrap(v) ==
  /\ booted \/ running
  /\ v = 129 \/ inUser(cpu)
  /\ Enter(v)
  /\ UNCHANGED isr

\* The local APIC holds back interrupts while one is in service.
Interrupt(v) ==
  /\ cpu.eflags = IsSet
  /\ isr = 0
  /\ Enter(v)
  /\ isr' = v

(***************************************************************************)
(* The stub, trap, __am_irq_handle, the client's handler and __am_iret.    *)
(***************************************************************************)
TrapFrameWords == 22   \* the context, irq, errcode, eip, cs, eflags, esp, ss

\* The frame trap builds: [m, sp] with sp the trap_frame.  Five words are left
\* for __am_irq_handle to fill.
frame(v) ==
  LET st == pushAll(mem, cpu.esp, (IF HasError(v) THEN <<>> ELSE <<0>>) \o <<v>>)
  IN  pushAll(st.m, st.sp - 5,
              <<cpu.ebp, cpu.edi, cpu.esi, 0, cpu.edx, cpu.ecx, cpu.ebx, cpu.eax,
                cpu.ds, 0>>)

\* A plausible bug: leaves the 0 that trap pushed as the context's cr3.
saved_NoCr3(st) ==
  LET hw == st.sp + ContextWords + 2
  IN  store(st.m, st.sp,
            [eip |-> st.m[hw], cs |-> st.m[hw + 1], eflags |-> st.m[hw + 2],
             esp |-> IF st.m[hw + 1] = UCODE THEN st.m[hw + 3]
                     ELSE st.sp + TrapFrameWords - 2,
             esp0 |-> esp0, ss3 |-> UDATA])

\* saved_ctx, filled from the words the processor pushed, which are behind irq
\* and errcode; a trap from the kernel pushed no esp.
saved(st) ==
  LET hw == st.sp + ContextWords + 2
  IN  store(st.m, st.sp,
            [eip |-> st.m[hw], cs |-> st.m[hw + 1], eflags |-> st.m[hw + 2],
             esp |-> IF st.m[hw + 1] = UCODE THEN st.m[hw + 3]
                     ELSE st.sp + TrapFrameWords - 2,
             esp0 |-> esp0, ss3 |-> UDATA, cr3 |-> cr3])

\* A plausible bug: the timer, the first line, is left out.
needsEoi_NoTimer(v) == 32 < v /\ v < 64
needsEoi(v) == 32 <= v /\ v < 64

Handle(v, u) ==
  /\ cpu.eip = Stub(v)
  /\ LET st    == frame(v)
         saved_pool == IF current = Boot THEN pool
                       ELSE [pool EXCEPT ![current] = st.sp]
         ret   == saved_pool[u]
         m     == clobber(saved(st), current,
                          IF current = Boot THEN Kend(Boot) ELSE st.sp)
         back  == iret(m, ret)
         space == m[ret + off["cr3"]]
     IN  /\ ret # NoCtx
         /\ isr' = IF needsEoi(v) THEN 0 ELSE isr
         /\ cr3' = IF space # 0 THEN space ELSE cr3
         /\ esp0' = IF space # 0 THEN m[ret + off["esp0"]] ELSE esp0
         /\ cpu' = back.r
         /\ mem' = clobber(back.m, u, IF inUser(back.r) THEN Kend(u) ELSE back.r.esp)
         /\ current' = u
         /\ pool' = [saved_pool EXCEPT ![u] = NoCtx]
         /\ expect' = [expect EXCEPT ![u] = Front(@), ![Boot] = <<>>]

Next == \/ \E t \in KThread \ {Boot} : Kcontext(t)
        \/ \E t \in UThread : Ucontext(t)
        \/ \E v \in Seed : Compute(v) \/ PushWord(v)
        \/ KcontextStart
        \/ \E enable \in {0, IsSet} : Iset(enable)
        \/ \E v \in Soft : SoftTrap(v)
        \/ \E v \in Line : Interrupt(v)
        \/ \E v \in Soft \cup Line, u \in Thread : Handle(v, u)

Spec == Init /\ [][Next]_vars
-----------------------------------------------------------------------------
\* The shape of the state; a thread is nested at most twice, in a software
\* trap and in one interrupt that came before its `cli'.
TypeOK ==
  /\ DOMAIN mem = UNION {Stack(t) : t \in Thread}
  /\ DOMAIN cpu = DOMAIN blank /\ cpu.cs \in {KCODE, UCODE}
  /\ current \in Thread /\ pool[current] = NoCtx
  /\ \A t \in Thread : pool[t] = NoCtx \/ pool[t] \in Stack(t)
  /\ isr \in Line \cup {0}
  /\ \A t \in Thread : Len(expect[t]) <= 2

\* A thread goes on with all of its registers as they were, in the mode it was
\* in, and with every word of its kernel stack as it left it, whatever ran in
\* between and also when it was interrupted inside a trap.
ResumesExactly ==
  [][Len(expect'[current']) < Len(expect[current']) =>
       LET was == Last(expect[current'])
       IN  cpu' = was.r /\ live(mem', current', cpu') = was.words]_vars

\* In user mode the processor is in the thread's own address space and its
\* next trap will start on the thread's own, empty kernel stack.
UserOnOwnStack ==
  inUser(cpu) => /\ current \in UThread
                 /\ esp0 = Kend(current) /\ cr3 = Space(current)

\* The entry of a kernel thread is called with its argument on the stack and
\* __am_panic_on_return as its return address.
EntryCalled ==
  \A t \in KThread : cpu.eip = Entry(t) =>
    /\ current = t /\ cpu.esp <= Kend(t) - 2
    /\ mem[Kend(t) - 2] = PanicRet /\ mem[Kend(t) - 1] = Arg(t)

\* An interrupt in service is the one whose stub the processor is in: it is
\* acknowledged before any thread goes on, so that the next one can come.
IrqAcknowledged == isr # 0 => cpu.eip = Stub(isr)
=============================================================================
