------------------------------- MODULE Native -------------------------------
(***************************************************************************)
(* AbstractMachine as a Linux process (am/src/native), one processor: the  *)
(* contexts and traps of cte.c made of signals, the address spaces of      *)
(* vme.c made of mmap, and the key queue of ioe/input.c.                   *)
(*                                                                         *)
(* `at' is where the instruction pointer is: user code, kernel code, a     *)
(* shared library, behind the system call of sigprocmask, irq_handle, or   *)
(* its magic call that ends in iret.  Interrupts are the signals SIGVTALRM *)
(* and SIGUSR1: a pending one is delivered when they are not blocked.      *)
(* A thread has one saved context; it is set up by the signal handler, and *)
(* irq_handle, which runs next and cannot be interrupted, fills in the     *)
(* address space and the kernel stack.                                     *)
(*                                                                         *)
(* The client is a kernel.  It boots with interrupts off, makes its spaces *)
(* and threads and yields, never to go back to the boot code.  Its handler *)
(* returns any saved context, it calls map and the keyboard with           *)
(* interrupts off, and it maps a page of a space once, as the x86-qemu     *)
(* machine requires.                                                       *)
(***************************************************************************)
EXTENDS Integers, Sequences

CONSTANTS KThread, UThread,  \* threads; a thread's number is its stack's top
          Boot,              \* the kernel thread that starts
          Space, UserPage, Frame,
          Write,             \* write permissions pages are mapped with
          Junk,              \* what kcontext may leave in ksp
          KeyQueueLen,       \* KEY_QUEUE_LEN
          MaxKeys            \* keys pressed in a behaviour

Thread == KThread \cup UThread

ASSUME NativeAssumption ==
  /\ Thread \subseteq Nat \ {0} /\ KThread \cap UThread = {} /\ Boot \in KThread
  /\ 0 \notin Space /\ Write \subseteq BOOLEAN
  /\ KeyQueueLen \in Nat \ {0, 1} /\ MaxKeys \in Nat

VARIABLES active,   \* spaces protect has made
          pages,    \* per space the list of its PageMap nodes, head first
          host,     \* the process's own mappings in USER_SPACE
          thiscpu,  \* vm_head, ksp and ev
          at, mask, pending, cur,
          ctx,      \* the saved context of each thread, a set of at most one
          home,     \* history: the space each user thread was made for
          cause,    \* history: the event of the trap being handled
          queue, key_f, key_r,
          event_pc, \* event_thread: waiting, or about to send SIGUSR1
          pressed,  \* history: the keys pressed are 1..pressed
          taken,    \* history: the keys read
          overrun   \* history: the queue was filled once

vmvars   == <<active, pages, host>>
cpuvars  == <<thiscpu, at, mask, pending, cur, ctx, home, cause>>
keyvars  == <<queue, key_f, key_r, event_pc, pressed, taken, overrun>>
vars     == <<vmvars, cpuvars, keyvars>>

NULL == 0
Irq  == {"SIGVTALRM", "SIGUSR1"}

Init ==
  /\ active = {} /\ pages = [s \in Space |-> <<>>]
  /\ host = [v \in UserPage |-> {}]
  /\ thiscpu = [vm_head |-> NULL, ksp |-> NULL, ev |-> "none"]
  /\ at = "code" /\ mask = TRUE /\ pending = {} /\ cur = Boot
  /\ ctx = [t \in Thread |-> {}] /\ home = [t \in Thread |-> NULL]
  /\ cause = "none"
  /\ queue = [i \in 0..KeyQueueLen-1 |-> 0] /\ key_f = 0 /\ key_r = 0
  /\ event_pc = "wait" /\ pressed = 0 /\ taken = <<>> /\ overrun = FALSE

\* The client calls the machine with interrupts off.
calling == mask /\ at \in {"code", "handler"}
booting == cur = Boot /\ at = "code"
booted  == \A t \in Thread \ {Boot} : ctx[t] # {}
-----------------------------------------------------------------------------
(***************************************************************************)
(* vme.c                                                                   *)
(***************************************************************************)
protect(s) ==
  /\ booting /\ s \notin active
  /\ active' = active \cup {s}
  /\ pages' = [pages EXCEPT ![s] = <<>>]
  /\ UNCHANGED <<host, cpuvars, keyvars>>

entry(pp) == {[frame |-> pp.frame, write |-> pp.write]}

\* A plausible bug: maps the page at once but does not say so in the node.
map_NotFlagged(s, v, f, w) ==
  /\ calling /\ s \in active
  /\ \A i \in DOMAIN pages[s] : pages[s][i].va # v
  /\ LET pp == [va |-> v, frame |-> f, write |-> w, is_mapped |-> FALSE]
     IN  /\ pages' = [pages EXCEPT ![s] = <<pp>> \o @]
         /\ host' = IF s = thiscpu.vm_head THEN [host EXCEPT ![v] = entry(pp)] ELSE host
  /\ UNCHANGED <<active, cpuvars, keyvars>>

\* A new node at the head of the list, mapped at once in the current space.
map(s, v, f, w) ==
  /\ calling /\ s \in active
  /\ \A i \in DOMAIN pages[s] : pages[s][i].va # v
  /\ LET now == s = thiscpu.vm_head
         pp  == [va |-> v, frame |-> f, write |-> w, is_mapped |-> now]
     IN  /\ pages' = [pages EXCEPT ![s] = <<pp>> \o @]
         /\ host' = IF now THEN [host EXCEPT ![v] = entry(pp)] ELSE host
  /\ UNCHANGED <<active, cpuvars, keyvars>>

flagged(list, b) == [i \in DOMAIN list |-> [list[i] EXCEPT !.is_mapped = b]]

\* The mappings after the nodes of a list that are mapped were unmapped, and
\* after all nodes of a list were mapped.
unmapped(h, list) ==
  [v \in UserPage |-> IF \E i \in DOMAIN list : list[i].va = v /\ list[i].is_mapped
                      THEN {} ELSE h[v]]
remapped(h, list) ==
  [v \in UserPage |-> IF \E i \in DOMAIN list : list[i].va = v
                      THEN entry(list[CHOOSE i \in DOMAIN list : list[i].va = v])
                      ELSE h[v]]

listOf(head) == IF head = NULL THEN <<>> ELSE pages[head]

__am_switch(head) ==
  LET now_head == thiscpu.vm_head
      off      == unmapped(host, listOf(now_head))
  IN  IF head = now_head THEN UNCHANGED vmvars
      ELSE /\ host' = remapped(off, listOf(head))
           /\ pages' = [s \in Space |-> CASE s = now_head -> flagged(pages[s], FALSE)
                                          [] s = head -> flagged(pages[s], TRUE)
                                          [] OTHER -> pages[s]]
           /\ UNCHANGED active
-----------------------------------------------------------------------------
(***************************************************************************)
(* Contexts.  kcontext leaves ksp as the memory was.                       *)
(***************************************************************************)
newContext(t, c) ==
  /\ booting /\ ctx[t] = {}
  /\ ctx' = [ctx EXCEPT ![t] = {c}]
  /\ UNCHANGED <<vmvars, thiscpu, at, mask, pending, cur, cause, keyvars>>

kcontext(t) ==
  \E junk \in Junk :
    /\ newContext(t, [at |-> "code", mask |-> FALSE, vm_head |-> NULL, ksp |-> junk])
    /\ UNCHANGED home

ucontext(t, s) ==
  /\ s \in active
  /\ newContext(t, [at |-> "user", mask |-> FALSE, vm_head |-> s, ksp |-> t])
  /\ home' = [home EXCEPT ![t] = s]

\* iset: at its end sigprocmask is behind its system call, where a signal that
\* was blocked comes in.
iset(enable) ==
  /\ at = "code" /\ cur # Boot /\ mask = enable
  /\ mask' = ~enable /\ at' = "sigprocmask"
  /\ UNCHANGED <<vmvars, thiscpu, pending, cur, ctx, home, cause, keyvars>>

\* Kernel code calls into a shared library and comes back.
Library ==
  /\ cur # Boot
  /\ at' = CASE at = "code" -> "lib" [] at \in {"lib", "sigprocmask"} -> "code"
             [] OTHER -> "none"
  /\ at' # "none"
  /\ UNCHANGED <<vmvars, thiscpu, mask, pending, cur, ctx, home, cause, keyvars>>
-----------------------------------------------------------------------------
(***************************************************************************)
(* Traps.                                                                  *)
(***************************************************************************)
__am_in_userspace == thiscpu.vm_head # NULL /\ at = "user"

signal_safe == at \in {"code", "handler", "iret", "sigprocmask"} \/ __am_in_userspace

\* A plausible bug: leaves interrupts on.
setup_stack_Unmasked(event, rip) ==
  /\ ctx' = [ctx EXCEPT ![cur] = {[at |-> rip, mask |-> mask,
                                   vm_head |-> thiscpu.vm_head,
                                   ksp |-> thiscpu.ksp]}]
  /\ thiscpu' = [thiscpu EXCEPT !.ev = event]
  /\ cause' = event /\ at' = "handler"
  /\ UNCHANGED <<vmvars, mask, cur, home, keyvars>>

\* setup_stack and the first lines of irq_handle: the context, to go on at
\* rip, and interrupts off.
setup_stack(event, rip) ==
  /\ ctx' = [ctx EXCEPT ![cur] = {[at |-> rip, mask |-> mask,
                                   vm_head |-> thiscpu.vm_head,
                                   ksp |-> thiscpu.ksp]}]
  /\ thiscpu' = [thiscpu EXCEPT !.ev = event]
  /\ cause' = event
  /\ mask' = TRUE /\ at' = "handler"
  /\ UNCHANGED <<vmvars, cur, home, keyvars>>

\* A pending interrupt: in a shared library it is dropped.
sig_handler(sig) ==
  /\ sig \in pending /\ ~mask
  /\ pending' = pending \ {sig}
  /\ LET event == IF sig = "SIGUSR1" THEN "EVENT_IRQ_IODEV" ELSE "EVENT_IRQ_TIMER"
     IN  \/ signal_safe /\ setup_stack(event, at)
         \/ /\ ~signal_safe
            /\ thiscpu' = [thiscpu EXCEPT !.ev = event]
            /\ UNCHANGED <<vmvars, at, mask, cur, ctx, home, cause, keyvars>>

\* yield raises SIGUSR2, whose handler returns into the library.
yield == /\ at = "code" /\ (cur = Boot => booted)
         /\ setup_stack("EVENT_YIELD", "lib")
         /\ UNCHANGED pending

\* A user program traps by touching the trap page; it goes on behind it.
syscall == /\ at = "user"
           /\ setup_stack("EVENT_SYSCALL", "user")
           /\ UNCHANGED pending

\* A user program touches a page that is not mapped, or writes one that is not
\* writable; it will try again.
pagefault(v) == /\ at = "user"
                /\ \A e \in host[v] : ~e.write
                /\ setup_stack("EVENT_PAGEFAULT", "user")
                /\ UNCHANGED pending

\* irq_handle from the client's handler to the magic call.
irq_handle(u) ==
  /\ at = "handler"
  /\ \E c \in ctx[u] :
       /\ __am_switch(c.vm_head)
       /\ thiscpu' = [thiscpu EXCEPT !.vm_head = c.vm_head]
  /\ cur' = u /\ at' = "iret"
  /\ ctx' = [ctx EXCEPT ![Boot] = {}]
  /\ UNCHANGED <<mask, pending, home, cause, keyvars>>

\* A plausible bug: does not restore the kernel stack.
iret_NoKsp ==
  /\ at = "iret"
  /\ \E c \in ctx[cur] :
       /\ at' = c.at /\ mask' = c.mask
       /\ thiscpu' = [thiscpu EXCEPT !.ev = "EVENT_ERROR"]
  /\ ctx' = [ctx EXCEPT ![cur] = {}] /\ cause' = "none"
  /\ UNCHANGED <<vmvars, pending, cur, home, keyvars>>

\* The magic call faults; the handler puts the context in place of its own.
iret ==
  /\ at = "iret"
  /\ \E c \in ctx[cur] :
       /\ at' = c.at /\ mask' = c.mask
       /\ thiscpu' = [thiscpu EXCEPT !.ksp = c.ksp, !.ev = "EVENT_ERROR"]
  /\ ctx' = [ctx EXCEPT ![cur] = {}] /\ cause' = "none"
  /\ UNCHANGED <<vmvars, pending, cur, home, keyvars>>

\* The interval timer.
Timer == /\ pending' = pending \cup {"SIGVTALRM"}
         /\ UNCHANGED <<vmvars, thiscpu, at, mask, cur, ctx, home, cause, keyvars>>
-----------------------------------------------------------------------------
(***************************************************************************)
(* ioe/input.c.  Both sides hold the mutex from the first to the last      *)
(* access to the queue; the signal follows after it was released.          *)
(***************************************************************************)
\* A plausible bug: moves on before it stores the key.
Press_Early ==
  /\ event_pc = "wait" /\ pressed < MaxKeys
  /\ key_r' = (key_r + 1) % KeyQueueLen
  /\ queue' = [queue EXCEPT ![key_r'] = pressed + 1]
  /\ pressed' = pressed + 1
  /\ overrun' = (overrun \/ key_r' = key_f)
  /\ event_pc' = "send"
  /\ UNCHANGED <<vmvars, cpuvars, key_f, taken>>

Press ==
  /\ event_pc = "wait" /\ pressed < MaxKeys
  /\ queue' = [queue EXCEPT ![key_r] = pressed + 1]
  /\ key_r' = (key_r + 1) % KeyQueueLen
  /\ pressed' = pressed + 1
  /\ overrun' = (overrun \/ key_r' = key_f)
  /\ event_pc' = "send"
  /\ UNCHANGED <<vmvars, cpuvars, key_f, taken>>

__am_send_kbd_intr ==
  /\ event_pc = "send" /\ event_pc' = "wait"
  /\ pending' = pending \cup {"SIGUSR1"}
  /\ UNCHANGED <<vmvars, thiscpu, at, mask, cur, ctx, home, cause, queue, key_f,
                 key_r, pressed, taken, overrun>>

__am_input_keybrd ==
  /\ calling /\ key_f # key_r
  /\ taken' = Append(taken, queue[key_f])
  /\ key_f' = (key_f + 1) % KeyQueueLen
  /\ UNCHANGED <<vmvars, cpuvars, queue, key_r, event_pc, pressed, overrun>>
-----------------------------------------------------------------------------
Next ==
  \/ \E s \in Space : protect(s)
  \/ \E s \in Space, v \in UserPage, f \in Frame, w \in Write : map(s, v, f, w)
  \/ \E t \in KThread \ {Boot} : kcontext(t)
  \/ \E t \in UThread, s \in Space : ucontext(t, s)
  \/ \E enable \in BOOLEAN : iset(enable)
  \/ Library \/ yield \/ syscall \/ iret \/ Timer
  \/ \E sig \in Irq : sig_handler(sig)
  \/ \E v \in UserPage : pagefault(v)
  \/ \E u \in Thread \ {Boot} : irq_handle(u)
  \/ Press \/ __am_send_kbd_intr \/ __am_input_keybrd

Spec == Init /\ [][Next]_vars
-----------------------------------------------------------------------------
\* What a user program in space s sees at page v: the mappings of the process
\* while s is current, and what __am_switch would install otherwise.
userView(s, v) == IF s = thiscpu.vm_head THEN host[v]
                  ELSE remapped([x \in UserPage |-> {}], pages[s])[v]

View == INSTANCE VmeSpec WITH
  view <- [s \in Space |-> [v \in UserPage |-> userView(s, v)]]

\* The native machine promises what the x86-qemu machine does: a space shows
\* exactly the pages mapped into it, whatever spaces were current in between
\* and whether or not it was current when a page was mapped.
ImplementsView == View!Spec

\* A user program runs with interrupts on, in the space it was made for, and
\* its next trap will start on its own kernel stack.
UserInOwnSpace ==
  at = "user" => /\ ~mask /\ cur \in UThread
                 /\ thiscpu.vm_head = home[cur] /\ thiscpu.ksp = cur

\* The event that irq_handle gives the client's handler is that of the trap
\* that made the context, whatever signals came since, and that context is
\* still the thread's own.
EventIsCause ==
  at = "handler" => /\ thiscpu.ev = cause /\ mask
                    /\ \A c \in ctx[cur] : c.at # "handler"
                    /\ ctx[cur] # {}

\* The keys still in the queue, in the order they will be read.
queued == [i \in 1..((key_r - key_f) % KeyQueueLen) |->
             queue[(key_f + i - 1) % KeyQueueLen]]

\* Keys are read in the order they were pressed and none twice; while the queue
\* was never filled, none is missing either.
KeysKept ==
  LET all == taken \o queued
  IN  /\ \A i, j \in DOMAIN all : i < j => all[i] < all[j]
      /\ ~overrun => all = [i \in 1..pressed |-> i]
=============================================================================
