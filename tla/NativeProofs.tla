---------------------------- MODULE NativeProofs ----------------------------
(***************************************************************************)
(* What the native machine guarantees for every set of threads, spaces and *)
(* pages and every length of the key queue: its traps, its address spaces  *)
(* and its key queue, each from an inductive invariant of its own.         *)
(***************************************************************************)
EXTENDS Native, SequenceTheorems, TLAPS

-----------------------------------------------------------------------------
(* Traps *)

\* Where a thread can be interrupted, so where a saved context can go on.
Place == {"user", "code", "lib", "sigprocmask"}

\* What must hold of a context, or of the running thread, that is in user code.
OwnSpace(t, m, head, sp) == ~m /\ t \in UThread /\ head = home[t] /\ sp = t

TrapInv ==
  /\ cur \in Thread /\ DOMAIN ctx = Thread /\ DOMAIN home = Thread
  /\ DOMAIN thiscpu = {"vm_head", "ksp", "ev"}
  /\ at \in Place \cup {"handler", "iret"}
  /\ at \in {"handler", "iret"} => mask /\ ctx[cur] # {}
  /\ at = "handler" => thiscpu.ev = cause
  /\ at = "iret" => \A c \in ctx[cur] : c.vm_head = thiscpu.vm_head
  /\ at = "user" => OwnSpace(cur, mask, thiscpu.vm_head, thiscpu.ksp)
  /\ \A t \in Thread : \A c, d \in ctx[t] : c = d
  /\ \A t \in Thread : \A c \in ctx[t] :
       /\ c.at \in Place
       /\ c.at = "user" => OwnSpace(t, c.mask, c.vm_head, c.ksp)

-----------------------------------------------------------------------------
(* Address spaces *)

Node == [va : UserPage, frame : Frame, write : BOOLEAN, is_mapped : BOOLEAN]

\* What a list of nodes shows at page v.
Shown(list, v) == {[frame |-> list[i].frame, write |-> list[i].write] :
                     i \in {j \in DOMAIN list : list[j].va = v}}

\* A page is in a list at most once.
Once(list) == \A i, j \in DOMAIN list : list[i].va = list[j].va => i = j

SpaceInv ==
  /\ active \subseteq Space
  /\ pages \in [Space -> Seq(Node)]
  /\ DOMAIN thiscpu = {"vm_head", "ksp", "ev"}
  /\ thiscpu.vm_head \in active \cup {NULL}
  /\ DOMAIN ctx = Thread
  /\ \A t \in Thread : \A c \in ctx[t] : c.vm_head \in active \cup {NULL}
  /\ \A s \in Space : Once(pages[s])
  /\ \A s \in Space \ active : pages[s] = <<>>
  /\ \A i \in DOMAIN listOf(thiscpu.vm_head) : listOf(thiscpu.vm_head)[i].is_mapped = TRUE
  /\ host = [v \in UserPage |-> Shown(listOf(thiscpu.vm_head), v)]

-----------------------------------------------------------------------------
(* The key queue *)

\* How many keys are queued, and the slot of the queued key number k, from 0.
Held == IF key_r >= key_f THEN key_r - key_f ELSE key_r - key_f + KeyQueueLen
Slot(k) == IF key_f + k < KeyQueueLen THEN key_f + k ELSE key_f + k - KeyQueueLen

KeyInv ==
  /\ queue \in [0..KeyQueueLen-1 -> Nat]
  /\ key_f \in 0..KeyQueueLen-1 /\ key_r \in 0..KeyQueueLen-1
  /\ pressed \in Nat /\ taken \in Seq(Nat)
  /\ \A k \in 0..Held-1 : queue[Slot(k)] = pressed - Held + 1 + k
  /\ \A i, j \in DOMAIN taken : i < j => taken[i] < taken[j]
  /\ \A i \in DOMAIN taken : taken[i] <= pressed - Held
  /\ ~overrun => /\ Len(taken) = pressed - Held
                 /\ \A i \in DOMAIN taken : taken[i] = i

-----------------------------------------------------------------------------
USE NativeAssumption DEF Thread, NULL, vmvars, cpuvars, keyvars

\* setup_stack from a place where the thread can be interrupted.
LEMMA SetupTrap ==
  ASSUME TrapInv, NEW event, NEW rip \in Place, setup_stack(event, rip),
         rip = "user" => at = "user"
  PROVE  TrapInv'
<1> USE DEF TrapInv, setup_stack, Place, OwnSpace
<1> DEFINE new == [at |-> rip, mask |-> mask, vm_head |-> thiscpu.vm_head, ksp |-> thiscpu.ksp]
<1>1. cur' = cur /\ at' = "handler" /\ mask' = TRUE /\ home' = home
  OBVIOUS
<1>2. DOMAIN ctx' = Thread /\ ctx'[cur] = {new}
  OBVIOUS
<1>3. \A t \in Thread \ {cur} : ctx'[t] = ctx[t]
  OBVIOUS
<1>4. DOMAIN thiscpu' = {"vm_head", "ksp", "ev"} /\ thiscpu'.ev = cause'
  OBVIOUS
<1>5. new.at \in Place /\ (new.at = "user" => OwnSpace(cur, new.mask, new.vm_head, new.ksp))
  OBVIOUS
<1> HIDE DEF new
<1>6. \A t \in Thread : \A c, d \in ctx'[t] : c = d
  BY <1>2, <1>3
<1>7. \A t \in Thread : \A c \in ctx'[t] :
        c.at \in Place /\ (c.at = "user" => OwnSpace(t, c.mask, c.vm_head, c.ksp))
  BY <1>2, <1>3, <1>5
<1> QED
  BY <1>1, <1>2, <1>4, <1>6, <1>7

\* The trap invariant holds when the machine starts.
LEMMA InitTrap == Init => TrapInv
BY DEF Init, TrapInv, Place, OwnSpace

\* Every step preserves the trap invariant.
LEMMA NextTrap == TrapInv /\ [Next]_vars => TrapInv'
<1> SUFFICES ASSUME TrapInv, [Next]_vars PROVE TrapInv'
  OBVIOUS
<1> USE DEF TrapInv, Place, OwnSpace
<1>1. ASSUME NEW s \in Space, protect(s) PROVE TrapInv'
  BY <1>1 DEF protect
<1>2. ASSUME NEW s \in Space, NEW v \in UserPage, NEW f \in Frame, NEW w \in Write,
             map(s, v, f, w)
      PROVE  TrapInv'
  BY <1>2 DEF map
<1>3. ASSUME NEW t \in KThread \ {Boot}, kcontext(t) PROVE TrapInv'
  <2>1. PICK junk \in Junk :
          newContext(t, [at |-> "code", mask |-> FALSE, vm_head |-> NULL, ksp |-> junk])
    BY <1>3 DEF kcontext
  <2> DEFINE new == [at |-> "code", mask |-> FALSE, vm_head |-> NULL, ksp |-> junk]
  <2>2. new.at = "code"
    OBVIOUS
  <2>3. newContext(t, new) /\ UNCHANGED home
    BY <1>3, <2>1 DEF kcontext
  <2> HIDE DEF new
  <2> QED
    BY <2>2, <2>3 DEF newContext, booting
<1>4. ASSUME NEW t \in UThread, NEW s \in Space, ucontext(t, s) PROVE TrapInv'
  <2> DEFINE new == [at |-> "user", mask |-> FALSE, vm_head |-> s, ksp |-> t]
  <2>1. new.at = "user" /\ ~new.mask /\ new.vm_head = s /\ new.ksp = t
    OBVIOUS
  <2>2. newContext(t, new) /\ home' = [home EXCEPT ![t] = s]
    BY <1>4 DEF ucontext
  <2> HIDE DEF new
  <2> QED
    BY <2>1, <2>2 DEF newContext, booting
<1>5. ASSUME NEW enable \in BOOLEAN, iset(enable) PROVE TrapInv'
  BY <1>5 DEF iset
<1>6. CASE Library
  BY <1>6 DEF Library
<1>7. CASE yield
  <2>1. setup_stack("EVENT_YIELD", "lib") /\ "lib" \in Place
    BY <1>7 DEF yield
  <2> HIDE DEF TrapInv, Place, OwnSpace
  <2> QED
    BY <2>1, SetupTrap
<1>8. CASE syscall
  <2>1. setup_stack("EVENT_SYSCALL", "user") /\ "user" \in Place /\ at = "user"
    BY <1>8 DEF syscall
  <2> HIDE DEF TrapInv, Place, OwnSpace
  <2> QED
    BY <2>1, SetupTrap
<1>9. CASE iret
  BY <1>9 DEF iret
<1>10. CASE Timer
  BY <1>10 DEF Timer
<1>11. ASSUME NEW sig \in Irq, sig_handler(sig) PROVE TrapInv'
  <2>1. CASE signal_safe
    <3>1. at \in Place
      BY <1>11 DEF sig_handler
    <3>2. \E event : setup_stack(event, at)
      BY <1>11, <2>1 DEF sig_handler
    <3> HIDE DEF TrapInv, Place, OwnSpace
    <3> QED
      BY <3>1, <3>2, SetupTrap
  <2>2. CASE ~signal_safe
    BY <1>11, <2>2 DEF sig_handler
  <2> QED
    BY <2>1, <2>2
<1>12. ASSUME NEW v \in UserPage, pagefault(v) PROVE TrapInv'
  <2>1. setup_stack("EVENT_PAGEFAULT", "user") /\ "user" \in Place /\ at = "user"
    BY <1>12 DEF pagefault
  <2> HIDE DEF TrapInv, Place, OwnSpace
  <2> QED
    BY <2>1, SetupTrap
<1>13. ASSUME NEW u \in Thread \ {Boot}, irq_handle(u) PROVE TrapInv'
  BY <1>13 DEF irq_handle
<1>14. CASE Press \/ __am_send_kbd_intr \/ __am_input_keybrd
  BY <1>14 DEF Press, __am_send_kbd_intr, __am_input_keybrd
<1>15. CASE UNCHANGED vars
  BY <1>15 DEF vars
<1> HIDE DEF TrapInv, Place, OwnSpace
<1> QED
  BY <1>1, <1>2, <1>3, <1>4, <1>5, <1>6, <1>7, <1>8, <1>9, <1>10, <1>11, <1>12,
     <1>13, <1>14, <1>15 DEF Next

(* Every reachable state satisfies the trap invariant. *)
THEOREM TrapInvariance == Spec => []TrapInv
BY InitTrap, NextTrap, PTL DEF Spec

(* However many threads there are, the event that irq_handle gives the client's
   handler is the one sig_handler recorded for this trap, and the context that
   setup_stack saved is still there: no signal comes in between. *)
THEOREM EventKept == Spec => []EventIsCause
<1>1. TrapInv => EventIsCause
  BY DEF TrapInv, EventIsCause, Place
<1> QED
  BY <1>1, TrapInvariance, PTL

(* A user program only ever runs with interrupts on, in the space that ucontext
   was given, and with its own kernel stack in thiscpu->ksp, whatever context the
   handler has returned in between. *)
THEOREM UserConfined == Spec => []UserInOwnSpace
<1>1. TrapInv => UserInOwnSpace
  BY DEF TrapInv, UserInOwnSpace, OwnSpace
<1> QED
  BY <1>1, TrapInvariance, PTL

-----------------------------------------------------------------------------
(* The key queue *)

\* The remainders that occur in the ring are those of the next two laps.
LEMMA Ring ==
  ASSUME NEW n \in Nat \ {0}, NEW a \in 0..n-1
  PROVE  a % n = a /\ (a + n) % n = a /\ (a - n) % n = a
<1>1. a % n = a
  OBVIOUS
<1>2. (a + n) % n = a
  OBVIOUS
<1>3. (a - n) % n = a
  OBVIOUS
<1> QED
  BY <1>1, <1>2, <1>3

\* The next slot.
LEMMA Advance ==
  ASSUME NEW n \in Nat \ {0}, NEW a \in 0..n-1
  PROVE  (a + 1) % n = IF a = n - 1 THEN 0 ELSE a + 1
<1>1. CASE a = n - 1
  BY <1>1, Ring
<1>2. CASE a # n - 1
  BY <1>2, Ring
<1> QED
  BY <1>1, <1>2

\* The indices of input.c, taken modulo KEY_QUEUE_LEN, are Held and Slot.
LEMMA RingIndex ==
  ASSUME KeyInv
  PROVE  /\ Held \in 0..KeyQueueLen-1
         /\ (key_r - key_f) % KeyQueueLen = Held
         /\ \A k \in 0..KeyQueueLen-1 : /\ Slot(k) \in 0..KeyQueueLen-1
                                       /\ (key_f + k) % KeyQueueLen = Slot(k)
<1> USE DEF KeyInv
<1>1. Held \in 0..KeyQueueLen-1
  BY DEF Held
<1>2. (key_r - key_f) % KeyQueueLen = Held
  <2>1. CASE key_r >= key_f
    BY <1>1, <2>1, Ring DEF Held
  <2>2. CASE key_r < key_f
    <3>1. key_r - key_f = Held - KeyQueueLen
      BY <2>2 DEF Held
    <3> QED
      BY <1>1, <3>1, Ring
  <2> QED
    BY <2>1, <2>2
<1>3. ASSUME NEW k \in 0..KeyQueueLen-1
      PROVE  Slot(k) \in 0..KeyQueueLen-1 /\ (key_f + k) % KeyQueueLen = Slot(k)
  <2>1. Slot(k) \in 0..KeyQueueLen-1
    BY DEF Slot
  <2>2. key_f + k = Slot(k) \/ key_f + k = Slot(k) + KeyQueueLen
    BY DEF Slot
  <2> QED
    BY <2>1, <2>2, Ring
<1> QED
  BY <1>1, <1>2, <1>3

\* The key invariant holds when the machine starts.
LEMMA InitKey == Init => KeyInv
BY DEF Init, KeyInv, Held, Slot

\* A pressed key is stored behind those held; with the queue full, all are lost.
LEMMA PressKey == KeyInv /\ Press => KeyInv'
<1> SUFFICES ASSUME KeyInv, Press PROVE KeyInv'
  OBVIOUS
<1> USE DEF KeyInv
<1>1. key_r' = (IF key_r = KeyQueueLen - 1 THEN 0 ELSE key_r + 1)
  BY Advance DEF Press
<1>2. key_f' = key_f /\ taken' = taken /\ pressed' = pressed + 1
  BY DEF Press
<1>3. queue' = [queue EXCEPT ![key_r] = pressed + 1]
  BY DEF Press
<1>4. \A k : Slot(k)' = Slot(k)
  BY <1>2 DEF Slot
<1>5. CASE key_r' = key_f
  <2>1. Held' = 0
    BY <1>2, <1>5 DEF Held
  <2>2. overrun'
    BY <1>5 DEF Press
  <2>3. Held \in Nat
    BY DEF Held
  <2> QED
    BY <1>1, <1>2, <1>3, <2>1, <2>2, <2>3
<1>6. CASE key_r' # key_f
  <2>1. Held' = Held + 1 /\ Held \in 0..KeyQueueLen-2
    BY <1>1, <1>2, <1>6 DEF Held
  <2>2. Slot(Held) = key_r
    BY DEF Held, Slot
  <2>3. \A k \in 0..Held-1 : Slot(k) # key_r /\ Slot(k) \in 0..KeyQueueLen-1
    BY <2>1 DEF Held, Slot
  <2>4. \A k \in 0..Held : queue'[Slot(k)] = pressed - Held + 1 + k
    <3> SUFFICES ASSUME NEW k \in 0..Held PROVE queue'[Slot(k)] = pressed - Held + 1 + k
      OBVIOUS
    <3>1. CASE k = Held
      BY <1>3, <2>1, <2>2, <3>1
    <3>2. CASE k # Held
      BY <1>3, <2>1, <2>3, <3>2
    <3> QED
      BY <3>1, <3>2
  <2>5. pressed' - Held' = pressed - Held
    BY <1>2, <2>1
  <2>6. ~overrun' => ~overrun
    BY DEF Press
  <2>7. \A k \in 0..Held'-1 : queue'[Slot(k)'] = pressed' - Held' + 1 + k
    BY <1>4, <2>1, <2>4, <2>5
  <2>8. queue' \in [0..KeyQueueLen-1 -> Nat] /\ key_r' \in 0..KeyQueueLen-1
    BY <1>1, <1>3
  <2>9. \A i \in DOMAIN taken' : taken'[i] <= pressed' - Held'
    BY <1>2, <2>5
  <2>10. ~overrun' => /\ Len(taken') = pressed' - Held'
                      /\ \A i \in DOMAIN taken' : taken'[i] = i
    BY <1>2, <2>5, <2>6
  <2>11. pressed' \in Nat /\ taken' = taken /\ key_f' = key_f
    BY <1>2
  <2>12. \A i, j \in DOMAIN taken' : i < j => taken'[i] < taken'[j]
    BY <2>11
  <2> QED
    BY <2>7, <2>8, <2>9, <2>10, <2>11, <2>12
<1> QED
  BY <1>5, <1>6

\* The oldest key held is read: the newest one read, and the next of them all.
LEMMA ReadKey == KeyInv /\ __am_input_keybrd => KeyInv'
<1> SUFFICES ASSUME KeyInv, __am_input_keybrd PROVE KeyInv'
  OBVIOUS
<1> USE DEF KeyInv
<1>1. key_f' = (IF key_f = KeyQueueLen - 1 THEN 0 ELSE key_f + 1)
  BY Advance DEF __am_input_keybrd
<1>2. /\ queue' = queue /\ key_r' = key_r /\ pressed' = pressed
      /\ overrun' = overrun /\ key_f # key_r
  BY DEF __am_input_keybrd
<1>3. Held \in 1..KeyQueueLen-1 /\ Held' = Held - 1
  BY <1>1, <1>2 DEF Held
<1>4. \A k \in 0..Held-2 : Slot(k)' = Slot(k + 1)
  BY <1>1, <1>3 DEF Slot
<1>5. queue[key_f] = pressed - Held + 1
  <2>1. Slot(0) = key_f
    BY DEF Slot
  <2> QED
    BY <1>3, <2>1
<1>6. taken' = Append(taken, queue[key_f])
  BY DEF __am_input_keybrd
<1>7. /\ taken' \in Seq(Nat) /\ Len(taken') = Len(taken) + 1
      /\ taken'[Len(taken) + 1] = pressed - Held + 1
      /\ \A i \in DOMAIN taken : taken'[i] = taken[i]
  BY <1>5, <1>6
<1>8. \A k \in 0..Held'-1 : queue'[Slot(k)'] = pressed' - Held' + 1 + k
  <2> SUFFICES ASSUME NEW k \in 0..Held-2
               PROVE  queue[Slot(k + 1)] = pressed - Held + 1 + (k + 1)
    BY <1>2, <1>3, <1>4
  <2> QED
    BY <1>3
<1>9. DOMAIN taken' = DOMAIN taken \cup {Len(taken) + 1}
  BY <1>7
<1>10. \A i, j \in DOMAIN taken' : i < j => taken'[i] < taken'[j]
  <2> SUFFICES ASSUME NEW i \in DOMAIN taken', NEW j \in DOMAIN taken', i < j
               PROVE  taken'[i] < taken'[j]
    OBVIOUS
  <2>1. i \in DOMAIN taken /\ taken[i] \in Nat
    BY <1>9
  <2>2. CASE j \in DOMAIN taken
    BY <1>7, <2>1, <2>2
  <2>3. CASE j = Len(taken) + 1
    BY <1>3, <1>7, <2>1, <2>3
  <2> QED
    BY <1>9, <2>2, <2>3
<1>11. \A i \in DOMAIN taken' : taken'[i] <= pressed' - Held'
  <2> SUFFICES ASSUME NEW i \in DOMAIN taken' PROVE taken'[i] <= pressed' - Held'
    OBVIOUS
  <2>1. pressed' - Held' = pressed - Held + 1
    BY <1>2, <1>3
  <2>2. CASE i \in DOMAIN taken
    <3>1. taken'[i] = taken[i] /\ taken[i] \in Nat /\ taken[i] <= pressed - Held
      BY <1>7, <2>2
    <3> QED
      BY <1>3, <2>1, <3>1
  <2>3. CASE i = Len(taken) + 1
    <3>1. taken'[i] = pressed - Held + 1
      BY <1>7, <2>3
    <3> QED
      BY <1>3, <2>1, <3>1
  <2> QED
    BY <1>9, <2>2, <2>3
<1>12. ~overrun' => /\ Len(taken') = pressed' - Held'
                    /\ \A i \in DOMAIN taken' : taken'[i] = i
  <2> SUFFICES ASSUME ~overrun
               PROVE  /\ Len(taken') = pressed' - Held'
                      /\ \A i \in DOMAIN taken' : taken'[i] = i
    BY <1>2
  <2>1. Len(taken) = pressed - Held
    OBVIOUS
  <2>2. Len(taken') = pressed' - Held'
    BY <1>2, <1>3, <1>7, <2>1
  <2>3. \A i \in DOMAIN taken : taken'[i] = i
    BY <1>7
  <2>4. taken'[Len(taken) + 1] = Len(taken) + 1
    BY <1>7, <2>1
  <2> QED
    BY <1>9, <2>2, <2>3, <2>4
<1> QED
  BY <1>1, <1>2, <1>7, <1>8, <1>10, <1>11, <1>12

\* Nothing else touches the queue.
LEMMA NextKey == KeyInv /\ [Next]_vars => KeyInv'
<1> SUFFICES ASSUME KeyInv, [Next]_vars PROVE KeyInv'
  OBVIOUS
<1>1. CASE UNCHANGED <<queue, key_f, key_r, pressed, taken, overrun>>
  BY <1>1 DEF KeyInv, Held, Slot
<1>2. \/ UNCHANGED <<queue, key_f, key_r, pressed, taken, overrun>>
      \/ Press \/ __am_input_keybrd
  <2> USE DEF setup_stack
  <2>1. \A s \in Space : protect(s) => UNCHANGED keyvars
    BY DEF protect
  <2>2. \A s \in Space, v \in UserPage, f \in Frame, w \in Write :
          map(s, v, f, w) => UNCHANGED keyvars
    BY DEF map
  <2>3. \A t \in Thread, s \in Space : ucontext(t, s) => UNCHANGED keyvars
    BY DEF ucontext, newContext
  <2>4. \A enable \in BOOLEAN : iset(enable) => UNCHANGED keyvars
    BY DEF iset
  <2>5. Library \/ yield \/ syscall \/ iret \/ Timer => UNCHANGED keyvars
    BY DEF Library, yield, syscall, iret, Timer
  <2>6. \A sig \in Irq : sig_handler(sig) => UNCHANGED keyvars
    BY DEF sig_handler
  <2>7. \A v \in UserPage : pagefault(v) => UNCHANGED keyvars
    BY DEF pagefault
  <2>8. \A u \in Thread : irq_handle(u) => UNCHANGED keyvars
    BY DEF irq_handle
  <2>9. \A t \in Thread : kcontext(t) => UNCHANGED keyvars
    BY DEF kcontext, newContext
  <2> QED
    BY <2>1, <2>2, <2>3, <2>4, <2>5, <2>6, <2>7, <2>8, <2>9 DEF Next, vars, __am_send_kbd_intr
<1> QED
  BY <1>1, <1>2, PressKey, ReadKey

(* Every reachable state satisfies the key invariant. *)
THEOREM KeyInvariance == Spec => []KeyInv
BY InitKey, NextKey, PTL DEF Spec

(* For every length of the queue of input.c and any number of keys, keys are read
   in the order they were pressed and none twice, even after the queue was overrun,
   and none is missing if it never was. *)
THEOREM KeysInOrder == Spec => []KeysKept
<1>1. ASSUME KeyInv PROVE KeysKept
  <2> DEFINE all == taken \o queued
             n   == Len(taken)
  <2>1. Held \in 0..KeyQueueLen-1 /\ Held \in Nat /\ KeyQueueLen \in Nat
    BY <1>1, RingIndex
  <2>2. pressed \in Nat /\ key_f \in Nat /\ n \in Nat /\ taken \in Seq(Int) /\ DOMAIN taken = 1..n
    BY <1>1 DEF KeyInv
  <2>3. ASSUME NEW i \in 1..Held
        PROVE  queue[(key_f + i - 1) % KeyQueueLen] = pressed - Held + i
    <3>1. i - 1 \in 0..Held-1 /\ i - 1 \in 0..KeyQueueLen-1 /\ key_f + i - 1 = key_f + (i - 1)
      BY <2>1, <2>2
    <3>2. (key_f + i - 1) % KeyQueueLen = Slot(i - 1)
      BY <1>1, <3>1, RingIndex
    <3>3. queue[Slot(i - 1)] = pressed - Held + 1 + (i - 1)
      BY <1>1, <3>1 DEF KeyInv
    <3> QED
      BY <2>1, <2>2, <3>2, <3>3
  <2>4. queued = [i \in 1..Held |-> pressed - Held + i]
    BY <1>1, <2>3, RingIndex DEF queued
  <2>5. queued \in Seq(Int) /\ Len(queued) = Held
    BY <2>1, <2>2, <2>4
  <2>6. /\ all \in Seq(Int) /\ Len(all) = n + Held
        /\ \A i \in 1..(n + Held) : all[i] = IF i <= n THEN taken[i] ELSE queued[i - n]
    BY <2>2, <2>5, ConcatProperties
  <2>7. DOMAIN all = 1..(n + Held)
    BY <2>6
  <2> HIDE DEF all, n
  <2>8. \A i \in 1..n : all[i] = taken[i]
    BY <2>1, <2>2, <2>6
  <2>9. \A i \in (n+1)..(n + Held) : all[i] = pressed - Held + i - n
    BY <2>1, <2>2, <2>4, <2>6
  <2>10. ASSUME NEW i \in DOMAIN all, NEW j \in DOMAIN all, i < j
         PROVE  all[i] < all[j]
    <3>1. CASE j \in 1..n
      <4>1. i \in 1..n
        BY <2>1, <2>2, <2>7, <2>10, <3>1
      <4> QED
        BY <1>1, <2>2, <2>8, <2>10, <3>1, <4>1 DEF KeyInv
    <3>2. CASE i \in 1..n /\ j \in (n+1)..(n + Held)
      <4>1. taken[i] \in Int /\ taken[i] <= pressed - Held
        BY <1>1, <2>2, <3>2 DEF KeyInv
      <4> QED
        BY <2>1, <2>2, <2>8, <2>9, <3>2, <4>1
    <3>3. CASE i \in (n+1)..(n + Held) /\ j \in (n+1)..(n + Held)
      BY <2>1, <2>2, <2>9, <2>10, <3>3
    <3> QED
      BY <2>1, <2>2, <2>7, <2>10, <3>1, <3>2, <3>3
  <2>11. ASSUME ~overrun PROVE all = [i \in 1..pressed |-> i]
    <3>1. n = pressed - Held
      BY <1>1, <2>11 DEF KeyInv, n
    <3>2. n + Held = pressed /\ DOMAIN all = 1..pressed
      BY <2>1, <2>2, <2>7, <3>1
    <3>3. ASSUME NEW i \in 1..pressed PROVE all[i] = i
      <4>1. CASE i \in 1..n
        BY <1>1, <2>2, <2>8, <2>11, <4>1 DEF KeyInv
      <4>2. CASE i \in (n+1)..(n + Held)
        BY <2>1, <2>2, <2>9, <3>1, <4>2
      <4> QED
        BY <2>1, <2>2, <3>2, <4>1, <4>2
    <3> QED
      BY <2>6, <3>2, <3>3
  <2> QED
    BY <2>10, <2>11 DEF KeysKept, all
<1> QED
  BY <1>1, KeyInvariance, PTL

-----------------------------------------------------------------------------
(* Address spaces *)

\* Flags change neither what a list shows nor which pages it has.
LEMMA FlaggedList ==
  ASSUME NEW list \in Seq(Node), NEW b \in BOOLEAN
  PROVE  /\ flagged(list, b) \in Seq(Node)
         /\ DOMAIN flagged(list, b) = DOMAIN list
         /\ \A i \in DOMAIN list : /\ flagged(list, b)[i].va = list[i].va
                                  /\ flagged(list, b)[i].frame = list[i].frame
                                  /\ flagged(list, b)[i].write = list[i].write
                                  /\ flagged(list, b)[i].is_mapped = b
<1>1. \A i \in DOMAIN list : list[i] \in Node
  OBVIOUS
<1>2. \A i \in DOMAIN list : [list[i] EXCEPT !.is_mapped = b] \in Node
  BY <1>1 DEF Node
<1>3. DOMAIN list = 1..Len(list) /\ Len(list) \in Nat
  OBVIOUS
<1>4. flagged(list, b) \in Seq(Node)
  BY <1>2, <1>3 DEF flagged
<1> QED
  BY <1>1, <1>4 DEF flagged, Node

\* Marking the nodes mapped or unmapped changes nothing a list shows.
LEMMA FlaggedShows ==
  ASSUME NEW list \in Seq(Node), NEW b \in BOOLEAN
  PROVE  /\ Once(list) => Once(flagged(list, b))
         /\ \A v : Shown(flagged(list, b), v) = Shown(list, v)
<1>1. Once(list) => Once(flagged(list, b))
  BY FlaggedList DEF Once
<1>2. ASSUME NEW v PROVE Shown(flagged(list, b), v) = Shown(list, v)
  <2> DEFINE new == flagged(list, b)
  <2>1. /\ DOMAIN new = DOMAIN list
        /\ \A i \in DOMAIN list : /\ new[i].va = list[i].va
                                 /\ new[i].frame = list[i].frame
                                 /\ new[i].write = list[i].write
    BY FlaggedList
  <2> HIDE DEF new
  <2>2. {j \in DOMAIN new : new[j].va = v} = {j \in DOMAIN list : list[j].va = v}
    BY <2>1
  <2>3. Shown(new, v) \subseteq Shown(list, v) /\ Shown(list, v) \subseteq Shown(new, v)
    BY <2>1, <2>2 DEF Shown
  <2> QED
    BY <2>3 DEF new
<1> QED
  BY <1>1, <1>2

\* A new node at the head adds its page and leaves the others.
LEMMA PushedShows ==
  ASSUME NEW list \in Seq(Node), NEW pp \in Node, Once(list),
         \A i \in DOMAIN list : list[i].va # pp.va
  PROVE  /\ <<pp>> \o list \in Seq(Node)
         /\ Once(<<pp>> \o list)
         /\ Shown(list, pp.va) = {}
         /\ Shown(<<pp>> \o list, pp.va) = entry(pp)
         /\ \A v : v # pp.va => Shown(<<pp>> \o list, v) = Shown(list, v)
<1> DEFINE new == <<pp>> \o list
<1>1. <<pp>> \in Seq(Node) /\ Len(<<pp>>) = 1 /\ <<pp>>[1] = pp
  OBVIOUS
<1>2. /\ new \in Seq(Node) /\ Len(new) = Len(list) + 1
      /\ \A i \in 1..(Len(list) + 1) : new[i] = IF i = 1 THEN pp ELSE list[i - 1]
  BY <1>1, ConcatProperties, SMT
<1>3. DOMAIN new = 1..(Len(list) + 1) /\ DOMAIN list = 1..Len(list) /\ Len(list) \in Nat
  BY <1>2
<1> HIDE DEF new
<1>4. Once(new)
  <2> SUFFICES ASSUME NEW i \in DOMAIN new, NEW j \in DOMAIN new, new[i].va = new[j].va
               PROVE  i = j
    BY DEF Once
  <2>1. i # 1 => i - 1 \in DOMAIN list /\ new[i] = list[i - 1]
    BY <1>2, <1>3
  <2>2. j # 1 => j - 1 \in DOMAIN list /\ new[j] = list[j - 1]
    BY <1>2, <1>3
  <2>3. (i = 1 => new[i] = pp) /\ (j = 1 => new[j] = pp)
    BY <1>2, <1>3
  <2>4. i # 1 /\ j # 1 => i - 1 = j - 1
    BY <2>1, <2>2 DEF Once
  <2> QED
    BY <1>3, <2>1, <2>2, <2>3, <2>4
<1>5. Shown(list, pp.va) = {}
  BY DEF Shown
<1>6. Shown(new, pp.va) = entry(pp)
  <2>1. {j \in DOMAIN new : new[j].va = pp.va} = {1} /\ new[1] = pp
    <3>1. 1 \in DOMAIN new /\ new[1] = pp
      BY <1>2, <1>3
    <3>2. ASSUME NEW j \in DOMAIN new, j # 1 PROVE new[j].va # pp.va
      <4>1. j - 1 \in DOMAIN list /\ new[j] = list[j - 1]
        BY <1>2, <1>3, <3>2
      <4> QED
        BY <4>1
    <3> QED
      BY <3>1, <3>2
  <2> QED
    BY <2>1 DEF Shown, entry
<1>7. ASSUME NEW v, v # pp.va PROVE Shown(new, v) = Shown(list, v)
  <2>1. {j \in DOMAIN new : new[j].va = v} = {j + 1 : j \in {k \in DOMAIN list : list[k].va = v}}
    BY <1>2, <1>3, <1>7
  <2>2. \A j \in DOMAIN list : new[j + 1] = list[j]
    BY <1>2, <1>3
  <2> QED
    BY <2>1, <2>2 DEF Shown
<1> QED
  BY <1>2, <1>4, <1>5, <1>6, <1>7 DEF new

\* What __am_switch installs is what the list shows.
LEMMA RemappedShows ==
  ASSUME NEW list \in Seq(Node), Once(list), NEW v \in UserPage
  PROVE  remapped([x \in UserPage |-> {}], list)[v] = Shown(list, v)
<1>1. CASE \E i \in DOMAIN list : list[i].va = v
  <2>1. PICK k \in DOMAIN list : list[k].va = v
    BY <1>1
  <2>2. \A i \in DOMAIN list : list[i].va = v <=> i = k
    BY <2>1 DEF Once
  <2>3. (CHOOSE i \in DOMAIN list : list[i].va = v) = k
    BY <2>2
  <2>4. remapped([x \in UserPage |-> {}], list)[v] = entry(list[k])
    BY <1>1, <2>3 DEF remapped
  <2>5. {j \in DOMAIN list : list[j].va = v} = {k}
    BY <2>2
  <2>6. Shown(list, v) = entry(list[k])
    BY <2>5, Zenon DEF Shown, entry
  <2> QED
    BY <2>4, <2>6
<1>2. CASE ~ \E i \in DOMAIN list : list[i].va = v
  BY <1>2 DEF remapped, Shown
<1> QED
  BY <1>1, <1>2

\* The user's view does not depend on which space is current.
LEMMA ViewShown ==
  ASSUME SpaceInv, NEW s \in Space, NEW v \in UserPage
  PROVE  userView(s, v) = Shown(pages[s], v)
<1>1. CASE s = thiscpu.vm_head
  BY <1>1 DEF SpaceInv, userView, listOf
<1>2. CASE s # thiscpu.vm_head
  BY <1>2, RemappedShows DEF SpaceInv, userView
<1> QED
  BY <1>1, <1>2

\* What the lists of the spaces show, the abstract state of the address spaces.
Views == [s \in Space |-> [v \in UserPage |-> Shown(pages[s], v)]]

Seen == [s \in Space |-> [v \in UserPage |-> userView(s, v)]]

\* In every space the lists show what user code of that space sees.
LEMMA ViewsAre == SpaceInv => Seen = Views
BY ViewShown DEF Views, Seen

\* The space invariant holds when the machine starts.
LEMMA InitSpace == Init => SpaceInv
BY DEF Init, SpaceInv, Once, Shown, listOf

\* map adds one page to one space, in its list and, if current, in the process.
LEMMA MapSpace ==
  ASSUME SpaceInv, NEW s \in Space, NEW v \in UserPage, NEW f \in Frame, NEW w \in Write,
         map(s, v, f, w)
  PROVE  /\ SpaceInv'
         /\ s \in active /\ active' = active /\ Views[s][v] = {}
         /\ Views' = [Views EXCEPT ![s][v] = {[frame |-> f, write |-> w]}]
<1> DEFINE now == s = thiscpu.vm_head
           pp  == [va |-> v, frame |-> f, write |-> w, is_mapped |-> now]
<1>1. pp \in Node /\ pp.va = v /\ pp.is_mapped = now /\ entry(pp) = {[frame |-> f, write |-> w]}
  BY DEF Node, entry
<1>2. /\ s \in active /\ active' = active /\ thiscpu' = thiscpu /\ ctx' = ctx
      /\ \A i \in DOMAIN pages[s] : pages[s][i].va # v
      /\ pages' = [pages EXCEPT ![s] = <<pp>> \o @]
      /\ host' = IF now THEN [host EXCEPT ![v] = entry(pp)] ELSE host
  BY DEF map
<1> HIDE DEF pp
<1>3. pages[s] \in Seq(Node) /\ Once(pages[s])
  BY DEF SpaceInv
<1>4. /\ <<pp>> \o pages[s] \in Seq(Node)
      /\ Once(<<pp>> \o pages[s])
      /\ Shown(pages[s], v) = {}
      /\ Shown(<<pp>> \o pages[s], v) = entry(pp)
      /\ \A x : x # v => Shown(<<pp>> \o pages[s], x) = Shown(pages[s], x)
  <2>1. \A i \in DOMAIN pages[s] : pages[s][i].va # pp.va
    BY <1>1, <1>2
  <2>2. /\ <<pp>> \o pages[s] \in Seq(Node)
        /\ Once(<<pp>> \o pages[s])
        /\ Shown(pages[s], pp.va) = {}
        /\ Shown(<<pp>> \o pages[s], pp.va) = entry(pp)
        /\ \A x : x # pp.va => Shown(<<pp>> \o pages[s], x) = Shown(pages[s], x)
    BY <1>1, <1>3, <2>1, PushedShows
  <2> QED
    BY <1>1, <2>2
<1>5. /\ pages' \in [Space -> Seq(Node)]
      /\ pages'[s] = <<pp>> \o pages[s]
      /\ \A r \in Space \ {s} : pages'[r] = pages[r]
  BY <1>2, <1>4 DEF SpaceInv
<1>6. \A x \in UserPage : Shown(pages'[s], x) = IF x = v THEN entry(pp) ELSE Shown(pages[s], x)
  BY <1>4, <1>5
<1>7. SpaceInv'
  <2>1. \A r \in Space : Once(pages'[r])
    BY <1>4, <1>5 DEF SpaceInv
  <2>2. CASE now
    <3>1. listOf(thiscpu.vm_head) = pages[s] /\ listOf(thiscpu.vm_head)' = pages'[s]
      BY <1>2, <2>2 DEF listOf
    <3>2. host' = [x \in UserPage |-> Shown(pages'[s], x)]
      <4>1. host = [x \in UserPage |-> Shown(pages[s], x)]
        BY <3>1 DEF SpaceInv
      <4>2. host' = [host EXCEPT ![v] = entry(pp)]
        BY <1>2, <2>2
      <4> QED
        BY <1>6, <4>1, <4>2
    <3>3. \A i \in DOMAIN pages'[s] : pages'[s][i].is_mapped = TRUE
      <4>1. Len(<<pp>> \o pages[s]) = Len(pages[s]) + 1 /\ Len(pages[s]) \in Nat
        BY <1>1, <1>3
      <4>2. (<<pp>> \o pages[s])[1] = pp
        BY <1>1, <1>3
      <4>3. \A i \in 2..(Len(pages[s]) + 1) : (<<pp>> \o pages[s])[i] = pages[s][i - 1]
        BY <1>1, <1>3
      <4>4. \A i \in DOMAIN pages[s] : pages[s][i].is_mapped = TRUE
        BY <3>1 DEF SpaceInv
      <4>5. pp.is_mapped = TRUE
        BY <1>1, <2>2
      <4> QED
        BY <1>3, <1>4, <1>5, <4>1, <4>2, <4>3, <4>4, <4>5
    <3>4. \A r \in Space \ active' : pages'[r] = <<>>
      BY <1>2, <1>5 DEF SpaceInv
    <3>5. /\ active' \subseteq Space /\ DOMAIN thiscpu' = {"vm_head", "ksp", "ev"}
          /\ thiscpu'.vm_head \in active' \cup {NULL} /\ DOMAIN ctx' = Thread
          /\ \A t \in Thread : \A c \in ctx'[t] : c.vm_head \in active' \cup {NULL}
      BY <1>2 DEF SpaceInv
    <3> QED
      BY <1>5, <2>1, <3>1, <3>2, <3>3, <3>4, <3>5 DEF SpaceInv
  <2>3. CASE ~now
    <3>1. listOf(thiscpu.vm_head)' = listOf(thiscpu.vm_head)
      BY <1>2, <1>5, <2>3 DEF SpaceInv, listOf
    <3> QED
      BY <1>2, <1>5, <2>1, <2>3, <3>1 DEF SpaceInv
  <2> QED
    BY <2>2, <2>3
<1>8. Views' = [Views EXCEPT ![s][v] = {[frame |-> f, write |-> w]}]
  <2> DEFINE e == {[frame |-> f, write |-> w]}
  <2>1. e = entry(pp)
    BY <1>1
  <2> HIDE DEF e
  <2>2. \A r \in Space : Views'[r] = IF r = s THEN [Views[s] EXCEPT ![v] = e] ELSE Views[r]
    <3> SUFFICES ASSUME NEW r \in Space
                 PROVE  Views'[r] = IF r = s THEN [Views[s] EXCEPT ![v] = e] ELSE Views[r]
      OBVIOUS
    <3>1. Views'[r] = [x \in UserPage |-> Shown(pages'[r], x)]
      BY DEF Views
    <3>2. Views[r] = [x \in UserPage |-> Shown(pages[r], x)]
      BY DEF Views
    <3>3. CASE r = s
      <4>1. Views'[r] = [x \in UserPage |-> IF x = v THEN e ELSE Shown(pages[s], x)]
        BY <1>6, <2>1, <3>1, <3>3
      <4>2. [Views[s] EXCEPT ![v] = e] = [x \in UserPage |-> IF x = v THEN e ELSE Shown(pages[s], x)]
        BY <3>2, <3>3
      <4> QED
        BY <3>3, <4>1, <4>2
    <3>4. CASE r # s
      BY <1>5, <3>1, <3>2, <3>4
    <3> QED
      BY <3>3, <3>4
  <2>3. Views' = [Views EXCEPT ![s][v] = e]
    BY <2>2 DEF Views
  <2> QED
    BY <2>3 DEF e
<1> QED
  BY <1>2, <1>4, <1>7, <1>8 DEF Views

\* __am_switch, with the assignment that follows it, installs the new space
\* whole, leaves nothing of the old one and changes what no space shows.
LEMMA SwitchSpace ==
  ASSUME SpaceInv, NEW u \in Thread \ {Boot}, irq_handle(u)
  PROVE  SpaceInv' /\ active' = active /\ Views' = Views
<1>1. PICK c \in ctx[u] : /\ __am_switch(c.vm_head)
                         /\ thiscpu' = [thiscpu EXCEPT !.vm_head = c.vm_head]
  BY DEF irq_handle
<1> DEFINE now  == thiscpu.vm_head
           head == c.vm_head
<1>2. /\ head \in active \cup {NULL} /\ now \in active \cup {NULL}
      /\ now \in Space \cup {NULL} /\ head \in Space \cup {NULL}
  BY DEF SpaceInv
<1>3. thiscpu'.vm_head = head /\ DOMAIN thiscpu' = {"vm_head", "ksp", "ev"}
  BY <1>1 DEF SpaceInv
<1>4. DOMAIN ctx' = Thread /\ \A t \in Thread : ctx'[t] \subseteq ctx[t]
  BY DEF irq_handle, SpaceInv
<1>5. CASE head = now
  <2>1. UNCHANGED <<active, pages, host>>
    BY <1>1, <1>5 DEF __am_switch
  <2> QED
    BY <1>3, <1>4, <1>5, <2>1 DEF SpaceInv, Views, listOf
<1>6. CASE head # now
  <2> HIDE DEF now, head
  <2>1. /\ active' = active
        /\ host' = remapped(unmapped(host, listOf(now)), listOf(head))
        /\ pages' = [s \in Space |-> CASE s = now -> flagged(pages[s], FALSE)
                                        [] s = head -> flagged(pages[s], TRUE)
                                        [] OTHER -> pages[s]]
    BY <1>1, <1>6 DEF __am_switch, now, head
  <2>2. listOf(now) \in Seq(Node) /\ listOf(head) \in Seq(Node) /\ Once(listOf(head))
    BY <1>2 DEF SpaceInv, listOf, Once
  <2>3. unmapped(host, listOf(now)) = [v \in UserPage |-> {}]
    <3> SUFFICES ASSUME NEW v \in UserPage PROVE unmapped(host, listOf(now))[v] = {}
      BY DEF unmapped
    <3>1. CASE \E i \in DOMAIN listOf(now) : listOf(now)[i].va = v
      BY <3>1 DEF SpaceInv, unmapped, now
    <3>2. CASE ~ \E i \in DOMAIN listOf(now) : listOf(now)[i].va = v
      <4>1. host[v] = Shown(listOf(now), v)
        BY DEF SpaceInv, now
      <4>2. Shown(listOf(now), v) = {}
        BY <3>2 DEF Shown
      <4> QED
        BY <3>2, <4>1, <4>2 DEF unmapped
    <3> QED
      BY <3>1, <3>2
  <2>4. host' = [v \in UserPage |-> Shown(listOf(head), v)]
    <3>1. \A v \in UserPage : host'[v] = Shown(listOf(head), v)
      BY <2>1, <2>2, <2>3, RemappedShows
    <3> QED
      BY <2>1, <3>1 DEF remapped
  <2>5. ASSUME NEW s \in Space
        PROVE  /\ pages'[s] \in Seq(Node) /\ Once(pages'[s])
               /\ \A v : Shown(pages'[s], v) = Shown(pages[s], v)
               /\ s \notin active => pages'[s] = <<>>
               /\ s = head => \A i \in DOMAIN pages'[s] : pages'[s][i].is_mapped = TRUE
    <3>1. pages[s] \in Seq(Node) /\ Once(pages[s]) /\ (s \notin active => pages[s] = <<>>)
      BY DEF SpaceInv
    <3>2. CASE s = now
      <4>1. pages'[s] = flagged(pages[s], FALSE)
        BY <1>6, <2>1, <3>2
      <4>2. s \in active
        BY <1>2, <3>2
      <4>3. /\ flagged(pages[s], FALSE) \in Seq(Node)
            /\ \A i \in DOMAIN flagged(pages[s], FALSE) : flagged(pages[s], FALSE)[i].is_mapped = FALSE
        BY <3>1, FlaggedList
      <4>4. /\ Once(flagged(pages[s], FALSE))
            /\ \A v : Shown(flagged(pages[s], FALSE), v) = Shown(pages[s], v)
        BY <3>1, FlaggedShows
      <4> QED
        BY <1>6, <3>1, <3>2, <4>1, <4>2, <4>3, <4>4
    <3>3. CASE s = head
      <4>1. pages'[s] = flagged(pages[s], TRUE)
        BY <1>6, <2>1, <3>3
      <4>2. s \in active
        BY <1>2, <3>3
      <4>3. /\ flagged(pages[s], TRUE) \in Seq(Node)
            /\ \A i \in DOMAIN flagged(pages[s], TRUE) : flagged(pages[s], TRUE)[i].is_mapped = TRUE
        BY <3>1, FlaggedList
      <4>4. /\ Once(flagged(pages[s], TRUE))
            /\ \A v : Shown(flagged(pages[s], TRUE), v) = Shown(pages[s], v)
        BY <3>1, FlaggedShows
      <4> QED
        BY <3>1, <4>1, <4>2, <4>3, <4>4
    <3>4. CASE s # now /\ s # head
      <4>1. pages'[s] = pages[s]
        BY <2>1, <3>4
      <4> QED
        BY <3>1, <3>4, <4>1
    <3> QED
      BY <3>2, <3>3, <3>4
  <2>6. pages' \in [Space -> Seq(Node)]
    BY <2>1, <2>5
  <2>7. listOf(thiscpu.vm_head)' = IF head = NULL THEN <<>> ELSE pages'[head]
    BY <1>3 DEF listOf, head
  <2>8. \A v : Shown(listOf(thiscpu.vm_head)', v) = Shown(listOf(head), v)
    BY <1>2, <2>5, <2>7 DEF listOf
  <2>9. \A i \in DOMAIN listOf(thiscpu.vm_head)' : listOf(thiscpu.vm_head)'[i].is_mapped = TRUE
    <3>1. CASE head = NULL
      BY <2>7, <3>1
    <3>2. CASE head # NULL
      <4>1. head \in Space /\ listOf(thiscpu.vm_head)' = pages'[head]
        BY <1>2, <2>7, <3>2
      <4> QED
        BY <2>5, <4>1
    <3> QED
      BY <3>1, <3>2
  <2>10. host' = [v \in UserPage |-> Shown(listOf(thiscpu.vm_head)', v)]
    BY <2>4, <2>8
  <2>11. thiscpu'.vm_head \in active' \cup {NULL}
    BY <1>2, <1>3, <2>1 DEF head
  <2>12. \A t \in Thread : \A d \in ctx'[t] : d.vm_head \in active' \cup {NULL}
    BY <1>4, <2>1 DEF SpaceInv
  <2>13. active' \subseteq Space
    BY <2>1 DEF SpaceInv
  <2>14. Views' = Views
    BY <2>5 DEF Views
  <2> QED
    BY <1>3, <1>4, <2>1, <2>5, <2>6, <2>9, <2>10, <2>11, <2>12, <2>13, <2>14 DEF SpaceInv
<1> QED
  BY <1>5, <1>6

\* A step that leaves the spaces alone and adds at most contexts of known spaces.
LEMMA QuietSpace ==
  ASSUME SpaceInv, UNCHANGED vmvars, DOMAIN thiscpu' = DOMAIN thiscpu,
         thiscpu'.vm_head = thiscpu.vm_head, DOMAIN ctx' = Thread,
         \A t \in Thread : \A c \in ctx'[t] : c.vm_head \in active \cup {NULL}
  PROVE  SpaceInv' /\ UNCHANGED <<active, Views>>
BY DEF SpaceInv, Views, listOf

\* A trap saves the current space with the context.
LEMMA SetupSpace ==
  ASSUME SpaceInv, TrapInv, NEW event, NEW rip, setup_stack(event, rip)
  PROVE  SpaceInv' /\ UNCHANGED <<active, Views>>
<1> DEFINE new == [at |-> rip, mask |-> mask, vm_head |-> thiscpu.vm_head, ksp |-> thiscpu.ksp]
<1>1. new.vm_head \in active \cup {NULL}
  BY DEF SpaceInv
<1>2. /\ UNCHANGED vmvars /\ ctx' = [ctx EXCEPT ![cur] = {new}]
      /\ thiscpu' = [thiscpu EXCEPT !.ev = event]
  BY DEF setup_stack
<1> HIDE DEF new
<1>3. DOMAIN ctx' = Thread /\ \A t \in Thread : ctx'[t] \subseteq ctx[t] \cup {new}
  BY <1>2 DEF SpaceInv
<1>4. \A t \in Thread : \A c \in ctx'[t] : c.vm_head \in active \cup {NULL}
  BY <1>1, <1>3 DEF SpaceInv
<1>5. DOMAIN thiscpu' = DOMAIN thiscpu /\ thiscpu'.vm_head = thiscpu.vm_head
  BY <1>2 DEF SpaceInv
<1> QED
  BY <1>2, <1>3, <1>4, <1>5, QuietSpace

\* What a step of the machine does to the spaces, as seen by user programs.
SpaceStep ==
  \/ UNCHANGED <<active, Views>>
  \/ \E s \in Space : s \notin active /\ active' = active \cup {s} /\ Views' = Views
  \/ \E s \in Space, v \in UserPage, f \in Frame, w \in Write :
       /\ s \in active /\ active' = active /\ Views[s][v] = {}
       /\ Views' = [Views EXCEPT ![s][v] = {[frame |-> f, write |-> w]}]

\* Every step preserves the space invariant and does to the views what the
\* abstract specification allows.
LEMMA NextSpace == TrapInv /\ SpaceInv /\ [Next]_vars => SpaceInv' /\ SpaceStep
<1> SUFFICES ASSUME TrapInv, SpaceInv, [Next]_vars PROVE SpaceInv' /\ SpaceStep
  OBVIOUS
<1>0. ASSUME SpaceInv' /\ UNCHANGED <<active, Views>> PROVE SpaceInv' /\ SpaceStep
  BY <1>0 DEF SpaceStep
<1>1. ASSUME NEW s \in Space, protect(s) PROVE SpaceInv' /\ SpaceStep
  <2>1. /\ s \notin active /\ active' = active \cup {s} /\ host' = host
        /\ thiscpu' = thiscpu /\ ctx' = ctx /\ pages' = [pages EXCEPT ![s] = <<>>]
    BY <1>1 DEF protect
  <2>2. pages' = pages
    BY <2>1 DEF SpaceInv
  <2>3. SpaceInv'
    BY <2>1, <2>2 DEF SpaceInv, listOf
  <2>4. Views' = Views
    BY <2>2 DEF Views
  <2> QED
    BY <2>1, <2>3, <2>4 DEF SpaceStep
<1>2. ASSUME NEW s \in Space, NEW v \in UserPage, NEW f \in Frame, NEW w \in Write,
             map(s, v, f, w)
      PROVE  SpaceInv' /\ SpaceStep
  BY <1>2, MapSpace DEF SpaceStep
<1>3. ASSUME NEW t \in Thread, NEW c, newContext(t, c), c.vm_head \in active \cup {NULL}
      PROVE  SpaceInv' /\ UNCHANGED <<active, Views>>
  <2>1. UNCHANGED vmvars /\ thiscpu' = thiscpu /\ ctx' = [ctx EXCEPT ![t] = {c}]
    BY <1>3 DEF newContext
  <2>2. DOMAIN ctx' = Thread /\ \A r \in Thread : ctx'[r] \subseteq ctx[r] \cup {c}
    BY <2>1 DEF SpaceInv
  <2>3. \A r \in Thread : \A d \in ctx'[r] : d.vm_head \in active \cup {NULL}
    BY <1>3, <2>2 DEF SpaceInv
  <2> QED
    BY <2>1, <2>2, <2>3, QuietSpace
<1>4. ASSUME NEW t \in KThread, kcontext(t) PROVE SpaceInv' /\ SpaceStep
  <2>1. PICK junk \in Junk :
          newContext(t, [at |-> "code", mask |-> FALSE, vm_head |-> NULL, ksp |-> junk])
    BY <1>4 DEF kcontext
  <2> DEFINE new == [at |-> "code", mask |-> FALSE, vm_head |-> NULL, ksp |-> junk]
  <2>2. new.vm_head = NULL
    OBVIOUS
  <2>3. newContext(t, new)
    BY <2>1
  <2> HIDE DEF new
  <2> QED
    BY <1>0, <1>3, <2>2, <2>3
<1>5. ASSUME NEW t \in UThread, NEW s \in Space, ucontext(t, s) PROVE SpaceInv' /\ SpaceStep
  <2> DEFINE new == [at |-> "user", mask |-> FALSE, vm_head |-> s, ksp |-> t]
  <2>1. new.vm_head = s
    OBVIOUS
  <2>2. newContext(t, new) /\ s \in active
    BY <1>5 DEF ucontext
  <2> HIDE DEF new
  <2> QED
    BY <1>0, <1>3, <2>1, <2>2
<1>6. CASE yield \/ syscall \/ (\E v \in UserPage : pagefault(v))
  BY <1>0, <1>6, SetupSpace DEF yield, syscall, pagefault
<1>7. ASSUME NEW sig \in Irq, sig_handler(sig) PROVE SpaceInv' /\ SpaceStep
  <2>1. \/ \E event : setup_stack(event, at)
        \/ \E event : /\ thiscpu' = [thiscpu EXCEPT !.ev = event]
                      /\ UNCHANGED <<vmvars, ctx>>
    BY <1>7 DEF sig_handler
  <2>2. CASE \E event : setup_stack(event, at)
    BY <1>0, <2>2, SetupSpace
  <2>3. CASE UNCHANGED <<vmvars, ctx>> /\ \E event : thiscpu' = [thiscpu EXCEPT !.ev = event]
    BY <1>0, <2>3, QuietSpace DEF SpaceInv
  <2> QED
    BY <2>1, <2>2, <2>3
<1>8. CASE iret
  <2>1. UNCHANGED vmvars /\ ctx' = [ctx EXCEPT ![cur] = {}]
    BY <1>8 DEF iret
  <2>2. thiscpu'.vm_head = thiscpu.vm_head /\ DOMAIN thiscpu' = DOMAIN thiscpu
    BY <1>8 DEF iret, SpaceInv
  <2>3. DOMAIN ctx' = Thread /\ \A t \in Thread : ctx'[t] \subseteq ctx[t]
    BY <2>1 DEF SpaceInv
  <2>4. \A t \in Thread : \A c \in ctx'[t] : c.vm_head \in active \cup {NULL}
    BY <2>3 DEF SpaceInv
  <2> QED
    BY <1>0, <2>1, <2>2, <2>3, <2>4, QuietSpace
<1>9. ASSUME NEW u \in Thread \ {Boot}, irq_handle(u) PROVE SpaceInv' /\ SpaceStep
  BY <1>0, <1>9, SwitchSpace
<1>10. CASE UNCHANGED <<vmvars, thiscpu, ctx>>
  BY <1>0, <1>10, QuietSpace DEF SpaceInv
<1>11. ASSUME Library \/ Timer \/ Press \/ __am_send_kbd_intr \/ __am_input_keybrd
       PROVE  UNCHANGED <<vmvars, thiscpu, ctx>>
  BY <1>11 DEF Library, Timer, Press, __am_send_kbd_intr, __am_input_keybrd
<1>12. ASSUME NEW enable \in BOOLEAN, iset(enable) PROVE UNCHANGED <<vmvars, thiscpu, ctx>>
  BY <1>12 DEF iset
<1>13. UNCHANGED vars => UNCHANGED <<vmvars, thiscpu, ctx>>
  BY DEF vars
<1> QED
  BY <1>1, <1>2, <1>4, <1>5, <1>6, <1>7, <1>8, <1>9, <1>10, <1>11, <1>12, <1>13 DEF Next

(* Every reachable state satisfies the space invariant. *)
THEOREM SpaceInvariance == Spec => []SpaceInv
<1>1. TrapInv /\ SpaceInv /\ [Next]_vars => SpaceInv'
  BY NextSpace
<1> QED
  BY <1>1, InitSpace, TrapInvariance, PTL DEF Spec

(* The native machine implements the address spaces of VmeSpec, for every set of
   spaces and pages: made of mmap and munmap over the one address space of the
   process, a space shows exactly the pages map was called for, in whatever order
   __am_switch made the spaces current. *)
THEOREM NativeSpaces == Spec => ImplementsView
<1>1. Init => View!Init
  <2> SUFFICES ASSUME Init PROVE View!Init
    OBVIOUS
  <2>1. ASSUME NEW s \in Space, NEW v \in UserPage PROVE userView(s, v) = {}
    BY DEF Init, userView, remapped
  <2> QED
    BY <2>1 DEF Init, View!Init, View!Nothing
<1>2. (SpaceInv => Seen = Views)'
  BY ViewsAre, PTL
<1>3. TrapInv /\ SpaceInv /\ SpaceInv' /\ [Next]_vars => [View!Next]_View!vars
  <2> SUFFICES ASSUME TrapInv, SpaceInv, SpaceInv', [Next]_vars PROVE [View!Next]_View!vars
    OBVIOUS
  <2>1. Seen = Views
    BY ViewsAre
  <2>2. Seen' = Views'
    BY <1>2
  <2>3. CASE UNCHANGED <<active, Views>>
    BY <2>1, <2>2, <2>3 DEF View!vars, Seen
  <2>4. ASSUME NEW s \in Space, s \notin active, active' = active \cup {s}, Views' = Views
        PROVE  View!Next
    BY <2>1, <2>2, <2>4 DEF View!Next, View!Protect, Seen
  <2>5. ASSUME NEW s \in Space, NEW v \in UserPage, NEW f \in Frame, NEW w \in Write,
               s \in active, active' = active, Views[s][v] = {},
               Views' = [Views EXCEPT ![s][v] = {[frame |-> f, write |-> w]}]
        PROVE  View!Next
    <3>1. Seen'[s][v] = {[frame |-> f, write |-> w]}
      BY <2>2, <2>5 DEF Views
    <3>2. w \in BOOLEAN
      OBVIOUS
    <3>3. View!Becomes(s, v, {[frame |-> f, write |-> w]})
      BY <2>1, <2>2, <2>5, <3>1 DEF View!Becomes, Seen
    <3>4. Seen[s][v] = {}
      BY <2>1, <2>5
    <3>5. View!Map(s)
      BY <2>5, <3>2, <3>3, <3>4 DEF View!Map, Seen
    <3> QED
      BY <3>5 DEF View!Next
  <2> QED
    BY <2>3, <2>4, <2>5, NextSpace DEF SpaceStep
<1> QED
  BY <1>1, <1>3, SpaceInvariance, TrapInvariance, PTL DEF Spec, ImplementsView, View!Spec
=============================================================================
