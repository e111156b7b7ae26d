----------------------------- MODULE CteProofs -----------------------------
(***************************************************************************)
(* Proofs about Cte for any threads, any size of the stacks that holds two *)
(* nested traps above the words a thread keeps, and any vectors: what a    *)
(* thread finds when it goes on is what it left (ResumesExactly), a user   *)
(* thread runs in its own space and traps onto its own stack               *)
(* (UserOnOwnStack), an entry is called properly (EntryCalled) and no      *)
(* interrupt stays in service (IrqAcknowledged).                           *)
(*                                                                         *)
(* The inductive invariant follows a thread from its code (Plain) into a   *)
(* stub (Trapped), where the words the processor pushed describe the code  *)
(* it came from, and into the pool (Saved), where a context does.          *)
(***************************************************************************)
EXTENDS Cte, SequenceTheorems, TLAPS

Reg    == DOMAIN blank
Kept   == Reg \ {"eip", "cs", "eflags", "esp"}
Stacks == UNION {Stack(t) : t \in Thread}
CodeAt == {Code(v) : v \in 0..9}

\* What thread c, running, would have to find again.
Seen(c) == [r |-> cpu, words |-> live(mem, c, cpu)]

\* x is thread t in its own code.
Plain(t, x) ==
  /\ x.r = [f \in Reg |-> x.r[f]]
  /\ t \in UThread => /\ x.r.cs = UCODE /\ x.words = <<>>
                      /\ x.r.eip \in CodeAt \cup {Entry(t)}
  /\ t \in KThread =>
       /\ x.r.cs = KCODE
       /\ x.r.esp \in (Kend(t) - (MaxWords + 2))..Kend(t)
       /\ x.r.eip \in CodeAt \cup {KStart, Entry(t)}
       /\ x.r.eip = KStart => /\ x.r.esp = Kend(t)
                              /\ x.r.eax = Arg(t) /\ x.r.ebx = Entry(t)
       /\ x.r.eip = Entry(t) => /\ x.r.esp <= Kend(t) - 2
                                /\ x.words[Kend(t) - 2] = PanicRet
                                /\ x.words[Kend(t) - 1] = Arg(t)

\* Where the words that every trap pushes start, in the stub of v.
Pushed(v, sp) == sp + (IF HasError(v) THEN 1 ELSE 0)

\* x is thread t in the stub of v, entered where t was e.
Trapped(t, v, e, x) ==
  LET hw == Pushed(v, x.r.esp)
  IN  /\ x.r = [f \in Reg |-> x.r[f]]
      /\ x.r.eip = Stub(v) /\ x.r.cs = KCODE
      /\ x.r.esp \in (Kend(t) - (MaxWords + 9))..(Kend(t) - 3)
      /\ \A f \in Kept : x.r[f] = e.r[f]
      /\ x.words[hw] = e.r.eip /\ x.words[hw + 1] = e.r.cs
      /\ x.words[hw + 2] = e.r.eflags
      /\ e.r.cs = UCODE => hw + 5 = Kend(t) /\ x.words[hw + 3] = e.r.esp
      /\ e.r.cs # UCODE => /\ ~HasError(v) /\ e.r.esp = hw + 3
                           /\ e.words = [a \in (hw + 3)..(Kend(t) - 1) |-> x.words[a]]

\* The context at ctx in memory m is that of thread t where it was e.
Saved(t, m, ctx, e) ==
  /\ ctx \in (Kend(t) - S)..(Kend(t) - ContextWords)
  /\ \A f \in Reg : m[ctx + off[f]] = e.r[f]
  /\ e.r.cs # UCODE => /\ e.r.esp \in (ctx + ContextWords)..Kend(t)
                       /\ e.words = [a \in e.r.esp..(Kend(t) - 1) |-> m[a]]
  /\ t \in UThread => m[ctx + off["cr3"]] = Space(t) /\ m[ctx + off["esp0"]] = Kend(t)

\* What thread t must find again: nothing, the code it trapped from, or that
\* and the stub of a software trap it was interrupted in.
History(t, h) ==
  \/ h = <<>>
  \/ h = <<h[1]>> /\ Plain(t, h[1])
  \/ /\ h = <<h[1], h[2]>> /\ Plain(t, h[1])
     /\ h[2].r.esp >= Kend(t) - (MaxWords + 6)
     /\ \E v \in Soft : Trapped(t, v, h[1], h[2])

\* The running thread is in its code, or in a stub entered from the last of
\* its history; only an interrupt enters a stub from a stub.
Running ==
  \/ expect[current] = <<>> /\ Plain(current, Seen(current))
  \/ /\ expect[current] # <<>>
     /\ \E v \in Soft \cup Line :
          /\ Trapped(current, v, Last(expect[current]), Seen(current))
          /\ v \in Line => isr = v
          /\ Len(expect[current]) = 2 => v \in Line
          /\ Len(expect[current]) = 1 => cpu.esp >= Kend(current) - (MaxWords + 6)

Waiting(t) ==
  IF pool[t] = NoCtx THEN expect[t] = <<>>
  ELSE expect[t] # <<>> /\ Saved(t, mem, pool[t], Last(expect[t]))

\* The shape of the state, and the registers a user thread runs with.
Shape ==
  /\ DOMAIN mem = Stacks
  /\ current \in Thread
  /\ pool = [t \in Thread |-> pool[t]] /\ expect = [t \in Thread |-> expect[t]]
  /\ pool[current] = NoCtx /\ pool[Boot] = NoCtx
  /\ isr \in Line \cup {0}
  /\ current \in UThread => cr3 = Space(current) /\ esp0 = Kend(current)

IInv ==
  /\ Shape
  /\ \A t \in Thread : History(t, expect[t])
  /\ Running
  /\ \A t \in Thread \ {current} : Waiting(t)
  /\ IrqAcknowledged
-----------------------------------------------------------------------------
(***************************************************************************)
(* Short sequences.                                                        *)
(***************************************************************************)
\* Sequences of length one or two are equal when their elements are.
LEMMA EqualOne ==
  ASSUME NEW T, NEW s \in Seq(T), NEW z \in Seq(T),
         Len(s) = 1, Len(z) = 1, s[1] = z[1]
  PROVE  s = z
<1>1. \A i \in 1..1 : s[i] = z[i]
  OBVIOUS
<1> QED
  BY <1>1, SeqEqual

\* Likewise of length two.
LEMMA EqualTwo ==
  ASSUME NEW T, NEW s \in Seq(T), NEW z \in Seq(T),
         Len(s) = 2, Len(z) = 2, s[1] = z[1], s[2] = z[2]
  PROVE  s = z
<1>1. \A i \in 1..2 : s[i] = z[i]
  OBVIOUS
<1> QED
  BY <1>1, SeqEqual

\* The history of a thread after a trap, and after it goes on.
LEMMA AppendNone ==
  ASSUME NEW p PROVE Append(<<>>, p) = <<p>>
<1>1. <<>> \in Seq({p}) /\ <<p>> \in Seq({p})
  OBVIOUS
<1> QED
  BY <1>1

\* A trap inside a trap is recorded behind the first.
LEMMA AppendOne ==
  ASSUME NEW p, NEW q PROVE Append(<<p>>, q) = <<p, q>>
<1>1. /\ <<p>> \in Seq({p, q}) /\ <<p, q>> \in Seq({p, q})
      /\ Append(<<p>>, q) \in Seq({p, q})
  OBVIOUS
<1>2. Len(Append(<<p>>, q)) = 2 /\ Append(<<p>>, q)[1] = p /\ Append(<<p>>, q)[2] = q
  OBVIOUS
<1>3. Len(<<p, q>>) = 2 /\ <<p, q>>[1] = p /\ <<p, q>>[2] = q
  OBVIOUS
<1> QED
  BY <1>1, <1>2, <1>3, EqualTwo

\* The parts of a history of one trap.
LEMMA One ==
  ASSUME NEW p
  PROVE  /\ Front(<<p>>) = <<>> /\ Last(<<p>>) = p /\ <<p>> # <<>> /\ Len(<<p>>) = 1
         /\ <<p>>[1] = p
BY DEF Front, Last

\* The parts of a history of two traps.
LEMMA Two ==
  ASSUME NEW p, NEW q
  PROVE  /\ Front(<<p, q>>) = <<p>> /\ Last(<<p, q>>) = q /\ <<p, q>> # <<>>
         /\ Len(<<p, q>>) = 2 /\ <<p, q>>[1] = p /\ <<p, q>>[2] = q
<1>1. Len(<<p, q>>) = 2 /\ <<p, q>> \in Seq({p, q}) /\ <<p>> \in Seq({p, q})
  OBVIOUS
<1>2. Front(<<p, q>>) = SubSeq(<<p, q>>, 1, 1)
  BY <1>1 DEF Front
<1>3. /\ SubSeq(<<p, q>>, 1, 1) \in Seq({p, q})
      /\ Len(SubSeq(<<p, q>>, 1, 1)) = 1 /\ SubSeq(<<p, q>>, 1, 1)[1] = p
  BY <1>1
<1>4. Len(<<p>>) = 1 /\ <<p>>[1] = p
  OBVIOUS
<1>5. SubSeq(<<p, q>>, 1, 1) = <<p>>
  BY <1>1, <1>3, <1>4, EqualOne
<1> QED
  BY <1>1, <1>2, <1>5 DEF Last
-----------------------------------------------------------------------------
(***************************************************************************)
(* The stacks.                                                             *)
(***************************************************************************)
LEMMA Numbers ==
  /\ S \in Nat /\ MaxWords \in Nat /\ S >= 28 + MaxWords
  /\ Boot \in Thread /\ Boot \notin UThread
  /\ \A t \in Thread : /\ t \in Nat /\ t > 0 /\ Kend(t) \in Int
                       /\ (t \in KThread) # (t \in UThread)
BY CteAssumption DEF Thread, Kend

\* The words of a stack.
LEMMA StackIn ==
  ASSUME NEW t \in Thread
  PROVE  /\ Stack(t) \subseteq Stacks
         /\ \A a : a \in Stack(t) <=> a \in Int /\ Kend(t) - S <= a /\ a < Kend(t)
BY Numbers DEF Stack, Stacks

\* No word belongs to two stacks.
LEMMA Apart ==
  ASSUME NEW t \in Thread, NEW u \in Thread, t # u
  PROVE  \A a \in Stack(t) : a \notin Stack(u)
<1>1. t \in Nat /\ u \in Nat /\ S \in Nat /\ t * S \in Int /\ u * S \in Int
  BY Numbers
<1>2. t < u => t * S <= u * S - S
  BY <1>1
<1>3. u < t => u * S <= t * S - S
  BY <1>1
<1> QED
  BY <1>1, <1>2, <1>3 DEF Stack, Kend

(***************************************************************************)
(* The operators on memory.                                                *)
(***************************************************************************)
LEMMA Overlay ==
  ASSUME NEW f, NEW m
  PROVE  /\ DOMAIN Over(f, m) = DOMAIN f \cup DOMAIN m
         /\ \A a \in DOMAIN f : Over(f, m)[a] = f[a]
         /\ \A a \in DOMAIN m \ DOMAIN f : Over(f, m)[a] = m[a]
BY DEF Over

\* No two fields of a context are in the same word.
LEMMA Offsets ==
  /\ DOMAIN off = {"cr3", "ds", "eax", "ebx", "ecx", "edx", "esp0", "esi", "edi", "ebp",
                   "eip", "cs", "eflags", "esp", "ss3"}
  /\ \A f \in DOMAIN off : off[f] \in 0..14
  /\ \A f, g \in DOMAIN off : off[f] = off[g] => f = g
<1>1. DOMAIN off = {"cr3", "ds", "eax", "ebx", "ecx", "edx", "esp0", "esi", "edi", "ebp",
                    "eip", "cs", "eflags", "esp", "ss3"}
  BY DEF off
<1>2. \A f \in DOMAIN off : off[f] \in 0..14
  BY DEF off
<1>3. \A f, g \in DOMAIN off : off[f] = off[g] => f = g
  BY DEF off
<1> QED
  BY <1>1, <1>2, <1>3

\* The registers of the model, and those no trap touches.
LEMMA Registers ==
  /\ Reg = {"ds", "eax", "ebx", "ecx", "edx", "esi", "edi", "ebp", "eip", "cs",
            "eflags", "esp"}
  /\ Reg \subseteq DOMAIN off
  /\ Kept = {"ds", "eax", "ebx", "ecx", "edx", "esi", "edi", "ebp"}
<1>1. Reg = {"ds", "eax", "ebx", "ecx", "edx", "esi", "edi", "ebp", "eip", "cs",
            "eflags", "esp"}
  BY DEF Reg, blank
<1> QED
  BY <1>1, Offsets DEF Kept

\* The fields written into a context, and nothing else, change.
LEMMA Store ==
  ASSUME NEW m, NEW ctx \in Int, NEW fields, DOMAIN fields \subseteq DOMAIN off,
         ctx..(ctx + 14) \subseteq DOMAIN m
  PROVE  /\ DOMAIN store(m, ctx, fields) = DOMAIN m
         /\ \A f \in DOMAIN fields : store(m, ctx, fields)[ctx + off[f]] = fields[f]
         /\ \A f \in DOMAIN off \ DOMAIN fields :
              store(m, ctx, fields)[ctx + off[f]] = m[ctx + off[f]]
         /\ \A a \in DOMAIN m \ ctx..(ctx + 14) : store(m, ctx, fields)[a] = m[a]
<1> DEFINE A == {ctx + off[f] : f \in DOMAIN fields}
           n == [a \in A |-> fields[CHOOSE f \in DOMAIN fields : a = ctx + off[f]]]
<1>1. ASSUME NEW f \in DOMAIN fields PROVE n[ctx + off[f]] = fields[f]
  <2>1. \A g \in DOMAIN fields : ctx + off[f] = ctx + off[g] => g = f
    BY Offsets
  <2>2. (CHOOSE g \in DOMAIN fields : ctx + off[f] = ctx + off[g]) = f
    BY <2>1
  <2> QED
    BY <2>2
<1>2. store(m, ctx, fields) = Over(n, m)
  BY DEF store
<1>3. DOMAIN n = A
  OBVIOUS
<1>4. \A f \in DOMAIN fields : ctx + off[f] \in A
  OBVIOUS
<1>5. \A a \in A : a \in DOMAIN m /\ a \in ctx..(ctx + 14)
  BY Offsets
<1>6. \A f \in DOMAIN off \ DOMAIN fields : ctx + off[f] \in DOMAIN m \ A
  BY Offsets
<1> HIDE DEF n, A
<1>7. /\ DOMAIN Over(n, m) = DOMAIN n \cup DOMAIN m
      /\ \A a \in DOMAIN n : Over(n, m)[a] = n[a]
      /\ \A a \in DOMAIN m \ DOMAIN n : Over(n, m)[a] = m[a]
  BY Overlay
<1>8. DOMAIN store(m, ctx, fields) = DOMAIN m
  BY <1>2, <1>3, <1>5, <1>7
<1>9. \A f \in DOMAIN fields : store(m, ctx, fields)[ctx + off[f]] = fields[f]
  BY <1>1, <1>2, <1>3, <1>4, <1>7
<1>10. \A f \in DOMAIN off \ DOMAIN fields :
              store(m, ctx, fields)[ctx + off[f]] = m[ctx + off[f]]
  BY <1>2, <1>3, <1>6, <1>7
<1>11. \A a \in DOMAIN m \ ctx..(ctx + 14) : store(m, ctx, fields)[a] = m[a]
  BY <1>2, <1>3, <1>5, <1>7
<1> QED
  BY <1>8, <1>9, <1>10, <1>11

\* Words pushed lie below the old stack pointer, the first highest.
LEMMA Push ==
  ASSUME NEW m, NEW sp \in Int, NEW ws, Len(ws) \in Nat,
         (sp - Len(ws))..(sp - 1) \subseteq DOMAIN m
  PROVE  /\ pushAll(m, sp, ws).sp = sp - Len(ws) /\ DOMAIN pushAll(m, sp, ws).m = DOMAIN m
         /\ \A i \in 1..Len(ws) : pushAll(m, sp, ws).m[sp - i] = ws[i]
         /\ \A a \in DOMAIN m \ (sp - Len(ws))..(sp - 1) : pushAll(m, sp, ws).m[a] = m[a]
<1> SUFFICES ASSUME NEW st, st = pushAll(m, sp, ws), NEW k \in Nat, k = Len(ws)
             PROVE  /\ st.sp = sp - k /\ DOMAIN st.m = DOMAIN m
                    /\ \A i \in 1..k : st.m[sp - i] = ws[i]
                    /\ \A a \in DOMAIN m \ (sp - k)..(sp - 1) : st.m[a] = m[a]
  OBVIOUS
<1> DEFINE n == [a \in (sp - k)..(sp - 1) |-> ws[sp - a]]
<1>1. st = [m |-> Over(n, m), sp |-> sp - k]
  BY DEF pushAll
<1>2. st.sp = sp - k /\ st.m = Over(n, m)
  BY <1>1
<1>3. DOMAIN n = (sp - k)..(sp - 1)
  OBVIOUS
<1>4. ASSUME NEW i \in 1..k PROVE sp - i \in DOMAIN n /\ n[sp - i] = ws[i]
  <2>1. sp - i \in (sp - k)..(sp - 1) /\ sp - (sp - i) = i
    OBVIOUS
  <2> QED
    BY <2>1
<1> HIDE DEF n
<1>5. /\ DOMAIN Over(n, m) = DOMAIN n \cup DOMAIN m
      /\ \A a \in DOMAIN n : Over(n, m)[a] = n[a]
      /\ \A a \in DOMAIN m \ DOMAIN n : Over(n, m)[a] = m[a]
  BY Overlay
<1>6. DOMAIN Over(n, m) = DOMAIN m
  BY <1>3, <1>5
<1>7. \A i \in 1..k : Over(n, m)[sp - i] = ws[i]
  BY <1>4, <1>5
<1>8. \A a \in DOMAIN m \ (sp - k)..(sp - 1) : Over(n, m)[a] = m[a]
  BY <1>3, <1>5
<1> QED
  BY <1>2, <1>6, <1>7, <1>8

\* What the C frames overwrite is on one stack, below the stack pointer.
LEMMA Clobber ==
  ASSUME NEW m, DOMAIN m = Stacks, NEW t \in Thread, NEW sp \in Int
  PROVE  /\ DOMAIN clobber(m, t, sp) = Stacks
         /\ \A a \in Stacks : a \notin Stack(t) => clobber(m, t, sp)[a] = m[a]
         /\ \A a \in Stack(t) : a >= sp => clobber(m, t, sp)[a] = m[a]
<1> DEFINE n == [a \in {b \in Stack(t) : b < sp} |-> Junk]
<1>1. clobber(m, t, sp) = Over(n, m)
  BY DEF clobber
<1>2. DOMAIN n = {b \in Stack(t) : b < sp}
  OBVIOUS
<1> HIDE DEF n
<1>3. /\ DOMAIN Over(n, m) = DOMAIN n \cup DOMAIN m
      /\ \A a \in DOMAIN m \ DOMAIN n : Over(n, m)[a] = m[a]
  BY Overlay
<1>4. \A a \in Stack(t) : a \in Stacks /\ (a >= sp => a \notin DOMAIN n)
  BY <1>2, StackIn
<1> QED
  BY <1>1, <1>2, <1>3, <1>4

\* The copy of __am_iret never reads a word it has written.
LEMMA Copied ==
  ASSUME NEW m, NEW ctx \in Int, NEW sp \in Int, sp >= ctx + ContextWords
  PROVE  copied(m, ctx, sp) = [i \in 1..6 |-> m[ctx + off[moved[i]]]]
<1> DEFINE E(w) == [i \in DOMAIN moved |->
                      IF sp - (ctx + off[moved[i]]) \in 1..i-1
                      THEN w[sp - (ctx + off[moved[i]])] ELSE m[ctx + off[moved[i]]]]
           g == [i \in 1..6 |-> m[ctx + off[moved[i]]]]
<1>1. DOMAIN moved = 1..6 /\ \A i \in 1..6 : off[moved[i]] = 13 - i
  BY DEF moved, off
<1>2. \A i \in 1..6 : sp - (ctx + off[moved[i]]) \notin 1..i-1
  BY <1>1 DEF ContextWords
<1>3. \A w : E(w) = g
  BY <1>1, <1>2
<1>4. copied(m, ctx, sp) = CHOOSE w : w = E(w)
  BY DEF copied
<1>5. (CHOOSE w : w = E(w)) = g
  BY <1>3
<1> QED
  BY <1>4, <1>5
-----------------------------------------------------------------------------
(***************************************************************************)
(* Going back: __am_iret and the dead words below the stack pointer.       *)
(***************************************************************************)
\* __am_iret loads the registers of the context and writes only words of the
\* thread's own stack that are below its stack pointer.
LEMMA Iret ==
  ASSUME NEW u \in Thread, NEW m, DOMAIN m = Stacks, NEW ctx, NEW e,
         Saved(u, m, ctx, e), e.r = [f \in Reg |-> e.r[f]], e.r.cs \in {KCODE, UCODE}
  PROVE  /\ iret(m, ctx).r = e.r
         /\ DOMAIN iret(m, ctx).m = Stacks
         /\ \A a \in Stacks : a \notin Stack(u) => iret(m, ctx).m[a] = m[a]
         /\ e.r.cs # UCODE =>
              \A a \in Stack(u) : a >= e.r.esp => iret(m, ctx).m[a] = m[a]
<1> DEFINE r  == [f \in DOMAIN blank |-> m[ctx + off[f]]]
           w  == copied(m, ctx, r.esp)
           up == [eflags |-> w[1], cs |-> w[2], eip |-> w[3], ebp |-> w[4],
                  edi |-> w[5], esi |-> w[6]]
           n  == [a \in (r.esp - 6)..(r.esp - 1) |-> w[r.esp - a]]
<1>1. r = e.r
  BY DEF Saved, Reg
<1>2. iret(m, ctx) = IF r.cs # KCODE THEN [m |-> m, r |-> r]
                     ELSE [m |-> Over(n, m), r |-> Over(up, r)]
  BY DEF iret
<1>3. CASE e.r.cs = UCODE
  <2>1. r.cs # KCODE
    BY <1>1, <1>3 DEF UCODE, KCODE
  <2> HIDE DEF r, n, up
  <2>2. iret(m, ctx) = [m |-> m, r |-> r]
    BY <1>2, <2>1
  <2> QED
    BY <1>1, <1>3, <2>2
<1>4. CASE e.r.cs # UCODE
  <2>1. /\ ctx \in Int /\ ctx >= Kend(u) - S /\ Kend(u) \in Int /\ S \in Nat
        /\ e.r.esp \in Int /\ e.r.esp >= ctx + 15 /\ e.r.esp <= Kend(u)
    BY <1>4, Numbers DEF Saved, ContextWords
  <2>2. w = [i \in 1..6 |-> m[ctx + off[moved[i]]]]
    BY <1>1, <2>1, Copied DEF ContextWords
  <2>3. iret(m, ctx) = [m |-> Over(n, m), r |-> Over(up, r)]
    BY <1>1, <1>2, <1>4 DEF UCODE, KCODE
  <2>4. iret(m, ctx).m = Over(n, m) /\ iret(m, ctx).r = Over(up, r)
    BY ONLY <2>3
  <2>5. /\ moved[1] = "eflags" /\ moved[2] = "cs" /\ moved[3] = "eip"
        /\ moved[4] = "ebp" /\ moved[5] = "edi" /\ moved[6] = "esi"
    BY DEF moved
  <2>6. /\ DOMAIN up = {"eflags", "cs", "eip", "ebp", "edi", "esi"}
        /\ up["eflags"] = w[1] /\ up["cs"] = w[2] /\ up["eip"] = w[3]
        /\ up["ebp"] = w[4] /\ up["edi"] = w[5] /\ up["esi"] = w[6]
    OBVIOUS
  <2>7. DOMAIN r = Reg /\ \A f \in Reg : r[f] = m[ctx + off[f]]
    BY DEF Reg
  <2>8. DOMAIN n = (e.r.esp - 6)..(e.r.esp - 1)
    BY <1>1
  <2> HIDE DEF r, up, n, w
  <2>9. DOMAIN up \subseteq Reg /\ \A f \in DOMAIN up : up[f] = r[f]
    BY <2>2, <2>5, <2>6, <2>7, Registers
  <2>10. Over(up, r) = r
    <3>1. Over(up, r) = [f \in Reg |-> IF f \in DOMAIN up THEN up[f] ELSE r[f]]
      BY <2>7, <2>9 DEF Over
    <3>2. Over(up, r) = [f \in Reg |-> r[f]]
      BY <2>9, <3>1
    <3> QED
      BY <1>1, <3>2
  <2>11. DOMAIN n \subseteq Stack(u) /\ \A a \in DOMAIN n : a < e.r.esp
    <3>1. PICK sp \in Int, top \in Int, k \in Nat, b \in Int :
            /\ sp = e.r.esp /\ top = Kend(u) /\ k = S /\ b = ctx
            /\ b >= top - k /\ sp >= b + 15 /\ sp <= top
      BY ONLY <2>1
    <3>2. \A a \in (sp - 6)..(sp - 1) : a \in Int /\ top - k <= a /\ a < top /\ a < sp
      BY ONLY <3>1, sp \in Int, top \in Int, k \in Nat, b \in Int
    <3>3. \A a \in DOMAIN n : a \in Int /\ Kend(u) - S <= a /\ a < Kend(u) /\ a < e.r.esp
      BY ONLY <2>8, <3>1, <3>2
    <3> QED
      BY <3>3, StackIn
  <2>12. /\ DOMAIN Over(n, m) = DOMAIN n \cup DOMAIN m
         /\ \A a \in DOMAIN m \ DOMAIN n : Over(n, m)[a] = m[a]
    BY ONLY Overlay
  <2>13. DOMAIN Over(n, m) = Stacks
    BY <2>11, <2>12, StackIn
  <2>14. \A a \in Stacks : a \notin Stack(u) => Over(n, m)[a] = m[a]
    BY <2>11, <2>12
  <2>15. \A a \in Stack(u) : a >= e.r.esp => Over(n, m)[a] = m[a]
    <3> SUFFICES ASSUME NEW a \in Stack(u), a >= e.r.esp PROVE a \in DOMAIN m \ DOMAIN n
      BY <2>12
    <3>1. a \in Int /\ a \in Stacks
      BY StackIn, Numbers
    <3> QED
      BY <2>1, <2>8, <3>1
  <2> QED
    BY <1>1, <2>4, <2>10, <2>13, <2>14, <2>15
<1> QED
  BY <1>3, <1>4

\* The thread that goes on finds its registers and its words, and nothing of
\* another stack changes.
LEMMA Resumed ==
  ASSUME NEW u \in Thread, NEW m, DOMAIN m = Stacks, NEW ctx, NEW e, NEW n,
         Saved(u, m, ctx, e), e.r = [f \in Reg |-> e.r[f]], e.r.cs \in {KCODE, UCODE},
         e.r.cs = UCODE => e.words = <<>>,
         n = clobber(iret(m, ctx).m, u,
                     IF inUser(iret(m, ctx).r) THEN Kend(u) ELSE iret(m, ctx).r.esp)
  PROVE  /\ iret(m, ctx).r = e.r
         /\ DOMAIN n = Stacks
         /\ \A a \in Stacks : a \notin Stack(u) => n[a] = m[a]
         /\ live(n, u, e.r) = e.words
<1> DEFINE k == iret(m, ctx).m
           sp == IF inUser(e.r) THEN Kend(u) ELSE e.r.esp
<1>1. /\ iret(m, ctx).r = e.r
      /\ DOMAIN k = Stacks
      /\ \A a \in Stacks : a \notin Stack(u) => k[a] = m[a]
      /\ e.r.cs # UCODE => \A a \in Stack(u) : a >= e.r.esp => k[a] = m[a]
  BY Iret
<1>2. n = clobber(k, u, sp)
  BY <1>1
<1>3. /\ e.r.cs # UCODE => /\ e.r.esp \in Int /\ e.r.esp >= Kend(u) - S
                           /\ e.words = [a \in e.r.esp..(Kend(u) - 1) |-> m[a]]
      /\ Kend(u) \in Int
  BY Numbers DEF Saved, ContextWords
<1>4. sp \in Int
  BY <1>3 DEF inUser
<1> HIDE DEF k, sp
<1>5. /\ DOMAIN n = Stacks
      /\ \A a \in Stacks : a \notin Stack(u) => n[a] = k[a]
      /\ \A a \in Stack(u) : a >= sp => n[a] = k[a]
  BY <1>1, <1>2, <1>4, Clobber
<1>6. CASE e.r.cs = UCODE
  <2>1. live(n, u, e.r) = <<>>
    BY <1>6 DEF live, inUser
  <2> QED
    BY <1>1, <1>5, <1>6, <2>1
<1>7. CASE e.r.cs # UCODE
  <2>1. sp = e.r.esp
    BY <1>7 DEF sp, inUser
  <2>2. \A a \in e.r.esp..(Kend(u) - 1) : a \in Stack(u) /\ a >= e.r.esp
    <3>1. PICK sp1 \in Int, top \in Int, room \in Nat :
            sp1 = e.r.esp /\ top = Kend(u) /\ room = S /\ sp1 >= top - room
      BY <1>3, <1>7, Numbers
    <3>2. \A a \in sp1..(top - 1) : a \in Int /\ top - room <= a /\ a < top /\ a >= sp1
      BY ONLY <3>1, sp1 \in Int, top \in Int, room \in Nat
    <3> QED
      BY <3>1, <3>2, StackIn
  <2>3. \A a \in e.r.esp..(Kend(u) - 1) : n[a] = m[a]
    BY <1>1, <1>5, <1>7, <2>1, <2>2
  <2>4. live(n, u, e.r) = [a \in e.r.esp..(Kend(u) - 1) |-> n[a]]
    BY <1>7 DEF live, inUser
  <2>5. live(n, u, e.r) = e.words
    BY <1>3, <1>7, <2>3, <2>4
  <2> QED
    BY <1>1, <1>5, <2>5
<1> QED
  BY <1>6, <1>7
-----------------------------------------------------------------------------
(***************************************************************************)
(* Saving: the frame of trap and saved_ctx of __am_irq_handle.             *)
(***************************************************************************)
\* Whether or not the processor pushed an error code, the vector and the code
\* are the two words below the ones it always pushes.
LEMMA VectorPushed ==
  ASSUME NEW m, NEW b \in Int, (b + 15)..(b + 16) \subseteq DOMAIN m, NEW sp \in Int,
         NEW ws, Len(ws) \in Nat, sp - Len(ws) = b + 15, sp - 1 <= b + 16,
         NEW st, st = pushAll(m, sp, ws)
  PROVE  /\ st.sp = b + 15 /\ DOMAIN st.m = DOMAIN m
         /\ \A a \in DOMAIN m \ (b + 15)..(b + 16) : st.m[a] = m[a]
<1>1. (sp - Len(ws))..(sp - 1) \subseteq DOMAIN m
  OBVIOUS
<1>2. /\ st.sp = sp - Len(ws) /\ DOMAIN st.m = DOMAIN m
      /\ \A a \in DOMAIN m \ (sp - Len(ws))..(sp - 1) : st.m[a] = m[a]
  BY <1>1, Push
<1> QED
  BY <1>2

\* The registers are pushed into their places in the context.
LEMMA RegistersPushed ==
  ASSUME NEW m, NEW b \in Int, b..(b + 9) \subseteq DOMAIN m,
         NEW ws, Len(ws) = 10,
         ws[1] = cpu.ebp, ws[2] = cpu.edi, ws[3] = cpu.esi, ws[5] = cpu.edx,
         ws[6] = cpu.ecx, ws[7] = cpu.ebx, ws[8] = cpu.eax, ws[9] = cpu.ds
  PROVE  /\ pushAll(m, b + 10, ws).sp = b /\ DOMAIN pushAll(m, b + 10, ws).m = DOMAIN m
         /\ \A f \in Kept : pushAll(m, b + 10, ws).m[b + off[f]] = cpu[f]
         /\ \A a \in DOMAIN m \ b..(b + 9) : pushAll(m, b + 10, ws).m[a] = m[a]
<1> DEFINE n == [a \in b..(b + 9) |-> ws[b + 10 - a]]
<1>1. pushAll(m, b + 10, ws) = [m |-> Over(n, m), sp |-> b]
  <2>1. b + 10 - Len(ws) = b /\ b + 10 - 1 = b + 9
    OBVIOUS
  <2> QED
    BY <2>1 DEF pushAll
<1>2. DOMAIN n = b..(b + 9)
  OBVIOUS
<1>3. /\ n[b + 9] = cpu.ebp /\ n[b + 8] = cpu.edi /\ n[b + 7] = cpu.esi
      /\ n[b + 5] = cpu.edx /\ n[b + 4] = cpu.ecx /\ n[b + 3] = cpu.ebx
      /\ n[b + 2] = cpu.eax /\ n[b + 1] = cpu.ds
  <2>1. \A i \in 0..9 : n[b + i] = ws[10 - i]
    <3> TAKE i \in 0..9
    <3>1. b + i \in b..(b + 9) /\ b + 10 - (b + i) = 10 - i
      OBVIOUS
    <3> QED
      BY <3>1
  <2> HIDE DEF n
  <2>2. /\ n[b + 9] = ws[1] /\ n[b + 8] = ws[2] /\ n[b + 7] = ws[3] /\ n[b + 5] = ws[5]
        /\ n[b + 4] = ws[6] /\ n[b + 3] = ws[7] /\ n[b + 2] = ws[8] /\ n[b + 1] = ws[9]
    BY ONLY <2>1
  <2> QED
    BY <2>2
<1> HIDE DEF n
<1>4. /\ DOMAIN Over(n, m) = DOMAIN n \cup DOMAIN m
      /\ \A a \in DOMAIN n : Over(n, m)[a] = n[a]
      /\ \A a \in DOMAIN m \ DOMAIN n : Over(n, m)[a] = m[a]
  BY ONLY Overlay
<1>5. /\ off["ebp"] = 9 /\ off["edi"] = 8 /\ off["esi"] = 7 /\ off["edx"] = 5
      /\ off["ecx"] = 4 /\ off["ebx"] = 3 /\ off["eax"] = 2 /\ off["ds"] = 1
  BY DEF off
<1>6. \A f \in Kept : b + off[f] \in DOMAIN n /\ n[b + off[f]] = cpu[f]
  <2>1. \A f \in Kept : off[f] \in 0..9
    BY <1>5, Registers
  <2>2. \A f \in Kept : b + off[f] \in DOMAIN n
    BY ONLY <1>2, <2>1, b \in Int
  <2>3. \A f \in Kept : n[b + off[f]] = cpu[f]
    BY <1>3, <1>5, Registers
  <2> QED
    BY <2>2, <2>3
<1>7. /\ pushAll(m, b + 10, ws).sp = b
      /\ pushAll(m, b + 10, ws).m = Over(n, m)
  BY <1>1
<1>8. DOMAIN Over(n, m) = DOMAIN m
  <2>1. DOMAIN n \subseteq DOMAIN m
    BY <1>2
  <2> QED
    BY <1>4, <2>1
<1>9. \A f \in Kept : Over(n, m)[b + off[f]] = cpu[f]
  BY <1>4, <1>6
<1>10. \A a \in DOMAIN m \ b..(b + 9) : Over(n, m)[a] = m[a]
  BY <1>2, <1>4
<1> QED
  BY <1>7, <1>8, <1>9, <1>10

\* The frame of trap, from b up to the words the processor always pushes,
\* holds the registers, and nothing else changes.
LEMMA FrameBuilt ==
  ASSUME NEW b \in Int, b..(b + 16) \subseteq DOMAIN mem, NEW v, NEW sp \in Int,
         cpu.esp = sp, HasError(v) => sp = b + 16, ~HasError(v) => sp = b + 17
  PROVE  /\ frame(v).sp = b
         /\ DOMAIN frame(v).m = DOMAIN mem
         /\ \A f \in Kept : frame(v).m[b + off[f]] = cpu[f]
         /\ \A a \in DOMAIN mem \ b..(b + 16) : frame(v).m[a] = mem[a]
<1> DEFINE w1 == (IF HasError(v) THEN <<>> ELSE <<0>>) \o <<v>>
           s1 == pushAll(mem, sp, w1)
           w2 == <<cpu.ebp, cpu.edi, cpu.esi, 0, cpu.edx, cpu.ecx, cpu.ebx, cpu.eax,
                   cpu.ds, 0>>
           s2 == pushAll(s1.m, s1.sp - 5, w2)
<1>1. frame(v) = s2
  BY DEF frame
<1>2. (b + 15)..(b + 16) \subseteq DOMAIN mem
  OBVIOUS
<1>3. Len(w1) \in Nat /\ sp - Len(w1) = b + 15 /\ sp - 1 <= b + 16
  <2>1. CASE HasError(v)
    <3>1. w1 = <<>> \o <<v>> /\ sp = b + 16
      BY <2>1
    <3>2. Len(w1) = 1
      BY <3>1
    <3> QED
      BY <3>1, <3>2
  <2>2. CASE ~HasError(v)
    <3>1. w1 = <<0>> \o <<v>> /\ sp = b + 17
      BY <2>2
    <3>2. Len(w1) = 2
      BY <3>1
    <3> QED
      BY <3>1, <3>2
  <2> QED
    BY <2>1, <2>2
<1>4. /\ Len(w2) = 10
      /\ w2[1] = cpu.ebp /\ w2[2] = cpu.edi /\ w2[3] = cpu.esi /\ w2[5] = cpu.edx
      /\ w2[6] = cpu.ecx /\ w2[7] = cpu.ebx /\ w2[8] = cpu.eax /\ w2[9] = cpu.ds
  OBVIOUS
<1> HIDE DEF w1, w2
<1>5. /\ s1.sp = b + 15 /\ DOMAIN s1.m = DOMAIN mem
      /\ \A a \in DOMAIN mem \ (b + 15)..(b + 16) : s1.m[a] = mem[a]
  BY <1>2, <1>3, VectorPushed
<1>6. s2 = pushAll(s1.m, b + 10, w2)
  BY <1>5
<1> HIDE DEF s1, s2
<1>7. /\ s2.sp = b /\ DOMAIN s2.m = DOMAIN s1.m
      /\ \A f \in Kept : s2.m[b + off[f]] = cpu[f]
      /\ \A a \in DOMAIN s1.m \ b..(b + 9) : s2.m[a] = s1.m[a]
  <2> DEFINE m1 == s1.m
  <2>1. b..(b + 9) \subseteq DOMAIN m1
    BY <1>5
  <2> HIDE DEF m1
  <2>2. /\ pushAll(m1, b + 10, w2).sp = b
        /\ DOMAIN pushAll(m1, b + 10, w2).m = DOMAIN m1
        /\ \A f \in Kept : pushAll(m1, b + 10, w2).m[b + off[f]] = cpu[f]
        /\ \A a \in DOMAIN m1 \ b..(b + 9) : pushAll(m1, b + 10, w2).m[a] = m1[a]
    BY ONLY <1>4, <2>1, b \in Int, RegistersPushed, SMTT(40)
  <2> QED
    BY <1>6, <2>2 DEF m1
<1>8. \A a \in DOMAIN mem \ b..(b + 16) : s2.m[a] = mem[a]
  BY <1>5, <1>7
<1> QED
  BY <1>1, <1>5, <1>7, <1>8

\* The frame of thread c in the stub of v, entered where c was e, goes to b:
\* the words the processor pushed are behind its first 17.
FrameAt(c, v, e, b) ==
  /\ b >= Kend(c) - (MaxWords + 26) /\ b + 20 <= Kend(c)
  /\ HasError(v) => cpu.esp = b + 16
  /\ ~HasError(v) => cpu.esp = b + 17
  /\ mem[b + 17] = e.r.eip /\ mem[b + 18] = e.r.cs /\ mem[b + 19] = e.r.eflags
  /\ e.r.cs = UCODE => b + 22 = Kend(c) /\ mem[b + 20] = e.r.esp
  /\ e.r.cs # UCODE => /\ e.r.esp = b + 20
                       /\ e.words = [a \in (b + 20)..(Kend(c) - 1) |-> mem[a]]

\* The frame of a thread in a stub fits its stack, which is what S bounds.
LEMMA InStub ==
  ASSUME NEW c \in Thread, NEW e, NEW v, Trapped(c, v, e, Seen(c)),
         e.r.cs \in {KCODE, UCODE}
  PROVE  \E b \in Int : FrameAt(c, v, e, b)
<1> DEFINE x == Seen(c)
<1>1. x.r = cpu /\ x.words = live(mem, c, cpu) /\ Trapped(c, v, e, x)
  BY DEF Seen
<1> HIDE DEF x
<1>2. /\ cpu.cs = KCODE
      /\ cpu.esp \in (Kend(c) - (MaxWords + 9))..(Kend(c) - 3)
      /\ x.words[Pushed(v, cpu.esp)] = e.r.eip
      /\ x.words[Pushed(v, cpu.esp) + 1] = e.r.cs
      /\ x.words[Pushed(v, cpu.esp) + 2] = e.r.eflags
      /\ e.r.cs = UCODE => /\ Pushed(v, cpu.esp) + 5 = Kend(c)
                           /\ x.words[Pushed(v, cpu.esp) + 3] = e.r.esp
      /\ e.r.cs # UCODE =>
           /\ ~HasError(v) /\ e.r.esp = Pushed(v, cpu.esp) + 3
           /\ e.words = [a \in (Pushed(v, cpu.esp) + 3)..(Kend(c) - 1) |-> x.words[a]]
  BY <1>1 DEF Trapped
<1>3. PICK sp \in Int, top \in Int, k \in Nat : sp = cpu.esp /\ top = Kend(c) /\ k = MaxWords
  BY <1>2, Numbers
<1>4. x.words = [a \in sp..(top - 1) |-> mem[a]]
  BY <1>1, <1>2, <1>3 DEF live, inUser, KCODE, UCODE
<1>5. PICK b \in Int : b + 17 = Pushed(v, sp) /\ b + 17 >= sp /\ b + 17 <= sp + 1
                       /\ (HasError(v) => sp = b + 16) /\ (~HasError(v) => sp = b + 17)
  <2>1. CASE HasError(v)
    <3>1. Pushed(v, sp) = sp + 1
      BY <2>1 DEF Pushed
    <3>2. sp - 16 \in Int /\ (sp - 16) + 17 = sp + 1 /\ sp = (sp - 16) + 16
      OBVIOUS
    <3> QED
      BY <2>1, <3>1, <3>2
  <2>2. CASE ~HasError(v)
    <3>1. Pushed(v, sp) = sp
      BY <2>2 DEF Pushed
    <3>2. sp - 17 \in Int /\ (sp - 17) + 17 = sp
      OBVIOUS
    <3> QED
      BY <2>2, <3>1, <3>2
  <2> QED
    BY <2>1, <2>2
<1>6. sp >= top - (k + 9) /\ sp <= top - 3
  BY <1>2, <1>3
<1>7. /\ (b + 17) + 1 = b + 18 /\ (b + 17) + 2 = b + 19 /\ (b + 17) + 3 = b + 20
      /\ (b + 17) + 5 = b + 22
  OBVIOUS
<1>8. /\ x.words[b + 17] = e.r.eip /\ x.words[b + 18] = e.r.cs
      /\ x.words[b + 19] = e.r.eflags
      /\ e.r.cs = UCODE => b + 22 = top /\ x.words[b + 20] = e.r.esp
      /\ e.r.cs # UCODE => /\ ~HasError(v) /\ e.r.esp = b + 20
                           /\ e.words = [a \in (b + 20)..(top - 1) |-> x.words[a]]
  BY ONLY <1>2, <1>3, <1>5, <1>7
<1>9. b + 20 <= top
  <2>1. CASE e.r.cs = UCODE
    BY <1>8, <2>1
  <2>2. CASE e.r.cs # UCODE
    BY <1>5, <1>6, <1>8, <2>2
  <2> QED
    BY <2>1, <2>2
<1>10. \A a \in (b + 17)..(top - 1) : x.words[a] = mem[a]
  BY <1>4, <1>5
<1>11. /\ b + 17 \in (b + 17)..(top - 1) /\ b + 18 \in (b + 17)..(top - 1)
       /\ b + 19 \in (b + 17)..(top - 1)
       /\ b + 22 = top => b + 20 \in (b + 17)..(top - 1)
       /\ \A a \in (b + 20)..(top - 1) : a \in (b + 17)..(top - 1)
  BY ONLY <1>9, b \in Int, top \in Int
<1>12. /\ mem[b + 17] = e.r.eip /\ mem[b + 18] = e.r.cs /\ mem[b + 19] = e.r.eflags
       /\ e.r.cs = UCODE => b + 22 = top /\ mem[b + 20] = e.r.esp
  BY ONLY <1>8, <1>10, <1>11
<1>13. e.r.cs # UCODE => /\ e.r.esp = b + 20
                         /\ e.words = [a \in (b + 20)..(top - 1) |-> mem[a]]
  BY ONLY <1>8, <1>10, <1>11
<1>14. b >= top - (k + 26)
  BY ONLY <1>5, <1>6, b \in Int, top \in Int, k \in Nat, sp \in Int
<1> QED
  BY ONLY <1>3, <1>5, <1>9, <1>12, <1>13, <1>14, b \in Int DEF FrameAt

\* saved_ctx is the context of the code the trap came from.
LEMMA ContextSaved ==
  ASSUME NEW c \in Thread, DOMAIN mem = Stacks, NEW e, NEW v,
         Trapped(c, v, e, Seen(c)),
         e.r.cs \in {KCODE, UCODE},
         c \in UThread => cr3 = Space(c) /\ esp0 = Kend(c),
         NEW n, n = clobber(saved(frame(v)), c, frame(v).sp)
  PROVE  /\ Saved(c, n, frame(v).sp, e)
         /\ DOMAIN n = Stacks /\ DOMAIN saved(frame(v)) = Stacks
         /\ \A a \in Stacks : a \notin Stack(c) =>
              n[a] = mem[a] /\ saved(frame(v))[a] = mem[a]
<1>1. PICK top \in Int, k \in Nat, s \in Nat : /\ top = Kend(c) /\ k = MaxWords
                                             /\ s = S /\ s >= 28 + k
  BY Numbers
<1>2. PICK b \in Int : FrameAt(c, v, e, b)
  BY InStub
<1>3. b >= top - (k + 26) /\ b + 20 <= top
  BY ONLY <1>1, <1>2 DEF FrameAt
<1>4. \A a \in b..(top - 1) : a \in Stack(c) /\ a \in Stacks
  <2> TAKE a \in b..(top - 1)
  <2>1. a \in Int /\ top - s <= a /\ a < top
    BY ONLY <1>1, <1>3, a \in b..(top - 1), b \in Int, top \in Int, s \in Nat, k \in Nat
  <2>2. a \in Stack(c)
    BY <1>1, <2>1, StackIn
  <2> QED
    BY <2>2, StackIn
<1> DEFINE st == frame(v)
           fs == [eip |-> st.m[b + 17], cs |-> st.m[b + 18], eflags |-> st.m[b + 19],
                  esp |-> IF st.m[b + 18] = UCODE THEN st.m[b + 20] ELSE b + 20,
                  esp0 |-> esp0, ss3 |-> UDATA, cr3 |-> cr3]
           m  == store(st.m, b, fs)
<1>5. /\ st.sp = b /\ DOMAIN st.m = Stacks
      /\ \A f \in Kept : st.m[b + off[f]] = cpu[f]
      /\ \A a \in Stacks \ b..(b + 16) : st.m[a] = mem[a]
  <2>1. b..(b + 16) \subseteq DOMAIN mem
    BY <1>3, <1>4
  <2>2. PICK sp \in Int : /\ cpu.esp = sp
                          /\ HasError(v) => sp = b + 16
                          /\ ~HasError(v) => sp = b + 17
    BY <1>2 DEF FrameAt
  <2> HIDE DEF st
  <2>3. /\ st.sp = b /\ DOMAIN st.m = DOMAIN mem
        /\ \A f \in Kept : st.m[b + off[f]] = cpu[f]
        /\ \A a \in DOMAIN mem \ b..(b + 16) : st.m[a] = mem[a]
    <3>1. b \in Int /\ sp \in Int /\ cpu.esp = sp
      BY <2>2
    <3>2. (HasError(v) => sp = b + 16) /\ (~HasError(v) => sp = b + 17)
      BY <2>2
    <3>3. /\ frame(v).sp = b /\ DOMAIN frame(v).m = DOMAIN mem
          /\ \A f \in Kept : frame(v).m[b + off[f]] = cpu[f]
          /\ \A a \in DOMAIN mem \ b..(b + 16) : frame(v).m[a] = mem[a]
      BY ONLY <2>1, <3>1, <3>2, FrameBuilt, SMTT(60)
    <3> QED
      BY <3>3 DEF st
  <2> QED
    BY <2>3
<1>6. saved(st) = m
  <2>1. st.sp + ContextWords + 2 = b + 17 /\ st.sp + TrapFrameWords - 2 = b + 20
    BY <1>5 DEF ContextWords, TrapFrameWords
  <2>2. (b + 17) + 1 = b + 18 /\ (b + 17) + 2 = b + 19 /\ (b + 17) + 3 = b + 20
    OBVIOUS
  <2> HIDE DEF st
  <2> QED
    BY ONLY <1>5, <2>1, <2>2 DEF saved
<1> HIDE DEF st
<1>7. \A a \in (b + 17)..(top - 1) : st.m[a] = mem[a]
  <2> TAKE a \in (b + 17)..(top - 1)
  <2>1. a \in b..(top - 1) /\ a \notin b..(b + 16)
    BY ONLY a \in (b + 17)..(top - 1), b \in Int, top \in Int
  <2> QED
    BY <1>4, <1>5, <2>1
<1>8. /\ st.m[b + 17] = e.r.eip /\ st.m[b + 18] = e.r.cs /\ st.m[b + 19] = e.r.eflags
      /\ e.r.cs = UCODE => st.m[b + 20] = e.r.esp
  <2>1. /\ b + 17 \in (b + 17)..(top - 1) /\ b + 18 \in (b + 17)..(top - 1)
        /\ b + 19 \in (b + 17)..(top - 1)
        /\ b + 22 = top => b + 20 \in (b + 17)..(top - 1)
    BY ONLY <1>3, b \in Int, top \in Int
  <2> QED
    BY ONLY <1>1, <1>2, <1>7, <2>1 DEF FrameAt
<1>9. /\ DOMAIN fs = {"eip", "cs", "eflags", "esp", "esp0", "ss3", "cr3"}
      /\ fs["eip"] = e.r.eip /\ fs["cs"] = e.r.cs /\ fs["eflags"] = e.r.eflags
      /\ fs["esp"] = e.r.esp /\ fs["esp0"] = esp0 /\ fs["cr3"] = cr3
  BY <1>2, <1>8 DEF FrameAt
<1> HIDE DEF fs
<1>10. /\ DOMAIN m = Stacks
       /\ \A f \in DOMAIN fs : m[b + off[f]] = fs[f]
       /\ \A f \in DOMAIN off \ DOMAIN fs : m[b + off[f]] = st.m[b + off[f]]
       /\ \A a \in Stacks \ b..(b + 14) : m[a] = st.m[a]
  <2>1. b..(b + 14) \subseteq DOMAIN st.m
    BY <1>3, <1>4, <1>5
  <2>2. DOMAIN fs \subseteq DOMAIN off
    BY <1>9, Offsets
  <2> DEFINE sm == st.m
  <2> HIDE DEF sm
  <2>3. /\ DOMAIN store(sm, b, fs) = DOMAIN sm
        /\ \A f \in DOMAIN fs : store(sm, b, fs)[b + off[f]] = fs[f]
        /\ \A f \in DOMAIN off \ DOMAIN fs : store(sm, b, fs)[b + off[f]] = sm[b + off[f]]
        /\ \A a \in DOMAIN sm \ b..(b + 14) : store(sm, b, fs)[a] = sm[a]
    <3>1. b..(b + 14) \subseteq DOMAIN sm
      BY <2>1 DEF sm
    <3> QED
      BY ONLY <2>2, <3>1, Store, b \in Int
  <2> QED
    BY <1>5, <2>3 DEF sm
<1> HIDE DEF m
<1>11. n = clobber(m, c, b)
  BY <1>5, <1>6 DEF st
<1>12. /\ DOMAIN n = Stacks
       /\ \A a \in Stacks : a \notin Stack(c) => n[a] = m[a]
       /\ \A a \in Stack(c) : a >= b => n[a] = m[a]
  BY <1>10, <1>11, Clobber
<1>13. \A a \in Stacks : a \notin Stack(c) => n[a] = mem[a] /\ m[a] = mem[a]
  <2> SUFFICES ASSUME NEW a \in Stacks, a \notin Stack(c)
               PROVE  n[a] = mem[a] /\ m[a] = mem[a]
    OBVIOUS
  <2>1. a \notin b..(b + 16)
    BY <1>3, <1>4
  <2>2. a \notin b..(b + 14)
    BY <2>1
  <2> QED
    BY <1>5, <1>10, <1>12, <2>1, <2>2
<1>14. \A f \in DOMAIN off : n[b + off[f]] = m[b + off[f]]
  <2> SUFFICES ASSUME NEW f \in DOMAIN off
               PROVE  b + off[f] \in Stack(c) /\ b + off[f] >= b
    BY <1>12
  <2>1. off[f] \in 0..14
    BY Offsets
  <2> QED
    <3>1. b + off[f] \in b..(top - 1) /\ b + off[f] >= b
      BY ONLY <1>3, <2>1, b \in Int, top \in Int
    <3> QED
      BY <1>4, <3>1
<1>15. \A f \in Reg : n[b + off[f]] = e.r[f]
  <2>1. \A f \in Kept : cpu[f] = e.r[f]
    BY DEF Trapped, Seen
  <2>2. \A f \in Kept : f \in DOMAIN off \ DOMAIN fs
    BY <1>9, Registers, Offsets
  <2>3. \A f \in Kept : n[b + off[f]] = e.r[f]
    BY <1>5, <1>10, <1>14, <2>1, <2>2
  <2>4. \A f \in {"eip", "cs", "eflags", "esp"} : n[b + off[f]] = e.r[f]
    BY <1>9, <1>10, <1>14, Offsets
  <2> QED
    BY <2>3, <2>4, Registers
<1>16. c \in UThread => n[b + off["cr3"]] = Space(c) /\ n[b + off["esp0"]] = Kend(c)
  BY <1>9, <1>10, <1>14, Offsets
<1>17. e.r.cs # UCODE => e.words = [a \in e.r.esp..(top - 1) |-> n[a]]
  <2>1. \A a \in (b + 20)..(top - 1) : n[a] = mem[a]
    <3> TAKE a \in (b + 20)..(top - 1)
    <3>1. a \in b..(top - 1) /\ a >= b /\ a \notin b..(b + 14) /\ a \in (b + 17)..(top - 1)
      BY ONLY a \in (b + 20)..(top - 1), b \in Int, top \in Int
    <3> QED
      BY <1>4, <1>7, <1>10, <1>12, <3>1
  <2>2. e.r.cs # UCODE => /\ e.r.esp = b + 20
                          /\ e.words = [a \in (b + 20)..(top - 1) |-> mem[a]]
    BY ONLY <1>1, <1>2 DEF FrameAt
  <2> QED
    BY ONLY <2>1, <2>2
<1>18. /\ b \in (Kend(c) - S)..(Kend(c) - ContextWords)
       /\ e.r.cs # UCODE => e.r.esp \in (b + ContextWords)..Kend(c)
  <2>1. e.r.cs # UCODE => e.r.esp = b + 20
    BY ONLY <1>2 DEF FrameAt
  <2> QED
    BY ONLY <1>1, <1>3, <2>1, b \in Int, top \in Int, k \in Nat, s \in Nat DEF ContextWords
<1>19. Saved(c, n, b, e)
  BY <1>1, <1>15, <1>16, <1>17, <1>18 DEF Saved
<1> QED
  BY <1>5, <1>6, <1>10, <1>12, <1>13, <1>19 DEF st

\* A saved context lies in the thread's stack, so no other thread disturbs it.
LEMMA SavedKept ==
  ASSUME NEW t \in Thread, NEW m, NEW n, NEW ctx, NEW e,
         Saved(t, m, ctx, e), \A a \in Stack(t) : n[a] = m[a]
  PROVE  Saved(t, n, ctx, e)
<1>1. PICK top \in Int, s \in Nat : top = Kend(t) /\ s = S
  BY Numbers
<1>2. PICK b \in Int : b = ctx /\ b >= top - s /\ b <= top - 15
  BY <1>1 DEF Saved, ContextWords
<1>3. \A a \in b..(top - 1) : a \in Stack(t)
  BY <1>1, <1>2, StackIn
<1>4. \A f \in DOMAIN off : n[b + off[f]] = m[b + off[f]]
  <2> TAKE f \in DOMAIN off
  <2>1. off[f] \in 0..14
    BY Offsets
  <2>2. b + off[f] \in b..(top - 1)
    BY ONLY <1>2, <2>1, b \in Int, top \in Int
  <2> QED
    BY <1>3, <2>2
<1>5. \A f \in Reg : n[b + off[f]] = e.r[f]
  BY <1>2, <1>4, Registers DEF Saved
<1>6. t \in UThread => n[b + off["cr3"]] = Space(t) /\ n[b + off["esp0"]] = Kend(t)
  BY <1>2, <1>4, Offsets DEF Saved
<1>7. e.r.cs # UCODE => /\ e.r.esp \in (b + 15)..top
                        /\ e.words = [a \in e.r.esp..(top - 1) |-> m[a]]
  BY <1>1, <1>2 DEF Saved, ContextWords
<1>8. ASSUME e.r.cs # UCODE PROVE e.words = [a \in e.r.esp..(top - 1) |-> n[a]]
  <2>1. PICK sp \in Int : sp = e.r.esp /\ sp >= b
    BY <1>7, <1>8
  <2>2. \A a \in sp..(top - 1) : n[a] = m[a]
    BY <1>3, <2>1
  <2> QED
    BY <1>7, <1>8, <2>1, <2>2
<1>9. ctx \in (Kend(t) - S)..(Kend(t) - ContextWords)
  BY DEF Saved
<1> QED
  BY <1>1, <1>2, <1>5, <1>6, <1>7, <1>8, <1>9 DEF Saved, ContextWords

\* No stack starts below 0, so a context is never mistaken for none.
LEMMA NotNone ==
  ASSUME NEW t \in Thread, NEW m, NEW ctx, NEW e, Saved(t, m, ctx, e)
  PROVE  ctx # NoCtx
<1>1. PICK top \in Int, s \in Nat : top = Kend(t) /\ s = S /\ top >= s
  BY Numbers DEF Kend
<1>2. ctx \in (top - s)..(top - 15)
  BY <1>1 DEF Saved, ContextWords
<1> QED
  BY <1>1, <1>2 DEF NoCtx

\* A new context is that of a thread about to start, and is where kcontext and
\* ucontext put it.
LEMMA Created ==
  ASSUME NEW t \in Thread, DOMAIN mem = Stacks, NEW ctx, ctx = Kend(t) - ContextWords,
         NEW n, NEW r,
         \/ t \in KThread /\ n = kcontext(mem, t, ctx) /\ r = kregs(t)
         \/ t \in UThread /\ n = ucontext(mem, t, ctx) /\ r = uregs(t)
  PROVE  /\ Saved(t, n, ctx, [r |-> r, words |-> <<>>])
         /\ Plain(t, [r |-> r, words |-> <<>>])
         /\ DOMAIN n = Stacks
         /\ \A a \in Stacks : a \notin Stack(t) => n[a] = mem[a]
<1>1. PICK top \in Int, s \in Nat : top = Kend(t) /\ s = S /\ s >= 28
  BY Numbers
<1>2. PICK b \in Int : b = ctx /\ b = top - 15
  BY <1>1 DEF ContextWords
<1>3. \A a \in b..(b + 14) : a \in Stack(t) /\ a \in Stacks
  BY <1>1, <1>2, StackIn
<1> DEFINE z == zeroed(mem, b)
           e == [r |-> r, words |-> <<>>]
<1>4. DOMAIN z = Stacks /\ \A a \in Stacks \ b..(b + 14) : z[a] = mem[a]
  <2> DEFINE k == [a \in b..(b + 14) |-> 0]
  <2>1. z = Over(k, mem)
    <3>1. b + ContextWords - 1 = b + 14
      BY DEF ContextWords
    <3> QED
      BY <3>1 DEF zeroed
  <2>2. DOMAIN k = b..(b + 14)
    OBVIOUS
  <2> HIDE DEF k, z
  <2>3. /\ DOMAIN Over(k, mem) = DOMAIN k \cup DOMAIN mem
        /\ \A a \in DOMAIN mem \ DOMAIN k : Over(k, mem)[a] = mem[a]
    BY ONLY Overlay
  <2>4. DOMAIN Over(k, mem) = Stacks
    BY <1>3, <2>2, <2>3
  <2> QED
    BY <2>1, <2>2, <2>3, <2>4
<1>5. DOMAIN r = Reg /\ Reg \subseteq DOMAIN off
  BY Registers DEF kregs, uregs, Reg
<1> HIDE DEF z
<1> DEFINE m == store(z, b, r)
<1>6. /\ DOMAIN m = Stacks
      /\ \A f \in Reg : m[b + off[f]] = r[f]
      /\ \A a \in Stacks \ b..(b + 14) : m[a] = mem[a]
  <2>1. DOMAIN r \subseteq DOMAIN off /\ b..(b + 14) \subseteq DOMAIN z
    BY <1>3, <1>4, <1>5
  <2>2. /\ DOMAIN store(z, b, r) = DOMAIN z
        /\ \A f \in DOMAIN r : store(z, b, r)[b + off[f]] = r[f]
        /\ \A a \in DOMAIN z \ b..(b + 14) : store(z, b, r)[a] = z[a]
    BY ONLY <2>1, Store, b \in Int
  <2> QED
    BY <1>4, <1>5, <2>2
<1> HIDE DEF m
<1>7. CASE t \in KThread /\ n = kcontext(mem, t, ctx) /\ r = kregs(t)
  <2>1. n = m
    BY <1>2, <1>7 DEF kcontext, m, z
  <2>2. /\ r.cs = KCODE /\ r.esp = top /\ r.eip = KStart /\ r.eax = Arg(t)
        /\ r.ebx = Entry(t) /\ r = [f \in Reg |-> r[f]]
    BY <1>1, <1>7 DEF kregs, blank, Reg
  <2>3. e.r = r /\ e.words = <<>> /\ t \notin UThread
    BY <1>7, Numbers
  <2> HIDE DEF e
  <2>4. [a \in top..(top - 1) |-> n[a]] = <<>>
    OBVIOUS
  <2>5. Saved(t, n, ctx, e)
    <3>1. ctx \in (Kend(t) - S)..(Kend(t) - ContextWords)
      BY <1>1, <1>2 DEF ContextWords
    <3>2. e.r.esp \in (ctx + ContextWords)..Kend(t)
      BY <1>1, <1>2, <2>2, <2>3 DEF ContextWords
    <3>3. e.words = [a \in e.r.esp..(Kend(t) - 1) |-> n[a]]
      BY <1>1, <2>2, <2>3, <2>4
    <3> QED
      BY <1>2, <1>6, <2>1, <2>3, <3>1, <3>2, <3>3 DEF Saved
  <2>6. Plain(t, e)
    <3>1. KStart # Entry(t)
      BY Numbers DEF KStart, Entry
    <3>2. e.r.esp \in (Kend(t) - (MaxWords + 2))..Kend(t)
      BY <1>1, <2>2, <2>3, Numbers
    <3> QED
      BY <1>1, <2>2, <2>3, <3>1, <3>2 DEF Plain
  <2> QED
    BY <1>3, <1>6, <2>1, <2>5, <2>6 DEF e
<1>8. CASE t \in UThread /\ n = ucontext(mem, t, ctx) /\ r = uregs(t)
  <2> DEFINE fs == [ss3 |-> UDATA, esp0 |-> Kend(t), cr3 |-> Space(t)]
  <2>1. n = store(m, b, fs)
    BY <1>2, <1>8 DEF ucontext, m, z
  <2>2. /\ DOMAIN fs = {"ss3", "esp0", "cr3"} /\ fs["esp0"] = Kend(t)
        /\ fs["cr3"] = Space(t)
    OBVIOUS
  <2> HIDE DEF fs
  <2>3. DOMAIN fs \subseteq DOMAIN off /\ b..(b + 14) \subseteq DOMAIN m
    BY <1>3, <1>6, <2>2, Offsets
  <2>4. /\ DOMAIN store(m, b, fs) = DOMAIN m
        /\ \A f \in DOMAIN fs : store(m, b, fs)[b + off[f]] = fs[f]
        /\ \A f \in DOMAIN off \ DOMAIN fs : store(m, b, fs)[b + off[f]] = m[b + off[f]]
        /\ \A a \in DOMAIN m \ b..(b + 14) : store(m, b, fs)[a] = m[a]
    BY ONLY <2>3, Store, b \in Int
  <2>5. \A f \in Reg : n[b + off[f]] = r[f]
    <3>1. \A f \in Reg : f \in DOMAIN off \ DOMAIN fs
      BY <2>2, Registers
    <3> QED
      BY <1>6, <2>1, <2>4, <3>1
  <2>6. n[b + off["cr3"]] = Space(t) /\ n[b + off["esp0"]] = Kend(t)
    BY <2>1, <2>2, <2>4
  <2>7. r.cs = UCODE /\ r.eip = Entry(t) /\ r = [f \in Reg |-> r[f]]
    BY <1>8 DEF uregs, blank, Reg
  <2>8. e.r = r /\ e.words = <<>> /\ t \notin KThread
    BY <1>8, Numbers
  <2> HIDE DEF e
  <2>9. Saved(t, n, ctx, e)
    <3>1. ctx \in (Kend(t) - S)..(Kend(t) - ContextWords)
      BY <1>1, <1>2 DEF ContextWords
    <3> QED
      BY <1>2, <2>5, <2>6, <2>7, <2>8, <3>1 DEF Saved
  <2>10. Plain(t, e)
    BY <2>7, <2>8 DEF Plain
  <2> QED
    BY <1>3, <1>6, <2>1, <2>4, <2>9, <2>10 DEF e
<1> QED
  BY <1>7, <1>8
-----------------------------------------------------------------------------
(***************************************************************************)
(* The inductive invariant.                                                *)
(***************************************************************************)
\* Stubs, code and entries are at different addresses.
LEMMA Addresses ==
  /\ \A v \in Soft \cup Line : v \in Nat /\ v < 200 /\ v > 0
  /\ \A v \in Soft : v \notin Line
  /\ 0 \notin Line
  /\ \A v, w \in Soft \cup Line : Stub(v) = Stub(w) => v = w
  /\ \A v \in Soft \cup Line : /\ Stub(v) \notin CodeAt /\ Stub(v) # KStart
                               /\ \A t \in Thread : Stub(v) # Entry(t)
  /\ \A v \in Seed : v \in 0..9 /\ v > 0 /\ Code(v) \in CodeAt /\ Code(v) # Code(0)
  /\ Code(0) \in CodeAt
  /\ \A t \in Thread : KStart # Entry(t) /\ Entry(t) \notin CodeAt
  /\ KStart \notin CodeAt
  /\ \A t, u \in Thread : Entry(t) = Entry(u) => t = u
<1>1. \A v \in Soft \cup Line : v \in Nat /\ v < 200 /\ v > 0
  BY CteAssumption
<1>2. (\A v \in Soft : v \notin Line) /\ 0 \notin Line
  BY CteAssumption
<1>3. \A v \in Seed : v \in 0..9 /\ v > 0
  BY CteAssumption
<1>4. \A a \in CodeAt : a \in 4000..4009
  BY DEF CodeAt, Code
<1>5. \A v \in 0..9 : Code(v) \in CodeAt
  BY DEF CodeAt
<1>6. \A t \in Thread : Entry(t) \in Nat /\ Entry(t) > 5000
  BY Numbers DEF Entry
<1>7. \A v \in Soft \cup Line : Stub(v) \in 3001..3199
  BY <1>1 DEF Stub
<1>8. \A v, w \in Soft \cup Line : Stub(v) = Stub(w) => v = w
  BY <1>1 DEF Stub
<1>9. \A v \in Seed : Code(v) # Code(0)
  BY <1>3 DEF Code
<1>10. \A t, u \in Thread : Entry(t) = Entry(u) => t = u
  BY Numbers DEF Entry
<1>11. \A v \in Soft \cup Line : /\ Stub(v) \notin CodeAt /\ Stub(v) # KStart
                                /\ \A t \in Thread : Stub(v) # Entry(t)
  <2> TAKE v \in Soft \cup Line
  <2>1. Stub(v) \notin CodeAt
    BY <1>4, <1>7
  <2>2. Stub(v) # KStart
    BY <1>7 DEF KStart
  <2>3. \A t \in Thread : Stub(v) # Entry(t)
    BY <1>6, <1>7
  <2> QED
    BY <2>1, <2>2, <2>3
<1>12. \A t \in Thread : KStart # Entry(t) /\ Entry(t) \notin CodeAt
  BY <1>4, <1>6 DEF KStart
<1>13. KStart \notin CodeAt
  BY <1>4 DEF KStart
<1> QED
  BY <1>1, <1>2, <1>3, <1>5, <1>8, <1>9, <1>10, <1>11, <1>12, <1>13

\* What a thread that goes on finds, and what is left of its history.
LEMMA LastOf ==
  ASSUME NEW t \in Thread, NEW h, History(t, h), h # <<>>
  PROVE  /\ Last(h).r = [f \in Reg |-> Last(h).r[f]]
         /\ Last(h).r.cs \in {KCODE, UCODE}
         /\ Last(h).r.cs = UCODE => Last(h).words = <<>>
         /\ History(t, Front(h)) /\ Len(h) \in {1, 2}
         /\ \/ Len(h) = 1 /\ Front(h) = <<>> /\ Plain(t, Last(h))
            \/ /\ Len(h) = 2 /\ Front(h) # <<>> /\ Len(Front(h)) = 1
               /\ Last(h).r.esp >= Kend(t) - (MaxWords + 6)
               /\ \E v \in Soft : Trapped(t, v, Last(Front(h)), Last(h))
<1>1. CASE h = <<h[1]>> /\ Plain(t, h[1])
  <2> DEFINE p == h[1]
  <2>1. h = <<p>> /\ Plain(t, p)
    BY <1>1
  <2> HIDE DEF p
  <2>2. /\ Front(<<p>>) = <<>> /\ Last(<<p>>) = p /\ Len(<<p>>) = 1
    BY One
  <2>3. Front(h) = <<>> /\ Last(h) = p /\ Len(h) = 1
    BY <2>1, <2>2
  <2>4. p.r = [f \in Reg |-> p.r[f]]
    BY <2>1 DEF Plain
  <2>5. p.r.cs \in {KCODE, UCODE} /\ (p.r.cs = UCODE => p.words = <<>>)
    BY <2>1, Numbers DEF Plain, KCODE, UCODE
  <2>6. History(t, Front(h))
    BY <2>3 DEF History
  <2> QED
    BY <2>1, <2>3, <2>4, <2>5, <2>6
<1>2. CASE /\ h = <<h[1], h[2]>> /\ Plain(t, h[1])
           /\ h[2].r.esp >= Kend(t) - (MaxWords + 6)
           /\ \E v \in Soft : Trapped(t, v, h[1], h[2])
  <2> DEFINE p == h[1]
             q == h[2]
  <2>1. /\ h = <<p, q>> /\ Plain(t, p) /\ q.r.esp >= Kend(t) - (MaxWords + 6)
        /\ \E v \in Soft : Trapped(t, v, p, q)
    BY <1>2
  <2> HIDE DEF p, q
  <2>2. Front(<<p, q>>) = <<p>> /\ Last(<<p, q>>) = q /\ Len(<<p, q>>) = 2
    BY Two
  <2>3. Last(<<p>>) = p /\ <<p>> # <<>> /\ Len(<<p>>) = 1 /\ <<p>>[1] = p
    BY One
  <2>4. /\ Front(h) = <<p>> /\ Last(h) = q /\ Len(h) = 2 /\ Last(Front(h)) = p
        /\ Front(h) # <<>> /\ Len(Front(h)) = 1
    BY <2>1, <2>2, <2>3
  <2>5. /\ q.r = [f \in Reg |-> q.r[f]] /\ q.r.cs = KCODE
    BY <2>1 DEF Trapped
  <2>6. KCODE # UCODE
    BY DEF KCODE, UCODE
  <2>7. History(t, Front(h))
    BY <2>1, <2>3, <2>4 DEF History
  <2> QED
    BY <2>1, <2>4, <2>5, <2>6, <2>7
<1> QED
  BY <1>1, <1>2 DEF History

\* A thread that is in its own code is not in a trap, and no interrupt is in
\* service.
LEMMA InCode ==
  ASSUME IInv, running \/ booting \/ cpu.eip = KStart
  PROVE  expect[current] = <<>> /\ Plain(current, Seen(current)) /\ isr = 0
<1>1. cpu.eip \in CodeAt \cup {KStart} \cup {Entry(t) : t \in Thread}
  BY Addresses DEF running, booting
<1>2. \A v \in Soft \cup Line : cpu.eip # Stub(v)
  BY <1>1, Addresses
<1>3. \A v, e : Trapped(current, v, e, Seen(current)) => cpu.eip = Stub(v)
  BY DEF Trapped, Seen
<1>4. expect[current] = <<>> /\ Plain(current, Seen(current))
  BY <1>2, <1>3 DEF IInv, Running
<1>5. isr = 0
  BY <1>2 DEF IInv, IrqAcknowledged, Shape
<1> QED
  BY <1>4, <1>5

\* Initially the boot thread is in its code and nothing waits.
LEMMA InitIInv == Init => IInv
<1> SUFFICES ASSUME Init PROVE IInv
  OBVIOUS
<1>1. /\ mem = [a \in Stacks |-> Junk]
      /\ cpu = [kregs(Boot) EXCEPT !.eip = Code(0), !.eflags = 0]
      /\ current = Boot /\ pool = [t \in Thread |-> NoCtx] /\ isr = 0
      /\ expect = [t \in Thread |-> <<>>]
  BY DEF Init, Stacks
<1>2. Boot \in Thread /\ Boot \notin UThread
  BY Numbers
<1>3. Shape
  BY <1>1, <1>2 DEF Shape
<1>4. \A t \in Thread : History(t, expect[t])
  BY <1>1 DEF History
<1>5. \A t \in Thread : Waiting(t)
  BY <1>1 DEF Waiting
<1>6. IrqAcknowledged
  BY <1>1 DEF IrqAcknowledged
<1>7. Plain(Boot, Seen(Boot))
  <2> DEFINE x == Seen(Boot)
  <2>1. x.r = cpu
    BY DEF Seen
  <2>2. /\ cpu = [f \in Reg |-> cpu[f]] /\ cpu.cs = KCODE /\ cpu.esp = Kend(Boot)
        /\ cpu.eip = Code(0)
    BY <1>1 DEF kregs, blank, Reg
  <2> HIDE DEF x
  <2>3. cpu.esp \in (Kend(Boot) - (MaxWords + 2))..Kend(Boot)
    BY <1>2, <2>2, Numbers
  <2>4. Code(0) \in CodeAt /\ Code(0) # KStart /\ Code(0) # Entry(Boot)
    BY <1>2, Addresses
  <2>5. Plain(Boot, x)
    BY <1>2, <2>1, <2>2, <2>3, <2>4 DEF Plain
  <2> QED
    BY <2>5 DEF x
<1>8. Running
  BY <1>1, <1>2, <1>7 DEF Running
<1> QED
  BY <1>3, <1>4, <1>5, <1>6, <1>8 DEF IInv

\* A thread that waits is not disturbed by what leaves its stack alone.
LEMMA WaitingKept ==
  ASSUME NEW t \in Thread, Waiting(t), pool'[t] = pool[t], expect'[t] = expect[t],
         \A a \in Stack(t) : mem'[a] = mem[a]
  PROVE  Waiting(t)'
<1>1. CASE pool[t] = NoCtx
  BY <1>1 DEF Waiting
<1>2. CASE pool[t] # NoCtx
  <2>1. Saved(t, mem, pool[t], Last(expect[t])) /\ expect[t] # <<>>
    BY <1>2 DEF Waiting
  <2>2. Saved(t, mem', pool[t], Last(expect[t]))
    BY <2>1, SavedKept
  <2> QED
    BY <1>2, <2>1, <2>2 DEF Waiting
<1> QED
  BY <1>1, <1>2

\* A step of the running thread in its own code.
LEMMA ThreadStep ==
  ASSUME IInv, expect[current] = <<>>, isr = 0,
         UNCHANGED <<cr3, esp0, current, pool, isr, expect>>,
         DOMAIN mem' = Stacks, \A a \in Stacks : a \notin Stack(current) => mem'[a] = mem[a],
         Plain(current, Seen(current)')
  PROVE  IInv'
<1>1. Shape'
  BY DEF IInv, Shape
<1>2. (\A t \in Thread : History(t, expect[t]))'
  BY DEF IInv
<1>3. Running'
  BY DEF Running
<1>4. (\A t \in Thread \ {current} : Waiting(t))'
  <2> SUFFICES ASSUME NEW t \in Thread \ {current} PROVE Waiting(t)'
    OBVIOUS
  <2>1. Waiting(t) /\ current \in Thread
    BY DEF IInv, Shape
  <2>2. \A a \in Stack(t) : mem'[a] = mem[a]
    BY <2>1, Apart, StackIn
  <2> QED
    BY <2>1, <2>2, WaitingKept
<1>5. IrqAcknowledged'
  BY DEF IrqAcknowledged
<1> QED
  BY <1>1, <1>2, <1>3, <1>4, <1>5 DEF IInv

\* The boot thread gives a new thread to the scheduler.
LEMMA Creation ==
  ASSUME IInv, NEW t \in Thread, t # Boot,
         (t \in KThread /\ Kcontext(t)) \/ (t \in UThread /\ Ucontext(t))
  PROVE  IInv'
<1>1. /\ booting /\ ~created(t) /\ UNCHANGED <<cpu, cr3, esp0, current, isr>>
  BY DEF Kcontext, Ucontext
<1>2. PICK ctx, r :
        /\ ctx = Kend(t) - ContextWords
        /\ \/ t \in KThread /\ mem' = kcontext(mem, t, ctx) /\ r = kregs(t)
           \/ t \in UThread /\ mem' = ucontext(mem, t, ctx) /\ r = uregs(t)
        /\ pool' = [pool EXCEPT ![t] = ctx]
        /\ expect' = [expect EXCEPT ![t] = <<[r |-> r, words |-> <<>>]>>]
  BY DEF Kcontext, Ucontext
<1>3. /\ current = Boot /\ DOMAIN mem = Stacks /\ Boot \in Thread /\ Boot \notin UThread
      /\ pool = [u \in Thread |-> pool[u]] /\ expect = [u \in Thread |-> expect[u]]
  BY <1>1, Numbers DEF booting, IInv, Shape
<1>4. expect[current] = <<>> /\ Plain(current, Seen(current)) /\ isr = 0
  BY <1>1, InCode
<1> DEFINE e == [r |-> r, words |-> <<>>]
<1>5. /\ Saved(t, mem', ctx, e) /\ Plain(t, e) /\ DOMAIN mem' = Stacks
      /\ \A a \in Stacks : a \notin Stack(t) => mem'[a] = mem[a]
  BY <1>2, <1>3, Created
<1> HIDE DEF e
<1>6. /\ pool'[t] = ctx /\ expect'[t] = <<e>>
      /\ \A u \in Thread : u # t => pool'[u] = pool[u] /\ expect'[u] = expect[u]
      /\ pool' = [u \in Thread |-> pool'[u]] /\ expect' = [u \in Thread |-> expect'[u]]
  BY <1>2, <1>3 DEF e
<1>7. Last(<<e>>) = e /\ <<e>> # <<>> /\ <<e>>[1] = e
  BY One
<1>8. Shape'
  BY <1>1, <1>3, <1>5, <1>6 DEF IInv, Shape
<1>9. (\A u \in Thread : History(u, expect[u]))'
  <2>1. History(t, <<e>>)
    BY <1>5, <1>7 DEF History
  <2> QED
    BY <1>6, <2>1 DEF IInv
<1>10. Seen(Boot)' = Seen(Boot)
  <2>1. cpu.cs = KCODE /\ cpu.esp \in (Kend(Boot) - (MaxWords + 2))..Kend(Boot)
    <3> DEFINE x == Seen(Boot)
    <3>1. Plain(Boot, x) /\ x.r = cpu
      BY <1>3, <1>4 DEF Seen
    <3> HIDE DEF x
    <3> QED
      BY <1>3, <3>1, Numbers DEF Plain
  <2>2. ~inUser(cpu)
    BY <2>1 DEF inUser, KCODE, UCODE
  <2>3. PICK sp \in Int, top \in Int, s \in Nat :
          sp = cpu.esp /\ top = Kend(Boot) /\ s = S /\ sp >= top - s
    BY <1>3, <2>1, Numbers
  <2>4. \A a \in sp..(top - 1) : a \in Stack(Boot)
    BY <1>3, <2>3, StackIn
  <2>5. \A a \in sp..(top - 1) : mem'[a] = mem[a]
    BY <1>3, <1>5, <2>4, Apart, StackIn
  <2>6. live(mem, Boot, cpu) = [a \in sp..(top - 1) |-> mem[a]]
    BY <2>2, <2>3 DEF live
  <2>7. live(mem', Boot, cpu) = [a \in sp..(top - 1) |-> mem'[a]]
    BY <2>2, <2>3 DEF live
  <2>8. live(mem', Boot, cpu) = live(mem, Boot, cpu)
    BY <2>5, <2>6, <2>7
  <2> QED
    BY <1>1, <2>8 DEF Seen
<1>11. Running'
  BY <1>1, <1>3, <1>4, <1>6, <1>10 DEF Running
<1>12. (\A u \in Thread \ {current} : Waiting(u))'
  <2> SUFFICES ASSUME NEW u \in Thread \ {current} PROVE Waiting(u)'
    BY <1>1
  <2>1. CASE u = t
    <3>1. ctx # NoCtx
      BY <1>5, NotNone
    <3> QED
      BY <1>5, <1>6, <1>7, <2>1, <3>1 DEF Waiting
  <2>2. CASE u # t
    <3>1. Waiting(u)
      BY DEF IInv
    <3>2. \A a \in Stack(u) : mem'[a] = mem[a]
      BY <1>5, <2>2, Apart, StackIn
    <3> QED
      BY <1>6, <2>2, <3>1, <3>2, WaitingKept
  <2> QED
    BY <2>1, <2>2
<1>13. IrqAcknowledged'
  BY <1>1 DEF IInv, IrqAcknowledged
<1> QED
  BY <1>8, <1>9, <1>11, <1>12, <1>13 DEF IInv

\* Words pushed on a stack go below its stack pointer and change nothing else.
LEMMA StackPush ==
  ASSUME DOMAIN mem = Stacks, NEW c \in Thread, NEW sp \in Int, NEW k \in 1..6,
         sp - k >= Kend(c) - S, sp <= Kend(c), NEW ws, Len(ws) = k,
         NEW st, st = pushAll(mem, sp, ws)
  PROVE  /\ st.sp = sp - k
         /\ DOMAIN st.m = Stacks
         /\ \A a \in Stacks : a \notin Stack(c) => st.m[a] = mem[a]
         /\ \A i \in 1..k : st.m[sp - i] = ws[i]
         /\ \A a \in sp..(Kend(c) - 1) : st.m[a] = mem[a]
<1>1. PICK top \in Int, s \in Nat : /\ top = Kend(c) /\ s = S
                                  /\ sp - k >= top - s /\ sp <= top
  BY Numbers
<1>2. \A a \in (sp - k)..(top - 1) : a \in Stack(c) /\ a \in Stacks
  BY <1>1, StackIn
<1> DEFINE n == [a \in (sp - k)..(sp - 1) |-> ws[sp - a]]
<1>3. st.sp = sp - k /\ st.m = Over(n, mem)
  BY DEF pushAll
<1>4. DOMAIN n = (sp - k)..(sp - 1) /\ \A i \in 1..k : n[sp - i] = ws[i]
  <2>1. \A i \in 1..k : sp - i \in (sp - k)..(sp - 1) /\ sp - (sp - i) = i
    OBVIOUS
  <2> QED
    BY <2>1
<1> HIDE DEF n
<1>5. /\ DOMAIN Over(n, mem) = DOMAIN n \cup DOMAIN mem
      /\ \A a \in DOMAIN n : Over(n, mem)[a] = n[a]
      /\ \A a \in DOMAIN mem \ DOMAIN n : Over(n, mem)[a] = mem[a]
  BY ONLY Overlay
<1>6. \A a \in DOMAIN n : a \in Stack(c) /\ a \in Stacks /\ a < sp
  BY <1>1, <1>2, <1>4
<1>7. DOMAIN Over(n, mem) = Stacks
  BY <1>5, <1>6
<1>8. \A a \in Stacks : a \notin Stack(c) => Over(n, mem)[a] = mem[a]
  BY <1>5, <1>6
<1>9. \A i \in 1..k : Over(n, mem)[sp - i] = ws[i]
  <2>1. \A i \in 1..k : sp - i \in DOMAIN n
    BY <1>4
  <2> QED
    BY <1>4, <1>5, <2>1
<1>10. \A a \in sp..(top - 1) : Over(n, mem)[a] = mem[a]
  <2>1. \A a \in sp..(top - 1) : a \in Stacks /\ a \notin DOMAIN n
    BY <1>2, <1>4
  <2> QED
    BY <1>5, <2>1
<1> QED
  BY <1>1, <1>3, <1>7, <1>8, <1>9, <1>10

\* What the registers of a thread in its own code are.
LEMMA OwnRegisters ==
  ASSUME NEW c \in Thread, Plain(c, Seen(c))
  PROVE  /\ cpu = [f \in Reg |-> cpu[f]]
         /\ c \in UThread => /\ cpu.cs = UCODE /\ inUser(cpu) /\ c \notin KThread
                             /\ cpu.eip \in CodeAt \cup {Entry(c)}
         /\ ~inUser(cpu) => c \in KThread
         /\ c \in KThread =>
              /\ cpu.cs = KCODE /\ ~inUser(cpu) /\ c \notin UThread
              /\ cpu.esp \in (Kend(c) - (MaxWords + 2))..Kend(c)
              /\ cpu.eip \in CodeAt \cup {KStart, Entry(c)}
              /\ cpu.eip = KStart => /\ cpu.esp = Kend(c)
                                     /\ cpu.eax = Arg(c) /\ cpu.ebx = Entry(c)
              /\ cpu.eip = Entry(c) => /\ cpu.esp <= Kend(c) - 2
                                       /\ mem[Kend(c) - 2] = PanicRet
                                       /\ mem[Kend(c) - 1] = Arg(c)
<1> DEFINE x == Seen(c)
<1>1. Plain(c, x) /\ x.r = cpu /\ x.words = live(mem, c, cpu)
  BY DEF Seen
<1> HIDE DEF x
<1>2. cpu = [f \in Reg |-> cpu[f]]
  BY <1>1 DEF Plain
<1>3. CASE c \in UThread
  BY <1>1, <1>2, <1>3, Numbers DEF Plain, inUser
<1>4. CASE c \in KThread
  <2>1. /\ cpu.cs = KCODE /\ c \notin UThread
        /\ cpu.esp \in (Kend(c) - (MaxWords + 2))..Kend(c)
        /\ cpu.eip \in CodeAt \cup {KStart, Entry(c)}
        /\ cpu.eip = KStart => /\ cpu.esp = Kend(c)
                               /\ cpu.eax = Arg(c) /\ cpu.ebx = Entry(c)
        /\ cpu.eip = Entry(c) => /\ cpu.esp <= Kend(c) - 2
                                 /\ x.words[Kend(c) - 2] = PanicRet
                                 /\ x.words[Kend(c) - 1] = Arg(c)
    BY <1>1, <1>4, Numbers DEF Plain
  <2>2. ~inUser(cpu)
    BY <2>1 DEF inUser, KCODE, UCODE
  <2>3. ASSUME cpu.eip = Entry(c)
        PROVE  mem[Kend(c) - 2] = PanicRet /\ mem[Kend(c) - 1] = Arg(c)
    <3>1. PICK sp \in Int, top \in Int : sp = cpu.esp /\ top = Kend(c) /\ sp <= top - 2
      BY <2>1, <2>3, Numbers
    <3>2. x.words = [a \in sp..(top - 1) |-> mem[a]]
      BY <1>1, <2>2, <3>1 DEF live
    <3>3. top - 2 \in sp..(top - 1) /\ top - 1 \in sp..(top - 1)
      BY <3>1
    <3> QED
      BY <2>1, <2>3, <3>1, <3>2, <3>3
  <2> QED
    BY <1>2, <1>4, <2>1, <2>2, <2>3
<1> QED
  BY <1>3, <1>4 DEF Thread

\* The first instructions of a kernel thread.
LEMMA StartStep ==
  ASSUME IInv, KcontextStart PROVE IInv'
<1>1. expect[current] = <<>> /\ Plain(current, Seen(current)) /\ isr = 0
  BY InCode DEF KcontextStart
<1>2. current \in Thread
  BY DEF IInv, Shape
<1> DEFINE c == current
           ws == <<cpu.eax, PanicRet>>
           st == pushAll(mem, cpu.esp, ws)
<1>3. /\ cpu.eip = KStart /\ mem' = st.m
      /\ cpu' = [cpu EXCEPT !.esp = st.sp, !.eip = cpu.ebx]
      /\ UNCHANGED <<cr3, esp0, current, pool, isr, expect>>
  BY DEF KcontextStart
<1>4. /\ c \in KThread /\ cpu = [f \in Reg |-> cpu[f]] /\ cpu.cs = KCODE
      /\ cpu.esp = Kend(c) /\ cpu.eax = Arg(c) /\ cpu.ebx = Entry(c)
  <2>1. c \in KThread
    BY <1>1, <1>2, <1>3, OwnRegisters, Addresses, Numbers
  <2> QED
    BY <1>1, <1>2, <1>3, <2>1, OwnRegisters
<1>5. Len(ws) = 2 /\ ws[1] = cpu.eax /\ ws[2] = PanicRet
  OBVIOUS
<1> HIDE DEF ws
<1>6. /\ st.sp = cpu.esp - 2
      /\ st.sp \in (Kend(c) - (MaxWords + 2))..Kend(c)
      /\ DOMAIN st.m = Stacks
      /\ \A a \in Stacks : a \notin Stack(c) => st.m[a] = mem[a]
      /\ \A i \in 1..2 : st.m[cpu.esp - i] = ws[i]
  <2>1. DOMAIN mem = Stacks
    BY DEF IInv, Shape
  <2>2. cpu.esp \in Int /\ cpu.esp - 2 >= Kend(c) - S /\ cpu.esp <= Kend(c) /\ 2 \in 1..6
    BY <1>2, <1>4, Numbers
  <2>3. /\ st.sp = cpu.esp - 2
        /\ DOMAIN st.m = Stacks
        /\ \A a \in Stacks : a \notin Stack(c) => st.m[a] = mem[a]
        /\ \A i \in 1..2 : st.m[cpu.esp - i] = ws[i]
    BY <1>2, <1>5, <2>1, <2>2, StackPush
  <2>4. st.sp \in (Kend(c) - (MaxWords + 2))..Kend(c)
    BY <1>2, <1>4, <2>3, Numbers
  <2> QED
    BY <2>3, <2>4
<1> HIDE DEF st
<1>7. /\ cpu' = [f \in Reg |-> cpu'[f]] /\ cpu'.cs = KCODE /\ cpu'.esp = Kend(c) - 2
      /\ cpu'.eip = Entry(c)
  BY <1>3, <1>4, <1>6, Registers
<1>8. mem'[Kend(c) - 2] = PanicRet /\ mem'[Kend(c) - 1] = Arg(c)
  BY <1>3, <1>4, <1>5, <1>6
<1>9. Plain(c, Seen(c)')
  <2> DEFINE y == Seen(c)'
  <2>1. y.r = cpu' /\ y.words = live(mem', c, cpu')
    BY <1>3 DEF Seen
  <2>2. y.words = [a \in (Kend(c) - 2)..(Kend(c) - 1) |-> mem'[a]]
    BY <1>7, <2>1 DEF live, inUser, KCODE, UCODE
  <2>3. y.words[Kend(c) - 2] = PanicRet /\ y.words[Kend(c) - 1] = Arg(c)
    BY <1>2, <1>8, <2>2, Numbers
  <2>4. c \notin UThread /\ Entry(c) # KStart /\ Kend(c) \in Int
    BY <1>2, <1>4, Numbers, Addresses
  <2>5. cpu'.esp \in (Kend(c) - (MaxWords + 2))..Kend(c) /\ cpu'.esp <= Kend(c) - 2
    BY <1>4, <1>6, <1>7, <2>4
  <2> HIDE DEF y
  <2>6. Plain(c, y)
    BY <1>7, <2>1, <2>3, <2>4, <2>5 DEF Plain
  <2> QED
    BY <2>6 DEF y
<1> QED
  BY <1>1, <1>3, <1>6, <1>9, ThreadStep

\* A step of a thread that keeps the words it has.
LEMMA ComputeStep ==
  ASSUME IInv, NEW v \in Seed, Compute(v) PROVE IInv'
<1>1. expect[current] = <<>> /\ Plain(current, Seen(current)) /\ isr = 0
  BY InCode DEF Compute
<1>2. current \in Thread /\ DOMAIN mem = Stacks
  BY DEF IInv, Shape
<1> DEFINE c == current
<1>3. UNCHANGED <<mem, cr3, esp0, current, pool, isr, expect>>
  BY DEF Compute
<1>4. DOMAIN cpu = Reg
  BY <1>1, <1>2, OwnRegisters
<1>5. \A i \in DOMAIN Gpr : Gpr[i] # "cs" /\ Gpr[i] # "esp" /\ Gpr[i] # "eip"
  BY DEF Gpr
<1>6. /\ cpu' = [f \in Reg |-> cpu'[f]] /\ cpu'.cs = cpu.cs /\ cpu'.esp = cpu.esp
      /\ cpu'.eip = Code(v)
  BY <1>4, <1>5, Registers DEF Compute
<1>7. Code(v) \in CodeAt /\ Code(v) # KStart /\ Code(v) # Entry(c)
  BY <1>2, Addresses
<1>8. Plain(c, Seen(c)')
  <2> DEFINE y == Seen(c)'
  <2>1. y.r = cpu' /\ y.words = live(mem', c, cpu')
    BY <1>3 DEF Seen
  <2> HIDE DEF y
  <2>2. ASSUME c \in UThread PROVE Plain(c, y)
    <3>1. cpu.cs = UCODE /\ c \notin KThread
      BY <1>1, <1>2, <2>2, OwnRegisters
    <3>2. y.words = <<>>
      BY <1>6, <2>1, <3>1 DEF live, inUser
    <3> QED
      BY <1>6, <1>7, <2>1, <3>1, <3>2 DEF Plain
  <2>3. ASSUME c \in KThread PROVE Plain(c, y)
    <3>1. /\ cpu.cs = KCODE /\ c \notin UThread
          /\ cpu.esp \in (Kend(c) - (MaxWords + 2))..Kend(c)
      BY <1>1, <1>2, <2>3, OwnRegisters
    <3> QED
      BY <1>6, <1>7, <2>1, <3>1 DEF Plain
  <2>4. Plain(c, y)
    BY <1>2, <2>2, <2>3 DEF Thread
  <2> QED
    BY <2>4 DEF y
<1> QED
  BY <1>1, <1>2, <1>3, <1>8, ThreadStep

\* iset changes eflags alone.
LEMMA IsetStep ==
  ASSUME IInv, NEW enable, Iset(enable) PROVE IInv'
<1>1. expect[current] = <<>> /\ Plain(current, Seen(current)) /\ isr = 0
  BY InCode DEF Iset, booted
<1>2. current \in Thread /\ DOMAIN mem = Stacks
  BY DEF IInv, Shape
<1> DEFINE c == current
<1>3. /\ cpu' = [cpu EXCEPT !.eflags = enable]
      /\ UNCHANGED <<mem, cr3, esp0, current, pool, isr, expect>>
  BY DEF Iset
<1>4. cpu = [f \in Reg |-> cpu[f]]
  BY <1>1, <1>2, OwnRegisters
<1>5. /\ cpu' = [f \in Reg |-> cpu'[f]]
      /\ \A f \in Reg : f # "eflags" => cpu'[f] = cpu[f]
  BY <1>3, <1>4
<1>6. /\ cpu'.cs = cpu.cs /\ cpu'.esp = cpu.esp /\ cpu'.eip = cpu.eip
      /\ cpu'.eax = cpu.eax /\ cpu'.ebx = cpu.ebx
  BY <1>5, Registers
<1>7. Plain(c, Seen(c)')
  <2> DEFINE x == Seen(c)
             y == Seen(c)'
  <2>1. y.r = cpu' /\ y.words = live(mem', c, cpu')
    BY <1>3 DEF Seen
  <2>2. x.r = cpu /\ x.words = live(mem, c, cpu) /\ Plain(c, x)
    BY <1>1 DEF Seen
  <2> HIDE DEF x, y
  <2>3. live(mem', c, cpu') = live(mem, c, cpu)
    BY <1>3, <1>6 DEF live, inUser
  <2>4. Plain(c, y)
    BY ONLY <1>5, <1>6, <2>1, <2>2, <2>3 DEF Plain
  <2> QED
    BY <2>4 DEF y
<1> QED
  BY <1>1, <1>2, <1>3, <1>7, ThreadStep

\* A word pushed by a kernel thread leaves its other words where they are.
LEMMA PushStep ==
  ASSUME IInv, NEW v \in Seed, PushWord(v) PROVE IInv'
<1>1. expect[current] = <<>> /\ Plain(current, Seen(current)) /\ isr = 0
  BY InCode DEF PushWord
<1>2. current \in Thread /\ DOMAIN mem = Stacks
  BY DEF IInv, Shape
<1> DEFINE c == current
           ws == <<v>>
           st == pushAll(mem, cpu.esp, ws)
<1>3. /\ running /\ ~inUser(cpu) /\ cpu.esp > Kend(c) - MaxWords
      /\ mem' = st.m /\ cpu' = [cpu EXCEPT !.esp = st.sp]
      /\ UNCHANGED <<cr3, esp0, current, pool, isr, expect>>
  BY DEF PushWord
<1>4. /\ c \in KThread /\ c \notin UThread /\ cpu = [f \in Reg |-> cpu[f]]
      /\ cpu.cs = KCODE /\ cpu.esp \in (Kend(c) - (MaxWords + 2))..Kend(c)
      /\ cpu.eip \in CodeAt \cup {KStart, Entry(c)}
      /\ cpu.eip = Entry(c) => /\ cpu.esp <= Kend(c) - 2
                               /\ mem[Kend(c) - 2] = PanicRet
                               /\ mem[Kend(c) - 1] = Arg(c)
  BY <1>1, <1>2, <1>3, OwnRegisters
<1>5. Len(ws) = 1
  OBVIOUS
<1> HIDE DEF ws
<1>6. PICK sp \in Int, top \in Int, w \in Nat, s \in Nat :
        /\ sp = cpu.esp /\ top = Kend(c) /\ w = MaxWords /\ s = S
        /\ sp > top - w /\ sp <= top /\ s >= 28 + w
  <2>1. Kend(c) \in Int /\ MaxWords \in Nat /\ S \in Nat /\ S >= 28 + MaxWords
    BY <1>2, Numbers
  <2>2. cpu.esp \in Int /\ cpu.esp <= Kend(c) /\ cpu.esp > Kend(c) - MaxWords
    BY <1>3, <1>4, <2>1
  <2> QED
    BY ONLY <2>1, <2>2
<1>7. /\ st.sp = sp - 1
      /\ DOMAIN st.m = Stacks
      /\ \A a \in Stacks : a \notin Stack(c) => st.m[a] = mem[a]
      /\ \A a \in sp..(top - 1) : st.m[a] = mem[a]
  <2>1. sp - 1 >= Kend(c) - S /\ sp <= Kend(c) /\ 1 \in 1..6
    BY <1>6
  <2>2. st = pushAll(mem, sp, ws)
    BY <1>6
  <2> HIDE DEF st
  <2>3. /\ st.sp = sp - 1
        /\ DOMAIN st.m = Stacks
        /\ \A a \in Stacks : a \notin Stack(c) => st.m[a] = mem[a]
        /\ \A a \in sp..(Kend(c) - 1) : st.m[a] = mem[a]
    BY <1>2, <1>5, <2>1, <2>2, StackPush
  <2> QED
    BY <1>6, <2>3
<1> HIDE DEF st
<1>8. /\ cpu' = [f \in Reg |-> cpu'[f]] /\ cpu'.cs = KCODE /\ cpu'.esp = sp - 1
      /\ cpu'.eip = cpu.eip
  BY <1>3, <1>4, <1>7, Registers
<1>9. cpu.eip # KStart
  BY <1>3, Addresses DEF running
<1>10. Plain(c, Seen(c)')
  <2> DEFINE y == Seen(c)'
  <2>1. y.r = cpu' /\ y.words = live(mem', c, cpu')
    BY <1>3 DEF Seen
  <2>2. y.words = [a \in (sp - 1)..(top - 1) |-> mem'[a]]
    BY <1>6, <1>8, <2>1 DEF live, inUser, KCODE, UCODE
  <2> HIDE DEF y
  <2>3. ASSUME cpu.eip = Entry(c)
        PROVE  /\ sp - 1 <= top - 2 /\ y.words[top - 2] = PanicRet
               /\ y.words[top - 1] = Arg(c)
    <3>1. sp <= top - 2 /\ mem[top - 2] = PanicRet /\ mem[top - 1] = Arg(c)
      BY <1>4, <1>6, <2>3
    <3>2. top - 2 \in sp..(top - 1) /\ top - 1 \in sp..(top - 1)
      BY <3>1
    <3>3. mem'[top - 2] = PanicRet /\ mem'[top - 1] = Arg(c)
      BY <1>3, <1>7, <3>1, <3>2
    <3>4. top - 2 \in (sp - 1)..(top - 1) /\ top - 1 \in (sp - 1)..(top - 1)
      BY <3>1
    <3> QED
      BY <2>2, <3>1, <3>3, <3>4
  <2>4. sp - 1 \in (Kend(c) - (MaxWords + 2))..Kend(c)
    BY <1>6
  <2>5. Plain(c, y)
    BY <1>4, <1>6, <1>8, <1>9, <2>1, <2>3, <2>4 DEF Plain
  <2> QED
    BY <2>5 DEF y
<1> QED
  BY <1>1, <1>3, <1>7, <1>10, ThreadStep

\* The history a trap leaves behind; a stub is interrupted only when it is
\* that of a software trap, and then it runs in kernel mode.
LEMMA Recorded ==
  ASSUME IInv, isr = 0, NEW h, h = Append(expect[current], Seen(current))
  PROVE  /\ History(current, h) /\ h # <<>> /\ Last(h) = Seen(current)
         /\ cpu = [f \in Reg |-> cpu[f]]
         /\ Seen(current).r = cpu /\ Seen(current).words = live(mem, current, cpu)
         /\ inUser(cpu) => current \in UThread
         /\ ~inUser(cpu) =>
              cpu.cs = KCODE /\ cpu.esp \in (Kend(current) - (MaxWords + 6))..Kend(current)
         /\ \/ Len(h) = 1 /\ expect[current] = <<>> /\ Plain(current, Seen(current))
            \/ Len(h) = 2 /\ expect[current] # <<>> /\ ~inUser(cpu)
<1> DEFINE c == current
           e == Seen(c)
<1>1. c \in Thread /\ History(c, expect[c])
  BY DEF IInv, Shape
<1>2. e.r = cpu /\ e.words = live(mem, c, cpu)
  BY DEF Seen
<1>3. CASE expect[c] = <<>> /\ Plain(c, e)
  <2> HIDE DEF e
  <2>1. h = <<e>>
    BY <1>3, AppendNone DEF e
  <2>2. Last(<<e>>) = e /\ <<e>> # <<>> /\ Len(<<e>>) = 1 /\ <<e>>[1] = e
    BY One
  <2>3. h = <<h[1]>> /\ h[1] = e /\ Last(h) = e /\ h # <<>> /\ Len(h) = 1
    BY <2>1, <2>2
  <2>4. History(c, h)
    BY <1>3, <2>3 DEF History
  <2>5. /\ cpu = [f \in Reg |-> cpu[f]]
        /\ inUser(cpu) => c \in UThread
        /\ ~inUser(cpu) =>
             cpu.cs = KCODE /\ cpu.esp \in (Kend(c) - (MaxWords + 2))..Kend(c)
    BY <1>1, <1>3, OwnRegisters DEF e, Thread
  <2>6. cpu.esp \in (Kend(c) - (MaxWords + 2))..Kend(c) =>
          cpu.esp \in (Kend(c) - (MaxWords + 6))..Kend(c)
    BY <1>1, Numbers
  <2> QED
    BY <1>2, <1>3, <2>3, <2>4, <2>5, <2>6 DEF e
<1>4. CASE expect[c] # <<>>
  <2>1. PICK w \in Soft \cup Line :
          /\ Trapped(c, w, Last(expect[c]), e)
          /\ w \in Line => isr = w
          /\ Len(expect[c]) = 2 => w \in Line
          /\ Len(expect[c]) = 1 => cpu.esp >= Kend(c) - (MaxWords + 6)
    BY <1>4 DEF IInv, Running
  <2>2. w \in Soft /\ w \notin Line
    BY <2>1, Addresses
  <2>3. Len(expect[c]) = 1 /\ expect[c] = <<expect[c][1]>> /\ Plain(c, expect[c][1])
    <3>1. expect[c] = <<expect[c][1], expect[c][2]>> => Len(expect[c]) = 2
      BY Two
    <3>2. expect[c] = <<expect[c][1]>> /\ Plain(c, expect[c][1])
      BY <1>1, <1>4, <2>1, <2>2, <3>1 DEF History
    <3> QED
      BY <3>2, One
  <2> DEFINE p == expect[c][1]
  <2>4. expect[c] = <<p>> /\ Plain(c, p)
    BY <2>3
  <2> HIDE DEF p, e
  <2>5. h = <<p, e>>
    BY <2>4, AppendOne DEF e
  <2>6. /\ Last(<<p, e>>) = e /\ <<p, e>> # <<>> /\ Len(<<p, e>>) = 2
        /\ <<p, e>>[1] = p /\ <<p, e>>[2] = e
    BY Two
  <2>7. /\ h = <<h[1], h[2]>> /\ h[1] = p /\ h[2] = e /\ Last(h) = e /\ h # <<>>
        /\ Len(h) = 2
    BY <2>5, <2>6
  <2>8. Last(expect[c]) = p
    BY <2>4, One
  <2>9. /\ cpu = [f \in Reg |-> cpu[f]] /\ cpu.cs = KCODE
        /\ cpu.esp \in (Kend(c) - (MaxWords + 9))..(Kend(c) - 3)
    BY <1>2, <2>1 DEF Trapped
  <2>10. cpu.esp \in (Kend(c) - (MaxWords + 6))..Kend(c)
    <3>1. Kend(c) \in Int /\ MaxWords \in Nat
      BY <1>1, Numbers
    <3>2. cpu.esp >= Kend(c) - (MaxWords + 6)
      BY <2>1, <2>3
    <3> QED
      BY ONLY <2>9, <3>1, <3>2
  <2>11. ~inUser(cpu)
    BY <2>9 DEF inUser, KCODE, UCODE
  <2>12. History(c, h)
    BY <1>2, <2>1, <2>2, <2>3, <2>4, <2>7, <2>8 DEF History
  <2> QED
    BY <1>2, <1>4, <2>7, <2>9, <2>10, <2>11, <2>12 DEF e
<1> QED
  BY <1>3, <1>4 DEF IInv, Running

\* A trap from user mode starts on the thread's own, empty kernel stack.
LEMMA EnterFromUser ==
  ASSUME NEW c \in Thread, c = current, DOMAIN mem = Stacks, NEW v, Enter(v),
         cpu = [f \in Reg |-> cpu[f]], inUser(cpu), esp0 = Kend(c),
         NEW e, e = Seen(c)
  PROVE  /\ DOMAIN mem' = Stacks
         /\ \A a \in Stacks : a \notin Stack(c) => mem'[a] = mem[a]
         /\ Trapped(c, v, e, Seen(c)') /\ cpu'.esp >= Kend(c) - (MaxWords + 6)
         /\ cpu'.eip = Stub(v)
<1>1. PICK top \in Int, w \in Nat, s \in Nat :
        top = Kend(c) /\ w = MaxWords /\ s = S /\ s >= 28 + w
  BY Numbers
<1> DEFINE ws == (IF inUser(cpu) THEN <<UDATA, cpu.esp>> ELSE <<>>)
                 \o <<cpu.eflags, cpu.cs, cpu.eip>>
                 \o (IF HasError(v) THEN <<Junk>> ELSE <<>>)
           st == pushAll(mem, top, ws)
<1>2. /\ mem' = st.m
      /\ cpu' = [cpu EXCEPT !.esp = st.sp, !.cs = KCODE, !.eip = Stub(v)]
  BY <1>1 DEF Enter
<1>3. PICK k \in 5..6 : k = (IF HasError(v) THEN 6 ELSE 5)
  OBVIOUS
<1>4. /\ Len(ws) = k /\ ws[2] = cpu.esp /\ ws[3] = cpu.eflags /\ ws[4] = cpu.cs
      /\ ws[5] = cpu.eip
  <2>1. CASE HasError(v)
    <3>1. ws = <<UDATA, cpu.esp>> \o <<cpu.eflags, cpu.cs, cpu.eip>> \o <<Junk>>
      BY <2>1
    <3> HIDE DEF ws
    <3> QED
      BY <1>3, <2>1, <3>1
  <2>2. CASE ~HasError(v)
    <3>1. ws = <<UDATA, cpu.esp>> \o <<cpu.eflags, cpu.cs, cpu.eip>> \o <<>>
      BY <2>2
    <3> HIDE DEF ws
    <3> QED
      BY <1>3, <2>2, <3>1
  <2> QED
    BY <2>1, <2>2
<1> HIDE DEF ws
<1>5. /\ st.sp = top - k /\ DOMAIN st.m = Stacks
      /\ \A a \in Stacks : a \notin Stack(c) => st.m[a] = mem[a]
      /\ \A i \in 1..k : st.m[top - i] = ws[i]
      /\ \A a \in top..(Kend(c) - 1) : st.m[a] = mem[a]
  <2>1. st = pushAll(mem, top, ws) /\ DOMAIN mem = Stacks /\ c \in Thread
    OBVIOUS
  <2> HIDE DEF st
  <2>2. ASSUME k = 6
        PROVE  /\ st.sp = top - k /\ DOMAIN st.m = Stacks
               /\ \A a \in Stacks : a \notin Stack(c) => st.m[a] = mem[a]
               /\ \A i \in 1..k : st.m[top - i] = ws[i]
               /\ \A a \in top..(Kend(c) - 1) : st.m[a] = mem[a]
    <3>1. top - 6 >= Kend(c) - S /\ top <= Kend(c) /\ 6 \in 1..6 /\ Len(ws) = 6
      BY <1>1, <1>4, <2>2
    <3>2. /\ st.sp = top - 6 /\ DOMAIN st.m = Stacks
          /\ \A a \in Stacks : a \notin Stack(c) => st.m[a] = mem[a]
          /\ \A i \in 1..6 : st.m[top - i] = ws[i]
          /\ \A a \in top..(Kend(c) - 1) : st.m[a] = mem[a]
      BY ONLY <2>1, <3>1, StackPush, top \in Int
    <3> QED
      BY <2>2, <3>2
  <2>3. ASSUME k = 5
        PROVE  /\ st.sp = top - k /\ DOMAIN st.m = Stacks
               /\ \A a \in Stacks : a \notin Stack(c) => st.m[a] = mem[a]
               /\ \A i \in 1..k : st.m[top - i] = ws[i]
               /\ \A a \in top..(Kend(c) - 1) : st.m[a] = mem[a]
    <3>1. top - 5 >= Kend(c) - S /\ top <= Kend(c) /\ 5 \in 1..6 /\ Len(ws) = 5
      BY <1>1, <1>4, <2>3
    <3>2. /\ st.sp = top - 5 /\ DOMAIN st.m = Stacks
          /\ \A a \in Stacks : a \notin Stack(c) => st.m[a] = mem[a]
          /\ \A i \in 1..5 : st.m[top - i] = ws[i]
          /\ \A a \in top..(Kend(c) - 1) : st.m[a] = mem[a]
      BY ONLY <2>1, <3>1, StackPush, top \in Int
    <3> QED
      BY <2>3, <3>2
  <2> QED
    BY <1>3, <2>2, <2>3
<1> HIDE DEF st
<1>6. /\ mem'[top - 2] = cpu.esp /\ mem'[top - 3] = cpu.eflags
      /\ mem'[top - 4] = cpu.cs /\ mem'[top - 5] = cpu.eip
  <2>1. 2 \in 1..k /\ 3 \in 1..k /\ 4 \in 1..k /\ 5 \in 1..k
    BY <1>3
  <2> QED
    BY ONLY <1>2, <1>4, <1>5, <2>1
<1>7. /\ cpu' = [f \in Reg |-> cpu'[f]] /\ cpu'.esp = top - k /\ cpu'.cs = KCODE
      /\ cpu'.eip = Stub(v) /\ \A f \in Kept : cpu'[f] = cpu[f]
  BY <1>2, <1>5, Registers
<1> DEFINE y == Seen(c)'
<1>8. /\ y.r = cpu' /\ y.words = live(mem', c, cpu')
  BY DEF Seen, Enter
<1>9. e.r = cpu /\ e.r.cs = UCODE
  BY DEF Seen, inUser
<1> HIDE DEF y
<1>10. y.words = [a \in (top - k)..(top - 1) |-> mem'[a]]
  BY <1>1, <1>7, <1>8 DEF live, inUser, KCODE, UCODE
<1>11. Pushed(v, cpu'.esp) = top - 5
  <2>1. CASE HasError(v)
    BY <1>3, <1>7, <2>1 DEF Pushed
  <2>2. CASE ~HasError(v)
    BY <1>3, <1>7, <2>2 DEF Pushed
  <2> QED
    BY <2>1, <2>2
<1>12. /\ y.words[top - 2] = cpu.esp /\ y.words[top - 3] = cpu.eflags
       /\ y.words[top - 4] = cpu.cs /\ y.words[top - 5] = cpu.eip
  <2>1. \A i \in 2..5 : top - i \in (top - k)..(top - 1)
    BY <1>3
  <2>2. \A i \in 2..5 : y.words[top - i] = mem'[top - i]
    BY ONLY <1>10, <2>1
  <2> QED
    BY ONLY <1>6, <2>2
<1>13. cpu'.esp \in (Kend(c) - (MaxWords + 9))..(Kend(c) - 3)
  BY <1>1, <1>3, <1>7
<1>14. /\ (top - 5) + 1 = top - 4 /\ (top - 5) + 2 = top - 3 /\ (top - 5) + 3 = top - 2
       /\ (top - 5) + 5 = top
  OBVIOUS
<1>15. Trapped(c, v, e, y)
  BY ONLY <1>1, <1>7, <1>8, <1>9, <1>11, <1>12, <1>13, <1>14 DEF Trapped
<1>16. cpu'.esp >= Kend(c) - (MaxWords + 6)
  BY <1>1, <1>3, <1>7
<1> QED
  BY <1>2, <1>5, <1>7, <1>15, <1>16 DEF y

\* A trap from kernel mode goes on with the stack it finds.
LEMMA EnterFromKernel ==
  ASSUME NEW c \in Thread, c = current, DOMAIN mem = Stacks, NEW v, Enter(v),
         cpu = [f \in Reg |-> cpu[f]], cpu.cs = KCODE, ~HasError(v),
         cpu.esp \in (Kend(c) - (MaxWords + 6))..Kend(c),
         NEW e, e = Seen(c)
  PROVE  /\ DOMAIN mem' = Stacks
         /\ \A a \in Stacks : a \notin Stack(c) => mem'[a] = mem[a]
         /\ Trapped(c, v, e, Seen(c)') /\ cpu'.esp = cpu.esp - 3
         /\ cpu'.eip = Stub(v)
<1>1. PICK top \in Int, w \in Nat, s \in Nat, sp \in Int :
        /\ top = Kend(c) /\ w = MaxWords /\ s = S /\ s >= 28 + w
        /\ sp = cpu.esp /\ sp >= top - (w + 6) /\ sp <= top
  <2>1. Kend(c) \in Int /\ MaxWords \in Nat /\ S \in Nat /\ S >= 28 + MaxWords
    BY Numbers
  <2>2. cpu.esp \in Int /\ cpu.esp >= Kend(c) - (MaxWords + 6) /\ cpu.esp <= Kend(c)
    BY <2>1
  <2> QED
    BY ONLY <2>1, <2>2
<1>2. ~inUser(cpu)
  BY DEF inUser, KCODE, UCODE
<1> DEFINE ws == (IF inUser(cpu) THEN <<UDATA, cpu.esp>> ELSE <<>>)
                 \o <<cpu.eflags, cpu.cs, cpu.eip>>
                 \o (IF HasError(v) THEN <<Junk>> ELSE <<>>)
           st == pushAll(mem, sp, ws)
<1>3. /\ mem' = st.m
      /\ cpu' = [cpu EXCEPT !.esp = st.sp, !.cs = KCODE, !.eip = Stub(v)]
  BY <1>1, <1>2 DEF Enter
<1>4. Len(ws) = 3 /\ ws[1] = cpu.eflags /\ ws[2] = cpu.cs /\ ws[3] = cpu.eip
  <2>1. ws = <<>> \o <<cpu.eflags, cpu.cs, cpu.eip>> \o <<>>
    BY <1>2
  <2> HIDE DEF ws
  <2> QED
    BY ONLY <2>1
<1> HIDE DEF ws
<1>5. /\ st.sp = sp - 3 /\ DOMAIN st.m = Stacks
      /\ \A a \in Stacks : a \notin Stack(c) => st.m[a] = mem[a]
      /\ \A i \in 1..3 : st.m[sp - i] = ws[i]
      /\ \A a \in sp..(Kend(c) - 1) : st.m[a] = mem[a]
  <2>1. sp - 3 >= Kend(c) - S /\ sp <= Kend(c) /\ 3 \in 1..6
    BY <1>1
  <2>2. st = pushAll(mem, sp, ws)
    OBVIOUS
  <2> HIDE DEF st
  <2>3. DOMAIN mem = Stacks /\ c \in Thread /\ Len(ws) = 3
    BY <1>4
  <2> QED
    BY ONLY <2>1, <2>2, <2>3, StackPush, sp \in Int
<1> HIDE DEF st
<1>6. mem'[sp - 1] = cpu.eflags /\ mem'[sp - 2] = cpu.cs /\ mem'[sp - 3] = cpu.eip
  BY ONLY <1>3, <1>4, <1>5
<1>7. /\ cpu' = [f \in Reg |-> cpu'[f]] /\ cpu'.esp = sp - 3 /\ cpu'.cs = KCODE
      /\ cpu'.eip = Stub(v) /\ \A f \in Kept : cpu'[f] = cpu[f]
  BY <1>3, <1>5, Registers
<1> DEFINE y == Seen(c)'
<1>8. /\ y.r = cpu' /\ y.words = live(mem', c, cpu')
  BY DEF Seen, Enter
<1>9. e.r = cpu /\ e.r.cs # UCODE /\ e.words = [a \in sp..(top - 1) |-> mem[a]]
  BY <1>1, <1>2 DEF Seen, inUser, live
<1> HIDE DEF y
<1>10. y.words = [a \in (sp - 3)..(top - 1) |-> mem'[a]]
  BY <1>1, <1>7, <1>8 DEF live, inUser, KCODE, UCODE
<1>11. Pushed(v, cpu'.esp) = sp - 3
  BY <1>7 DEF Pushed
<1>12. /\ y.words[sp - 1] = cpu.eflags /\ y.words[sp - 2] = cpu.cs
       /\ y.words[sp - 3] = cpu.eip
  <2>1. \A i \in 1..3 : sp - i \in (sp - 3)..(top - 1)
    BY <1>1
  <2>2. \A i \in 1..3 : y.words[sp - i] = mem'[sp - i]
    BY ONLY <1>10, <2>1
  <2> QED
    BY ONLY <1>6, <2>2
<1>13. e.words = [a \in sp..(top - 1) |-> y.words[a]]
  <2>1. \A a \in sp..(top - 1) : a \in (sp - 3)..(top - 1)
    BY <1>1
  <2>2. \A a \in sp..(top - 1) : mem'[a] = mem[a]
    BY ONLY <1>1, <1>3, <1>5
  <2>3. \A a \in sp..(top - 1) : y.words[a] = mem[a]
    BY ONLY <1>10, <2>1, <2>2
  <2> QED
    BY <1>9, <2>3
<1>14. cpu'.esp \in (Kend(c) - (MaxWords + 9))..(Kend(c) - 3)
  BY <1>1, <1>7
<1>15. (sp - 3) + 1 = sp - 2 /\ (sp - 3) + 2 = sp - 1 /\ (sp - 3) + 3 = sp
  OBVIOUS
<1>16. Trapped(c, v, e, y)
  <2>1. ~HasError(v)
    OBVIOUS
  <2> QED
    BY ONLY <1>1, <1>7, <1>8, <1>9, <1>11, <1>12, <1>13, <1>14, <1>15, <2>1,
            ZenonT(60) DEF Trapped
<1> QED
  BY <1>1, <1>3, <1>5, <1>7, <1>16 DEF y

\* The processor enters a gate: from user mode, from kernel code, or from the
\* stub of a software trap.
LEMMA EnterStep ==
  ASSUME IInv, NEW v \in Soft \cup Line, Enter(v), isr = 0,
         isr' = IF v \in Line THEN v ELSE 0,
         HasError(v) => inUser(cpu), v \in Line \/ expect[current] = <<>>
  PROVE  /\ IInv'
         /\ current' = current
         /\ ~ Len(expect'[current]) < Len(expect[current])
<1> SUFFICES ASSUME NEW c, c = current
             PROVE  IInv' /\ current' = c /\ ~ Len(expect'[c]) < Len(expect[c])
  OBVIOUS
<1>1. /\ c \in Thread /\ DOMAIN mem = Stacks
      /\ expect = [t \in Thread |-> expect[t]]
      /\ c \in UThread => esp0 = Kend(c)
  BY DEF IInv, Shape
<1>2. PICK h : h = Append(expect[c], Seen(c))
  OBVIOUS
<1>3. /\ History(c, h) /\ h # <<>> /\ Last(h) = Seen(c)
      /\ cpu = [f \in Reg |-> cpu[f]]
      /\ inUser(cpu) => c \in UThread
      /\ ~inUser(cpu) =>
           cpu.cs = KCODE /\ cpu.esp \in (Kend(c) - (MaxWords + 6))..Kend(c)
      /\ \/ Len(h) = 1 /\ expect[c] = <<>> /\ Plain(c, Seen(c))
         \/ Len(h) = 2 /\ expect[c] # <<>> /\ ~inUser(cpu)
  BY <1>2, Recorded
<1>4. expect' = [expect EXCEPT ![c] = h] /\ UNCHANGED <<cr3, esp0, current, pool>>
  BY <1>2 DEF Enter, Seen
<1>5. /\ expect'[c] = h /\ \A t \in Thread : t # c => expect'[t] = expect[t]
      /\ expect' = [t \in Thread |-> expect'[t]]
  BY <1>1, <1>4
<1>6. /\ DOMAIN mem' = Stacks
      /\ \A a \in Stacks : a \notin Stack(c) => mem'[a] = mem[a]
      /\ Trapped(c, v, Seen(c), Seen(c)') /\ cpu'.eip = Stub(v)
      /\ Len(h) = 1 => cpu'.esp >= Kend(c) - (MaxWords + 6)
  <2>1. CASE inUser(cpu)
    BY <1>1, <1>3, <2>1, EnterFromUser
  <2>2. CASE ~inUser(cpu)
    <3>1. /\ DOMAIN mem' = Stacks
          /\ \A a \in Stacks : a \notin Stack(c) => mem'[a] = mem[a]
          /\ Trapped(c, v, Seen(c), Seen(c)') /\ cpu'.eip = Stub(v)
          /\ cpu'.esp = cpu.esp - 3
      BY <1>1, <1>3, <2>2, EnterFromKernel
    <3>2. ASSUME Len(h) = 1 PROVE cpu'.esp >= Kend(c) - (MaxWords + 6)
      <4>1. Plain(c, Seen(c))
        BY <1>3, <3>2
      <4>2. cpu.esp \in (Kend(c) - (MaxWords + 2))..Kend(c)
        BY <1>1, <2>2, <4>1, OwnRegisters
      <4>3. Kend(c) \in Int /\ MaxWords \in Nat
        BY <1>1, Numbers
      <4> QED
        BY ONLY <3>1, <4>2, <4>3
    <3> QED
      BY <3>1, <3>2
  <2> QED
    BY <2>1, <2>2
<1>7. Shape'
  BY <1>4, <1>5, <1>6 DEF IInv, Shape
<1>8. (\A t \in Thread : History(t, expect[t]))'
  <2> SUFFICES ASSUME NEW t \in Thread PROVE History(t, expect'[t])
    BY DEF History, Plain, Trapped
  <2>1. CASE t = c
    BY <1>3, <1>5, <2>1
  <2>2. CASE t # c
    BY <1>5, <2>2 DEF IInv
  <2> QED
    BY <2>1, <2>2
<1>9. Running'
  <2>1. v \in Line => isr' = v
    OBVIOUS
  <2>2. Len(h) = 2 => v \in Line
    BY <1>3
  <2>3. Trapped(c, v, Last(expect'[c]), Seen(c)') /\ expect'[c] # <<>>
    BY <1>3, <1>5, <1>6
  <2> QED
    BY <1>4, <1>5, <1>6, <2>1, <2>2, <2>3 DEF Running
<1>10. (\A t \in Thread \ {current} : Waiting(t))'
  <2> SUFFICES ASSUME NEW t \in Thread \ {c} PROVE Waiting(t)'
    BY <1>4
  <2>1. Waiting(t)
    BY DEF IInv
  <2>2. \A a \in Stack(t) : mem'[a] = mem[a]
    BY <1>1, <1>6, Apart, StackIn
  <2> QED
    BY <1>4, <1>5, <2>1, <2>2, WaitingKept
<1>11. IrqAcknowledged'
  BY <1>6 DEF IrqAcknowledged
<1>12. ~ Len(expect'[c]) < Len(expect[c])
  <2>1. CASE expect[c] = <<>>
    BY <1>3, <1>5, <2>1
  <2>2. CASE expect[c] # <<>>
    <3>1. Len(expect[c]) \in {1, 2}
      BY <1>1, <2>2, LastOf DEF IInv
    <3>2. Len(expect'[c]) = 2
      BY <1>3, <1>5, <2>2
    <3>3. Len(expect[c]) = 1 \/ Len(expect[c]) = 2
      BY <3>1
    <3>4. ~(2 < 1) /\ ~(2 < 2)
      OBVIOUS
    <3> QED
      BY <3>2, <3>3, <3>4, Zenon
  <2> QED
    BY <2>1, <2>2
<1> QED
  BY <1>4, <1>7, <1>8, <1>9, <1>10, <1>11, <1>12 DEF IInv

\* A fault that pushes an error code comes from user mode only, and a software
\* trap from a thread's own code.
LEMMA SoftTrapStep ==
  ASSUME IInv, NEW v \in Soft, SoftTrap(v)
  PROVE  /\ IInv' /\ current' = current
         /\ ~ Len(expect'[current]) < Len(expect[current])
<1>1. expect[current] = <<>> /\ isr = 0
  BY InCode DEF SoftTrap, booted
<1>2. isr' = IF v \in Line THEN v ELSE 0
  BY <1>1, Addresses DEF SoftTrap
<1>3. HasError(v) => inUser(cpu)
  BY DEF SoftTrap, HasError
<1> QED
  BY <1>1, <1>2, <1>3, EnterStep DEF SoftTrap

\* An interrupt comes to code or to the stub of a software trap.
LEMMA InterruptStep ==
  ASSUME IInv, NEW v \in Line, Interrupt(v)
  PROVE  /\ IInv' /\ current' = current
         /\ ~ Len(expect'[current]) < Len(expect[current])
<1>1. isr = 0 /\ isr' = (IF v \in Line THEN v ELSE 0)
  BY DEF Interrupt
<1>2. ~HasError(v)
  BY CteAssumption DEF HasError
<1> QED
  BY <1>1, <1>2, EnterStep DEF Interrupt

\* A processor that is in a stub trapped from the last of the thread's history,
\* and no interrupt is in service but the one of that stub.
LEMMA AtStub ==
  ASSUME IInv, NEW v \in Soft \cup Line, cpu.eip = Stub(v)
  PROVE  /\ expect[current] # <<>>
         /\ Trapped(current, v, Last(expect[current]), Seen(current))
         /\ Last(expect[current]).r.cs \in {KCODE, UCODE}
         /\ (IF needsEoi(v) THEN 0 ELSE isr) = 0
<1>1. current \in Thread /\ History(current, expect[current])
  BY DEF IInv, Shape
<1>2. ~Plain(current, Seen(current))
  <2> SUFFICES ASSUME Plain(current, Seen(current)) PROVE FALSE
    OBVIOUS
  <2>1. cpu.eip \in CodeAt \cup {KStart, Entry(current)}
    BY <1>1, OwnRegisters DEF Thread
  <2> QED
    BY <1>1, <2>1, Addresses
<1>3. PICK w \in Soft \cup Line : Trapped(current, w, Last(expect[current]), Seen(current))
  BY <1>2 DEF IInv, Running
<1>4. w = v
  <2>1. cpu.eip = Stub(w)
    BY <1>3 DEF Trapped, Seen
  <2> QED
    BY <2>1, Addresses
<1>5. expect[current] # <<>>
  BY <1>2 DEF IInv, Running
<1>6. Last(expect[current]).r.cs \in {KCODE, UCODE}
  BY <1>1, <1>5, LastOf
<1>7. (IF needsEoi(v) THEN 0 ELSE isr) = 0
  <2>1. CASE v \in Line
    BY <2>1, CteAssumption DEF needsEoi
  <2>2. CASE v \notin Line
    <3>1. isr # 0 => isr \in Line /\ Stub(isr) = Stub(v)
      BY DEF IInv, Shape, IrqAcknowledged
    <3>2. isr = 0
      BY <2>2, <3>1, Addresses
    <3> QED
      BY <3>2
  <2> QED
    BY <2>1, <2>2
<1> QED
  BY <1>3, <1>4, <1>5, <1>6, <1>7

\* What the handler leaves in memory when it has saved the context of thread c
\* and called the client: all of the stacks but c's are as they were.
LEMMA HandlerMemory ==
  ASSUME IInv, NEW v \in Soft \cup Line, cpu.eip = Stub(v), NEW c, c = current,
         NEW m, m = clobber(saved(frame(v)), c, IF c = Boot THEN Kend(Boot) ELSE frame(v).sp)
  PROVE  /\ DOMAIN m = Stacks
         /\ \A a \in Stacks : a \notin Stack(c) => m[a] = mem[a]
         /\ c # Boot => Saved(c, m, frame(v).sp, Last(expect[c]))
<1>1. /\ c \in Thread /\ DOMAIN mem = Stacks
      /\ c \in UThread => cr3 = Space(c) /\ esp0 = Kend(c)
  BY DEF IInv, Shape
<1>2. PICK e : e = Last(expect[c]) /\ Trapped(c, v, e, Seen(c)) /\ e.r.cs \in {KCODE, UCODE}
  BY AtStub
<1>3. PICK n : n = clobber(saved(frame(v)), c, frame(v).sp)
  OBVIOUS
<1>4. /\ Saved(c, n, frame(v).sp, e)
      /\ DOMAIN n = Stacks /\ DOMAIN saved(frame(v)) = Stacks
      /\ \A a \in Stacks : a \notin Stack(c) =>
           n[a] = mem[a] /\ saved(frame(v))[a] = mem[a]
  BY ONLY <1>1, <1>2, <1>3, ContextSaved
<1>5. CASE c # Boot
  BY <1>2, <1>3, <1>4, <1>5
<1>6. CASE c = Boot
  <2>1. m = clobber(saved(frame(v)), c, Kend(c))
    BY <1>6
  <2>2. Kend(c) \in Int
    BY <1>1, Numbers
  <2> DEFINE k == saved(frame(v))
  <2> HIDE DEF k
  <2>3. /\ DOMAIN clobber(k, c, Kend(c)) = Stacks
        /\ \A a \in Stacks : a \notin Stack(c) => clobber(k, c, Kend(c))[a] = k[a]
    <3>1. DOMAIN k = Stacks
      BY <1>4 DEF k
    <3> QED
      BY ONLY <1>1, <2>2, <3>1, Clobber
  <2> QED
    BY <1>4, <1>6, <2>1, <2>3 DEF k
<1> QED
  BY <1>5, <1>6

\* What Handle does, with the memory m the handler leaves and the context ret
\* it returns: u goes on from the last of its history.
Switched(u, m, ret, sp) ==
  /\ DOMAIN m = Stacks /\ DOMAIN mem' = Stacks
  /\ \A a \in Stacks : a \notin Stack(current) => m[a] = mem[a]
  /\ \A a \in Stacks : a \notin Stack(u) => mem'[a] = m[a]
  /\ current # Boot => Saved(current, m, sp, Last(expect[current]))
  /\ u # Boot /\ expect[u] # <<>> /\ Saved(u, m, ret, Last(expect[u]))
  /\ cpu' = Last(expect[u]).r /\ live(mem', u, cpu') = Last(expect[u]).words
  /\ current' = u /\ isr' = 0
  /\ u \in UThread => cr3' = Space(u) /\ esp0' = Kend(u)
  /\ expect' = [expect EXCEPT ![u] = Front(@), ![Boot] = <<>>]
  /\ pool' = [(IF current = Boot THEN pool ELSE [pool EXCEPT ![current] = sp])
                EXCEPT ![u] = NoCtx]

\* Handle does what Switched says.
LEMMA Switch ==
  ASSUME IInv, NEW v \in Soft \cup Line, NEW u \in Thread, Handle(v, u)
  PROVE  \E m, ret, sp : Switched(u, m, ret, sp)
<1> SUFFICES ASSUME NEW c, c = current PROVE \E m, ret, sp : Switched(u, m, ret, sp)
  OBVIOUS
<1>1. /\ c \in Thread /\ DOMAIN mem = Stacks /\ Boot \in Thread
      /\ pool = [t \in Thread |-> pool[t]] /\ pool[Boot] = NoCtx
  BY Numbers DEF IInv, Shape
<1>2. PICK sp : sp = frame(v).sp
  OBVIOUS
<1>3. PICK m : m = clobber(saved(frame(v)), c, IF c = Boot THEN Kend(Boot) ELSE frame(v).sp)
  OBVIOUS
<1>4. PICK p : p = IF c = Boot THEN pool ELSE [pool EXCEPT ![c] = sp]
  OBVIOUS
<1>5. PICK ret : ret = p[u]
  OBVIOUS
<1>6. /\ cpu.eip = Stub(v) /\ ret # NoCtx
      /\ isr' = IF needsEoi(v) THEN 0 ELSE isr
      /\ cr3' = IF m[ret + off["cr3"]] # 0 THEN m[ret + off["cr3"]] ELSE cr3
      /\ esp0' = IF m[ret + off["cr3"]] # 0 THEN m[ret + off["esp0"]] ELSE esp0
      /\ cpu' = iret(m, ret).r
      /\ mem' = clobber(iret(m, ret).m, u,
                        IF inUser(iret(m, ret).r) THEN Kend(u) ELSE iret(m, ret).r.esp)
      /\ current' = u
      /\ pool' = [p EXCEPT ![u] = NoCtx]
      /\ expect' = [expect EXCEPT ![u] = Front(@), ![Boot] = <<>>]
  <2>1. m = clobber(saved(frame(v)), current, IF current = Boot THEN Kend(Boot) ELSE frame(v).sp)
    BY <1>3
  <2>2. p = IF current = Boot THEN pool ELSE [pool EXCEPT ![current] = frame(v).sp]
    BY <1>2, <1>4
  <2> QED
    BY ONLY Handle(v, u), <1>5, <2>1, <2>2 DEF Handle
<1>7. /\ DOMAIN m = Stacks
      /\ \A a \in Stacks : a \notin Stack(c) => m[a] = mem[a]
      /\ c # Boot => Saved(c, m, sp, Last(expect[c]))
  BY <1>2, <1>3, <1>6, HandlerMemory
<1>8. u # Boot
  BY <1>1, <1>4, <1>5, <1>6
<1>9. expect[u] # <<>> /\ Saved(u, m, ret, Last(expect[u]))
  <2>1. CASE u = c
    <3>1. ret = sp
      BY <1>1, <1>4, <1>5, <1>8, <2>1
    <3>2. expect[c] # <<>>
      BY <1>6, AtStub
    <3> QED
      BY <1>7, <1>8, <2>1, <3>1, <3>2
  <2>2. CASE u # c
    <3>1. ret = pool[u]
      BY <1>1, <1>4, <1>5, <2>2
    <3>2. expect[u] # <<>> /\ Saved(u, mem, ret, Last(expect[u]))
      BY <1>6, <2>2, <3>1 DEF IInv, Waiting
    <3>3. \A a \in Stack(u) : m[a] = mem[a]
      BY <1>1, <1>7, <2>2, Apart, StackIn
    <3> QED
      BY <3>2, <3>3, SavedKept
  <2> QED
    BY <2>1, <2>2
<1>10. PICK e : e = Last(expect[u])
  OBVIOUS
<1>11. /\ e.r = [f \in Reg |-> e.r[f]] /\ e.r.cs \in {KCODE, UCODE}
       /\ e.r.cs = UCODE => e.words = <<>>
  BY <1>9, <1>10, LastOf DEF IInv
<1>12. PICK n : n = mem'
  OBVIOUS
<1>13. /\ iret(m, ret).r = e.r
       /\ DOMAIN n = Stacks
       /\ \A a \in Stacks : a \notin Stack(u) => n[a] = m[a]
       /\ live(n, u, e.r) = e.words
  <2>1. Saved(u, m, ret, e) /\ DOMAIN m = Stacks /\ u \in Thread
    BY <1>7, <1>9, <1>10
  <2>2. n = clobber(iret(m, ret).m, u,
                    IF inUser(iret(m, ret).r) THEN Kend(u) ELSE iret(m, ret).r.esp)
    BY <1>6, <1>12
  <2> QED
    BY ONLY <1>11, <2>1, <2>2, Resumed
<1>14. isr' = 0
  BY <1>6, AtStub
<1>15. u \in UThread => cr3' = Space(u) /\ esp0' = Kend(u)
  <2>1. u \in UThread => m[ret + off["cr3"]] = Space(u) /\ m[ret + off["esp0"]] = Kend(u)
    BY <1>9 DEF Saved
  <2>2. Space(u) # 0
    BY Numbers DEF Space
  <2> QED
    BY <1>6, <2>1, <2>2
<1>16. pool' = [(IF current = Boot THEN pool ELSE [pool EXCEPT ![current] = sp])
                  EXCEPT ![u] = NoCtx]
  BY <1>4, <1>6
<1>17. Switched(u, m, ret, sp)
  BY <1>6, <1>7, <1>8, <1>9, <1>10, <1>12, <1>13, <1>14, <1>15, <1>16 DEF Switched
<1> QED
  BY <1>17

\* The context that is saved and the one that goes on are those of their
\* threads, and no other thread is disturbed.
LEMMA HandleStep ==
  ASSUME IInv, NEW v \in Soft \cup Line, NEW u \in Thread, Handle(v, u)
  PROVE  /\ IInv' /\ current' = u
         /\ cpu' = Last(expect[u]).r /\ live(mem', u, cpu') = Last(expect[u]).words
<1> SUFFICES ASSUME NEW c, c = current
             PROVE  /\ IInv' /\ current' = u
                    /\ cpu' = Last(expect[u]).r
                    /\ live(mem', u, cpu') = Last(expect[u]).words
  OBVIOUS
<1>1. /\ c \in Thread /\ Boot \in Thread
      /\ pool = [t \in Thread |-> pool[t]] /\ pool[Boot] = NoCtx
      /\ expect = [t \in Thread |-> expect[t]]
      /\ \A t \in Thread : History(t, expect[t])
      /\ \A t \in Thread \ {c} : Waiting(t)
  BY Numbers DEF IInv, Shape
<1>2. PICK m, ret, sp : Switched(u, m, ret, sp)
  BY Switch
<1>3. /\ DOMAIN m = Stacks /\ DOMAIN mem' = Stacks
      /\ \A a \in Stacks : a \notin Stack(c) => m[a] = mem[a]
      /\ \A a \in Stacks : a \notin Stack(u) => mem'[a] = m[a]
      /\ c # Boot => Saved(c, m, sp, Last(expect[c]))
  BY <1>2 DEF Switched
<1>4. /\ u # Boot /\ expect[u] # <<>> /\ current' = u /\ isr' = 0
      /\ cpu' = Last(expect[u]).r /\ live(mem', u, cpu') = Last(expect[u]).words
      /\ u \in UThread => cr3' = Space(u) /\ esp0' = Kend(u)
  BY <1>2 DEF Switched
<1>5. /\ expect'[u] = Front(expect[u]) /\ expect'[Boot] = <<>>
      /\ \A t \in Thread \ {u, Boot} : expect'[t] = expect[t]
      /\ expect' = [t \in Thread |-> expect'[t]]
  <2>1. expect' = [expect EXCEPT ![u] = Front(@), ![Boot] = <<>>]
    BY <1>2 DEF Switched
  <2> QED
    BY <1>1, <1>4, <2>1
<1>6. /\ pool'[u] = NoCtx /\ pool'[Boot] = NoCtx
      /\ c # Boot /\ c # u => pool'[c] = sp
      /\ \A t \in Thread \ {u, c} : pool'[t] = pool[t]
      /\ pool' = [t \in Thread |-> pool'[t]]
  <2>1. pool' = [(IF c = Boot THEN pool ELSE [pool EXCEPT ![c] = sp]) EXCEPT ![u] = NoCtx]
    BY <1>2 DEF Switched
  <2> QED
    BY <1>1, <1>4, <2>1
<1>7. Shape'
  BY <1>3, <1>4, <1>5, <1>6 DEF Shape
<1>8. /\ History(u, Front(expect[u]))
      /\ \/ Front(expect[u]) = <<>> /\ Plain(u, Last(expect[u]))
         \/ /\ Front(expect[u]) # <<>> /\ Len(Front(expect[u])) = 1
            /\ Last(expect[u]).r.esp >= Kend(u) - (MaxWords + 6)
            /\ \E w \in Soft : Trapped(u, w, Last(Front(expect[u])), Last(expect[u]))
  BY <1>1, <1>4, LastOf
<1>9. (\A t \in Thread : History(t, expect[t]))'
  <2> SUFFICES ASSUME NEW t \in Thread PROVE History(t, expect'[t])
    BY DEF History, Plain, Trapped
  <2>1. CASE t = u
    BY <1>5, <1>8, <2>1
  <2>2. CASE t = Boot
    BY <1>5, <2>2 DEF History
  <2>3. CASE t # u /\ t # Boot
    BY <1>1, <1>5, <2>3
  <2> QED
    BY <2>1, <2>2, <2>3
<1>10. Running'
  <2> DEFINE y == Seen(u)'
  <2>1. y.r = cpu' /\ y.words = live(mem', u, cpu')
    BY DEF Seen
  <2>2. PICK e : e = Last(expect[u]) /\ y.r = e.r /\ y.words = e.words
    BY <1>4, <2>1
  <2> HIDE DEF y
  <2>3. CASE Front(expect[u]) = <<>> /\ Plain(u, Last(expect[u]))
    <3>1. Plain(u, e)
      BY <2>2, <2>3
    <3>2. Plain(u, y)
      BY ONLY <2>2, <3>1 DEF Plain
    <3> QED
      BY <1>4, <1>5, <2>3, <3>2 DEF Running, y
  <2>4. CASE /\ Front(expect[u]) # <<>> /\ Len(Front(expect[u])) = 1
             /\ Last(expect[u]).r.esp >= Kend(u) - (MaxWords + 6)
             /\ \E w \in Soft : Trapped(u, w, Last(Front(expect[u])), Last(expect[u]))
    <3>1. PICK w \in Soft : Trapped(u, w, Last(expect'[u]), e)
      BY <1>5, <2>2, <2>4
    <3>2. Trapped(u, w, Last(expect'[u]), y)
      BY ONLY <2>2, <3>1 DEF Trapped
    <3>3. w \notin Line /\ cpu'.esp >= Kend(u) - (MaxWords + 6)
      BY <1>4, <2>4, Addresses
    <3>4. expect'[u] # <<>> /\ Len(expect'[u]) = 1 /\ Len(expect'[u]) # 2
      BY <1>5, <2>4
    <3> QED
      BY <1>4, <3>2, <3>3, <3>4 DEF Running, y
  <2> QED
    BY <1>8, <2>3, <2>4
<1>11. (\A t \in Thread \ {current} : Waiting(t))'
  <2> SUFFICES ASSUME NEW t \in Thread \ {u} PROVE Waiting(t)'
    BY <1>4
  <2>1. \A a \in Stack(t) : mem'[a] = m[a]
    BY <1>3, Apart, StackIn
  <2>2. CASE t = Boot
    BY <1>5, <1>6, <2>2 DEF Waiting
  <2>3. CASE t # Boot /\ t = c
    <3>1. Saved(c, m, sp, Last(expect[c])) /\ sp # NoCtx
      BY <1>1, <1>3, <2>3, NotNone
    <3>2. Saved(c, mem', sp, Last(expect[c]))
      BY <1>1, <2>1, <2>3, <3>1, SavedKept
    <3>3. expect[c] # <<>> /\ expect'[c] = expect[c] /\ pool'[c] = sp
      BY <1>5, <1>6, <2>3, AtStub DEF Handle
    <3> QED
      BY <2>3, <3>1, <3>2, <3>3 DEF Waiting
  <2>4. CASE t # Boot /\ t # c
    <3>1. \A a \in Stack(t) : mem'[a] = mem[a]
      BY <1>1, <1>3, <2>1, <2>4, Apart, StackIn
    <3> QED
      BY <1>1, <1>5, <1>6, <2>4, <3>1, WaitingKept
  <2> QED
    BY <2>2, <2>3, <2>4
<1>12. IrqAcknowledged'
  BY <1>4 DEF IrqAcknowledged
<1> QED
  BY <1>4, <1>7, <1>9, <1>10, <1>11, <1>12 DEF IInv
-----------------------------------------------------------------------------
(***************************************************************************)
(* The theorems.                                                           *)
(***************************************************************************)
\* What a step may do to the thread that runs after it.
Resumes == Len(expect'[current']) < Len(expect[current']) =>
             LET was == Last(expect[current'])
             IN  cpu' = was.r /\ live(mem', current', cpu') = was.words

\* Every action preserves the invariant and resumes a thread exactly.
LEMMA NextIInv == IInv /\ [Next]_vars => IInv' /\ Resumes
<1> SUFFICES ASSUME IInv, [Next]_vars PROVE IInv' /\ Resumes
  OBVIOUS
<1>1. current \in Thread /\ Len(expect[current]) \in {0, 1, 2}
  <2>1. current \in Thread /\ History(current, expect[current])
    BY DEF IInv, Shape
  <2>2. expect[current] = <<>> => Len(expect[current]) = 0
    OBVIOUS
  <2>3. expect[current] # <<>> => Len(expect[current]) \in {1, 2}
    BY <2>1, LastOf
  <2> QED
    BY <2>1, <2>2, <2>3
<1>2. ~(Len(expect[current]) < Len(expect[current]))
  <2>1. ~(0 < 0) /\ ~(1 < 1) /\ ~(2 < 2)
    OBVIOUS
  <2> QED
    BY <1>1, <2>1, Zenon
<1>3. ASSUME current' = current, expect'[current] = expect[current] PROVE Resumes
  BY <1>2, <1>3 DEF Resumes
<1>4. ASSUME NEW t \in KThread \ {Boot}, Kcontext(t) PROVE IInv' /\ Resumes
  <2>1. t \in Thread /\ t # Boot /\ t \in KThread
    BY <1>4 DEF Thread
  <2>2. IInv'
    BY ONLY <1>4, <2>1, IInv, Creation
  <2>3. current' = current /\ expect'[current] = expect[current]
    BY <1>4, <2>1 DEF Kcontext, booting, IInv, Shape
  <2> QED
    BY <1>3, <2>2, <2>3
<1>5. ASSUME NEW t \in UThread, Ucontext(t) PROVE IInv' /\ Resumes
  <2>1. t \in Thread /\ t # Boot
    BY <1>5, Numbers DEF Thread
  <2>2. IInv'
    BY <1>5, <2>1, Creation
  <2>3. current' = current /\ expect'[current] = expect[current]
    BY <1>5, <2>1 DEF Ucontext, booting, IInv, Shape
  <2> QED
    BY <1>3, <2>2, <2>3
<1>6. ASSUME NEW v \in Seed, Compute(v) PROVE IInv' /\ Resumes
  BY <1>3, <1>6, ComputeStep DEF Compute
<1>7. ASSUME NEW v \in Seed, PushWord(v) PROVE IInv' /\ Resumes
  BY <1>3, <1>7, PushStep DEF PushWord
<1>8. ASSUME KcontextStart PROVE IInv' /\ Resumes
  BY <1>3, <1>8, StartStep DEF KcontextStart
<1>9. ASSUME NEW enable \in {0, IsSet}, Iset(enable) PROVE IInv' /\ Resumes
  BY <1>3, <1>9, IsetStep DEF Iset
<1>10. ASSUME NEW v \in Soft, SoftTrap(v) PROVE IInv' /\ Resumes
  BY <1>10, SoftTrapStep DEF Resumes
<1>11. ASSUME NEW v \in Line, Interrupt(v) PROVE IInv' /\ Resumes
  BY <1>11, InterruptStep DEF Resumes
<1>12. ASSUME NEW v \in Soft \cup Line, NEW u \in Thread, Handle(v, u)
       PROVE  IInv' /\ Resumes
  BY <1>12, HandleStep DEF Resumes
<1>13. ASSUME UNCHANGED vars PROVE IInv' /\ Resumes
  <2>1. IInv'
    BY <1>13 DEF vars, IInv, Shape, Running, Waiting, Seen, IrqAcknowledged
  <2> QED
    BY <1>3, <1>13, <2>1 DEF vars
<1> QED
  BY <1>4, <1>5, <1>6, <1>7, <1>8, <1>9, <1>10, <1>11, <1>12, <1>13 DEF Next

\* In every reachable state each thread is in its code, in a stub or in the
\* pool, with the words that take it back where it was.
THEOREM Invariance == Spec => []IInv
<1>1. Init => IInv
  BY InitIInv
<1>2. IInv /\ [Next]_vars => IInv'
  BY NextIInv
<1> QED
  BY <1>1, <1>2, PTL DEF Spec

\* The state keeps its shape: contexts lie in the stacks of their threads, the
\* running thread has none, and no thread is in more than two traps.
THEOREM TypeCorrect == Spec => []TypeOK
<1>1. ASSUME IInv PROVE TypeOK
  <2>1. /\ DOMAIN mem = Stacks /\ current \in Thread /\ pool[current] = NoCtx
        /\ isr \in Line \cup {0}
    BY <1>1 DEF IInv, Shape
  <2>2. DOMAIN cpu = Reg /\ cpu.cs \in {KCODE, UCODE}
    <3>1. CASE Plain(current, Seen(current))
      BY <2>1, <3>1, OwnRegisters DEF Thread
    <3>2. CASE \E v, e : Trapped(current, v, e, Seen(current))
      <4>1. PICK v, e : Trapped(current, v, e, Seen(current))
        BY <3>2
      <4>2. PICK x : x = Seen(current)
        OBVIOUS
      <4>3. x.r = [f \in Reg |-> x.r[f]] /\ x.r.cs = KCODE /\ x.r = cpu
        BY <4>1, <4>2 DEF Trapped, Seen
      <4> QED
        BY <4>3
    <3> QED
      BY <1>1, <3>1, <3>2 DEF IInv, Running
  <2>3. ASSUME NEW t \in Thread PROVE pool[t] = NoCtx \/ pool[t] \in Stack(t)
    <3>1. CASE t = current
      BY <2>1, <3>1
    <3>2. CASE t # current /\ pool[t] # NoCtx
      <4>1. Saved(t, mem, pool[t], Last(expect[t]))
        BY <1>1, <3>2 DEF IInv, Waiting
      <4>2. pool[t] \in (Kend(t) - S)..(Kend(t) - ContextWords)
        BY <4>1 DEF Saved
      <4> QED
        BY <4>2, StackIn, Numbers DEF ContextWords
    <3> QED
      BY <3>1, <3>2
  <2>4. ASSUME NEW t \in Thread PROVE Len(expect[t]) <= 2
    <3>1. CASE expect[t] = <<>>
      BY <3>1
    <3>2. CASE expect[t] # <<>>
      <4>1. Len(expect[t]) = 1 \/ Len(expect[t]) = 2
        BY <1>1, <3>2, LastOf DEF IInv
      <4>2. 1 <= 2 /\ 2 <= 2
        OBVIOUS
      <4> QED
        BY <4>1, <4>2, Zenon
    <3> QED
      BY <3>1, <3>2
  <2> QED
    BY <2>1, <2>2, <2>3, <2>4 DEF TypeOK, Stacks, Reg
<1> QED
  BY <1>1, Invariance, PTL

\* Only the handler takes a thread out of a trap, and it finds its registers,
\* its mode and every word of its kernel stack as it left them.
THEOREM ContextsIntact == Spec => ResumesExactly
<1>1. IInv /\ [Next]_vars => [Resumes]_vars
  BY NextIInv
<1>2. ResumesExactly <=> [][Resumes]_vars
  BY PTL DEF ResumesExactly, Resumes
<1> QED
  BY <1>1, <1>2, Invariance, PTL DEF Spec

\* User code runs in its own address space, and the stack its next trap starts
\* on is its own.
THEOREM UserThreadsApart == Spec => []UserOnOwnStack
<1>1. ASSUME IInv PROVE UserOnOwnStack
  <2> SUFFICES ASSUME inUser(cpu)
               PROVE  current \in UThread /\ esp0 = Kend(current) /\ cr3 = Space(current)
    BY DEF UserOnOwnStack
  <2>1. \A v, e : ~Trapped(current, v, e, Seen(current))
    BY DEF Trapped, Seen, inUser, KCODE, UCODE
  <2>2. Plain(current, Seen(current)) /\ current \in Thread
    BY <1>1, <2>1 DEF IInv, Running, Shape
  <2>3. current \in UThread
    BY <2>2, OwnRegisters DEF Thread
  <2> QED
    BY <1>1, <2>3 DEF IInv, Shape
<1> QED
  BY <1>1, Invariance, PTL

\* A kernel thread that is at its entry is the one the entry is of, and finds
\* its argument and its return address on its stack.
THEOREM EntriesCalled == Spec => []EntryCalled
<1>1. ASSUME IInv PROVE EntryCalled
  <2> SUFFICES ASSUME NEW t \in KThread, cpu.eip = Entry(t)
               PROVE  /\ current = t /\ cpu.esp <= Kend(t) - 2
                      /\ mem[Kend(t) - 2] = PanicRet /\ mem[Kend(t) - 1] = Arg(t)
    BY DEF EntryCalled
  <2>1. t \in Thread /\ t \notin UThread /\ current \in Thread
    BY <1>1, Numbers DEF IInv, Shape, Thread
  <2>2. running
    BY <2>1 DEF running
  <2>3. Plain(current, Seen(current))
    BY <1>1, <2>2, InCode
  <2>4. current = t
    <3>1. cpu.eip \in CodeAt \cup {KStart, Entry(current)}
      BY <2>1, <2>3, OwnRegisters DEF Thread
    <3> QED
      BY <2>1, <3>1, Addresses
  <2> QED
    BY <2>1, <2>3, <2>4, OwnRegisters
<1> QED
  BY <1>1, Invariance, PTL

\* No interrupt stays in service once its stub is left: the next can come.
THEOREM LinesAcknowledged == Spec => []IrqAcknowledged
<1>1. IInv => IrqAcknowledged
  BY DEF IInv
<1> QED
  BY <1>1, Invariance, PTL
=============================================================================
