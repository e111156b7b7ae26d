----------------------------- MODULE MpeProofs -----------------------------
(***************************************************************************)
(* What the start-up handshake and the shutdown guarantee for every number *)
(* of processors and every set of processors that may halt.                *)
(***************************************************************************)
EXTENDS Mpe, TLAPS

-----------------------------------------------------------------------------
(* The inductive invariant *)

\* Processor 0 has not left main: it is still the only one that runs.
Early == \/ pc[0] \in {"loader", "start", "gdt_write", "gdt_load", "main"}
         \/ pc[0] = "reset" /\ jmp_code = "loader"

\* Another processor is between its start-up message and its answer.
Booting(c) == \/ pc[c] \in {"loader", "start", "ap_gdt_write", "ap_gdt_load", "ready"}
              \/ (pc[c] = "reset" \/ c \in sent) /\ jmp_code = "loader"

\* The two paths through _start_c are never mixed.
Paths ==
  /\ pc[0] \notin {"off", "ap_gdt_write", "ap_gdt_load", "ready"}
  /\ \A c \in CPU \ {0} : pc[c] \notin {"gdt_write", "gdt_load", "main", "mpe_loop", "mpe_wait"}

BootsAlone ==
  Early => /\ ~is_ap /\ jmp_code = "loader" /\ cpu = 1 /\ ap_ready = 0
           /\ loads = IF pc[0] \in {"reset", "loader"} THEN 0 ELSE 1
           /\ sent = {} /\ \A c \in CPU \ {0} : pc[c] = "off"

Initialised == ~Early => pmm_ready /\ user_entry /\ loads = 1

\* mpe_init starts one processor at a time and the flag belongs to that one.
OneAtATime ==
  /\ pc[0] = "mpe_loop" => ap_ready = 0
  /\ \A c \in CPU \ {0} : Booting(c) => c = cpu /\ ap_ready = 0 /\ pc[0] # "mpe_loop"

\* Until a processor halts, messages go only to processors that are still off,
\* and those that mpe_init has not come to are.
OffUntilSent ==
  jmp_code = "loader" =>
    /\ 0 \notin sent /\ \A c \in sent : pc[c] = "off"
    /\ \A c \in CPU \ {0} :
         cpu < c \/ (cpu = c /\ pc[0] = "mpe_loop") => pc[c] = "off" /\ c \notin sent

\* The boot record says that the booting processor is not the first.
Flagged ==
  /\ cpu > 1 => is_ap
  /\ pc[0] = "mpe_wait" => is_ap /\ cpu < NCPU
  /\ pc[0] \in {"run", "halt", "halted"} => cpu = NCPU
  /\ \A c \in CPU \ {0} : pc[c] # "off" \/ c \in sent => is_ap

OwnTable ==
  \A c \in CPU :
    /\ pc[c] \in {"gdt_load", "ap_gdt_load"} => data = c
    /\ pc[c] \in {"main", "mpe_loop", "mpe_wait", "ready", "run", "halt"} => gdtr[c] = c

\* After the first halt the boot sector jumps to itself for good.
Parked ==
  \A h \in CPU :
    /\ pc[h] \in {"halt", "halted", "spin"} => jmp_code = "self"
    /\ stop[h] # 0 => pc[h] \in {"halt", "halted", "reset", "spin"} /\ jmp_code = "self"

IInv == /\ TypeOK /\ Paths /\ BootsAlone /\ Initialised /\ OneAtATime
        /\ OffUntilSent /\ Flagged /\ OwnTable /\ Parked /\ StoppedStays

-----------------------------------------------------------------------------
USE MpeAssumption DEF CPU, None, PC, At, Goto, lapic_bootap, bootRecord,
                      descriptor, kernel, handshake, shutdown

\* The invariant holds when the machine starts.
LEMMA InitIInv == Init => IInv
<1> SUFFICES ASSUME Init PROVE IInv
  OBVIOUS
<1> 0 \in CPU
  OBVIOUS
<1> USE DEF Init
<1>1. TypeOK
  <2>1. is_ap \in BOOLEAN /\ pmm_ready \in BOOLEAN /\ user_entry \in BOOLEAN /\ power \in BOOLEAN
    BY Zenon
  <2>2. pc \in [CPU -> PC] /\ gdtr \in [CPU -> CPU \cup {None}] /\ stop \in [CPU -> 0 .. NCPU]
    OBVIOUS
  <2> QED
    BY <2>1, <2>2 DEF TypeOK
<1>2. Paths
  BY DEF Paths
<1>3. BootsAlone
  BY DEF BootsAlone, Early
<1>4. Initialised
  BY DEF Initialised, Early
<1>5. OneAtATime
  BY DEF OneAtATime, Booting
<1>6. Flagged
  BY DEF Flagged
<1>7. OwnTable
  BY DEF OwnTable
<1>8. Parked
  BY DEF Parked
<1>9. StoppedStays
  BY DEF StoppedStays
<1>10. OffUntilSent
  BY DEF OffUntilSent
<1> QED
  BY <1>1, <1>2, <1>3, <1>4, <1>5, <1>6, <1>7, <1>8, <1>9, <1>10 DEF IInv

\* Every step of a processor preserves the invariant.
LEMMA NextIInv == IInv /\ [Next]_vars => IInv'
<1> SUFFICES ASSUME IInv, [Next]_vars PROVE IInv'
  OBVIOUS
<1>1. ASSUME NEW c \in CPU, BootSector(c) PROVE IInv'
  <2> USE <1>1 DEF BootSector, IInv
  <2>1. TypeOK'
    BY DEF TypeOK
  <2>2. Paths'
    BY DEF TypeOK, Paths
  <2>3. BootsAlone'
    BY DEF TypeOK, BootsAlone, Early
  <2>4. Initialised'
    BY DEF TypeOK, Initialised, Early
  <2>5. OneAtATime'
    BY DEF TypeOK, OneAtATime, Booting
  <2>6. OffUntilSent'
    BY DEF TypeOK, OffUntilSent
  <2>7. Flagged'
    BY DEF TypeOK, Flagged
  <2>8. OwnTable'
    BY DEF TypeOK, OwnTable
  <2>9. Parked'
    BY DEF TypeOK, Parked
  <2>10. StoppedStays'
    BY DEF TypeOK, Parked, StoppedStays
  <2> QED
    BY <2>1, <2>2, <2>3, <2>4, <2>5, <2>6, <2>7, <2>8, <2>9, <2>10
<1>2. ASSUME NEW c \in CPU, load_kernel(c) PROVE IInv'
  <2> USE <1>2 DEF load_kernel, IInv
  <2>1. TypeOK'
    <3>1. pmm_ready' \in BOOLEAN /\ user_entry' \in BOOLEAN
      BY Zenon DEF TypeOK
    <3>2. is_ap' \in BOOLEAN /\ power' \in BOOLEAN
      BY Zenon DEF TypeOK
    <3>3. loads' \in Nat /\ ap_ready' \in {0, 1} /\ pc' \in [CPU -> PC]
      BY DEF TypeOK
    <3> QED
      BY <3>1, <3>2, <3>3 DEF TypeOK
  <2>2. Paths'
    BY DEF TypeOK, Paths
  <2>3. BootsAlone'
    BY DEF TypeOK, BootsAlone, Early
  <2>4. Initialised'
    BY DEF TypeOK, Initialised, Flagged, Early
  <2>5. OneAtATime'
    BY DEF TypeOK, OneAtATime, Booting
  <2>6. OffUntilSent'
    BY DEF TypeOK, OffUntilSent
  <2>7. Flagged'
    BY DEF TypeOK, Flagged
  <2>8. OwnTable'
    BY DEF TypeOK, OwnTable
  <2>9. Parked'
    BY DEF TypeOK, Parked
  <2>10. StoppedStays'
    BY DEF TypeOK, StoppedStays
  <2> QED
    BY <2>1, <2>2, <2>3, <2>4, <2>5, <2>6, <2>7, <2>8, <2>9, <2>10
<1>3. ASSUME NEW c \in CPU, start_c(c) PROVE IInv'
  <2> USE <1>3 DEF start_c, IInv
  <2>1. TypeOK'
    BY DEF TypeOK
  <2>2. Paths'
    BY DEF TypeOK, Paths, BootsAlone, Flagged, Early
  <2>3. BootsAlone'
    BY DEF TypeOK, BootsAlone, Early
  <2>4. Initialised'
    BY DEF TypeOK, BootsAlone, Initialised, OffUntilSent, Early
  <2>5. OneAtATime'
    BY DEF TypeOK, OneAtATime, Booting
  <2>6. OffUntilSent'
    BY DEF TypeOK, OffUntilSent
  <2>7. Flagged'
    BY DEF TypeOK, Flagged
  <2>8. OwnTable'
    BY DEF TypeOK, OwnTable
  <2>9. Parked'
    BY DEF TypeOK, Parked
  <2>10. StoppedStays'
    BY DEF TypeOK, StoppedStays
  <2> QED
    BY <2>1, <2>2, <2>3, <2>4, <2>5, <2>6, <2>7, <2>8, <2>9, <2>10
<1>4. ASSUME NEW c \in CPU, SetGdtWrite(c) PROVE IInv'
  <2> USE <1>4 DEF SetGdtWrite, IInv
  <2>1. TypeOK'
    BY DEF TypeOK
  <2>2. Paths'
    BY DEF TypeOK, Paths
  <2>3. BootsAlone'
    BY DEF TypeOK, BootsAlone, Early
  <2>4. Initialised'
    BY DEF TypeOK, Initialised, Early
  <2>5. OneAtATime'
    BY DEF TypeOK, OneAtATime, Booting
  <2>6. OffUntilSent'
    BY DEF TypeOK, OffUntilSent
  <2>7. Flagged'
    BY DEF TypeOK, Flagged
  <2>8. OwnTable'
    BY DEF TypeOK, Paths, BootsAlone, OneAtATime, OffUntilSent, OwnTable, Early, Booting
  <2>9. Parked'
    BY DEF TypeOK, Parked
  <2>10. StoppedStays'
    BY DEF TypeOK, StoppedStays
  <2> QED
    BY <2>1, <2>2, <2>3, <2>4, <2>5, <2>6, <2>7, <2>8, <2>9, <2>10
<1>5. ASSUME NEW c \in CPU, SetGdtLoad(c) PROVE IInv'
  <2> USE <1>5 DEF SetGdtLoad, IInv
  <2>1. TypeOK'
    BY DEF TypeOK
  <2>2. Paths'
    BY DEF TypeOK, Paths
  <2>3. BootsAlone'
    BY DEF TypeOK, BootsAlone, Early
  <2>4. Initialised'
    BY DEF TypeOK, Initialised, Early
  <2>5. OneAtATime'
    BY DEF TypeOK, OneAtATime, Booting
  <2>6. OffUntilSent'
    BY DEF TypeOK, OffUntilSent
  <2>7. Flagged'
    BY DEF TypeOK, Flagged
  <2>8. OwnTable'
    BY DEF TypeOK, OwnTable
  <2>9. Parked'
    BY DEF TypeOK, Parked
  <2>10. StoppedStays'
    BY DEF TypeOK, StoppedStays
  <2> QED
    BY <2>1, <2>2, <2>3, <2>4, <2>5, <2>6, <2>7, <2>8, <2>9, <2>10
<1>6. ASSUME NEW c \in CPU, Main(c) PROVE IInv'
  <2> USE <1>6 DEF Main, IInv
  <2>1. TypeOK'
    BY DEF TypeOK
  <2>2. Paths'
    BY DEF TypeOK, Paths
  <2>3. BootsAlone'
    BY DEF TypeOK, Paths, BootsAlone, OneAtATime, OffUntilSent, Early, Booting
  <2>4. Initialised'
    BY DEF TypeOK, BootsAlone, Initialised, OffUntilSent, Early
  <2>5. OneAtATime'
    BY DEF TypeOK, Paths, BootsAlone, OneAtATime, OffUntilSent, Early, Booting
  <2>6. OffUntilSent'
    BY DEF TypeOK, Paths, BootsAlone, OneAtATime, OffUntilSent, Early, Booting
  <2>7. Flagged'
    BY DEF TypeOK, Flagged
  <2>8. OwnTable'
    BY DEF TypeOK, OwnTable
  <2>9. Parked'
    BY DEF TypeOK, Paths, BootsAlone, OneAtATime, OffUntilSent, Parked, Early, Booting
  <2>10. StoppedStays'
    BY DEF TypeOK, StoppedStays
  <2> QED
    BY <2>1, <2>2, <2>3, <2>4, <2>5, <2>6, <2>7, <2>8, <2>9, <2>10
<1>7. ASSUME NEW c \in CPU, BootAp(c) PROVE IInv'
  <2> USE <1>7 DEF BootAp, IInv
  <2>1. TypeOK'
    BY DEF TypeOK
  <2>2. Paths'
    BY DEF TypeOK, Paths
  <2>3. BootsAlone'
    BY DEF TypeOK, BootsAlone, Early
  <2>4. Initialised'
    BY DEF TypeOK, Initialised, Early
  <2>5. OneAtATime'
    BY DEF TypeOK, Paths, BootsAlone, OneAtATime, OffUntilSent, Early, Booting
  <2>6. OffUntilSent'
    BY DEF TypeOK, Paths, BootsAlone, OneAtATime, OffUntilSent, Early, Booting
  <2>7. Flagged'
    BY DEF TypeOK, Flagged
  <2>8. OwnTable'
    BY DEF TypeOK, OwnTable
  <2>9. Parked'
    BY DEF TypeOK, Parked
  <2>10. StoppedStays'
    BY DEF TypeOK, StoppedStays
  <2> QED
    BY <2>1, <2>2, <2>3, <2>4, <2>5, <2>6, <2>7, <2>8, <2>9, <2>10
<1>8. ASSUME NEW c \in CPU, ApAnswered(c) PROVE IInv'
  <2> USE <1>8 DEF ApAnswered, IInv
  <2>1. TypeOK'
    BY DEF TypeOK, Paths, BootsAlone, OneAtATime, Flagged, Early, Booting
  <2>2. Paths'
    BY DEF TypeOK, Paths
  <2>3. BootsAlone'
    BY DEF TypeOK, BootsAlone, Early
  <2>4. Initialised'
    BY DEF TypeOK, Initialised, Early
  <2>5. OneAtATime'
    BY DEF TypeOK, OneAtATime, Booting
  <2>6. OffUntilSent'
    BY DEF TypeOK, OffUntilSent
  <2>7. Flagged'
    BY DEF TypeOK, Paths, BootsAlone, OneAtATime, OffUntilSent, Flagged, Early, Booting
  <2>8. OwnTable'
    BY DEF TypeOK, OwnTable
  <2>9. Parked'
    BY DEF TypeOK, Parked
  <2>10. StoppedStays'
    BY DEF TypeOK, StoppedStays
  <2> QED
    BY <2>1, <2>2, <2>3, <2>4, <2>5, <2>6, <2>7, <2>8, <2>9, <2>10
<1>9. ASSUME NEW c \in CPU, MpeDone(c) PROVE IInv'
  <2> USE <1>9 DEF MpeDone, IInv
  <2>1. TypeOK'
    BY DEF TypeOK
  <2>2. Paths'
    BY DEF TypeOK, Paths
  <2>3. BootsAlone'
    BY DEF TypeOK, BootsAlone, Early
  <2>4. Initialised'
    BY DEF TypeOK, Initialised, Early
  <2>5. OneAtATime'
    BY DEF TypeOK, OneAtATime, Booting
  <2>6. OffUntilSent'
    BY DEF TypeOK, OffUntilSent
  <2>7. Flagged'
    BY DEF TypeOK, Flagged
  <2>8. OwnTable'
    BY DEF TypeOK, OwnTable
  <2>9. Parked'
    BY DEF TypeOK, Parked
  <2>10. StoppedStays'
    BY DEF TypeOK, StoppedStays
  <2> QED
    BY <2>1, <2>2, <2>3, <2>4, <2>5, <2>6, <2>7, <2>8, <2>9, <2>10
<1>10. ASSUME NEW c \in CPU, ApReady(c) PROVE IInv'
  <2> USE <1>10 DEF ApReady, IInv
  <2>1. TypeOK'
    BY DEF TypeOK
  <2>2. Paths'
    BY DEF TypeOK, Paths
  <2>3. BootsAlone'
    BY DEF TypeOK, BootsAlone, Early
  <2>4. Initialised'
    BY DEF TypeOK, Initialised, Early
  <2>5. OneAtATime'
    BY DEF TypeOK, Paths, BootsAlone, OneAtATime, OffUntilSent, Early, Booting
  <2>6. OffUntilSent'
    BY DEF TypeOK, OffUntilSent
  <2>7. Flagged'
    BY DEF TypeOK, Paths, BootsAlone, OneAtATime, OffUntilSent, Flagged, Early, Booting
  <2>8. OwnTable'
    BY DEF TypeOK, OwnTable
  <2>9. Parked'
    BY DEF TypeOK, Parked
  <2>10. StoppedStays'
    BY DEF TypeOK, StoppedStays
  <2> QED
    BY <2>1, <2>2, <2>3, <2>4, <2>5, <2>6, <2>7, <2>8, <2>9, <2>10
<1>11. ASSUME NEW c \in CPU, Halt(c) PROVE IInv'
  <2> USE <1>11 DEF Halt, IInv
  <2>1. TypeOK'
    BY DEF TypeOK
  <2>2. Paths'
    BY DEF TypeOK, Paths
  <2>3. BootsAlone'
    BY DEF TypeOK, BootsAlone, Early
  <2>4. Initialised'
    BY DEF TypeOK, BootsAlone, Initialised, OffUntilSent, Early
  <2>5. OneAtATime'
    BY DEF TypeOK, OneAtATime, Booting
  <2>6. OffUntilSent'
    BY DEF TypeOK, OffUntilSent
  <2>7. Flagged'
    BY DEF TypeOK, Flagged
  <2>8. OwnTable'
    BY DEF TypeOK, OwnTable
  <2>9. Parked'
    BY DEF TypeOK, Parked
  <2>10. StoppedStays'
    <3>1. stop[c] = 0
      BY DEF Parked
    <3>2. ASSUME NEW h \in CPU, NEW d \in CPU, pc'[h] \in {"halt", "halted"}, d < stop[h], d # h
          PROVE  d \in sent \/ pc'[d] \in {"reset", "spin"}
      <4>1. h # c
        BY <3>1, <3>2
      <4>2. pc[h] \in {"halt", "halted"}
        BY <3>2, <4>1 DEF TypeOK
      <4> QED
        BY <3>2, <4>2 DEF TypeOK, StoppedStays
    <3> QED
      BY <3>2 DEF StoppedStays
  <2> QED
    BY <2>1, <2>2, <2>3, <2>4, <2>5, <2>6, <2>7, <2>8, <2>9, <2>10
<1>12. ASSUME NEW c \in CPU, StopCpu(c) PROVE IInv'
  <2> USE <1>12 DEF StopCpu, IInv
  <2>1. TypeOK'
    <3>1. is_ap' \in BOOLEAN /\ pmm_ready' \in BOOLEAN /\ user_entry' \in BOOLEAN /\ power' \in BOOLEAN
      BY Zenon DEF TypeOK
    <3>2. sent' \subseteq CPU /\ stop' \in [CPU -> 0 .. NCPU]
      <4>1. stop[c] \in CPU /\ stop[c] + 1 \in 0 .. NCPU
        BY DEF TypeOK
      <4>2. sent' = sent \/ sent' = sent \cup {stop[c]}
        OBVIOUS
      <4>3. stop' = [stop EXCEPT ![c] = stop[c] + 1]
        OBVIOUS
      <4> HIDE <1>12 DEF StopCpu, CPU, lapic_bootap
      <4>4. sent' \subseteq CPU
        BY <4>1, <4>2 DEF TypeOK
      <4>5. stop' \in [CPU -> 0 .. NCPU]
        BY <4>1, <4>3 DEF TypeOK
      <4> QED
        BY <4>4, <4>5
    <3>3. /\ pc' \in [CPU -> PC] /\ jmp_code' \in {"loader", "self"} /\ loads' \in Nat
          /\ data' \in CPU \cup {None} /\ gdtr' \in [CPU -> CPU \cup {None}]
          /\ ap_ready' \in {0, 1} /\ cpu' \in 1 .. NCPU
      BY DEF TypeOK
    <3> QED
      BY <3>1, <3>2, <3>3 DEF TypeOK
  <2>2. Paths'
    BY DEF TypeOK, Paths
  <2>3. BootsAlone'
    BY DEF TypeOK, BootsAlone, Early
  <2>4. Initialised'
    BY DEF TypeOK, Initialised, Early
  <2>5. OneAtATime'
    BY DEF TypeOK, OneAtATime, OffUntilSent, Parked, Booting
  <2>6. OffUntilSent'
    BY DEF TypeOK, OneAtATime, OffUntilSent, Parked, Booting
  <2>7. Flagged'
    BY DEF TypeOK, Flagged
  <2>8. OwnTable'
    BY DEF TypeOK, OwnTable
  <2>9. Parked'
    BY DEF TypeOK, Parked
  <2>10. StoppedStays'
    BY DEF TypeOK, StoppedStays
  <2> QED
    BY <2>1, <2>2, <2>3, <2>4, <2>5, <2>6, <2>7, <2>8, <2>9, <2>10
<1>13. ASSUME NEW c \in CPU, PowerOff(c) PROVE IInv'
  <2> USE <1>13 DEF PowerOff, IInv
  <2>1. TypeOK'
    BY DEF TypeOK
  <2>2. Paths'
    BY DEF TypeOK, Paths
  <2>3. BootsAlone'
    BY DEF TypeOK, BootsAlone, Early
  <2>4. Initialised'
    BY DEF TypeOK, Initialised, Early
  <2>5. OneAtATime'
    BY DEF TypeOK, OneAtATime, Booting
  <2>6. OffUntilSent'
    BY DEF TypeOK, OffUntilSent
  <2>7. Flagged'
    BY DEF TypeOK, Flagged
  <2>8. OwnTable'
    BY DEF TypeOK, OwnTable
  <2>9. Parked'
    BY DEF TypeOK, Parked
  <2>10. StoppedStays'
    BY DEF TypeOK, StoppedStays
  <2> QED
    BY <2>1, <2>2, <2>3, <2>4, <2>5, <2>6, <2>7, <2>8, <2>9, <2>10
<1>14. ASSUME NEW c \in CPU, Reset(c) PROVE IInv'
  <2> USE <1>14 DEF Reset, IInv
  <2>1. TypeOK'
    BY DEF TypeOK
  <2>2. Paths'
    BY DEF TypeOK, Paths
  <2>3. BootsAlone'
    BY DEF TypeOK, BootsAlone, OffUntilSent, Early
  <2>4. Initialised'
    BY DEF TypeOK, BootsAlone, Initialised, OffUntilSent, Early
  <2>5. OneAtATime'
    BY DEF TypeOK, OneAtATime, Booting
  <2>6. OffUntilSent'
    BY DEF TypeOK, OffUntilSent
  <2>7. Flagged'
    BY DEF TypeOK, Flagged
  <2>8. OwnTable'
    BY DEF TypeOK, OwnTable
  <2>9. Parked'
    BY DEF TypeOK, Parked
  <2>10. StoppedStays'
    BY DEF TypeOK, StoppedStays
  <2> QED
    BY <2>1, <2>2, <2>3, <2>4, <2>5, <2>6, <2>7, <2>8, <2>9, <2>10
<1>15. CASE UNCHANGED vars
  BY <1>15 DEF vars, IInv, TypeOK, Paths, BootsAlone, Initialised, OneAtATime,
               OffUntilSent, Flagged, OwnTable, Parked, StoppedStays, Early, Booting
<1> QED
  BY <1>1, <1>2, <1>3, <1>4, <1>5, <1>6, <1>7, <1>8, <1>9, <1>10, <1>11, <1>12, <1>13,
     <1>14, <1>15 DEF Next, Step

-----------------------------------------------------------------------------
(* Every reachable state of start-up and shutdown satisfies the invariant: one
   processor at a time is between its start-up message and its answer, and after
   the first halt no processor that is reset passes the boot sector. *)
THEOREM Invariance == Spec => []IInv
BY InitIInv, NextIInv, PTL DEF Spec

(* The variables of the boot record, the handshake and the shutdown loop keep
   their types: cpu never runs past __am_ncpu, nor does the loop variable of
   __am_stop_the_world. *)
THEOREM TypeCorrect == Spec => []TypeOK
<1>1. IInv => TypeOK
  BY DEF IInv
<1> QED
  BY <1>1, Invariance, PTL

(* However many processors there are, one that runs the kernel's entry finds
   the kernel initialised by main, the entry stored by mpe_init, the image read
   once by load_kernel, and runs on its own descriptor table. *)
THEOREM KernelInitialised == Spec => []RunsInitialised
<1>1. IInv => RunsInitialised
  <2> SUFFICES ASSUME IInv, NEW c \in CPU, pc[c] \in {"run", "halt"}
               PROVE  pmm_ready /\ user_entry /\ loads = 1 /\ gdtr[c] = c
    BY DEF RunsInitialised
  <2>1. ~Early
    BY DEF IInv, BootsAlone, Early
  <2> QED
    BY <2>1 DEF IInv, Initialised, OwnTable
<1> QED
  BY <1>1, Invariance, PTL

(* The stack of the boot loader is never used by two processors, although no
   lock guards it and every processor goes through load_kernel. *)
THEOREM LoaderExclusive == Spec => []BootStackExclusive
<1>1. IInv => BootStackExclusive
  <2> SUFFICES ASSUME IInv, NEW c \in CPU, NEW d \in CPU,
                      pc[c] \in {"loader", "start"}, pc[d] \in {"loader", "start"}
               PROVE  c = d
    BY DEF BootStackExclusive
  <2>1. CASE Early
    BY <2>1 DEF IInv, BootsAlone
  <2>2. CASE ~Early
    BY <2>2 DEF IInv, OneAtATime, Booting, Early
  <2> QED
    BY <2>1, <2>2
<1> QED
  BY <1>1, Invariance, PTL

(* A processor that the loop of __am_stop_the_world has passed stays parked in
   the boot sector, even when mpe_init, which another processor is still running,
   sends it a start-up message afterwards. *)
THEOREM StoppedForGood == Spec => []StoppedStays
<1>1. IInv => StoppedStays
  BY DEF IInv
<1> QED
  BY <1>1, Invariance, PTL
=============================================================================
