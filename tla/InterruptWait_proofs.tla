------------------------- MODULE InterruptWait_proofs -------------------------
(***************************************************************************)
(* Proofs about InterruptWait, for any set of callers.                     *)
(***************************************************************************)
EXTENDS InterruptWait, TLAPS, SequenceTheorems

Places == {"idle", "entered", "spin", "claim", "edit", "stop", "asleep", "woken",
           "mask", "recheck", "leave", "return"}

LEMMA TypeStep ==
  ASSUME TypeOK, [Next]_vars
  PROVE  TypeOK'
<1> USE WaitAssumption DEF TypeOK, cpuVars, devVars, Goto, Masked
<1>1. ASSUME NEW c \in Callers, NEW old \in OldLevels, Call(c, old)
      PROVE  TypeOK'
  <2>1. pc' \in [Callers -> Places]
    BY <1>1 DEF Call, Awake, Places
  <2>2. level \in {0, 1}
    BY <1>1 DEF Call, TickLevel
  <2>3. calls' \in Seq(Callers)
    BY <1>1 DEF Call
  <2> QED
    BY <1>1, <2>1, <2>2, <2>3 DEF Call, DisableInterrupts, Places
<1>2. ASSUME NEW c \in Callers, EnterSpin(c) \/ EnterStop(c) \/ SpinDone(c) \/ Check(c)
      PROVE  TypeOK'
  BY <1>2 DEF EnterSpin, EnterStop, SpinDone, Check
<1>3. ASSUME NEW c \in Callers, Claim(c) \/ Edit(c) \/ Stop(c) \/ Mask(c)
      PROVE  TypeOK'
  BY <1>3 DEF Claim, Edit, Stop, Mask
<1>4. ASSUME NEW c \in Callers, Recheck(c) \/ Leave(c)
      PROVE  TypeOK'
  BY <1>4 DEF Recheck, Leave
<1>5. ASSUME NEW c \in Callers, Return(c)
      PROVE  TypeOK'
  <2>1. calls' \in Seq(Callers)
    <3>1. Len(calls) \in Nat /\ \A k \in 1 .. Len(calls) - 1 : calls[k] \in Callers
      OBVIOUS
    <3> QED
      BY <1>5, <3>1, SubSeqProperties DEF Return
  <2> QED
    BY <1>5, <2>1 DEF Return
<1>6. ASSUME NEW c \in Callers, Answer(c)
      PROVE  TypeOK'
  BY <1>6 DEF Answer
<1>7. CASE Interrupt \/ Tick
  <2>1. pc' \in [Callers -> Places]
    BY <1>7 DEF Interrupt, Tick, Awake, Places
  <2> QED
    BY <1>7, <2>1 DEF Interrupt, Tick, Places
<1>8. CASE UNCHANGED vars
  BY <1>8 DEF vars
<1> QED
  BY <1>1, <1>2, <1>3, <1>4, <1>5, <1>6, <1>7, <1>8 DEF Next, Wait

\* Every variable keeps its type: a wait never goes to sleep, and never
\* resumes what it interrupted, at a level above 1 (DisableInterrupts keeps
\* the level that was current before it masked interrupts).
THEOREM TypeCorrect == Spec => []TypeOK
<1>1. Init => TypeOK
  <2>1. Init => pc \in [Callers -> Places] /\ oldlevel \in [Callers -> {0, 1}]
    BY DEF Init, Places
  <2>2. Init => calls \in Seq(Callers)
    BY DEF Init
  <2> QED
    BY <2>1, <2>2 DEF Init, TypeOK, Places
<1>2. TypeOK /\ [Next]_vars => TypeOK'
  BY TypeStep
<1> QED
  BY <1>1, <1>2, PTL DEF Spec

-------------------------------------------------------------------------------
(***************************************************************************)
(* As long as no caller has interrupted another, the one caller is alone   *)
(* with the device, the tick and the STOP instruction.                     *)
(***************************************************************************)
Busy == \A c \in Callers : pc[c] # "idle" <=> OnTop(c)

AloneInv(c) ==
  /\ pc[c] \in {"entered", "claim", "edit", "stop"} => level = Masked /\ ~flag[c]
  /\ pc[c] = "recheck" => level = Masked
  /\ pc[c] = "asleep" => ~flag[c]
  /\ pc[c] \in {"spin", "asleep", "woken", "mask", "leave", "return"} => level = oldlevel[c]
  /\ pc[c] \in {"stop", "asleep", "woken", "mask", "recheck"} => codeLevel = oldlevel[c]
  /\ pc[c] = "spin" => ~HasStop

InSection == {c \in Callers : pc[c] \in {"edit", "stop", "asleep", "woken",
                                       "mask", "recheck", "leave"}}
Claimed == alreadyEntered => InSection # {}

Alone == /\ Len(calls) <= 1
         /\ Busy
         /\ \A c \in Callers : AloneInv(c)
         /\ Claimed

\* Two callers on top of the stack are one.
LEMMA OneOnTop ==
  ASSUME Busy, NEW c \in Callers, NEW d \in Callers, pc[c] # "idle", pc[d] # "idle"
  PROVE  c = d
  BY DEF Busy, OnTop

LEMMA AloneCall ==
  ASSUME TypeOK, Alone, NEW c \in Callers, NEW old \in OldLevels, Call(c, old), ~nested'
  PROVE  Alone'
<1>1. calls = <<>> /\ calls' = <<c>>
  <2>1. calls = <<>>
    BY Zenon DEF Call
  <2>2. calls' = Append(<<>>, c)
    BY <2>1 DEF Call
  <2> QED
    BY <2>1, <2>2
<1>2. \A d \in Callers : pc[d] = "idle"
  BY <1>1 DEF Alone, Busy, OnTop
<1>3. pc' = [d \in Callers |-> IF d = c THEN "entered" ELSE "idle"]
  BY <1>2 DEF Call, Awake, TypeOK
<1>4. Len(calls') = 1 /\ Busy'
  BY <1>1, <1>3 DEF Busy, OnTop
<1>5. \A d \in Callers : AloneInv(d)'
  BY <1>3 DEF Call, AloneInv, TypeOK
<1>6. ~alreadyEntered'
  BY <1>2 DEF Call, Alone, Claimed, InSection
<1> QED
  BY <1>4, <1>5, <1>6 DEF Alone, Claimed

LEMMA AloneWait ==
  ASSUME TypeOK, Alone, NEW c \in Callers, Wait(c), ~Return(c)
  PROVE  Alone'
<1>1. OnTop(c) /\ \A d \in Callers \ {c} : pc[d] = "idle"
  BY DEF Wait, Step, EnterSpin, EnterStop, SpinDone, Claim, Edit, Stop, Check, Mask,
         Recheck, Leave, Return, Alone, Busy, OnTop
<1>2. UNCHANGED calls
  BY DEF Wait, EnterSpin, EnterStop, SpinDone, Claim, Edit, Stop, Check, Mask, Recheck, Leave
<1>3. \A d \in Callers \ {c} : pc'[d] = "idle"
  BY <1>1 DEF Wait, Goto, EnterSpin, EnterStop, SpinDone, Claim, Edit, Stop, Check, Mask,
              Recheck, Leave, TypeOK
<1>4. pc'[c] # "idle"
  BY DEF Wait, Goto, EnterSpin, EnterStop, SpinDone, Claim, Edit, Stop, Check, Mask,
         Recheck, Leave, TypeOK
<1>5. Busy'
  BY <1>1, <1>2, <1>3, <1>4 DEF Busy, OnTop
<1>6. pc[c] = "entered" => ~alreadyEntered
  BY <1>1 DEF Alone, Claimed, InSection
<1>7. AloneInv(c)'
  BY <1>6 DEF Alone, AloneInv, Wait, Goto, Step, EnterSpin, EnterStop, SpinDone, Claim,
         Edit, Stop, Check, Mask, Recheck, Leave, TypeOK
<1>8. \A d \in Callers : AloneInv(d)'
  BY <1>3, <1>7 DEF AloneInv
<1>9. Claimed'
  <2>1. alreadyEntered' => pc'[c] \in {"edit", "stop", "asleep", "woken", "mask", "recheck", "leave"}
    BY <1>1 DEF Alone, AloneInv, Claimed, InSection, Wait, Goto, Step, EnterSpin,
           EnterStop, SpinDone, Claim, Edit, Stop, Check, Mask, Recheck, Leave, TypeOK
  <2> QED
    BY <2>1 DEF Claimed, InSection
<1> QED
  BY <1>2, <1>5, <1>8, <1>9 DEF Alone

LEMMA AloneReturn ==
  ASSUME TypeOK, Alone, NEW c \in Callers, Return(c)
  PROVE  Alone'
<1>0. calls \in Seq(Callers) /\ calls # <<>> /\ calls[Len(calls)] = c /\ Len(calls) <= 1
  BY DEF Return, Step, OnTop, Alone, TypeOK
<1>1. calls = <<c>>
  <2>1. ASSUME NEW s \in Seq(Callers), s # <<>> PROVE Len(s) \in Nat \ {0}
    BY <2>1, EmptySeq
  <2>2. \A n \in Nat \ {0} : n <= 1 => n = 1
    OBVIOUS
  <2>3. Len(calls) \in Nat \ {0}
    BY <1>0, <2>1
  <2>4. Len(calls) <= 1
    BY <1>0
  <2>5. Len(calls) = 1
    BY <2>2, <2>3, <2>4
  <2>6. calls \in [1 .. 1 -> Callers] /\ calls[1] = c
    BY <1>0, <2>5, LenProperties
  <2>7. <<c>> \in [1 .. 1 -> Callers] /\ <<c>>[1] = c
    OBVIOUS
  <2> QED
    BY <2>6, <2>7
<1>2. calls' = <<>>
  BY <1>1, SubSeqEmpty DEF Return
<1>3. \A d \in Callers : pc'[d] = "idle"
  BY <1>1 DEF Alone, Busy, OnTop, Return, Goto, TypeOK
<1>4. ~alreadyEntered
  BY <1>1 DEF Alone, Claimed, InSection, Busy, OnTop, Return, Step
<1>5. Busy' /\ Len(calls') = 0
  BY <1>2, <1>3 DEF Busy, OnTop
<1>6. \A d \in Callers : AloneInv(d)'
  BY <1>3 DEF AloneInv
<1> QED
  BY <1>4, <1>5, <1>6 DEF Alone, Claimed, Return

\* An interrupt reaches a caller only while its level admits it, and wakes it.
LEMMA AloneWake ==
  ASSUME TypeOK, Alone, Interrupt \/ Tick
  PROVE  Alone'
<1>1. pc' = Awake(pc) /\ UNCHANGED <<calls, oldlevel, level, alreadyEntered, codeLevel>>
  BY DEF Interrupt, Tick
<1>2. Busy'
  BY <1>1 DEF Alone, Busy, OnTop, Awake
<1>3. ASSUME NEW c \in Callers PROVE AloneInv(c)'
  <2>1. level # Masked
    BY DEF Interrupt, Tick, Masked, DevLevel, TickLevel
  <2> QED
    BY <1>1, <2>1 DEF Alone, AloneInv, Awake
<1>4. Claimed'
  BY <1>1 DEF Alone, Claimed, InSection, Awake
<1> QED
  BY <1>1, <1>2, <1>3, <1>4 DEF Alone

NestInv == ~nested => Alone

LEMMA AloneInvariant == Spec => []NestInv
<1>1. Init => NestInv
  BY DEF Init, NestInv, Alone, Busy, OnTop, AloneInv, Claimed
<1>2. TypeOK /\ NestInv /\ [Next]_vars => NestInv'
  <2> SUFFICES ASSUME TypeOK, NestInv, [Next]_vars, ~nested' PROVE Alone'
    BY DEF NestInv
  <2>0. Alone
    BY DEF NestInv, Next, Wait, Call, EnterSpin, EnterStop, SpinDone, Claim, Edit, Stop,
           Check, Mask, Recheck, Leave, Return, Answer, Interrupt, Tick, vars
  <2>1. ASSUME NEW c \in Callers, Answer(c) PROVE Alone'
    BY <2>0, <2>1 DEF Answer, cpuVars, Alone, Busy, OnTop, AloneInv, Claimed, InSection
  <2>2. CASE UNCHANGED vars
    BY <2>0, <2>2 DEF vars, cpuVars, devVars, Alone, Busy, OnTop, AloneInv, Claimed, InSection
  <2> QED
    BY <2>0, <2>1, <2>2, AloneCall, AloneWait, AloneReturn, AloneWake DEF Next, Wait
<1> QED
  BY <1>1, <1>2, TypeCorrect, PTL DEF Spec

\* As long as no wait has interrupted another, the second look at the flag does
\* close the race: no caller is in STOP with its answer in its flag, at either
\* level, whatever the order of answers, interrupts and ticks.  (After that, it
\* may be: run WaitSleepsAnswered.)
THEOREM AloneSleepsUnanswered == Spec => []AloneNeverSleepsAnswered
<1>1. NestInv => AloneNeverSleepsAnswered
  BY DEF NestInv, Alone, AloneInv, AloneNeverSleepsAnswered, NeverSleepsAnswered
<1> QED
  BY <1>1, AloneInvariant, PTL

\* Nor does a wait then sleep, wake or return at a level that is not that of
\* its own caller: the edited STOP instruction never has that of another.
THEOREM AloneAtOwnLevel == Spec => []OwnLevel
<1>1. NestInv => OwnLevel
  BY DEF NestInv, Alone, AloneInv, OwnLevel
<1> QED
  BY <1>1, AloneInvariant, PTL
===============================================================================
