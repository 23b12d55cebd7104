---------------------------- MODULE InterruptWait ----------------------------
(***************************************************************************)
(* How a QSend that waits sleeps: ReenableInterruptsAndWaitFor in          *)
(* interruptmask.c, between the notification of the device and the answer. *)
(*                                                                         *)
(* A caller arrives with interrupts masked and its request published.  On  *)
(* a 68k it executes STOP, which loads the status register and halts the   *)
(* CPU in one instruction, until an interrupt above the loaded level has   *)
(* been handled.  The device's interrupt is level 2.  A level 1 interrupt  *)
(* (the 60 Hz tick, and what runs from it) ends the STOP of a caller that  *)
(* waits at level 0, and its handler may make a call of its own, at level  *)
(* 1 or, as a deferred task, at level 0.  `calls` is the stack of the      *)
(* callers; only its top runs.                                             *)
(***************************************************************************)
EXTENDS Integers, Sequences, FiniteSets

CONSTANTS Callers,    \* the possible activations
          OldLevels,  \* the interrupt levels calls are made at, of {0, 1}
          HasStop,    \* the 68k build; the PowerPC build has no STOP
          MaxNest     \* bound on the depth of nesting

ASSUME WaitAssumption == /\ OldLevels \subseteq {0, 1}
                         /\ HasStop \in BOOLEAN
                         /\ MaxNest \in Nat \ {0}

VARIABLES
  calls,           \* stack of callers, innermost last
  pc,              \* where each caller is
  oldlevel,        \* the level each was called at
  resume,          \* the level of the code each interrupted
  flag,            \* *flag is nonzero
  level,           \* the CPU's interrupt level, 7 when masked
  alreadyEntered,
  codeLevel,       \* the level in the edited STOP instruction, code[3]
  unanswered,      \* device: the requests it has
  answered,        \* device: completions not yet polled
  irq,             \* device: interrupt asserted
  nested           \* history: a caller has interrupted another

cpuVars == <<calls, pc, oldlevel, resume, level>>
devVars == <<unanswered, answered, irq>>
vars == <<cpuVars, flag, alreadyEntered, codeLevel, devVars, nested>>

Masked == 7
DevLevel == 2
TickLevel == 1

OnTop(c) == calls # <<>> /\ calls[Len(calls)] = c
Step(c, from) == OnTop(c) /\ pc[c] = from
Goto(c, to) == pc' = [pc EXCEPT ![c] = to]

\* An interrupt ends the STOP: the caller goes on when the handler returns.
Awake(p) == [c \in Callers |-> IF p[c] = "asleep" THEN "woken" ELSE p[c]]

Init == /\ calls = <<>>
        /\ pc = [c \in Callers |-> "idle"]
        /\ oldlevel = [c \in Callers |-> 0]
        /\ resume = [c \in Callers |-> 0]
        /\ flag = [c \in Callers |-> FALSE]
        /\ level = 0
        /\ alreadyEntered = FALSE
        /\ codeLevel \in {0, 1}  \* the placeholder 0x9999: any level not the caller's
        /\ unanswered = {} /\ answered = {} /\ irq = FALSE
        /\ nested = FALSE

\* Interrupts are masked; the caller keeps the level that was current.
DisableInterrupts(sr) == sr

\* QSend clears the flag, masks interrupts and publishes; from task level, or
\* from the handler of an interrupt that the running code admits.
Call(c, old) ==
  /\ pc[c] = "idle"
  /\ level < TickLevel /\ Len(calls) < MaxNest
  /\ calls' = Append(calls, c)
  /\ pc' = [Awake(pc) EXCEPT ![c] = "entered"]
  /\ oldlevel' = [oldlevel EXCEPT ![c] = DisableInterrupts(old)]
  /\ resume' = [resume EXCEPT ![c] = level]
  /\ flag' = [flag EXCEPT ![c] = FALSE]
  /\ level' = Masked
  /\ unanswered' = unanswered \cup {c}
  /\ nested' = (nested \/ calls # <<>>)
  /\ UNCHANGED <<alreadyEntered, codeLevel, answered, irq>>

\* Faulty variant: the busy loop runs with interrupts still masked.
MaskedSpin(c) ==
  /\ Step(c, "entered") /\ (~HasStop \/ alreadyEntered)
  /\ Goto(c, "spin")
  /\ UNCHANGED <<calls, oldlevel, resume, level, flag, alreadyEntered, codeLevel, devVars, nested>>

\* No STOP on PowerPC, nor when the section with the STOP is taken.
EnterSpin(c) ==
  /\ Step(c, "entered") /\ (~HasStop \/ alreadyEntered)
  /\ level' = oldlevel[c]
  /\ Goto(c, "spin")
  /\ UNCHANGED <<calls, oldlevel, resume, flag, alreadyEntered, codeLevel, devVars, nested>>

EnterStop(c) ==
  /\ Step(c, "entered") /\ HasStop /\ ~alreadyEntered
  /\ Goto(c, "claim")
  /\ UNCHANGED <<calls, oldlevel, resume, level, flag, alreadyEntered, codeLevel, devVars, nested>>

\* The busy loop ends.  On a 68k control runs on into the STOP section.
SpinDone(c) ==
  /\ Step(c, "spin") /\ flag[c]
  /\ Goto(c, IF HasStop THEN "claim" ELSE "return")
  /\ UNCHANGED <<calls, oldlevel, resume, level, flag, alreadyEntered, codeLevel, devVars, nested>>

\* Claim the section.
Claim(c) ==
  /\ Step(c, "claim")
  /\ alreadyEntered' = TRUE
  /\ Goto(c, "edit")
  /\ UNCHANGED <<calls, oldlevel, resume, level, flag, codeLevel, devVars, nested>>

\* Faulty variant: the instruction keeps the level of the wait before.
KeepEdit(c) ==
  /\ Step(c, "edit")
  /\ Goto(c, "stop")
  /\ UNCHANGED <<calls, oldlevel, resume, level, flag, alreadyEntered, codeLevel, devVars, nested>>

\* Put the caller's level into the STOP instruction, if another is there.
Edit(c) ==
  /\ Step(c, "edit")
  /\ codeLevel' = oldlevel[c]
  /\ Goto(c, "stop")
  /\ UNCHANGED <<calls, oldlevel, resume, level, flag, alreadyEntered, devVars, nested>>

Stop(c) ==
  /\ Step(c, "stop")
  /\ level' = codeLevel
  /\ Goto(c, "asleep")
  /\ UNCHANGED <<calls, oldlevel, resume, flag, alreadyEntered, codeLevel, devVars, nested>>

Check(c) ==
  /\ Step(c, "woken")
  /\ Goto(c, IF flag[c] THEN "leave" ELSE "mask")
  /\ UNCHANGED <<calls, oldlevel, resume, level, flag, alreadyEntered, codeLevel, devVars, nested>>

Mask(c) ==
  /\ Step(c, "mask")
  /\ level' = Masked
  /\ Goto(c, "recheck")
  /\ UNCHANGED <<calls, oldlevel, resume, flag, alreadyEntered, codeLevel, devVars, nested>>

\* Faulty variant: back to the STOP with no second look at the flag.
BlindRecheck(c) ==
  /\ Step(c, "recheck")
  /\ Goto(c, "stop")
  /\ UNCHANGED <<calls, oldlevel, resume, level, flag, alreadyEntered, codeLevel, devVars, nested>>

Recheck(c) ==
  /\ Step(c, "recheck")
  /\ IF flag[c] THEN Goto(c, "leave") /\ level' = oldlevel[c]
                ELSE Goto(c, "stop") /\ UNCHANGED level
  /\ UNCHANGED <<calls, oldlevel, resume, flag, alreadyEntered, codeLevel, devVars, nested>>

Leave(c) ==
  /\ Step(c, "leave")
  /\ alreadyEntered' = FALSE
  /\ Goto(c, "return")
  /\ UNCHANGED <<calls, oldlevel, resume, level, flag, codeLevel, devVars, nested>>

\* QSend returns; a handler that called it returns to what it interrupted.
Return(c) ==
  /\ Step(c, "return")
  /\ calls' = SubSeq(calls, 1, Len(calls) - 1)
  /\ Goto(c, "idle")
  /\ level' = resume[c]
  /\ UNCHANGED <<oldlevel, resume, flag, alreadyEntered, codeLevel, devVars, nested>>

Answer(c) ==
  /\ c \in unanswered
  /\ unanswered' = unanswered \ {c}
  /\ answered' = answered \cup {c}
  /\ irq' = TRUE
  /\ UNCHANGED <<cpuVars, flag, alreadyEntered, codeLevel, nested>>

\* The device's interrupt: poll sets the flags of the requests completed.
Interrupt ==
  /\ irq /\ level < DevLevel
  /\ irq' = FALSE
  /\ flag' = [c \in Callers |-> flag[c] \/ c \in answered]
  /\ answered' = {}
  /\ pc' = Awake(pc)
  /\ UNCHANGED <<calls, oldlevel, resume, level, alreadyEntered, codeLevel, unanswered, nested>>

\* The 60 Hz tick, or any other level 1 interrupt, wakes a sleeper below it.
Tick ==
  /\ level < TickLevel
  /\ pc' = Awake(pc)
  /\ UNCHANGED <<calls, oldlevel, resume, level, flag, alreadyEntered, codeLevel, devVars, nested>>

Wait(c) == \/ EnterSpin(c) \/ EnterStop(c) \/ SpinDone(c) \/ Claim(c) \/ Edit(c)
           \/ Stop(c) \/ Check(c) \/ Mask(c) \/ Recheck(c) \/ Leave(c) \/ Return(c)

Next == \/ \E c \in Callers : \/ \E old \in OldLevels : Call(c, old)
                              \/ Wait(c)
                              \/ Answer(c)
        \/ Interrupt
        \/ Tick

Spec == Init /\ [][Next]_vars

(***************************************************************************)
(* Properties.                                                             *)
(***************************************************************************)
TypeOK ==
  /\ calls \in Seq(Callers)
  /\ pc \in [Callers -> {"idle", "entered", "spin", "claim", "edit", "stop", "asleep", "woken",
                         "mask", "recheck", "leave", "return"}]
  /\ oldlevel \in [Callers -> {0, 1}] /\ resume \in [Callers -> {0, 1}]
  /\ flag \in [Callers -> BOOLEAN]
  /\ level \in {0, 1, Masked}
  /\ alreadyEntered \in BOOLEAN /\ codeLevel \in {0, 1}
  /\ unanswered \subseteq Callers /\ answered \subseteq Callers /\ irq \in BOOLEAN
  /\ nested \in BOOLEAN

\* The race the second look at the flag closes: no caller is stopped with its
\* answer already in its flag, unless an interrupt is there to wake it.
NeverSleepsAnswered == \A c \in Callers : pc[c] = "asleep" /\ flag[c] => irq

\* It is closed as long as no wait has interrupted another, whatever the order
\* of answers, interrupts, ticks and looks at the flag.
AloneNeverSleepsAnswered == ~nested => NeverSleepsAnswered

\* Nor does a wait sleep, or come back, at the interrupt level another caller
\* left in the shared instruction: it has its own caller's.
OwnLevel == ~nested => \A c \in Callers :
              OnTop(c) /\ pc[c] \in {"asleep", "woken", "return"} => level = oldlevel[c]

\* The CPU executes; a pending interrupt is taken when it is unmasked; an
\* interrupted caller goes on when the handlers are done, however often they
\* come; the device answers.  No tick is promised.
Fairness == /\ \A c \in Callers : SF_vars(Wait(c)) /\ WF_vars(Answer(c))
            /\ SF_vars(Interrupt)

FairSpec == Spec /\ Fairness

EveryWaitEnds == \A c \in Callers : pc[c] = "entered" ~> pc[c] = "idle"

\* If no wait interrupts another, every wait ends, without the help of a tick.
AloneWaitsEnd == []~nested => EveryWaitEnds

\* Nested waits end too, if all are made at interrupt level 0 and the tick
\* keeps coming: it wakes whoever sleeps with the answer.
TickedWaitsEnd == ([](\A c \in Callers : oldlevel[c] = 0) /\ SF_vars(Tick)) => EveryWaitEnds

\* Every wait ends: alone without the tick, nested with it.
WaitsEnd == AloneWaitsEnd /\ TickedWaitsEnd
=============================================================================
