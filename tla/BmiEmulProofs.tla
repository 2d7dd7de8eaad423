--------------------------- MODULE BmiEmulProofs ---------------------------
(***************************************************************************)
(* For any finite set of contexts and whatever they run: no context is in  *)
(* the notifier once the module is gone, the total printed at unload       *)
(* misses no emulated instruction, what stops kernel code is known, and    *)
(* contexts see a processor with BMI.                                      *)
(*                                                                         *)
(* The first two count the contexts that have emulated an instruction and  *)
(* not yet added it to the counter.  The others follow the decoder and the *)
(* loops bit by bit, by induction on sets of numbers (UpTo).               *)
(***************************************************************************)
EXTENDS BmiEmul, FiniteSetTheorems, NaturalsInduction, WellFoundedInduction, TLAPS

Phases == {"code"} \union InHandler \union Stopped

\* The contexts between Emulate and Resume.
Owing == {c \in Contexts : phase[c] \in {"emulated", "advanced"}}

ControlOK ==
  /\ phase \in [Contexts -> Phases]
  /\ module \in {"out", "live", "exiting"}
  /\ registered \in BOOLEAN
  /\ count \in Nat /\ done \in Nat

\* The notifier is on the chain only while the module is live.
ChainInv == registered => module = "live"

CountInv == done = count + Cardinality(Owing)

LInv == ControlOK /\ ChainInv /\ HandlerResident /\ CountInv /\ CountExact

-----------------------------------------------------------------------------
\* The contexts that owe a count are finitely many.
LEMMA OwingFinite == IsFiniteSet(Owing) /\ Cardinality(Owing) \in Nat
<1>1. IsFiniteSet(Contexts) /\ Owing \subseteq Contexts
  BY EmulAssumption DEF EmulAssumption, Owing
<1> QED
  BY <1>1, FS_Subset, FS_CardinalityType

\* It holds when the machine starts, with the module loaded or not.
LEMMA InitLInv == Init => LInv
<1> SUFFICES ASSUME Init PROVE LInv
  OBVIOUS
<1>1. scenario.unload \in BOOLEAN
  BY EmulAssumption DEF EmulAssumption, Init
<1>2. Owing = {}
  BY DEF Init, Owing
<1>3. Cardinality(Owing) = 0
  BY <1>2, FS_EmptySet
<1>4. ControlOK /\ ChainInv /\ HandlerResident
  BY <1>1 DEF Init, ControlOK, ChainInv, HandlerResident, Phases, InHandler
<1>5. CountInv /\ CountExact
  BY <1>3 DEF Init, CountInv, CountExact
<1> QED
  BY <1>4, <1>5 DEF LInv

\* A context that moves without emulating or counting owes what it owed.
LEMMA SameDebt ==
  ASSUME LInv, NEW c \in Contexts, NEW p \in Phases,
         phase' = [phase EXCEPT ![c] = p],
         phase[c] \in {"emulated", "advanced"} <=> p \in {"emulated", "advanced"},
         p \in InHandler => phase[c] \in InHandler \/ registered,
         UNCHANGED <<module, registered, count, done, report>>
  PROVE  LInv'
<1>1. phase \in [Contexts -> Phases]
  BY DEF LInv, ControlOK
<1>2. \A d \in Contexts : phase'[d] = IF d = c THEN p ELSE phase[d]
  BY <1>1
<1>3. Owing' = Owing
  BY <1>2 DEF Owing
<1>4. ControlOK' /\ ChainInv' /\ CountExact'
  BY <1>1 DEF LInv, ControlOK, ChainInv, CountExact
<1>5. HandlerResident'
  BY <1>2 DEF LInv, ChainInv, HandlerResident
<1>6. CountInv'
  BY <1>3 DEF LInv, CountInv
<1> QED
  BY <1>4, <1>5, <1>6 DEF LInv

\* What the chain does when nobody stops it leads out of the notifier.
LEMMA DefaultStep ==
  ASSUME NEW c \in Contexts, Default(c)
  PROVE  \E p \in {"code"} \union Stopped : phase' = [phase EXCEPT ![c] = p]
  BY DEF Default, Goto, Stopped

\* Entering the notifier needs it on the chain, so the module is live.
LEMMA TrapStep == ASSUME NEW c \in Contexts PROVE LInv /\ Trap(c) => LInv'
<1> SUFFICES ASSUME LInv, Trap(c) PROVE LInv'
  OBVIOUS
<1>1. phase[c] = "code" /\ UNCHANGED <<module, registered, count, done, report>>
  BY DEF Trap, ModuleVars
<1>2. CASE registered
  <2>1. phase' = [phase EXCEPT ![c] = "notified"]
    BY <1>2 DEF Trap, Goto
  <2> QED
    BY <1>1, <1>2, <2>1, SameDebt DEF Phases, InHandler
<1>3. CASE ~registered
  <2>1. PICK p \in {"code"} \union Stopped : phase' = [phase EXCEPT ![c] = p]
    BY <1>3, DefaultStep DEF Trap
  <2> QED
    BY <1>1, <2>1, SameDebt DEF Phases, InHandler, Stopped
<1> QED
  BY <1>2, <1>3

\* Handing the trap on.
LEMMA NotifyDoneStep == ASSUME NEW c \in Contexts PROVE LInv /\ NotifyDone(c) => LInv'
<1> SUFFICES ASSUME LInv, NotifyDone(c) PROVE LInv'
  OBVIOUS
<1>1. phase[c] = "notified" /\ UNCHANGED <<module, registered, count, done, report>>
  BY DEF NotifyDone, ModuleVars
<1>2. PICK p \in {"code"} \union Stopped : phase' = [phase EXCEPT ![c] = p]
  BY DefaultStep DEF NotifyDone
<1> QED
  BY <1>1, <1>2, SameDebt DEF Phases, InHandler, Stopped

\* A fault on the operand ends the context, Advance only moves it on.
LEMMA FaultAdvanceStep ==
  ASSUME NEW c \in Contexts PROVE LInv /\ (Fault(c) \/ Advance(c)) => LInv'
<1>1. ASSUME LInv, Fault(c) PROVE LInv'
  <2>1. /\ phase[c] = "notified" /\ phase' = [phase EXCEPT ![c] = "oops"]
        /\ UNCHANGED <<module, registered, count, done, report>>
    BY <1>1 DEF Fault, Goto, ModuleVars
  <2> QED
    BY <1>1, <2>1, SameDebt DEF Phases, InHandler, Stopped
<1>2. ASSUME LInv, Advance(c) PROVE LInv'
  <2>1. /\ phase[c] = "emulated" /\ phase' = [phase EXCEPT ![c] = "advanced"]
        /\ UNCHANGED <<module, registered, count, done, report>>
    BY <1>2 DEF Advance, Goto, ModuleVars
  <2> QED
    BY <1>2, <2>1, SameDebt DEF Phases, InHandler
<1> QED
  BY <1>1, <1>2

\* One more instruction done, one more context that owes its count.
LEMMA EmulateStep == ASSUME NEW c \in Contexts PROVE LInv /\ Emulate(c) => LInv'
<1> SUFFICES ASSUME LInv, Emulate(c) PROVE LInv'
  OBVIOUS
<1>1. /\ phase[c] = "notified" /\ phase' = [phase EXCEPT ![c] = "emulated"]
      /\ done' = done + 1
      /\ UNCHANGED <<module, registered, count, report>>
  BY DEF Emulate, Goto
<1>2. phase \in [Contexts -> Phases]
  BY DEF LInv, ControlOK
<1>3. \A d \in Contexts : phase'[d] = IF d = c THEN "emulated" ELSE phase[d]
  BY <1>1, <1>2
<1>4. Owing' = Owing \union {c} /\ c \notin Owing
  BY <1>1, <1>3 DEF Owing
<1>5. Cardinality(Owing') = Cardinality(Owing) + 1
  BY <1>4, OwingFinite, FS_AddElement
<1>6. ControlOK' /\ ChainInv'
  BY <1>1, <1>2 DEF LInv, ControlOK, ChainInv, Phases, InHandler
<1>7. HandlerResident'
  BY <1>1, <1>3 DEF LInv, HandlerResident, InHandler
<1>8. CountInv'
  BY <1>1, <1>5, OwingFinite DEF LInv, CountInv, ControlOK
<1>9. CountExact'
  BY <1>1 DEF LInv, CountExact
<1> QED
  BY <1>6, <1>7, <1>8, <1>9 DEF LInv

\* The count is paid.
LEMMA ResumeStep == ASSUME NEW c \in Contexts PROVE LInv /\ Resume(c) => LInv'
<1> SUFFICES ASSUME LInv, Resume(c) PROVE LInv'
  OBVIOUS
<1>1. /\ phase[c] = "advanced" /\ phase' = [phase EXCEPT ![c] = "code"]
      /\ count' = count + 1
      /\ UNCHANGED <<module, registered, done, report>>
  BY DEF Resume, Goto
<1>2. phase \in [Contexts -> Phases]
  BY DEF LInv, ControlOK
<1>3. \A d \in Contexts : phase'[d] = IF d = c THEN "code" ELSE phase[d]
  BY <1>1, <1>2
<1>4. Owing' = Owing \ {c} /\ c \in Owing
  BY <1>1, <1>3 DEF Owing
<1>5. Cardinality(Owing') = Cardinality(Owing) - 1
  BY <1>4, OwingFinite, FS_RemoveElement
<1>6. ControlOK' /\ ChainInv'
  BY <1>1, <1>2 DEF LInv, ControlOK, ChainInv, Phases
<1>7. HandlerResident'
  BY <1>1, <1>3 DEF LInv, HandlerResident, InHandler
<1>8. CountInv'
  BY <1>1, <1>5, OwingFinite DEF LInv, CountInv, ControlOK
<1>9. CountExact'
  BY <1>1 DEF LInv, CountExact
<1> QED
  BY <1>6, <1>7, <1>8, <1>9 DEF LInv

\* Without the module no context is in the notifier, so a new count starts
\* with nothing owed.
LEMMA LoadStep == LInv /\ Load => LInv'
<1> SUFFICES ASSUME LInv, Load PROVE LInv'
  OBVIOUS
<1>1. /\ module = "out" /\ module' = "live" /\ count' = 0 /\ done' = 0 /\ registered' = TRUE
      /\ UNCHANGED <<phase, report>>
  BY DEF Load
<1>2. Owing' = {}
  BY <1>1 DEF LInv, HandlerResident, Owing, InHandler
<1>3. Cardinality(Owing') = 0
  BY <1>2, FS_EmptySet
<1>4. ControlOK' /\ ChainInv' /\ HandlerResident'
  BY <1>1 DEF LInv, ControlOK, ChainInv, HandlerResident
<1>5. CountInv' /\ CountExact'
  BY <1>1, <1>3 DEF LInv, CountInv, CountExact
<1> QED
  BY <1>4, <1>5 DEF LInv

\* Off the chain, and still there.
LEMMA UnloadStep == LInv /\ Unload => LInv'
<1> SUFFICES ASSUME LInv, Unload PROVE LInv'
  OBVIOUS
<1>1. /\ module' = "exiting" /\ registered' = FALSE
      /\ UNCHANGED <<phase, count, done, report>>
  BY DEF Unload
<1>2. Owing' = Owing
  BY <1>1 DEF Owing
<1>3. ControlOK' /\ ChainInv' /\ HandlerResident'
  BY <1>1 DEF LInv, ControlOK, ChainInv, HandlerResident
<1>4. CountInv' /\ CountExact'
  BY <1>1, <1>2 DEF LInv, CountInv, CountExact
<1> QED
  BY <1>3, <1>4 DEF LInv

\* When the wait is over nobody owes a count, so the total is complete.
LEMMA GoneStep == LInv /\ Gone => LInv'
<1> SUFFICES ASSUME LInv, Gone PROVE LInv'
  OBVIOUS
<1>1. /\ module = "exiting" /\ module' = "out"
      /\ \A c \in Contexts : phase[c] \notin InHandler
      /\ report' = <<count, done>>
      /\ UNCHANGED <<phase, registered, count, done>>
  BY DEF Gone
<1>2. Owing = {} /\ Owing' = {}
  BY <1>1 DEF Owing, InHandler
<1>3. Cardinality(Owing) = 0 /\ Cardinality(Owing') = 0
  BY <1>2, FS_EmptySet
<1>4. done = count
  BY <1>3 DEF LInv, CountInv, ControlOK
<1>5. ControlOK' /\ ChainInv' /\ HandlerResident'
  BY <1>1 DEF LInv, ControlOK, ChainInv, HandlerResident
<1>6. CountInv' /\ CountExact'
  BY <1>1, <1>3, <1>4 DEF LInv, ControlOK, CountInv, CountExact
<1> QED
  BY <1>5, <1>6 DEF LInv

\* Nothing changes.
LEMMA IdleStep == LInv /\ UNCHANGED vars => LInv'
  BY DEF LInv, vars, ControlOK, ChainInv, HandlerResident, CountInv, CountExact, Owing

\* The invariant of loading, trapping and counting holds in every run.
THEOREM LifecycleInvariance == Spec => []LInv
<1>1. LInv /\ [Next]_vars => LInv'
  <2> SUFFICES ASSUME LInv, [Next]_vars PROVE LInv'
    OBVIOUS
  <2>1. ASSUME NEW c \in Contexts, Handler(c) PROVE LInv'
    BY <2>1, TrapStep, NotifyDoneStep, FaultAdvanceStep, EmulateStep, ResumeStep DEF Handler
  <2>2. CASE Load \/ Unload \/ Gone
    BY <2>2, LoadStep, UnloadStep, GoneStep
  <2>3. CASE UNCHANGED vars
    BY <2>3, IdleStep
  <2> QED
    BY <2>1, <2>2, <2>3 DEF Next
<1> QED
  BY InitLInv, <1>1, PTL DEF Spec

\* No context executes module code after the module is gone (381).
THEOREM NotifierStaysMapped == Spec => []HandlerResident
<1>1. LInv => HandlerResident
  BY DEF LInv
<1> QED
  BY <1>1, LifecycleInvariance, PTL

\* Every total printed at unload is the number of instructions emulated.
THEOREM TotalIsExact == Spec => []CountExact
<1>1. LInv => CountExact
  BY DEF LInv
<1> QED
  BY <1>1, LifecycleInvariance, PTL
-----------------------------------------------------------------------------
(* Words and numbers. *)

\* Pairs of the library's order on numbers.
LEMMA SmallerPairs ==
  ASSUME NEW x \in Nat, NEW y \in Nat, ~(<<y, x>> \in OpToRel(<, Nat))
  PROVE  x <= y
<1>1. y < x => <<y, x>> \in OpToRel(<, Nat)
  BY DEF OpToRel
<1> QED
  BY <1>1 DEF OpToRel

\* A set that has 0 and with each number the next one has all up to k.
LEMMA UpTo ==
  ASSUME NEW k \in Nat, NEW S, 0 \in S, \A n \in 0 .. k - 1 : n \in S => n + 1 \in S
  PROVE  \A n \in 0 .. k : n \in S
<1> DEFINE R == OpToRel(<, Nat)
           T == {n \in 0 .. k : n \notin S}
<1> SUFFICES ASSUME T # {} PROVE FALSE
  OBVIOUS
<1>1. T \subseteq Nat
  OBVIOUS
<1>2. PICK x \in T : \A y \in T : ~(<<y, x>> \in R)
  BY <1>1, NatLessThanWellFounded, WFMin
<1>3. \A y \in T : x <= y
  BY <1>1, <1>2, SmallerPairs
<1>4. x \in 0 .. k /\ x \notin S /\ x # 0
  OBVIOUS
<1>5. x - 1 \in 0 .. k - 1 /\ x - 1 \in S
  BY <1>3, <1>4
<1> QED
  BY <1>4, <1>5

\* What Num adds at bit m - 1.
SumStep(sum, m, x) ==
  IF m = 0 THEN 0 ELSE sum[m - 1] + (IF m - 1 \in x THEN 2 ^ (m - 1) ELSE 0)

\* Num is the last of its partial sums.
LEMMA NumSums ==
  ASSUME NEW x
  PROVE  \E sum : /\ sum = [m \in 0 .. WordBits |-> SumStep(sum, m, x)]
                  /\ Num(x) = sum[WordBits]
<1> DEFINE Sums(n) == \E f : f = [m \in 0 .. n |-> SumStep(f, m, x)]
           S == {n \in 0 .. WordBits : Sums(n)}
<1>1. WordBits \in Nat
  BY WordsAssumption DEF WordsAssumption
<1>2. Sums(0)
  <2> DEFINE f == [m \in 0 .. 0 |-> 0]
  <2>1. f = [m \in 0 .. 0 |-> SumStep(f, m, x)]
    BY DEF SumStep
  <2> QED
    BY <2>1
<1>3. ASSUME NEW n \in 0 .. WordBits - 1, Sums(n) PROVE Sums(n + 1)
  <2>1. PICK f : f = [m \in 0 .. n |-> SumStep(f, m, x)]
    BY <1>3
  <2> DEFINE g == [m \in 0 .. n + 1 |-> IF m = n + 1 THEN SumStep(f, m, x) ELSE f[m]]
  <2>2. n \in Nat
    BY <1>1
  <2>3. ASSUME NEW m \in 0 .. n + 1 PROVE g[m] = SumStep(g, m, x)
    <3>1. m # 0 => m - 1 \in 0 .. n
      BY <2>2
    <3>2. m # 0 => g[m - 1] = f[m - 1]
      BY <2>2, <3>1
    <3>3. SumStep(g, m, x) = SumStep(f, m, x)
      BY <3>2 DEF SumStep
    <3>4. m # n + 1 => m \in 0 .. n
      BY <2>2
    <3>5. m # n + 1 => f[m] = SumStep(f, m, x)
      BY <2>1, <3>4
    <3> QED
      BY <3>3, <3>5
  <2>4. g = [m \in 0 .. n + 1 |-> SumStep(g, m, x)]
    BY <2>3
  <2> QED
    BY <2>4
<1> HIDE DEF Sums
<1>4. WordBits \in S
  <2>1. 0 \in S /\ \A n \in 0 .. WordBits - 1 : n \in S => n + 1 \in S
    BY <1>1, <1>2, <1>3
  <2> HIDE DEF S
  <2>2. \A n \in 0 .. WordBits : n \in S
    BY <1>1, <2>1, UpTo
  <2> QED
    BY <1>1, <2>2
<1>5. Sums(WordBits)
  BY <1>4
<1> DEFINE h == CHOOSE sum : sum = [m \in 0 .. WordBits |-> SumStep(sum, m, x)]
<1>6. h = [m \in 0 .. WordBits |-> SumStep(h, m, x)]
  BY <1>5 DEF Sums
<1>7. Num(x) = h[WordBits]
  BY DEF Num, SumStep
<1> QED
  BY <1>6, <1>7

\* What emu_pext does at bit m - 1.
PextStep(st, m, src, mask) ==
  IF m = 0 THEN [res |-> {}, k |-> 0]
  ELSE LET s == st[m - 1]
       IN  IF m - 1 \notin mask THEN s
           ELSE [res |-> IF m - 1 \in src THEN s.res \union {s.k} ELSE s.res,
                 k   |-> s.k + 1]

\* The loop of emu_pext has a state behind every bit.
LEMMA PextStates ==
  ASSUME NEW src, NEW mask
  PROVE  \E st : /\ st = [m \in 0 .. WordBits |-> PextStep(st, m, src, mask)]
                 /\ PextLoop(src, mask) = st[WordBits].res
<1> DEFINE Runs(n) == \E f : f = [m \in 0 .. n |-> PextStep(f, m, src, mask)]
           S == {n \in 0 .. WordBits : Runs(n)}
<1>1. WordBits \in Nat
  BY WordsAssumption DEF WordsAssumption
<1>2. Runs(0)
  <2> DEFINE f == [m \in 0 .. 0 |-> [res |-> {}, k |-> 0]]
  <2>1. f = [m \in 0 .. 0 |-> PextStep(f, m, src, mask)]
    BY DEF PextStep
  <2> QED
    BY <2>1
<1>3. ASSUME NEW n \in 0 .. WordBits - 1, Runs(n) PROVE Runs(n + 1)
  <2>1. PICK f : f = [m \in 0 .. n |-> PextStep(f, m, src, mask)]
    BY <1>3
  <2> DEFINE g == [m \in 0 .. n + 1 |->
                     IF m = n + 1 THEN PextStep(f, m, src, mask) ELSE f[m]]
  <2>2. n \in Nat
    BY <1>1
  <2>3. ASSUME NEW m \in 0 .. n + 1 PROVE g[m] = PextStep(g, m, src, mask)
    <3>1. m # 0 => m - 1 \in 0 .. n
      BY <2>2
    <3>2. m # 0 => g[m - 1] = f[m - 1]
      BY <2>2, <3>1
    <3>3. PextStep(g, m, src, mask) = PextStep(f, m, src, mask)
      BY <3>2 DEF PextStep
    <3>4. m # n + 1 => m \in 0 .. n
      BY <2>2
    <3>5. m # n + 1 => f[m] = PextStep(f, m, src, mask)
      BY <2>1, <3>4
    <3> QED
      BY <3>3, <3>5
  <2>4. g = [m \in 0 .. n + 1 |-> PextStep(g, m, src, mask)]
    BY <2>3
  <2> QED
    BY <2>4
<1> HIDE DEF Runs
<1>4. WordBits \in S
  <2>1. 0 \in S /\ \A n \in 0 .. WordBits - 1 : n \in S => n + 1 \in S
    BY <1>1, <1>2, <1>3
  <2> HIDE DEF S
  <2>2. \A n \in 0 .. WordBits : n \in S
    BY <1>1, <2>1, UpTo
  <2> QED
    BY <1>1, <2>2
<1>5. Runs(WordBits)
  BY <1>4
<1> DEFINE h == CHOOSE st : st = [m \in 0 .. WordBits |-> PextStep(st, m, src, mask)]
<1>6. h = [m \in 0 .. WordBits |-> PextStep(h, m, src, mask)]
  BY <1>5 DEF Runs
<1>7. PextLoop(src, mask) = h[WordBits].res
  BY DEF PextLoop, PextStep
<1> QED
  BY <1>6, <1>7

\* It gives a word.
LEMMA PextWord ==
  ASSUME NEW src, NEW mask
  PROVE  PextLoop(src, mask) \in Words
<1>1. PICK st : /\ st = [m \in 0 .. WordBits |-> PextStep(st, m, src, mask)]
                /\ PextLoop(src, mask) = st[WordBits].res
  BY PextStates
<1>2. WordBits \in Nat
  BY WordsAssumption DEF WordsAssumption
<1> DEFINE S == {m \in 0 .. WordBits : st[m].res \in Words /\ st[m].k \in 0 .. m}
<1>3. \A m \in 0 .. WordBits : st[m] = PextStep(st, m, src, mask)
  BY <1>1
<1>4. 0 \in S
  <2>1. 0 \in 0 .. WordBits
    BY <1>2
  <2>2. st[0] = PextStep(st, 0, src, mask)
    BY <1>3, <2>1
  <2>3. st[0] = [res |-> {}, k |-> 0]
    BY <2>2 DEF PextStep
  <2> QED
    BY <2>1, <2>3 DEF Words
<1>5. ASSUME NEW n \in 0 .. WordBits - 1, n \in S PROVE n + 1 \in S
  <2>1. n \in Nat /\ n + 1 \in 0 .. WordBits /\ n + 1 # 0 /\ (n + 1) - 1 = n
    BY <1>2
  <2>2. st[n].res \in Words /\ st[n].k \in 0 .. n
    BY <1>5
  <2>3. st[n + 1] = IF n \notin mask THEN st[n]
                    ELSE [res |-> IF n \in src THEN st[n].res \union {st[n].k} ELSE st[n].res,
                          k   |-> st[n].k + 1]
    BY <1>3, <2>1 DEF PextStep
  <2>4. st[n + 1].res \subseteq st[n].res \union {n, st[n].k} /\ st[n + 1].k \in {st[n].k, st[n].k + 1}
    BY <2>3
  <2>5. n \in 0 .. WordBits - 1 /\ st[n].k \in 0 .. WordBits - 1
    BY <1>2, <2>1, <2>2
  <2>6. st[n + 1].res \in Words
    BY <2>2, <2>4, <2>5 DEF Words
  <2>7. st[n + 1].k \in 0 .. n + 1
    BY <2>1, <2>2, <2>4
  <2> QED
    BY <2>1, <2>6, <2>7
<1> HIDE DEF S
<1>6. \A m \in 0 .. WordBits : m \in S
  BY <1>2, <1>4, <1>5, UpTo
<1>7. WordBits \in S
  BY <1>2, <1>6
<1> QED
  BY <1>1, <1>7 DEF S

\* What emu_pdep does at bit m - 1.
PdepStep(st, m, src, mask) ==
  IF m = 0 THEN [res |-> {}, k |-> 0]
  ELSE LET s == st[m - 1]
       IN  IF m - 1 \notin mask THEN s
           ELSE [res |-> IF s.k \in src THEN s.res \union {m - 1} ELSE s.res,
                 k   |-> s.k + 1]

\* The loop of emu_pdep has a state behind every bit.
LEMMA PdepStates ==
  ASSUME NEW src, NEW mask
  PROVE  \E st : /\ st = [m \in 0 .. WordBits |-> PdepStep(st, m, src, mask)]
                 /\ PdepLoop(src, mask) = st[WordBits].res
<1> DEFINE Runs(n) == \E f : f = [m \in 0 .. n |-> PdepStep(f, m, src, mask)]
           S == {n \in 0 .. WordBits : Runs(n)}
<1>1. WordBits \in Nat
  BY WordsAssumption DEF WordsAssumption
<1>2. Runs(0)
  <2> DEFINE f == [m \in 0 .. 0 |-> [res |-> {}, k |-> 0]]
  <2>1. f = [m \in 0 .. 0 |-> PdepStep(f, m, src, mask)]
    BY DEF PdepStep
  <2> QED
    BY <2>1
<1>3. ASSUME NEW n \in 0 .. WordBits - 1, Runs(n) PROVE Runs(n + 1)
  <2>1. PICK f : f = [m \in 0 .. n |-> PdepStep(f, m, src, mask)]
    BY <1>3
  <2> DEFINE g == [m \in 0 .. n + 1 |->
                     IF m = n + 1 THEN PdepStep(f, m, src, mask) ELSE f[m]]
  <2>2. n \in Nat
    BY <1>1
  <2>3. ASSUME NEW m \in 0 .. n + 1 PROVE g[m] = PdepStep(g, m, src, mask)
    <3>1. m # 0 => m - 1 \in 0 .. n
      BY <2>2
    <3>2. m # 0 => g[m - 1] = f[m - 1]
      BY <2>2, <3>1
    <3>3. PdepStep(g, m, src, mask) = PdepStep(f, m, src, mask)
      BY <3>2 DEF PdepStep
    <3>4. m # n + 1 => m \in 0 .. n
      BY <2>2
    <3>5. m # n + 1 => f[m] = PdepStep(f, m, src, mask)
      BY <2>1, <3>4
    <3> QED
      BY <3>3, <3>5
  <2>4. g = [m \in 0 .. n + 1 |-> PdepStep(g, m, src, mask)]
    BY <2>3
  <2> QED
    BY <2>4
<1> HIDE DEF Runs
<1>4. WordBits \in S
  <2>1. 0 \in S /\ \A n \in 0 .. WordBits - 1 : n \in S => n + 1 \in S
    BY <1>1, <1>2, <1>3
  <2> HIDE DEF S
  <2>2. \A n \in 0 .. WordBits : n \in S
    BY <1>1, <2>1, UpTo
  <2> QED
    BY <1>1, <2>2
<1>5. Runs(WordBits)
  BY <1>4
<1> DEFINE h == CHOOSE st : st = [m \in 0 .. WordBits |-> PdepStep(st, m, src, mask)]
<1>6. h = [m \in 0 .. WordBits |-> PdepStep(h, m, src, mask)]
  BY <1>5 DEF Runs
<1>7. PdepLoop(src, mask) = h[WordBits].res
  BY DEF PdepLoop, PdepStep
<1> QED
  BY <1>6, <1>7

\* It gives a word.
LEMMA PdepWord ==
  ASSUME NEW src, NEW mask
  PROVE  PdepLoop(src, mask) \in Words
<1>1. PICK st : /\ st = [m \in 0 .. WordBits |-> PdepStep(st, m, src, mask)]
                /\ PdepLoop(src, mask) = st[WordBits].res
  BY PdepStates
<1>2. WordBits \in Nat
  BY WordsAssumption DEF WordsAssumption
<1> DEFINE S == {m \in 0 .. WordBits : st[m].res \in Words /\ st[m].k \in 0 .. m}
<1>3. \A m \in 0 .. WordBits : st[m] = PdepStep(st, m, src, mask)
  BY <1>1
<1>4. 0 \in S
  <2>1. 0 \in 0 .. WordBits
    BY <1>2
  <2>2. st[0] = PdepStep(st, 0, src, mask)
    BY <1>3, <2>1
  <2>3. st[0] = [res |-> {}, k |-> 0]
    BY <2>2 DEF PdepStep
  <2> QED
    BY <2>1, <2>3 DEF Words
<1>5. ASSUME NEW n \in 0 .. WordBits - 1, n \in S PROVE n + 1 \in S
  <2>1. n \in Nat /\ n + 1 \in 0 .. WordBits /\ n + 1 # 0 /\ (n + 1) - 1 = n
    BY <1>2
  <2>2. st[n].res \in Words /\ st[n].k \in 0 .. n
    BY <1>5
  <2>3. st[n + 1] = IF n \notin mask THEN st[n]
                    ELSE [res |-> IF st[n].k \in src THEN st[n].res \union {n} ELSE st[n].res,
                          k   |-> st[n].k + 1]
    BY <1>3, <2>1 DEF PdepStep
  <2>4. st[n + 1].res \subseteq st[n].res \union {n, st[n].k} /\ st[n + 1].k \in {st[n].k, st[n].k + 1}
    BY <2>3
  <2>5. n \in 0 .. WordBits - 1 /\ st[n].k \in 0 .. WordBits - 1
    BY <1>2, <2>1, <2>2
  <2>6. st[n + 1].res \in Words
    BY <2>2, <2>4, <2>5 DEF Words
  <2>7. st[n + 1].k \in 0 .. n + 1
    BY <2>1, <2>2, <2>4
  <2> QED
    BY <2>1, <2>6, <2>7
<1> HIDE DEF S
<1>6. \A m \in 0 .. WordBits : m \in S
  BY <1>2, <1>4, <1>5, UpTo
<1>7. WordBits \in S
  BY <1>2, <1>6
<1> QED
  BY <1>1, <1>7 DEF S

-----------------------------------------------------------------------------
(* Types. *)

\* Addresses of code.
CodeAddrs == 0 .. 2 ^ WordBits - 1

\* Every scenario is as assumed.
LEMMA ScenarioFacts ==
  ASSUME scenario \in Scenarios, NEW c \in Contexts
  PROVE  /\ scenario.unload \in BOOLEAN /\ user[c] \in BOOLEAN
         /\ scenario.start[c] \in CodeAddrs /\ scenario.regs[c] \in RegFiles
         /\ \A p \in DOMAIN code[c] :
              /\ p \in CodeAddrs /\ code[c][p] \in Insns
              /\ code[c][p].m.disp \in - 2 ^ (Size(0) - 1) .. 2 ^ (Size(0) - 1) - 1
              /\ code[c][p].opcode = "F6" => code[c][p].pp = 3
  BY EmulAssumption DEF EmulAssumption, CodeType, CodeAddrs, user, code

\* The results of an instruction are words, whatever it decodes to.
LEMMA EmulatedWord ==
  ASSUME NEW i \in Insns, NEW r \in RegFiles, NEW p, ~Faults(i, r, p), Handled(i)
  PROVE  Emulated(i, r, p) \in Words
<1> DEFINE s == SrcRm(i, r, p)
           v == SrcVvv(i, r)
           cnt == Num(v) % Size(i.w)
<1>1. /\ i.w \in {0, 1} /\ i.m \in ModRMs /\ i.pp \in 0 .. 3 /\ i.reg \in RegIds /\ i.vvvv \in RegIds
  BY DEF Insns
<1>2. WordBits \in Nat \ {0} /\ Size(i.w) \in Nat \ {0} /\ Size(i.w) <= WordBits
  BY <1>1, WordsAssumption DEF WordsAssumption, Size
<1>3. Ones(i.w) \subseteq 0 .. WordBits - 1
  BY <1>2 DEF Ones
<1>4. s \in Words
  BY <1>3 DEF SrcRm, Trunc, Words
<1>5. \A x, n : Low(x, n) \subseteq x
  BY DEF Low
<1>6. \A x, n : Shl(x, n, i.w) \subseteq Ones(i.w) /\ Shr(x, n, i.w) \subseteq Ones(i.w)
  BY DEF Shl, Shr
<1>7. \A x, n : Sar(x, n, i.w) \subseteq Ones(i.w)
  BY <1>6 DEF Sar
<1>8. \A n : Bits(n, Size(i.w)) \subseteq Ones(i.w)
  BY DEF Bits, Ones
<1>9. \A x, y : MulHigh(x, y, i.w) \subseteq Ones(i.w)
  BY <1>8 DEF MulHigh
<1>10. Ror(s, i.imm % Size(i.w), i.w) \subseteq Ones(i.w)
  <2>1. i.imm \in Nat
    BY DEF Insns
  <2>2. ASSUME NEW k \in Int PROVE k % Size(i.w) \in Ones(i.w)
    BY <1>2 DEF Ones
  <2>3. i.imm % Size(i.w) \in Int
    BY <1>2, <2>1
  <2>4. \A k \in Trunc(s, i.w) : k - (i.imm % Size(i.w)) \in Int
    BY <1>2, <2>3 DEF Trunc, Ones
  <2> QED
    BY <2>2, <2>4 DEF Ror
<1> HIDE DEF s, v, cnt
<1>11. \/ Emulated(i, r, p) = Low(s, cnt)
       \/ Emulated(i, r, p) = PextLoop(s, v)
       \/ Emulated(i, r, p) = PdepLoop(v, s)
       \/ Emulated(i, r, p) = MulHigh(r[2], s, i.w)
       \/ Emulated(i, r, p) = Sar(s, cnt, i.w)
       \/ Emulated(i, r, p) = Shr(s, cnt, i.w)
       \/ Emulated(i, r, p) = Shl(s, cnt, i.w)
       \/ Emulated(i, r, p) = Ror(s, i.imm % Size(i.w), i.w)
  BY DEF Handled, Emulated, s, v, cnt
<1>12. \A x : x \subseteq Ones(i.w) => x \in Words
  BY <1>3 DEF Words
<1>13. Low(s, cnt) \in Words
  BY <1>4, <1>5 DEF Words
<1> QED
  BY <1>6, <1>7, <1>9, <1>10, <1>11, <1>12, <1>13, PextWord, PdepWord

\* Registers stay registers.
LEMMA SetRegsType ==
  ASSUME NEW i \in Insns, NEW r \in RegFiles, NEW p, ~Faults(i, r, p), Handled(i)
  PROVE  SetRegs(i, r, p) \in RegFiles
<1>1. Emulated(i, r, p) \in Words
  BY EmulatedWord
<1>2. MulLow(r[2], SrcRm(i, r, p), i.w) \in Words
  <2>1. i.w \in {0, 1}
    BY DEF Insns
  <2>2. WordBits \in Nat \ {0} /\ Size(i.w) \in Nat \ {0} /\ Size(i.w) <= WordBits
    BY <2>1, WordsAssumption DEF WordsAssumption, Size
  <2>3. \A n : Bits(n, Size(i.w)) \subseteq 0 .. WordBits - 1
    BY <2>2 DEF Bits
  <2> QED
    BY <2>3 DEF MulLow, Words
<1> DEFINE e == Emulated(i, r, p)
           low == MulLow(r[2], SrcRm(i, r, p), i.w)
           mid == IF i.opcode = "F6" THEN [r EXCEPT ![i.vvvv] = low] ELSE r
<1>3. SetRegs(i, r, p) = [mid EXCEPT ![i.reg] = e]
  BY DEF SetRegs
<1> HIDE DEF e, low
<1>4. mid \in RegFiles
  BY <1>2 DEF low, RegFiles
<1> HIDE DEF mid
<1> QED
  BY <1>1, <1>3, <1>4 DEF e, RegFiles

\* What decode_modrm consumes.
LEMMA ModRMLenType == ASSUME NEW i \in Insns PROVE ModRMLen(i) \in 1 .. 6
<1>1. i.m.mod \in 0 .. 3
  BY DEF Insns, ModRMs
<1>2. CASE i.m.mod = 0
  BY <1>2 DEF ModRMLen
<1>3. CASE i.m.mod = 1
  BY <1>3 DEF ModRMLen
<1>4. CASE i.m.mod = 2
  BY <1>4 DEF ModRMLen
<1>5. CASE i.m.mod = 3
  <2>1. ModRMLen(i) = 1
    BY <1>5, Zenon DEF ModRMLen
  <2> QED
    BY <2>1
<1> QED
  BY <1>1, <1>2, <1>3, <1>4, <1>5

\* A context in the notifier is at an instruction.
InCodeInv ==
  \A c \in Contexts : phase[c] \in {"notified", "emulated"} => ip[c] \in DOMAIN code[c]

TInv == scenario \in Scenarios /\ TypeOK /\ InCodeInv

\* The instruction pointer wraps around.
LEMMA Wraps ==
  ASSUME NEW c \in Contexts, ip \in [Contexts -> CodeAddrs], NEW n \in Nat, Next_ip(c, n)
  PROVE  ip' \in [Contexts -> CodeAddrs]
<1>1. WordBits \in 0 .. WordBits
  BY WordsAssumption DEF WordsAssumption
<1>2. 2 ^ WordBits \in Nat \ {0}
  BY <1>1, PowersAssumption DEF PowersAssumption
<1> DEFINE P == 2 ^ WordBits
<1>3. CodeAddrs = 0 .. P - 1 /\ P \in Nat \ {0}
  BY <1>2 DEF CodeAddrs
<1>4. ip' = [ip EXCEPT ![c] = (@ + n) % P]
  BY DEF Next_ip
<1> HIDE DEF P
<1>5. ip[c] + n \in Nat
  BY <1>3
<1>6. (ip[c] + n) % P \in 0 .. P - 1
  BY <1>3, <1>5
<1> QED
  BY <1>3, <1>4, <1>6

\* The types when the machine starts.
LEMMA InitTypes == Init => TInv
<1> SUFFICES ASSUME Init PROVE TInv
  OBVIOUS
<1>1. scenario \in Scenarios
  BY DEF Init
<1>2. \A c \in Contexts : /\ scenario.start[c] \in CodeAddrs
                          /\ scenario.regs[c] \in RegFiles
  BY <1>1, ScenarioFacts
<1>3. scenario.unload \in BOOLEAN /\ MaxLoads \in Nat
  BY <1>1, EmulAssumption DEF EmulAssumption
<1>4. ip \in [Contexts -> CodeAddrs]
  BY <1>2 DEF Init
<1>5. regs \in [Contexts -> RegFiles]
  BY <1>1, <1>2, EmulAssumption DEF Init, EmulAssumption
<1>6. phase \in [Contexts -> {"code"}] /\ len \in [Contexts -> {0}]
  BY DEF Init
<1>7. TypeOK
  BY <1>3, <1>4, <1>5, <1>6 DEF Init, TypeOK, CodeAddrs
<1>8. InCodeInv
  BY <1>6 DEF InCodeInv
<1> QED
  BY <1>1, <1>7, <1>8 DEF TInv

\* A context that goes to another phase of the same step.
LEMMA GotoTypes ==
  ASSUME TInv, NEW c \in Contexts, NEW q \in Phases, Goto(c, q), UNCHANGED ip,
         UNCHANGED <<scenario, module, registered, count, done, report, loads>>,
         regs' \in [Contexts -> RegFiles], len' \in [Contexts -> 0 .. 15],
         q \in {"notified", "emulated"} => ip[c] \in DOMAIN code[c]
  PROVE  TInv'
<1>1. phase \in [Contexts -> Phases]
  BY DEF TInv, TypeOK, Phases
<1>2. phase' \in [Contexts -> Phases]
  BY <1>1 DEF Goto
<1>3. \A d \in Contexts : phase'[d] = IF d = c THEN q ELSE phase[d]
  BY <1>1 DEF Goto
<1>4. TypeOK'
  BY <1>2 DEF TInv, TypeOK, Phases
<1>5. InCodeInv'
  BY <1>3 DEF TInv, InCodeInv, code
<1> QED
  BY <1>4, <1>5 DEF TInv

\* One that is back in its code, somewhere else.
LEMMA MoveTypes ==
  ASSUME TInv, NEW c \in Contexts, NEW q \in Phases \ {"notified", "emulated"}, Goto(c, q),
         NEW n \in Nat, Next_ip(c, n),
         UNCHANGED <<scenario, regs, len, module, registered, count, done, report, loads>>
  PROVE  TInv'
<1>1. phase \in [Contexts -> Phases] /\ ip \in [Contexts -> CodeAddrs]
  BY DEF TInv, TypeOK, Phases, CodeAddrs
<1>2. phase' \in [Contexts -> Phases]
  BY <1>1 DEF Goto
<1>3. \A d \in Contexts : phase'[d] = IF d = c THEN q ELSE phase[d]
  BY <1>1 DEF Goto
<1>4. ip' \in [Contexts -> CodeAddrs]
  BY <1>1, Wraps
<1>5. \A d \in Contexts : d # c => ip'[d] = ip[d]
  BY <1>1 DEF Next_ip
<1>6. TypeOK'
  BY <1>2, <1>4 DEF TInv, TypeOK, Phases, CodeAddrs
<1>7. InCodeInv'
  BY <1>3, <1>5 DEF TInv, InCodeInv, code
<1> QED
  BY <1>6, <1>7 DEF TInv

\* What the chain does when nobody stops it.
LEMMA DefaultTypes ==
  ASSUME TInv, NEW c \in Contexts, Default(c), UNCHANGED <<scenario, regs, len, ModuleVars>>
  PROVE  TInv'
<1>1. regs \in [Contexts -> RegFiles] /\ len \in [Contexts -> 0 .. 15]
  BY DEF TInv, TypeOK
<1>2. UNCHANGED <<scenario, regs, len, module, registered, count, done, report, loads>>
  BY DEF ModuleVars
<1>3. CASE Goto(c, "code") /\ Next_ip(c, 1)
  BY <1>2, <1>3, MoveTypes DEF Phases
<1>4. ASSUME NEW q \in Stopped, Goto(c, q), UNCHANGED ip PROVE TInv'
  <2>1. q \in Phases /\ q \notin {"notified", "emulated"}
    BY <1>4 DEF Phases, Stopped
  <2>2. regs' \in [Contexts -> RegFiles] /\ len' \in [Contexts -> 0 .. 15]
    BY <1>1, <1>2
  <2> QED
    BY <1>2, <1>4, <2>1, <2>2, GotoTypes
<1> QED
  BY <1>3, <1>4 DEF Default, Stopped

\* Every step keeps the types.
LEMMA NextTypes == TInv /\ [Next]_vars => TInv'
<1> SUFFICES ASSUME TInv, [Next]_vars PROVE TInv'
  OBVIOUS
<1>1. /\ regs \in [Contexts -> RegFiles] /\ len \in [Contexts -> 0 .. 15]
      /\ scenario \in Scenarios
  BY DEF TInv, TypeOK
<1>2. ASSUME NEW c \in Contexts, Trap(c) PROVE TInv'
  <2>1. UNCHANGED <<scenario, regs, len, module, registered, count, done, report, loads>>
    BY <1>2 DEF Trap, ModuleVars
  <2>2. ip[c] \in DOMAIN code[c]
    BY <1>2 DEF Trap
  <2>3. CASE registered
    <3>1. Goto(c, "notified") /\ UNCHANGED ip
      BY <1>2, <2>3 DEF Trap
    <3>2. regs' \in [Contexts -> RegFiles] /\ len' \in [Contexts -> 0 .. 15]
      BY <1>1, <2>1
    <3> QED
      BY <2>1, <2>2, <3>1, <3>2, GotoTypes DEF Phases, InHandler
  <2>4. CASE ~registered
    BY <1>2, <2>4, DefaultTypes DEF Trap
  <2> QED
    BY <2>3, <2>4
<1>3. ASSUME NEW c \in Contexts, NotifyDone(c) PROVE TInv'
  BY <1>3, DefaultTypes DEF NotifyDone
<1>4. ASSUME NEW c \in Contexts, Fault(c) PROVE TInv'
  <2>1. UNCHANGED <<scenario, regs, ip, len, module, registered, count, done, report, loads>>
    BY <1>4 DEF Fault, ModuleVars
  <2>2. regs' \in [Contexts -> RegFiles] /\ len' \in [Contexts -> 0 .. 15]
    BY <1>1, <2>1
  <2>3. Goto(c, "oops")
    BY <1>4 DEF Fault
  <2> QED
    BY <2>1, <2>2, <2>3, GotoTypes DEF Phases, Stopped
<1>5. ASSUME NEW c \in Contexts, Emulate(c) PROVE TInv'
  <2> DEFINE i == Here(c)
             n == 3 + 1 + ModRMLen(i) + (IF i.map = 3 THEN 1 ELSE 0)
             r == SetRegs(i, regs[c], ip[c])
  <2>1. /\ phase[c] = "notified" /\ Handled(i) /\ ~Faults(i, regs[c], ip[c])
        /\ regs' = [regs EXCEPT ![c] = r] /\ len' = [len EXCEPT ![c] = n]
        /\ done' = done + 1 /\ phase' = [phase EXCEPT ![c] = "emulated"]
        /\ UNCHANGED <<scenario, ip, module, registered, count, report, loads>>
    BY <1>5 DEF Emulate, Goto
  <2>2. ip[c] \in DOMAIN code[c]
    BY <2>1 DEF TInv, InCodeInv
  <2>3. i \in Insns
    BY <1>1, <2>2, ScenarioFacts DEF Here
  <2>4. r \in RegFiles
    BY <1>1, <2>1, <2>3, SetRegsType
  <2>5. n \in 0 .. 15
    BY <2>3, ModRMLenType
  <2> HIDE DEF r, n, i
  <2>6. regs' \in [Contexts -> RegFiles] /\ len' \in [Contexts -> 0 .. 15]
    BY <1>1, <2>1, <2>4, <2>5
  <2>7. phase' \in [Contexts -> Phases]
    BY <2>1 DEF TInv, TypeOK, Phases, InHandler
  <2>8. TypeOK'
    BY <2>1, <2>6, <2>7 DEF TInv, TypeOK, Phases
  <2>9. \A d \in Contexts : d # c => phase'[d] = phase[d]
    BY <2>1 DEF TInv, TypeOK
  <2>10. InCodeInv'
    BY <2>1, <2>2, <2>9 DEF TInv, InCodeInv, code
  <2> QED
    BY <1>1, <2>1, <2>8, <2>10 DEF TInv
<1>6. ASSUME NEW c \in Contexts, Advance(c) PROVE TInv'
  <2>1. /\ Goto(c, "advanced") /\ Next_ip(c, len[c])
        /\ UNCHANGED <<scenario, regs, len, module, registered, count, done, report, loads>>
    BY <1>6 DEF Advance, ModuleVars
  <2>2. len[c] \in Nat
    BY <1>1
  <2> QED
    BY <2>1, <2>2, MoveTypes DEF Phases, InHandler
<1>7. ASSUME NEW c \in Contexts, Resume(c) PROVE TInv'
  <2>1. /\ count' = count + 1 /\ len' = [len EXCEPT ![c] = 0]
        /\ phase' = [phase EXCEPT ![c] = "code"]
        /\ UNCHANGED <<scenario, regs, ip, module, registered, done, report, loads>>
    BY <1>7 DEF Resume, Goto
  <2>2. len' \in [Contexts -> 0 .. 15]
    BY <1>1, <2>1
  <2>3. phase' \in [Contexts -> Phases]
    BY <2>1 DEF TInv, TypeOK, Phases
  <2>4. TypeOK'
    BY <2>1, <2>2, <2>3 DEF TInv, TypeOK, Phases
  <2>5. \A d \in Contexts : phase'[d] = IF d = c THEN "code" ELSE phase[d]
    BY <2>1 DEF TInv, TypeOK
  <2>6. InCodeInv'
    BY <2>1, <2>5 DEF TInv, InCodeInv, code
  <2> QED
    BY <1>1, <2>1, <2>4, <2>6 DEF TInv
<1>8. CASE Load
  <2>1. MaxLoads \in Nat
    BY EmulAssumption DEF EmulAssumption
  <2>2. TypeOK'
    BY <1>8, <2>1 DEF Load, TInv, TypeOK
  <2> QED
    BY <1>8, <2>2 DEF Load, TInv, InCodeInv, code
<1>9. CASE Unload \/ Gone
  <2>1. /\ module' \in {"out", "exiting"} /\ registered' \in {FALSE, registered}
        /\ report' = report \/ report' = <<count, done>>
        /\ UNCHANGED <<scenario, regs, ip, phase, len, count, done, loads>>
    BY <1>9 DEF Unload, Gone
  <2>2. report' \in {<<>>} \union (Nat \X Nat)
    BY <2>1 DEF TInv, TypeOK
  <2>3. TypeOK'
    BY <2>1, <2>2 DEF TInv, TypeOK
  <2> QED
    BY <2>1, <2>3 DEF TInv, InCodeInv, code
<1>10. CASE UNCHANGED vars
  BY <1>10 DEF vars, TInv, TypeOK, InCodeInv, code
<1> QED
  BY <1>2, <1>3, <1>4, <1>5, <1>6, <1>7, <1>8, <1>9, <1>10 DEF Next, Handler

\* A context in the notifier is at an instruction, and everything is typed.
THEOREM TypesInvariance == Spec => []TInv
  BY InitTypes, NextTypes, PTL DEF Spec

\* Registers hold words, whatever is emulated; the instruction pointer wraps
\* and no instruction is longer than 15 bytes (351-356).
THEOREM EmulTypes == Spec => []TypeOK
<1>1. TInv => TypeOK
  BY DEF TInv
<1> QED
  BY <1>1, TypesInvariance, PTL

-----------------------------------------------------------------------------
(* Numbers and bits. *)

\* The only multiple of p between -p and p.
LEMMA Product0 ==
  ASSUME NEW p \in Nat \ {0}, NEW d \in Int, -p < p * d, p * d < p
  PROVE  d = 0
<1>1. CASE d >= 1
  <2>1. p * d >= p
    BY <1>1, SMT
  <2> QED
    BY <2>1
<1>2. CASE d <= -1
  <2>1. p * d <= -p
    BY <1>2, SMT
  <2> QED
    BY <2>1
<1> QED
  BY <1>1, <1>2

\* Quotient and remainder.
LEMMA DivDef ==
  ASSUME NEW p \in Nat \ {0}, NEW n \in Int
  PROVE  n = p * (n \div p) + (n % p) /\ n % p \in 0 .. p - 1 /\ n \div p \in Int
  BY SMT

\* There is only one of each.
LEMMA Divided ==
  ASSUME NEW p \in Nat \ {0}, NEW q \in Int, NEW r \in 0 .. p - 1, NEW n \in Int, n = p * q + r
  PROVE  n % p = r /\ n \div p = q
<1>1. n = p * (n \div p) + (n % p) /\ n % p \in 0 .. p - 1 /\ n \div p \in Int
  BY DivDef
<1> DEFINE d == (n \div p) - q
<1>2. p * d = p * (n \div p) - p * q
  BY <1>1, SMT
<1>3. -p < p * d /\ p * d < p
  BY <1>1, <1>2, SMT
<1>4. d = 0
  BY <1>1, <1>3, Product0
<1> QED
  BY <1>1, <1>4, SMT

\* A remainder has one more bit modulo twice as much.
LEMMA NextBit ==
  ASSUME NEW p \in Nat \ {0}, NEW n \in Int
  PROVE n % (2 * p) = (n % p) + (IF (n \div p) % 2 = 1 THEN p ELSE 0)
<1> DEFINE q == n \div p
           r == n % p
           t == q \div 2
           b == q % 2
<1>1. n = p * q + r /\ r \in 0 .. p - 1 /\ q \in Int
  BY DivDef
<1>2. q = 2 * t + b /\ b \in 0 .. 1 /\ t \in Int
  BY <1>1, SMT
<1> HIDE DEF q, r, t, b
<1>3. p * (2 * t + b) = (2 * p) * t + p * b
  BY <1>2, SMT
<1>4. p * b = IF b = 1 THEN p ELSE 0
  BY <1>2, SMT
<1>5. n = (2 * p) * t + (p * b + r)
  BY <1>1, <1>2, <1>3, SMT
<1>6. p * b + r \in 0 .. 2 * p - 1
  BY <1>1, <1>2, <1>4, SMT
<1>7. ASSUME NEW d \in Nat \ {0}, d = 2 * p PROVE n % d = p * b + r
  <2>1. n = d * t + (p * b + r) /\ p * b + r \in 0 .. d - 1
    BY <1>5, <1>6, <1>7
  <2> QED
    BY <1>2, <2>1, Divided
<1>8. n % (2 * p) = p * b + r
  BY <1>7, SMT
<1> QED
  BY <1>1, <1>4, <1>8 DEF q, r, b

\* Half a word.
LEMMA HalfFacts ==
  /\ WordBits \in Nat /\ Size(0) \in Nat \ {0} /\ WordBits = 2 * Size(0)
  /\ 2 ^ WordBits \in Nat \ {0} /\ 2 ^ Size(0) \in Nat \ {0}
  /\ 2 ^ (Size(0) - 1) \in Nat \ {0} /\ 2 ^ Size(0) = 2 * 2 ^ (Size(0) - 1)
<1>1. WordBits \in Nat \ {0} /\ WordBits % 2 = 0
  BY WordsAssumption DEF WordsAssumption
<1> DEFINE h == Size(0)
<1>2. h \in Nat \ {0} /\ WordBits = 2 * h
  BY <1>1 DEF Size
<1> HIDE DEF h
<1>3. h - 1 \in 0 .. WordBits /\ h \in 0 .. WordBits /\ WordBits \in 0 .. WordBits /\ (h - 1) + 1 = h
  BY <1>2
<1>4. \A n \in 0 .. WordBits : 2 ^ n \in Nat \ {0} /\ 2 ^ (n + 1) = 2 * 2 ^ n
  BY PowersAssumption DEF PowersAssumption
<1>5. 2 ^ (h - 1) \in Nat \ {0} /\ 2 ^ ((h - 1) + 1) = 2 * 2 ^ (h - 1)
  BY <1>3, <1>4
<1>6. 2 ^ h \in Nat \ {0} /\ 2 ^ WordBits \in Nat \ {0}
  BY <1>3, <1>4
<1>7. 2 ^ h = 2 * 2 ^ (h - 1)
  BY <1>3, <1>5
<1> QED
  BY <1>1, <1>2, <1>5, <1>6, <1>7 DEF h

\* A word stands for a number.
LEMMA NumType == ASSUME NEW x PROVE Num(x) \in Nat
<1>1. PICK sum : /\ sum = [m \in 0 .. WordBits |-> SumStep(sum, m, x)]
                 /\ Num(x) = sum[WordBits]
  BY NumSums
<1>2. WordBits \in Nat
  BY HalfFacts
<1> DEFINE S == {m \in 0 .. WordBits : sum[m] \in Nat}
<1>3. \A m \in 0 .. WordBits : sum[m] = SumStep(sum, m, x)
  BY <1>1
<1>4. 0 \in S
  BY <1>2, <1>3 DEF SumStep
<1>5. ASSUME NEW n \in 0 .. WordBits - 1, n \in S PROVE n + 1 \in S
  <2>1. n \in 0 .. WordBits /\ n + 1 \in 0 .. WordBits /\ n + 1 # 0 /\ (n + 1) - 1 = n
    BY <1>2
  <2>2. sum[n + 1] = sum[n] + (IF n \in x THEN 2 ^ n ELSE 0)
    BY <1>3, <2>1 DEF SumStep
  <2>3. 2 ^ n \in Nat
    BY <2>1, PowersAssumption DEF PowersAssumption
  <2> QED
    BY <1>5, <2>1, <2>2, <2>3
<1> HIDE DEF S
<1>6. \A m \in 0 .. WordBits : m \in S
  BY <1>2, <1>4, <1>5, UpTo
<1>7. WordBits \in S
  BY <1>2, <1>6
<1> QED
  BY <1>1, <1>7 DEF S

\* The low k bits of a number are the number modulo 2^k.
LEMMA NumBits ==
  ASSUME NEW n \in Nat, NEW k \in 0 .. WordBits, NEW x, x \subseteq 0 .. k - 1,
         \A m \in 0 .. k - 1 : m \in x <=> (n \div 2 ^ m) % 2 = 1
  PROVE  Num(x) = n % 2 ^ k
<1>1. PICK sum : /\ sum = [m \in 0 .. WordBits |-> SumStep(sum, m, x)]
                 /\ Num(x) = sum[WordBits]
  BY NumSums
<1>2. WordBits \in Nat /\ k \in Nat /\ k <= WordBits
  BY HalfFacts
<1>3. \A m \in 0 .. WordBits : sum[m] = SumStep(sum, m, x)
  BY <1>1
<1> DEFINE S == {m \in 0 .. k : sum[m] = n % 2 ^ m}
           T == {j \in 0 .. WordBits - k : sum[k + j] = sum[k]}
<1>4. 0 \in S
  <2>1. 0 \in 0 .. WordBits /\ 0 \in 0 .. k
    BY <1>2
  <2>2. sum[0] = 0
    BY <1>3, <2>1 DEF SumStep
  <2>3. n % 2 ^ 0 = 0
    BY SMT
  <2> QED
    BY <2>1, <2>2, <2>3
<1>5. ASSUME NEW m \in 0 .. k - 1, m \in S PROVE m + 1 \in S
  <2>1. m \in 0 .. WordBits /\ m + 1 \in 0 .. WordBits /\ m + 1 # 0 /\ (m + 1) - 1 = m
    BY <1>2
  <2>2. sum[m + 1] = sum[m] + (IF m \in x THEN 2 ^ m ELSE 0)
    BY <1>3, <2>1 DEF SumStep
  <2>3. 2 ^ m \in Nat \ {0} /\ 2 ^ (m + 1) = 2 * 2 ^ m
    BY <2>1, PowersAssumption DEF PowersAssumption
  <2> DEFINE P == 2 ^ m
  <2>4. sum[m] = n % P
    BY <1>5
  <2>5. m \in x <=> (n \div P) % 2 = 1
    OBVIOUS
  <2>6. P \in Nat \ {0} /\ 2 ^ (m + 1) = 2 * P /\ sum[m + 1] = sum[m] + (IF m \in x THEN P ELSE 0)
    BY <2>2, <2>3
  <2> HIDE DEF P
  <2>7. n % (2 * P) = (n % P) + (IF (n \div P) % 2 = 1 THEN P ELSE 0)
    <3>1. n \in Int
      OBVIOUS
    <3> QED
      BY <2>6, <3>1, NextBit, Zenon
  <2>8. sum[m + 1] = n % 2 ^ (m + 1)
    BY <2>4, <2>5, <2>6, <2>7
  <2> QED
    BY <1>2, <2>8
<1>6. 0 \in T
  BY <1>2
<1>7. ASSUME NEW j \in 0 .. WordBits - k - 1, j \in T PROVE j + 1 \in T
  <2>1. /\ k + j \in 0 .. WordBits /\ k + (j + 1) \in 0 .. WordBits /\ k + (j + 1) # 0
        /\ (k + (j + 1)) - 1 = k + j /\ ~(k + j \in 0 .. k - 1)
    BY <1>2
  <2>2. sum[k + (j + 1)] = sum[k + j] + (IF k + j \in x THEN 2 ^ (k + j) ELSE 0)
    BY <1>3, <2>1 DEF SumStep
  <2>3. k + j \notin x
    BY <2>1
  <2>4. sum[k] \in Int
    <3>1. sum[k + j] = sum[k]
      BY <1>7
    <3>2. k \in S
      <4> HIDE DEF S
      <4>1. \A m \in 0 .. k : m \in S
        BY <1>2, <1>4, <1>5, UpTo
      <4> QED
        BY <1>2, <4>1
    <3>3. 2 ^ k \in Nat \ {0}
      BY PowersAssumption DEF PowersAssumption
    <3> QED
      BY <3>2, <3>3
  <2>5. sum[k + (j + 1)] = sum[k]
    BY <1>7, <2>2, <2>3, <2>4
  <2> QED
    BY <1>2, <2>5
<1> HIDE DEF S, T
<1>8. k \in S
  <2>1. \A m \in 0 .. k : m \in S
    BY <1>2, <1>4, <1>5, UpTo
  <2> QED
    BY <1>2, <2>1
<1>9. WordBits - k \in T
  <2>1. WordBits - k \in Nat
    BY <1>2
  <2>2. \A j \in 0 .. WordBits - k : j \in T
    BY <1>6, <1>7, <2>1, UpTo
  <2> QED
    BY <2>1, <2>2
<1>10. k + (WordBits - k) = WordBits
  BY <1>2
<1> QED
  BY <1>1, <1>8, <1>9, <1>10 DEF S, T

\* A power of two is a multiple of the smaller ones.
LEMMA Multiples ==
  ASSUME NEW k \in 0 .. WordBits
  PROVE  \A j \in 0 .. WordBits - k : \E t \in Nat \ {0} : 2 ^ (k + j) = 2 ^ k * t
<1> DEFINE Q == 2 ^ k
           n == WordBits - k
           S == {j \in 0 .. n : \E t \in Nat \ {0} : 2 ^ (k + j) = Q * t}
<1>1. k \in Nat /\ WordBits \in Nat /\ n \in Nat /\ Q \in Nat \ {0}
  BY HalfFacts, PowersAssumption DEF PowersAssumption
<1> HIDE DEF Q
<1>2. 0 \in S
  <2>1. k + 0 = k /\ Q * 1 = Q /\ 1 \in Nat \ {0} /\ 0 \in 0 .. n
    BY <1>1
  <2>2. 2 ^ (k + 0) = Q * 1
    BY <2>1 DEF Q
  <2> QED
    BY <2>1, <2>2
<1>3. ASSUME NEW j \in 0 .. n - 1, j \in S PROVE j + 1 \in S
  <2>1. PICK t \in Nat \ {0} : 2 ^ (k + j) = Q * t
    BY <1>3
  <2>2. k + j \in 0 .. WordBits /\ k + (j + 1) = (k + j) + 1
    BY <1>1
  <2>3. 2 ^ ((k + j) + 1) = 2 * 2 ^ (k + j)
    BY <2>2, PowersAssumption DEF PowersAssumption
  <2> DEFINE u == 2 * t
  <2>4. 2 * (Q * t) = Q * u /\ u \in Nat \ {0}
    BY <1>1, SMT
  <2> HIDE DEF u
  <2>5. 2 ^ (k + (j + 1)) = Q * u
    BY <2>1, <2>2, <2>3, <2>4
  <2>6. j + 1 \in 0 .. n
    BY <1>1
  <2> QED
    BY <2>4, <2>5, <2>6
<1> HIDE DEF S, n
<1>4. \A j \in 0 .. n : j \in S
  BY <1>1, <1>2, <1>3, UpTo
<1> QED
  BY <1>4 DEF S, n, Q

\* A word holds a whole number of halves.
LEMMA Halves == \E t \in Nat \ {0} : 2 ^ WordBits = 2 ^ Size(0) * t
<1>1. Size(0) \in 0 .. WordBits /\ Size(0) \in 0 .. WordBits - Size(0)
      /\ Size(0) + Size(0) = WordBits
  BY HalfFacts
<1> QED
  BY <1>1, Multiples

\* decode_modrm keeps the low half of a displacement and sets the flag beside
\* it; the notifier reads the displacement back (158, 236).
LEMMA DispKept ==
  ASSUME NEW d \in - 2 ^ (Size(0) - 1) .. 2 ^ (Size(0) - 1) - 1
  PROVE  SignedHalf(Trunc(Wrap(d), 0) \union {RIP_REL_FLAG}) = d
<1> DEFINE h == Size(0)
           P == 2 ^ (h - 1)
           Q == 2 ^ h
           B == 2 ^ WordBits
           out == Trunc(Wrap(d), 0) \union {RIP_REL_FLAG}
           N == d % B
           x == Trunc(out, 0)
<1>1. PICK t \in Nat \ {0} : B = Q * t
  BY Halves
<1>2. /\ WordBits \in Nat /\ h \in Nat \ {0} /\ WordBits = 2 * h
      /\ B \in Nat \ {0} /\ Q \in Nat \ {0} /\ P \in Nat \ {0} /\ Q = 2 * P
  BY HalfFacts
<1>3. d \in Int /\ -P <= d /\ d < P
  BY <1>2
<1>4. \A m \in 0 .. h - 1 : m \in out <=> (N \div 2 ^ m) % 2 = 1
  <2>1. RIP_REL_FLAG \notin 0 .. h - 1 /\ \A m \in 0 .. h - 1 : m \in 0 .. WordBits - 1
    BY <1>2 DEF RIP_REL_FLAG
  <2>2. Ones(0) = 0 .. h - 1
    BY DEF Ones
  <2>3. Wrap(d) = {m \in 0 .. WordBits - 1 : (N \div 2 ^ m) % 2 = 1}
    BY DEF Wrap, Bits
  <2> HIDE DEF h, N, out
  <2>4. out = (Wrap(d) \intersect 0 .. h - 1) \union {RIP_REL_FLAG}
    BY <2>2 DEF out, Trunc
  <2> QED
    BY <2>1, <2>3, <2>4
<1>5. x = out \intersect 0 .. h - 1
  BY DEF Trunc, Ones
<1>6. SignedHalf(out) = Num(x) - (IF h - 1 \in out THEN Q ELSE 0)
  BY DEF SignedHalf
<1>7. h - 1 \in out <=> (N \div P) % 2 = 1
  BY <1>2, <1>4
<1> HIDE DEF P, out, x
<1>8. N \in Nat
  BY <1>2, <1>3
<1>9. Num(x) = N % Q
  <2>1. h \in 0 .. WordBits
    BY <1>2
  <2>2. x \subseteq 0 .. h - 1 /\ \A m \in 0 .. h - 1 : m \in x <=> (N \div 2 ^ m) % 2 = 1
    BY <1>4, <1>5
  <2> HIDE DEF N, h
  <2>3. Num(x) = N % 2 ^ h
    BY <1>8, <2>1, <2>2, NumBits
  <2> QED
    BY <2>3 DEF h
<1> HIDE DEF h, Q, B
<1>10. Q * t >= Q
  BY <1>2, SMT
<1>11. CASE d >= 0
  <2>1. d \in 0 .. B - 1 /\ d \in 0 .. Q - 1 /\ d \in 0 .. P - 1
    BY <1>1, <1>2, <1>3, <1>10, <1>11
  <2>2. d = B * 0 + d /\ d = Q * 0 + d /\ d = P * 0 + d
    BY <1>2, <1>3
  <2>3. N = d
    BY <1>2, <1>3, <2>1, <2>2, Divided
  <2>4. d % Q = d
    BY <1>2, <1>3, <2>1, <2>2, Divided
  <2>5. d \div P = 0
    BY <1>2, <1>3, <2>1, <2>2, Divided
  <2> HIDE DEF N
  <2>6. Num(x) = d
    BY <1>9, <2>3, <2>4
  <2>7. h - 1 \notin out
    BY <1>7, <2>3, <2>5
  <2> QED
    BY <1>6, <1>3, <2>6, <2>7 DEF out
<1>12. CASE d < 0
  <2> DEFINE a == d + B
             q == t - 1
             s == 2 * t - 1
  <2>1. /\ a \in 0 .. B - 1 /\ d + Q \in 0 .. Q - 1 /\ d + P \in 0 .. P - 1
        /\ q \in Int /\ s \in Int /\ a \in Int
    BY <1>1, <1>2, <1>3, <1>10, <1>12
  <2>2. d = B * (-1) + a
    BY <1>2, <1>3
  <2>3. N = a
    <3> DEFINE k == -1
    <3>1. k \in Int /\ d = B * k + a /\ d \in Int /\ a \in 0 .. B - 1 /\ B \in Nat \ {0}
      BY <1>2, <1>3, <2>1, <2>2
    <3> HIDE DEF a, k
    <3>2. d % B = a
      BY <3>1, Divided
    <3> QED
      BY <3>2
  <2>4. a = Q * q + (d + Q)
    BY <1>1, <1>2, <1>3, SMT
  <2>5. Q * t = P * (2 * t) /\ P * s = P * (2 * t) - P
    BY <1>2, SMT
  <2>6. a = P * s + (d + P)
    BY <1>1, <1>2, <1>3, <2>5, SMT
  <2>7. s % 2 = 1
    BY SMT
  <2> HIDE DEF N, a, q, s
  <2>8. a % Q = d + Q
    <3> DEFINE r == d + Q
    <3>1. q \in Int /\ a = Q * q + r /\ a \in Int /\ r \in 0 .. Q - 1 /\ Q \in Nat \ {0}
      BY <1>2, <2>1, <2>4
    <3> HIDE DEF r
    <3>2. a % Q = r
      BY <3>1, Divided
    <3> QED
      BY <3>2 DEF r
  <2>9. a \div P = s
    BY <1>2, <2>1, <2>6, Divided, Zenon
  <2>10. Num(x) = d + Q /\ h - 1 \in out
    BY <1>7, <1>9, <2>3, <2>7, <2>8, <2>9
  <2> QED
    BY <1>2, <1>3, <1>6, <2>10 DEF out
<1> QED
  BY <1>3, <1>11, <1>12

-----------------------------------------------------------------------------
(* Decoding. *)

\* A mnemonic is in the table.
LEMMA InTable ==
  ASSUME NEW i \in Insns, Mnemonic(i) \in Known
  PROVE  /\ i.trap = "ud" /\ i.vex3 /\ i.l = 0
         /\ <<i.map, i.pp, i.opcode, Mnemonic(i)>> \in Table
<1> DEFINE rows == {t \in Table : t[1] = i.map /\ t[2] = i.pp /\ t[3] = i.opcode}
           row == CHOOSE t \in rows : TRUE
<1>1. i.trap \in {"ud", "int3"} /\ i.vex3 \in BOOLEAN
  BY DEF Insns
<1>2. Mnemonic(i) = IF i.trap = "int3" THEN "int3"
                    ELSE IF i.vex3 /\ i.l = 0 /\ rows # {} THEN row[4] ELSE "none"
  BY DEF Mnemonic
<1>3. i.trap = "ud" /\ i.vex3 /\ i.l = 0 /\ rows # {}
  BY <1>1, <1>2 DEF Known
<1>4. row \in rows
  BY <1>3
<1>5. Mnemonic(i) = row[4]
  BY <1>2, <1>3
<1> HIDE DEF row
<1>6. row = <<row[1], row[2], row[3], row[4]>>
  BY <1>4 DEF Table
<1>7. row = <<i.map, i.pp, i.opcode, Mnemonic(i)>>
  BY <1>4, <1>5, <1>6
<1> QED
  BY <1>3, <1>4, <1>7

\* What the patcher knows and leaves to the emulator is handled there.
LEMMA KnownHandled ==
  ASSUME NEW i \in Insns, Mnemonic(i) \in Known
  PROVE  i.trap = "ud" /\ i.vex3 /\ i.map = 2 /\ Reads(i) /\ Handled(i)
<1>1. /\ i.trap = "ud" /\ i.vex3 /\ i.l = 0
      /\ <<i.map, i.pp, i.opcode, Mnemonic(i)>> \in Table
  BY InTable
<1>2. i.map = 2 /\ <<i.opcode, i.pp>> \in {<<"F7", 0>>, <<"F7", 1>>, <<"F7", 2>>,
                                            <<"F5", 0>>, <<"F5", 2>>, <<"F5", 3>>}
  BY <1>1 DEF Table, Known
<1> QED
  BY <1>1, <1>2 DEF Reads, Handled

\* Where OperandFound holds, the address computed is that of the operand.
LEMMA AddressFound ==
  ASSUME NEW i \in Insns, NEW r \in RegFiles, NEW p \in Nat, IsMem(i), i.map = 2, i.trap = "ud",
         i.m.disp \in - 2 ^ (Size(0) - 1) .. 2 ^ (Size(0) - 1) - 1, OperandFound(i, r, p)
  PROVE  OperandAddress(i, r, p) = Address(i, r, p)
<1>1. /\ i.m.mod \in 0 .. 2 /\ i.m.rm \in 0 .. 7 /\ i.m.b \in 0 .. 1 /\ i.m.x \in 0 .. 1
      /\ i.m.idx \in 0 .. 7 /\ i.m.bas \in 0 .. 7 /\ i.m.disp \in Int /\ i.m.sc \in 0 .. 3
  BY DEF Insns, ModRMs, IsMem
<1>2. CASE RipRelative(i)
  <2> DEFINE out == ModRMOut(i, r)
  <2>1. i.m.mod = 0 /\ i.m.rm = 5 /\ ~HasSib(i) /\ ~NoBase(i)
    BY <1>2 DEF RipRelative, HasSib, NoBase
  <2>2. out = Trunc(Wrap(i.m.disp), 0) \union {RIP_REL_FLAG}
    BY <2>1 DEF ModRMOut
  <2>3. SignedHalf(out) = i.m.disp
    BY <2>2, DispKept
  <2>4. ModRMLen(i) = 5
    BY <2>1 DEF ModRMLen
  <2>5. OperandAddress(i, r, p) = Wrap(p + 3 + 1 + 5 + i.m.disp)
    BY <2>2, <2>3, <2>4 DEF OperandAddress
  <2>6. DispSize(i) = 4 /\ Disp(i) = i.m.disp
    BY <1>2, <2>1 DEF DispSize, Disp
  <2>7. Length(i) = 9
    BY <2>1, <2>6 DEF Length
  <2>8. Address(i, r, p) = Wrap(p + 9 + 0 + i.m.disp)
    BY <1>2, <2>1, <2>6, <2>7 DEF Address
  <2>9. p + 3 + 1 + 5 + i.m.disp = p + 9 + 0 + i.m.disp
    BY <1>1
  <2> QED
    BY <2>5, <2>8, <2>9
<1>3. CASE ~RipRelative(i)
  <2> DEFINE base == Num(r[BaseReg(i)])
             index == Num(r[IndexReg(i)]) * 2 ^ i.m.sc
             plus == IF i.m.mod \in {1, 2} THEN i.m.disp ELSE 0
  <2>1. ModRMOut(i, r) = Address(i, r, p)
    <3>1. base \in Int /\ index \in Int /\ plus \in Int
      <4>1. Num(r[BaseReg(i)]) \in Nat /\ Num(r[IndexReg(i)]) \in Nat
        BY NumType
      <4>2. 2 ^ i.m.sc \in Int
        BY <1>1, SMT
      <4> QED
        BY <1>1, <4>1, <4>2
    <3>2. CASE ~HasSib(i)
      <4>1. i.m.rm # 4 /\ ~NoBase(i) /\ ~(i.m.rm = 5 /\ i.m.mod = 0)
        BY <1>3, <3>2 DEF HasSib, NoBase, RipRelative
      <4>2. BaseReg(i) = i.m.rm + 8 * i.m.b
        BY <3>2 DEF BaseReg
      <4>3. ModRMOut(i, r) = Wrap(base + plus)
        BY <4>1, <4>2 DEF ModRMOut
      <4>4. Disp(i) = plus
        BY <1>1, <1>3, <4>1 DEF Disp, DispSize
      <4>5. Address(i, r, p) = Wrap(base + 0 + plus)
        BY <1>3, <3>2, <4>1, <4>4 DEF Address
      <4> HIDE DEF base, plus
      <4>6. base + plus = base + 0 + plus
        BY <3>1
      <4> QED
        BY <4>3, <4>5, <4>6
    <3>3. CASE HasSib(i)
      <4> DEFINE b == IF NoBase(i) THEN 0 ELSE base
                 n == IF IndexReg(i) # RSP THEN index ELSE 0
                 d == IF NoBase(i) THEN i.m.disp ELSE plus
      <4>1. i.m.rm = 4 /\ (NoBase(i) <=> i.m.bas = 5 /\ i.m.mod = 0)
        BY <3>3 DEF HasSib, NoBase
      <4>2. BaseReg(i) = i.m.bas + 8 * i.m.b /\ IndexReg(i) = i.m.idx + 8 * i.m.x
        BY <3>3 DEF BaseReg, IndexReg
      <4>3. i.m.idx # 4 <=> IndexReg(i) # RSP
        BY <1>1, <3>3, <4>2 DEF OperandFound, RSP
      <4>4. SibAddress(i, r) = (IF NoBase(i) THEN i.m.disp ELSE base) + n
        BY <4>1, <4>2, <4>3 DEF SibAddress
      <4>5. ModRMOut(i, r) = Wrap(SibAddress(i, r) + plus)
        BY <4>1 DEF ModRMOut
      <4>6. Disp(i) = d
        BY <1>1, <1>3, <4>1 DEF Disp, DispSize
      <4>7. Address(i, r, p) = Wrap(b + n + d)
        BY <1>3, <3>3, <4>6 DEF Address
      <4>8. NoBase(i) => plus = 0
        BY <4>1
      <4>9. n \in Int /\ d \in Int /\ b \in Int
        BY <1>1, <3>1
      <4> HIDE DEF base, index, plus
      <4>10. SibAddress(i, r) + plus = b + n + d
        <5> HIDE DEF n
        <5> QED
          BY <1>1, <3>1, <4>4, <4>8, <4>9
      <4> QED
        BY <4>5, <4>7, <4>10
    <3> QED
      BY <3>2, <3>3
  <2>2. RIP_REL_FLAG \notin ModRMOut(i, r)
    BY <1>3, <2>1 DEF OperandFound
  <2> QED
    BY <2>1, <2>2 DEF OperandAddress
<1> QED
  BY <1>2, <1>3

\* What the notifier leaves to others of a context's code is no instruction it
\* knows, or not one that can be read.
LEMMA OopsStep ==
  ASSUME TInv, Next, NEW c \in Contexts, phase[c] # "oops", phase'[c] = "oops"
  PROVE  LET i == Here(c)
         IN  \/ phase[c] = "code" /\ ~registered
             \/ Mnemonic(i) \notin Known
             \/ ~i.whole
             \/ IsMem(i) /\ ~(OperandFound(i, regs[c], ip[c])
                              /\ Address(i, regs[c], ip[c]) \in DOMAIN Mem)
<1> DEFINE i == Here(c)
<1>1. /\ phase \in [Contexts -> Phases] /\ ip \in [Contexts -> CodeAddrs]
      /\ regs \in [Contexts -> RegFiles] /\ scenario \in Scenarios
  BY DEF TInv, TypeOK, Phases, CodeAddrs
<1>2. Trap(c) \/ NotifyDone(c) \/ Fault(c)
  <2>1. ASSUME NEW d \in Contexts, Handler(d) PROVE Handler(c)
    <3>1. \E q : phase' = [phase EXCEPT ![d] = q]
      BY <2>1 DEF Handler, Trap, NotifyDone, Fault, Emulate, Advance, Resume, Default, Goto
    <3>2. d = c
      BY <1>1, <3>1
    <3> QED
      BY <2>1, <3>2
  <2>2. Handler(c)
    BY <2>1 DEF Next, Load, Unload, Gone
  <2>3. ~(Emulate(c) \/ Advance(c) \/ Resume(c))
    BY <1>1 DEF Emulate, Advance, Resume, Goto
  <2> QED
    BY <2>2, <2>3 DEF Handler
<1>3. CASE Trap(c)
  BY <1>1, <1>3 DEF Trap, Goto
<1> SUFFICES ASSUME phase[c] = "notified", Mnemonic(i) \in Known, i.whole
             PROVE  IsMem(i) /\ ~(OperandFound(i, regs[c], ip[c])
                                  /\ Address(i, regs[c], ip[c]) \in DOMAIN Mem)
  BY <1>2, <1>3 DEF NotifyDone, Fault
<1>4. ip[c] \in DOMAIN code[c]
  BY DEF TInv, InCodeInv
<1>5. i \in Insns /\ i.m.disp \in - 2 ^ (Size(0) - 1) .. 2 ^ (Size(0) - 1) - 1
  BY <1>1, <1>4, ScenarioFacts DEF Here
<1>6. i.trap = "ud" /\ i.vex3 /\ i.map = 2 /\ Reads(i) /\ Handled(i)
  BY <1>5, KnownHandled
<1>7. ~user[c]
  <2>1. CASE NotifyDone(c)
    BY <1>1, <1>6, <2>1 DEF NotifyDone, Default, Goto
  <2>2. CASE Fault(c)
    BY <2>2 DEF Fault, PreFilter
  <2> QED
    BY <1>2, <2>1, <2>2 DEF Trap
<1>8. PreFilter(c)
  BY <1>6, <1>7 DEF PreFilter
<1>9. Faults(i, regs[c], ip[c])
  BY <1>2, <1>6, <1>8 DEF NotifyDone, Fault, Trap
<1>10. IsMem(i) /\ OperandAddress(i, regs[c], ip[c]) \notin DOMAIN Mem
  BY <1>9 DEF Faults, IsMem
<1>11. regs[c] \in RegFiles /\ ip[c] \in Nat
  BY <1>1 DEF CodeAddrs
<1> HIDE DEF i
<1>12. OperandFound(i, regs[c], ip[c]) =>
         OperandAddress(i, regs[c], ip[c]) = Address(i, regs[c], ip[c])
  BY <1>5, <1>6, <1>10, <1>11, AddressFound
<1> QED
  BY <1>10, <1>12

\* For any code and registers: kernel code that uses what the patcher leaves to
\* the emulator is stopped only when the notifier is off the chain, or at an
\* instruction or operand that cannot be read (217-247).
THEOREM OopsOnlyUnknown == Spec => OnlyUnknownOops
<1> DEFINE A == \A c \in Contexts :
                  phase[c] # "oops" /\ phase'[c] = "oops" =>
                    LET i == Here(c)
                    IN  \/ phase[c] = "code" /\ ~registered
                        \/ Mnemonic(i) \notin Known
                        \/ ~i.whole
                        \/ IsMem(i) /\ ~(OperandFound(i, regs[c], ip[c])
                                         /\ Address(i, regs[c], ip[c]) \in DOMAIN Mem)
<1>1. TInv /\ [Next]_vars => [A]_vars
  BY OopsStep
<1> QED
  BY <1>1, TypesInvariance, PTL DEF Spec, OnlyUnknownOops

-----------------------------------------------------------------------------
(* The emulator computes what the processor would. *)

\* The number of a word modulo 2^k is that of its low k bits.
LEMMA NumMod ==
  ASSUME NEW k \in 0 .. WordBits, NEW y
  PROVE  Num(y) % 2 ^ k = Num(y \intersect (0 .. k - 1))
<1> DEFINE low == y \intersect (0 .. k - 1)
           Q == 2 ^ k
<1>1. PICK f : /\ f = [m \in 0 .. WordBits |-> SumStep(f, m, y)] /\ Num(y) = f[WordBits]
  BY NumSums
<1>2. PICK g : /\ g = [m \in 0 .. WordBits |-> SumStep(g, m, low)] /\ Num(low) = g[WordBits]
  BY NumSums
<1>3. /\ \A m \in 0 .. WordBits : f[m] = SumStep(f, m, y)
      /\ \A m \in 0 .. WordBits : g[m] = SumStep(g, m, low)
  BY <1>1, <1>2
<1>4. WordBits \in Nat /\ k \in Nat /\ k <= WordBits /\ Q \in Nat \ {0} /\ WordBits - k \in Nat
  BY HalfFacts, PowersAssumption DEF PowersAssumption
<1> DEFINE S == {m \in 0 .. k : f[m] = g[m] /\ g[m] \in 0 .. 2 ^ m - 1}
           T == {j \in 0 .. WordBits - k : /\ g[k + j] = g[k]
                                           /\ \E t \in Nat : f[k + j] = Q * t + g[k]}
<1>5. \A n \in 0 .. WordBits - 1 :
        /\ f[n + 1] = f[n] + (IF n \in y THEN 2 ^ n ELSE 0)
        /\ g[n + 1] = g[n] + (IF n \in low THEN 2 ^ n ELSE 0)
        /\ 2 ^ n \in Nat \ {0} /\ 2 ^ (n + 1) = 2 * 2 ^ n
  <2> SUFFICES ASSUME NEW n \in 0 .. WordBits - 1
               PROVE  /\ f[n + 1] = f[n] + (IF n \in y THEN 2 ^ n ELSE 0)
                      /\ g[n + 1] = g[n] + (IF n \in low THEN 2 ^ n ELSE 0)
                      /\ 2 ^ n \in Nat \ {0} /\ 2 ^ (n + 1) = 2 * 2 ^ n
    OBVIOUS
  <2>1. n \in 0 .. WordBits /\ n + 1 \in 0 .. WordBits /\ n + 1 # 0 /\ (n + 1) - 1 = n
    BY <1>4
  <2>2. f[n + 1] = SumStep(f, n + 1, y) /\ g[n + 1] = SumStep(g, n + 1, low)
    BY <1>3, <2>1
  <2> QED
    BY <2>1, <2>2, PowersAssumption DEF SumStep, PowersAssumption
<1>6. 0 \in S
  <2>1. 0 \in 0 .. k /\ 0 \in 0 .. WordBits
    BY <1>4
  <2>2. f[0] = 0 /\ g[0] = 0
    BY <1>3, <2>1 DEF SumStep
  <2>3. 2 ^ 0 = 1
    BY SMT
  <2> QED
    BY <2>1, <2>2, <2>3
<1>7. ASSUME NEW n \in 0 .. k - 1, n \in S PROVE n + 1 \in S
  <2>1. n \in 0 .. WordBits - 1 /\ n + 1 \in 0 .. k /\ (n \in low <=> n \in y)
    BY <1>4
  <2> DEFINE p == 2 ^ n
             pp == 2 ^ (n + 1)
  <2>2. /\ f[n + 1] = f[n] + (IF n \in y THEN p ELSE 0)
        /\ g[n + 1] = g[n] + (IF n \in low THEN p ELSE 0)
        /\ p \in Nat \ {0} /\ pp = 2 * p
    BY <1>5, <2>1
  <2>3. f[n] = g[n] /\ g[n] \in 0 .. p - 1
    BY <1>7
  <2> HIDE DEF p, pp, low
  <2>4. f[n + 1] = g[n + 1] /\ g[n + 1] \in 0 .. pp - 1
    BY <2>1, <2>2, <2>3
  <2> QED
    BY <2>1, <2>4 DEF pp
<1>8. k \in S
  <2> HIDE DEF S
  <2>1. \A m \in 0 .. k : m \in S
    BY <1>4, <1>6, <1>7, UpTo
  <2> QED
    BY <1>4, <2>1
<1>9. f[k] = g[k] /\ g[k] \in 0 .. Q - 1
  BY <1>8
<1> HIDE DEF S
<1>10. 0 \in T
  <2>1. k + 0 = k /\ 0 \in Nat /\ 0 \in 0 .. WordBits - k
    BY <1>4
  <2>2. f[k + 0] = Q * 0 + g[k]
    BY <1>4, <1>9, <2>1
  <2> QED
    BY <2>1, <2>2
<1>11. ASSUME NEW j \in 0 .. WordBits - k - 1, j \in T PROVE j + 1 \in T
  <2>1. /\ k + j \in 0 .. WordBits - 1 /\ k + (j + 1) = (k + j) + 1 /\ k + j \notin low
        /\ j \in 0 .. WordBits - k /\ j + 1 \in 0 .. WordBits - k
    BY <1>4
  <2>2. PICK u \in Nat \ {0} : 2 ^ (k + j) = Q * u
    BY <2>1, Multiples
  <2>3. PICK t \in Nat : f[k + j] = Q * t + g[k]
    BY <1>11
  <2>4. g[k + (j + 1)] = g[k]
    BY <1>5, <1>9, <1>11, <2>1
  <2>5. f[k + (j + 1)] = f[k + j] + (IF k + j \in y THEN Q * u ELSE 0)
    BY <1>5, <2>1, <2>2
  <2> DEFINE s == t + (IF k + j \in y THEN u ELSE 0)
  <2>6. Q * s = Q * t + (IF k + j \in y THEN Q * u ELSE 0) /\ s \in Nat
    <3>1. Q * (t + u) = Q * t + Q * u /\ Q * (t + 0) = Q * t + 0 /\ t + u \in Nat
      BY <1>4, SMT
    <3> QED
      BY <3>1
  <2>7. Q * t \in Int /\ Q * u \in Int /\ g[k] \in Int
    BY <1>4, <1>9
  <2> HIDE DEF s, Q
  <2>8. f[k + (j + 1)] = Q * s + g[k]
    BY <2>3, <2>5, <2>6, <2>7
  <2> QED
    BY <2>1, <2>4, <2>6, <2>8
<1>12. WordBits - k \in T
  <2> HIDE DEF T
  <2>1. \A j \in 0 .. WordBits - k : j \in T
    BY <1>4, <1>10, <1>11, UpTo
  <2> QED
    BY <1>4, <2>1
<1>13. k + (WordBits - k) = WordBits
  BY <1>4
<1>14. PICK t \in Nat : Num(y) = Q * t + g[k]
  BY <1>1, <1>12, <1>13
<1>15. Num(low) = g[k]
  BY <1>2, <1>12, <1>13
<1>16. Num(y) \in Int /\ t \in Int
  BY NumType
<1> HIDE DEF Q, T
<1>17. Num(y) % Q = g[k]
  BY <1>4, <1>9, <1>14, <1>16, Divided
<1> QED
  BY <1>15, <1>17 DEF Q

\* An operand has 2^k bits, and its bit numbers fit in a byte.
LEMMA SizePower ==
  ASSUME NEW w \in {0, 1}
  PROVE  \E k \in 0 .. WordBits : /\ Size(w) = 2 ^ k /\ k <= Size(w) /\ k <= ByteBits
<1>1. WordBits \in Nat \ {0} /\ ByteBits \in Nat /\ ByteBits <= WordBits
  BY WordsAssumption DEF WordsAssumption
<1>2. PICK k \in 1 .. ByteBits : WordBits = 2 ^ k
  BY EmulAssumption DEF EmulAssumption
<1> DEFINE S == {n \in 0 .. WordBits : n <= 2 ^ n}
<1>3. \A n \in 0 .. WordBits : n \in S
  <2>1. 0 \in S
    <3>1. 2 ^ 0 = 1
      BY SMT
    <3> QED
      BY <1>1, <3>1
  <2>2. ASSUME NEW n \in 0 .. WordBits - 1, n \in S PROVE n + 1 \in S
    <3>1. n \in 0 .. WordBits /\ n \in Nat /\ n + 1 \in 0 .. WordBits
      BY <1>1
    <3>2. 2 ^ n \in Nat \ {0} /\ 2 ^ (n + 1) = 2 * 2 ^ n
      BY <3>1, PowersAssumption DEF PowersAssumption
    <3>3. n <= 2 ^ n
      BY <2>2
    <3>4. n + 1 <= 2 ^ (n + 1)
      BY <3>1, <3>2, <3>3
    <3> QED
      BY <3>1, <3>4
  <2> HIDE DEF S
  <2> QED
    BY <1>1, <2>1, <2>2, UpTo
<1>4. \A n \in 0 .. WordBits : n <= 2 ^ n
  BY <1>3
<1>5. k - 1 \in 0 .. WordBits /\ k \in 0 .. WordBits /\ (k - 1) + 1 = k /\ k <= ByteBits /\ k - 1 <= ByteBits
  BY <1>1, <1>2
<1>6. 2 ^ (k - 1) \in Nat \ {0} /\ 2 ^ ((k - 1) + 1) = 2 * 2 ^ (k - 1)
  BY <1>5, PowersAssumption DEF PowersAssumption
<1>7. WordBits = 2 * 2 ^ (k - 1)
  BY <1>2, <1>5, <1>6
<1>8. Size(1) = 2 ^ k /\ Size(0) = 2 ^ (k - 1)
  BY <1>2, <1>6, <1>7 DEF Size
<1>9. CASE w = 1
  BY <1>4, <1>5, <1>8, <1>9
<1>10. CASE w = 0
  BY <1>4, <1>5, <1>8, <1>10
<1> QED
  BY <1>9, <1>10

\* A count taken from the whole operand or from its low byte is the same.
LEMMA CountLow ==
  ASSUME NEW w \in {0, 1}, NEW v
  PROVE  Num(Trunc(v, w)) % Size(w) = Count(v, w)
<1>1. PICK k \in 0 .. WordBits : Size(w) = 2 ^ k /\ k <= Size(w) /\ k <= ByteBits
  BY SizePower
<1>2. k \in Nat /\ Size(w) \in Int /\ ByteBits \in Nat
  BY <1>1, WordsAssumption, SMT DEF WordsAssumption, Size
<1>3. Trunc(v, w) \intersect (0 .. k - 1) = v \intersect (0 .. k - 1)
  <2>1. 0 .. k - 1 \subseteq Ones(w)
    BY <1>1, <1>2 DEF Ones
  <2> QED
    BY <2>1 DEF Trunc
<1>4. (v \intersect Byte) \intersect (0 .. k - 1) = v \intersect (0 .. k - 1)
  <2>1. 0 .. k - 1 \subseteq Byte
    BY <1>1, <1>2 DEF Byte
  <2> QED
    BY <2>1
<1>5. Num(Trunc(v, w)) % 2 ^ k = Num(v \intersect (0 .. k - 1))
  BY <1>3, NumMod
<1>6. Num(v \intersect Byte) % 2 ^ k = Num(v \intersect (0 .. k - 1))
  BY <1>4, NumMod
<1> QED
  BY <1>1, <1>5, <1>6 DEF Count

\* The elements of a word are numbers, and the ones below n + 1 those below n and n.
LEMMA BitsBelow ==
  ASSUME NEW x \in Words
  PROVE  /\ \A j \in x : j \in Int /\ 0 <= j /\ j < WordBits
         /\ {j \in x : j < 0} = {}
         /\ {j \in x : j < WordBits} = x
         /\ \A n \in Nat : /\ {j \in x : j < n} \subseteq 0 .. n - 1
                          /\ {j \in x : j < n + 1} = {j \in x : j < n} \union (x \intersect {n})
<1>1. ASSUME NEW j \in x PROVE j \in Int /\ 0 <= j /\ j < WordBits
  <2>1. j \in 0 .. WordBits - 1
    BY DEF Words
  <2> QED
    BY <2>1, HalfFacts
<1>2. \A j \in x : ~(j < 0) /\ j < WordBits
  BY <1>1
<1>3. {j \in x : j < 0} = {} /\ {j \in x : j < WordBits} = x
  BY <1>2, Zenon
<1>4. ASSUME NEW n \in Nat
      PROVE  /\ {j \in x : j < n} \subseteq 0 .. n - 1
             /\ {j \in x : j < n + 1} = {j \in x : j < n} \union (x \intersect {n})
  <2>1. \A j \in x : j < n => j \in 0 .. n - 1
    BY <1>1
  <2>2. \A j \in x : j < n + 1 <=> j < n \/ j = n
    BY <1>1
  <2>3. {j \in x : j < n + 1} = {j \in x : j < n} \union (x \intersect {n})
    BY <2>2, Zenon
  <2> QED
    BY <2>1, <2>3, Zenon
<1> QED
  BY <1>1, <1>3, <1>4

\* How ranks grow.
LEMMA RankNext ==
  ASSUME NEW mask \in Words, NEW m \in Nat
  PROVE  /\ Rank(mask, m) \in 0 .. m
         /\ Rank(mask, m + 1) = Rank(mask, m) + (IF m \in mask THEN 1 ELSE 0)
<1> DEFINE below(j) == {n \in mask : n < j}
<1>1. /\ below(m) \subseteq 0 .. m - 1
      /\ below(m + 1) = below(m) \union (mask \intersect {m})
      /\ m \notin below(m)
  BY BitsBelow
<1>2. IsFiniteSet(0 .. m - 1) /\ Cardinality(0 .. m - 1) = m
  BY FS_Interval
<1>3. Rank(mask, m) = Cardinality(below(m)) /\ Rank(mask, m + 1) = Cardinality(below(m + 1))
  BY DEF Rank
<1> HIDE DEF below
<1>4. IsFiniteSet(below(m)) /\ Cardinality(below(m)) \in Nat /\ Cardinality(below(m)) <= m
  BY <1>1, <1>2, FS_Subset, FS_CardinalityType
<1>5. CASE m \in mask
  <2>1. below(m + 1) = below(m) \union {m}
    BY <1>1, <1>5
  <2>2. Cardinality(below(m + 1)) = Cardinality(below(m)) + 1
    BY <1>1, <1>4, <2>1, FS_AddElement
  <2> QED
    BY <1>3, <1>4, <1>5, <2>2
<1>6. CASE m \notin mask
  <2>1. below(m + 1) = below(m)
    BY <1>1, <1>6
  <2> QED
    BY <1>3, <1>4, <1>6, <2>1
<1> QED
  BY <1>5, <1>6

\* The loop of emu_pext extracts.
LEMMA PextIs ==
  ASSUME NEW src, NEW mask \in Words
  PROVE  PextLoop(src, mask) = Pext(src, mask)
<1>1. PICK st : /\ st = [m \in 0 .. WordBits |-> PextStep(st, m, src, mask)]
                /\ PextLoop(src, mask) = st[WordBits].res
  BY PextStates
<1>2. WordBits \in Nat /\ mask \subseteq 0 .. WordBits - 1
  BY HalfFacts DEF Words
<1>0. mask \intersect src \in Words
  BY DEF Words
<1> DEFINE Met(m) == {n \in mask \intersect src : n < m}
           S == {m \in 0 .. WordBits : /\ st[m].k = Rank(mask, m)
                                       /\ st[m].res = {Rank(mask, j) : j \in Met(m)}}
<1>3. \A m \in 0 .. WordBits : st[m] = PextStep(st, m, src, mask)
  BY <1>1
<1>4. 0 \in S
  <2>1. 0 \in 0 .. WordBits /\ 0 \in Nat
    BY <1>2
  <2>2. st[0] = PextStep(st, 0, src, mask)
    BY <1>3, <2>1
  <2>3. st[0] = [res |-> {}, k |-> 0]
    BY <2>2 DEF PextStep
  <2>4. Rank(mask, 0) = 0
    BY <2>1, RankNext
  <2>5. Met(0) = {}
    BY <1>0, BitsBelow
  <2> QED
    BY <2>1, <2>3, <2>4, <2>5
<1>5. ASSUME NEW n \in 0 .. WordBits - 1, n \in S PROVE n + 1 \in S
  <2>1. n \in Nat /\ n + 1 \in 0 .. WordBits /\ n + 1 # 0 /\ (n + 1) - 1 = n
    BY <1>2
  <2>2. st[n].k = Rank(mask, n) /\ st[n].res = {Rank(mask, j) : j \in Met(n)}
    BY <1>5
  <2>3. st[n + 1] = IF n \notin mask THEN st[n]
                    ELSE [res |-> IF n \in src THEN st[n].res \union {st[n].k} ELSE st[n].res,
                          k   |-> st[n].k + 1]
    BY <1>3, <2>1 DEF PextStep
  <2>4. Met(n + 1) = Met(n) \union ((mask \intersect src) \intersect {n})
    BY <1>0, <2>1, BitsBelow
  <2>5. st[n + 1].k = Rank(mask, n + 1)
    BY <2>1, <2>2, <2>3, RankNext
  <2>6. st[n + 1].res = {Rank(mask, j) : j \in Met(n + 1)}
    <3> HIDE DEF Met
    <3>1. CASE n \in mask \intersect src
      <4>1. st[n + 1].res = st[n].res \union {Rank(mask, n)}
        BY <2>2, <2>3, <3>1
      <4>2. Met(n + 1) = Met(n) \union {n}
        BY <2>4, <3>1
      <4> QED
        BY <2>2, <4>1, <4>2
    <3>2. CASE n \notin mask \intersect src
      <4>1. st[n + 1].res = st[n].res
        BY <2>3, <3>2
      <4>2. Met(n + 1) = Met(n)
        BY <2>4, <3>2
      <4> QED
        BY <2>2, <4>1, <4>2
    <3> QED
      BY <3>1, <3>2
  <2> QED
    BY <2>1, <2>5, <2>6
<1> HIDE DEF S
<1>6. \A m \in 0 .. WordBits : m \in S
  BY <1>2, <1>4, <1>5, UpTo
<1>7. WordBits \in S
  BY <1>2, <1>6
<1>8. Met(WordBits) = mask \intersect src
  BY <1>0, BitsBelow
<1> QED
  BY <1>1, <1>7, <1>8 DEF S, Pext

\* The loop of emu_pdep deposits.
LEMMA PdepIs ==
  ASSUME NEW src, NEW mask \in Words
  PROVE  PdepLoop(src, mask) = Pdep(src, mask)
<1>1. PICK st : /\ st = [m \in 0 .. WordBits |-> PdepStep(st, m, src, mask)]
                /\ PdepLoop(src, mask) = st[WordBits].res
  BY PdepStates
<1>2. WordBits \in Nat /\ mask \subseteq 0 .. WordBits - 1
  BY HalfFacts DEF Words
<1> DEFINE On == {n \in mask : Rank(mask, n) \in src}
<1>0. On \in Words
  BY DEF Words
<1> DEFINE Put(m) == {n \in On : n < m}
           S == {m \in 0 .. WordBits : st[m].k = Rank(mask, m) /\ st[m].res = Put(m)}
<1>3. \A m \in 0 .. WordBits : st[m] = PdepStep(st, m, src, mask)
  BY <1>1
<1>4. 0 \in S
  <2>1. 0 \in 0 .. WordBits /\ 0 \in Nat
    BY <1>2
  <2>2. st[0] = PdepStep(st, 0, src, mask)
    BY <1>3, <2>1
  <2>3. st[0] = [res |-> {}, k |-> 0]
    BY <2>2 DEF PdepStep
  <2>4. Rank(mask, 0) = 0
    BY <2>1, RankNext
  <2>5. Put(0) = {}
    BY <1>0, BitsBelow
  <2> QED
    BY <2>1, <2>3, <2>4, <2>5
<1>5. ASSUME NEW n \in 0 .. WordBits - 1, n \in S PROVE n + 1 \in S
  <2>1. n \in Nat /\ n + 1 \in 0 .. WordBits /\ n + 1 # 0 /\ (n + 1) - 1 = n
    BY <1>2
  <2>2. st[n].k = Rank(mask, n) /\ st[n].res = Put(n)
    BY <1>5
  <2>3. st[n + 1] = IF n \notin mask THEN st[n]
                    ELSE [res |-> IF st[n].k \in src THEN st[n].res \union {n} ELSE st[n].res,
                          k   |-> st[n].k + 1]
    BY <1>3, <2>1 DEF PdepStep
  <2>4. Put(n + 1) = Put(n) \union (On \intersect {n})
    BY <1>0, <2>1, BitsBelow
  <2>7. n \in On <=> n \in mask /\ Rank(mask, n) \in src
    BY DEF On
  <2>5. st[n + 1].k = Rank(mask, n + 1)
    BY <2>1, <2>2, <2>3, RankNext
  <2>6. st[n + 1].res = Put(n + 1)
    <3> HIDE DEF Put, On
    <3>1. CASE n \in On
      <4>1. st[n + 1].res = st[n].res \union {n}
        BY <2>2, <2>3, <2>7, <3>1
      <4>2. Put(n + 1) = Put(n) \union {n}
        BY <2>4, <3>1
      <4> QED
        BY <2>2, <4>1, <4>2
    <3>2. CASE n \notin On
      <4>1. st[n + 1].res = st[n].res
        BY <2>2, <2>3, <2>7, <3>2
      <4>2. Put(n + 1) = Put(n)
        BY <2>4, <3>2
      <4> QED
        BY <2>2, <4>1, <4>2
    <3> QED
      BY <3>1, <3>2
  <2> QED
    BY <2>1, <2>5, <2>6
<1> HIDE DEF S
<1>6. \A m \in 0 .. WordBits : m \in S
  BY <1>2, <1>4, <1>5, UpTo
<1>7. WordBits \in S
  BY <1>2, <1>6
<1>8. Put(WordBits) = Pdep(src, mask)
  BY <1>0, BitsBelow DEF Pdep
<1> QED
  BY <1>1, <1>7, <1>8 DEF S

-----------------------------------------------------------------------------
(* The refinement. *)

\* The processor's arithmetic is that of Words.
LEMMA SameWords ==
  /\ Native!Words = Words /\ Native!RegFiles = RegFiles /\ Native!Byte = Byte
  /\ \A w : Native!Size(w) = Size(w) /\ Native!Ones(w) = Ones(w)
  /\ \A x, w : Native!Trunc(x, w) = Trunc(x, w)
  /\ \A x : Native!Num(x) = Num(x)
  /\ \A n : Native!Wrap(n) = Wrap(n)
<1>1. Native!Words = Words /\ Native!RegFiles = RegFiles /\ Native!Byte = Byte
  BY DEF Native!Words, Words, Native!RegFiles, RegFiles, Native!RegIds, RegIds, Native!Byte, Byte
<1>2. \A w : Native!Size(w) = Size(w)
  BY DEF Native!Size, Size
<1>3. \A w : Native!Ones(w) = Ones(w)
  BY <1>2, Zenon DEF Native!Ones, Ones
<1>4. \A x, w : Native!Trunc(x, w) = Trunc(x, w)
  BY <1>3, Zenon DEF Native!Trunc, Trunc
<1>5. \A x : Native!Num(x) = Num(x)
  BY DEF Native!Num, Num
<1>6. \A n, l : Native!Bits(n, l) = Bits(n, l)
  BY Zenon DEF Native!Bits, Bits
<1>7. \A n : Native!Wrap(n) = Wrap(n)
  BY <1>6, Zenon DEF Native!Wrap, Wrap
<1> QED
  BY <1>1, <1>2, <1>3, <1>4, <1>5, <1>7

\* Its operands are those of BmiIsa ...
LEMMA SameOperands ==
  /\ \A i : Native!Mnemonic(i) = Mnemonic(i) /\ Native!Length(i) = Length(i)
  /\ \A i, r, p : Native!Source(i, r, p) = IF IsMem(i) THEN Mem[Address(i, r, p)] ELSE r[BaseReg(i)]
<1>1. \A i : Native!Mnemonic(i) = Mnemonic(i)
  BY DEF Native!Mnemonic, Mnemonic, Native!Table, Table
<1>2. \A i : /\ Native!IsMem(i) = IsMem(i) /\ Native!HasSib(i) = HasSib(i)
             /\ Native!NoBase(i) = NoBase(i) /\ Native!RipRelative(i) = RipRelative(i)
  BY Zenon DEF Native!IsMem, IsMem, Native!HasSib, HasSib, Native!NoBase, NoBase,
               Native!RipRelative, RipRelative
<1>3. \A i : Native!DispSize(i) = DispSize(i)
  BY <1>2, Zenon DEF Native!DispSize, DispSize
<1>4. \A i : Native!Disp(i) = Disp(i)
  BY <1>3, Zenon DEF Native!Disp, Disp
<1>5. \A i : Native!Length(i) = Length(i)
  BY <1>2, <1>3, Zenon DEF Native!Length, Length
<1>6. \A i : Native!BaseReg(i) = BaseReg(i) /\ Native!IndexReg(i) = IndexReg(i)
  BY <1>2, Zenon DEF Native!BaseReg, BaseReg, Native!IndexReg, IndexReg
<1>7. \A i, r, p : Native!Address(i, r, p) = Address(i, r, p)
  BY <1>2, <1>4, <1>5, <1>6, SameWords, Zenon DEF Native!Address, Address, Native!RSP, RSP
<1>8. \A i, r, p : Native!Source(i, r, p) = IF IsMem(i) THEN Mem[Address(i, r, p)] ELSE r[BaseReg(i)]
  BY <1>2, <1>6, <1>7, Zenon DEF Native!Source
<1> QED
  BY <1>1, <1>5, <1>8, Zenon

\* ... and so are its results.
LEMMA SameResults == \A i, s, v : Native!Result(i, s, v) = Result(i, s, v)
<1>1. \A x, w : Native!Count(x, w) = Count(x, w)
  BY SameWords, Zenon DEF Native!Count, Count
<1>2. \A x, c, w : Native!Shl(x, c, w) = Shl(x, c, w) /\ Native!Shr(x, c, w) = Shr(x, c, w)
  BY SameWords, Zenon DEF Native!Shl, Shl, Native!Shr, Shr
<1>3. \A x, c, w : Native!Sar(x, c, w) = Sar(x, c, w)
  BY <1>2, SameWords, Zenon DEF Native!Sar, Sar
<1>4. \A x, c, w : Native!Ror(x, c, w) = Ror(x, c, w)
  BY SameWords, Zenon DEF Native!Ror, Ror
<1>5. \A x, n : Native!Low(x, n) = Low(x, n)
  BY Zenon DEF Native!Low, Low
<1>6. \A x, y : /\ Native!Rank(x, y) = Rank(x, y) /\ Native!Pext(x, y) = Pext(x, y)
                /\ Native!Pdep(x, y) = Pdep(x, y)
  <2>1. \A x : Native!Cardinality(x) = Cardinality(x)
    BY Zenon DEF Native!Cardinality, Cardinality
  <2>2. \A x, y : Native!Rank(x, y) = Rank(x, y)
    BY <2>1, Zenon DEF Native!Rank, Rank
  <2> QED
    BY <2>2, Zenon DEF Native!Pext, Pext, Native!Pdep, Pdep
<1>7. \A i : Native!Mnemonic(i) = Mnemonic(i)
  BY SameOperands
<1>8. ASSUME NEW i, NEW s, NEW v PROVE Native!Result(i, s, v) = Result(i, s, v)
  <2> DEFINE c == Count(v, i.w)
             n == Num(v \intersect Byte)
             mnem == Mnemonic(i)
             size == Size(i.w)
             t == Trunc(s, i.w)
  <2>1. Native!Result(i, s, v) =
          CASE mnem = "SHLX" -> Shl(s, c, i.w)
            [] mnem = "SARX" -> Sar(s, c, i.w)
            [] mnem = "SHRX" -> Shr(s, c, i.w)
            [] mnem = "BZHI" -> IF n < size THEN Low(t, n) ELSE t
            [] mnem = "PEXT" -> Pext(t, Trunc(v, i.w))
            [] mnem = "PDEP" -> Pdep(v, t)
            [] mnem = "RORX" -> Ror(s, i.imm % size, i.w)
    BY <1>1, <1>2, <1>3, <1>4, <1>5, <1>6, <1>7, SameWords DEF Native!Result
  <2> QED
    BY <2>1 DEF Result
<1> QED
  BY <1>8

\* decode_modrm and the rest of the emulator count the bytes of an instruction.
LEMMA LengthDecoded ==
  ASSUME NEW i \in Insns, i.trap = "ud"
  PROVE  Length(i) = 3 + 1 + ModRMLen(i) + (IF i.map = 3 THEN 1 ELSE 0)
<1>1. i.m.mod \in 0 .. 3 /\ i.map \in 1 .. 3
  BY DEF Insns, ModRMs
<1> DEFINE len0 == (IF HasSib(i) THEN 1 ELSE 0) + DispSize(i)
<1>2. ModRMLen(i) = 1 + len0 /\ len0 \in Nat
  <2>1. CASE i.m.mod = 0
    BY <2>1 DEF ModRMLen, HasSib, IsMem, DispSize, NoBase, RipRelative
  <2>2. CASE i.m.mod = 1
    BY <2>2 DEF ModRMLen, HasSib, IsMem, DispSize, NoBase, RipRelative
  <2>3. CASE i.m.mod = 2
    BY <2>3 DEF ModRMLen, HasSib, IsMem, DispSize, NoBase, RipRelative
  <2>4. CASE i.m.mod = 3
    <3>1. ModRMLen(i) = 1
      BY <2>4, Zenon DEF ModRMLen
    <3>2. ~HasSib(i) /\ DispSize(i) = 0
      BY <2>4 DEF HasSib, IsMem, DispSize, NoBase, RipRelative
    <3> QED
      BY <3>1, <3>2
  <2> QED
    BY <1>1, <2>1, <2>2, <2>3, <2>4
<1>3. DispSize(i) \in Nat
  BY DEF DispSize
<1> DEFINE d == DispSize(i)
           h == IF HasSib(i) THEN 1 ELSE 0
           m == IF i.map = 3 THEN 1 ELSE 0
<1>4. Length(i) = 3 + 1 + 1 + h + d + m
  BY DEF Length
<1>5. ModRMLen(i) = 1 + (h + d)
  BY <1>2
<1>6. h \in Nat /\ m \in Nat /\ d \in Nat
  BY <1>3
<1> HIDE DEF d, h, m
<1>7. Length(i) = 3 + 1 + ModRMLen(i) + m
  BY <1>4, <1>5, <1>6
<1> QED
  BY <1>7 DEF m

\* The operand the emulator reads is the processor's, cut to its size.
LEMMA SourceRead ==
  ASSUME NEW i \in Insns, NEW r \in RegFiles, NEW p \in Nat, i.map = 2, i.trap = "ud",
         i.m.disp \in - 2 ^ (Size(0) - 1) .. 2 ^ (Size(0) - 1) - 1, OperandFound(i, r, p)
  PROVE  SrcRm(i, r, p) =
           Trunc(IF IsMem(i) THEN Mem[Address(i, r, p)] ELSE r[BaseReg(i)], i.w)
<1>1. CASE IsMem(i)
  <2>1. OperandAddress(i, r, p) = Address(i, r, p)
    BY <1>1, AddressFound
  <2> QED
    BY <1>1, <2>1 DEF SrcRm, IsMem
<1>2. CASE ~IsMem(i)
  BY <1>2 DEF SrcRm, IsMem, BaseReg, HasSib
<1> QED
  BY <1>1, <1>2

\* Counts do not reach the operand size.
LEMMA CountRange ==
  ASSUME NEW v, NEW w \in {0, 1}
  PROVE  Size(w) \in Nat \ {0} /\ Count(v, w) \in 0 .. Size(w) - 1
<1>1. Size(w) \in Nat \ {0}
  BY HalfFacts DEF Size
<1>2. Num(v \intersect Byte) \in Nat
  BY NumType
<1> DEFINE z == Size(w)
           n == Num(v \intersect Byte)
<1> HIDE DEF z, n
<1>3. n % z \in 0 .. z - 1
  BY <1>1, <1>2 DEF z, n
<1> QED
  BY <1>1, <1>3 DEF z, n, Count

\* PDEP takes no bit from above the operand size.
LEMMA PdepTrunc ==
  ASSUME NEW v, NEW w \in {0, 1}, NEW mask, mask \subseteq Ones(w)
  PROVE  Pdep(Trunc(v, w), mask) = Pdep(v, mask)
<1>1. Size(w) \in Nat \ {0} /\ Size(w) <= WordBits /\ WordBits \in Nat
  BY HalfFacts DEF Size
<1>2. Ones(w) \subseteq 0 .. WordBits - 1
  BY <1>1 DEF Ones
<1>3. mask \in Words
  BY <1>2 DEF Words
<1>4. ASSUME NEW j \in mask PROVE Rank(mask, j) \in Ones(w)
  <2>1. j \in 0 .. Size(w) - 1
    BY DEF Ones
  <2>2. j \in Nat
    BY <1>1, <2>1
  <2>3. Rank(mask, j) \in 0 .. j
    BY <1>3, <2>2, RankNext
  <2> QED
    BY <1>1, <2>1, <2>3 DEF Ones
<1>5. \A j \in mask : Rank(mask, j) \in Trunc(v, w) <=> Rank(mask, j) \in v
  BY <1>4 DEF Trunc
<1> QED
  BY <1>5, Zenon DEF Pdep

\* Where Sure holds, result is what the processor computes.
LEMMA ResultRight ==
  ASSUME NEW i \in Insns, NEW r \in RegFiles, NEW p \in Nat, Sure(i, r, p),
         i.m.disp \in - 2 ^ (Size(0) - 1) .. 2 ^ (Size(0) - 1) - 1
  PROVE  Emulated(i, r, p) =
           Result(i, IF IsMem(i) THEN Mem[Address(i, r, p)] ELSE r[BaseReg(i)], r[i.vvvv])
<1> DEFINE s == IF IsMem(i) THEN Mem[Address(i, r, p)] ELSE r[BaseReg(i)]
           w == i.w
           v == r[i.vvvv]
           t == Trunc(s, w)
           u == Trunc(v, w)
           c == Count(v, w)
           n == Num(v \intersect Byte)
           mnem == Mnemonic(i)
<1>1. OperandFound(i, r, p) /\ ArithmeticRight(i, r, p)
  BY DEF Sure
<1>2. mnem \in {"SHLX", "PEXT", "PDEP", "SARX", "BZHI"}
  BY <1>1 DEF ArithmeticRight
<1>3. mnem \in Known
  BY <1>2 DEF Known
<1>4. /\ i.trap = "ud" /\ i.vex3 /\ i.map = 2
      /\ <<i.map, i.pp, i.opcode, mnem>> \in Table
  BY <1>3, InTable, KnownHandled
<1>5. SrcRm(i, r, p) = t
  BY <1>1, <1>4, SourceRead
<1>6. SrcVvv(i, r) = u /\ w \in {0, 1}
  BY DEF SrcVvv, Insns
<1>7. Num(u) % Size(w) = c
  BY <1>6, CountLow
<1>8. Size(w) \in Nat \ {0} /\ c \in 0 .. Size(w) - 1 /\ n \in Nat
  BY <1>6, CountRange, NumType
<1>9. Trunc(t, w) = t
  BY DEF Trunc
<1>10. t \in Words /\ u \in Words /\ t \subseteq Ones(w)
  <2>1. Size(w) <= WordBits /\ WordBits \in Nat
    BY <1>6, HalfFacts DEF Size
  <2>2. Ones(w) \subseteq 0 .. WordBits - 1
    BY <1>8, <2>1 DEF Ones
  <2> QED
    BY <2>2 DEF Trunc, Words
<1>11. Emulated(i, r, p) =
         CASE i.opcode = "F5" /\ i.pp = 0 -> Low(t, c)
           [] i.opcode = "F5" /\ i.pp = 2 -> PextLoop(t, u)
           [] i.opcode = "F5" /\ i.pp = 3 -> PdepLoop(u, t)
           [] i.opcode = "F6"             -> MulHigh(r[2], t, w)
           [] i.opcode = "F7" /\ i.pp = 0 -> Sar(t, c, w)
           [] i.opcode = "F7" /\ i.pp = 2 -> Shr(t, c, w)
           [] i.opcode = "F7" /\ i.pp = 1 -> Shl(t, c, w)
           [] i.opcode = "F0"             -> Ror(t, i.imm % Size(w), w)
  BY <1>5, <1>6, <1>7 DEF Emulated
<1>12. Result(i, s, v) =
         CASE mnem = "SHLX" -> Shl(s, c, w)
           [] mnem = "SARX" -> Sar(s, c, w)
           [] mnem = "SHRX" -> Shr(s, c, w)
           [] mnem = "BZHI" -> IF n < Size(w) THEN Low(t, n) ELSE t
           [] mnem = "PEXT" -> Pext(t, u)
           [] mnem = "PDEP" -> Pdep(v, t)
           [] mnem = "RORX" -> Ror(s, i.imm % Size(w), w)
  BY DEF Result
<1> HIDE DEF s, w, v, t, u, c, n, mnem
<1>13. CASE mnem = "SHLX"
  <2>1. i.opcode = "F7" /\ i.pp = 1
    BY <1>4, <1>13 DEF Table
  <2>2. Emulated(i, r, p) = Shl(t, c, w) /\ Result(i, s, v) = Shl(s, c, w)
    BY <1>11, <1>12, <1>13, <2>1
  <2>3. Shl(t, c, w) = Shl(s, c, w)
    BY <1>9, Zenon DEF Shl, t
  <2> QED
    BY <2>2, <2>3 DEF s, v
<1>14. CASE mnem = "PEXT"
  <2>1. i.opcode = "F5" /\ i.pp = 2
    BY <1>4, <1>14 DEF Table
  <2>2. Emulated(i, r, p) = PextLoop(t, u) /\ Result(i, s, v) = Pext(t, u)
    BY <1>11, <1>12, <1>14, <2>1
  <2> QED
    BY <1>10, <2>2, PextIs DEF s, v
<1>15. CASE mnem = "PDEP"
  <2>1. i.opcode = "F5" /\ i.pp = 3
    BY <1>4, <1>15 DEF Table
  <2>2. Emulated(i, r, p) = PdepLoop(u, t) /\ Result(i, s, v) = Pdep(v, t)
    BY <1>11, <1>12, <1>15, <2>1
  <2>3. Pdep(u, t) = Pdep(v, t)
    BY <1>6, <1>10, PdepTrunc DEF u
  <2> QED
    BY <1>10, <2>2, <2>3, PdepIs DEF s, v
<1>16. CASE mnem = "SARX"
  <2>1. i.opcode = "F7" /\ i.pp = 2
    BY <1>4, <1>16 DEF Table
  <2>2. Emulated(i, r, p) = Shr(t, c, w) /\ Result(i, s, v) = Sar(s, c, w)
    BY <1>11, <1>12, <1>16, <2>1
  <2>3. Size(w) - 1 \notin s \/ c = 0
    BY <1>1, <1>16 DEF ArithmeticRight, s, w, v, c, mnem
  <2>4. \A k \in Ones(w) : ~(Size(w) - 1 \in s /\ k >= Size(w) - c)
    BY <1>8, <2>3 DEF Ones
  <2>5. Sar(s, c, w) = Shr(s, c, w)
    BY <2>4, Zenon DEF Sar
  <2>6. Shr(t, c, w) = Shr(s, c, w)
    BY <1>9, Zenon DEF Shr, t
  <2> QED
    BY <2>2, <2>5, <2>6 DEF s, v
<1>17. CASE mnem = "BZHI"
  <2>1. i.opcode = "F5" /\ i.pp = 0
    BY <1>4, <1>17 DEF Table
  <2>2. n < Size(w)
    BY <1>1, <1>17 DEF ArithmeticRight, s, w, v, n, mnem
  <2>3. c = n
    <3>1. c = n % Size(w)
      BY DEF c, n, Count
    <3> DEFINE z == Size(w)
    <3>2. z \in Nat \ {0} /\ n \in Nat /\ n < z
      BY <1>8, <2>2
    <3> HIDE DEF z
    <3>3. n % z = n
      BY <3>2
    <3> QED
      BY <3>1, <3>3 DEF z
  <2>4. Emulated(i, r, p) = Low(t, c)
    BY <1>11, <2>1
  <2>5. Result(i, s, v) = Low(t, n)
    BY <1>12, <1>17, <2>2
  <2> QED
    BY <2>3, <2>4, <2>5 DEF s, v
<1> QED
  BY <1>2, <1>13, <1>14, <1>15, <1>16, <1>17

\* The registers after an emulated instruction: one word has been written.
LEMMA OneDestination ==
  ASSUME NEW i \in Insns, NEW r \in RegFiles, NEW p, Handled(i), i.opcode = "F6" => i.pp = 3
  PROVE  SetRegs(i, r, p) = [r EXCEPT ![i.reg] = Emulated(i, r, p)]
<1>1. i.opcode # "F6"
  BY DEF Handled
<1> QED
  BY <1>1 DEF SetRegs

\* The state of the processor that a state of the machine stands for.
ProcIp == [c \in Contexts |-> IF phase[c] = "emulated"
                              THEN (ip[c] + len[c]) % 2 ^ WordBits ELSE ip[c]]
ProcAlive == [c \in Contexts |-> phase[c] \notin Stopped]
ProcSure == [c \in Contexts |-> phase[c] = "notified" /\ Sure(Here(c), regs[c], ip[c])]

\* A step of the machine that stands for none of the processor.
LEMMA Stutters ==
  ASSUME UNCHANGED <<scenario, regs>>, ProcIp' = ProcIp, ProcAlive' = ProcAlive
  PROVE  UNCHANGED Native!vars
  BY DEF Native!vars, ProcIp, ProcAlive, code

\* A context of the machine that goes to another phase, and no further.
LEMMA MovesAlone ==
  ASSUME TInv, NEW c \in Contexts, NEW q \in Phases, Goto(c, q)
  PROVE  /\ \A d \in Contexts : phase'[d] = IF d = c THEN q ELSE phase[d]
         /\ phase[c] \notin Stopped /\ q \notin Stopped => ProcAlive' = ProcAlive
         /\ phase[c] \notin Stopped /\ q \in Stopped => ProcAlive' = [ProcAlive EXCEPT ![c] = FALSE]
<1>1. phase \in [Contexts -> Phases]
  BY DEF TInv, TypeOK, Phases
<1>2. \A d \in Contexts : phase'[d] = IF d = c THEN q ELSE phase[d]
  BY <1>1 DEF Goto
<1>3. CASE phase[c] \notin Stopped /\ q \notin Stopped
  <2>1. \A d \in Contexts : (phase'[d] \notin Stopped) = (phase[d] \notin Stopped)
    BY <1>2, <1>3
  <2> QED
    BY <1>2, <1>3, <2>1, Zenon DEF ProcAlive
<1>4. CASE phase[c] \notin Stopped /\ q \in Stopped
  <2>1. \A d \in Contexts : (phase'[d] \notin Stopped) = IF d = c THEN FALSE ELSE phase[d] \notin Stopped
    BY <1>2, <1>4
  <2>2. ProcAlive' = [d \in Contexts |-> IF d = c THEN FALSE ELSE phase[d] \notin Stopped]
    BY <2>1, Zenon DEF ProcAlive
  <2>3. [ProcAlive EXCEPT ![c] = FALSE] =
          [d \in Contexts |-> IF d = c THEN FALSE ELSE phase[d] \notin Stopped]
    BY Zenon DEF ProcAlive
  <2> QED
    BY <1>2, <1>4, <2>2, <2>3, Zenon
<1> QED
  BY <1>2, <1>3, <1>4

\* What the chain does when nobody stops it: the context is stopped, or steps
\* over somebody's breakpoint.
LEMMA DefaultRefines ==
  ASSUME TInv, NEW c \in Contexts, phase[c] \in {"code", "notified"}, ip[c] \in DOMAIN code[c],
         Default(c), UNCHANGED <<scenario, regs, len>>
  PROVE  Native!Execute(c) \/ Native!Stop(c)
<1>1. /\ phase \in [Contexts -> Phases] /\ ip \in [Contexts -> CodeAddrs]
      /\ scenario \in Scenarios
  BY DEF TInv, TypeOK, Phases, CodeAddrs
<1>2. Here(c) \in Insns
  BY <1>1, ScenarioFacts DEF Here
<1>3. phase[c] \notin Stopped /\ ProcIp[c] = ip[c] /\ ProcAlive[c]
  BY DEF Stopped, ProcIp, ProcAlive
<1>4. Native!AtInsn(c) /\ Native!Here(c) = Here(c)
  BY <1>3 DEF Native!AtInsn, Native!Here, ProcIp, ProcAlive, Here
<1>5. CASE Here(c).trap = "int3"
  <2>1. Goto(c, "code") /\ Next_ip(c, 1)
    BY <1>5 DEF Default
  <2>2. /\ \A d \in Contexts : phase'[d] = IF d = c THEN "code" ELSE phase[d]
        /\ ProcAlive' = ProcAlive
    BY <1>3, <2>1, MovesAlone DEF Phases, Stopped
  <2>3. \A d \in Contexts : ip'[d] = IF d = c THEN (ip[c] + 1) % 2 ^ WordBits ELSE ip[d]
    BY <1>1, <2>1 DEF Next_ip
  <2>4. ProcIp' = [ProcIp EXCEPT ![c] = (@ + 1) % 2 ^ WordBits]
    <3>1. \A d \in Contexts : (IF phase'[d] = "emulated"
                               THEN (ip'[d] + len'[d]) % 2 ^ WordBits ELSE ip'[d])
                              = IF d = c THEN (ProcIp[c] + 1) % 2 ^ WordBits ELSE ProcIp[d]
      BY <1>3, <2>2, <2>3 DEF ProcIp
    <3>2. ProcIp' = [d \in Contexts |-> IF d = c THEN (ProcIp[c] + 1) % 2 ^ WordBits ELSE ProcIp[d]]
      BY <3>1, Zenon DEF ProcIp
    <3> QED
      BY <3>2 DEF ProcIp
  <2>5. Length(Here(c)) = 1 /\ Mnemonic(Here(c)) = "int3"
    BY <1>5 DEF Length, Mnemonic
  <2>6. Native!Execute(c)
    BY <1>4, <2>2, <2>4, <2>5, SameOperands DEF Native!Execute, ProcIp, ProcAlive, code
  <2> QED
    BY <2>6
<1>6. CASE Here(c).trap # "int3"
  <2>1. PICK q \in Stopped : Goto(c, q) /\ UNCHANGED ip
    BY <1>6 DEF Default, Stopped
  <2>2. /\ \A d \in Contexts : phase'[d] = IF d = c THEN q ELSE phase[d]
        /\ ProcAlive' = [ProcAlive EXCEPT ![c] = FALSE]
    BY <1>3, <2>1, MovesAlone DEF Phases, Stopped
  <2>3. ProcIp' = ProcIp
    <3>1. \A d \in Contexts : (IF phase'[d] = "emulated"
                               THEN (ip'[d] + len'[d]) % 2 ^ WordBits ELSE ip'[d]) = ProcIp[d]
      BY <2>1, <2>2 DEF ProcIp, Stopped
    <3> QED
      BY <3>1, Zenon DEF ProcIp
  <2>4. Native!Stop(c)
    BY <1>4, <2>2, <2>3 DEF Native!Stop, ProcIp, ProcAlive, code
  <2> QED
    BY <2>4
<1> QED
  BY <1>5, <1>6

\* An emulated instruction is executed.
LEMMA EmulateRefines ==
  ASSUME TInv, NEW c \in Contexts, Emulate(c)
  PROVE  Native!Execute(c)
<1> DEFINE i == Here(c)
           r == regs[c]
           p == ip[c]
           x == Emulated(i, r, p)
           P == 2 ^ WordBits
<1>1. /\ phase \in [Contexts -> Phases] /\ ip \in [Contexts -> CodeAddrs]
      /\ regs \in [Contexts -> RegFiles] /\ len \in [Contexts -> 0 .. 15]
      /\ scenario \in Scenarios
  BY DEF TInv, TypeOK, Phases, CodeAddrs
<1>2. /\ phase[c] = "notified" /\ PreFilter(c) /\ Handled(i) /\ ~Faults(i, r, p)
      /\ regs' = [regs EXCEPT ![c] = SetRegs(i, r, p)]
      /\ len' = [len EXCEPT ![c] = 3 + 1 + ModRMLen(i) + (IF i.map = 3 THEN 1 ELSE 0)]
      /\ Goto(c, "emulated") /\ UNCHANGED <<scenario, ip>>
  BY DEF Emulate
<1>3. p \in DOMAIN code[c]
  BY <1>2 DEF TInv, InCodeInv
<1>4. /\ i \in Insns /\ i.m.disp \in - 2 ^ (Size(0) - 1) .. 2 ^ (Size(0) - 1) - 1
      /\ i.opcode = "F6" => i.pp = 3
  BY <1>1, <1>3, ScenarioFacts DEF Here
<1>5. i.trap = "ud" /\ i.vex3
  BY <1>2 DEF PreFilter
<1>6. len' = [len EXCEPT ![c] = Length(i)]
  BY <1>2, <1>4, <1>5, LengthDecoded
<1>7. x \in Words
  BY <1>1, <1>2, <1>4, EmulatedWord
<1>8. SetRegs(i, r, p) = [r EXCEPT ![i.reg] = x]
  BY <1>1, <1>2, <1>4, OneDestination
<1>9. phase[c] \notin Stopped /\ ProcIp[c] = ip[c] /\ ProcAlive[c]
  BY <1>2 DEF Stopped, ProcIp, ProcAlive
<1>10. Native!AtInsn(c) /\ Native!Here(c) = i
  BY <1>3, <1>9 DEF Native!AtInsn, Native!Here, ProcIp, ProcAlive, Here
<1>11. /\ \A d \in Contexts : phase'[d] = IF d = c THEN "emulated" ELSE phase[d]
       /\ ProcAlive' = ProcAlive
  BY <1>2, <1>9, MovesAlone DEF Phases, InHandler, Stopped
<1>12. ProcSure[c] =>
         x = Result(i, IF IsMem(i) THEN Mem[Address(i, r, p)] ELSE r[BaseReg(i)], r[i.vvvv])
  <2>1. r \in RegFiles /\ p \in Nat
    BY <1>1 DEF CodeAddrs
  <2>2. ProcSure[c] => Sure(i, r, p)
    BY DEF ProcSure
  <2> HIDE DEF i, r, p
  <2> QED
    BY <1>4, <2>1, <2>2, ResultRight
<1>13. Mnemonic(i) # "int3"
  <2> DEFINE rows == {t \in Table : t[1] = i.map /\ t[2] = i.pp /\ t[3] = i.opcode}
             row == CHOOSE t \in rows : TRUE
  <2>1. Mnemonic(i) = IF rows # {} /\ i.l = 0 THEN row[4] ELSE "none"
    BY <1>5 DEF Mnemonic
  <2>2. rows # {} => row \in Table
    OBVIOUS
  <2> HIDE DEF row
  <2> QED
    BY <2>1, <2>2 DEF Table
<1> HIDE DEF i, r, p, x
<1>14. len[c] \in Int /\ len'[c] = Length(i) /\ \A d \in Contexts : d # c => len'[d] = len[d]
  BY <1>1, <1>6
<1>15. ProcIp' = [ProcIp EXCEPT ![c] = (@ + Length(i)) % P]
  <2>1. \A d \in Contexts : (IF phase'[d] = "emulated" THEN (ip'[d] + len'[d]) % P ELSE ip'[d])
                            = IF d = c THEN (ProcIp[c] + Length(i)) % P ELSE ProcIp[d]
    <3> HIDE DEF P
    <3>1. \A d \in Contexts : ProcIp[d] = IF phase[d] = "emulated" THEN (ip[d] + len[d]) % P ELSE ip[d]
      BY DEF ProcIp, P
    <3>2. ASSUME NEW d \in Contexts, d # c
          PROVE  (IF phase'[d] = "emulated" THEN (ip'[d] + len'[d]) % P ELSE ip'[d]) = ProcIp[d]
      <4>1. phase'[d] = phase[d] /\ ip'[d] = ip[d] /\ len'[d] = len[d]
        BY <1>2, <1>11, <1>14, <3>2
      <4> QED
        BY <3>1, <4>1, Zenon
    <3>3. (IF phase'[c] = "emulated" THEN (ip'[c] + len'[c]) % P ELSE ip'[c])
          = (ProcIp[c] + Length(i)) % P
      <4>1. phase'[c] = "emulated" /\ ip'[c] = ip[c] /\ len'[c] = Length(i)
        BY <1>2, <1>11, <1>14
      <4> QED
        BY <1>9, <4>1, Zenon
    <3> QED
      BY <3>2, <3>3, Zenon
  <2>2. ProcIp' = [d \in Contexts |-> IF d = c THEN (ProcIp[c] + Length(i)) % P ELSE ProcIp[d]]
    BY <2>1, Zenon DEF ProcIp
  <2> HIDE DEF P
  <2> QED
    BY <2>2 DEF ProcIp
<1>16. regs' = [regs EXCEPT ![c][i.reg] = x]
  BY <1>2, <1>8 DEF r
<1>17. ProcSure[c] =>
         x = Native!Result(i, Native!Source(i, regs[c], ProcIp[c]), regs[c][i.vvvv])
  BY <1>9, <1>12, SameOperands, SameResults DEF r, p
<1>18. Native!Length(i) = Length(i) /\ Native!Mnemonic(i) # "int3"
  BY <1>13, SameOperands
<1>19. x \in Native!Words
  BY <1>7, SameWords
<1> QED
  BY <1>2, <1>10, <1>11, <1>15, <1>16, <1>17, <1>18, <1>19
  DEF Native!Execute, ProcIp, ProcAlive, ProcSure, code

\* The rest of what a context does is no step of the processor, but for a trap
\* that nobody stops and a fault in the notifier.
LEMMA HandlerRefines ==
  ASSUME TInv, NEW c \in Contexts, Handler(c)
  PROVE  Native!Execute(c) \/ Native!Stop(c) \/ UNCHANGED Native!vars
<1>1. /\ phase \in [Contexts -> Phases] /\ ip \in [Contexts -> CodeAddrs]
      /\ len \in [Contexts -> 0 .. 15]
  BY DEF TInv, TypeOK, Phases, CodeAddrs
<1>2. CASE Trap(c)
  <2>1. phase[c] = "code" /\ ip[c] \in DOMAIN code[c] /\ UNCHANGED <<scenario, regs, len>>
    BY <1>2 DEF Trap
  <2>2. CASE registered
    <3>1. Goto(c, "notified") /\ UNCHANGED ip
      BY <1>2, <2>2 DEF Trap
    <3>2. /\ \A d \in Contexts : phase'[d] = IF d = c THEN "notified" ELSE phase[d]
          /\ ProcAlive' = ProcAlive
      BY <2>1, <3>1, MovesAlone DEF Phases, InHandler, Stopped
    <3>3. \A d \in Contexts : (IF phase'[d] = "emulated"
                               THEN (ip'[d] + len'[d]) % 2 ^ WordBits ELSE ip'[d]) = ProcIp[d]
      BY <2>1, <3>1, <3>2 DEF ProcIp
    <3>4. ProcIp' = ProcIp
      BY <3>3, Zenon DEF ProcIp
    <3> QED
      BY <2>1, <3>2, <3>4, Stutters
  <2>3. CASE ~registered
    BY <1>2, <2>1, <2>3, DefaultRefines DEF Trap
  <2> QED
    BY <2>2, <2>3
<1>3. CASE NotifyDone(c)
  <2>1. phase[c] = "notified" /\ Default(c) /\ UNCHANGED <<scenario, regs, len>>
    BY <1>3 DEF NotifyDone
  <2>2. ip[c] \in DOMAIN code[c]
    BY <2>1 DEF TInv, InCodeInv
  <2> QED
    BY <2>1, <2>2, DefaultRefines
<1>4. CASE Fault(c)
  <2>1. phase[c] = "notified" /\ Goto(c, "oops") /\ UNCHANGED <<scenario, regs, ip, len>>
    BY <1>4 DEF Fault
  <2>2. ip[c] \in DOMAIN code[c]
    BY <2>1 DEF TInv, InCodeInv
  <2>3. /\ \A d \in Contexts : phase'[d] = IF d = c THEN "oops" ELSE phase[d]
        /\ ProcAlive' = [ProcAlive EXCEPT ![c] = FALSE]
    BY <2>1, MovesAlone DEF Phases, Stopped
  <2>4. \A d \in Contexts : (IF phase'[d] = "emulated"
                             THEN (ip'[d] + len'[d]) % 2 ^ WordBits ELSE ip'[d]) = ProcIp[d]
    BY <2>1, <2>3 DEF ProcIp
  <2>5. ProcIp' = ProcIp
    BY <2>4, Zenon DEF ProcIp
  <2>6. Native!AtInsn(c)
    BY <2>1, <2>2 DEF Native!AtInsn, ProcIp, ProcAlive, Stopped
  <2> QED
    BY <2>1, <2>3, <2>5, <2>6 DEF Native!Stop, ProcIp, ProcAlive, code
<1>5. CASE Emulate(c)
  BY <1>5, EmulateRefines
<1>6. CASE Advance(c)
  <2>1. /\ phase[c] = "emulated" /\ Goto(c, "advanced") /\ UNCHANGED <<scenario, regs, len>>
        /\ ip' = [ip EXCEPT ![c] = (@ + len[c]) % 2 ^ WordBits]
    BY <1>6 DEF Advance, Next_ip
  <2>2. /\ \A d \in Contexts : phase'[d] = IF d = c THEN "advanced" ELSE phase[d]
        /\ ProcAlive' = ProcAlive
    BY <2>1, MovesAlone DEF Phases, InHandler, Stopped
  <2>3. \A d \in Contexts : (IF phase'[d] = "emulated"
                             THEN (ip'[d] + len'[d]) % 2 ^ WordBits ELSE ip'[d]) = ProcIp[d]
    BY <1>1, <2>1, <2>2 DEF ProcIp
  <2>4. ProcIp' = ProcIp
    BY <2>3, Zenon DEF ProcIp
  <2> QED
    BY <2>1, <2>2, <2>4, Stutters
<1>7. CASE Resume(c)
  <2>1. /\ phase[c] = "advanced" /\ Goto(c, "code") /\ UNCHANGED <<scenario, regs, ip>>
        /\ len' = [len EXCEPT ![c] = 0]
    BY <1>7 DEF Resume
  <2>2. /\ \A d \in Contexts : phase'[d] = IF d = c THEN "code" ELSE phase[d]
        /\ ProcAlive' = ProcAlive
    BY <2>1, MovesAlone DEF Phases, Stopped
  <2>3. \A d \in Contexts : (IF phase'[d] = "emulated"
                             THEN (ip'[d] + len'[d]) % 2 ^ WordBits ELSE ip'[d]) = ProcIp[d]
    BY <1>1, <2>1, <2>2 DEF ProcIp
  <2>4. ProcIp' = ProcIp
    BY <2>3, Zenon DEF ProcIp
  <2> QED
    BY <2>1, <2>2, <2>4, Stutters
<1> QED
  BY <1>2, <1>3, <1>4, <1>5, <1>6, <1>7 DEF Handler

\* Every step of the machine is one of the processor or none.
LEMMA NextRefines == TInv /\ [Next]_vars => [Native!Next]_(Native!vars)
<1> SUFFICES ASSUME TInv, [Next]_vars PROVE Native!Next \/ UNCHANGED Native!vars
  OBVIOUS
<1>1. ASSUME NEW c \in Contexts, Handler(c) PROVE Native!Next \/ UNCHANGED Native!vars
  BY <1>1, HandlerRefines DEF Native!Next
<1>2. CASE Load \/ Unload \/ Gone \/ UNCHANGED vars
  <2>1. UNCHANGED <<scenario, regs, ip, phase, len>>
    BY <1>2 DEF Load, Unload, Gone, vars
  <2> QED
    BY <2>1, Stutters DEF ProcIp, ProcAlive
<1> QED
  BY <1>1, <1>2 DEF Next

\* The machine starts as the processor does.
LEMMA InitRefines == Init => Native!Init
<1> SUFFICES ASSUME Init PROVE Native!Init
  OBVIOUS
<1>1. regs \in [Contexts -> RegFiles] /\ ip \in [Contexts -> CodeAddrs]
  BY InitTypes DEF TInv, TypeOK, CodeAddrs
<1>2. \A c \in Contexts : phase[c] = "code"
  BY DEF Init
<1>3. ProcIp \in [Contexts -> CodeAddrs]
  BY <1>1, <1>2 DEF ProcIp
<1>4. ProcAlive = [c \in Contexts |-> TRUE]
  BY <1>2, Zenon DEF ProcAlive, Stopped
<1> QED
  BY <1>1, <1>3, <1>4, SameWords DEF Native!Init, ProcIp, ProcAlive, CodeAddrs

\* For any code, registers and memory, and any number of contexts: each sees
\* the instructions a processor with BMI executes or stops at, with the results
\* of one wherever Sure holds (217-356).
THEOREM EmulatesProcessor == Spec => ImplementsNative
<1>1. Init => Native!Init
  BY InitRefines
<1>2. TInv /\ [Next]_vars => [Native!Next]_(Native!vars)
  BY NextRefines
<1> QED
  BY <1>1, <1>2, TypesInvariance, PTL DEF Spec, ImplementsNative, Native!Spec
=============================================================================
