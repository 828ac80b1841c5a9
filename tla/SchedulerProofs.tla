-------------------------- MODULE SchedulerProofs --------------------------
(***************************************************************************)
(* Proofs about Scheduler for every value of its constants: whatever is    *)
(* scheduled, cancelled, started and stopped while handlers are in flight, *)
(* no schedule dies, none is compressed, and schedules with prompt         *)
(* handlers have exactly one chain.                                        *)
(***************************************************************************)
EXTENDS Scheduler, FiniteSetTheorems, WellFoundedInduction, TLAPS

-----------------------------------------------------------------------------
(* The inductive invariant *)

Handles == 1..(MaxChains + 2)
Object == [name : Names, interval : Nat \ {0}, intervalId : {NoTimer} \cup Handles,
           lastSlept : Nat]
TimerType == [obj : Nat, id : Handles, ms : Nat \ {0}, slept : Nat]

Shape ==
  /\ objects \in Seq(Object) /\ Len(objects) <= MaxSchedules
  /\ inFlight \in Seq(Nat) /\ Len(inFlight) = Len(objects)
  /\ isRunning \in BOOLEAN
  /\ timers \subseteq TimerType /\ IsFiniteSet(timers)
  /\ \A t \in timers : t.obj \in DOMAIN objects
  /\ schedules = [n \in DOMAIN schedules |-> schedules[n]] /\ DOMAIN schedules \subseteq Names
  /\ \A n \in DOMAIN schedules : /\ schedules[n] \in DOMAIN objects
                                 /\ objects[schedules[n]].name = n

(* A handle tells one timer of its object. *)
HandlesAreUnique == \A t, u \in timers : t.obj = u.obj /\ t.id = u.id => t = u

ChainsAreBounded == \A o \in DOMAIN objects : Chains(o) <= MaxChains

(* What a chain slept and what is left of its wait make up the interval. *)
WaitsAddUp == \A t \in timers : t.slept + t.ms = objects[t.obj].interval

(* A registered object has a chain while the scheduler runs, and also when  *)
(* it only seems to have one: start() goes by the handle.                   *)
HasChain(o) == inFlight[o] > 0 \/ \E t \in timers : t.obj = o
HandlesMeanChains ==
  \A o \in Live : isRunning \/ objects[o].intervalId # NoTimer => HasChain(o)

(* The timers of a prompt schedule are those of its registered object, and  *)
(* the handle is theirs; a stopped scheduler has left no handle behind.     *)
PromptChain(n) ==
  /\ \A o \in DOMAIN objects : objects[o].name = n => inFlight[o] = 0
  /\ \A t \in timers : objects[t.obj].name = n =>
       /\ isRunning /\ n \in DOMAIN schedules
       /\ t.obj = schedules[n] /\ t.id = objects[t.obj].intervalId
  /\ ~ isRunning /\ n \in DOMAIN schedules => objects[schedules[n]].intervalId = NoTimer
PromptChainsAreHeld == \A n \in Names \ Awaits : PromptChain(n)

IndInv ==
  /\ Shape /\ HandlesAreUnique /\ ChainsAreBounded /\ WaitsAddUp
  /\ HandlesMeanChains /\ PromptChainsAreHeld /\ RunsAreSpaced
-----------------------------------------------------------------------------
(* Handles *)

(* The least of a set of naturals is in it. *)
LEMMA MinOfNaturals ==
  ASSUME NEW S \in SUBSET Nat, S # {}
  PROVE  Min(S) \in S
<1> DEFINE Below == {0..x : x \in S}
<1>1. IsWellFoundedOn(StrictSubsetOrdering(Nat), FiniteSubsetsOf(Nat))
  BY FS_StrictSubsetOrderingWellFounded
<1>2. Below \subseteq FiniteSubsetsOf(Nat) /\ Below # {}
  <2>1. \A x \in S : 0..x \subseteq Nat /\ IsFiniteSet(0..x)
    BY FS_Interval
  <2> QED BY <2>1 DEF FiniteSubsetsOf
<1>3. PICK B \in Below : \A C \in Below : ~ (<<C, B>> \in StrictSubsetOrdering(Nat))
  BY <1>1, <1>2, WFMin
<1>4. PICK x \in S : B = 0..x
  BY <1>3
<1>5. ASSUME NEW y \in S, y < x PROVE FALSE
  <2>1. 0..y \subseteq 0..x /\ x \notin 0..y /\ x \in 0..x
    BY <1>5
  <2>2. <<0..y, B>> \in StrictSubsetOrdering(Nat)
    BY <2>1, <1>4 DEF StrictSubsetOrdering
  <2> QED BY <2>2, <1>3
<1>6. \A y \in S : x <= y
  BY <1>5
<1> QED BY <1>6 DEF Min

LEMMA OneMore ==
  ASSUME NEW S, NEW x, IsFiniteSet(S)
  PROVE  /\ IsFiniteSet(S \cup {x})
         /\ Cardinality(S) \in Nat /\ Cardinality(S \cup {x}) \in Nat
         /\ Cardinality(S \cup {x}) <= Cardinality(S) + 1
<1>1. Cardinality(S) \in Nat
  BY FS_CardinalityType
<1>2. /\ IsFiniteSet(S \cup {x})
      /\ Cardinality(S \cup {x}) = IF x \in S THEN Cardinality(S) ELSE Cardinality(S) + 1
  BY FS_AddElement
<1> QED BY <1>1, <1>2

(* setTimeout() finds a handle: an object has fewer timers than there are   *)
(* handles, its own last one set aside.                                     *)
LEMMA FreshHandleFacts ==
  ASSUME NEW ts, IsFiniteSet(ts), \A t \in ts : t \in TimerType,
         NEW o, Cardinality(TimersOf(ts, o)) <= MaxChains
  PROVE  /\ FreshHandle(ts, o) \in Handles
         /\ FreshHandle(ts, o) # objects[o].intervalId
         /\ \A t \in ts : t.obj = o => t.id # FreshHandle(ts, o)
<1> DEFINE Mine == TimersOf(ts, o)
           Used == {t.id : t \in Mine}
           Free == {k \in Handles : /\ k # objects[o].intervalId
                                    /\ \A t \in Mine : t.id # k}
<1>1. MaxChains \in Nat /\ Free \subseteq Nat
  BY SchedulerAssumption DEF Handles
<1>2. Free # {}
  <2> SUFFICES ASSUME Free = {} PROVE FALSE
    OBVIOUS
  <2>1. IsFiniteSet(Mine) /\ Cardinality(Mine) \in Nat /\ Cardinality(Mine) <= MaxChains
    BY FS_Subset, FS_CardinalityType DEF TimersOf
  <2>2. [t \in Mine |-> t.id] \in Surjection(Mine, Used)
    BY DEF Surjection
  <2>3. IsFiniteSet(Used) /\ Cardinality(Used) <= Cardinality(Mine)
    <3> HIDE DEF Mine, Used
    <3> QED BY <2>1, <2>2, FS_Surjection
  <2>4. Cardinality(Used) \in Nat
    BY <2>3, FS_CardinalityType
  <2>5. /\ IsFiniteSet(Used \cup {objects[o].intervalId})
        /\ Cardinality(Used \cup {objects[o].intervalId}) <= Cardinality(Used) + 1
        /\ Cardinality(Used \cup {objects[o].intervalId}) \in Nat
    <3> HIDE DEF Used
    <3> QED BY <2>3, OneMore
  <2>6. IsFiniteSet(Handles) /\ Cardinality(Handles) = MaxChains + 2
    BY <1>1, FS_Interval DEF Handles
  <2>7. Handles \subseteq Used \cup {objects[o].intervalId}
    OBVIOUS
  <2>8. Cardinality(Handles) <= Cardinality(Used \cup {objects[o].intervalId})
    <3> HIDE DEF Used
    <3> QED BY <2>5, <2>7, FS_Subset
  <2> HIDE DEF Used, Mine
  <2> QED BY <1>1, <2>1, <2>3, <2>4, <2>5, <2>6, <2>8
<1>3. Min(Free) \in Free
  BY <1>1, <1>2, MinOfNaturals
<1>4. FreshHandle(ts, o) = Min(Free)
  BY DEF FreshHandle, Handles
<1> QED BY <1>3, <1>4 DEF TimersOf
-----------------------------------------------------------------------------
(* The chain goes on *)

LEMMA ChainsType ==
  ASSUME Shape, NEW o \in DOMAIN objects
  PROVE  /\ IsFiniteSet(TimersOf(timers, o)) /\ Cardinality(TimersOf(timers, o)) \in Nat
         /\ inFlight[o] \in Nat
<1>1. IsFiniteSet(TimersOf(timers, o))
  BY FS_Subset DEF Shape, TimersOf
<1> QED BY <1>1, FS_CardinalityType DEF Shape

(* Arming the next wait of a registered object keeps the invariant, when ts *)
(* has no more timers than before the step and those of other objects are   *)
(* all there; an object with a prompt handler has none left.                *)
LEMMA ArmKeepsIndInv ==
  ASSUME IndInv, NEW o \in DOMAIN objects, Registered(o),
         NEW ts \in SUBSET timers, \A t \in timers : t.obj # o => t \in ts,
         NEW ms \in Nat \ {0}, NEW slept \in Nat,
         slept + ms = objects[o].interval,
         NEW last \in {0, objects[o].interval, objects[o].lastSlept},
         inFlight' \in Seq(Nat), Len(inFlight') = Len(inFlight),
         \A p \in DOMAIN objects : p # o => inFlight'[p] = inFlight[p],
         Cardinality(TimersOf(ts, o)) + inFlight'[o] + 1 <= Chains(o),
         objects[o].name \notin Awaits =>
           /\ isRunning /\ o = schedules[objects[o].name] /\ inFlight'[o] = 0
           /\ \A t \in ts : t.obj # o,
         Arm(ts, o, ms, slept, last),
         UNCHANGED <<schedules, isRunning>>
  PROVE  IndInv'
<1> DEFINE k == FreshHandle(ts, o)
           new == [obj |-> o, id |-> k, ms |-> ms, slept |-> slept]
<1> USE DEF IndInv
<1>0. inFlight'[o] \in Nat /\ Chains(o) \in Int /\ Chains(o) <= MaxChains
  <2>1. o \in 1..Len(inFlight')
    BY DEF Shape
  <2>2. inFlight'[o] \in Nat
    BY <2>1
  <2>3. Chains(o) \in Int
    BY ChainsType DEF Chains
  <2> QED BY <2>2, <2>3 DEF ChainsAreBounded
<1>1. /\ k \in Handles /\ k # NoTimer
      /\ \A t \in ts : t.obj = o => t.id # k
  <2>1. IsFiniteSet(ts) /\ \A t \in ts : t \in TimerType
    BY FS_Subset DEF Shape
  <2>2. Cardinality(TimersOf(ts, o)) \in Nat
    BY <2>1, FS_Subset, FS_CardinalityType DEF TimersOf
  <2>4. Cardinality(TimersOf(ts, o)) <= MaxChains
    BY <2>2, <1>0, SchedulerAssumption
  <2> QED BY <2>1, <2>4, FreshHandleFacts DEF Handles, NoTimer
<1>2. timers' = ts \cup {new}
  BY DEF Arm, Timer
<1>3. objects' = [objects EXCEPT ![o].intervalId = k, ![o].lastSlept = last]
  BY DEF Arm, Timer
<1> HIDE DEF k
<1>4. /\ objects' \in Seq(Object) /\ Len(objects') = Len(objects)
      /\ DOMAIN objects' = DOMAIN objects
      /\ \A p \in DOMAIN objects : /\ objects'[p].name = objects[p].name
                                   /\ objects'[p].interval = objects[p].interval
                                   /\ p # o => objects'[p] = objects[p]
      /\ objects'[o].intervalId = k /\ objects'[o].lastSlept = last
  <2>1. objects[o] \in Object
    BY DEF Shape
  <2>2. [objects[o] EXCEPT !.intervalId = k, !.lastSlept = last] \in Object
    <3>1. last \in Nat
      BY <2>1 DEF Object
    <3> QED BY <2>1, <3>1, <1>1 DEF Object
  <2>3. objects' = [objects EXCEPT ![o] = [objects[o] EXCEPT !.intervalId = k,
                                                            !.lastSlept = last]]
    BY <1>3
  <2>4. objects \in Seq(Object) /\ o \in 1..Len(objects)
    BY DEF Shape
  <2>5. /\ objects' \in Seq(Object) /\ Len(objects') = Len(objects)
        /\ DOMAIN objects' = DOMAIN objects
        /\ \A p \in DOMAIN objects : p # o => objects'[p] = objects[p]
        /\ objects'[o] = [objects[o] EXCEPT !.intervalId = k, !.lastSlept = last]
    BY <2>2, <2>3, <2>4
  <2> QED BY <2>1, <2>5 DEF Object
<1>5. Shape'
  <2>1. new \in TimerType
    BY <1>1 DEF TimerType, Shape
  <2>2. timers' \subseteq TimerType /\ \A t \in timers' : t.obj \in DOMAIN objects'
    BY <1>2, <1>4, <2>1 DEF Shape
  <2>3. IsFiniteSet(timers')
    <3> HIDE DEF new
    <3> QED BY <1>2, FS_Subset, FS_AddElement DEF Shape
  <2> QED BY <1>4, <2>2, <2>3 DEF Shape
<1>6. HandlesAreUnique'
  BY <1>1, <1>2 DEF HandlesAreUnique
<1>7. ChainsAreBounded'
  <2> SUFFICES ASSUME NEW p \in DOMAIN objects PROVE Chains(p)' <= MaxChains
    BY <1>4 DEF ChainsAreBounded
  <2>1. CASE p # o
    <3>1. TimersOf(timers', p) = TimersOf(timers, p)
      BY <2>1, <1>2 DEF TimersOf
    <3> QED BY <2>1, <3>1 DEF Chains, ChainsAreBounded
  <2>2. CASE p = o
    <3>1. TimersOf(timers', o) = TimersOf(ts, o) \cup {new}
      BY <1>2 DEF TimersOf
    <3>2. IsFiniteSet(TimersOf(ts, o))
      BY FS_Subset DEF TimersOf, Shape
    <3>3. /\ Cardinality(TimersOf(timers', o)) <= Cardinality(TimersOf(ts, o)) + 1
          /\ Cardinality(TimersOf(ts, o)) \in Nat /\ Cardinality(TimersOf(timers', o)) \in Nat
      <4> HIDE DEF new
      <4> QED BY <3>1, <3>2, OneMore
    <3>4. inFlight'[o] \in Nat /\ Chains(o) \in Int /\ Chains(o) <= MaxChains
      BY <1>0
    <3>5. Chains(p)' = Cardinality(TimersOf(timers', o)) + inFlight'[o]
      BY <2>2 DEF Chains
    <3> QED BY <3>3, <3>4, <3>5, SchedulerAssumption
  <2> QED BY <2>1, <2>2
<1>8. WaitsAddUp'
  BY <1>2, <1>4 DEF WaitsAddUp, Shape
<1>9. HandlesMeanChains'
  <2> SUFFICES ASSUME NEW p \in Live, isRunning \/ objects'[p].intervalId # NoTimer
               PROVE  HasChain(p)'
    BY DEF HandlesMeanChains, Live
  <2>1. p \in DOMAIN objects
    BY DEF Live, Shape
  <2>2. CASE p = o
    <3>1. new \in timers' /\ new.obj = o
      BY <1>2
    <3> QED BY <2>2, <3>1 DEF HasChain
  <2>3. CASE p # o
    <3>1. HasChain(p)
      BY <2>1, <2>3, <1>4 DEF HandlesMeanChains
    <3> QED BY <2>1, <2>3, <3>1, <1>2 DEF HasChain
  <2> QED BY <2>2, <2>3
<1>10. PromptChainsAreHeld'
  <2> SUFFICES ASSUME NEW n \in Names \ Awaits PROVE PromptChain(n)'
    BY DEF PromptChainsAreHeld
  <2>1. PromptChain(n)
    BY DEF PromptChainsAreHeld
  <2>2. \A p \in DOMAIN objects : objects[p].name = n => inFlight'[p] = 0
    BY <2>1 DEF PromptChain
  <2>3. ASSUME NEW t \in timers', objects'[t.obj].name = n
        PROVE  /\ isRunning /\ n \in DOMAIN schedules
               /\ t.obj = schedules[n] /\ t.id = objects'[t.obj].intervalId
    <3>1. CASE t = new
      BY <3>1, <2>3, <1>4 DEF Registered
    <3>2. CASE t \in ts
      <4>1. t.obj \in DOMAIN objects
        BY <3>2 DEF Shape
      <4>2. t.obj # o
        BY <2>3, <3>2, <4>1, <1>4
      <4> QED BY <2>1, <2>3, <3>2, <4>1, <4>2, <1>4 DEF PromptChain
    <3> QED BY <2>3, <3>1, <3>2, <1>2
  <2>4. ASSUME ~ isRunning, n \in DOMAIN schedules
        PROVE  objects'[schedules[n]].intervalId = NoTimer
    <3>1. schedules[n] \in DOMAIN objects /\ objects[schedules[n]].name = n
      BY <2>4 DEF Shape
    <3>2. schedules[n] # o
      BY <2>4, <3>1
    <3> QED BY <2>1, <2>4, <3>1, <3>2, <1>4 DEF PromptChain
  <2> QED BY <2>2, <2>3, <2>4, <1>4 DEF PromptChain
<1>11. RunsAreSpaced'
  BY <1>4 DEF RunsAreSpaced
<1> QED BY <1>5, <1>6, <1>7, <1>8, <1>9, <1>10, <1>11

-----------------------------------------------------------------------------
(* One lemma per action *)

LEMMA InitIndInv == Init => IndInv
<1> SUFFICES ASSUME Init PROVE IndInv
  OBVIOUS
<1>1. IsFiniteSet(timers)
  BY FS_EmptySet DEF Init
<1>2. DOMAIN objects = {} /\ DOMAIN schedules = {} /\ timers = {}
  BY DEF Init
<1>3. Shape
  <2>1. schedules = [n \in DOMAIN schedules |-> schedules[n]]
    BY DEF Init
  <2>2. objects \in Seq(Object) /\ inFlight \in Seq(Nat) /\ Len(objects) = 0 /\ Len(inFlight) = 0
    BY DEF Init
  <2>3. Len(objects) <= MaxSchedules
    BY <2>2, SchedulerAssumption
  <2>4. isRunning \in BOOLEAN
    BY DEF Init
  <2> QED BY <1>1, <1>2, <2>1, <2>2, <2>3, <2>4 DEF Shape
<1>4. HandlesMeanChains
  BY <1>2 DEF HandlesMeanChains, Live
<1>5. HandlesAreUnique /\ ChainsAreBounded /\ WaitsAddUp /\ RunsAreSpaced
  BY <1>2 DEF HandlesAreUnique, ChainsAreBounded, WaitsAddUp, RunsAreSpaced
<1>6. PromptChainsAreHeld
  BY <1>2 DEF PromptChainsAreHeld, PromptChain
<1> QED BY <1>3, <1>4, <1>5, <1>6 DEF IndInv

LEMMA IntervalFacts ==
  ASSUME NEW expr \in Exprs
  PROVE  ParseInterval(expr) \in Int
<1>1. expr \in Seq(Nat \cup {Star}) /\ expr # << >>
  BY SchedulerAssumption
<1>2. expr[1] \in Int
  BY <1>1 DEF Star
<1>3. /\ Minute \in Int /\ 60 * Minute \in Int /\ 24 * 60 * Minute \in Int
      /\ 7 * 24 * 60 * Minute \in Int /\ 30 * 24 * 60 * Minute \in Int
  BY SchedulerAssumption
<1>4. ParseInterval(expr) \in {expr[1], Minute, 60 * Minute, 24 * 60 * Minute,
                              7 * 24 * 60 * Minute, 30 * 24 * 60 * Minute, -1}
  BY Zenon DEF ParseInterval
<1> QED BY <1>2, <1>3, <1>4

LEMMA ScheduleKeepsIndInv ==
  ASSUME IndInv, NEW name \in Names, NEW expr \in Exprs, Schedule(name, expr)
  PROVE  IndInv'
<1> PICK o \in Nat : o = Len(objects) + 1
  BY DEF IndInv, Shape
<1> DEFINE first == [obj |-> o, id |-> 1, ms |-> ParseInterval(expr), slept |-> 0]
           obj == [name |-> name, interval |-> ParseInterval(expr),
                   intervalId |-> IF isRunning THEN 1 ELSE NoTimer, lastSlept |-> 0]
<1> USE DEF IndInv
<1>1. /\ objects' = Append(objects, obj) /\ inFlight' = Append(inFlight, 0)
      /\ timers' = IF isRunning THEN timers \cup {first} ELSE timers
      /\ schedules' = [n \in DOMAIN schedules \cup {name} |->
                         IF n = name THEN o ELSE schedules[n]]
      /\ isRunning' = isRunning /\ Len(objects) < MaxSchedules
      /\ name \notin DOMAIN schedules
  BY DEF Schedule
<1>2. ParseInterval(expr) \in Nat \ {0}
  BY IntervalFacts DEF Schedule
<1>3. obj \in Object /\ first \in TimerType /\ o \in Nat
  BY <1>2, SchedulerAssumption DEF Object, TimerType, Handles, NoTimer, Shape
<1>4. /\ objects' \in Seq(Object) /\ Len(objects') = o /\ DOMAIN objects' = 1..o
      /\ \A p \in DOMAIN objects : p \in 1..o /\ p # o /\ objects'[p] = objects[p]
      /\ objects'[o] = obj
      /\ inFlight' \in Seq(Nat) /\ Len(inFlight') = o /\ inFlight'[o] = 0
      /\ \A p \in DOMAIN objects : inFlight'[p] = inFlight[p]
      /\ \A p \in DOMAIN objects' : p = o \/ p \in DOMAIN objects
  <2> HIDE DEF obj
  <2> QED BY <1>1, <1>3 DEF Shape
<1>5. \A t \in timers : t.obj \in DOMAIN objects /\ t.obj # o
  BY <1>4 DEF Shape
<1>6. Shape'
  <2>1. IsFiniteSet(timers')
    <3> HIDE DEF first
    <3> QED BY <1>1, FS_AddElement DEF Shape
  <2>2. \A n \in DOMAIN schedules' : /\ schedules'[n] \in DOMAIN objects'
                                     /\ objects'[schedules'[n]].name = n
    BY <1>1, <1>4 DEF Shape
  <2>3. timers' \subseteq TimerType /\ \A t \in timers' : t.obj \in DOMAIN objects'
    BY <1>1, <1>3, <1>4, <1>5 DEF Shape
  <2>4. schedules' = [n \in DOMAIN schedules' |-> schedules'[n]]
    BY <1>1
  <2>5. DOMAIN schedules' \subseteq Names /\ isRunning' \in BOOLEAN
    BY <1>1 DEF Shape
  <2>6. Len(objects') <= MaxSchedules
    BY <1>1, <1>4, SchedulerAssumption DEF Shape
  <2> HIDE DEF obj, first
  <2> QED BY <1>4, <2>1, <2>2, <2>3, <2>4, <2>5, <2>6 DEF Shape
<1>7. HandlesAreUnique'
  BY <1>1, <1>5 DEF HandlesAreUnique
<1>8. ChainsAreBounded'
  <2>1. ASSUME NEW p \in DOMAIN objects PROVE Chains(p)' <= MaxChains
    <3>1. TimersOf(timers', p) = TimersOf(timers, p)
      BY <1>1, <1>4, <2>1 DEF TimersOf
    <3> QED BY <2>1, <3>1, <1>4 DEF Chains, ChainsAreBounded
  <2>2. Chains(o)' <= MaxChains
    <3>1. TimersOf(timers', o) = IF isRunning THEN {first} ELSE {}
      BY <1>1, <1>5 DEF TimersOf
    <3>2. Cardinality(TimersOf(timers', o)) \in 0..1
      <4> HIDE DEF first
      <4>1. Cardinality({first}) = 1 /\ Cardinality({}) = 0
        BY FS_Singleton, FS_EmptySet
      <4> QED BY <4>1, <3>1
    <3>3. Chains(o)' = Cardinality(TimersOf(timers', o)) + 0
      BY <1>4 DEF Chains
    <3> QED BY <3>2, <3>3, SchedulerAssumption
  <2>3. ASSUME NEW p \in DOMAIN objects' PROVE Chains(p)' <= MaxChains
    <3>1. p = o \/ p \in DOMAIN objects
      BY <1>4
    <3> QED BY <3>1, <2>1, <2>2
  <2> QED BY <2>3 DEF ChainsAreBounded
<1>9. WaitsAddUp'
  BY <1>1, <1>2, <1>4, <1>5 DEF WaitsAddUp
<1>10. HandlesMeanChains'
  <2> SUFFICES ASSUME NEW p \in Live', isRunning \/ objects'[p].intervalId # NoTimer
               PROVE  HasChain(p)'
    BY <1>1 DEF HandlesMeanChains
  <2>1. CASE p = o
    <3>1. isRunning
      BY <2>1, <1>4
    <3>2. first \in timers' /\ first.obj = o
      BY <3>1, <1>1
    <3> QED BY <2>1, <3>2 DEF HasChain
  <2>2. CASE p # o
    <3>1. p \in Live /\ p \in DOMAIN objects
      BY <2>2, <1>1 DEF Live, Shape
    <3>2. HasChain(p)
      BY <3>1, <1>4 DEF HandlesMeanChains
    <3> QED BY <3>1, <3>2, <1>1, <1>4 DEF HasChain
  <2> QED BY <2>1, <2>2
<1>11. PromptChainsAreHeld'
  <2> SUFFICES ASSUME NEW n \in Names \ Awaits PROVE PromptChain(n)'
    BY DEF PromptChainsAreHeld
  <2>1. PromptChain(n)
    BY DEF PromptChainsAreHeld
  <2>2. \A p \in DOMAIN objects' : objects'[p].name = n => inFlight'[p] = 0
    BY <2>1, <1>4 DEF PromptChain
  <2>3. ASSUME NEW t \in timers', objects'[t.obj].name = n
        PROVE  /\ isRunning /\ n \in DOMAIN schedules'
               /\ t.obj = schedules'[n] /\ t.id = objects'[t.obj].intervalId
    <3>1. CASE t \in timers
      BY <2>1, <2>3, <3>1, <1>1, <1>4, <1>5 DEF PromptChain
    <3>2. CASE isRunning /\ t = first
      BY <2>3, <3>2, <1>1, <1>4
    <3> QED BY <3>1, <3>2, <1>1
  <2>4. ASSUME ~ isRunning, n \in DOMAIN schedules'
        PROVE  objects'[schedules'[n]].intervalId = NoTimer
    BY <2>1, <2>4, <1>1, <1>4 DEF Shape, PromptChain
  <2> QED BY <2>2, <2>3, <2>4, <1>1 DEF PromptChain
<1>12. RunsAreSpaced'
  BY <1>4 DEF RunsAreSpaced
<1> QED BY <1>6, <1>7, <1>8, <1>9, <1>10, <1>11, <1>12

(* Clearing the handles of S takes their timers and nothing else. *)
LEMMA ClearFacts ==
  ASSUME IndInv, NEW S \in SUBSET DOMAIN objects,
         timers' = Uncleared(S), objects' = NullHandles(S), UNCHANGED inFlight
  PROVE  /\ objects' \in Seq(Object) /\ Len(objects') = Len(objects)
         /\ DOMAIN objects' = DOMAIN objects
         /\ \A o \in DOMAIN objects :
              /\ objects'[o].name = objects[o].name
              /\ objects'[o].intervalId = IF o \in S THEN NoTimer ELSE objects[o].intervalId
         /\ timers' \subseteq TimerType /\ IsFiniteSet(timers')
         /\ \A t \in timers' : t.obj \in DOMAIN objects
         /\ HandlesAreUnique' /\ ChainsAreBounded' /\ WaitsAddUp' /\ RunsAreSpaced'
<1> USE DEF IndInv
<1>1. objects \in Seq(Object) /\ DOMAIN objects = 1..Len(objects) /\ Len(objects) \in Nat
  BY DEF Shape
<1>2. \A o \in DOMAIN objects :
        LET q == [objects[o] EXCEPT !.intervalId = NoTimer]
        IN  /\ q \in Object
            /\ q.name = objects[o].name /\ q.interval = objects[o].interval
            /\ q.lastSlept = objects[o].lastSlept /\ q.intervalId = NoTimer
  <2> TAKE o \in DOMAIN objects
  <2>1. objects[o] \in Object
    BY <1>1
  <2> QED BY <2>1 DEF Object
<1>3. /\ DOMAIN objects' = DOMAIN objects
      /\ \A o \in DOMAIN objects :
           objects'[o] = IF o \in S THEN [objects[o] EXCEPT !.intervalId = NoTimer] ELSE objects[o]
  BY DEF NullHandles
<1>4. \A o \in DOMAIN objects : objects'[o] \in Object
  BY <1>1, <1>2, <1>3
<1>5. objects' \in Seq(Object) /\ Len(objects') = Len(objects)
  <2>1. objects' = [o \in 1..Len(objects) |-> objects'[o]]
    BY <1>1 DEF NullHandles
  <2> QED BY <1>1, <1>4, <2>1
<1>6. \A o \in DOMAIN objects :
        /\ objects'[o].name = objects[o].name /\ objects'[o].interval = objects[o].interval
        /\ objects'[o].lastSlept = objects[o].lastSlept
        /\ objects'[o].intervalId = IF o \in S THEN NoTimer ELSE objects[o].intervalId
  BY <1>2, <1>3
<1>7. timers' \subseteq timers
  BY DEF Uncleared
<1>8. IsFiniteSet(timers') /\ timers' \subseteq TimerType
      /\ \A t \in timers' : t.obj \in DOMAIN objects
  BY <1>7, FS_Subset DEF Shape
<1>9. HandlesAreUnique'
  BY <1>7 DEF HandlesAreUnique
<1>10. ChainsAreBounded'
  <2> SUFFICES ASSUME NEW o \in DOMAIN objects PROVE Chains(o)' <= MaxChains
    BY <1>3 DEF ChainsAreBounded
  <2>1. TimersOf(timers', o) \subseteq TimersOf(timers, o)
    BY <1>7 DEF TimersOf
  <2>2. /\ Cardinality(TimersOf(timers', o)) <= Cardinality(TimersOf(timers, o))
        /\ Cardinality(TimersOf(timers', o)) \in Nat
    BY <2>1, ChainsType, FS_Subset, FS_CardinalityType
  <2>3. inFlight[o] \in Nat /\ Cardinality(TimersOf(timers, o)) \in Nat
    BY ChainsType
  <2>4. Chains(o) <= MaxChains
    BY DEF ChainsAreBounded
  <2> QED BY <2>2, <2>3, <2>4, SchedulerAssumption DEF Chains
<1>11. WaitsAddUp'
  BY <1>6, <1>7, <1>8 DEF WaitsAddUp
<1>12. RunsAreSpaced'
  BY <1>3, <1>6 DEF RunsAreSpaced
<1> QED BY <1>3, <1>5, <1>6, <1>8, <1>9, <1>10, <1>11, <1>12

LEMMA LiveFacts ==
  ASSUME Shape
  PROVE  /\ Live \in SUBSET DOMAIN objects
         /\ \A n, m \in DOMAIN schedules : schedules[n] = schedules[m] => n = m
BY DEF Live, Shape

LEMMA CancelKeepsIndInv ==
  ASSUME IndInv, NEW name \in Names, CancelSchedule(name)
  PROVE  IndInv'
<1> USE DEF IndInv
<1> DEFINE o == schedules[name]
<1>1. /\ name \in DOMAIN schedules /\ timers' = Uncleared({o}) /\ objects' = NullHandles({o})
      /\ schedules' = [n \in DOMAIN schedules \ {name} |-> schedules[n]]
      /\ isRunning' = isRunning /\ inFlight' = inFlight
  BY DEF CancelSchedule
<1>2. {o} \in SUBSET DOMAIN objects
  BY <1>1, LiveFacts DEF Live
<1>3. /\ objects' \in Seq(Object) /\ Len(objects') = Len(objects)
      /\ DOMAIN objects' = DOMAIN objects
      /\ \A p \in DOMAIN objects :
           /\ objects'[p].name = objects[p].name
           /\ objects'[p].intervalId = IF p \in {o} THEN NoTimer ELSE objects[p].intervalId
      /\ timers' \subseteq TimerType /\ IsFiniteSet(timers')
      /\ \A t \in timers' : t.obj \in DOMAIN objects
      /\ HandlesAreUnique' /\ ChainsAreBounded' /\ WaitsAddUp' /\ RunsAreSpaced'
  BY <1>1, <1>2, ClearFacts
<1>4. Shape'
  <2>1. \A n \in DOMAIN schedules' : /\ n \in DOMAIN schedules /\ schedules'[n] = schedules[n]
    BY <1>1
  <2>2. schedules' = [n \in DOMAIN schedules' |-> schedules'[n]]
    BY <1>1
  <2> QED BY <1>1, <1>3, <2>1, <2>2 DEF Shape
<1>5. HandlesMeanChains'
  <2> SUFFICES ASSUME NEW p \in Live', isRunning' \/ objects'[p].intervalId # NoTimer
               PROVE  HasChain(p)'
    BY DEF HandlesMeanChains
  <2>1. p \in Live /\ p # o /\ p \in DOMAIN objects
    BY <1>1, LiveFacts DEF Live
  <2>2. HasChain(p)
    BY <1>1, <1>3, <2>1 DEF HandlesMeanChains
  <2> QED BY <1>1, <2>1, <2>2 DEF HasChain, Uncleared
<1>6. PromptChainsAreHeld'
  <2> SUFFICES ASSUME NEW n \in Names \ Awaits PROVE PromptChain(n)'
    BY DEF PromptChainsAreHeld
  <2>1. PromptChain(n)
    BY DEF PromptChainsAreHeld
  <2>2. ASSUME NEW t \in timers', objects'[t.obj].name = n
        PROVE  /\ isRunning /\ n \in DOMAIN schedules'
               /\ t.obj = schedules'[n] /\ t.id = objects'[t.obj].intervalId
    <3>1. t \in timers /\ t.obj \in DOMAIN objects /\ objects[t.obj].name = n
      BY <1>1, <1>3, <2>2 DEF Uncleared
    <3>2. /\ isRunning /\ n \in DOMAIN schedules
          /\ t.obj = schedules[n] /\ t.id = objects[t.obj].intervalId
      BY <2>1, <3>1 DEF PromptChain
    <3>3. t.obj # o
      BY <1>1, <2>2, <3>2 DEF Uncleared
    <3>4. n # name
      BY <3>2, <3>3
    <3> QED BY <1>1, <1>3, <3>1, <3>2, <3>3, <3>4
  <2>3. ASSUME ~ isRunning, n \in DOMAIN schedules'
        PROVE  objects'[schedules'[n]].intervalId = NoTimer
    <3>1. n \in DOMAIN schedules /\ schedules'[n] = schedules[n]
      BY <1>1, <2>3
    <3>2. schedules[n] \in DOMAIN objects
      BY <3>1 DEF Shape
    <3> QED BY <1>3, <2>1, <2>3, <3>1, <3>2 DEF PromptChain
  <2>4. \A p \in DOMAIN objects' : objects'[p].name = n => inFlight'[p] = 0
    BY <1>1, <1>3, <2>1 DEF PromptChain
  <2> QED BY <1>1, <2>2, <2>3, <2>4 DEF PromptChain
<1> QED BY <1>3, <1>4, <1>5, <1>6

(* Nothing is left of the prompt schedules once their handles are cleared. *)
LEMMA StopKeepsIndInv ==
  ASSUME IndInv, Stop
  PROVE  IndInv'
<1> USE DEF IndInv
<1>1. /\ timers' = Uncleared(Live) /\ objects' = NullHandles(Live) /\ isRunning' = FALSE
      /\ schedules' = schedules /\ inFlight' = inFlight
  BY DEF Stop
<1>2. Live \in SUBSET DOMAIN objects /\ Live' = Live
  BY <1>1, LiveFacts DEF Live
<1>3. /\ objects' \in Seq(Object) /\ Len(objects') = Len(objects)
      /\ DOMAIN objects' = DOMAIN objects
      /\ \A p \in DOMAIN objects :
           /\ objects'[p].name = objects[p].name
           /\ objects'[p].intervalId = IF p \in Live THEN NoTimer ELSE objects[p].intervalId
      /\ timers' \subseteq TimerType /\ IsFiniteSet(timers')
      /\ \A t \in timers' : t.obj \in DOMAIN objects
      /\ HandlesAreUnique' /\ ChainsAreBounded' /\ WaitsAddUp' /\ RunsAreSpaced'
  BY <1>1, <1>2, ClearFacts
<1>4. Shape'
  BY <1>1, <1>3 DEF Shape
<1>5. HandlesMeanChains'
  BY <1>1, <1>2, <1>3 DEF HandlesMeanChains
<1>6. PromptChainsAreHeld'
  <2> SUFFICES ASSUME NEW n \in Names \ Awaits PROVE PromptChain(n)'
    BY DEF PromptChainsAreHeld
  <2>1. PromptChain(n)
    BY DEF PromptChainsAreHeld
  <2>2. ASSUME NEW t \in timers', objects'[t.obj].name = n PROVE FALSE
    <3>1. t \in timers /\ t.obj \in DOMAIN objects /\ objects[t.obj].name = n
      BY <1>1, <1>3, <2>2 DEF Uncleared
    <3>2. t.obj \in Live /\ t.id = objects[t.obj].intervalId
      BY <2>1, <3>1 DEF PromptChain, Live
    <3> QED BY <1>1, <2>2, <3>2 DEF Uncleared
  <2>3. n \in DOMAIN schedules' => objects'[schedules'[n]].intervalId = NoTimer
    BY <1>1, <1>2, <1>3 DEF Live
  <2>4. \A p \in DOMAIN objects' : objects'[p].name = n => inFlight'[p] = 0
    BY <1>1, <1>3, <2>1 DEF PromptChain
  <2> QED BY <2>2, <2>3, <2>4 DEF PromptChain
<1> QED BY <1>3, <1>4, <1>5, <1>6

LEMMA CloseKeepsIndInv ==
  ASSUME IndInv, Close
  PROVE  IndInv'
<1> USE DEF IndInv
<1>1. /\ isRunning' = FALSE /\ schedules' = [n \in {} |-> n] /\ inFlight' = inFlight
      /\ IF isRunning THEN timers' = Uncleared(Live) /\ objects' = NullHandles(Live)
         ELSE timers' = timers /\ objects' = objects
  BY DEF Close
<1>2. DOMAIN schedules' = {} /\ Live' = {}
  BY <1>1 DEF Live
<1>3. /\ objects' \in Seq(Object) /\ Len(objects') = Len(objects)
      /\ DOMAIN objects' = DOMAIN objects
      /\ \A p \in DOMAIN objects : objects'[p].name = objects[p].name
      /\ timers' \subseteq TimerType /\ IsFiniteSet(timers')
      /\ \A t \in timers' : t.obj \in DOMAIN objects
      /\ HandlesAreUnique' /\ ChainsAreBounded' /\ WaitsAddUp' /\ RunsAreSpaced'
  <2>1. CASE isRunning
    BY <2>1, <1>1, LiveFacts, ClearFacts
  <2>2. CASE ~ isRunning
    <3>1. timers' = timers /\ objects' = objects /\ inFlight' = inFlight
      BY <2>2, <1>1
    <3> QED BY <3>1 DEF Shape, HandlesAreUnique, ChainsAreBounded, Chains, WaitsAddUp, RunsAreSpaced
  <2> QED BY <2>1, <2>2
<1>4. Shape'
  <2>1. schedules' = [n \in DOMAIN schedules' |-> schedules'[n]]
    BY <1>1
  <2> QED BY <1>1, <1>2, <1>3, <2>1 DEF Shape
<1>5. HandlesMeanChains'
  BY <1>2 DEF HandlesMeanChains
<1>6. PromptChainsAreHeld'
  <2> SUFFICES ASSUME NEW n \in Names \ Awaits PROVE PromptChain(n)'
    BY DEF PromptChainsAreHeld
  <2>1. PromptChain(n)
    BY DEF PromptChainsAreHeld
  <2>2. ASSUME NEW t \in timers', objects'[t.obj].name = n PROVE FALSE
    <3>1. t \in timers
      BY <1>1, <2>2 DEF Uncleared
    <3>2. t.obj \in DOMAIN objects /\ objects[t.obj].name = n
      BY <1>3, <2>2
    <3>3. isRunning /\ t.obj \in Live /\ t.id = objects[t.obj].intervalId
      BY <2>1, <3>1, <3>2 DEF PromptChain, Live
    <3> QED BY <1>1, <2>2, <3>3 DEF Uncleared
  <2>3. \A p \in DOMAIN objects' : objects'[p].name = n => inFlight'[p] = 0
    BY <1>1, <1>3, <2>1 DEF PromptChain
  <2> QED BY <1>2, <2>2, <2>3 DEF PromptChain
<1> QED BY <1>3, <1>4, <1>5, <1>6

LEMMA StartKeepsIndInv ==
  ASSUME IndInv, Start
  PROVE  IndInv'
<1> USE DEF IndInv
<1> DEFINE idle == {o \in Live : objects[o].intervalId = NoTimer}
           First(o) == Timer(timers, o, objects[o].interval, 0)
           first == {First(o) : o \in idle}
<1>1. /\ ~ isRunning /\ isRunning' = TRUE /\ schedules' = schedules /\ inFlight' = inFlight
      /\ \A o \in Live : Chains(o) < MaxChains
      /\ timers' = timers \cup first
      /\ objects' = [o \in DOMAIN objects |->
                       IF o \in idle
                       THEN [objects[o] EXCEPT !.intervalId = FreshHandle(timers, o)]
                       ELSE objects[o]]
  BY DEF Start
<1>2. /\ idle \subseteq DOMAIN objects /\ Live' = Live /\ Live \subseteq DOMAIN objects
      /\ objects \in Seq(Object) /\ DOMAIN objects = 1..Len(objects) /\ Len(objects) \in Nat
  BY <1>1, LiveFacts DEF Shape, Live
<1>3. \A o \in idle : /\ FreshHandle(timers, o) \in Handles
                      /\ FreshHandle(timers, o) # NoTimer
                      /\ \A t \in timers : t.obj = o => t.id # FreshHandle(timers, o)
  <2> SUFFICES ASSUME NEW o \in idle
               PROVE  /\ FreshHandle(timers, o) \in Handles
                      /\ FreshHandle(timers, o) # NoTimer
                      /\ \A t \in timers : t.obj = o => t.id # FreshHandle(timers, o)
    OBVIOUS
  <2>1. /\ Cardinality(TimersOf(timers, o)) \in Nat /\ inFlight[o] \in Nat
        /\ Chains(o) <= MaxChains
    BY <1>2, ChainsType DEF ChainsAreBounded
  <2>2. Cardinality(TimersOf(timers, o)) <= MaxChains
    BY <2>1, SchedulerAssumption DEF Chains
  <2>3. IsFiniteSet(timers) /\ \A t \in timers : t \in TimerType
    BY DEF Shape
  <2> QED BY <2>2, <2>3, FreshHandleFacts DEF NoTimer, Handles
<1>4. \A o \in DOMAIN objects :
        LET q == [objects[o] EXCEPT !.intervalId = FreshHandle(timers, o)]
        IN  /\ q.name = objects[o].name /\ q.interval = objects[o].interval
            /\ q.lastSlept = objects[o].lastSlept /\ q.intervalId = FreshHandle(timers, o)
            /\ o \in idle => q \in Object
  <2> TAKE o \in DOMAIN objects
  <2>1. objects[o] \in Object
    BY <1>2
  <2> HIDE DEF idle
  <2> QED BY <2>1, <1>3 DEF Object
<1>5. /\ DOMAIN objects' = DOMAIN objects
      /\ \A o \in DOMAIN objects :
           /\ objects'[o] \in Object
           /\ objects'[o].name = objects[o].name /\ objects'[o].interval = objects[o].interval
           /\ objects'[o].lastSlept = objects[o].lastSlept
           /\ objects'[o].intervalId = IF o \in idle THEN FreshHandle(timers, o)
                                       ELSE objects[o].intervalId
  <2> HIDE DEF idle
  <2> QED BY <1>1, <1>2, <1>4
<1>6. objects' \in Seq(Object) /\ Len(objects') = Len(objects)
  <2>1. objects' = [o \in 1..Len(objects) |-> objects'[o]]
    BY <1>1, <1>2
  <2> QED BY <1>2, <1>5, <2>1
<1>7. \A o \in idle : /\ First(o) \in TimerType /\ First(o).obj = o
                      /\ First(o).id = FreshHandle(timers, o)
                      /\ First(o).ms = objects[o].interval /\ First(o).slept = 0
  <2> SUFFICES ASSUME NEW o \in idle
               PROVE  /\ First(o) \in TimerType /\ First(o).obj = o
                      /\ First(o).id = FreshHandle(timers, o)
                      /\ First(o).ms = objects[o].interval /\ First(o).slept = 0
    OBVIOUS
  <2>1. objects[o] \in Object /\ o \in Nat
    BY <1>2
  <2> QED BY <2>1, <1>3 DEF Timer, TimerType, Object
<1> HIDE DEF First
<1>8. IsFiniteSet(first)
  <2>1. IsFiniteSet(idle)
    <3>1. IsFiniteSet(1..Len(objects)) /\ idle \in SUBSET (1..Len(objects))
      BY <1>2, FS_Interval
    <3> HIDE DEF idle
    <3> QED BY <3>1, FS_Subset
  <2>2. [o \in idle |-> First(o)] \in Surjection(idle, first)
    BY DEF Surjection
  <2> HIDE DEF idle, first
  <2> QED BY <2>1, <2>2, FS_Surjection
<1>9. Shape'
  <2>1. IsFiniteSet(timers')
    <3> HIDE DEF first
    <3> QED BY <1>1, <1>8, FS_Union DEF Shape
  <2>2. timers' \subseteq TimerType /\ \A t \in timers' : t.obj \in DOMAIN objects'
    BY <1>1, <1>2, <1>5, <1>7 DEF Shape
  <2>3. isRunning' \in BOOLEAN
    BY <1>1
  <2>4. \A n \in DOMAIN schedules' : /\ schedules'[n] \in DOMAIN objects'
                                     /\ objects'[schedules'[n]].name = n
    BY <1>1, <1>5 DEF Shape
  <2>5. Len(objects') <= MaxSchedules /\ inFlight' \in Seq(Nat) /\ Len(inFlight') = Len(objects')
    BY <1>1, <1>6 DEF Shape
  <2>6. schedules' = [n \in DOMAIN schedules' |-> schedules'[n]] /\ DOMAIN schedules' \subseteq Names
    BY <1>1 DEF Shape
  <2> QED BY <1>6, <2>1, <2>2, <2>3, <2>4, <2>5, <2>6 DEF Shape
<1>10. HandlesAreUnique'
  BY <1>1, <1>3, <1>7 DEF HandlesAreUnique
<1>11. ChainsAreBounded'
  <2> SUFFICES ASSUME NEW o \in DOMAIN objects PROVE Chains(o)' <= MaxChains
    BY <1>5 DEF ChainsAreBounded
  <2>1. Chains(o)' = Cardinality(TimersOf(timers', o)) + inFlight[o]
    BY <1>1 DEF Chains
  <2>2. inFlight[o] \in Nat /\ Cardinality(TimersOf(timers, o)) \in Nat
        /\ IsFiniteSet(TimersOf(timers, o))
    BY ChainsType
  <2>3. CASE o \in idle
    <3>1. TimersOf(timers', o) = TimersOf(timers, o) \cup {First(o)}
      BY <1>1, <1>7, <2>3 DEF TimersOf
    <3>2. /\ Cardinality(TimersOf(timers', o)) <= Cardinality(TimersOf(timers, o)) + 1
          /\ Cardinality(TimersOf(timers', o)) \in Nat
      BY <3>1, <2>2, OneMore
    <3>3. Chains(o) < MaxChains
      BY <1>1, <2>3
    <3> QED BY <2>1, <2>2, <3>2, <3>3, SchedulerAssumption DEF Chains
  <2>4. CASE o \notin idle
    <3>1. TimersOf(timers', o) = TimersOf(timers, o)
      BY <1>1, <1>7, <2>4 DEF TimersOf
    <3> QED BY <2>1, <3>1 DEF Chains, ChainsAreBounded
  <2> QED BY <2>3, <2>4
<1>12. WaitsAddUp'
  <2> SUFFICES ASSUME NEW t \in timers' PROVE t.slept + t.ms = objects'[t.obj].interval
    BY DEF WaitsAddUp
  <2>1. CASE t \in timers
    BY <2>1, <1>5 DEF WaitsAddUp, Shape
  <2>2. CASE t \in first
    <3>1. PICK o \in idle : t = First(o)
      BY <2>2
    <3>2. objects[o] \in Object /\ o \in DOMAIN objects
      BY <1>2
    <3> QED BY <3>1, <3>2, <1>5, <1>7 DEF Object
  <2> QED BY <2>1, <2>2, <1>1
<1>13. HandlesMeanChains'
  <2> SUFFICES ASSUME NEW o \in Live PROVE HasChain(o)'
    BY <1>2 DEF HandlesMeanChains
  <2>1. CASE o \in idle
    <3>1. First(o) \in timers' /\ First(o).obj = o
      BY <2>1, <1>1, <1>7
    <3> QED BY <3>1 DEF HasChain
  <2>2. CASE o \notin idle
    <3>1. HasChain(o)
      BY <2>2 DEF HandlesMeanChains
    <3> QED BY <3>1, <1>1 DEF HasChain
  <2> QED BY <2>1, <2>2
<1>14. PromptChainsAreHeld'
  <2> SUFFICES ASSUME NEW n \in Names \ Awaits PROVE PromptChain(n)'
    BY DEF PromptChainsAreHeld
  <2>1. PromptChain(n)
    BY DEF PromptChainsAreHeld
  <2>2. ASSUME NEW t \in timers', objects'[t.obj].name = n
        PROVE  /\ n \in DOMAIN schedules'
               /\ t.obj = schedules'[n] /\ t.id = objects'[t.obj].intervalId
    <3>1. t \notin timers
      BY <2>1, <2>2, <1>1, <1>5 DEF PromptChain, Shape
    <3>2. PICK o \in idle : t = First(o)
      BY <3>1, <1>1
    <3>3. o \in DOMAIN objects /\ objects[o].name = n /\ t.obj = o
      BY <3>2, <2>2, <1>2, <1>5, <1>7
    <3>4. n \in DOMAIN schedules /\ o = schedules[n]
      BY <3>2, <3>3 DEF Live, Shape
    <3> QED BY <3>2, <3>3, <3>4, <1>1, <1>5, <1>7
  <2>3. \A p \in DOMAIN objects' : objects'[p].name = n => inFlight'[p] = 0
    BY <1>1, <1>5, <2>1 DEF PromptChain
  <2> QED BY <1>1, <2>2, <2>3 DEF PromptChain
<1>15. RunsAreSpaced'
  BY <1>5 DEF RunsAreSpaced
<1> QED BY <1>9, <1>10, <1>11, <1>12, <1>13, <1>14, <1>15

(* A chunk that is over was slept to its end: Node.js clamps none of them. *)
LEMMA ChunkFacts ==
  ASSUME NEW ms \in Nat \ {0}
  PROVE  /\ Chunk(ms) \in Nat \ {0} /\ Chunk(ms) <= ms
         /\ NodeDelay(Chunk(ms)) = Chunk(ms)
BY SchedulerAssumption DEF Chunk, NodeDelay

LEMMA SettlesKeepsIndInv ==
  ASSUME IndInv, NEW o \in DOMAIN objects, HandlerSettles(o)
  PROVE  IndInv'
<1> USE DEF IndInv
<1>1. /\ inFlight[o] > 0 /\ inFlight' = [inFlight EXCEPT ![o] = @ - 1]
      /\ schedules' = schedules /\ isRunning' = isRunning
  BY DEF HandlerSettles
<1>2. /\ inFlight \in Seq(Nat) /\ objects \in Seq(Object) /\ Len(inFlight) = Len(objects)
      /\ o \in 1..Len(objects) /\ inFlight[o] \in Nat /\ inFlight[o] - 1 \in Nat
      /\ objects[o] \in Object
      /\ Cardinality(TimersOf(timers, o)) \in Nat
  BY <1>1, ChainsType DEF Shape
<1>3. /\ inFlight' \in Seq(Nat) /\ Len(inFlight') = Len(inFlight)
      /\ inFlight'[o] = inFlight[o] - 1
      /\ \A p \in DOMAIN objects : p # o => inFlight'[p] = inFlight[p]
  BY <1>1, <1>2
<1>4. objects[o].name \in Names
  BY <1>2 DEF Object
<1>5. objects[o].name \in Awaits
  BY <1>1, <1>2, <1>4 DEF PromptChainsAreHeld, PromptChain
<1>6. CASE Registered(o)
  <2>1. Arm(timers, o, objects[o].interval, 0, objects[o].lastSlept)
    BY <1>6 DEF HandlerSettles
  <2>2. Cardinality(TimersOf(timers, o)) + inFlight'[o] + 1 <= Chains(o)
    <3>1. Chains(o) = Cardinality(TimersOf(timers, o)) + inFlight[o]
      BY DEF Chains
    <3>2. /\ inFlight'[o] = inFlight[o] - 1 /\ inFlight[o] \in Nat
          /\ Cardinality(TimersOf(timers, o)) \in Nat
      BY <1>2, <1>3
    <3> QED BY <3>1, <3>2
  <2>3. objects[o].interval \in Nat \ {0}
    BY <1>2 DEF Object
  <2> QED BY <1>1, <1>3, <1>5, <1>6, <2>1, <2>2, <2>3, ArmKeepsIndInv
<1>7. CASE ~ Registered(o)
  <2>1. timers' = timers /\ objects' = objects
    BY <1>7 DEF HandlerSettles
  <2>2. o \notin Live
    BY <1>7 DEF Registered, Live, Shape
  <2>3. Shape'
    BY <1>1, <1>3, <2>1 DEF Shape
  <2>4. HandlesAreUnique' /\ WaitsAddUp' /\ RunsAreSpaced'
    BY <2>1 DEF HandlesAreUnique, WaitsAddUp, RunsAreSpaced
  <2>5. ChainsAreBounded'
    <3> SUFFICES ASSUME NEW p \in DOMAIN objects PROVE Chains(p)' <= MaxChains
      BY <2>1 DEF ChainsAreBounded
    <3>1. /\ inFlight'[p] \in Nat /\ inFlight[p] \in Nat /\ inFlight'[p] <= inFlight[p]
      <4>1. inFlight[p] \in Nat
        BY ChainsType
      <4>2. CASE p = o
        BY <4>1, <4>2, <1>2, <1>3
      <4>3. CASE p # o
        BY <4>1, <4>3, <1>3
      <4> QED BY <4>2, <4>3
    <3>2. Chains(p)' = Cardinality(TimersOf(timers, p)) + inFlight'[p]
      BY <2>1 DEF Chains
    <3>3. Cardinality(TimersOf(timers, p)) \in Nat /\ Chains(p) <= MaxChains
      BY ChainsType DEF ChainsAreBounded
    <3> QED BY <3>1, <3>2, <3>3, SchedulerAssumption DEF Chains
  <2>6. HandlesMeanChains'
    BY <1>1, <1>3, <2>1, <2>2, LiveFacts DEF HandlesMeanChains, HasChain, Live
  <2>7. PromptChainsAreHeld'
    BY <1>1, <1>3, <1>5, <2>1 DEF PromptChainsAreHeld, PromptChain
  <2> QED BY <2>3, <2>4, <2>5, <2>6, <2>7
<1> QED BY <1>6, <1>7

LEMMA FiresKeepsIndInv ==
  ASSUME IndInv, NEW t \in timers, TimerFires(t)
  PROVE  IndInv'
<1> USE DEF IndInv
<1> DEFINE o == t.obj
           slept == t.slept + NodeDelay(Chunk(t.ms))
           rest == timers \ {t}
<1>1. /\ t \in TimerType /\ o \in DOMAIN objects /\ objects[o] \in Object
      /\ objects \in Seq(Object) /\ t.slept + t.ms = objects[o].interval
      /\ schedules' = schedules /\ isRunning' = isRunning
  BY DEF Shape, WaitsAddUp, TimerFires
<1>2. /\ t.ms \in Nat \ {0} /\ t.slept \in Nat /\ slept = t.slept + Chunk(t.ms)
      /\ Chunk(t.ms) \in Nat \ {0} /\ Chunk(t.ms) <= t.ms
      /\ objects[o].interval \in Nat \ {0} /\ objects[o].lastSlept \in Nat
  BY <1>1, ChunkFacts DEF TimerType, Object
<1>3. /\ rest \in SUBSET timers /\ IsFiniteSet(rest)
      /\ \A u \in timers : u.obj # o => u \in rest
      /\ Cardinality(TimersOf(rest, o)) + 1 = Cardinality(TimersOf(timers, o))
      /\ Cardinality(TimersOf(rest, o)) \in Nat
  <2>1. TimersOf(rest, o) = TimersOf(timers, o) \ {t} /\ t \in TimersOf(timers, o)
    BY DEF TimersOf
  <2>2. IsFiniteSet(TimersOf(timers, o)) /\ Cardinality(TimersOf(timers, o)) \in Nat
    BY <1>1, ChainsType
  <2>3. Cardinality(TimersOf(rest, o)) = Cardinality(TimersOf(timers, o)) - 1
    <3> HIDE DEF rest
    <3> QED BY <2>1, <2>2, FS_RemoveElement
  <2>4. IsFiniteSet(rest) /\ IsFiniteSet(TimersOf(rest, o))
    BY <2>1, <2>2, FS_Subset DEF Shape
  <2> QED BY <2>2, <2>3, <2>4, FS_CardinalityType
<1>4. /\ inFlight[o] \in Nat /\ inFlight \in Seq(Nat) /\ Len(inFlight) = Len(objects)
      /\ o \in 1..Len(objects) /\ Chains(o) <= MaxChains
  BY <1>1, ChainsType DEF Shape, ChainsAreBounded
<1>5. objects[o].name \notin Awaits =>
        /\ isRunning /\ Registered(o) /\ o = schedules[objects[o].name] /\ inFlight[o] = 0
        /\ \A u \in rest : u.obj # o
  <2> SUFFICES ASSUME objects[o].name \notin Awaits
               PROVE  /\ isRunning /\ Registered(o) /\ o = schedules[objects[o].name]
                      /\ inFlight[o] = 0
                      /\ \A u \in rest : u.obj # o
    OBVIOUS
  <2>1. PromptChain(objects[o].name)
    BY <1>1 DEF PromptChainsAreHeld, Object
  <2>2. \A u \in rest : u.obj # o
    BY <2>1, <1>1 DEF PromptChain, HandlesAreUnique
  <2> QED BY <2>1, <2>2, <1>1 DEF PromptChain, Registered
<1>6. CASE ~ Registered(o) /\ timers' = rest /\ UNCHANGED <<objects, inFlight>>
  <2>1. o \notin Live
    BY <1>6 DEF Registered, Live, Shape
  <2>2. Shape'
    BY <1>1, <1>3, <1>6 DEF Shape
  <2>3. HandlesAreUnique' /\ WaitsAddUp' /\ RunsAreSpaced'
    BY <1>6 DEF HandlesAreUnique, WaitsAddUp, RunsAreSpaced
  <2>4. ChainsAreBounded'
    <3> SUFFICES ASSUME NEW p \in DOMAIN objects PROVE Chains(p)' <= MaxChains
      BY <1>6 DEF ChainsAreBounded
    <3>1. /\ Cardinality(TimersOf(rest, p)) <= Cardinality(TimersOf(timers, p))
          /\ Cardinality(TimersOf(rest, p)) \in Nat
      <4>1. TimersOf(rest, p) \subseteq TimersOf(timers, p)
        BY DEF TimersOf
      <4> QED BY <4>1, ChainsType, FS_Subset, FS_CardinalityType
    <3>2. Chains(p)' = Cardinality(TimersOf(rest, p)) + inFlight[p]
      BY <1>6 DEF Chains
    <3>3. /\ Cardinality(TimersOf(timers, p)) \in Nat /\ inFlight[p] \in Nat
          /\ Chains(p) <= MaxChains
      BY ChainsType DEF ChainsAreBounded
    <3> QED BY <3>1, <3>2, <3>3, SchedulerAssumption DEF Chains
  <2>5. HandlesMeanChains'
    BY <1>1, <1>6, <2>1 DEF HandlesMeanChains, HasChain, Live
  <2>6. PromptChainsAreHeld'
    BY <1>1, <1>6 DEF PromptChainsAreHeld, PromptChain
  <2> QED BY <2>2, <2>3, <2>4, <2>5, <2>6
<1>7. CASE /\ Registered(o) /\ ~ LastChunk(t)
           /\ Arm(rest, o, t.ms - Chunk(t.ms), slept, objects[o].lastSlept)
           /\ UNCHANGED inFlight
  <2>1. /\ t.ms - Chunk(t.ms) \in Nat \ {0} /\ slept \in Nat
        /\ slept + (t.ms - Chunk(t.ms)) = objects[o].interval
    BY <1>1, <1>2, <1>7 DEF LastChunk
  <2>2. Cardinality(TimersOf(rest, o)) + inFlight'[o] + 1 <= Chains(o)
    BY <1>3, <1>4, <1>7 DEF Chains
  <2>3. /\ inFlight' \in Seq(Nat) /\ Len(inFlight') = Len(inFlight)
        /\ \A p \in DOMAIN objects : p # o => inFlight'[p] = inFlight[p]
        /\ inFlight'[o] = inFlight[o]
    BY <1>4, <1>7
  <2> HIDE DEF slept, rest
  <2> QED BY <1>1, <1>3, <1>5, <1>7, <2>1, <2>2, <2>3, ArmKeepsIndInv
<1>8. CASE /\ Registered(o) /\ LastChunk(t) /\ objects[o].name \in Awaits
           /\ timers' = rest
           /\ objects' = [objects EXCEPT ![o].lastSlept = slept]
           /\ inFlight' = [inFlight EXCEPT ![o] = @ + 1]
  <2>1. slept = objects[o].interval /\ slept \in Nat
    BY <1>1, <1>2, <1>8 DEF LastChunk
  <2>2. /\ objects' \in Seq(Object) /\ Len(objects') = Len(objects)
        /\ DOMAIN objects' = DOMAIN objects
        /\ \A p \in DOMAIN objects :
             /\ objects'[p].name = objects[p].name /\ objects'[p].interval = objects[p].interval
             /\ objects'[p].intervalId = objects[p].intervalId
             /\ objects'[p].lastSlept = IF p = o THEN slept ELSE objects[p].lastSlept
    <3> DEFINE q == [objects[o] EXCEPT !.lastSlept = slept]
    <3>1. /\ q \in Object
          /\ q.name = objects[o].name /\ q.interval = objects[o].interval
          /\ q.lastSlept = slept /\ q.intervalId = objects[o].intervalId
      BY <1>1, <2>1 DEF Object
    <3>2. objects' = [objects EXCEPT ![o] = q]
      BY <1>8
    <3> HIDE DEF q, slept
    <3> QED BY <1>1, <1>4, <3>1, <3>2
  <2>3. /\ inFlight' \in Seq(Nat) /\ Len(inFlight') = Len(inFlight)
        /\ inFlight'[o] = inFlight[o] + 1
        /\ \A p \in DOMAIN objects : p # o => inFlight'[p] = inFlight[p]
    BY <1>4, <1>8
  <2> HIDE DEF slept
  <2>4. Shape'
    BY <1>1, <1>3, <1>8, <2>2, <2>3 DEF Shape
  <2>5. HandlesAreUnique' /\ WaitsAddUp'
    BY <1>8, <2>2 DEF HandlesAreUnique, WaitsAddUp, Shape
  <2>6. RunsAreSpaced'
    BY <2>1, <2>2 DEF RunsAreSpaced
  <2>7. ChainsAreBounded'
    <3> SUFFICES ASSUME NEW p \in DOMAIN objects PROVE Chains(p)' <= MaxChains
      BY <2>2 DEF ChainsAreBounded
    <3>1. Chains(p)' = Cardinality(TimersOf(rest, p)) + inFlight'[p]
      BY <1>8 DEF Chains
    <3>2. CASE p = o
      <4>1. Chains(o) = Cardinality(TimersOf(timers, o)) + inFlight[o]
        BY DEF Chains
      <4>2. Chains(p)' = Cardinality(TimersOf(rest, o)) + inFlight[o] + 1
        BY <2>3, <3>1, <3>2, <1>3, <1>4
      <4>3. /\ Cardinality(TimersOf(rest, o)) + 1 = Cardinality(TimersOf(timers, o))
            /\ Cardinality(TimersOf(rest, o)) \in Nat /\ inFlight[o] \in Nat
            /\ Chains(o) <= MaxChains
        BY <1>3, <1>4
      <4> HIDE DEF rest
      <4> QED BY <4>1, <4>2, <4>3
    <3>3. CASE p # o
      <4>1. TimersOf(rest, p) = TimersOf(timers, p)
        BY <3>3 DEF TimersOf
      <4> QED BY <2>3, <3>1, <3>3, <4>1 DEF Chains, ChainsAreBounded
    <3> QED BY <3>2, <3>3
  <2>8. HandlesMeanChains'
    <3> SUFFICES ASSUME NEW p \in Live, isRunning \/ objects[p].intervalId # NoTimer
                 PROVE  HasChain(p)'
      BY <1>1, <2>2, LiveFacts DEF HandlesMeanChains, Live
    <3>1. CASE p = o
      BY <1>4, <2>3, <3>1 DEF HasChain
    <3>2. CASE p # o
      <4>1. HasChain(p) /\ p \in DOMAIN objects
        BY LiveFacts DEF HandlesMeanChains
      <4> QED BY <1>8, <2>3, <3>2, <4>1 DEF HasChain
    <3> QED BY <3>1, <3>2
  <2>9. PromptChainsAreHeld'
    <3> SUFFICES ASSUME NEW n \in Names \ Awaits PROVE PromptChain(n)'
      BY DEF PromptChainsAreHeld
    <3>1. PromptChain(n) /\ n # objects[o].name
      BY <1>8 DEF PromptChainsAreHeld
    <3>2. \A p \in DOMAIN objects' : objects'[p].name = n => inFlight'[p] = 0
      BY <2>2, <2>3, <3>1 DEF PromptChain
    <3>3. \A u \in timers' : objects'[u.obj].name = n =>
            /\ isRunning /\ n \in DOMAIN schedules
            /\ u.obj = schedules[n] /\ u.id = objects'[u.obj].intervalId
      BY <1>8, <2>2, <3>1 DEF PromptChain, Shape
    <3>4. ~ isRunning /\ n \in DOMAIN schedules => objects'[schedules[n]].intervalId = NoTimer
      BY <2>2, <3>1 DEF PromptChain, Shape
    <3> QED BY <1>1, <3>2, <3>3, <3>4 DEF PromptChain
  <2> QED BY <2>4, <2>5, <2>6, <2>7, <2>8, <2>9
<1>9. CASE /\ Registered(o) /\ LastChunk(t) /\ objects[o].name \notin Awaits
           /\ Arm(rest, o, objects[o].interval, 0, slept)
           /\ UNCHANGED inFlight
  <2>1. slept = objects[o].interval
    BY <1>1, <1>2, <1>9 DEF LastChunk
  <2>2. Cardinality(TimersOf(rest, o)) + inFlight'[o] + 1 <= Chains(o)
    BY <1>3, <1>4, <1>9 DEF Chains
  <2>3. /\ inFlight' \in Seq(Nat) /\ Len(inFlight') = Len(inFlight)
        /\ \A p \in DOMAIN objects : p # o => inFlight'[p] = inFlight[p]
        /\ inFlight'[o] = inFlight[o]
    BY <1>4, <1>9
  <2>4. /\ objects[o].interval \in Nat \ {0} /\ 0 \in Nat
        /\ 0 + objects[o].interval = objects[o].interval
        /\ slept \in {0, objects[o].interval, objects[o].lastSlept}
    BY <1>2, <2>1
  <2> HIDE DEF slept, rest
  <2> QED BY <1>1, <1>3, <1>5, <1>9, <2>2, <2>3, <2>4, ArmKeepsIndInv
<1>10. \/ ~ Registered(o) /\ timers' = rest /\ UNCHANGED <<objects, inFlight>>
       \/ /\ Registered(o) /\ ~ LastChunk(t)
          /\ Arm(rest, o, t.ms - Chunk(t.ms), slept, objects[o].lastSlept)
          /\ UNCHANGED inFlight
       \/ /\ Registered(o) /\ LastChunk(t) /\ objects[o].name \in Awaits
          /\ timers' = rest
          /\ objects' = [objects EXCEPT ![o].lastSlept = slept]
          /\ inFlight' = [inFlight EXCEPT ![o] = @ + 1]
       \/ /\ Registered(o) /\ LastChunk(t) /\ objects[o].name \notin Awaits
          /\ Arm(rest, o, objects[o].interval, 0, slept)
          /\ UNCHANGED inFlight
  BY Zenon DEF TimerFires
<1> HIDE DEF rest, slept, o
<1> QED BY <1>6, <1>7, <1>8, <1>9, <1>10

-----------------------------------------------------------------------------
(* The theorems *)

LEMMA NextKeepsIndInv == IndInv /\ [Next]_vars => IndInv'
<1> SUFFICES ASSUME IndInv, [Next]_vars PROVE IndInv'
  OBVIOUS
<1>1. ASSUME NEW name \in Names, CancelSchedule(name) PROVE IndInv'
  BY <1>1, CancelKeepsIndInv
<1>2. ASSUME NEW name \in Names, NEW expr \in Exprs, Schedule(name, expr) PROVE IndInv'
  BY <1>2, ScheduleKeepsIndInv
<1>3. CASE Start
  BY <1>3, StartKeepsIndInv
<1>4. CASE Stop
  BY <1>4, StopKeepsIndInv
<1>5. CASE Close
  BY <1>5, CloseKeepsIndInv
<1>6. ASSUME NEW o, Settles(o) PROVE IndInv'
  BY <1>6, SettlesKeepsIndInv DEF Settles
<1>7. ASSUME NEW o, NEW id, Fires(o, id) PROVE IndInv'
  BY <1>7, FiresKeepsIndInv DEF Fires
<1>8. CASE UNCHANGED vars
  BY <1>8 DEF vars, IndInv, Shape, HandlesAreUnique, ChainsAreBounded, Chains, WaitsAddUp,
     HandlesMeanChains, HasChain, Live, PromptChainsAreHeld, PromptChain, RunsAreSpaced
<1> QED BY <1>1, <1>2, <1>3, <1>4, <1>5, <1>6, <1>7, <1>8 DEF Next

LEMMA IndInvHolds == Spec => []IndInv
BY InitIndInv, NextKeepsIndInv, PTL DEF Spec

(* Every variable keeps its type.  (Scheduler, all of it.) *)
THEOREM TypesAreKept == Spec => []TypeOK
<1>1. IndInv => TypeOK
  <2> SUFFICES ASSUME IndInv PROVE TypeOK
    OBVIOUS
  <2> USE DEF IndInv
  <2>1. \A o \in DOMAIN objects :
         /\ objects[o].name \in Names /\ objects[o].interval \in Nat \ {0}
         /\ objects[o].intervalId \in TimerIds /\ objects[o].lastSlept \in Nat
    <3> TAKE o \in DOMAIN objects
    <3>1. objects[o] \in Object
      BY DEF Shape
    <3> QED BY <3>1, SchedulerAssumption DEF Object, TimerIds, Handles, NoTimer
  <2>2. \A o \in DOMAIN objects : inFlight[o] \in 0..MaxChains
    <3> TAKE o \in DOMAIN objects
    <3>1. /\ inFlight[o] \in Nat /\ Cardinality(TimersOf(timers, o)) \in Nat
          /\ Chains(o) <= MaxChains
      BY ChainsType DEF ChainsAreBounded
    <3>2. Chains(o) = Cardinality(TimersOf(timers, o)) + inFlight[o]
      BY DEF Chains
    <3> QED BY <3>1, <3>2, SchedulerAssumption
  <2>3. \A t \in timers : /\ t.obj \in DOMAIN objects /\ t.id \in TimerIds \ {NoTimer}
                          /\ t.ms \in 1..objects[t.obj].interval /\ t.slept \in Nat
    <3> TAKE t \in timers
    <3>1. /\ t \in TimerType /\ t.obj \in DOMAIN objects
          /\ t.slept + t.ms = objects[t.obj].interval
      BY DEF Shape, WaitsAddUp
    <3> QED BY <2>1, <3>1, SchedulerAssumption DEF TimerType, TimerIds, Handles, NoTimer
  <2> QED BY <2>1, <2>2, <2>3 DEF TypeOK, Shape
<1> QED BY <1>1, IndInvHolds, PTL

(* Node.js compresses no wait, however long, and no chunk is skipped        *)
(* (scheduler.js, _startSchedule()).                                       *)
THEOREM WaitsAreWhole == Spec => []RunsAreSpaced
<1>1. IndInv => RunsAreSpaced
  BY DEF IndInv
<1> QED BY <1>1, IndInvHolds, PTL

(* Whatever is cancelled, stopped and started while handlers are in flight, *)
(* a registered schedule of a running scheduler goes on.                   *)
THEOREM NoScheduleDies == Spec => []RunningSchedulesHaveAChain
<1>1. IndInv => RunningSchedulesHaveAChain
  <2> SUFFICES ASSUME IndInv, isRunning, NEW o \in Live PROVE Chains(o) >= 1
    BY DEF RunningSchedulesHaveAChain
  <2>1. o \in DOMAIN objects /\ HasChain(o)
    BY LiveFacts DEF IndInv, HandlesMeanChains
  <2>2. /\ IsFiniteSet(TimersOf(timers, o)) /\ Cardinality(TimersOf(timers, o)) \in Nat
        /\ inFlight[o] \in Nat
    BY <2>1, ChainsType DEF IndInv
  <2>3. Chains(o) = Cardinality(TimersOf(timers, o)) + inFlight[o]
    BY DEF Chains
  <2>4. (\E t \in timers : t.obj = o) => TimersOf(timers, o) # {}
    BY DEF TimersOf
  <2>5. TimersOf(timers, o) # {} => Cardinality(TimersOf(timers, o)) # 0
    BY <2>2, FS_EmptySet
  <2> QED BY <2>1, <2>2, <2>3, <2>4, <2>5 DEF HasChain
<1> QED BY <1>1, IndInvHolds, PTL

(* Schedules whose handlers settle at once, as those of services/index.js,  *)
(* have no second chain and, once the scheduler is stopped, none at all.    *)
THEOREM PromptChainsAreSingle == Spec => []PromptSchedulesHaveOneChain
<1>1. IndInv => PromptSchedulesHaveOneChain
  <2> SUFFICES ASSUME IndInv, NEW n \in Names \ Awaits
               PROVE  Cardinality({t \in timers : objects[t.obj].name = n})
                        = IF isRunning /\ n \in DOMAIN schedules THEN 1 ELSE 0
    BY DEF PromptSchedulesHaveOneChain
  <2> DEFINE chains == {t \in timers : objects[t.obj].name = n}
  <2>1. PromptChain(n)
    BY DEF IndInv, PromptChainsAreHeld
  <2>2. CASE isRunning /\ n \in DOMAIN schedules
    <3> DEFINE o == schedules[n]
    <3>1. o \in Live /\ o \in DOMAIN objects /\ objects[o].name = n
      BY <2>2 DEF IndInv, Live, Shape
    <3>2. HasChain(o) /\ inFlight[o] = 0
      BY <2>1, <2>2, <3>1 DEF IndInv, HandlesMeanChains, PromptChain
    <3>3. PICK t \in timers : t.obj = o
      BY <3>2 DEF HasChain
    <3>4. t \in chains /\ \A u \in chains : u = t
      BY <2>1, <3>1, <3>3 DEF PromptChain, IndInv, HandlesAreUnique
    <3>5. chains = {t}
      BY <3>4
    <3> QED BY <2>2, <3>5, FS_Singleton
  <2>3. CASE ~ (isRunning /\ n \in DOMAIN schedules)
    <3>1. chains = {}
      BY <2>1, <2>3 DEF PromptChain
    <3> QED BY <2>3, <3>1, FS_EmptySet
  <2> QED BY <2>2, <2>3
<1> QED BY <1>1, IndInvHolds, PTL
=============================================================================
