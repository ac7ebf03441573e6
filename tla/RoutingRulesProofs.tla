------------------------- MODULE RoutingRulesProofs -------------------------
(***************************************************************************)
(* Theorems about RoutingRules, for any number of changes of mode, of      *)
(* sources and of versions of the list. The types hold on every runtime;   *)
(* that set_mode has the last word holds on a runtime that does not        *)
(* interleave tasks between two await points. That the lists of a source   *)
(* are in order, and that RoutingMode is implemented, also needs times     *)
(* that tell the lists apart (TimesTell): where mirrors give the same      *)
(* times, a cached list passes for one of another source.                  *)
(***************************************************************************)
EXTENDS RoutingRules, TLAPS

\* No two sources, and no two versions of one source, have the same time.
TimesTell ==
  \A s, m \in Sources, v, w \in Versions :
    LastModified[s][v] = LastModified[m][w] => s = m /\ v = w

\* Where a task holds the list its last load returned.
Holding == {"loaded", "checked", "reloaded", "rechecked"}

\* A load that worked returned a list.
LoadedInv == \A g \in Generations : pc[g] \in Holding => loaded[g] \in Lists

TypeInv == TypeOK /\ LoadedInv

LEMMA Bounds ==
  /\ MaxChanges \in Nat /\ MaxVersion \in Nat /\ 1 \in Versions
  /\ 0 \in Generations
  BY ConstantsAssumption DEF Generations, Versions

-----------------------------------------------------------------------------
(* The kinds of steps a task takes.                                        *)

\* A task moves on: nobody else moves.
LEMMA Moves ==
  ASSUME pc \in [Generations -> Places], NEW g \in Generations, NEW p \in Places, Go(g, p)
  PROVE  /\ pc' \in [Generations -> Places] /\ pc'[g] = p
         /\ \A h \in Generations \ {g} : pc'[h] = pc[h]
  BY DEF Go

\* It does nothing but look at the generation, or fail,
Looks(g) ==
  /\ UNCHANGED <<rules, writer, loaded>>
  /\ \E p \in Places \ {"starting", "none"} :
       /\ Go(g, p)
       /\ p \in Holding => pc[g] \in Holding
       /\ p \in MidStretch => Current(g) /\ TurnOfTask(g)

\* or a load of it returns,
Loads(g) ==
  /\ UNCHANGED <<rules, writer>>
  /\ \E list \in Answers : loaded' = [loaded EXCEPT ![g] = list]
  /\ \E p \in {"loaded", "reloaded"} : Go(g, p)

\* or it writes the rules.
Writes(g) ==
  /\ writer' = g /\ pc[g] \in MidStretch
  /\ \/ rules' = Domains(loaded[g]) /\ pc[g] \in Holding
     \/ rules' = DirectFallback
  /\ loaded' = loaded \/ loaded' = [loaded EXCEPT ![g] = NoList]
  /\ \E p \in {"sleeping", "ended"} : Go(g, p)

LEMMA Kinds ==
  ASSUME NEW g \in Generations, Task(g)
  PROVE  /\ UNCHANGED <<generation, updater, published, asked>>
         /\ pc[g] \notin {"none", "starting"}
         /\ Looks(g) \/ Loads(g) \/ Writes(g)
  <1>1. CASE Load(g)
    BY <1>1 DEF Load, Looks, Loads, Places, Holding, MidStretch
  <1>2. CASE ReloadOk(g) \/ ReloadFails(g)
    BY <1>2 DEF ReloadOk, ReloadFails, Looks, Loads, Places, Holding, MidStretch
  <1>3. CASE SwitchCheck(g)
    BY <1>3 DEF SwitchCheck, Looks, Places, Holding, MidStretch
  <1>4. CASE RefreshDue(g) \/ RefreshCheck(g)
    BY <1>4 DEF RefreshDue, RefreshCheck, Looks, Places, Holding, MidStretch
  <1>5. CASE SwitchWrite(g) \/ SwitchFallback(g) \/ RefreshWrite(g)
    BY <1>5 DEF SwitchWrite, SwitchFallback, RefreshWrite, Writes, Holding, MidStretch
  <1> QED
    BY <1>1, <1>2, <1>3, <1>4, <1>5 DEF Task, Runs

-----------------------------------------------------------------------------
(* Types.                                                                  *)

LEMMA RulesTyped ==
  ASSUME NEW list \in Lists
  PROVE  Domains(list) \in {GlobalProxy, DirectFallback} \cup {Domains(l) : l \in Lists}
  OBVIOUS

LEMMA TypeInit == Init => TypeInv
  <1> SUFFICES ASSUME Init PROVE TypeInv
    OBVIOUS
  <1>1. rules \in {GlobalProxy, DirectFallback}
    BY DEF Init
  <1>2. pc \in [Generations -> {"starting", "none"}]
    BY DEF Init
  <1>3. published \in [Sources -> Versions] /\ loaded \in [Generations -> Lists \cup {NoList}]
    BY Bounds DEF Init
  <1>4. TypeOK
    BY <1>1, <1>2, <1>3, Bounds DEF Init, TypeOK, Places
  <1>5. LoadedInv
    BY <1>2 DEF LoadedInv, Holding
  <1> QED
    BY <1>4, <1>5 DEF TypeInv

LEMMA TypeTask ==
  ASSUME TypeInv, NEW g \in Generations, Task(g)
  PROVE  TypeInv'
  <1> USE DEF TypeInv
  <1>1. UNCHANGED <<generation, updater, published, asked>>
    BY Kinds
  <1>2. CASE Looks(g)
    <2>1. PICK p \in Places : Go(g, p) /\ (p \in Holding => pc[g] \in Holding)
      BY <1>2 DEF Looks
    <2>2. /\ pc' \in [Generations -> Places] /\ pc'[g] = p
          /\ \A h \in Generations \ {g} : pc'[h] = pc[h]
      BY <2>1, Moves DEF TypeOK
    <2> QED
      BY <1>1, <1>2, <2>1, <2>2 DEF Looks, TypeOK, LoadedInv
  <1>3. CASE Loads(g)
    <2>1. PICK list \in Lists : loaded' = [loaded EXCEPT ![g] = list]
      BY <1>3 DEF Loads, Answers
    <2>2. /\ pc' \in [Generations -> Places]
          /\ \A h \in Generations \ {g} : pc'[h] = pc[h]
      BY <1>3, Moves DEF Loads, TypeOK, Places
    <2>3. /\ loaded' \in [Generations -> Lists \cup {NoList}] /\ loaded'[g] = list
          /\ \A h \in Generations \ {g} : loaded'[h] = loaded[h]
      BY <2>1 DEF TypeOK
    <2> QED
      BY <1>1, <1>3, <2>1, <2>2, <2>3 DEF Loads, TypeOK, LoadedInv
  <1>4. CASE Writes(g)
    <2>1. /\ pc' \in [Generations -> Places] /\ pc'[g] \notin Holding
          /\ \A h \in Generations \ {g} : pc'[h] = pc[h]
      BY <1>4, Moves DEF Writes, TypeOK, Places, Holding
    <2>2. rules' \in {GlobalProxy, DirectFallback} \cup {Domains(l) : l \in Lists}
      BY <1>4, RulesTyped DEF Writes, LoadedInv
    <2>3. /\ loaded' \in [Generations -> Lists \cup {NoList}]
          /\ \A h \in Generations \ {g} : loaded'[h] = loaded[h]
      BY <1>4 DEF Writes, TypeOK
    <2>4. TypeOK'
      BY <1>1, <1>4, <2>1, <2>2, <2>3 DEF Writes, TypeOK
    <2>5. LoadedInv'
      BY <2>1, <2>3 DEF LoadedInv
    <2> QED
      BY <2>4, <2>5
  <1> QED
    BY <1>2, <1>3, <1>4, Kinds

LEMMA TypeStep == TypeInv /\ [Next]_vars => TypeInv'
  <1> SUFFICES ASSUME TypeInv, [Next]_vars PROVE TypeInv'
    OBVIOUS
  <1> USE DEF TypeInv
  <1>1. CASE UNCHANGED vars
    BY <1>1 DEF vars, TypeOK, LoadedInv
  <1>2. CASE StartLoaded \/ StartFailed
    <2>1. /\ pc' \in [Generations -> Places] /\ pc'[0] = "sleeping"
          /\ \A h \in Generations \ {0} : pc'[h] = pc[h]
      BY <1>2, Moves, Bounds DEF StartLoaded, StartFailed, TypeOK, Places
    <2>2. rules' \in {GlobalProxy, DirectFallback} \cup {Domains(l) : l \in Lists}
      BY <1>2, RulesTyped DEF StartLoaded, StartFailed, Answers
    <2>3. UNCHANGED <<generation, updater, loaded, published, asked, writer>>
      BY <1>2 DEF StartLoaded, StartFailed
    <2>4. TypeOK'
      BY <2>1, <2>2, <2>3 DEF TypeOK
    <2>5. LoadedInv'
      BY <2>1, <2>3 DEF LoadedInv, Holding
    <2> QED
      BY <2>4, <2>5
  <1>4. CASE SetGlobal
    BY <1>4, Bounds DEF SetGlobal, CanChange, TypeOK, LoadedInv, Generations
  <1>5. CASE WriteGlobal
    BY <1>5 DEF WriteGlobal, TypeOK, LoadedInv
  <1>6. CASE SetAuto
    <2>1. generation + 1 \in Generations
      BY <1>6, Bounds DEF SetAuto, CanChange, TypeOK, Generations
    <2>2. /\ pc' \in [Generations -> Places] /\ pc'[generation + 1] = "loading"
          /\ \A h \in Generations \ {generation + 1} : pc'[h] = pc[h]
      BY <1>6, <2>1, Moves DEF SetAuto, TypeOK, Places
    <2>3. TypeOK'
      BY <1>6, <2>1, <2>2 DEF SetAuto, TypeOK
    <2>4. LoadedInv'
      BY <1>6, <2>2 DEF SetAuto, LoadedInv, Holding
    <2> QED
      BY <2>3, <2>4
  <1>7. CASE \E g \in Generations : Task(g)
    BY <1>7, TypeTask
  <1>8. CASE \E s \in Sources : Publish(s)
    <2>1. PICK s \in Sources : Publish(s)
      BY <1>8
    <2>2. published[s] + 1 \in Versions
      BY <2>1, Bounds DEF Publish, TypeOK, Versions
    <2>3. published' \in [Sources -> Versions]
      BY <2>1, <2>2 DEF Publish, TypeOK
    <2> QED
      BY <2>1, <2>3 DEF Publish, TypeOK, LoadedInv
  <1> QED
    BY <1>1, <1>2, <1>4, <1>5, <1>6, <1>7, <1>8 DEF Next

LEMMA TypeInvariant == Spec => []TypeInv
  BY TypeInit, TypeStep, PTL DEF Spec

\* The state keeps its types; in particular the active domain rules are always
\* those of a list, on every runtime.
THEOREM TypeCorrect == Spec => []TypeOK
  <1>1. TypeInv => TypeOK
    BY DEF TypeInv
  <1> QED
    BY <1>1, TypeInvariant, PTL

-----------------------------------------------------------------------------
(* The last change of mode has the last word, unless threads interleave.   *)

\* Nothing has happened yet while RoutingRules::load runs.
Starting ==
  pc[0] = "starting" =>
    generation = 0 /\ updater = "idle" /\ asked = "auto" /\ rules = DirectFallback

\* A task that has looked at the generation is of the current one, and no
\* set_mode(Global) is half done.
Undisturbed ==
  \A g \in Generations : pc[g] \in MidStretch => g = generation /\ updater = "idle"

\* A generation that is not reached, or that a switch to Global took, has no task.
NoTask ==
  /\ \A g \in Generations : g > generation => pc[g] = "none"
  /\ asked = "global" => pc[generation] = "none"

\* The rules were written for a mode that was asked for, and set_mode(Global) is
\* half done only while global is the mode asked for last.
Asked ==
  /\ writer <= generation
  /\ updater = "global" => asked = "global"

\* GlobalStays is inductive only with the others: it is the task that has looked
\* at the generation, or could, that may break it.
OrderInv == TypeInv /\ Starting /\ Undisturbed /\ NoTask /\ Asked /\ GlobalStays

LEMMA Modes ==
  /\ GlobalProxy.mode = "global" /\ DirectFallback.mode = "direct"
  /\ \A list : Domains(list).mode = "domains" /\ Domains(list).list = list
  BY DEF GlobalProxy, DirectFallback, Domains

LEMMA OrderInit == Init => OrderInv
  <1> SUFFICES ASSUME Init PROVE OrderInv
    OBVIOUS
  <1>1. pc \in [Generations -> {"starting", "none"}] /\ generation = 0 /\ 0 \in Generations
    BY Bounds DEF Init
  <1>2. TypeInv
    BY TypeInit
  <1>3. Starting /\ NoTask
    BY <1>1 DEF Init, Starting, NoTask, Generations
  <1>4. Undisturbed
    BY <1>1 DEF Undisturbed, MidStretch
  <1>5. Asked /\ GlobalStays
    BY Modes DEF Init, Asked, GlobalStays
  <1> QED
    BY <1>2, <1>3, <1>4, <1>5 DEF OrderInv

\* A task writes the rules only while its generation is the current one.
LEMMA WritesCurrent ==
  ASSUME OrderInv, NEW g \in Generations, Writes(g)
  PROVE  /\ g = generation /\ updater = "idle" /\ asked = "auto"
         /\ pc[0] # "starting"
  BY DEF OrderInv, Writes, Undisturbed, NoTask, MidStretch, Starting, TypeInv, TypeOK

LEMMA OrderTask ==
  ASSUME ~Preemptive, OrderInv, NEW g \in Generations, Task(g)
  PROVE  OrderInv'
  <1> USE DEF OrderInv
  <1>0. TypeInv'
    BY TypeTask
  <1>1. /\ UNCHANGED <<generation, updater, published, asked>>
        /\ pc[g] \notin {"none", "starting"}
    BY Kinds
  <1>2. \E p \in Places \ {"starting"} : Go(g, p)
    BY Kinds DEF Looks, Loads, Writes, Places
  <1>3. /\ \A h \in Generations \ {g} : pc'[h] = pc[h]
        /\ pc'[g] # "starting"
        /\ generation \in Generations /\ writer \in Generations /\ generation \in Nat
        /\ g \in Nat
    BY <1>2, Moves DEF TypeInv, TypeOK, Generations
  <1>4. NoTask'
    BY <1>1, <1>3 DEF NoTask
  <1>5. Undisturbed'
    <2>1. CASE pc'[g] \in MidStretch
      <3>1. Looks(g)
        BY <2>1, Kinds, Moves DEF Loads, Writes, MidStretch, Places, TypeInv, TypeOK
      <3>2. generation = g /\ TurnOfTask(g)
        BY <2>1, <3>1, Moves DEF Looks, Current, TypeInv, TypeOK
      <3>3. updater = "idle" /\ \A h \in Generations \ {g} : pc[h] \notin MidStretch
        BY <3>2 DEF TurnOfTask
      <3> QED
        BY <1>1, <1>3, <3>2, <3>3 DEF Undisturbed
    <2>2. CASE pc'[g] \notin MidStretch
      BY <1>1, <1>3, <2>2 DEF Undisturbed
    <2> QED
      BY <2>1, <2>2
  <1>6. CASE rules' = rules /\ writer' = writer
    <2>1. Starting' /\ GlobalStays' /\ Asked'
      BY <1>1, <1>3, <1>6, Bounds DEF Starting, GlobalStays, Asked
    <2> QED
      BY <1>0, <1>4, <1>5, <2>1
  <1>7. CASE Writes(g)
    <2>1. g = generation /\ asked = "auto" /\ pc[0] # "starting" /\ writer' = g
      BY <1>7, WritesCurrent DEF Writes
    <2>2. Starting' /\ GlobalStays' /\ Asked'
      BY <1>1, <1>3, <2>1, Bounds DEF Starting, GlobalStays, Asked
    <2> QED
      BY <1>0, <1>4, <1>5, <2>2
  <1> QED
    BY <1>6, <1>7, Kinds DEF Looks, Loads

LEMMA OrderStep ==
  ASSUME ~Preemptive
  PROVE  OrderInv /\ [Next]_vars => OrderInv'
  <1> SUFFICES ASSUME OrderInv, [Next]_vars PROVE OrderInv'
    OBVIOUS
  <1> USE DEF OrderInv
  <1>0. TypeInv'
    BY TypeStep
  <1>1. /\ generation \in Generations /\ generation \in Nat /\ writer \in Nat
        /\ 0 \in Generations
    BY Bounds DEF TypeInv, TypeOK, Generations
  <1>2. CASE UNCHANGED vars
    BY <1>0, <1>2 DEF vars, Starting, Undisturbed, NoTask, Asked, GlobalStays
  <1>3. CASE StartLoaded \/ StartFailed
    <2>1. /\ generation = 0 /\ updater = "idle" /\ asked = "auto" /\ writer = 0
          /\ UNCHANGED <<generation, updater, asked, writer>>
      BY <1>1, <1>3 DEF StartLoaded, StartFailed, Starting, Asked, TypeInv, TypeOK, Generations
    <2>2. pc'[0] = "sleeping" /\ \A h \in Generations \ {0} : pc'[h] = pc[h]
      BY <1>1, <1>3, Moves DEF StartLoaded, StartFailed, TypeInv, TypeOK, Places
    <2>3. Starting' /\ GlobalStays' /\ Asked'
      BY <2>1, <2>2 DEF Starting, GlobalStays, Asked
    <2>4. Undisturbed' /\ NoTask'
      BY <2>1, <2>2 DEF Undisturbed, NoTask, MidStretch, Generations
    <2> QED
      BY <1>0, <2>3, <2>4
  <1>4. CASE SetGlobal
    <2>1. /\ pc[0] # "starting" /\ \A h \in Generations : pc[h] \notin MidStretch
          /\ generation' = generation + 1 /\ updater' = "global" /\ asked' = "global"
          /\ pc' = pc /\ rules' = rules /\ writer' = writer
      BY <1>4 DEF SetGlobal, CanChange, TurnOfUpdater
    <2>2. Starting' /\ Undisturbed' /\ GlobalStays'
      BY <2>1 DEF Starting, Undisturbed, GlobalStays
    <2>3. generation' \in Generations
      BY <1>0 DEF TypeInv, TypeOK
    <2>4. NoTask' /\ Asked'
      BY <1>1, <2>1, <2>3 DEF NoTask, Asked, Generations
    <2> QED
      BY <1>0, <2>2, <2>4
  <1>5. CASE WriteGlobal
    <2>1. /\ rules' = GlobalProxy /\ writer' = generation /\ updater = "global"
          /\ updater' = "idle" /\ \A h \in Generations : pc[h] \notin MidStretch
          /\ UNCHANGED <<generation, pc, asked>>
      BY <1>5 DEF WriteGlobal, TurnOfUpdater
    <2>2. pc[0] # "starting"
      BY <2>1 DEF Starting
    <2> QED
      BY <1>0, <1>1, <2>1, <2>2, Modes
      DEF Starting, Undisturbed, NoTask, Asked, GlobalStays
  <1>6. CASE SetAuto
    <2>1. /\ pc[0] # "starting" /\ \A h \in Generations : pc[h] \notin MidStretch
          /\ generation' = generation + 1 /\ Go(generation + 1, "loading")
          /\ asked' = "auto" /\ updater = "idle"
          /\ UNCHANGED <<rules, updater, writer>>
      BY <1>6 DEF SetAuto, CanChange, TurnOfUpdater
    <2>2. generation + 1 \in Generations
      BY <1>0, <2>1 DEF TypeInv, TypeOK
    <2>3. /\ pc'[generation + 1] = "loading"
          /\ \A h \in Generations \ {generation + 1} : pc'[h] = pc[h]
      BY <2>1, <2>2, Moves DEF TypeInv, TypeOK, Places
    <2>4. Starting' /\ Undisturbed' /\ GlobalStays' /\ Asked'
      BY <1>1, <2>1, <2>3 DEF Starting, Undisturbed, GlobalStays, Asked, MidStretch
    <2>5. NoTask'
      BY <1>1, <2>1, <2>2, <2>3 DEF NoTask, Generations
    <2> QED
      BY <1>0, <2>4, <2>5
  <1>7. CASE \E g \in Generations : Task(g)
    BY <1>7, OrderTask
  <1>8. CASE \E s \in Sources : Publish(s)
    BY <1>0, <1>8 DEF Publish, Starting, Undisturbed, NoTask, Asked, GlobalStays
  <1> QED
    BY <1>2, <1>3, <1>4, <1>5, <1>6, <1>7, <1>8 DEF Next

\* On a runtime that does not interleave, set_mode(Global) has the last word: no
\* load or refresh of an earlier mode brings other rules back.
THEOREM GlobalHasLastWord ==
  ASSUME ~Preemptive
  PROVE  Spec => []GlobalStays
  <1>1. OrderInv => GlobalStays
    BY DEF OrderInv
  <1>2. OrderInv /\ [Next]_vars => OrderInv'
    BY OrderStep
  <1> QED
    BY <1>1, <1>2, OrderInit, PTL DEF Spec

-----------------------------------------------------------------------------
(* The lists of a source are in order, if times tell the lists apart.      *)

\* Whatever source answers, and whatever the cache holds, what a load returns is
\* what the source it is said to be from serves.
LEMMA AnswersServed ==
  ASSUME ~Preemptive, TimesTell, TypeInv, NEW list \in Answers
  PROVE  list \in Lists /\ list.version = published[list.source]
  <1>1. /\ list \in Lists /\ list.source \in Sources /\ list.version \in Versions
        /\ published[list.source] \in Versions
    BY DEF Answers, Lists, TypeInv, TypeOK
  <1>2. CASE list.version \in Kept(LastModified[list.source][published[list.source]])
    <2>1. PICK m \in Sources, u \in 1 .. list.version :
             /\ list.version <= published[m]
             /\ LastModified[m][u] = LastModified[list.source][published[list.source]]
      BY <1>2 DEF Kept
    <2>2. u \in Versions
      BY <1>1, <2>1, Bounds DEF Versions
    <2>3. ASSUME NEW s \in Sources, NEW v \in Versions,
                 LastModified[m][u] = LastModified[s][v]
          PROVE  m = s /\ u = v
      BY <2>2, <2>3, Zenon DEF TimesTell
    <2>4. m = list.source /\ u = published[list.source]
      BY <1>1, <2>1, <2>3
    <2> QED
      BY <1>1, <2>1, <2>4 DEF Versions
  <1> QED
    BY <1>1, <1>2 DEF Answers

\* No list is newer than what its source serves.
Served(list) == list.version <= published[list.source]

NotAhead ==
  /\ \A g \in Generations : pc[g] \in Holding => Served(loaded[g])
  /\ rules.mode = "domains" => Served(rules.list)

\* A list loaded for the mode of the active rules or for a later one may follow
\* the active list.
AheadOfNone ==
  rules.mode = "domains" =>
    \A g \in Generations :
      g >= writer /\ pc[g] \in Holding => MayFollow(loaded[g], rules.list)

AgeInv == NotAhead /\ AheadOfNone

\* What the order of lists and the refinement rest on beyond OrderInv.
PromiseInv == OrderInv /\ AgeInv

LEMMA ListTypes ==
  ASSUME TypeInv
  PROVE  /\ published \in [Sources -> Nat]
         /\ rules.mode = "domains" =>
              rules.list \in Lists /\ rules = Domains(rules.list)
         /\ \A list \in Lists : list.source \in Sources /\ list.version \in Nat
  BY Modes DEF TypeInv, TypeOK, Lists, Versions

LEMMA PromiseInit == Init => PromiseInv
  <1> SUFFICES ASSUME Init PROVE PromiseInv
    OBVIOUS
  <1>1. OrderInv
    BY OrderInit
  <1>2. \A g \in Generations : pc[g] \notin Holding
    BY DEF Init, Holding
  <1>3. rules.mode # "domains"
    BY Modes DEF Init
  <1> QED
    BY <1>1, <1>2, <1>3 DEF PromiseInv, AgeInv, NotAhead, AheadOfNone

LEMMA AgeTask ==
  ASSUME ~Preemptive, TimesTell, PromiseInv, NEW g \in Generations, Task(g)
  PROVE  AgeInv'
  <1> USE DEF PromiseInv, OrderInv, AgeInv
  <1>0. TypeInv
    OBVIOUS
  <1>1. UNCHANGED <<generation, published>>
    BY Kinds
  <1>2. CASE Looks(g)
    <2>1. PICK p \in Places : Go(g, p) /\ (p \in Holding => pc[g] \in Holding)
      BY <1>2 DEF Looks
    <2>2. pc'[g] = p /\ \A h \in Generations \ {g} : pc'[h] = pc[h]
      BY <2>1, Moves DEF TypeInv, TypeOK
    <2>3. \A h \in Generations : pc'[h] \in Holding => pc[h] \in Holding
      BY <2>1, <2>2
    <2>4. rules' = rules /\ writer' = writer /\ loaded' = loaded
      BY <1>2 DEF Looks
    <2> QED
      BY <1>1, <2>3, <2>4 DEF NotAhead, AheadOfNone, Served, MayFollow
  <1>3. CASE Loads(g)
    <2>1. PICK list \in Answers : loaded' = [loaded EXCEPT ![g] = list]
      BY <1>3 DEF Loads
    <2>2. \A h \in Generations \ {g} : pc'[h] = pc[h]
      BY <1>3, Moves DEF Loads, TypeInv, TypeOK, Places
    <2>3. loaded'[g] = list /\ \A h \in Generations \ {g} : loaded'[h] = loaded[h]
      BY <2>1 DEF TypeInv, TypeOK
    <2>4. list \in Lists /\ list.version = published[list.source]
      BY <1>0, <2>1, AnswersServed
    <2>5. rules' = rules /\ writer' = writer
      BY <1>3 DEF Loads
    <2>6. Served(list) /\ (rules.mode = "domains" => MayFollow(list, rules.list))
      BY <1>0, <2>4, ListTypes DEF Served, MayFollow, NotAhead
    <2> QED
      BY <1>1, <2>2, <2>3, <2>5, <2>6 DEF NotAhead, AheadOfNone, Served, MayFollow
  <1>4. CASE Writes(g)
    <2>1. /\ pc'[g] \notin Holding
          /\ \A h \in Generations \ {g} : pc'[h] = pc[h]
      BY <1>4, Moves DEF Writes, TypeInv, TypeOK, Places, Holding
    <2>2. \A h \in Generations \ {g} : loaded'[h] = loaded[h]
      BY <1>4 DEF Writes, TypeInv, TypeOK
    <2>3. g = generation /\ writer' = g /\ g \in Nat
      BY <1>4, WritesCurrent DEF Writes, Generations
    <2>4. \A h \in Generations : h >= writer' => pc'[h] \notin Holding
      BY <2>1, <2>3 DEF NoTask, Holding, Generations
    <2>5. rules'.mode = "domains" => Served(rules'.list)
      BY <1>4, Modes DEF Writes, NotAhead
    <2>6. NotAhead'
      BY <1>1, <2>1, <2>2, <2>5 DEF NotAhead, Served
    <2> QED
      BY <2>4, <2>6 DEF AheadOfNone
  <1> QED
    BY <1>2, <1>3, <1>4, Kinds

LEMMA PromiseStep ==
  ASSUME ~Preemptive, TimesTell
  PROVE  PromiseInv /\ [Next]_vars => PromiseInv'
  <1> SUFFICES ASSUME PromiseInv, [Next]_vars PROVE PromiseInv'
    OBVIOUS
  <1>0. OrderInv'
    BY OrderStep DEF PromiseInv
  <1> USE DEF PromiseInv, OrderInv, AgeInv
  <1>1. CASE UNCHANGED vars
    BY <1>0, <1>1 DEF vars, NotAhead, AheadOfNone, Served, MayFollow
  <1>2. CASE StartLoaded \/ StartFailed
    <2>1. generation = 0 /\ 0 \in Generations /\ UNCHANGED <<loaded, published>>
      BY <1>2, Bounds DEF StartLoaded, StartFailed, Starting
    <2>2. pc'[0] = "sleeping" /\ \A h \in Generations \ {0} : pc'[h] = pc[h]
      BY <1>2, <2>1, Moves DEF StartLoaded, StartFailed, TypeInv, TypeOK, Places
    <2>3. \A h \in Generations : pc'[h] \notin Holding
      BY <2>1, <2>2 DEF NoTask, Holding, Generations
    <2>4. rules'.mode = "domains" => Served(rules'.list)
      <3>1. CASE StartFailed
        BY <3>1, Modes DEF StartFailed
      <3>2. CASE StartLoaded
        <4>1. PICK list \in Answers : rules' = Domains(list)
          BY <3>2 DEF StartLoaded
        <4>2. list \in Lists /\ list.version = published[list.source]
          BY <4>1, AnswersServed
        <4> QED
          BY <4>1, <4>2, Modes, ListTypes DEF Served
      <3> QED
        BY <1>2, <3>1, <3>2
    <2> QED
      BY <1>0, <2>1, <2>3, <2>4 DEF NotAhead, AheadOfNone, Served
  <1>3. CASE SetGlobal
    BY <1>0, <1>3 DEF SetGlobal, NotAhead, AheadOfNone, Served, MayFollow
  <1>4. CASE WriteGlobal
    BY <1>0, <1>4, Modes DEF WriteGlobal, NotAhead, AheadOfNone, Served
  <1>5. CASE SetAuto
    <2>1. generation + 1 \in Generations
      BY <1>5, Bounds DEF SetAuto, CanChange, TypeInv, TypeOK, Generations
    <2>2. /\ pc'[generation + 1] \notin Holding
          /\ \A h \in Generations \ {generation + 1} : pc'[h] = pc[h]
      BY <1>5, <2>1, Moves DEF SetAuto, TypeInv, TypeOK, Places, Holding
    <2> QED
      BY <1>0, <1>5, <2>2 DEF SetAuto, CanChange, NotAhead, AheadOfNone, Served, MayFollow
  <1>6. CASE \E g \in Generations : Task(g)
    BY <1>0, <1>6, AgeTask
  <1>7. CASE \E s \in Sources : Publish(s)
    <2>1. PICK s \in Sources : Publish(s)
      BY <1>7
    <2>2. \A m \in Sources : published'[m] >= published[m]
      BY <2>1, ListTypes DEF Publish
    <2>3. \A list \in Lists : Served(list) => Served(list)'
      <3>1. published' \in [Sources -> Nat]
        BY <1>0, ListTypes, TypeStep DEF TypeInv, TypeOK, Versions
      <3> QED
        BY <2>2, <3>1, ListTypes DEF Served
    <2>4. UNCHANGED <<rules, pc, loaded, writer>>
      BY <2>1 DEF Publish
    <2>5. NotAhead'
      BY <2>3, <2>4, ListTypes DEF NotAhead, Served, TypeInv, LoadedInv
    <2> QED
      BY <1>0, <2>4, <2>5 DEF AheadOfNone, MayFollow
  <1> QED
    BY <1>1, <1>2, <1>3, <1>4, <1>5, <1>6, <1>7 DEF Next

\* On a runtime that does not interleave, and with times that tell the lists
\* apart, the rules are only replaced for the mode they were written for or a
\* later one, and a task never goes back to an older list of the same source,
\* whichever of the sources answers each load and whatever the cache holds.
THEOREM InOrder ==
  ASSUME ~Preemptive, TimesTell
  PROVE  Spec => RulesInOrder
  <1>1. PromiseInv /\ [Next]_vars => PromiseInv'
    BY PromiseStep
  <1>2. ASSUME PromiseInv, [Next]_vars
        PROVE  [\/ writer' > writer
                \/ /\ writer' = writer
                   /\ (rules.mode = "domains" /\ rules'.mode = "domains" =>
                         MayFollow(rules'.list, rules.list))]_vars
    <2> USE DEF PromiseInv, OrderInv, AgeInv
    <2>1. writer \in Nat /\ generation \in Nat /\ writer <= generation
      BY <1>2 DEF TypeInv, TypeOK, Generations, Asked
    <2>2. rules.mode = "domains" => rules.list.version \in Nat
      BY <1>2, ListTypes
    <2>3. CASE rules' = rules /\ writer' = writer
      BY <2>2, <2>3 DEF MayFollow
    <2>4. CASE WriteGlobal
      BY <2>1, <2>4, Modes DEF WriteGlobal
    <2>5. CASE StartLoaded \/ StartFailed
      BY <1>2, <2>1, <2>5, Modes DEF StartLoaded, StartFailed, Starting
    <2>6. ASSUME NEW g \in Generations, Writes(g)
          PROVE  \/ writer' > writer
                 \/ /\ writer' = writer
                    /\ (rules.mode = "domains" /\ rules'.mode = "domains" =>
                          MayFollow(rules'.list, rules.list))
      <3>1. g = generation /\ writer' = g
        BY <1>2, <2>6, WritesCurrent DEF Writes
      <3>2. CASE writer < g
        BY <2>1, <3>1, <3>2
      <3>3. CASE writer = g
        <4>1. rules.mode = "domains" /\ pc[g] \in Holding => MayFollow(loaded[g], rules.list)
          BY <1>2, <2>1, <3>1, <3>3 DEF AheadOfNone
        <4> QED
          BY <2>6, <3>1, <3>3, <4>1, Modes DEF Writes
      <3> QED
        BY <2>1, <3>1, <3>2, <3>3
    <2>7. ASSUME NEW g \in Generations, Task(g)
          PROVE  (rules' = rules /\ writer' = writer) \/ Writes(g)
      BY <2>7, Kinds DEF Looks, Loads
    <2>8. CASE UNCHANGED vars \/ SetGlobal \/ SetAuto \/ \E s \in Sources : Publish(s)
      BY <2>3, <2>8 DEF vars, SetGlobal, SetAuto, Publish
    <2> QED
      BY <1>2, <2>3, <2>4, <2>5, <2>6, <2>7, <2>8 DEF Next
  <1> QED
    BY <1>1, <1>2, PromiseInit, PTL DEF Spec, RulesInOrder

-----------------------------------------------------------------------------
(* RoutingMode is implemented.                                             *)

LEMMA SameRules ==
  /\ Promise!Global = GlobalProxy /\ Promise!Direct = DirectFallback
  /\ \A list \in Lists : Promise!ListOf(list.source, list.version) = Domains(list)
  <1>1. \A list \in Lists : list = [source |-> list.source, version |-> list.version]
    BY DEF Lists
  <1> QED
    BY <1>1 DEF Promise!Global, Promise!Direct, Promise!NoList, Promise!ListOf,
                GlobalProxy, DirectFallback, NoList, Domains

\* A list that its source has served, and that may follow the active one, does.
LEMMA Follows ==
  ASSUME TypeInv, asked = "auto", NEW list \in Lists, Served(list),
         rules.mode = "domains" => MayFollow(list, rules.list),
         rules' = Domains(list), UNCHANGED <<asked, published>>
  PROVE  Promise!Next
  <1>1. list.source \in Sources /\ list.version \in 1 .. published[list.source]
    BY DEF Lists, Versions, Served, TypeInv, TypeOK
  <1>2. rules.mode = "domains" /\ rules.list.source = list.source =>
          list.version >= rules.list.version
    BY DEF MayFollow
  <1>3. Promise!Follow(list.source, list.version)
    BY <1>2, SameRules DEF Promise!Follow
  <1> QED
    BY <1>1, <1>3 DEF Promise!Next

LEMMA TaskRefines ==
  ASSUME PromiseInv, NEW g \in Generations, Task(g)
  PROVE  [Promise!Next]_Promise!vars
  <1> USE DEF PromiseInv, OrderInv, AgeInv
  <1>1. UNCHANGED <<asked, published>>
    BY Kinds
  <1>2. CASE rules' = rules
    BY <1>1, <1>2 DEF Promise!vars
  <1>3. CASE Writes(g)
    <2>1. g = generation /\ asked = "auto"
      BY <1>3, WritesCurrent
    <2>2. CASE rules' = DirectFallback
      BY <1>1, <2>1, <2>2, SameRules DEF Promise!Next, Promise!GoDirect
    <2>3. CASE rules' = Domains(loaded[g]) /\ pc[g] \in Holding
      <3>1. loaded[g] \in Lists /\ Served(loaded[g])
        BY <2>3 DEF TypeInv, LoadedInv, NotAhead
      <3>2. g >= writer
        BY <2>1 DEF Asked, TypeInv, TypeOK, Generations
      <3>3. rules.mode = "domains" => MayFollow(loaded[g], rules.list)
        BY <2>3, <3>2 DEF AheadOfNone
      <3> QED
        BY <1>1, <2>1, <2>3, <3>1, <3>3, Follows
    <2> QED
      BY <1>3, <2>2, <2>3 DEF Writes
  <1> QED
    BY <1>2, <1>3, Kinds DEF Looks, Loads

LEMMA StepRefines ==
  ASSUME ~Preemptive, TimesTell
  PROVE  PromiseInv /\ [Next]_vars => [Promise!Next]_Promise!vars
  <1> SUFFICES ASSUME PromiseInv, [Next]_vars PROVE [Promise!Next]_Promise!vars
    OBVIOUS
  <1> USE DEF PromiseInv, OrderInv
  <1>1. CASE UNCHANGED vars
    BY <1>1 DEF vars, Promise!vars
  <1>2. CASE StartLoaded
    <2>1. PICK list \in Answers : rules' = Domains(list)
      BY <1>2 DEF StartLoaded
    <2>2. list \in Lists /\ Served(list)
      BY <2>1, AnswersServed, ListTypes DEF Served
    <2>3. asked = "auto" /\ rules.mode # "domains" /\ UNCHANGED <<asked, published>>
      BY <1>2, Modes DEF StartLoaded, Starting
    <2> QED
      BY <2>1, <2>2, <2>3, Follows
  <1>3. CASE StartFailed
    BY <1>3, SameRules DEF StartFailed, Starting, Promise!Next, Promise!GoDirect
  <1>4. CASE SetGlobal
    BY <1>4 DEF SetGlobal, Promise!Next, Promise!Ask
  <1>5. CASE WriteGlobal
    BY <1>5, SameRules DEF WriteGlobal, Asked, Promise!Next, Promise!ProxyAll
  <1>6. CASE SetAuto
    BY <1>6 DEF SetAuto, Promise!Next, Promise!Ask
  <1>7. CASE \E g \in Generations : Task(g)
    BY <1>7, TaskRefines
  <1>8. CASE \E s \in Sources : Publish(s)
    BY <1>8 DEF Publish, Promise!Next, Promise!Publish
  <1> QED
    BY <1>1, <1>2, <1>3, <1>4, <1>5, <1>6, <1>7, <1>8 DEF Next

\* On a runtime that does not interleave, and with times that tell the lists
\* apart, the tasks of routing_rules.rs implement RoutingMode: the active rules
\* change only towards the mode asked for last, to a list that its source has
\* served, and never to an older list of the source of the active one, whatever
\* modes were asked for in between.
THEOREM Implements ==
  ASSUME ~Preemptive, TimesTell
  PROVE  Spec => ImplementsPromise
  <1>1. Init => Promise!Init
    BY SameRules DEF Init, Promise!Init
  <1>2. PromiseInv /\ [Next]_vars => PromiseInv'
    BY PromiseStep
  <1>3. PromiseInv /\ [Next]_vars => [Promise!Next]_Promise!vars
    BY StepRefines
  <1> QED
    BY <1>1, <1>2, <1>3, PromiseInit, PTL DEF Spec, ImplementsPromise, Promise!Spec
=============================================================================
