---------------------------- MODULE RoutingRules ----------------------------
(***************************************************************************)
(* The live routing rules of ws2tcp-local-core: RoutingRules::load,        *)
(* spawn_auto_refresh and set_mode of routing_rules.rs, and the task of    *)
(* service.rs that feeds mode changes to set_mode one after the other.     *)
(*                                                                         *)
(* `rules` is the RwLock'd RoutingRulesState. Every change of mode takes   *)
(* the next number of the atomic `generation`; a switch to Auto starts a   *)
(* task of that generation, which loads rules and then becomes the refresh *)
(* task of the same generation. A task compares its generation with the    *)
(* current one and writes the rules in two steps. On a multi-threaded      *)
(* runtime other tasks run between the two (Preemptive); on a              *)
(* current-thread runtime nothing does, there being no await between them. *)
(*                                                                         *)
(* A load returns the list of whichever source answers, or one that a      *)
(* cache keeps with the time that source gives; or it fails; or it never   *)
(* ends, since the client that asks the sources has no timeout. The steps  *)
(* of a load, and what other processes do to the cache file, are in        *)
(* RuleCache.                                                              *)
(***************************************************************************)
EXTENDS Naturals

CONSTANTS
  Preemptive,    \* TRUE on a multi-threaded runtime
  MaxChanges,    \* bound: calls of set_mode
  Sources,       \* gfwlist_urls: mirrors of one list, of which some may be behind
  MaxVersion,    \* bound: versions of the list
  LastModified   \* the time a source gives for each version

Versions == 1 .. MaxVersion

ASSUME ConstantsAssumption ==
  /\ Preemptive \in BOOLEAN /\ MaxChanges \in Nat /\ MaxVersion \in Nat \ {0}
  /\ LastModified \in [Sources -> [Versions -> Nat \ {0}]]

Generations == 0 .. MaxChanges

VARIABLES
  rules,        \* the active RoutingRulesState
  generation,   \* the atomic counter
  updater,      \* the mode update task: idle, or inside set_mode(Global)
  pc,           \* the loading and refreshing task of each generation
  loaded,       \* the list its last load returned
  published     \* the version each source serves

\* History, read by the properties only.
VARIABLES
  asked,        \* the mode asked for last, at the start or by set_mode
  writer        \* the generation that wrote `rules` last

vars == <<rules, generation, updater, pc, loaded, published, asked, writer>>

\* A list is its version and the source it is said to be from.
Lists == [source : Sources, version : Versions]
NoList == [source |-> 0, version |-> 0]

GlobalProxy    == [mode |-> "global", list |-> NoList]
DirectFallback == [mode |-> "direct", list |-> NoList]
Domains(list)  == [mode |-> "domains", list |-> list]

Places == {"none", "starting", "loading", "loaded", "failed", "checked",
           "failedChecked", "sleeping", "reloading", "reloaded", "rechecked", "ended"}

\* Between a look at the generation and the write that follows it.
MidStretch == {"checked", "failedChecked", "rechecked"}

\* Tasks other than the one of generation g are not in the middle of a stretch
\* of code without await, unless threads interleave.
TurnOfTask(g) ==
  Preemptive \/ (updater = "idle" /\ \A h \in Generations \ {g} : pc[h] \notin MidStretch)

TurnOfUpdater == Preemptive \/ \A h \in Generations : pc[h] \notin MidStretch

\* Mutant: the generation is not looked at.
Current_Any(g) == TRUE

Current(g) == generation = g

Go(g, place) == pc' = [pc EXCEPT ![g] = place]

-----------------------------------------------------------------------------
(* What a load may return.                                                 *)

\* Mutant: what another source sends is kept with the time of the HEAD answer.
Kept_HeadTime(time) ==
  {v \in Versions : \E m, s \in Sources :
     v <= published[m] /\ \E u \in 1 .. published[s] : LastModified[s][u] = time}

\* The versions that a cache may keep with a time: a download keeps the time
\* given then or, where the GET answer has none, the one the same source gave for
\* HEAD shortly before. Threads that write the cache file at once may keep any
\* version with any time.
Kept(time) ==
  {v \in Versions : \E m \in Sources :
     /\ v <= published[m]
     /\ Preemptive \/ \E u \in 1 .. v : LastModified[m][u] = time}

\* Some source answers HEAD, those before it having failed, and a cached list with
\* its time is said to be from it; or the list is downloaded from a source that
\* answers GET. So the list may be older than one that another source served.
Answers ==
  {list \in Lists :
     \/ list.version = published[list.source]
     \/ list.version \in Kept(LastModified[list.source][published[list.source]])}

-----------------------------------------------------------------------------
(* RoutingRules::load, before anything else runs.                          *)

StartLoaded ==
  /\ pc[0] = "starting"
  /\ \E list \in Answers : rules' = Domains(list)
  /\ Go(0, "sleeping")
  /\ UNCHANGED <<generation, updater, loaded, published, asked, writer>>

\* Rules that cannot be loaded are only a warning: traffic goes direct, and
\* the refresh task is started all the same.
StartFailed ==
  /\ pc[0] = "starting"
  /\ rules' = DirectFallback
  /\ Go(0, "sleeping")
  /\ UNCHANGED <<generation, updater, loaded, published, asked, writer>>

-----------------------------------------------------------------------------
(* set_mode.                                                               *)

CanChange ==
  pc[0] # "starting" /\ updater = "idle" /\ generation < MaxChanges /\ TurnOfUpdater

\* fetch_add, then the write of GlobalProxy, in two steps.
SetGlobal ==
  /\ CanChange
  /\ generation' = generation + 1
  /\ updater' = "global"
  /\ asked' = "global"
  /\ UNCHANGED <<rules, pc, loaded, published, writer>>

WriteGlobal ==
  /\ updater = "global" /\ TurnOfUpdater
  /\ rules' = GlobalProxy
  /\ writer' = generation
  /\ updater' = "idle"
  /\ UNCHANGED <<generation, pc, loaded, published, asked>>

\* fetch_add, then a task that loads the rules.
SetAuto ==
  /\ CanChange
  /\ generation' = generation + 1
  /\ Go(generation + 1, "loading")
  /\ asked' = "auto"
  /\ UNCHANGED <<rules, updater, loaded, published, writer>>

Load(g) ==
  /\ pc[g] = "loading" /\ TurnOfTask(g)
  /\ \/ Go(g, "loaded") /\ \E list \in Answers : loaded' = [loaded EXCEPT ![g] = list]
     \/ Go(g, "failed") /\ UNCHANGED loaded
  /\ UNCHANGED <<rules, generation, updater, published, asked, writer>>

\* The generation is compared, whether the load worked (197) or not (205).
SwitchCheck(g) ==
  /\ pc[g] \in {"loaded", "failed"} /\ TurnOfTask(g)
  /\ Go(g, IF ~Current(g) THEN "ended"
           ELSE IF pc[g] = "loaded" THEN "checked" ELSE "failedChecked")
  /\ UNCHANGED <<rules, generation, updater, loaded, published, asked, writer>>

SwitchWrite(g) ==
  /\ pc[g] = "checked" /\ TurnOfTask(g)
  /\ rules' = Domains(loaded[g])
  /\ writer' = g
  /\ Go(g, "sleeping")
  /\ loaded' = [loaded EXCEPT ![g] = NoList]
  /\ UNCHANGED <<generation, updater, published, asked>>

\* The failed switch: direct routing, and no refresh task.
SwitchFallback(g) ==
  /\ pc[g] = "failedChecked" /\ TurnOfTask(g)
  /\ rules' = DirectFallback
  /\ writer' = g
  /\ Go(g, "ended")
  /\ UNCHANGED <<generation, updater, loaded, published, asked>>

-----------------------------------------------------------------------------
(* spawn_auto_refresh.                                                     *)

RefreshDue(g) ==
  /\ pc[g] = "sleeping" /\ TurnOfTask(g)
  /\ Go(g, IF Current(g) THEN "reloading" ELSE "ended")
  /\ UNCHANGED <<rules, generation, updater, loaded, published, asked, writer>>

ReloadOk(g) ==
  /\ pc[g] = "reloading" /\ TurnOfTask(g)
  /\ \E list \in Answers : loaded' = [loaded EXCEPT ![g] = list]
  /\ Go(g, "reloaded")
  /\ UNCHANGED <<rules, generation, updater, published, asked, writer>>

\* Mutant: a failed refresh ends the task.
ReloadFails_Ends(g) ==
  /\ pc[g] = "reloading" /\ TurnOfTask(g)
  /\ Go(g, "ended")
  /\ UNCHANGED <<rules, generation, updater, loaded, published, asked, writer>>

\* A failed refresh keeps the rules.
ReloadFails(g) ==
  /\ pc[g] = "reloading" /\ TurnOfTask(g)
  /\ Go(g, "sleeping")
  /\ UNCHANGED <<rules, generation, updater, loaded, published, asked, writer>>

RefreshCheck(g) ==
  /\ pc[g] = "reloaded" /\ TurnOfTask(g)
  /\ Go(g, IF Current(g) THEN "rechecked" ELSE "ended")
  /\ UNCHANGED <<rules, generation, updater, loaded, published, asked, writer>>

RefreshWrite(g) ==
  /\ pc[g] = "rechecked" /\ TurnOfTask(g)
  /\ rules' = Domains(loaded[g])
  /\ writer' = g
  /\ Go(g, "sleeping")
  /\ loaded' = [loaded EXCEPT ![g] = NoList]
  /\ UNCHANGED <<generation, updater, published, asked>>

\* A source serves another list. Its lists only get newer.
Publish(s) ==
  /\ published[s] < MaxVersion
  /\ published' = [published EXCEPT ![s] = @ + 1]
  /\ UNCHANGED <<rules, generation, updater, pc, loaded, asked, writer>>

-----------------------------------------------------------------------------
Init ==
  /\ asked \in {"global", "auto"}
  /\ rules = IF asked = "global" THEN GlobalProxy ELSE DirectFallback
  /\ pc = [g \in Generations |-> IF g = 0 /\ asked = "auto" THEN "starting" ELSE "none"]
  /\ generation = 0 /\ writer = 0
  /\ updater = "idle"
  /\ loaded = [g \in Generations |-> NoList]
  /\ published = [s \in Sources |-> 1]

\* The steps that wait for no source.
Runs(g) ==
  \/ SwitchCheck(g) \/ SwitchWrite(g) \/ SwitchFallback(g)
  \/ RefreshDue(g) \/ RefreshCheck(g) \/ RefreshWrite(g)

Task(g) == Runs(g) \/ Load(g) \/ ReloadOk(g) \/ ReloadFails(g)

Next ==
  \/ StartLoaded \/ StartFailed
  \/ SetGlobal \/ WriteGlobal \/ SetAuto
  \/ \E g \in Generations : Task(g)
  \/ \E s \in Sources : Publish(s)

Spec == Init /\ [][Next]_vars

\* Every task that is ready is run in the end (a runtime takes them in turn, also
\* when one keeps the only thread for a while), and sleeps end. A load need not
\* end, and nobody has to change the mode.
Fairness == SF_vars(WriteGlobal) /\ \A g \in Generations : SF_vars(Runs(g))

FairSpec == Spec /\ Fairness

\* No part of Fairness: loads end, and one that is tried again and again succeeds
\* again and again. Nothing in build_http_client makes them (29-42).
Answered(g) == WF_vars(Load(g)) /\ SF_vars(ReloadOk(g))
SourcesAnswer ==
  WF_vars(StartLoaded \/ StartFailed) /\ \A g \in Generations : Answered(g)

AnsweringSpec == FairSpec /\ SourcesAnswer

-----------------------------------------------------------------------------
(* Properties.                                                             *)

\* Types. Domain rules are always those of some list: a load that failed never
\* leaves an empty list behind.
TypeOK ==
  /\ rules \in {GlobalProxy, DirectFallback} \cup {Domains(list) : list \in Lists}
  /\ generation \in Generations
  /\ updater \in {"idle", "global"}
  /\ pc \in [Generations -> Places]
  /\ loaded \in [Generations -> Lists \cup {NoList}]
  /\ published \in [Sources -> Versions]
  /\ asked \in {"global", "auto"}
  /\ writer \in Generations

\* When set_mode(Global) was the last change of mode and has returned, every
\* host is proxied (test dynamically_switches_to_global_mode): no load that was
\* under way brings the older mode's rules back. Needs a runtime that does not
\* interleave the look at the generation with another write.
GlobalStays == updater = "idle" /\ asked = "global" => rules.mode = "global"

\* One list may follow another: from a source to another any may, since a mirror
\* may be behind; from the same source only one that is not older.
MayFollow(new, old) == new.source = old.source => new.version >= old.version

\* The rules a later change of mode put in place are never replaced by the task
\* of an earlier one (CHANGELOG: active rules are replaced on successful refresh),
\* and the same task never goes back to an older list of the same source. The last
\* needs times that tell sources and versions apart.
RulesInOrder ==
  [][\/ writer' > writer
     \/ /\ writer' = writer
        /\ (rules.mode = "domains" /\ rules'.mode = "domains" =>
              MayFollow(rules'.list, rules.list))]_vars

\* The abstract rules of RoutingMode are implemented: with all loads, refreshes
\* and checks of the generation left out, what is active only ever changes towards
\* the mode asked for last, to lists that some source has served, and never from
\* a list to an older one of its source, whatever changes of mode lie between.
Promise ==
  INSTANCE RoutingMode WITH mode <- asked, active <- rules, latest <- published
ImplementsPromise == Promise!Spec

\* The task of a generation that is over ends, and begins no other load: changing
\* the mode back and forth piles up no tasks, except those whose load, begun while
\* their mode was current, is never answered.
StaleTasksEnd ==
  \A g \in Generations :
    generation > g ~> pc[g] \in {"none", "ended"} \/ [](pc[g] \in {"loading", "reloading"})

\* As long as the mode that started a refresh task is not changed, and sources
\* answer it again and again, the rules become those of a list as new as the one
\* all sources serve, also after failed loads (CHANGELOG: rules are refreshed
\* periodically).
HotReload ==
  \A g \in Generations :
    SF_vars(ReloadOk(g)) =>
      \A v \in Versions :
        generation = g /\ pc[g] \in {"sleeping", "reloading", "reloaded", "rechecked"}
                       /\ (\A s \in Sources : published[s] >= v)
          ~> generation # g \/ (rules.mode = "domains" /\ rules.list.version >= v)

\* routing_rules.rs 108: "direct routing until rules are available". After a
\* switch to Auto whose load failed it is direct routing for good: no refresh
\* task is started (204-211), however well the sources answer.
AutoRecovers == asked = "auto" ~> asked = "global" \/ rules.mode = "domains"
=============================================================================
