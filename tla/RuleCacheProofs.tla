--------------------------- MODULE RuleCacheProofs ---------------------------
(***************************************************************************)
(* Theorems about RuleCache, for any sources and any number of versions.   *)
(* The types hold for any number of loaders. What a loader may rely on     *)
(* holds while it is the only one that writes the cache file (OneLoader),  *)
(* and, for the age of a list, when a time stands for one version in all   *)
(* sources (TimesTell): the runs that drop either assumption end badly.    *)
(***************************************************************************)
EXTENDS RuleCache, TLAPS

OneLoader == \A l, m \in Loaders : l = m

TimesTell ==
  \A s, r \in Sources, v, w \in Versions : LastModified[s][v] = LastModified[r][w] => v = w

Caching == {Disk} \cup {Memory(b, time) : b \in Bodies, time \in Times}

-----------------------------------------------------------------------------
(* Types.                                                                  *)

LEMMA Values ==
  /\ 0 \in Times /\ Torn \in Bodies /\ Bad \in Bodies /\ Versions \subseteq Bodies
  /\ Torn \notin Versions /\ Bad \notin Versions /\ Bad # Torn /\ 1 \in Versions
  /\ Versions \subseteq 0 .. MaxVersion /\ 0 \in 0 .. MaxVersion
  /\ Disk \in Caching /\ EmptyMemory \in Caching
  /\ Disk.kind = "disk" /\ EmptyMemory.kind = "memory"
  <1>1. MaxVersion \in Nat /\ MaxVersion > 0
    BY ConstantsAssumption
  <1>2. Torn \in Bodies /\ 0 \in Times /\ Bad \in Bodies /\ Versions \subseteq Bodies
    BY DEF Bodies, Times
  <1> QED
    BY <1>1, <1>2 DEF Versions, Torn, Bad, Caching, EmptyMemory, Memory, Disk

LEMMA SourceTimes ==
  ASSUME NEW s \in Sources, NEW v \in Versions
  PROVE  LastModified[s][v] \in Times /\ LastModified[s][v] # 0
  BY ConstantsAssumption DEF Times

LEMMA Kept ==
  ASSUME NEW b \in Bodies, NEW time \in Times
  PROVE  /\ Memory(b, time) \in Caching /\ Memory(b, time).kind = "memory"
         /\ Memory(b, time).body = b /\ Memory(b, time).time = time
  BY DEF Caching, Memory

\* What a loader holds.
LEMMA Held ==
  ASSUME TypeOK, NEW l \in Loaders
  PROVE  /\ cache[l].kind \in {"disk", "memory"} /\ cache[l].body \in Bodies
         /\ cache[l].time \in Times
  <1>1. cache[l] \in Caching
    BY DEF TypeOK, Caching
  <1>2. CASE cache[l] = Disk
    BY <1>2, Values DEF Disk
  <1>3. CASE \E b \in Bodies, time \in Times : cache[l] = Memory(b, time)
    BY <1>3, Kept
  <1> QED
    BY <1>1, <1>2, <1>3 DEF Caching

LEMMA TypeInit == Init => TypeOK
  <1> SUFFICES ASSUME Init PROVE TypeOK
    OBVIOUS
  <1>1. file \in [time : Times, body : Bodies]
    BY Values DEF Init, NoFile
  <1>2. cache \in [Loaders -> Caching]
    BY Values DEF Init
  <1> QED
    BY <1>1, <1>2, Values DEF Init, TypeOK, Places, Caching

LEMMA TypeStep == TypeOK /\ [Next]_vars => TypeOK'
  <1> SUFFICES ASSUME TypeOK, [Next]_vars PROVE TypeOK'
    OBVIOUS
  <1>0. /\ file \in [time : Times, body : Bodies] /\ cache \in [Loaders -> Caching]
        /\ pc \in [Loaders -> Places] /\ body \in [Loaders -> Bodies]
        /\ modified \in [Loaders -> Times] /\ remote \in [Loaders -> Times]
        /\ known \in [Loaders -> Times] /\ hit \in [Loaders -> BOOLEAN]
        /\ head_source \in [Loaders -> Sources] /\ floor \in [Loaders -> 0 .. MaxVersion]
        /\ published \in [Sources -> Versions]
    BY DEF TypeOK, Caching
  <1>1. CASE UNCHANGED vars
    BY <1>1 DEF vars, load, history, TypeOK
  <1>2. ASSUME NEW l \in Loaders, Step(l)
        PROVE  TypeOK'
    <2> USE <1>0
    <2>1. CASE Head(l)
      <3>1. PICK s \in Sources, has_header \in BOOLEAN :
              /\ remote' = [remote EXCEPT ![l] =
                              IF has_header THEN LastModified[s][published[s]] ELSE 0]
              /\ head_source' = [head_source EXCEPT ![l] = s]
              /\ floor' = [floor EXCEPT ![l] = published[s]]
        BY <2>1 DEF Head
      <3>2. published[s] \in Versions /\ LastModified[s][published[s]] \in Times
        BY SourceTimes
      <3>3. /\ remote' \in [Loaders -> Times] /\ head_source' \in [Loaders -> Sources]
            /\ floor' \in [Loaders -> 0 .. MaxVersion]
        BY <3>1, <3>2, Values
      <3>4. pc' \in [Loaders -> Places]
        BY <2>1 DEF Head, Go, Places
      <3> QED
        BY <2>1, <3>3, <3>4 DEF Head, TypeOK, Caching
    <2>2. CASE CurrentOnDisk(l) \/ NotCurrent(l)
      <3>1. pc' \in [Loaders -> Places]
        BY <2>2 DEF CurrentOnDisk, NotCurrent, Go, Places
      <3> QED
        BY <2>2, <3>1 DEF CurrentOnDisk, NotCurrent, load, history, TypeOK, Caching
    <2>3. CASE CurrentInMemory(l) \/ Read(l)
      <3>1. pc' \in [Loaders -> Places] /\ hit' \in [Loaders -> BOOLEAN]
        BY <2>3 DEF CurrentInMemory, Read, Go, Places
      <3>2. body' \in [Loaders -> Bodies]
        BY <2>3, Held DEF CurrentInMemory, Read
      <3> QED
        BY <2>3, <3>1, <3>2 DEF CurrentInMemory, Read, TypeOK, Caching
    <2>4. CASE ReadFails(l)
      <3>1. pc' \in [Loaders -> Places] /\ cache' \in [Loaders -> Caching]
            /\ known' \in [Loaders -> Times]
        BY <2>4, Values DEF ReadFails, Go, Caches, Knows, Places
      <3> QED
        BY <2>4, <3>1 DEF ReadFails, load, TypeOK, Caching
    <2>5. CASE Get(l)
      <3>1. PICK s \in Sources, has_header \in BOOLEAN, is_list \in BOOLEAN :
              /\ body' = [body EXCEPT ![l] = IF is_list THEN published[s] ELSE Bad]
              /\ modified' = [modified EXCEPT ![l] =
                   Effective(l, s, IF has_header THEN LastModified[s][published[s]] ELSE 0)]
        BY <2>5 DEF Get
      <3>2. LastModified[s][published[s]] \in Times /\ published[s] \in Bodies
        BY SourceTimes, Values
      <3>3. body' \in [Loaders -> Bodies] /\ modified' \in [Loaders -> Times]
        BY <3>1, <3>2, Values DEF Effective
      <3>4. pc' \in [Loaders -> Places]
        BY <2>5 DEF Get, Go, Places
      <3> QED
        BY <2>5, <3>3, <3>4 DEF Get, history, TypeOK, Caching
    <2>6. CASE GetFails(l)
      <3>1. pc' \in [Loaders -> Places] /\ remote' \in [Loaders -> Times]
        BY <2>6, Values DEF GetFails, Go, Places
      <3> QED
        BY <2>6, <3>1 DEF GetFails, history, TypeOK, Caching
    <2>7. CASE Truncate(l)
      <3>1. pc' \in [Loaders -> Places] /\ file' \in [time : Times, body : Bodies]
        BY <2>7, Values DEF Truncate, Go, NoFile, Places
      <3> QED
        BY <2>7, <3>1 DEF Truncate, load, history, TypeOK, Caching
    <2>8. CASE Fill(l)
      <3>1. /\ pc' \in [Loaders -> Places] /\ file' \in [time : Times, body : Bodies]
            /\ known' \in [Loaders -> Times]
        BY <2>8, Values DEF Fill, Go, Knows, Places
      <3> QED
        BY <2>8, <3>1 DEF Fill, load, TypeOK, Caching
    <2>9. CASE SetTimes(l)
      <3>1. /\ pc' \in [Loaders -> Places] /\ file' \in [time : Times, body : Bodies]
            /\ known' \in [Loaders -> Times]
        BY <2>9 DEF SetTimes, Go, Knows, Places
      <3> QED
        BY <2>9, <3>1 DEF SetTimes, load, TypeOK, Caching
    <2>10. CASE Keep(l)
      <3>1. /\ pc' \in [Loaders -> Places] /\ cache' \in [Loaders -> Caching]
            /\ known' \in [Loaders -> Times]
        BY <2>10, Kept DEF Keep, Go, Caches, Knows, Places
      <3> QED
        BY <2>10, <3>1 DEF Keep, load, TypeOK, Caching
    <2>11. CASE Parse(l)
      <3>1. /\ pc' \in [Loaders -> Places] /\ remote' \in [Loaders -> Times]
            /\ body' \in [Loaders -> Bodies] /\ modified' \in [Loaders -> Times]
            /\ hit' \in [Loaders -> BOOLEAN]
        BY <2>11, Values DEF Parse, Go, Places
      <3> QED
        BY <2>11, <3>1 DEF Parse, TypeOK, Caching
    <2>12. CASE New(l)
      <3>1. /\ pc' \in [Loaders -> Places] /\ remote' \in [Loaders -> Times]
            /\ body' \in [Loaders -> Bodies] /\ modified' \in [Loaders -> Times]
            /\ hit' \in [Loaders -> BOOLEAN]
        BY <2>12, Values DEF New, Go, Places
      <3>2. cache' \in [Loaders -> Caching] /\ known' \in [Loaders -> Times]
        BY <2>12, Values DEF New, Caches, Knows
      <3> QED
        BY <2>12, <3>1, <3>2 DEF New, TypeOK, Caching
    <2> QED
      BY <1>2, <2>1, <2>2, <2>3, <2>4, <2>5, <2>6, <2>7, <2>8, <2>9, <2>10, <2>11, <2>12 DEF Step
  <1>3. ASSUME NEW s \in Sources, Publish(s)
        PROVE  TypeOK'
    <2>1. published' \in [Sources -> Versions]
      BY <1>0, <1>3, ConstantsAssumption DEF Publish, Versions
    <2> QED
      BY <1>3, <2>1 DEF Publish, load, history, TypeOK
  <1> QED
    BY <1>1, <1>2, <1>3 DEF Next

\* Types, for any number of loaders.
THEOREM TypeCorrect == Spec => []TypeOK
  BY TypeInit, TypeStep, PTL DEF Spec

-----------------------------------------------------------------------------
(* What is cached is whole, and the loader knows its time.                 *)

Storing == {"writing", "filling", "stamping", "keeping"}

\* Only a body that was written to its end has the time of a source, in the file
\* as in the memory, and only one that has is read.
WholeInv ==
  /\ file.time # 0 => file.body # Torn
  /\ \A l \in Loaders :
       /\ cache[l].kind = "memory" /\ cache[l].time # 0 => cache[l].body # Torn
       /\ pc[l] \in Storing => body[l] # Torn
       /\ pc[l] = "stamping" => file.body = body[l]
       /\ pc[l] = "reading" => remote[l] # 0 /\ file.time = remote[l]
       /\ hit[l] => pc[l] = "parsing" /\ body[l] # Torn

\* The time of the last download is the time that is looked at.
KnownInv ==
  \A l \in Loaders :
    /\ pc[l] \in {"writing", "filling", "stamping"} => cache[l].kind = "disk"
    /\ cache[l].kind = "memory" => known[l] \in {0, cache[l].time}
    /\ cache[l].kind = "disk" /\ pc[l] \notin {"filling", "stamping"} => known[l] \in {0, file.time}

StoreInv == TypeOK /\ WholeInv /\ KnownInv

LEMMA StoreInit == Init => StoreInv
  <1> SUFFICES ASSUME Init PROVE WholeInv /\ KnownInv
    BY TypeInit DEF StoreInv
  <1>1. \A l \in Loaders : /\ pc[l] = "idle" /\ ~hit[l] /\ known[l] = 0
                           /\ cache[l] \in {Disk, EmptyMemory}
    BY DEF Init
  <1>2. EmptyMemory.time = 0 /\ Disk.kind = "disk"
    BY DEF EmptyMemory, Memory, Disk
  <1> QED
    BY <1>1, <1>2 DEF Init, WholeInv, KnownInv, NoFile, Storing

LEMMA StoreStep ==
  ASSUME OneLoader, StoreInv, [Next]_vars
  PROVE  StoreInv'
  <1> SUFFICES WholeInv' /\ KnownInv'
    BY TypeStep DEF StoreInv
  <1>1. CASE UNCHANGED vars
    BY <1>1 DEF StoreInv, WholeInv, KnownInv, vars, load, history
  <1>2. ASSUME NEW s \in Sources, Publish(s)
        PROVE  WholeInv' /\ KnownInv'
    BY <1>2 DEF StoreInv, WholeInv, KnownInv, Publish, load, history
  <1>3. ASSUME NEW l \in Loaders, Step(l)
        PROVE  WholeInv' /\ KnownInv'
    <2>0. \A m \in Loaders : m = l
      BY DEF OneLoader
    <2> DEFINE Whole ==
                 /\ file.time # 0 => file.body # Torn
                 /\ cache[l].kind = "memory" /\ cache[l].time # 0 => cache[l].body # Torn
                 /\ pc[l] \in Storing => body[l] # Torn
                 /\ pc[l] = "stamping" => file.body = body[l]
                 /\ pc[l] = "reading" => remote[l] # 0 /\ file.time = remote[l]
                 /\ hit[l] => pc[l] = "parsing" /\ body[l] # Torn
               Known ==
                 /\ pc[l] \in {"writing", "filling", "stamping"} => cache[l].kind = "disk"
                 /\ cache[l].kind = "memory" => known[l] \in {0, cache[l].time}
                 /\ cache[l].kind = "disk" /\ pc[l] \notin {"filling", "stamping"}
                      => known[l] \in {0, file.time}
    <2>1. Whole /\ Known
      BY DEF StoreInv, WholeInv, KnownInv
    <2>2. /\ file \in [time : Times, body : Bodies] /\ cache \in [Loaders -> Caching]
          /\ pc \in [Loaders -> Places] /\ body \in [Loaders -> Bodies]
          /\ modified \in [Loaders -> Times] /\ remote \in [Loaders -> Times]
          /\ known \in [Loaders -> Times] /\ hit \in [Loaders -> BOOLEAN]
          /\ published \in [Sources -> Versions]
      BY DEF StoreInv, TypeOK, Caching
    <2> SUFFICES Whole' /\ Known'
      BY <2>0 DEF WholeInv, KnownInv
    <2>3. CASE Head(l) \/ CurrentOnDisk(l) \/ NotCurrent(l) \/ GetFails(l)
      <3>1. UNCHANGED <<file, cache, body, hit, known>>
        BY <2>3 DEF Head, CurrentOnDisk, NotCurrent, GetFails, load, history
      <3>2. pc'[l] \in {"idle", "checking", "reading", "getting"}
            /\ pc[l] \notin {"writing", "filling", "stamping", "parsing"}
        BY <2>2, <2>3 DEF Head, CurrentOnDisk, NotCurrent, GetFails, Go
      <3>3. pc'[l] = "reading" => remote'[l] # 0 /\ file.time = remote'[l]
        BY <2>2, <2>3 DEF Head, CurrentOnDisk, NotCurrent, GetFails, Go, load
      <3> QED
        BY <2>1, <3>1, <3>2, <3>3 DEF Storing
    <2>4. CASE CurrentInMemory(l)
      <3>1. /\ pc'[l] = "parsing" /\ body'[l] = cache[l].body /\ UNCHANGED <<file, cache, known>>
            /\ cache[l].kind = "memory" /\ cache[l].time # 0
        BY <2>2, <2>4 DEF CurrentInMemory, Go
      <3> QED
        BY <2>1, <3>1 DEF Storing
    <2>5. CASE Read(l)
      <3>1. /\ pc[l] = "reading" /\ pc'[l] = "parsing" /\ body'[l] = file.body
            /\ UNCHANGED <<file, cache, known>>
        BY <2>2, <2>5 DEF Read, Go
      <3> QED
        BY <2>1, <3>1 DEF Storing
    <2>6. CASE ReadFails(l)
      <3>1. /\ pc[l] # "parsing" /\ pc'[l] = "getting" /\ cache'[l] = EmptyMemory /\ known'[l] = 0
            /\ UNCHANGED <<file, hit>>
        BY <2>2, <2>6 DEF ReadFails, Go, Caches, Knows
      <3>2. EmptyMemory.kind = "memory" /\ EmptyMemory.time = 0
        BY DEF EmptyMemory, Memory
      <3> QED
        BY <2>1, <3>1, <3>2 DEF Storing
    <2>7. CASE Get(l)
      <3>1. /\ pc[l] = "getting" /\ pc'[l] = IF cache[l].kind = "disk" THEN "writing" ELSE "keeping"
            /\ UNCHANGED <<file, cache, hit, known>>
        BY <2>2, <2>7 DEF Get, Go, history
      <3>2. body'[l] # Torn
        BY <2>2, <2>7, Values DEF Get
      <3> QED
        BY <2>1, <3>1, <3>2 DEF Storing
    <2>8. CASE Truncate(l)
      <3>1. /\ pc[l] = "writing" /\ pc'[l] = "filling" /\ file' = NoFile
            /\ UNCHANGED <<cache, body, hit, known>>
        BY <2>2, <2>8 DEF Truncate, Go, load, history
      <3>2. NoFile.time = 0
        BY DEF NoFile
      <3> QED
        BY <2>1, <3>1, <3>2 DEF Storing
    <2>9. CASE Fill(l)
      <3>1. /\ pc[l] = "filling" /\ pc'[l] \in {"parsing", "stamping"}
            /\ file'.time = 0 /\ file'.body = body[l] /\ known'[l] = 0
            /\ UNCHANGED <<cache, body, hit>>
        BY <2>2, <2>9 DEF Fill, Go, Knows, load
      <3> QED
        BY <2>1, <3>1 DEF Storing
    <2>10. CASE SetTimes(l)
      <3>1. /\ pc[l] = "stamping" /\ pc'[l] = "parsing"
            /\ file'.time = modified[l] /\ file'.body = file.body /\ known'[l] = modified[l]
            /\ UNCHANGED <<cache, body, hit>>
        BY <2>2, <2>10 DEF SetTimes, Go, Knows, load
      <3> QED
        BY <2>1, <3>1 DEF Storing
    <2>11. CASE Keep(l)
      <3>1. /\ pc[l] \in Storing /\ pc'[l] = "parsing"
            /\ cache'[l] = Memory(body[l], modified[l]) /\ known'[l] = modified[l]
            /\ UNCHANGED <<file, body, hit>>
        BY <2>2, <2>11 DEF Keep, Go, Caches, Knows, load, Storing
      <3>2. /\ cache'[l].kind = "memory" /\ cache'[l].body = body[l] /\ cache'[l].time = modified[l]
        BY <2>2, <3>1, Kept
      <3> QED
        BY <2>1, <3>1, <3>2 DEF Storing
    <2>12. CASE Parse(l)
      <3>1. pc[l] = "parsing" /\ pc'[l] = "idle" /\ ~hit'[l] /\ UNCHANGED <<file, cache, known>>
        BY <2>2, <2>12 DEF Parse, Go
      <3> QED
        BY <2>1, <3>1 DEF Storing
    <2>13. CASE New(l)
      <3>1. /\ pc'[l] = "idle" /\ ~hit'[l] /\ file' = file
            /\ cache'[l] \in {Disk, EmptyMemory}
            /\ known'[l] = IF /\ cache'[l] = Disk /\ cache[l].kind = "disk"
                              /\ pc[l] \notin {"filling", "stamping"}
                             THEN known[l] ELSE 0
        BY <2>2, <2>13 DEF New, Go, Caches, Knows
      <3>2. EmptyMemory.kind = "memory" /\ EmptyMemory.time = 0 /\ Disk.kind = "disk"
        BY DEF EmptyMemory, Memory, Disk
      <3> QED
        BY <2>1, <3>1, <3>2 DEF Storing
    <2> QED
      BY <1>3, <2>3, <2>4, <2>5, <2>6, <2>7, <2>8, <2>9, <2>10, <2>11, <2>12, <2>13 DEF Step
  <1> QED
    BY <1>1, <1>2, <1>3 DEF Next

\* A list that was written in part is never taken for a cached one.
THEOREM TornNotUsed ==
  ASSUME OneLoader
  PROVE  Spec => []NeverTorn
  <1>1. StoreInv /\ [Next]_vars => StoreInv'
    BY StoreStep
  <1>2. StoreInv => NeverTorn
    BY DEF StoreInv, WholeInv, NeverTorn
  <1> QED
    BY StoreInit, <1>1, <1>2, PTL DEF Spec

\* A list is not downloaded again while its time at the source stays.
THEOREM NotDownloadedAgain ==
  ASSUME OneLoader
  PROVE  Spec => UnchangedNotDownloaded
  <1> DEFINE Needed ==
        \A l \in Loaders :
          pc[l] = "checking" /\ pc'[l] = "getting" /\ cache'[l].kind = cache[l].kind =>
            remote[l] = 0 \/ remote[l] # known[l]
  <1>1. StoreInv /\ [Next]_vars => StoreInv'
    BY StoreStep
  <1>2. ASSUME StoreInv, Next PROVE Needed
    <2> SUFFICES ASSUME NEW l \in Loaders, pc[l] = "checking", pc'[l] = "getting",
                        cache'[l].kind = cache[l].kind, remote[l] # 0
                 PROVE  remote[l] # known[l]
      OBVIOUS
    <2>1. Step(l)
      <3>1. \A m \in Loaders : m = l
        BY DEF OneLoader
      <3>2. pc' # pc
        OBVIOUS
      <3> QED
        BY <1>2, <3>1, <3>2 DEF Next, Publish
    <2>2. pc \in [Loaders -> Places] /\ cache \in [Loaders -> Caching]
      BY <1>2 DEF StoreInv, TypeOK, Caching
    <2>3. NotCurrent(l) \/ ReadFails(l)
      BY <2>1, <2>2 DEF Step, Head, CurrentOnDisk, CurrentInMemory, Read, Get, GetFails, Truncate, Fill,
                        SetTimes, Keep, Parse, New, Go
    <2>4. ~ReadFails(l)
      <3> SUFFICES ASSUME ReadFails(l) PROVE FALSE
        OBVIOUS
      <3>1. cache[l].kind = "disk" /\ cache'[l] = EmptyMemory
        BY <2>2 DEF ReadFails, Caches
      <3> QED
        BY <3>1, Values
    <2>5. remote[l] # (IF cache[l].kind = "disk" THEN file.time ELSE cache[l].time)
      BY <2>3, <2>4 DEF NotCurrent
    <2> QED
      BY <1>2, <2>5, Held DEF StoreInv, KnownInv
  <1>3. StoreInv /\ [Next]_vars => [Needed]_vars
    BY <1>2
  <1> QED
    BY StoreInit, <1>1, <1>3, PTL DEF Spec, UnchangedNotDownloaded

-----------------------------------------------------------------------------
(* What is cached is no older than its time says.                          *)

\* A list goes with a time if no source gives that time to a later one.
Fits(b, time) ==
  b \in Versions => \A s \in Sources, v \in Versions : LastModified[s][v] = time => b >= v

AgeInv ==
  /\ Fits(file.body, file.time)
  /\ \A l \in Loaders :
       /\ cache[l].kind = "memory" => Fits(cache[l].body, cache[l].time)
       /\ pc[l] \in Storing => Fits(body[l], modified[l])
       /\ pc[l] \in {"checking", "reading", "getting"} =>
            /\ floor[l] \in Versions /\ floor[l] <= published[head_source[l]]
            /\ remote[l] # 0 => remote[l] = LastModified[head_source[l]][floor[l]]
       /\ hit[l] => body[l] \in {Bad, Torn} \/ body[l] >= floor[l]

CurrentInv == StoreInv /\ AgeInv

\* No list goes with the time of a file that was just written.
LEMMA FitsAny ==
  ASSUME NEW b \in Bodies
  PROVE  Fits(b, 0)
  BY SourceTimes DEF Fits

\* A list goes with the time of a source that has published it.
LEMMA FitsPublished ==
  ASSUME TimesTell, NEW s \in Sources, NEW v \in Versions, NEW b \in Versions, b >= v
  PROVE  Fits(b, LastModified[s][v])
  <1> SUFFICES ASSUME NEW r \in Sources, NEW w \in Versions, LastModified[r][w] = LastModified[s][v]
               PROVE  b >= w
    BY DEF Fits
  <1> QED
    BY DEF TimesTell

LEMMA CurrentInit == Init => CurrentInv
  <1> SUFFICES ASSUME Init PROVE AgeInv
    BY StoreInit DEF CurrentInv
  <1>1. file.body = Torn /\ Torn \notin Versions /\ EmptyMemory.body = Torn /\ Disk.kind = "disk"
    BY Values DEF Init, NoFile, EmptyMemory, Memory, Disk
  <1>2. \A l \in Loaders : pc[l] = "idle" /\ ~hit[l] /\ cache[l] \in {Disk, EmptyMemory}
    BY DEF Init
  <1> QED
    BY <1>1, <1>2 DEF AgeInv, Fits, Storing

LEMMA CurrentStep ==
  ASSUME OneLoader, TimesTell, CurrentInv, [Next]_vars
  PROVE  CurrentInv'
  <1>0. StoreInv /\ StoreInv'
    BY StoreStep DEF CurrentInv
  <1> SUFFICES AgeInv'
    BY <1>0 DEF CurrentInv
  <1> USE DEF CurrentInv
  <1>1. CASE UNCHANGED vars
    BY <1>1 DEF AgeInv, Fits, vars, load, history
  <1>2. ASSUME NEW s \in Sources, Publish(s)
        PROVE  AgeInv'
    <2>1. \A r \in Sources : published[r] \in Nat /\ published'[r] >= published[r]
      BY <1>0, <1>2, ConstantsAssumption DEF StoreInv, TypeOK, Publish, Versions
    <2>2. UNCHANGED <<file, cache, pc, load, history>>
      BY <1>2 DEF Publish
    <2>3. \A l \in Loaders : head_source[l] \in Sources
      BY <1>0 DEF StoreInv, TypeOK
    <2>4. \A l \in Loaders : floor[l] \in Versions /\ floor[l] <= published[head_source[l]]
                               => floor[l] <= published'[head_source[l]]
      <3> SUFFICES ASSUME NEW l \in Loaders, floor[l] \in Versions,
                          floor[l] <= published[head_source[l]]
                   PROVE  floor[l] <= published'[head_source[l]]
        OBVIOUS
      <3>1. /\ floor[l] \in Nat /\ published[head_source[l]] \in Nat
            /\ published'[head_source[l]] \in Nat
            /\ published'[head_source[l]] >= published[head_source[l]]
        BY <1>0, <2>1, <2>3, ConstantsAssumption DEF StoreInv, TypeOK, Versions
      <3> QED
        BY <3>1
    <2> QED
      BY <2>2, <2>4 DEF AgeInv, Fits, load, history
  <1>3. ASSUME NEW l \in Loaders, Step(l)
        PROVE  AgeInv'
    <2>0. \A m \in Loaders : m = l
      BY DEF OneLoader
    <2> DEFINE Age ==
                 /\ Fits(file.body, file.time)
                 /\ cache[l].kind = "memory" => Fits(cache[l].body, cache[l].time)
                 /\ pc[l] \in Storing => Fits(body[l], modified[l])
                 /\ pc[l] \in {"checking", "reading", "getting"} =>
                      /\ floor[l] \in Versions /\ floor[l] <= published[head_source[l]]
                      /\ remote[l] # 0 => remote[l] = LastModified[head_source[l]][floor[l]]
                 /\ hit[l] => body[l] \in {Bad, Torn} \/ body[l] >= floor[l]
    <2>1. Age
      BY DEF AgeInv
    <2>2. /\ file \in [time : Times, body : Bodies] /\ cache \in [Loaders -> Caching]
          /\ pc \in [Loaders -> Places] /\ body \in [Loaders -> Bodies]
          /\ modified \in [Loaders -> Times] /\ remote \in [Loaders -> Times]
          /\ hit \in [Loaders -> BOOLEAN] /\ floor \in [Loaders -> 0 .. MaxVersion]
          /\ published \in [Sources -> Versions] /\ head_source \in [Loaders -> Sources]
      BY <1>0 DEF StoreInv, TypeOK, Caching
    <2>3. hit[l] => pc[l] = "parsing"
      BY <1>0 DEF StoreInv, WholeInv
    <2> SUFFICES Age'
      BY <2>0 DEF AgeInv, Fits
    <2>4. CASE Head(l)
      <3>1. PICK s \in Sources, has_header \in BOOLEAN :
              /\ remote' = [remote EXCEPT ![l] =
                              IF has_header THEN LastModified[s][published[s]] ELSE 0]
              /\ head_source' = [head_source EXCEPT ![l] = s]
              /\ floor' = [floor EXCEPT ![l] = published[s]]
        BY <2>4 DEF Head
      <3>2. /\ head_source'[l] = s /\ floor'[l] = published[s]
            /\ remote'[l] # 0 => remote'[l] = LastModified[s][published[s]]
        BY <2>2, <3>1
      <3>3. pc'[l] = "checking" /\ ~hit[l] /\ UNCHANGED <<published, file, cache, hit>>
        BY <2>2, <2>3, <2>4 DEF Head, Go
      <3>4. published[s] \in Versions /\ published[s] <= published[s]
        BY <2>2, ConstantsAssumption DEF Versions
      <3> QED
        BY <2>1, <3>2, <3>3, <3>4 DEF Storing, Fits
    <2>5. CASE CurrentOnDisk(l) \/ NotCurrent(l)
      <3>1. /\ pc[l] = "checking" /\ pc'[l] \in {"reading", "getting"}
            /\ UNCHANGED <<published, file, cache, load, history>>
        BY <2>2, <2>5 DEF CurrentOnDisk, NotCurrent, Go
      <3> QED
        BY <2>1, <3>1 DEF Storing, Fits, load, history
    <2>6. CASE CurrentInMemory(l) \/ Read(l)
      <3>1. /\ pc[l] \in {"checking", "reading"} /\ pc'[l] = "parsing"
            /\ UNCHANGED <<published, file, cache, floor>>
        BY <2>2, <2>6 DEF CurrentInMemory, Read, Go
      <3>2. body'[l] \in {Bad, Torn} \/ body'[l] >= floor[l]
        <4>1. remote[l] # 0 /\ Fits(body'[l], remote[l]) /\ body'[l] \in Bodies
          <5>1. CASE CurrentInMemory(l)
            BY <2>1, <2>2, <5>1, <1>0, Held DEF CurrentInMemory, StoreInv
          <5>2. CASE Read(l)
            BY <1>0, <2>1, <2>2, <5>2 DEF Read, StoreInv, WholeInv
          <5> QED
            BY <2>6, <5>1, <5>2
        <4>2. remote[l] = LastModified[head_source[l]][floor[l]] /\ floor[l] \in Versions
          BY <2>1, <3>1, <4>1
        <4> QED
          BY <2>2, <4>1, <4>2 DEF Fits, Bodies
      <3> QED
        BY <2>1, <3>1, <3>2 DEF Storing, Fits
    <2>7. CASE ReadFails(l)
      <3>1. /\ pc[l] \in {"checking", "reading"} /\ pc'[l] = "getting" /\ cache'[l] = EmptyMemory
            /\ UNCHANGED <<published, file, load, floor, hit>>
        BY <2>2, <2>7 DEF ReadFails, Go, Caches
      <3>2. Fits(EmptyMemory.body, EmptyMemory.time)
        BY Values DEF EmptyMemory, Memory, Fits
      <3> QED
        BY <2>1, <3>1, <3>2 DEF Storing, Fits, load
    <2>8. CASE Get(l)
      <3>1. PICK s \in Sources, has_header \in BOOLEAN, is_list \in BOOLEAN :
              /\ body' = [body EXCEPT ![l] = IF is_list THEN published[s] ELSE Bad]
              /\ modified' = [modified EXCEPT ![l] =
                   Effective(l, s, IF has_header THEN LastModified[s][published[s]] ELSE 0)]
        BY <2>8 DEF Get
      <3>2. /\ body'[l] = IF is_list THEN published[s] ELSE Bad
            /\ modified'[l] = Effective(l, s, IF has_header THEN LastModified[s][published[s]] ELSE 0)
        BY <2>2, <3>1
      <3>3. pc[l] = "getting" /\ ~hit[l] /\ pc'[l] \in Storing
            /\ UNCHANGED <<published, file, cache, remote, head_source, hit, floor>>
        BY <2>2, <2>3, <2>8 DEF Get, Go, Storing, history
      <3>4. published[s] \in Versions /\ published[s] >= published[s] /\ published[s] \in Bodies
        BY <2>2, Values, ConstantsAssumption DEF Versions
      <3>5. Fits(body'[l], modified'[l])
        <4>1. CASE ~is_list
          BY <3>2, <4>1, Values DEF Fits
        <4>2. CASE is_list /\ modified'[l] = 0
          BY <3>2, <3>4, <4>2, FitsAny
        <4>3. CASE is_list /\ modified'[l] = LastModified[s][published[s]]
          BY <3>2, <3>4, <4>3, FitsPublished
        <4>4. CASE is_list /\ s = head_source[l] /\ modified'[l] = remote[l] /\ remote[l] # 0
          <5>1. floor[l] \in Versions /\ floor[l] <= published[s]
                /\ modified'[l] = LastModified[s][floor[l]]
            BY <2>1, <3>3, <4>4
          <5>2. published[s] >= floor[l]
            BY <3>4, <5>1, ConstantsAssumption DEF Versions
          <5> QED
            BY <3>2, <3>4, <4>4, <5>1, <5>2, FitsPublished
        <4> QED
          BY <3>2, <4>1, <4>2, <4>3, <4>4 DEF Effective
      <3>6. pc'[l] \notin {"checking", "reading", "getting"}
        BY <3>3 DEF Storing
      <3> QED
        BY <2>1, <3>3, <3>5, <3>6 DEF Fits
    <2>9. CASE GetFails(l)
      <3>1. pc'[l] = "idle" /\ UNCHANGED <<published, file, cache, body, hit, floor>>
        BY <2>2, <2>9 DEF GetFails, Go, history
      <3> QED
        BY <2>1, <3>1 DEF Storing, Fits
    <2>10. CASE Truncate(l)
      <3>1. /\ pc[l] = "writing" /\ pc'[l] = "filling" /\ file' = NoFile
            /\ UNCHANGED <<published, cache, load, history>>
        BY <2>2, <2>10 DEF Truncate, Go
      <3>2. Fits(NoFile.body, NoFile.time)
        BY Values DEF NoFile, Fits
      <3> QED
        BY <2>1, <3>1, <3>2 DEF Storing, Fits, load, history
    <2>11. CASE Fill(l)
      <3>1. /\ pc[l] = "filling" /\ pc'[l] \in {"parsing", "stamping"}
            /\ file'.time = 0 /\ file'.body = body[l]
            /\ UNCHANGED <<published, cache, load, floor, hit>>
        BY <2>2, <2>11 DEF Fill, Go
      <3>2. Fits(file'.body, file'.time)
        BY <2>2, <3>1, FitsAny
      <3> QED
        BY <2>1, <3>1, <3>2 DEF Storing, Fits, load
    <2>12. CASE SetTimes(l)
      <3>1. /\ pc[l] = "stamping" /\ pc'[l] = "parsing"
            /\ file'.time = modified[l] /\ file'.body = file.body
            /\ UNCHANGED <<published, cache, load, floor, hit>>
        BY <2>2, <2>12 DEF SetTimes, Go
      <3>2. file.body = body[l]
        BY <1>0, <3>1 DEF StoreInv, WholeInv
      <3> QED
        BY <2>1, <3>1, <3>2 DEF Storing, Fits, load
    <2>13. CASE Keep(l)
      <3>1. /\ pc[l] \in Storing /\ pc'[l] = "parsing" /\ cache'[l] = Memory(body[l], modified[l])
            /\ UNCHANGED <<published, file, load, floor, hit>>
        BY <2>2, <2>13 DEF Keep, Go, Caches, Storing
      <3>2. cache'[l].body = body[l] /\ cache'[l].time = modified[l]
        BY <2>2, <3>1, Kept
      <3> QED
        BY <2>1, <3>1, <3>2 DEF Storing, Fits, load
    <2>14. CASE Parse(l)
      <3>1. pc'[l] = "idle" /\ ~hit'[l] /\ UNCHANGED <<published, file, cache>>
        BY <2>2, <2>14 DEF Parse, Go
      <3> QED
        BY <2>1, <3>1 DEF Storing, Fits
    <2>15. CASE New(l)
      <3>1. /\ pc'[l] = "idle" /\ ~hit'[l] /\ UNCHANGED <<published, file>>
            /\ cache'[l] \in {Disk, EmptyMemory}
        BY <2>2, <2>15 DEF New, Go, Caches
      <3>2. Fits(EmptyMemory.body, EmptyMemory.time) /\ Disk.kind # "memory"
        BY Values DEF EmptyMemory, Memory, Disk, Fits
      <3> QED
        BY <2>1, <3>1, <3>2 DEF Storing, Fits
    <2> QED
      BY <1>3, <2>4, <2>5, <2>6, <2>7, <2>8, <2>9, <2>10, <2>11, <2>12, <2>13, <2>14, <2>15 DEF Step
  <1> QED
    BY <1>1, <1>2, <1>3 DEF Next

\* A cached list is used only if the source that answered HEAD has none that is
\* newer.
THEOREM NeverBehind ==
  ASSUME OneLoader, TimesTell
  PROVE  Spec => []CachedIsCurrent
  <1>1. CurrentInv /\ [Next]_vars => CurrentInv'
    BY CurrentStep
  <1>2. CurrentInv => CachedIsCurrent
    BY DEF CurrentInv, AgeInv, CachedIsCurrent
  <1> QED
    BY CurrentInit, <1>1, <1>2, PTL DEF Spec
=============================================================================
