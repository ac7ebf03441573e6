------------------------------ MODULE RuleCache ------------------------------
(***************************************************************************)
(* How ws2tcp-local-core gets the gfwlist (routing_rules.rs): one load of  *)
(* GfwlistCache::load_gfwlist_body after the other, with the cache file    *)
(* all loaders of the host share, the in-memory cache a loader falls back  *)
(* to, and the sources, tried in order.                                    *)
(*                                                                         *)
(* A cached body counts as current when the time kept with it is the       *)
(* Last-Modified time of the source that answered the HEAD request. A body *)
(* is the version of the list it holds, Bad (not a list) or Torn (partly   *)
(* written, or no file). A time is a number, in seconds; 0 stands for no   *)
(* time, and for the time of a local write, which is taken to differ from  *)
(* the times of the sources. That earlier sources failed before the one    *)
(* that answered is left to the choice of the latter; a request none of    *)
(* them answers ends the load.                                             *)
(***************************************************************************)
EXTENDS Integers

CONSTANTS
  Loaders,      \* AutoRuleLoaders, of one process or of several
  Sources,      \* gfwlist_urls
  MaxVersion,   \* bound: versions of the list
  LastModified  \* the time a source gives for each version

Versions == 1 .. MaxVersion
Torn == 0
Bad == -1
Bodies == Versions \cup {Torn, Bad}

ASSUME ConstantsAssumption ==
  /\ MaxVersion \in Nat \ {0}
  /\ LastModified \in [Sources -> [Versions -> Nat \ {0}]]

Times == {0} \cup {LastModified[s][v] : s \in Sources, v \in Versions}

VARIABLES
  published,    \* the version each source serves
  file,         \* the cache file and its modification time
  cache,        \* GfwlistCache of each loader: on disk, or what is in memory
  pc,           \* where each loader is in load_gfwlist_body
  remote,       \* remote_modified
  head_source,  \* the source of the HEAD answer
  body,         \* the body of this load
  modified      \* effective_modified

\* History, read by the properties only.
VARIABLES
  floor,        \* the version head_source had when it answered
  hit,          \* the body of this load comes from the cache
  known         \* the time the loader's last finished download was kept with

load    == <<remote, head_source, body, modified>>
history == <<floor, hit, known>>
vars    == <<published, file, cache, pc, load, history>>

NoFile == [time |-> 0, body |-> Torn]
Disk   == [kind |-> "disk", time |-> 0, body |-> Torn]
Memory(b, time) == [kind |-> "memory", time |-> time, body |-> b]
EmptyMemory == Memory(Torn, 0)

Go(l, place) == pc' = [pc EXCEPT ![l] = place]
Caches(l, c) == cache' = [cache EXCEPT ![l] = c]
Knows(l, time) == known' = [known EXCEPT ![l] = time]

-----------------------------------------------------------------------------
(* Is the cached body current?                                             *)

\* fetch_remote_last_modified. An answer may lack the header.
Head(l) ==
  /\ pc[l] = "idle"
  /\ \E s \in Sources, has_header \in BOOLEAN :
       /\ remote' = [remote EXCEPT ![l] =
                       IF has_header THEN LastModified[s][published[s]] ELSE 0]
       /\ head_source' = [head_source EXCEPT ![l] = s]
       /\ floor' = [floor EXCEPT ![l] = published[s]]
  /\ Go(l, "checking")
  /\ UNCHANGED <<published, file, cache, body, modified, hit, known>>

\* is_cache_current, for a loader that caches on disk.
CurrentOnDisk(l) ==
  /\ pc[l] = "checking" /\ cache[l].kind = "disk"
  /\ remote[l] # 0 /\ file.time = remote[l]
  /\ Go(l, "reading")
  /\ UNCHANGED <<published, file, cache, load, history>>

\* memory_body_if_current.
CurrentInMemory(l) ==
  /\ pc[l] = "checking" /\ cache[l].kind = "memory"
  /\ remote[l] # 0 /\ cache[l].time = remote[l]
  /\ body' = [body EXCEPT ![l] = cache[l].body]
  /\ hit' = [hit EXCEPT ![l] = TRUE]
  /\ Go(l, "parsing")
  /\ UNCHANGED <<published, file, cache, remote, head_source, modified, floor, known>>

NotCurrent(l) ==
  /\ pc[l] = "checking"
  /\ \/ remote[l] = 0
     \/ remote[l] # (IF cache[l].kind = "disk" THEN file.time ELSE cache[l].time)
  /\ Go(l, "getting")
  /\ UNCHANGED <<published, file, cache, load, history>>

Read(l) ==
  /\ pc[l] = "reading"
  /\ body' = [body EXCEPT ![l] = file.body]
  /\ hit' = [hit EXCEPT ![l] = TRUE]
  /\ Go(l, "parsing")
  /\ UNCHANGED <<published, file, cache, remote, head_source, modified, floor, known>>

\* The file, or its time, cannot be read: switch_to_memory. The memory is empty.
ReadFails(l) ==
  /\ \/ pc[l] = "checking" /\ cache[l].kind = "disk" /\ remote[l] # 0
     \/ pc[l] = "reading"
  /\ Caches(l, EmptyMemory)
  /\ Knows(l, 0)
  /\ Go(l, "getting")
  /\ UNCHANGED <<published, file, load, floor, hit>>

-----------------------------------------------------------------------------
(* Download, and store.                                                    *)

\* Mutant: the time of the HEAD answer is used whatever the source.
Effective_AnySource(l, s, downloaded_modified) ==
  IF downloaded_modified # 0 THEN downloaded_modified ELSE remote[l]

\* The time of the GET answer; else that of HEAD, from the same source.
Effective(l, s, downloaded_modified) ==
  IF downloaded_modified # 0 THEN downloaded_modified
  ELSE IF s = head_source[l] THEN remote[l] ELSE 0

\* download_gfwlist_body. Whatever is answered with a success status is a body.
Get(l) ==
  /\ pc[l] = "getting"
  /\ \E s \in Sources, has_header, is_list \in BOOLEAN :
       /\ body' = [body EXCEPT ![l] = IF is_list THEN published[s] ELSE Bad]
       /\ modified' = [modified EXCEPT ![l] =
            Effective(l, s, IF has_header THEN LastModified[s][published[s]] ELSE 0)]
  /\ Go(l, IF cache[l].kind = "disk" THEN "writing" ELSE "keeping")
  /\ UNCHANGED <<published, file, cache, remote, head_source, history>>

\* A load that ends early returns an error; what it has done to the cache stays.
GetFails(l) ==
  /\ pc[l] = "getting"
  /\ Go(l, "idle")
  /\ remote' = [remote EXCEPT ![l] = 0]
  /\ UNCHANGED <<published, file, cache, head_source, body, modified, history>>

\* Mutant: the time is set as soon as the file is open.
Truncate_TimeFirst(l) ==
  /\ pc[l] = "writing"
  /\ file' = [time |-> modified[l], body |-> Torn]
  /\ Go(l, "filling")
  /\ UNCHANGED <<published, cache, load, history>>

\* fs::write truncates the file
Truncate(l) ==
  /\ pc[l] = "writing"
  /\ file' = NoFile
  /\ Go(l, "filling")
  /\ UNCHANGED <<published, cache, load, history>>

\* and writes the body, which gives the file the time of the clock;
Fill(l) ==
  /\ pc[l] = "filling"
  /\ file' = [time |-> 0, body |-> body[l]]
  /\ Go(l, IF modified[l] = 0 THEN "parsing" ELSE "stamping")
  /\ Knows(l, 0)
  /\ UNCHANGED <<published, cache, load, floor, hit>>

\* then set_times gives it the time of the source, if that is known.
SetTimes(l) ==
  /\ pc[l] = "stamping"
  /\ file' = [file EXCEPT !.time = modified[l]]
  /\ Knows(l, modified[l])
  /\ Go(l, "parsing")
  /\ UNCHANGED <<published, cache, load, floor, hit>>

\* Mutant: the memory stays empty until the next download.
Keep_Later(l) ==
  /\ pc[l] \in {"keeping", "writing", "filling", "stamping"}
  /\ Caches(l, IF pc[l] = "keeping" THEN Memory(body[l], modified[l]) ELSE EmptyMemory)
  /\ Knows(l, modified[l])
  /\ Go(l, "parsing")
  /\ UNCHANGED <<published, file, load, floor, hit>>

\* store_in_memory: for a loader without a disk cache, and when any step of
\* write_gfwlist_cache fails, whatever state the file is in by then.
Keep(l) ==
  /\ pc[l] \in {"keeping", "writing", "filling", "stamping"}
  /\ Caches(l, Memory(body[l], modified[l]))
  /\ Knows(l, modified[l])
  /\ Go(l, "parsing")
  /\ UNCHANGED <<published, file, load, floor, hit>>

\* download_and_parse goes on with the body, and the load ends.
Parse(l) ==
  /\ pc[l] = "parsing"
  /\ Go(l, "idle")
  /\ remote' = [remote EXCEPT ![l] = 0]
  /\ body' = [body EXCEPT ![l] = Torn]
  /\ modified' = [modified EXCEPT ![l] = 0]
  /\ hit' = [hit EXCEPT ![l] = FALSE]
  /\ UNCHANGED <<published, file, cache, head_source, floor, known>>

-----------------------------------------------------------------------------
\* GfwlistCache::new: the process is started anew after a stop at any point, or
\* a switch to Auto makes a loader. The cache directory is usable or it is not.
New(l) ==
  /\ Go(l, "idle")
  /\ \E c \in {Disk, EmptyMemory} :
       /\ Caches(l, c)
       /\ Knows(l, IF c = Disk /\ cache[l].kind = "disk" /\ pc[l] \notin {"filling", "stamping"}
                     THEN known[l] ELSE 0)
  /\ remote' = [remote EXCEPT ![l] = 0]
  /\ body' = [body EXCEPT ![l] = Torn]
  /\ modified' = [modified EXCEPT ![l] = 0]
  /\ hit' = [hit EXCEPT ![l] = FALSE]
  /\ UNCHANGED <<published, file, head_source, floor>>

Publish(s) ==
  /\ published[s] < MaxVersion
  /\ published' = [published EXCEPT ![s] = @ + 1]
  /\ UNCHANGED <<file, cache, pc, load, history>>

Init ==
  /\ published = [s \in Sources |-> 1]
  /\ file = NoFile
  /\ cache \in [Loaders -> {Disk, EmptyMemory}]
  /\ pc = [l \in Loaders |-> "idle"]
  /\ remote = [l \in Loaders |-> 0]
  /\ head_source \in [Loaders -> Sources]
  /\ body = [l \in Loaders |-> Torn]
  /\ modified = [l \in Loaders |-> 0]
  /\ floor = [l \in Loaders |-> 0]
  /\ hit = [l \in Loaders |-> FALSE]
  /\ known = [l \in Loaders |-> 0]

Step(l) ==
  \/ Head(l) \/ CurrentOnDisk(l) \/ CurrentInMemory(l) \/ NotCurrent(l)
  \/ Read(l) \/ ReadFails(l) \/ Get(l) \/ GetFails(l)
  \/ Truncate(l) \/ Fill(l) \/ SetTimes(l) \/ Keep(l) \/ Parse(l) \/ New(l)

Next == (\E l \in Loaders : Step(l)) \/ (\E s \in Sources : Publish(s))

Spec == Init /\ [][Next]_vars

-----------------------------------------------------------------------------
(* Properties.                                                             *)

Places == {"idle", "checking", "reading", "getting", "writing", "filling",
           "stamping", "keeping", "parsing"}

\* Types. A loader that caches on disk keeps no second copy in memory.
TypeOK ==
  /\ published \in [Sources -> Versions]
  /\ file \in [time : Times, body : Bodies]
  /\ cache \in [Loaders -> {Disk} \cup {Memory(b, time) : b \in Bodies, time \in Times}]
  /\ pc \in [Loaders -> Places]
  /\ remote \in [Loaders -> Times]
  /\ head_source \in [Loaders -> Sources]
  /\ body \in [Loaders -> Bodies]
  /\ modified \in [Loaders -> Times]
  /\ floor \in [Loaders -> 0 .. MaxVersion]
  /\ hit \in [Loaders -> BOOLEAN]
  /\ known \in [Loaders -> Times]

\* A list that was written in part, because the process stopped or the disk was
\* full, is never taken for a cached one (722-759: the time of the source is
\* set last).
NeverTorn == \A l \in Loaders : hit[l] => body[l] # Torn

\* The cached list is used only while it is the one the source has: a load never
\* goes back behind the version of the source that answered HEAD (CHANGELOG
\* 0.1.5: downloads are conditional on Last-Modified changes). It needs times
\* that tell the mirrors apart, "timestamps across mirrors are not comparable"
\* (495-496) but are compared (464), and loaders that do not write at once.
CachedIsCurrent ==
  \A l \in Loaders : hit[l] => body[l] \in {Bad, Torn} \/ body[l] >= floor[l]

\* A list that has not changed since the loader's last download is not
\* downloaded again, also when the disk cache failed in between and the memory
\* took over (CHANGELOG 0.1.5 and 0.1.2).
UnchangedNotDownloaded ==
  [][\A l \in Loaders :
       pc[l] = "checking" /\ pc'[l] = "getting" /\ cache'[l].kind = cache[l].kind =>
         remote[l] = 0 \/ remote[l] # known[l]]_vars

\* routing_rules.rs 108: "direct routing until rules are available". A body that
\* is no list is cached before it is parsed (503-511 and 294), and read again
\* for as long as the source's time stays, although the source serves a list.
BadNotReused == \A l \in Loaders : hit[l] => body[l] # Bad
=============================================================================
