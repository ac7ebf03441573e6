------------------------- MODULE Http3SessionsProofs -------------------------
(***************************************************************************)
(* Theorems about Http3Sessions, for any number of tunnels, connections    *)
(* and resets. They rest on the mutex of SESSIONS, which is held during    *)
(* the handshake: whoever dials owns it, and the cache is empty until the  *)
(* new connection is put there.                                            *)
(***************************************************************************)
EXTENDS Http3Sessions, TLAPS

Agents == Tunnels \cup {Resetter}

TypeInv ==
  /\ TypeOK
  /\ \A t \in Tunnels : pc[t] = "requesting" => used[t] # 0
  /\ pc[Resetter] = "clearing" => epoch < MaxResets

\* Who dials owns the mutex, found the cache empty and has seen every reset.
DialInv ==
  \A t \in Tunnels : pc[t] = "dialing" => Holds(t) /\ cached = 0 /\ conn_since[t] = epoch

\* While the second attempt looks for a connection, the one that did not answer
\* is not cached.
RetryInv ==
  \A t \in Tunnels :
    attempt[t] = 2 /\ pc[t] \in {"asking", "dialing"} => cached = 0 \/ cached # used[t]

\* Outside connect no tunnel is one that may not use TCP.
OnlyInv ==
  \A t \in Tunnels : pc[t] \in {"idle", "open", "tcp", "refused", "failed"} => ~only[t]

LEMMA Bounds == Resetter \notin Tunnels /\ MaxConns \in Nat /\ MaxResets \in Nat
  BY ConstantsAssumption

\* What the types say of the numbers.
LEMMA Numbers ==
  ASSUME TypeOK
  PROVE  /\ dialed \in Nat /\ dialed <= MaxConns /\ epoch \in Nat /\ epoch <= MaxResets
         /\ cached \in 0 .. dialed /\ 0 \in 0 .. dialed
         /\ open \subseteq 1 .. dialed /\ faulty \subseteq 1 .. dialed
         /\ used \in [Tunnels -> 0 .. dialed] /\ attempt \in [Tunnels -> 0 .. 2]
         /\ conn_since \in [Tunnels -> 0 .. epoch] /\ cached_since \in 0 .. epoch
  <1>1. dialed \in 0 .. MaxConns /\ epoch \in 0 .. MaxResets
    BY DEF TypeOK
  <1>2. dialed \in Nat /\ dialed <= MaxConns /\ epoch \in Nat /\ epoch <= MaxResets
    BY <1>1, Bounds
  <1>3. 0 \in 0 .. dialed
    BY <1>2
  <1> QED
    BY <1>2, <1>3 DEF TypeOK

\* The places of the tunnel that moves, and of all others.
LEMMA Moves ==
  ASSUME TypeOK, NEW a \in Agents, NEW p \in Places, Go(a, p)
  PROVE  /\ pc' \in [Agents -> Places] /\ pc'[a] = p
         /\ \A b \in Agents \ {a} : pc'[b] = pc[b]
  BY DEF TypeOK, Go, Agents

\* The queue: a new waiter stands behind the holder, and only the holder leaves.
LEMMA Enqueued ==
  ASSUME TypeOK, NEW a \in Agents, Enqueue(a)
  PROVE  /\ queue' \in Seq(Agents)
         /\ \A b \in Agents : Holds(b) => Holds(b)'
  <1>1. queue \in Seq(Agents) /\ queue' = Append(queue, a)
    BY DEF TypeOK, Enqueue, Agents
  <1>2. Append(queue, a) \in Seq(Agents) /\ Append(queue, a) # <<>>
    BY <1>1
  <1>3. queue # <<>> => Head(Append(queue, a)) = Head(queue)
    BY <1>1
  <1> QED
    BY <1>1, <1>2, <1>3 DEF Holds

LEMMA Released ==
  ASSUME TypeOK, NEW a \in Agents, Holds(a)
  PROVE  /\ Tail(queue) \in Seq(Agents)
         /\ Append(Tail(queue), a) \in Seq(Agents)
         /\ \A b \in Agents : Holds(b) => b = a
  <1>1. queue \in Seq(Agents) /\ queue # <<>>
    BY DEF TypeOK, Holds, Agents
  <1>2. Tail(queue) \in Seq(Agents)
    BY <1>1
  <1>3. Append(Tail(queue), a) \in Seq(Agents)
    BY <1>2
  <1> QED
    BY <1>2, <1>3 DEF Holds

LEMMA Forgotten ==
  ASSUME TypeOK, NEW t \in Tunnels, Forget(t)
  PROVE  /\ only' \in [Tunnels -> BOOLEAN] /\ attempt' \in [Tunnels -> 0 .. 2]
         /\ used' \in [Tunnels -> 0 .. dialed] /\ was_cached' \in [Tunnels -> BOOLEAN]
         /\ ~only'[t] /\ attempt'[t] = 0
         /\ \A u \in Tunnels \ {t} :
              only'[u] = only[u] /\ attempt'[u] = attempt[u] /\ used'[u] = used[u]
  <1>1. /\ only \in [Tunnels -> BOOLEAN] /\ was_cached \in [Tunnels -> BOOLEAN]
    BY DEF TypeOK
  <1>2. only' \in [Tunnels -> BOOLEAN] /\ was_cached' \in [Tunnels -> BOOLEAN] /\ ~only'[t]
    BY <1>1 DEF Forget
  <1>3. attempt' \in [Tunnels -> 0 .. 2] /\ attempt'[t] = 0 /\ used' \in [Tunnels -> 0 .. dialed]
    BY Numbers DEF Forget
  <1> QED
    BY <1>1, <1>2, <1>3, Numbers DEF Forget

LEMMA FailedTyped ==
  ASSUME TypeOK, NEW t \in Tunnels, NEW why \in {"status", "no answer"}, Failed(t, why)
  PROVE  /\ fallback' \in BOOLEAN /\ cause' \in {"none", "status", "no answer"}
         /\ pc' \in [Agents -> Places] /\ pc'[t] \in {"tcp", "failed"}
         /\ \A b \in Agents \ {t} : pc'[b] = pc[b]
         /\ only[t] => pc'[t] = "failed" /\ fallback' = fallback
  <1>1. "tcp" \in Places /\ "failed" \in Places /\ t \in Agents
    BY DEF Places, Agents
  <1>2. CASE only[t]
    BY <1>1, <1>2, Moves DEF Failed, TypeOK
  <1>3. CASE ~only[t]
    BY <1>1, <1>3, Moves DEF Failed, TypeOK
  <1> QED
    BY <1>2, <1>3

-----------------------------------------------------------------------------
(* Types.                                                                  *)

LEMMA TypeInit == Init => TypeInv
  <1> SUFFICES ASSUME Init PROVE TypeInv
    OBVIOUS
  <1>1. 0 \in 0 .. MaxConns /\ 0 \in 0 .. MaxResets /\ 0 \in 0 .. 0 /\ 0 \in 0 .. 2
    BY Bounds
  <1>2. queue \in Seq(Tunnels \cup {Resetter})
    BY DEF Init
  <1>3. pc \in [Tunnels \cup {Resetter} -> Places] /\ "idle" # "clearing" /\ "idle" # "requesting"
    BY DEF Init, Places
  <1>4. TypeOK
    BY <1>1, <1>2, <1>3 DEF Init, TypeOK
  <1> QED
    BY <1>3, <1>4 DEF Init, TypeInv

LEMMA TypeStep == TypeInv /\ [Next]_vars => TypeInv'
  <1> SUFFICES ASSUME TypeInv, [Next]_vars PROVE TypeInv'
    OBVIOUS
  <1> USE DEF TypeInv
  <1>0. /\ pc \in [Agents -> Places] /\ Resetter \in Agents /\ queue \in Seq(Agents)
        /\ used \in [Tunnels -> 0 .. dialed]
    BY DEF TypeOK, Agents
  <1>1. CASE UNCHANGED vars
    BY <1>1 DEF vars, locals, history, TypeOK
  <1>2. ASSUME NEW t \in Tunnels, Connect(t)
        PROVE  TypeInv'
    <2>1. t \in Agents /\ t # Resetter /\ {"tcp", "asking"} \subseteq Places
      BY Bounds DEF Agents, Places
    <2>2. pc' \in [Agents -> Places] /\ pc'[t] \in {"tcp", "asking"}
          /\ \A b \in Agents \ {t} : pc'[b] = pc[b]
      BY <1>2, <2>1, Moves DEF Connect
    <2>3. queue' \in Seq(Agents)
      BY <1>0, <1>2, <2>1, Enqueued DEF Connect
    <2>4. only' \in [Tunnels -> BOOLEAN] /\ attempt' \in [Tunnels -> 0 .. 2]
      <3>1. only \in [Tunnels -> BOOLEAN] /\ (mode = "only") \in BOOLEAN
        BY DEF TypeOK
      <3>2. only' \in [Tunnels -> BOOLEAN]
        BY <1>2, <3>1, Zenon DEF Connect
      <3>3. attempt' \in [Tunnels -> 0 .. 2]
        BY <1>2, Numbers DEF Connect
      <3> QED
        BY <3>2, <3>3
    <2>5. TypeOK'
      BY <1>2, <2>2, <2>3, <2>4 DEF Connect, history, TypeOK, Agents
    <2> QED
      BY <1>0, <1>2, <2>1, <2>2, <2>5 DEF Connect, history, Agents
  <1>3. ASSUME NEW t \in Tunnels, UseCached(t)
        PROVE  TypeInv'
    <2>1. t \in Agents /\ t # Resetter /\ "requesting" \in Places
      BY Bounds DEF Agents, Places
    <2>2. pc' \in [Agents -> Places] /\ pc'[t] = "requesting"
          /\ \A b \in Agents \ {t} : pc'[b] = pc[b]
      BY <1>3, <2>1, Moves DEF UseCached
    <2>3. queue' \in Seq(Agents)
      BY <1>3, <2>1, Released DEF UseCached, Release
    <2>4. cached \in 1 .. dialed
      BY <1>3, Numbers DEF UseCached
    <2>5. /\ used' = [used EXCEPT ![t] = cached] /\ used' \in [Tunnels -> 0 .. dialed]
          /\ was_cached' \in [Tunnels -> BOOLEAN] /\ conn_since' \in [Tunnels -> 0 .. epoch]
      BY <1>3, <2>4 DEF UseCached, TypeOK
    <2>6. TypeOK'
      BY <1>3, <2>2, <2>3, <2>5 DEF UseCached, TypeOK, Agents
    <2>7. \A u \in Tunnels : pc'[u] = "requesting" => used'[u] # 0
      <3>1. used'[t] # 0 /\ \A u \in Tunnels \ {t} : used'[u] = used[u]
        BY <1>0, <2>4, <2>5, Numbers
      <3> QED
        BY <2>2, <3>1 DEF Agents
    <2> QED
      BY <1>0, <1>3, <2>1, <2>2, <2>6, <2>7 DEF UseCached
  <1>4. ASSUME NEW t \in Tunnels, Dial(t)
        PROVE  TypeInv'
    <2>1. t \in Agents /\ t # Resetter /\ "dialing" \in Places
      BY Bounds DEF Agents, Places
    <2>2. pc' \in [Agents -> Places] /\ pc'[t] = "dialing"
          /\ \A b \in Agents \ {t} : pc'[b] = pc[b]
      BY <1>4, <2>1, Moves DEF Dial
    <2>3. cached' \in 0 .. dialed /\ conn_since' \in [Tunnels -> 0 .. epoch]
      <3>1. epoch \in 0 .. epoch
        BY Numbers
      <3> QED
        BY <1>4, <3>1, Numbers DEF Dial
    <2>4. TypeOK'
      BY <1>4, <2>2, <2>3 DEF Dial, locals, TypeOK, Agents
    <2> QED
      BY <1>0, <1>4, <2>1, <2>2, <2>4 DEF Dial, locals, Agents
  <1>5. ASSUME NEW t \in Tunnels, Established(t)
        PROVE  TypeInv'
    <2>1. t \in Agents /\ t # Resetter /\ "requesting" \in Places
      BY Bounds DEF Agents, Places
    <2>2. pc' \in [Agents -> Places] /\ pc'[t] = "requesting"
          /\ \A b \in Agents \ {t} : pc'[b] = pc[b]
      BY <1>5, <2>1, Moves DEF Established
    <2>3. queue' \in Seq(Agents)
      BY <1>5, <2>1, Released DEF Established, Release
    <2>4. /\ dialed' = dialed + 1 /\ dialed' \in 0 .. MaxConns /\ cached' \in 0 .. dialed'
          /\ open' \subseteq 1 .. dialed' /\ faulty' \subseteq 1 .. dialed'
          /\ cached_since' \in 0 .. epoch
      <3>1. dialed' = dialed + 1 /\ dialed' \in 0 .. MaxConns /\ cached' = dialed'
            /\ open' = open \cup {dialed'} /\ faulty' = faulty /\ cached_since' = conn_since[t]
        BY <1>5, Numbers, Bounds DEF Established
      <3>2. 1 .. dialed \subseteq 1 .. dialed' /\ dialed' \in 1 .. dialed' /\ dialed' \in 0 .. dialed'
        BY <3>1, Numbers
      <3> QED
        BY <3>1, <3>2, Numbers
    <2>5. /\ used' = [used EXCEPT ![t] = dialed + 1] /\ used' \in [Tunnels -> 0 .. dialed']
          /\ was_cached' \in [Tunnels -> BOOLEAN]
      <3>1. 0 .. dialed \subseteq 0 .. dialed' /\ dialed + 1 \in 0 .. dialed'
        BY <2>4, Numbers
      <3>2. used \in [Tunnels -> 0 .. dialed']
        BY <3>1, Numbers
      <3>3. was_cached' \in [Tunnels -> BOOLEAN]
        BY <1>5 DEF Established, TypeOK
      <3> QED
        BY <1>5, <3>1, <3>2, <3>3 DEF Established
    <2>6. TypeOK'
      BY <1>5, <2>2, <2>3, <2>4, <2>5 DEF Established, TypeOK, Agents
    <2>7. \A u \in Tunnels : pc'[u] = "requesting" => used'[u] # 0
      <3>1. used'[t] # 0 /\ \A u \in Tunnels \ {t} : used'[u] = used[u]
        BY <1>0, <2>5, Numbers
      <3> QED
        BY <2>2, <3>1 DEF Agents
    <2> QED
      BY <1>0, <1>5, <2>1, <2>2, <2>6, <2>7 DEF Established
  <1>6. ASSUME NEW t \in Tunnels, NotEstablished(t) \/ RemoveAndFail(t)
        PROVE  TypeInv'
    <2>1. t \in Agents /\ t # Resetter
      BY Bounds DEF Agents
    <2>2. Failed(t, "no answer") /\ Forget(t) /\ queue' = Tail(queue) /\ Holds(t)
          /\ cached' \in {cached, 0}
          /\ UNCHANGED <<mode, dialed, open, epoch, conn_since, cached_since, faulty>>
      BY <1>6 DEF NotEstablished, RemoveAndFail, Release
    <2>3. queue' \in Seq(Agents)
      BY <2>1, <2>2, Released
    <2>4. cached' \in 0 .. dialed
      BY <2>2, Numbers
    <2>5. TypeOK'
      BY <2>2, <2>3, <2>4, Forgotten, FailedTyped DEF TypeOK, Agents
    <2> QED
      BY <1>0, <2>1, <2>2, <2>5, Forgotten, FailedTyped DEF Agents
  <1>7. ASSUME NEW t \in Tunnels, Opened(t) \/ Unauthorized(t)
        PROVE  TypeInv'
    <2>1. t \in Agents /\ t # Resetter /\ {"open", "refused"} \subseteq Places
      BY Bounds DEF Agents, Places
    <2>2. pc' \in [Agents -> Places] /\ pc'[t] \in {"open", "refused"}
          /\ \A b \in Agents \ {t} : pc'[b] = pc[b]
      BY <1>7, <2>1, Moves DEF Opened, Unauthorized
    <2>3. Forget(t) /\ UNCHANGED <<mode, cached, dialed, open, fallback, queue, history>>
      BY <1>7 DEF Opened, Unauthorized
    <2>4. TypeOK'
      BY <2>2, <2>3, Forgotten DEF history, TypeOK, Agents
    <2> QED
      BY <1>0, <2>1, <2>2, <2>3, <2>4, Forgotten DEF history, Agents
  <1>8. ASSUME NEW t \in Tunnels, OtherStatus(t)
        PROVE  TypeInv'
    <2>1. t \in Agents /\ t # Resetter
      BY Bounds DEF Agents
    <2>2. Failed(t, "status") /\ Forget(t)
          /\ UNCHANGED <<mode, cached, dialed, open, queue, epoch, conn_since, cached_since, faulty>>
      BY <1>8 DEF OtherStatus
    <2>3. TypeOK'
      BY <2>2, Forgotten, FailedTyped DEF TypeOK, Agents
    <2> QED
      BY <1>0, <2>1, <2>2, <2>3, Forgotten, FailedTyped DEF Agents
  <1>9. ASSUME NEW t \in Tunnels, Unanswered(t)
        PROVE  TypeInv'
    <2>1. t \in Agents /\ t # Resetter /\ "removing" \in Places
      BY Bounds DEF Agents, Places
    <2>2. /\ faulty' \subseteq 1 .. dialed
          /\ UNCHANGED <<mode, cached, dialed, open, epoch, conn_since, cached_since>>
      <3>1. used[t] \in 1 .. dialed
        <4>1. used[t] # 0
          BY <1>9 DEF Unanswered
        <4> QED
          BY <4>1, Numbers
      <3>2. faulty' = faulty \cup {used[t]}
        BY <1>9 DEF Unanswered
      <3>3. faulty' \subseteq 1 .. dialed
        BY <3>1, <3>2, Numbers
      <3> QED
        BY <1>9, <3>3 DEF Unanswered
    <2>3. CASE Failed(t, "no answer") /\ Forget(t) /\ queue' = queue
      <3>1. TypeOK'
        BY <2>2, <2>3, Forgotten, FailedTyped DEF TypeOK, Agents
      <3> QED
        BY <1>0, <2>1, <2>2, <2>3, <3>1, Forgotten, FailedTyped DEF Agents
    <2>4. CASE Go(t, "removing") /\ Enqueue(t) /\ UNCHANGED <<fallback, cause, locals>>
      <3>1. pc' \in [Agents -> Places] /\ pc'[t] = "removing"
            /\ \A b \in Agents \ {t} : pc'[b] = pc[b]
        BY <2>1, <2>4, Moves
      <3>2. queue' \in Seq(Agents)
        BY <2>1, <2>4, Enqueued
      <3>3. TypeOK'
        BY <2>2, <2>4, <3>1, <3>2 DEF locals, TypeOK, Agents
      <3> QED
        BY <1>0, <2>1, <2>2, <2>4, <3>1, <3>3 DEF locals, Agents
    <2> QED
      BY <1>9, <2>3, <2>4 DEF Unanswered
  <1>10. ASSUME NEW t \in Tunnels, RemoveAndRetry(t)
         PROVE  TypeInv'
    <2>1. t \in Agents /\ t # Resetter /\ "asking" \in Places
      BY Bounds DEF Agents, Places
    <2>2. pc' \in [Agents -> Places] /\ pc'[t] = "asking"
          /\ \A b \in Agents \ {t} : pc'[b] = pc[b]
      BY <1>10, <2>1, Moves DEF RemoveAndRetry
    <2>3. queue' \in Seq(Agents)
      BY <1>10, <2>1, Released DEF RemoveAndRetry
    <2>4. cached' \in 0 .. dialed /\ attempt' \in [Tunnels -> 0 .. 2]
      BY <1>10, Numbers DEF RemoveAndRetry
    <2>5. TypeOK'
      BY <1>10, <2>2, <2>3, <2>4 DEF RemoveAndRetry, history, TypeOK, Agents
    <2> QED
      BY <1>0, <1>10, <2>1, <2>2, <2>5 DEF RemoveAndRetry, history, Agents
  <1>11. ASSUME NEW t \in Tunnels, End(t)
         PROVE  TypeInv'
    <2>1. t \in Agents /\ t # Resetter /\ "idle" \in Places
      BY Bounds DEF Agents, Places
    <2>2. pc' \in [Agents -> Places] /\ pc'[t] = "idle"
          /\ \A b \in Agents \ {t} : pc'[b] = pc[b]
      BY <1>11, <2>1, Moves DEF End
    <2>3. TypeOK'
      BY <1>11, <2>2 DEF End, locals, history, TypeOK, Agents
    <2> QED
      BY <1>0, <1>11, <2>1, <2>2, <2>3 DEF End, locals, history, Agents
  <1>12. CASE Reset \/ Clear \/ EndFallback
    <2>1. {"clearing", "cleared", "idle"} \subseteq Places
      BY DEF Places
    <2>2. pc' \in [Agents -> Places] /\ \A t \in Tunnels : pc'[t] = pc[t]
      BY <1>0, <1>12, <2>1, Moves, Bounds DEF Reset, Clear, EndFallback, Agents
    <2>3. queue' \in Seq(Agents)
      BY <1>0, <1>12, Enqueued, Released DEF Reset, Clear, EndFallback, Release
    <2>4. CASE Reset
      <3>1. TypeOK'
        BY <2>2, <2>3, <2>4 DEF Reset, locals, history, TypeOK, Agents
      <3> QED
        BY <2>2, <2>4, <3>1 DEF Reset, locals, history
    <2>5. CASE Clear
      <3>1. pc'[Resetter] = "cleared"
        BY <1>0, <2>1, <2>5, Moves DEF Clear
      <3>2. /\ cached' \in 0 .. dialed /\ epoch' \in 0 .. MaxResets
            /\ conn_since' \in [Tunnels -> 0 .. epoch'] /\ cached_since' \in 0 .. epoch'
        <4>1. cached' = 0 /\ epoch' = epoch + 1 /\ epoch < MaxResets
              /\ conn_since' = conn_since /\ cached_since' = cached_since
          BY <2>5 DEF Clear
        <4>2. epoch' \in 0 .. MaxResets /\ 0 .. epoch \subseteq 0 .. epoch'
          BY <4>1, Numbers, Bounds
        <4> QED
          BY <4>1, <4>2, Numbers
      <3>3. TypeOK'
        BY <2>2, <2>3, <2>5, <3>2 DEF Clear, locals, TypeOK, Agents
      <3> QED
        BY <2>2, <2>5, <3>1, <3>3 DEF Clear, locals
    <2>6. CASE EndFallback
      <3>1. pc'[Resetter] = "idle"
        BY <1>0, <2>1, <2>6, Moves DEF EndFallback
      <3>2. TypeOK'
        BY <2>2, <2>3, <2>6 DEF EndFallback, locals, history, TypeOK, Agents
      <3> QED
        BY <2>2, <2>6, <3>1, <3>2 DEF EndFallback, locals, history
    <2> QED
      BY <1>12, <2>4, <2>5, <2>6
  <1>13. CASE FallbackEnds \/ (\E m \in Modes : SetMode(m)) \/ (\E c \in open : Closes(c))
    BY <1>13 DEF FallbackEnds, SetMode, Closes, locals, history, TypeOK
  <1> QED
    BY <1>1, <1>2, <1>3, <1>4, <1>5, <1>6, <1>7, <1>8, <1>9, <1>10, <1>11, <1>12, <1>13
    DEF Next, Progress

\* Types; try_connect sends at most two requests.
THEOREM TypeCorrect == Spec => []TypeOK
  <1>1. TypeInv => TypeOK
    BY DEF TypeInv
  <1> QED
    BY TypeInit, TypeStep, <1>1, PTL DEF Spec

-----------------------------------------------------------------------------
(* The mutex, and what is cached.                                          *)

CacheInv == TypeInv /\ DialInv /\ FreshAfterReset /\ RetryInv /\ OnlyInv

LEMMA CacheInit == Init => CacheInv
  <1> SUFFICES ASSUME Init PROVE CacheInv
    OBVIOUS
  <1>1. \A t \in Tunnels : pc[t] = "idle" /\ ~only[t] /\ attempt[t] = 0
    BY DEF Init
  <1> QED
    BY <1>1, TypeInit DEF Init, CacheInv, DialInv, FreshAfterReset, RetryInv, OnlyInv

\* What one step does to the mutex and to what it guards.
LEMMA HolderActs ==
  ASSUME CacheInv, Next, NEW t \in Tunnels, pc[t] = "dialing"
  PROVE  \/ Established(t) \/ NotEstablished(t)
         \/ Holds(t)' /\ UNCHANGED <<cached, epoch, dialed, cached_since>> /\ pc'[t] = pc[t]
              /\ conn_since'[t] = conn_since[t] /\ attempt'[t] = attempt[t]
              /\ used'[t] = used[t] /\ only'[t] = only[t]
  <1> USE DEF CacheInv, TypeInv
  <1>1. Holds(t) /\ t \in Agents /\ t # Resetter /\ queue \in Seq(Agents) /\ cached = 0
    BY Bounds DEF DialInv, Agents, TypeOK
  <1>2. \A a \in Agents : Holds(a) => a = t
    BY <1>1 DEF Holds
  <1> DEFINE Kept == Holds(t)' /\ UNCHANGED <<cached, epoch, dialed, cached_since>> /\ pc'[t] = pc[t]
                       /\ conn_since'[t] = conn_since[t] /\ attempt'[t] = attempt[t]
                       /\ used'[t] = used[t] /\ only'[t] = only[t]
  <1>3. ASSUME NEW u \in Tunnels, Connect(u) \/ Progress(u) \/ End(u)
        PROVE  Established(t) \/ NotEstablished(t) \/ Kept
    <2>1. u \in Agents
      BY DEF Agents
    <2>2. CASE Connect(u)
      <3>1. u # t
        BY <2>2 DEF Connect
      <3>2. pc'[t] = pc[t] /\ only'[t] = only[t] /\ attempt'[t] = attempt[t]
        BY <2>2, <3>1 DEF Connect, Go, TypeOK
      <3>3. Holds(t)'
        BY <1>1, <2>1, <2>2, Enqueued DEF Connect, Holds
      <3> QED
        BY <2>2, <3>2, <3>3 DEF Connect, history
    <2>3. CASE UseCached(u) \/ Dial(u) \/ RemoveAndRetry(u) \/ RemoveAndFail(u)
      BY <1>2, <2>1, <2>3 DEF UseCached, Dial, RemoveAndRetry, RemoveAndFail
    <2>4. CASE Established(u) \/ NotEstablished(u)
      BY <1>2, <2>1, <2>4 DEF Established, NotEstablished
    <2>5. CASE Opened(u) \/ Unauthorized(u) \/ OtherStatus(u)
      <3>1. u # t /\ Forget(u) /\ UNCHANGED <<cached, dialed, queue, epoch, conn_since, cached_since>>
        BY <2>5 DEF Opened, Unauthorized, OtherStatus, history
      <3>2. pc'[t] = pc[t]
        BY <2>5, <3>1 DEF Opened, Unauthorized, OtherStatus, Failed, Go, TypeOK
      <3>3. Holds(t)'
        BY <1>1, <3>1 DEF Holds
      <3> QED
        BY <3>1, <3>2, <3>3, Forgotten
    <2>6. CASE Unanswered(u)
      <3>1. u # t /\ UNCHANGED <<cached, dialed, epoch, conn_since, cached_since>>
        BY <2>6 DEF Unanswered
      <3>2. pc'[t] = pc[t]
        BY <2>6, <3>1 DEF Unanswered, Failed, Go, TypeOK
      <3>3. Holds(t)'
        BY <1>1, <2>1, <2>6, Enqueued DEF Unanswered, Holds
      <3>4. CASE Forget(u)
        BY <3>1, <3>2, <3>3, <3>4, Forgotten
      <3>5. CASE UNCHANGED locals
        BY <3>1, <3>2, <3>3, <3>5 DEF locals
      <3> QED
        BY <2>6, <3>4, <3>5 DEF Unanswered
    <2>7. CASE End(u)
      <3>1. u # t /\ UNCHANGED <<cached, queue, dialed, locals, history>>
        BY <2>7 DEF End
      <3>2. pc'[t] = pc[t]
        BY <2>7, <3>1 DEF End, Go, TypeOK
      <3> QED
        BY <1>1, <3>1, <3>2 DEF Holds, locals, history
    <2> QED
      BY <1>3, <2>2, <2>3, <2>4, <2>5, <2>6, <2>7 DEF Progress
  <1>4. CASE Reset
    <2>1. Holds(t)'
      BY <1>1, <1>4, Enqueued DEF Reset, Agents
    <2>2. pc'[t] = pc[t]
      BY <1>1, <1>4 DEF Reset, Go, TypeOK
    <2> QED
      BY <1>4, <2>1, <2>2 DEF Reset, locals, history
  <1>5. CASE Clear
    BY <1>1, <1>2, <1>5 DEF Clear, Agents
  <1>6. CASE EndFallback
    <2>1. pc'[t] = pc[t]
      BY <1>1, <1>6 DEF EndFallback, Go, TypeOK
    <2> QED
      BY <1>1, <1>6, <2>1 DEF EndFallback, Holds, locals, history
  <1>7. CASE FallbackEnds \/ (\E m \in Modes : SetMode(m)) \/ (\E c \in open : Closes(c))
    BY <1>1, <1>7 DEF FallbackEnds, SetMode, Closes, Holds, locals, history
  <1> QED
    BY <1>3, <1>4, <1>5, <1>6, <1>7 DEF Next

\* A tunnel that does not act stays where and as it is.
LEMMA Unmoved ==
  ASSUME TypeOK, Next, NEW t \in Tunnels, ~Connect(t), ~Progress(t), ~End(t)
  PROVE  pc'[t] = pc[t] /\ only'[t] = only[t] /\ attempt'[t] = attempt[t] /\ used'[t] = used[t]
  <1> DEFINE Same == pc'[t] = pc[t] /\ only'[t] = only[t] /\ attempt'[t] = attempt[t]
                       /\ used'[t] = used[t]
  <1>1. ASSUME NEW u \in Tunnels, Connect(u) \/ End(u) \/ UseCached(u) \/ Dial(u) \/ Established(u)
                                    \/ RemoveAndRetry(u)
        PROVE  Same
    <2>1. u # t
      BY <1>1 DEF Progress
    <2> QED
      BY <1>1, <2>1 DEF Connect, End, UseCached, Dial, Established, RemoveAndRetry, Go, locals, TypeOK
  <1>2. ASSUME NEW u \in Tunnels, NotEstablished(u) \/ Opened(u) \/ Unauthorized(u)
                                    \/ OtherStatus(u) \/ RemoveAndFail(u)
        PROVE  Same
    <2>1. u # t
      BY <1>2 DEF Progress
    <2>2. pc'[t] = pc[t]
      BY <1>2, <2>1 DEF NotEstablished, Opened, Unauthorized, OtherStatus, RemoveAndFail, Failed, Go,
                        TypeOK
    <2>3. Forget(u)
      BY <1>2 DEF NotEstablished, Opened, Unauthorized, OtherStatus, RemoveAndFail
    <2> QED
      BY <2>1, <2>2, <2>3, Forgotten
  <1>3. ASSUME NEW u \in Tunnels, Unanswered(u)
        PROVE  Same
    <2>1. u # t
      BY <1>3 DEF Progress
    <2>2. pc'[t] = pc[t]
      BY <1>3, <2>1 DEF Unanswered, Failed, Go, TypeOK
    <2>3. Forget(u) \/ UNCHANGED locals
      BY <1>3 DEF Unanswered
    <2> QED
      BY <2>1, <2>2, <2>3, Forgotten DEF locals
  <1>4. CASE Reset \/ Clear \/ EndFallback
    BY <1>4, Bounds DEF Reset, Clear, EndFallback, Go, locals, TypeOK
  <1>5. CASE FallbackEnds \/ (\E m \in Modes : SetMode(m)) \/ (\E c \in open : Closes(c))
    BY <1>5 DEF FallbackEnds, SetMode, Closes, locals
  <1> QED
    BY <1>1, <1>2, <1>3, <1>4, <1>5 DEF Next, Progress

\* The cache is filled by a handshake only, and a reset empties it.
LEMMA CacheChanges ==
  ASSUME CacheInv, Next
  PROVE  \/ cached' = 0
         \/ UNCHANGED <<cached, cached_since, epoch>>
         \/ \E t \in Tunnels :
              /\ Established(t) /\ cached = 0 /\ cached' = dialed + 1
              /\ cached_since' = epoch /\ epoch' = epoch
  <1> USE DEF CacheInv, TypeInv
  <1>1. ASSUME NEW t \in Tunnels, Established(t)
        PROVE  /\ cached = 0 /\ cached' = dialed + 1
               /\ cached_since' = epoch /\ epoch' = epoch
    BY <1>1 DEF Established, DialInv
  <1>2. ASSUME NEW t \in Tunnels, Connect(t) \/ End(t) \/ UseCached(t) \/ NotEstablished(t) \/ Opened(t)
                                    \/ Unauthorized(t) \/ OtherStatus(t) \/ Unanswered(t)
        PROVE  UNCHANGED <<cached, cached_since, epoch>>
    BY <1>2 DEF Connect, End, UseCached, NotEstablished, Opened, Unauthorized, OtherStatus,
                Unanswered, history
  <1>3. ASSUME NEW t \in Tunnels, Dial(t) \/ RemoveAndRetry(t) \/ RemoveAndFail(t)
        PROVE  cached' = 0
    BY <1>3 DEF Dial, RemoveAndRetry, RemoveAndFail
  <1>4. CASE Reset \/ Clear \/ EndFallback \/ FallbackEnds \/ (\E m \in Modes : SetMode(m))
               \/ (\E c \in open : Closes(c))
    BY <1>4 DEF Reset, Clear, EndFallback, FallbackEnds, SetMode, Closes, history
  <1> QED
    BY <1>1, <1>2, <1>3, <1>4 DEF Next, Progress

\* Where the steps of a tunnel lead.
LEMMA LeadsTo ==
  ASSUME CacheInv, Next, NEW t \in Tunnels, Connect(t) \/ Progress(t) \/ End(t)
  PROVE  /\ pc'[t] = "dialing" => Dial(t)
         /\ pc'[t] = "asking" => attempt'[t] = 1 \/ cached' = 0
         /\ pc'[t] = "requesting" => UseCached(t) \/ Established(t)
         /\ pc'[t] \in {"idle", "open", "tcp", "refused", "failed"} => ~only'[t]
         /\ only[t] => pc'[t] # "tcp" /\ (fallback' => fallback)
  <1> USE DEF CacheInv, TypeInv
  <1>1. t \in Tunnels \cup {Resetter} /\ pc \in [Tunnels \cup {Resetter} -> Places]
    BY DEF TypeOK
  <1>2. CASE Connect(t)
    <2>1. ~only[t]
      BY <1>2 DEF Connect, OnlyInv
    <2>2. CASE Go(t, "tcp") /\ UNCHANGED <<queue, only, attempt>>
      BY <1>1, <2>1, <2>2 DEF Go
    <2>3. CASE Go(t, "asking") /\ attempt' = [attempt EXCEPT ![t] = 1]
      BY <1>1, <2>1, <2>3, Numbers DEF Go
    <2> QED
      BY <1>2, <2>2, <2>3 DEF Connect
  <1>3. CASE UseCached(t) \/ Established(t)
    BY <1>1, <1>3 DEF UseCached, Established, Go
  <1>4. CASE Dial(t)
    BY <1>1, <1>4 DEF Dial, Go
  <1>5. CASE RemoveAndRetry(t)
    BY <1>1, <1>5 DEF RemoveAndRetry, Go
  <1>6. CASE Opened(t) \/ Unauthorized(t)
    BY <1>1, <1>6, Forgotten DEF Opened, Unauthorized, Go
  <1>7. CASE NotEstablished(t) \/ OtherStatus(t) \/ RemoveAndFail(t)
    <2>1. Forget(t) /\ \E why \in {"status", "no answer"} : Failed(t, why)
      BY <1>7 DEF NotEstablished, OtherStatus, RemoveAndFail
    <2> QED
      BY <2>1, Forgotten, FailedTyped
  <1>8. CASE Unanswered(t)
    <2>1. CASE Failed(t, "no answer") /\ Forget(t)
      BY <2>1, Forgotten, FailedTyped
    <2>2. CASE Go(t, "removing") /\ UNCHANGED <<fallback, cause, locals>>
      BY <1>1, <2>2 DEF Go
    <2> QED
      BY <1>8, <2>1, <2>2 DEF Unanswered
  <1>9. CASE End(t)
    <2>1. pc'[t] = "idle" /\ only'[t] = only[t] /\ fallback' = fallback
      BY <1>1, <1>9 DEF End, Go, locals
    <2>2. ~only[t]
      BY <1>9 DEF End, OnlyInv
    <2> QED
      BY <2>1, <2>2
  <1> QED
    BY <1>2, <1>3, <1>4, <1>5, <1>6, <1>7, <1>8, <1>9 DEF Progress

LEMMA CacheStep == CacheInv /\ [Next]_vars => CacheInv'
  <1> SUFFICES ASSUME CacheInv, [Next]_vars PROVE CacheInv'
    OBVIOUS
  <1>1. CASE UNCHANGED vars
    BY <1>1, TypeStep DEF vars, locals, history, CacheInv, DialInv, FreshAfterReset, RetryInv, OnlyInv, Holds
  <1>2. CASE Next
    <2> USE DEF CacheInv
    <2>1. TypeInv'
      BY TypeStep
    <2>2. DialInv'
      <3> SUFFICES ASSUME NEW t \in Tunnels, pc'[t] = "dialing"
                   PROVE  Holds(t)' /\ cached' = 0 /\ conn_since'[t] = epoch'
        BY DEF DialInv
      <3>1. CASE pc[t] = "dialing"
        <4>1. ~Established(t)
          BY DEF Established, Go, TypeInv, TypeOK
        <4>2. ~NotEstablished(t)
          BY DEF NotEstablished, Failed, Go, TypeInv, TypeOK
        <4> QED
          BY <1>2, <3>1, <4>1, <4>2, HolderActs DEF DialInv
      <3>2. CASE pc[t] # "dialing"
        <4>1. Dial(t)
          BY <1>2, <3>2, Unmoved, LeadsTo DEF TypeInv
        <4>2. conn_since'[t] = epoch
          BY <4>1, Numbers DEF Dial, TypeInv
        <4> QED
          BY <4>1, <4>2 DEF Dial, Holds
      <3> QED
        BY <3>1, <3>2
    <2>3. FreshAfterReset'
      BY <1>2, CacheChanges DEF FreshAfterReset
    <2>4. RetryInv'
      <3> SUFFICES ASSUME NEW t \in Tunnels, attempt'[t] = 2, pc'[t] \in {"asking", "dialing"},
                          cached' # 0
                   PROVE  cached' # used'[t]
        BY DEF RetryInv
      <3>1. ~Dial(t)
        BY DEF Dial
      <3>2. ~Connect(t) /\ ~Progress(t) /\ ~End(t)
        BY <1>2, <3>1, LeadsTo
      <3>3. pc'[t] = pc[t] /\ attempt'[t] = attempt[t] /\ used'[t] = used[t]
        BY <1>2, <3>2, Unmoved DEF TypeInv
      <3>4. cached' = cached \/ cached' = dialed + 1
        BY <1>2, CacheChanges
      <3>5. used[t] # dialed + 1
        BY Numbers DEF TypeInv
      <3> QED
        BY <3>3, <3>4, <3>5 DEF RetryInv
    <2>5. OnlyInv'
      BY <1>2, Unmoved, LeadsTo DEF OnlyInv, TypeInv
    <2> QED
      BY <2>1, <2>2, <2>3, <2>4, <2>5
  <1> QED
    BY <1>1, <1>2

\* What is cached was dialed after the last reset (CHANGELOG 0.5.1).
THEOREM Fresh == Spec => []FreshAfterReset
  <1>1. CacheInv => FreshAfterReset
    BY DEF CacheInv
  <1> QED
    BY CacheInit, CacheStep, <1>1, PTL DEF Spec

\* Tunnels that find the cache empty at once share one handshake (298-311).
THEOREM NeverOverwritten == Spec => InsertNeverOverwrites
  <1>1. CacheInv /\ [Next]_vars => [cached' \notin {0, cached} => cached = 0]_vars
    BY CacheChanges DEF vars
  <1> QED
    BY CacheInit, CacheStep, <1>1, PTL DEF Spec, InsertNeverOverwrites

\* The second request of try_connect goes out on another connection.
THEOREM RetriedElsewhere == Spec => RetryOnOtherConnection
  <1> DEFINE Elsewhere ==
        \A t \in Tunnels :
          attempt[t] = 2 /\ pc[t] # "requesting" /\ pc'[t] = "requesting" => used'[t] # used[t]
  <1>1. ASSUME CacheInv, Next PROVE Elsewhere
    <2> SUFFICES ASSUME NEW t \in Tunnels, attempt[t] = 2, pc[t] # "requesting",
                        pc'[t] = "requesting"
                 PROVE  used'[t] # used[t]
      OBVIOUS
    <2>1. UseCached(t) \/ Established(t)
      BY <1>1, Unmoved, LeadsTo DEF CacheInv, TypeInv
    <2>2. used[t] # dialed + 1 /\ used[t] \in 0 .. dialed /\ 0 \notin open
      BY <1>1, Numbers DEF CacheInv, TypeInv
    <2>3. CASE UseCached(t)
      <3>1. used'[t] = cached /\ cached # 0
        BY <1>1, <2>2, <2>3, Numbers DEF UseCached, CacheInv, TypeInv
      <3> QED
        BY <1>1, <2>3, <3>1 DEF UseCached, CacheInv, RetryInv
    <2>4. CASE Established(t)
      <3>1. used'[t] = dialed + 1
        BY <1>1, <2>4, Numbers DEF Established, CacheInv, TypeInv
      <3> QED
        BY <2>2, <3>1
    <2> QED
      BY <2>1, <2>3, <2>4
  <1>2. CacheInv /\ [Next]_vars => [Elsewhere]_vars
    BY <1>1
  <1> QED
    BY CacheInit, CacheStep, <1>2, PTL DEF Spec, RetryOnOtherConnection

\* A tunnel that called connect in the mode Only stays off TCP (CHANGELOG 0.6.0).
THEOREM NeverOverTcp == Spec => OnlyNeverFallsBack
  <1> DEFINE Stays ==
        \A t \in Tunnels : only[t] /\ pc'[t] # pc[t] => pc'[t] # "tcp" /\ (fallback' => fallback)
  <1>1. ASSUME CacheInv, Next PROVE Stays
    BY <1>1, Unmoved, LeadsTo DEF CacheInv, TypeInv
  <1>2. CacheInv /\ [Next]_vars => [Stays]_vars
    BY <1>1
  <1> QED
    BY CacheInit, CacheStep, <1>2, PTL DEF Spec, OnlyNeverFallsBack

-----------------------------------------------------------------------------
(* SharedConnection is implemented.                                        *)

\* A tunnel that has not sent a request yet, or is done with it, is on no connection.
UsedInv ==
  \A t \in Tunnels :
    \/ pc[t] \in {"asking", "dialing"} /\ attempt[t] # 2
    \/ pc[t] \in {"idle", "open", "tcp", "refused", "failed"}
    => used[t] = 0

SharedInv == CacheInv /\ UsedInv

\* Some tunnel dials.
Connecting == \E t \in Tunnels : pc[t] = "dialing"

\* What a tunnel's request is on changes with the request.
LEMMA UsedStep ==
  ASSUME SharedInv, Next
  PROVE  UsedInv'
  <1> USE DEF SharedInv, CacheInv, TypeInv
  <1> SUFFICES ASSUME NEW t \in Tunnels,
                      \/ pc'[t] \in {"asking", "dialing"} /\ attempt'[t] # 2
                      \/ pc'[t] \in {"idle", "open", "tcp", "refused", "failed"}
               PROVE  used'[t] = 0
    BY DEF UsedInv
  <1>0. /\ pc \in [Tunnels \cup {Resetter} -> Places] /\ used \in [Tunnels -> 0 .. dialed]
        /\ attempt \in [Tunnels -> 0 .. 2] /\ t \in Tunnels \cup {Resetter}
    BY Numbers DEF TypeOK
  <1>1. CASE ~Connect(t) /\ ~Progress(t) /\ ~End(t)
    <2>1. pc'[t] = pc[t] /\ attempt'[t] = attempt[t] /\ used'[t] = used[t]
      BY <1>1, Unmoved
    <2> QED
      BY <2>1 DEF UsedInv
  <1>2. CASE Connect(t) \/ End(t)
    <2>1. used[t] = 0 /\ used' = used
      BY <1>2 DEF Connect, End, UsedInv, locals
    <2> QED
      BY <2>1
  <1>3. CASE Dial(t)
    <2>1. pc[t] = "asking" /\ pc'[t] = "dialing" /\ attempt' = attempt /\ used' = used
      BY <1>0, <1>3 DEF Dial, Go, locals
    <2> QED
      BY <2>1 DEF UsedInv
  <1>4. CASE UseCached(t) \/ Established(t)
    BY <1>0, <1>4 DEF UseCached, Established, Go
  <1>5. CASE RemoveAndRetry(t)
    <2>1. pc'[t] = "asking" /\ attempt'[t] = 2
      BY <1>0, <1>5 DEF RemoveAndRetry, Go
    <2> QED
      BY <2>1
  <1>6. CASE Forget(t)
    BY <1>0, <1>6 DEF Forget
  <1>7. CASE Unanswered(t) /\ ~Forget(t)
    BY <1>0, <1>7 DEF Unanswered, Go
  <1> QED
    BY <1>1, <1>2, <1>3, <1>4, <1>5, <1>6, <1>7
    DEF Progress, NotEstablished, Opened, Unauthorized, OtherStatus, RemoveAndFail

\* While one has the mutex, no other dials,
LEMMA Alone ==
  ASSUME CacheInv, NEW a \in Agents, Holds(a)
  PROVE  \A t \in Tunnels : pc[t] = "dialing" => t = a
  BY DEF CacheInv, DialInv, Holds

\* and a step that leads neither to nor from a handshake leaves the one under way alone.
LEMMA StillConnecting ==
  ASSUME NEW a \in Agents, pc[a] # "dialing", pc'[a] # "dialing",
         \A b \in Agents \ {a} : pc'[b] = pc[b]
  PROVE  Connecting' = Connecting
  <1>1. \A t \in Tunnels : pc'[t] = "dialing" <=> pc[t] = "dialing"
    BY DEF Agents
  <1> QED
    BY <1>1 DEF Connecting

\* What a tunnel does is a step of SharedConnection, or is nothing to it.
LEMMA TunnelShares ==
  ASSUME SharedInv, NEW t \in Tunnels, Connect(t) \/ Progress(t) \/ End(t)
  PROVE  \/ UNCHANGED <<cached, dialed, open, used>> /\ Connecting' = Connecting
         \/ Shared!Next
  <1> USE DEF SharedInv, CacheInv, TypeInv
  <1>0. t \in Agents /\ t # Resetter /\ pc \in [Agents -> Places]
    BY Bounds DEF Agents, TypeOK
  <1>1. Holds(t) => (Connecting <=> pc[t] = "dialing")
    BY <1>0, Alone DEF Connecting
  <1>2. \A p \in Places : Go(t, p) => pc'[t] = p /\ \A b \in Agents \ {t} : pc'[b] = pc[b]
    BY <1>0, Moves
  <1>3. CASE Connect(t)
    <2>1. UNCHANGED <<cached, dialed, open, used>>
      BY <1>3 DEF Connect
    <2>2. Go(t, "tcp") \/ Go(t, "asking")
      BY <1>3 DEF Connect
    <2>3. Connecting' = Connecting
      BY <1>0, <1>2, <1>3, <2>2, StillConnecting DEF Connect, Places
    <2> QED
      BY <2>1, <2>3
  <1>4. CASE End(t)
    <2>1. Connecting' = Connecting
      BY <1>0, <1>2, <1>4, StillConnecting DEF End, Places
    <2> QED
      BY <1>4, <2>1 DEF End, locals
  <1>5. CASE UseCached(t)
    <2>1. ~Connecting
      BY <1>1, <1>5 DEF UseCached
    <2>2. Connecting' = Connecting
      BY <1>0, <1>2, <1>5, StillConnecting DEF UseCached, Places
    <2>3. used[t] # cached
      <3>1. cached # 0
        BY <1>5, Numbers DEF UseCached
      <3> QED
        BY <1>5, <3>1 DEF UseCached, RetryInv, UsedInv
    <2>4. Shared!Give(t)
      BY <1>5, <2>1, <2>2, <2>3 DEF UseCached, Connecting, Shared!Give
    <2> QED
      BY <2>4 DEF Shared!Next
  <1>6. CASE Dial(t)
    <2>1. ~Connecting
      BY <1>1, <1>6 DEF Dial
    <2>2. pc'[t] = "dialing"
      BY <1>2, <1>6 DEF Dial, Places
    <2>3. Connecting'
      BY <2>2 DEF Connecting
    <2>4. Shared!Begin
      BY <1>6, <2>1, <2>3 DEF Dial, locals, Connecting, Shared!Begin
    <2> QED
      BY <2>4 DEF Shared!Next
  <1>7. CASE Established(t)
    <2>1. Connecting
      BY <1>1, <1>7 DEF Established
    <2>2. ~Connecting'
      BY <1>0, <1>2, <1>7, Alone DEF Established, Places, Connecting, Agents
    <2>3. Shared!Finish(t)
      BY <1>7, <2>1, <2>2 DEF Established, Connecting, Shared!Finish
    <2> QED
      BY <2>3 DEF Shared!Next
  <1>8. CASE NotEstablished(t)
    <2>1. Connecting
      BY <1>1, <1>8 DEF NotEstablished
    <2>2. ~Connecting'
      BY <1>0, <1>8, Alone, FailedTyped DEF NotEstablished, Connecting, Agents
    <2>3. Shared!GiveUp(t)
      BY <1>8, <2>1, <2>2 DEF NotEstablished, Forget, Connecting, Shared!GiveUp
    <2> QED
      BY <2>3 DEF Shared!Next
  <1>9. CASE Opened(t) \/ Unauthorized(t)
    <2>1. Connecting' = Connecting
      BY <1>0, <1>2, <1>9, StillConnecting DEF Opened, Unauthorized, Places
    <2>2. Shared!Leave(t)
      BY <1>9, <2>1 DEF Opened, Unauthorized, Forget, Connecting, Shared!Leave
    <2> QED
      BY <2>2 DEF Shared!Next
  <1>10. CASE OtherStatus(t)
    <2>1. Connecting' = Connecting
      BY <1>0, <1>10, StillConnecting, FailedTyped DEF OtherStatus
    <2>2. Shared!Leave(t)
      BY <1>10, <2>1 DEF OtherStatus, Forget, Connecting, Shared!Leave
    <2> QED
      BY <2>2 DEF Shared!Next
  <1>11. CASE Unanswered(t)
    <2>1. CASE Failed(t, "no answer") /\ Forget(t)
      <3>1. Connecting' = Connecting
        BY <1>0, <1>11, <2>1, StillConnecting, FailedTyped DEF Unanswered
      <3>2. Shared!Leave(t)
        BY <1>11, <2>1, <3>1 DEF Unanswered, Forget, Connecting, Shared!Leave
      <3> QED
        BY <3>2 DEF Shared!Next
    <2>2. CASE Go(t, "removing") /\ UNCHANGED locals
      <3>1. Connecting' = Connecting
        BY <1>0, <1>2, <1>11, <2>2, StillConnecting DEF Unanswered, Places
      <3> QED
        BY <1>11, <2>2, <3>1 DEF Unanswered, locals
    <2> QED
      BY <1>11, <2>1, <2>2 DEF Unanswered
  <1>12. CASE RemoveAndRetry(t)
    <2>1. ~Connecting
      BY <1>1, <1>12 DEF RemoveAndRetry
    <2>2. Connecting' = Connecting
      BY <1>0, <1>2, <1>12, StillConnecting DEF RemoveAndRetry, Places
    <2>3. Shared!Drop
      BY <1>12, <2>1, <2>2 DEF RemoveAndRetry, Connecting, Shared!Drop
    <2> QED
      BY <2>3 DEF Shared!Next
  <1>13. CASE RemoveAndFail(t)
    <2>1. ~Connecting
      BY <1>1, <1>13 DEF RemoveAndFail
    <2>2. Connecting' = Connecting
      BY <1>0, <1>13, StillConnecting, FailedTyped DEF RemoveAndFail
    <2>3. Shared!DropAndLeave(t)
      BY <1>13, <2>1, <2>2 DEF RemoveAndFail, Forget, Connecting, Shared!DropAndLeave
    <2> QED
      BY <2>3 DEF Shared!Next
  <1> QED
    BY <1>3, <1>4, <1>5, <1>6, <1>7, <1>8, <1>9, <1>10, <1>11, <1>12, <1>13 DEF Progress

\* A reset drops the connection, and waits for a handshake that is under way.
LEMMA ResetShares ==
  ASSUME SharedInv, Reset \/ Clear \/ EndFallback
  PROVE  \/ UNCHANGED <<cached, dialed, open, used>> /\ Connecting' = Connecting
         \/ Shared!Next
  <1> USE DEF SharedInv, CacheInv, TypeInv
  <1>0. Resetter \in Agents /\ Resetter \notin Tunnels /\ pc \in [Agents -> Places]
    BY Bounds DEF Agents, TypeOK
  <1>1. \A t \in Tunnels : pc'[t] = pc[t]
    BY <1>0 DEF Reset, Clear, EndFallback, Go, Agents
  <1>2. Connecting' = Connecting
    BY <1>1 DEF Connecting
  <1>3. CASE Reset \/ EndFallback
    BY <1>2, <1>3 DEF Reset, EndFallback, locals
  <1>4. CASE Clear
    <2>1. ~Connecting
      BY <1>0, <1>4, Alone DEF Clear, Connecting
    <2>2. Shared!Drop
      BY <1>2, <1>4, <2>1 DEF Clear, locals, Connecting, Shared!Drop
    <2> QED
      BY <2>2 DEF Shared!Next
  <1> QED
    BY <1>3, <1>4

LEMMA StepShares == SharedInv /\ [Next]_vars => [Shared!Next]_Shared!vars
  <1> SUFFICES ASSUME SharedInv, [Next]_vars PROVE [Shared!Next]_Shared!vars
    OBVIOUS
  <1>1. ASSUME UNCHANGED <<cached, dialed, open, used>>, Connecting' = Connecting
        PROVE  UNCHANGED Shared!vars
    BY <1>1 DEF Connecting, Shared!vars
  <1>2. CASE UNCHANGED vars
    <2>1. Connecting' = Connecting
      BY <1>2 DEF vars, Connecting
    <2> QED
      BY <1>1, <1>2, <2>1 DEF vars, locals
  <1>3. ASSUME NEW t \in Tunnels, Connect(t) \/ Progress(t) \/ End(t)
        PROVE  [Shared!Next]_Shared!vars
    BY <1>1, <1>3, TunnelShares
  <1>4. CASE Reset \/ Clear \/ EndFallback
    BY <1>1, <1>4, ResetShares
  <1>5. CASE FallbackEnds \/ (\E m \in Modes : SetMode(m))
    <2>1. UNCHANGED <<cached, dialed, open, used, pc>>
      BY <1>5 DEF FallbackEnds, SetMode, locals
    <2>2. Connecting' = Connecting
      BY <2>1 DEF Connecting
    <2> QED
      BY <1>1, <2>1, <2>2
  <1>6. ASSUME NEW c \in open, Closes(c)
        PROVE  [Shared!Next]_Shared!vars
    <2>1. UNCHANGED <<cached, dialed, used, pc>> /\ open' = open \ {c}
      BY <1>6 DEF Closes, locals
    <2>2. Connecting' = Connecting
      BY <2>1 DEF Connecting
    <2>3. Shared!Close(c)
      BY <2>1, <2>2 DEF Connecting, Shared!Close
    <2> QED
      BY <2>3 DEF Shared!Next
  <1> QED
    BY <1>2, <1>3, <1>4, <1>5, <1>6 DEF Next

\* The cache of http3.rs implements SharedConnection: one handshake at a time, begun
\* only when no connection to share is open; nothing is given out, dropped or reset
\* while it lasts; and no tunnel is given the connection again that did not answer it.
THEOREM SharesOne == Spec => ImplementsShared
  <1>1. Init => Shared!Init
    <2> SUFFICES ASSUME Init PROVE Shared!Init
      OBVIOUS
    <2>1. \A t \in Tunnels : pc[t] = "idle"
      BY DEF Init
    <2> QED
      BY <2>1 DEF Init, Shared!Init
  <1>2. Init => SharedInv
    BY CacheInit DEF Init, SharedInv, UsedInv
  <1>3. SharedInv /\ [Next]_vars => SharedInv'
    <2> SUFFICES ASSUME SharedInv, [Next]_vars PROVE SharedInv'
      OBVIOUS
    <2>1. CASE UNCHANGED vars
      BY <2>1, CacheStep DEF vars, locals, SharedInv, UsedInv
    <2>2. CASE Next
      BY <2>2, CacheStep, UsedStep DEF SharedInv
    <2> QED
      BY <2>1, <2>2
  <1> QED
    BY <1>1, <1>2, <1>3, StepShares, PTL DEF Spec, ImplementsShared, Shared!Spec
=============================================================================
