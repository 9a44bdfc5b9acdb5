--------------------------- MODULE LiveViews_proofs ---------------------------
(***************************************************************************)
(* For every set of writes, parts, keys and viewers: a cached page lacks a *)
(* write that has cleared the cache only if the request that stored it was *)
(* reading at that time.  The argument is about the request: each part it  *)
(* has read includes what had been cleared before, since nothing is        *)
(* cleared before it is committed, and what is cleared while it is open is *)
(* noted in it.  On the dashboard, whoever is told of a write sees it once *)
(* his fetch is over.                                                      *)
(***************************************************************************)
EXTENDS LiveViews, TLAPS

(* What an open request knows of the parts it has read.                    *)
VisitKnows(x, C) ==
    x.open => \A p \in Shows[x.key] \ x.left : \A w \in C :
                  p \in Changes(w) => w \in x.data[p] \cup x.over

(* The inductive invariant.                                                *)
ClearedIsStored == \A w \in cleared : write[w] # "new"
IInv ==
    /\ TypeOK
    /\ ClearedIsStored
    /\ \A v \in Viewers : VisitKnows(visit[v], cleared)
    /\ StaleOnlyByOverlap

LEMMA NothingTyped ==
    /\ Nothing \in [Parts -> SUBSET Writes]
    /\ NoEntry \in Entry
    /\ NoVisit \in Visit /\ ~NoVisit.open
    /\ NoQuery \in Query
<1>1. Nothing \in [Parts -> SUBSET Writes]
    BY DEF Nothing
<1>2. NoEntry \in Entry
    BY <1>1, ViewsAssumption DEF NoEntry, Entry
<1>3. (CHOOSE k \in Keys : TRUE) \in Keys
    BY ViewsAssumption
<1>4. NoVisit \in Visit /\ ~NoVisit.open
    BY <1>1, <1>3 DEF NoVisit, Visit
<1>5. NoQuery \in Query
    BY DEF NoQuery, Query
<1> QED BY <1>1, <1>2, <1>4, <1>5

LEMMA StoredTyped == \A p : Stored(p) \in SUBSET Writes
BY DEF Stored

LEMMA InitIInv == Init => IInv
<1> SUFFICES ASSUME Init PROVE IInv
    OBVIOUS
<1> USE NothingTyped, ViewsAssumption
<1>1. TypeOK
  <2>1. kind \in [Viewers -> {"visitor", "operator"}]
      BY DEF Init
  <2>2. cache \in [Keys -> Entry] /\ visit \in [Viewers -> Visit] /\ query \in [Viewers -> [Parts -> Query]]
      BY DEF Init
  <2>3. /\ write \in [Writes -> {"new", "committed", "published", "relayed", "done"}]
        /\ cleared \subseteq Writes /\ online \subseteq Viewers
        /\ inbox \in [Viewers -> SUBSET Writes] /\ untold \in [Viewers -> SUBSET Writes]
        /\ faults \in 0..MaxFaults
      BY DEF Init
  <2> QED BY <2>1, <2>2, <2>3 DEF TypeOK
<1>2. ClearedIsStored
    BY DEF Init, ClearedIsStored
<1>3. \A v \in Viewers : VisitKnows(visit[v], cleared)
    BY DEF Init, VisitKnows
<1>4. StaleOnlyByOverlap
    BY DEF Init, StaleOnlyByOverlap
<1> QED BY <1>1, <1>2, <1>3, <1>4 DEF IInv

-----------------------------------------------------------------------------
(* Types.                                                                  *)

LEMMA WriteTypes ==
    ASSUME TypeOK, NEW w \in Writes,
           \/ Commit(w) \/ Publish(w) \/ Relay(w) \/ InvalidateCache(w) \/ NotCleared(w)
           \/ MessageLost(w)
    PROVE  TypeOK'
<1> USE NothingTyped, ViewsAssumption DEF TypeOK
<1>1. CASE Commit(w)
    BY <1>1 DEF Commit, pageVars, dashVars
<1>2. CASE Publish(w)
    BY <1>2 DEF Publish, pageVars, dashVars
<1>3. CASE Relay(w)
    BY <1>3 DEF Relay, pageVars
<1>4. Respond(w) => inbox' \in [Viewers -> SUBSET Writes]
    BY DEF Respond
<1>5. Cleared(w) => /\ cleared' \subseteq Writes
                    /\ cache' \in [Keys -> Entry] /\ visit' \in [Viewers -> Visit]
  <2> SUFFICES ASSUME Cleared(w)
               PROVE  cleared' \subseteq Writes /\ cache' \in [Keys -> Entry] /\ visit' \in [Viewers -> Visit]
      OBVIOUS
  <2>1. \A x \in Visit : [x EXCEPT !.over = @ \cup {w}] \in Visit
      BY DEF Visit
  <2> QED BY <2>1 DEF Cleared
<1>6. CASE InvalidateCache(w)
    BY <1>4, <1>5, <1>6 DEF InvalidateCache
<1>7. CASE NotCleared(w)
    BY <1>4, <1>7 DEF NotCleared, pageVars
<1>8. CASE MessageLost(w)
    BY <1>8 DEF MessageLost, pageVars
<1> QED BY <1>1, <1>2, <1>3, <1>6, <1>7, <1>8

LEMMA PageTypes ==
    ASSUME TypeOK, NEW v \in Viewers,
           Serving(v) \/ SetFails(v) \/ (\E k \in Keys : Miss(v, k))
    PROVE  TypeOK'
<1> USE NothingTyped, ViewsAssumption DEF TypeOK
<1>1. CASE SetFails(v)
    BY <1>1 DEF SetFails, dashVars
<1>2. ASSUME NEW k \in Keys, Miss(v, k) PROVE TypeOK'
  <2>1. [NoVisit EXCEPT !.key = k, !.open = TRUE, !.left = Shows[k]] \in Visit
      BY DEF Visit
  <2>2. visit' \in [Viewers -> Visit]
      BY <1>2, <2>1 DEF Miss
  <2>3. faults' \in 0..MaxFaults
    <3>1. UNCHANGED faults \/ (faults < MaxFaults /\ faults' = faults + 1)
        BY <1>2 DEF Miss
    <3>2. faults \in 0..MaxFaults /\ MaxFaults \in Nat
        OBVIOUS
    <3> QED BY <3>1, <3>2
  <2> QED BY <1>2, <2>2, <2>3 DEF Miss, dashVars
<1>3. ASSUME NEW p \in Parts, ReadPart(v, p) PROVE TypeOK'
  <2>1. [visit[v] EXCEPT !.left = @ \ {p}, !.data[p] = Stored(p)] \in Visit
      BY StoredTyped DEF Visit
  <2>2. visit' \in [Viewers -> Visit]
      BY <1>3, <2>1 DEF ReadPart
  <2> QED BY <1>3, <2>2 DEF ReadPart, dashVars
<1>4. CASE SetCache(v)
  <2>1. [filled |-> TRUE, data |-> visit[v].data, ttl |-> TTL, over |-> visit[v].over] \in Entry
      BY DEF Visit, Entry
  <2>2. cache' \in [Keys -> Entry] /\ visit' \in [Viewers -> Visit]
      BY <1>4, <2>1 DEF SetCache
  <2> QED BY <1>4, <2>2 DEF SetCache, dashVars
<1> QED BY <1>1, <1>2, <1>3, <1>4 DEF Serving

LEMMA DashboardTypes ==
    ASSUME TypeOK, NEW v \in Viewers,
           \/ Fetching(v) \/ Disconnect(v) \/ Reconnect(v)
           \/ \E p \in Parts : Mount(v, p)
           \/ \E w \in Writes : Told(v, w)
    PROVE  TypeOK'
<1> USE NothingTyped, ViewsAssumption DEF TypeOK
<1>1. ASSUME NEW p \in Parts, Mount(v, p) \/ ServerReads(v, p) \/ DataArrives(v, p) PROVE TypeOK'
  <2> DEFINE q == query[v][p]
  <2>1. q \in Query /\ query[v] \in [Parts -> Query]
      OBVIOUS
  <2>2. /\ [q EXCEPT !.fetch = "sent"] \in Query
        /\ [q EXCEPT !.fetch = "read", !.got = Stored(p)] \in Query
        /\ [loaded |-> TRUE, data |-> q.got, fetch |-> "none", got |-> {}] \in Query
      BY <2>1, StoredTyped DEF Query
  <2>3. \E x \in Query : query' = [query EXCEPT ![v] = [query[v] EXCEPT ![p] = x]]
    <3>1. CASE Mount(v, p)
        BY <3>1, <2>2 DEF Mount
    <3>2. CASE ServerReads(v, p)
        BY <3>2, <2>2 DEF ServerReads
    <3>3. CASE DataArrives(v, p)
        BY <3>3, <2>2 DEF DataArrives
    <3> QED BY <1>1, <3>1, <3>2, <3>3
  <2>4. query' \in [Viewers -> [Parts -> Query]]
      BY <2>1, <2>3
  <2> QED BY <1>1, <2>4 DEF Mount, ServerReads, DataArrives, pageVars
<1>2. CASE Disconnect(v)
    BY <1>2 DEF Disconnect, pageVars
<1>3. CASE Reconnect(v)
    BY <1>3 DEF Reconnect, pageVars
<1>4. ASSUME NEW w \in Writes, Told(v, w) PROVE TypeOK'
  <2>1. \A q \in Query : Invalidated(q) \in Query
      BY DEF Query, Invalidated
  <2>2. query' \in [Viewers -> [Parts -> Query]]
      BY <1>4, <2>1 DEF Told
  <2> QED BY <1>4, <2>2 DEF Told, pageVars
<1> QED BY <1>1, <1>2, <1>3, <1>4 DEF Fetching

-----------------------------------------------------------------------------
(* The cache.                                                              *)

(* A step that leaves the page's variables alone and takes no write back.  *)
LEMMA ElsewhereStep ==
    ASSUME IInv, TypeOK', UNCHANGED pageVars, \A w \in Writes : write[w] # "new" => write'[w] # "new"
    PROVE  IInv'
<1>1. cleared \subseteq Writes
    BY DEF IInv, TypeOK
<1>2. ClearedIsStored'
    BY <1>1 DEF IInv, ClearedIsStored, pageVars
<1> QED BY <1>2 DEF IInv, pageVars, VisitKnows, StaleOnlyByOverlap

LEMMA ClearStep ==
    ASSUME IInv, TypeOK', NEW w \in Writes, InvalidateCache(w)
    PROVE  IInv'
<1> USE DEF IInv
<1>1. write[w] # "new" /\ write'[w] # "new"
    BY DEF InvalidateCache, TypeOK
<1>2. ClearedIsStored'
    BY <1>1 DEF InvalidateCache, Cleared, ClearedIsStored, TypeOK
<1>3. ASSUME NEW v \in Viewers PROVE VisitKnows(visit'[v], cleared')
  <2>1. CASE ~visit[v].open
      BY <2>1 DEF InvalidateCache, Cleared, VisitKnows, TypeOK
  <2>2. CASE visit[v].open
    <3>1. /\ visit'[v].over = visit[v].over \cup {w}
          /\ visit'[v].key = visit[v].key /\ visit'[v].left = visit[v].left
          /\ visit'[v].data = visit[v].data /\ visit'[v].open
        BY <2>2 DEF InvalidateCache, Cleared, TypeOK, Visit
    <3>2. cleared' = cleared \cup {w}
        BY DEF InvalidateCache, Cleared
    <3> QED BY <2>2, <3>1, <3>2 DEF VisitKnows
  <2> QED BY <2>1, <2>2
<1>4. StaleOnlyByOverlap'
    BY DEF InvalidateCache, Cleared, StaleOnlyByOverlap, NoEntry
<1> QED BY <1>2, <1>3, <1>4 DEF VisitKnows

LEMMA ReadStep ==
    ASSUME IInv, TypeOK', NEW v \in Viewers, NEW p \in Parts, ReadPart(v, p)
    PROVE  IInv'
<1> USE DEF IInv
<1>1. UNCHANGED <<write, cleared, cache>>
    BY DEF ReadPart
<1>2. \A w \in cleared : p \in Changes(w) => w \in Stored(p)
    BY DEF Stored, ClearedIsStored, TypeOK
<1>3. VisitKnows(visit'[v], cleared)
  <2>1. /\ visit'[v].over = visit[v].over /\ visit'[v].key = visit[v].key
        /\ visit'[v].left = visit[v].left \ {p} /\ visit[v].open
        /\ visit'[v].data = [visit[v].data EXCEPT ![p] = Stored(p)]
      BY DEF ReadPart, TypeOK, Visit
  <2>2. visit[v].data \in [Parts -> SUBSET Writes] /\ Shows[visit[v].key] \subseteq Parts
      BY ViewsAssumption DEF TypeOK, Visit
  <2>3. ASSUME NEW q \in Shows[visit'[v].key] \ visit'[v].left, NEW w \in cleared, q \in Changes(w)
        PROVE  w \in visit'[v].data[q] \cup visit'[v].over
    <3>1. CASE q = p
        BY <1>2, <2>1, <2>2, <2>3, <3>1
    <3>2. CASE q # p
        BY <2>1, <2>2, <2>3, <3>2 DEF VisitKnows
    <3> QED BY <3>1, <3>2
  <2> QED BY <2>3 DEF VisitKnows
<1>4. \A u \in Viewers \ {v} : visit'[u] = visit[u]
    BY DEF ReadPart, TypeOK
<1>5. \A u \in Viewers : VisitKnows(visit'[u], cleared')
    BY <1>1, <1>3, <1>4
<1> QED BY <1>1, <1>5 DEF ClearedIsStored, StaleOnlyByOverlap, VisitKnows

(* A request begins or ends; nothing is stored.                            *)
LEMMA OpenStep ==
    ASSUME IInv, TypeOK', NEW v \in Viewers, SetFails(v) \/ \E k \in Keys : Miss(v, k)
    PROVE  IInv'
<1> USE DEF IInv
<1>1. UNCHANGED <<write, cleared, cache>>
    BY DEF SetFails, Miss
<1>2. VisitKnows(visit'[v], cleared)
  <2>1. CASE SetFails(v)
    <3>1. visit'[v] = NoVisit
        BY <2>1 DEF SetFails, TypeOK
    <3> QED BY <3>1, NothingTyped DEF VisitKnows
  <2>2. ASSUME NEW k \in Keys, Miss(v, k) PROVE VisitKnows(visit'[v], cleared)
    <3>1. visit'[v].key = k /\ visit'[v].left = Shows[k]
        BY <2>2, NothingTyped DEF Miss, TypeOK, Visit
    <3> QED BY <3>1 DEF VisitKnows
  <2> QED BY <2>1, <2>2
<1>3. \A u \in Viewers \ {v} : visit'[u] = visit[u]
    BY DEF SetFails, Miss, TypeOK
<1>4. \A u \in Viewers : VisitKnows(visit'[u], cleared')
    BY <1>1, <1>2, <1>3
<1> QED BY <1>1, <1>4 DEF ClearedIsStored, StaleOnlyByOverlap, VisitKnows

LEMMA SetStep ==
    ASSUME IInv, TypeOK', NEW v \in Viewers, SetCache(v)
    PROVE  IInv'
<1> USE DEF IInv
<1>1. UNCHANGED <<write, cleared>>
    BY DEF SetCache
<1>2. \A u \in Viewers : VisitKnows(visit'[u], cleared')
  <2>1. visit'[v] = NoVisit /\ \A u \in Viewers \ {v} : visit'[u] = visit[u]
      BY DEF SetCache, TypeOK
  <2> QED BY <1>1, <2>1, NothingTyped DEF VisitKnows
<1>3. StaleOnlyByOverlap'
  <2>1. visit[v].key \in Keys /\ visit[v].open /\ visit[v].left = {}
      BY DEF SetCache, TypeOK, Visit
  <2>2. /\ cache'[visit[v].key].data = visit[v].data
        /\ cache'[visit[v].key].over = visit[v].over
        /\ \A k \in Keys \ {visit[v].key} : cache'[k] = cache[k]
      BY <2>1 DEF SetCache, TypeOK
  <2> QED BY <1>1, <2>1, <2>2 DEF StaleOnlyByOverlap, VisitKnows
<1> QED BY <1>1, <1>2, <1>3 DEF ClearedIsStored, VisitKnows

LEMMA TickStep ==
    ASSUME IInv, TypeOK', Tick
    PROVE  IInv'
<1> USE DEF IInv
<1>1. UNCHANGED <<write, cleared, visit>>
    BY DEF Tick
<1>2. StaleOnlyByOverlap'
  <2>1. ASSUME NEW k \in Keys, cache'[k].filled
        PROVE  /\ cache[k].filled /\ cache'[k].data = cache[k].data
               /\ cache'[k].over = cache[k].over
      BY <2>1 DEF Tick, TypeOK, Entry, NoEntry
  <2> QED BY <1>1, <2>1 DEF StaleOnlyByOverlap
<1> QED BY <1>1, <1>2 DEF ClearedIsStored, VisitKnows

LEMMA NextIInv == IInv /\ [Next]_vars => IInv'
<1> SUFFICES ASSUME IInv, [Next]_vars PROVE IInv'
    OBVIOUS
<1>1. TypeOK
    BY DEF IInv
<1>2. ASSUME NEW w \in Writes, Commit(w) \/ Writing(w) \/ MessageLost(w) PROVE IInv'
  <2>1. TypeOK'
      BY <1>1, <1>2, WriteTypes DEF Writing
  <2>2. CASE InvalidateCache(w)
      BY <2>1, <2>2, ClearStep
  <2>3. CASE Commit(w) \/ Publish(w) \/ Relay(w) \/ NotCleared(w) \/ MessageLost(w)
    <3>1. UNCHANGED pageVars
        BY <2>3 DEF Commit, Publish, Relay, NotCleared, MessageLost
    <3>2. \A u \in Writes : write[u] # "new" => write'[u] # "new"
        BY <1>1, <2>3 DEF Commit, Publish, Relay, NotCleared, MessageLost, TypeOK
    <3> QED BY <2>1, <3>1, <3>2, ElsewhereStep
  <2> QED BY <1>2, <2>2, <2>3 DEF Writing
<1>3. ASSUME NEW v \in Viewers, Serving(v) \/ SetFails(v) \/ \E k \in Keys : Miss(v, k) PROVE IInv'
  <2>1. TypeOK'
      BY <1>1, <1>3, PageTypes
  <2> QED BY <1>3, <2>1, ReadStep, OpenStep, SetStep DEF Serving
<1>4. ASSUME NEW v \in Viewers,
             \/ Fetching(v) \/ Disconnect(v) \/ Reconnect(v)
             \/ \E p \in Parts : Mount(v, p)
             \/ \E w \in Writes : Told(v, w)
      PROVE  IInv'
  <2>1. TypeOK'
      BY <1>1, <1>4, DashboardTypes
  <2>2. UNCHANGED <<write, pageVars>>
      BY <1>4 DEF Fetching, ServerReads, DataArrives, Disconnect, Reconnect, Mount, Told
  <2>3. UNCHANGED pageVars
      BY <2>2
  <2>4. \A w \in Writes : write[w] # "new" => write'[w] # "new"
      BY <2>2
  <2> QED BY <2>1, <2>3, <2>4, ElsewhereStep
<1>5. CASE Tick
  <2>1. \A x \in Entry : [x EXCEPT !.ttl = IF @ > 1 THEN @ - 1 ELSE @] \in Entry
    <3>1. TTL \in Nat
        BY ViewsAssumption
    <3>2. \A n \in 0..TTL : (IF n > 1 THEN n - 1 ELSE n) \in 0..TTL
        BY <3>1
    <3> QED BY <3>2 DEF Entry
  <2>2. cache' \in [Keys -> Entry]
      BY <1>1, <1>5, <2>1, NothingTyped DEF Tick, TypeOK
  <2>3. TypeOK'
      BY <1>1, <1>5, <2>2 DEF Tick, dashVars, TypeOK
  <2> QED BY <1>5, <2>3, TickStep
<1>6. CASE UNCHANGED vars
    BY <1>6 DEF vars, pageVars, dashVars, IInv, TypeOK, ClearedIsStored, VisitKnows, StaleOnlyByOverlap
<1> QED BY <1>2, <1>3, <1>4, <1>5, <1>6 DEF Next

(* Every row, cache entry, request and query keeps its type.               *)
THEOREM TypeCorrect == Spec => []TypeOK
<1>1. IInv => TypeOK
    BY DEF IInv
<1> QED BY InitIInv, NextIInv, <1>1, PTL DEF Spec

(* invalidateCache and the read-through cache: only a request that was     *)
(* reading while the cache was cleared leaves an old page behind.          *)
THEOREM CacheStaleOnlyByOverlap == Spec => []StaleOnlyByOverlap
<1>1. IInv => StaleOnlyByOverlap
    BY DEF IInv
<1> QED BY InitIInv, NextIInv, <1>1, PTL DEF Spec

-----------------------------------------------------------------------------
(***************************************************************************)
(* The dashboard.  Whoever is told of a write fetches again what he has,   *)
(* and a fetch that has not been answered yet will include the write: what *)
(* is left is one that was answered before and is not repeated, the case   *)
(* in which he counts as untold.                                           *)
(***************************************************************************)

(* v should see w by now: its event was relayed or its author answered.    *)
Due(v, w) ==
    \/ Source(w) = "worker" /\ write[w] \in {"relayed", "done"}
    \/ Author[w] = v /\ write[w] = "done"

Informed(v, w) == Due(v, w) /\ w \notin inbox[v] /\ w \notin untold[v]

(* A fetch that was answered includes w, and so does what is shown.        *)
Includes(q, w) ==
    /\ q.fetch = "read" => w \in q.got
    /\ q.fetch = "none" /\ q.loaded => w \in q.data

Followed(w) == Changes(w) \ Forgotten(w)

DashInv ==
    \A v \in Viewers, w \in Writes : \A p \in Followed(w) :
        Informed(v, w) => Includes(query[v][p], w)

(* The queries invalidated are those of the parts a write changes.         *)
LEMMA TargetsCover ==
    ASSUME NEW w \in Writes
    PROVE  Followed(w) \subseteq Parts /\ \A p \in Followed(w) : p \in Targets[What[w]]
<1>1. What[w] \in {"incident", "check", "window", "issue", "resolve", "plan", "edit", "triage"}
    BY ViewsAssumption DEF Touched
<1>2. Followed(w) \subseteq Touched[What[w]] /\ Followed(w) \subseteq Parts
    BY DEF Followed, Changes
<1>3. CASE What[w] \in {"incident", "check", "window", "issue"}
    BY <1>2, <1>3 DEF Touched, Targets, EventTargets
<1>4. CASE What[w] = "resolve"
    BY <1>2, <1>4 DEF Followed, Forgotten, Touched, Targets, EventTargets, IncidentTargets
<1>5. CASE What[w] \in {"plan", "edit", "triage"}
    BY <1>2, <1>5 DEF Touched, Targets, EventTargets, IncidentTargets, MaintenanceTargets,
                      ServiceTargets, IssueTargets
<1> QED BY <1>1, <1>2, <1>3, <1>4, <1>5

(* Steps that change no query inform nobody: who was not told of a write   *)
(* has it on its way or is counted as untold.                              *)
LEMMA NobodyInformed ==
    ASSUME DashInv, UNCHANGED query,
           \A v \in Viewers, w \in Writes : Informed(v, w)' => Informed(v, w)
    PROVE  DashInv'
<1> SUFFICES ASSUME NEW v \in Viewers, NEW w \in Writes, NEW p \in Followed(w), Informed(v, w)'
             PROVE  Includes(query[v][p], w)'
    BY DEF DashInv, Followed, Changes, Forgotten
<1>1. Includes(query[v][p], w)
    BY DEF DashInv
<1> QED BY <1>1 DEF Includes

LEMMA WritesInformNobody ==
    ASSUME TypeOK, DashInv, NEW u \in Writes,
           \/ Commit(u) \/ Publish(u) \/ Relay(u) \/ InvalidateCache(u) \/ NotCleared(u)
           \/ MessageLost(u)
    PROVE  DashInv'
<1>1. query' = query
    BY DEF Commit, Publish, Relay, InvalidateCache, NotCleared, MessageLost, dashVars
<1>2. ASSUME NEW v \in Viewers, NEW w \in Writes, Informed(v, w)' PROVE Informed(v, w)
  <2> USE DEF TypeOK
  <2>1. CASE Commit(u) \/ Publish(u)
      BY <1>2, <2>1 DEF Commit, Publish, dashVars, Informed, Due
  <2>2. CASE Relay(u)
      BY <1>2, <2>2 DEF Relay, Informed, Due
  <2>3. CASE InvalidateCache(u) \/ NotCleared(u)
    <3>1. /\ write' = [write EXCEPT ![u] = "done"] /\ Respond(u) /\ untold' = untold
          /\ Source(u) = "worker" => write[u] = "relayed"
        BY <2>3 DEF InvalidateCache, NotCleared
    <3> QED BY <1>2, <3>1 DEF Respond, Informed, Due
  <2>4. CASE MessageLost(u)
      BY <1>2, <2>4 DEF MessageLost, Informed, Due
  <2> QED BY <2>1, <2>2, <2>3, <2>4
<1> QED BY <1>1, <1>2, NobodyInformed

LEMMA ConnectionInformsNobody ==
    ASSUME TypeOK, DashInv, NEW u \in Viewers, Disconnect(u) \/ Reconnect(u)
    PROVE  DashInv'
<1>1. query' = query /\ write' = write
    BY DEF Disconnect, Reconnect
<1>2. ASSUME NEW v \in Viewers, NEW w \in Writes, Informed(v, w)' PROVE Informed(v, w)
    BY <1>1, <1>2 DEF TypeOK, Disconnect, Reconnect, Informed, Due
<1> QED BY <1>1, <1>2, NobodyInformed

(* A fetch is sent, answered or arrives.                                   *)
LEMMA FetchIncludes ==
    ASSUME TypeOK, DashInv, NEW u \in Viewers, NEW o \in Parts,
           Mount(u, o) \/ ServerReads(u, o) \/ DataArrives(u, o)
    PROVE  DashInv'
<1>1. UNCHANGED <<write, inbox, untold>>
    BY DEF Mount, ServerReads, DataArrives
<1>2. ASSUME NEW v \in Viewers, NEW w \in Writes, NEW p \in Followed(w), Informed(v, w)
      PROVE  Includes(query'[v][p], w)
  <2>1. Includes(query[v][p], w) /\ p \in Parts
      BY <1>2, TargetsCover DEF DashInv
  <2>2. query[v] \in [Parts -> Query] /\ query[v][p] \in Query
      BY <2>1 DEF TypeOK
  <2>3. CASE v # u \/ p # o
    <3>1. query'[v][p] = query[v][p]
        BY <2>1, <2>2, <2>3 DEF TypeOK, Mount, ServerReads, DataArrives
    <3> QED BY <2>1, <3>1
  <2>4. CASE v = u /\ p = o
    <3>1. CASE Mount(u, o)
      <4>1. query'[v][p] = [query[v][p] EXCEPT !.fetch = "sent"]
          BY <2>1, <2>2, <2>4, <3>1 DEF TypeOK, Mount
      <4> QED BY <2>2, <4>1 DEF Query, Includes
    <3>2. CASE ServerReads(u, o)
      <4>1. query'[v][p] = [query[v][p] EXCEPT !.fetch = "read", !.got = Stored(p)]
          BY <2>1, <2>2, <2>4, <3>2 DEF TypeOK, ServerReads
      <4>2. w \in Stored(p)
          BY <1>2 DEF Stored, Followed, Informed, Due
      <4> QED BY <2>2, <4>1, <4>2 DEF Query, Includes
    <3>3. CASE DataArrives(u, o)
      <4>1. /\ query[v][p].fetch = "read"
            /\ query'[v][p] = [loaded |-> TRUE, data |-> query[v][p].got,
                               fetch |-> "none", got |-> {}]
          BY <2>1, <2>2, <2>4, <3>3 DEF TypeOK, DataArrives
      <4> QED BY <2>1, <4>1 DEF Includes
    <3> QED BY <3>1, <3>2, <3>3
  <2> QED BY <2>3, <2>4
<1>3. \A v, w : Informed(v, w)' <=> Informed(v, w)
    BY <1>1 DEF Informed, Due
<1> QED BY <1>2, <1>3 DEF DashInv, Includes

(* An event or a response arrives.                                         *)
LEMMA ToldIncludes ==
    ASSUME TypeOK, DashInv, NEW u \in Viewers, NEW x \in Writes, Told(u, x)
    PROVE  DashInv'
<1>1. write' = write
    BY DEF Told
<1>2. ASSUME NEW v \in Viewers, NEW w \in Writes, NEW p \in Followed(w), Informed(v, w)'
      PROVE  Includes(query'[v][p], w)
  <2>1. p \in Parts /\ query[v] \in [Parts -> Query] /\ query[v][p] \in Query
      BY TargetsCover DEF TypeOK
  <2>2. Informed(v, w) \/ (v = u /\ w = x)
      BY <1>1, <1>2 DEF Told, TypeOK, Informed, Due
  <2>3. CASE v # u
    <3>1. query'[v] = query[v]
        BY <2>3 DEF Told, TypeOK
    <3> QED BY <2>2, <2>3, <3>1 DEF DashInv
  <2>4. CASE v = u /\ p \in Targets[What[x]]
    <3>1. query'[v][p] = Invalidated(query[v][p])
        BY <2>1, <2>4 DEF Told, TypeOK
    <3>2. CASE query[v][p].loaded
      <4>1. query'[v][p].fetch = "sent"
          BY <2>1, <3>1, <3>2 DEF Invalidated, Query
      <4> QED BY <4>1 DEF Includes
    <3>3. CASE ~query[v][p].loaded /\ w = x
      <4>1. x \notin untold'[v]
          BY <1>2, <3>3 DEF Informed
      <4>2. ~\E o \in Changes(x) : ~query[v][o].loaded /\ query[v][o].fetch = "read"
          BY <2>4, <4>1 DEF Told, TypeOK
      <4>3. query[v][p].fetch # "read"
          BY <3>3, <4>2 DEF Followed
      <4>4. query'[v][p] = query[v][p]
          BY <3>1, <3>3 DEF Invalidated
      <4> QED BY <3>3, <4>3, <4>4 DEF Includes
    <3>4. CASE ~query[v][p].loaded /\ w # x
      <4>1. query'[v][p] = query[v][p]
          BY <3>1, <3>4 DEF Invalidated
      <4> QED BY <2>2, <3>4, <4>1 DEF DashInv
    <3> QED BY <3>2, <3>3, <3>4
  <2>5. CASE v = u /\ p \notin Targets[What[x]]
    <3>1. query'[v][p] = query[v][p]
        BY <2>1, <2>5 DEF Told, TypeOK
    <3>2. w # x
        BY <2>5, TargetsCover
    <3> QED BY <2>2, <3>1, <3>2 DEF DashInv
  <2> QED BY <2>3, <2>4, <2>5
<1> QED BY <1>2 DEF DashInv, Includes

LEMMA NextDash == TypeOK /\ DashInv /\ [Next]_vars => DashInv'
<1> SUFFICES ASSUME TypeOK, DashInv, [Next]_vars PROVE DashInv'
    OBVIOUS
<1>1. ASSUME NEW w \in Writes, Commit(w) \/ Writing(w) \/ MessageLost(w) PROVE DashInv'
    BY <1>1, WritesInformNobody DEF Writing
<1>2. ASSUME NEW v \in Viewers,
             \/ Fetching(v) \/ Disconnect(v) \/ Reconnect(v)
             \/ \E p \in Parts : Mount(v, p)
             \/ \E w \in Writes : Told(v, w)
      PROVE  DashInv'
    BY <1>2, ConnectionInformsNobody, FetchIncludes, ToldIncludes DEF Fetching
<1>3. CASE UNCHANGED <<write, dashVars>>
  <2>1. \A v, w : Informed(v, w)' => Informed(v, w)
      BY <1>3 DEF dashVars, Informed, Due
  <2> QED BY <1>3, <2>1, NobodyInformed DEF dashVars
<1>4. ASSUME NEW v \in Viewers, Serving(v) \/ SetFails(v) \/ \E k \in Keys : Miss(v, k)
      PROVE  UNCHANGED <<write, dashVars>>
    BY <1>4 DEF Serving, ReadPart, SetCache, SetFails, Miss
<1>5. Tick \/ UNCHANGED vars => UNCHANGED <<write, dashVars>>
    BY DEF Tick, vars
<1> QED BY <1>1, <1>2, <1>3, <1>4, <1>5 DEF Next

LEMMA InitDash == Init => DashInv
<1> SUFFICES ASSUME Init PROVE DashInv
    OBVIOUS
<1>1. \A v, w : w \in Writes => ~Informed(v, w)
    BY DEF Init, Informed, Due
<1> QED BY <1>1 DEF DashInv

(* handleSocketEvent and the mutations' onSuccess: an operator who was     *)
(* told of a write sees it in every part it changed once his fetch is      *)
(* over, the service reset by a resolved incident excepted.                *)
THEOREM ToldOperatorsSee == Spec => []ToldSees
<1>1. DashInv => ToldSees
    BY DEF DashInv, Followed, Informed, Due, Includes, ToldSees
<1>2. IInv => TypeOK
    BY DEF IInv
<1> QED BY InitIInv, NextIInv, InitDash, NextDash, <1>1, <1>2, PTL DEF Spec
=============================================================================
