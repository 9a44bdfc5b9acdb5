------------------------------ MODULE LiveViews ------------------------------
(***************************************************************************)
(* What users see of the database: the public status page behind its cache *)
(* in Redis (backend/src/services/statusPageService.js) and the dashboard  *)
(* behind its query cache in the browser (frontend/src/lib/socketEvents.ts *)
(* and the hooks).  The worker announces what it wrote on a Redis channel; *)
(* the API relays it to sockets and clears the page's cache (index.js).    *)
(* Services and the API's own handlers clear the cache themselves, or not  *)
(* at all, and never announce anything.                                    *)
(*                                                                         *)
(* A write changes some parts of what is shown.  The value of a part is    *)
(* the set of writes it includes.  A viewer is a visitor of the page or an *)
(* operator with a dashboard.  Redis's channel, Socket.IO and TanStack     *)
(* Query are external.                                                     *)
(***************************************************************************)
EXTENDS Naturals, FiniteSets

CONSTANTS
    Parts,              \* the parts looked at
    Writes, What,       \* What[w]: what kind of write w is
    Author,             \* the operator who asked for w, or Nobody
    Nobody,
    Keys, Shows,        \* cache keys of the page and the parts each holds
    Viewers, Kinds,     \* who may look at the page, who at a dashboard
    TTL,                \* life of a cache entry, in ticks (30 s)
    MaxFaults           \* bound on lost messages, Redis errors and lost connections

(* What the writes change: a failed or recovered check, another check, a   *)
(* window that starts or ends, an ingested issue; a PATCH that resolves an *)
(* incident and resets its service, an edit of a window, of a service, of  *)
(* an issue.                                                               *)
Touched == [incident |-> {"incidents", "services"}, check |-> {"services"},
            window |-> {"maintenance", "services"}, issue |-> {"issues"},
            resolve |-> {"incidents", "services"}, plan |-> {"maintenance"},
            edit |-> {"services"}, triage |-> {"issues"}]

(* Who tells of them: the worker publishes, some handlers clear the cache, *)
(* the others do not.                                                      *)
Sources == [incident |-> "worker", check |-> "worker", window |-> "worker", issue |-> "worker",
            resolve |-> "api", plan |-> "api", edit |-> "quiet", triage |-> "quiet"]

Changes(w) == Touched[What[w]] \cap Parts
Source(w) == Sources[What[w]]

ASSUME ViewsAssumption ==
    /\ What \in [Writes -> DOMAIN Touched] /\ Shows \in [Keys -> SUBSET Parts]
    /\ Kinds \subseteq [Viewers -> {"visitor", "operator"}]
    /\ Author \in [Writes -> Viewers \cup {Nobody}] /\ Nobody \notin Viewers
    /\ Keys # {} /\ TTL \in Nat \ {0} /\ MaxFaults \in Nat

VARIABLES
    write,              \* write[w]: how far w is
    cleared,            \* writes whose invalidation of the cache has been done
    kind,
    cache,              \* cache[k]: the entry
    visit,              \* visit[v]: a request of visitor v
    online,             \* operators whose socket is connected
    inbox,              \* inbox[v]: writes whose event or response is on its way to v
    query,              \* query[v][p]: operator v's query for part p
    untold,             \* untold[v]: writes v was not told of, or too early
    faults
pageVars == <<cleared, cache, visit>>
dashVars == <<online, inbox, query, untold>>
vars == <<write, pageVars, kind, dashVars, faults>>

Entry == [filled: BOOLEAN, data: [Parts -> SUBSET Writes], ttl: 0..TTL, over: SUBSET Writes]
Visit == [key: Keys, open: BOOLEAN, left: SUBSET Parts, data: [Parts -> SUBSET Writes],
          over: SUBSET Writes]
Query == [loaded: BOOLEAN, data: SUBSET Writes, fetch: {"none", "sent", "read"}, got: SUBSET Writes]

TypeOK ==
    /\ write \in [Writes -> {"new", "committed", "published", "relayed", "done"}]
    /\ cleared \subseteq Writes
    /\ kind \in [Viewers -> {"visitor", "operator"}]
    /\ cache \in [Keys -> Entry] /\ visit \in [Viewers -> Visit]
    /\ online \subseteq Viewers /\ inbox \in [Viewers -> SUBSET Writes]
    /\ query \in [Viewers -> [Parts -> Query]]
    /\ untold \in [Viewers -> SUBSET Writes]
    /\ faults \in 0..MaxFaults

Nothing == [p \in Parts |-> {}]
NoEntry == [filled |-> FALSE, data |-> Nothing, ttl |-> 0, over |-> {}]
NoVisit == [key |-> CHOOSE k \in Keys : TRUE, open |-> FALSE, left |-> {}, data |-> Nothing, over |-> {}]
NoQuery == [loaded |-> FALSE, data |-> {}, fetch |-> "none", got |-> {}]

Init ==
    /\ write = [w \in Writes |-> "new"] /\ cleared = {}
    /\ kind \in Kinds
    /\ cache = [k \in Keys |-> NoEntry] /\ visit = [v \in Viewers |-> NoVisit]
    /\ online = {v \in Viewers : kind[v] = "operator"}
    /\ inbox = [v \in Viewers |-> {}] /\ untold = [v \in Viewers |-> {}]
    /\ query = [v \in Viewers |-> [p \in Parts |-> NoQuery]]
    /\ faults = 0

Stored(p) == {w \in Writes : write[w] # "new" /\ p \in Changes(w)}

-----------------------------------------------------------------------------
(* Writes.                                                                 *)

Commit(w) ==
    /\ write[w] = "new"
    /\ write' = [write EXCEPT ![w] = "committed"]
    /\ UNCHANGED <<pageVars, kind, dashVars, faults>>

(* publishEvent: not awaited, and nothing comes back.                      *)
Publish(w) ==
    /\ Source(w) = "worker" /\ write[w] = "committed"
    /\ write' = [write EXCEPT ![w] = "published"]
    /\ UNCHANGED <<pageVars, kind, dashVars, faults>>

(* The subscriber emits to the organization's room first.                  *)
Relay(w) ==
    /\ write[w] = "published"
    /\ write' = [write EXCEPT ![w] = "relayed"]
    /\ inbox' = [v \in Viewers |-> IF v \in online THEN inbox[v] \cup {w} ELSE inbox[v]]
    /\ untold' = [v \in Viewers |-> IF v \in online THEN untold[v] ELSE untold[v] \cup {w}]
    /\ UNCHANGED <<pageVars, kind, online, query, faults>>

Respond(w) ==
    inbox' = [v \in Viewers |-> IF v = Author[w] THEN inbox[v] \cup {w} ELSE inbox[v]]

Cleared(w) ==
    /\ cleared' = cleared \cup {w}
    /\ cache' = [k \in Keys |-> NoEntry]
    /\ visit' = [v \in Viewers |-> IF visit[v].open THEN [visit[v] EXCEPT !.over = @ \cup {w}]
                                   ELSE visit[v]]

(* Mutant of InvalidateCache: the cache is cleared before the commit.      *)
InvalidateEarly(w) ==
    /\ \/ /\ write[w] = "new" /\ w \notin cleared /\ Cleared(w)
          /\ UNCHANGED <<write, inbox>>
       \/ /\ write[w] = "committed" /\ w \in cleared /\ Respond(w)
          /\ write' = [write EXCEPT ![w] = "done"]
          /\ UNCHANGED pageVars
    /\ UNCHANGED <<kind, online, query, untold, faults>>

(* invalidateCache by the subscriber or by the handler, which answers its  *)
(* client afterwards.                                                      *)
InvalidateCache(w) ==
    /\ \/ Source(w) = "worker" /\ write[w] = "relayed"
       \/ Source(w) = "api" /\ write[w] = "committed"
    /\ Cleared(w) /\ Respond(w)
    /\ write' = [write EXCEPT ![w] = "done"]
    /\ UNCHANGED <<kind, online, query, untold, faults>>

(* The error of the DEL is caught; or the handler has nothing to clear.    *)
NotCleared(w) ==
    /\ \/ Source(w) = "quiet" /\ write[w] = "committed" /\ UNCHANGED faults
       \/ /\ \/ Source(w) = "worker" /\ write[w] = "relayed"
             \/ Source(w) = "api" /\ write[w] = "committed"
          /\ faults < MaxFaults /\ faults' = faults + 1
    /\ Respond(w)
    /\ write' = [write EXCEPT ![w] = "done"]
    /\ UNCHANGED <<pageVars, kind, online, query, untold>>

(* A message of the channel is lost with either process or connection.     *)
MessageLost(w) ==
    /\ write[w] \in {"committed", "published"} /\ Source(w) = "worker"
    /\ faults < MaxFaults /\ faults' = faults + 1
    /\ write' = [write EXCEPT ![w] = "done"]
    /\ untold' = [v \in Viewers |-> untold[v] \cup {w}]
    /\ UNCHANGED <<pageVars, kind, online, inbox, query>>

-----------------------------------------------------------------------------
(* The page: read through the cache, the queries of a miss run at once.    *)

(* A hit changes nothing; a failing GET counts as a miss.                  *)
Miss(v, k) ==
    /\ kind[v] = "visitor" /\ ~visit[v].open
    /\ IF cache[k].filled THEN faults < MaxFaults /\ faults' = faults + 1 ELSE UNCHANGED faults
    /\ visit' = [visit EXCEPT ![v] = [NoVisit EXCEPT !.key = k, !.open = TRUE, !.left = Shows[k]]]
    /\ UNCHANGED <<write, cleared, cache, kind, dashVars>>

ReadPart(v, p) ==
    /\ visit[v].open /\ p \in visit[v].left
    /\ visit' = [visit EXCEPT ![v].left = @ \ {p}, ![v].data[p] = Stored(p)]
    /\ UNCHANGED <<write, cleared, cache, kind, dashVars, faults>>

(* Mutant of Kept: an entry does not expire.                               *)
KeptForEver(n) == TRUE

Kept(n) == n > 1

SetCache(v) ==
    /\ visit[v].open /\ visit[v].left = {}
    /\ cache' = [cache EXCEPT ![visit[v].key] =
                    [filled |-> TRUE, data |-> visit[v].data, ttl |-> TTL, over |-> visit[v].over]]
    /\ visit' = [visit EXCEPT ![v] = NoVisit]
    /\ UNCHANGED <<write, cleared, kind, dashVars, faults>>

SetFails(v) ==
    /\ visit[v].open /\ visit[v].left = {}
    /\ faults < MaxFaults /\ faults' = faults + 1
    /\ visit' = [visit EXCEPT ![v] = NoVisit]
    /\ UNCHANGED <<write, cleared, cache, kind, dashVars>>

Tick ==
    /\ \E k \in Keys : cache[k].filled
    /\ cache' = [k \in Keys |->
                    IF cache[k].filled /\ Kept(cache[k].ttl)
                    THEN [cache[k] EXCEPT !.ttl = IF @ > 1 THEN @ - 1 ELSE @] ELSE NoEntry]
    /\ UNCHANGED <<write, cleared, visit, kind, dashVars, faults>>

-----------------------------------------------------------------------------
(* The dashboard.  A component mounts and its query is fetched; an event   *)
(* or the response to a mutation invalidates the queries of the parts that *)
(* were changed.  An invalidation cancels a fetch in flight and begins     *)
(* another, unless there is no data yet: then the fetch is kept.           *)

Mount(v, p) ==
    /\ kind[v] = "operator" /\ query[v][p].fetch = "none"
    /\ query' = [query EXCEPT ![v][p].fetch = "sent"]
    /\ UNCHANGED <<write, pageVars, kind, online, inbox, untold, faults>>

ServerReads(v, p) ==
    /\ query[v][p].fetch = "sent"
    /\ query' = [query EXCEPT ![v][p] = [@ EXCEPT !.fetch = "read", !.got = Stored(p)]]
    /\ UNCHANGED <<write, pageVars, kind, online, inbox, untold, faults>>

DataArrives(v, p) ==
    /\ query[v][p].fetch = "read"
    /\ query' = [query EXCEPT ![v][p] = [loaded |-> TRUE, data |-> query[v][p].got,
                                         fetch |-> "none", got |-> {}]]
    /\ UNCHANGED <<write, pageVars, kind, online, inbox, untold, faults>>

Invalidated(q) == IF q.loaded THEN [q EXCEPT !.fetch = "sent", !.got = {}] ELSE q

(* Mutant of EventTargets: only the queries an event is named after.       *)
EventTargetsOfName == [incident |-> {"incidents"}, check |-> {"services"},
                       window |-> {"maintenance"}, issue |-> {"issues"}]

(* What handleSocketEvent invalidates, and the onSuccess of the mutations: *)
(* the list and the detail of a part together.                             *)
EventTargets == [incident |-> {"incidents", "services"}, check |-> {"services"},
                 window |-> {"maintenance", "services"}, issue |-> {"issues"}]
IncidentTargets == [resolve |-> {"incidents"}]
MaintenanceTargets == [plan |-> {"maintenance"}]
ServiceTargets == [edit |-> {"services"}]
IssueTargets == [triage |-> {"issues"}]
Targets == [incident |-> EventTargets.incident, check |-> EventTargets.check,
            window |-> EventTargets.window, issue |-> EventTargets.issue,
            resolve |-> IncidentTargets.resolve, plan |-> MaintenanceTargets.plan,
            edit |-> ServiceTargets.edit, triage |-> IssueTargets.triage]

Told(v, w) ==
    /\ w \in inbox[v] /\ inbox' = [inbox EXCEPT ![v] = @ \ {w}]
    /\ query' = [query EXCEPT ![v] = [p \in Parts |->
                    IF p \in Targets[What[w]] THEN Invalidated(query[v][p]) ELSE query[v][p]]]
    /\ untold' = [untold EXCEPT ![v] =
                    IF \E p \in Changes(w) : ~query[v][p].loaded /\ query[v][p].fetch = "read"
                    THEN @ \cup {w} ELSE @]
    /\ UNCHANGED <<write, pageVars, kind, online, faults>>

(* Events on their way are gone, and a reconnected socket refetches        *)
(* nothing.                                                                *)
Disconnect(v) ==
    /\ v \in online /\ online' = online \ {v}
    /\ faults < MaxFaults /\ faults' = faults + 1
    /\ LET events == {w \in inbox[v] : Source(w) = "worker"} IN
          /\ untold' = [untold EXCEPT ![v] = @ \cup events]
          /\ inbox' = [inbox EXCEPT ![v] = @ \ events]
    /\ UNCHANGED <<write, pageVars, kind, query>>

Reconnect(v) ==
    /\ kind[v] = "operator" /\ v \notin online /\ online' = online \cup {v}
    /\ UNCHANGED <<write, pageVars, kind, inbox, query, untold, faults>>

-----------------------------------------------------------------------------
Writing(w) == Publish(w) \/ Relay(w) \/ InvalidateCache(w) \/ NotCleared(w)
Serving(v) == SetCache(v) \/ \E p \in Parts : ReadPart(v, p)
Fetching(v) == \E p \in Parts : ServerReads(v, p) \/ DataArrives(v, p)

Next ==
    \/ \E w \in Writes : Commit(w) \/ Writing(w) \/ MessageLost(w)
    \/ \E v \in Viewers :
          \/ Serving(v) \/ SetFails(v) \/ Fetching(v) \/ Disconnect(v) \/ Reconnect(v)
          \/ \E k \in Keys : Miss(v, k)
          \/ \E p \in Parts : Mount(v, p)
          \/ \E w \in Writes : Told(v, w)
    \/ Tick

Spec == Init /\ [][Next]_vars
FairSpec ==
    /\ Spec /\ WF_vars(Tick)
    /\ \A v \in Viewers : WF_vars(Serving(v) \/ SetFails(v))

-----------------------------------------------------------------------------
(* Properties.                                                             *)

(* Once a write has cleared the cache, an entry lacks it only if the       *)
(* request that stored the entry was reading while the cache was cleared.  *)
StaleOnlyByOverlap ==
    \A k \in Keys : cache[k].filled =>
        \A p \in Shows[k] : \A w \in cleared :
            p \in Changes(w) => w \in cache[k].data[p] \cup cache[k].over

(* An operator who was told of a write sees it in every part it changed,   *)
(* as soon as the fetch it caused is over, but for the service that a      *)
(* resolved incident resets: the mutation does not invalidate that, and no *)
(* event follows.  Those not told are the ones whose socket was down, for  *)
(* a reconnection refetches nothing, and those told while the first load   *)
(* was on its way: it is not repeated.                                     *)
Forgotten(w) == IF What[w] = "resolve" THEN {"services"} ELSE {}

ToldSees ==
    \A v \in Viewers, w \in Writes : \A p \in Changes(w) \ Forgotten(w) :
        /\ w \notin inbox[v] /\ w \notin untold[v]
        /\ \/ Source(w) = "worker" /\ write[w] \in {"relayed", "done"}
           \/ Author[w] = v /\ write[w] = "done"
        /\ query[v][p].loaded /\ query[v][p].fetch = "none"
        => w \in query[v][p].data

(* Whatever messages and invalidations are lost, the page ends up showing  *)
(* what is stored: entries expire.                                         *)
PageCatchesUp ==
    <>[](\A k \in Keys : cache[k].filled => \A p \in Shows[k] : cache[k].data[p] = Stored(p))
=============================================================================
