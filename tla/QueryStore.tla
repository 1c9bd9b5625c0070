----------------------------- MODULE QueryStore -----------------------------
(***************************************************************************)
(* state/queryservice: a KVS that reads through views of the Fabric-X      *)
(* query service.  Store and its snapshots, whose Get may be called        *)
(* concurrently, and GRPCClient, which keeps each view on the connection   *)
(* that opened it.  The query service itself is external.                  *)
(***************************************************************************)
EXTENDS Integers, Sequences

CONSTANTS
  Keys,
  Snaps,      \* snapshots the client opens
  Readers,    \* goroutines that call Get on each of them
  Conns,      \* number of connections
  MaxCommits,  \* bound: blocks the committer commits, block 0 included
  NoRecord    \* a key without a committed value

ASSUME QueryStoreAssumption == Conns \in Nat \ {0} /\ MaxCommits \in Nat

VARIABLES
  world,   \* the committed states, one per block: version of each key
  view,    \* the service's views: the instance that holds it, the state it is pinned to
  next,    \* GRPCClient.next
  views,   \* GRPCClient.views: the connection of a view, 0 if not in the map
  spc,     \* each snapshot: "none", "open", "ending", "closed"
  cache,   \* its cache: the keys that were fetched, with their records
  gpc, key, rec,  \* each Get under way: its step, the key and the record fetched
  returned, \* the records that Get returned
  unknown  \* a call was made for a view the instance does not hold

getVars == <<gpc, key, rec>>
storeVars == <<world, view, next, views, spc, cache, getVars, returned, unknown>>

Latest == Len(world)
Pair == Snaps \X Readers
NoView == [conn |-> 0, pin |-> 0]

StoreInit ==
  /\ world = <<[k \in Keys |-> NoRecord]>> /\ view = [s \in Snaps |-> NoView]
  /\ next = 0 /\ views = [s \in Snaps |-> 0]
  /\ spc = [s \in Snaps |-> "none"]
  /\ cache = [s \in Snaps |-> {}]
  /\ gpc = [p \in Pair |-> "idle"] /\ key = [p \in Pair |-> NoRecord]
  /\ rec = [p \in Pair |-> NoRecord]
  /\ returned = [s \in Snaps |-> {}] /\ unknown = [s \in Snaps |-> FALSE]

-----------------------------------------------------------------------------
\* GRPCClient.

\* The connection after next is advanced.
pick == ((next + 1) % Conns) + 1

clientFor_AlwaysPick(s) == pick
clientFor(s) == IF views[s] # 0 THEN views[s] ELSE pick
Advanced(s) == IF views[s] # 0 THEN next ELSE (next + 1) % Conns

-----------------------------------------------------------------------------
\* The query service.

\* A block commits: the keys of W get their next version.
Commits(W) ==
  /\ Latest < MaxCommits
  /\ world' = Append(world, [k \in Keys |->
       IF k \notin W THEN world[Latest][k]
       ELSE IF world[Latest][k] = NoRecord THEN 0 ELSE world[Latest][k] + 1])
  /\ UNCHANGED <<view, next, views, spc, cache, getVars, returned, unknown>>

\* A view is pinned at its first read, to the latest state or to that of another
\* view the instance still holds (view-aggregation-window).
Pins(s) ==
  IF view[s].pin # 0 THEN {view[s].pin}
  ELSE {Latest} \cup {view[t].pin : t \in {t \in Snaps : view[t].pin # 0 /\ view[t].conn = view[s].conn}}

-----------------------------------------------------------------------------
\* Store and snapshot.

Snapshot(s) ==
  /\ spc[s] = "none" /\ spc' = [spc EXCEPT ![s] = "open"]
  /\ next' = (next + 1) % Conns
  /\ view' = [view EXCEPT ![s] = [conn |-> pick, pin |-> 0]]
  /\ views' = [views EXCEPT ![s] = pick]
  /\ UNCHANGED <<world, cache, getVars, returned, unknown>>

\* Store.Get, and a BeginView that fails, leave behind an advanced next only.
GetLatest ==
  /\ next' = (next + 1) % Conns
  /\ UNCHANGED <<world, view, views, spc, cache, getVars, returned, unknown>>

GetReturns(s, r) ==
  /\ gpc' = [gpc EXCEPT ![<<s, r>>] = "idle"]
  /\ key' = [key EXCEPT ![<<s, r>>] = NoRecord] /\ rec' = [rec EXCEPT ![<<s, r>>] = NoRecord]

\* snapshot.Get: look the key up in the cache, under the lock.  A Get is not begun
\* after Close, but may still run when it is called.
Lookup(s, r, k) ==
  LET hits == {c \in cache[s] : c[1] = k}
  IN /\ spc[s] = "open" /\ gpc[<<s, r>>] = "idle"
     /\ IF hits # {}
        THEN returned' = [returned EXCEPT ![s] = @ \cup hits] /\ UNCHANGED <<gpc, key>>
        ELSE /\ gpc' = [gpc EXCEPT ![<<s, r>>] = "fetch"]
             /\ key' = [key EXCEPT ![<<s, r>>] = k] /\ UNCHANGED returned
     /\ UNCHANGED <<world, view, next, views, spc, cache, rec, unknown>>

\* GetRows in the view, outside the lock.  The call may fail; on an instance that
\* does not hold the view it does.
Fetch_OutsideView(s, r) ==
  /\ gpc[<<s, r>>] = "fetch" /\ view[s].conn # 0
  /\ rec' = [rec EXCEPT ![<<s, r>>] = world[Latest][key[<<s, r>>]]]
  /\ gpc' = [gpc EXCEPT ![<<s, r>>] = "store"]
  /\ UNCHANGED <<world, view, next, views, spc, cache, key, returned, unknown>>

Fetch(s, r) ==
  /\ gpc[<<s, r>>] = "fetch" /\ next' = Advanced(s)
  /\ view[s].conn = clientFor(s)
  /\ \E p \in Pins(s) :
       /\ view' = [view EXCEPT ![s].pin = p]
       /\ rec' = [rec EXCEPT ![<<s, r>>] = world[p][key[<<s, r>>]]]
  /\ gpc' = [gpc EXCEPT ![<<s, r>>] = "store"]
  /\ UNCHANGED <<world, views, spc, cache, key, returned, unknown>>

FetchFails(s, r) ==
  /\ gpc[<<s, r>>] = "fetch" /\ next' = Advanced(s)
  /\ unknown' = [unknown EXCEPT ![s] = @ \/ view[s].conn # clientFor(s)]
  /\ GetReturns(s, r)
  /\ UNCHANGED <<world, view, views, spc, cache, returned>>

\* Cache the record, under the lock, and return it.
CacheRecord(s, r) ==
  LET got == <<key[<<s, r>>], rec[<<s, r>>]>>
  IN /\ gpc[<<s, r>>] = "store"
     /\ cache' = [cache EXCEPT ![s] = {c \in @ : c[1] # got[1]} \cup {got}]
     /\ returned' = [returned EXCEPT ![s] = @ \cup {got}]
     /\ GetReturns(s, r)
     /\ UNCHANGED <<world, view, next, views, spc, unknown>>

\* snapshot.Close: EndView on the view's connection, then the map entry is dropped,
\* whether or not the call succeeded.
EndView(s) ==
  /\ spc[s] = "open" /\ spc' = [spc EXCEPT ![s] = "ending"]
  /\ next' = Advanced(s)
  /\ IF view[s].conn = clientFor(s)
     THEN view' \in {view, [view EXCEPT ![s] = NoView]} /\ UNCHANGED unknown
     ELSE view' = view /\ unknown' = [unknown EXCEPT ![s] = TRUE]
  /\ UNCHANGED <<world, views, cache, getVars, returned>>

DropView(s) ==
  /\ spc[s] = "ending" /\ spc' = [spc EXCEPT ![s] = "closed"]
  /\ views' = [views EXCEPT ![s] = 0]
  /\ UNCHANGED <<world, view, next, cache, getVars, returned, unknown>>

-----------------------------------------------------------------------------
SnapStep(s) ==
  \/ Snapshot(s) \/ EndView(s) \/ DropView(s)
  \/ \E r \in Readers : Fetch(s, r) \/ FetchFails(s, r) \/ CacheRecord(s, r)
                          \/ \E k \in Keys : Lookup(s, r, k)

StoreNext == (\E s \in Snaps : SnapStep(s)) \/ GetLatest \/ \E W \in SUBSET Keys : Commits(W)
StoreSpec == StoreInit /\ [][StoreNext]_storeVars

-----------------------------------------------------------------------------
\* Properties.

\* "a transaction sees one consistent state": whatever blocks commit between the
\* reads, and however Gets of one snapshot overlap, some committed state holds every
\* record the snapshot returned.
OneConsistentState ==
  \A s \in Snaps : \E n \in 1..Latest : \A c \in returned[s] : c[2] = world[n][c[1]]

\* "A view's calls all go over the connection that opened it": as long as the
\* snapshot is open no call for its view reaches another one.
CallsFindTheirView == \A s \in Snaps : unknown[s] => spc[s] \in {"ending", "closed"}
=============================================================================
