-------------------------- MODULE StateAccessProofs -------------------------
(***************************************************************************)
(* Proofs about the two ways an endorser gets at the world state: the      *)
(* views of the query service (QueryStore), then the local replica that is *)
(* kept up to date from a peer (Synchronizer).                             *)
(***************************************************************************)
EXTENDS QueryStore, Synchronizer, TLAPS

-----------------------------------------------------------------------------
(***************************************************************************)
(* OneConsistentState and CallsFindTheirView for any keys, snapshots,      *)
(* readers, connections and number of blocks.  What a snapshot returned,   *)
(* cached or holds in a Get under way agrees with one state.  That state   *)
(* is the one its view is pinned to while there is a view; a snapshot      *)
(* whose view is not pinned yet has nothing, and one whose view has gone   *)
(* fetches nothing more.                                                   *)
(***************************************************************************)

Record == Nat \cup {NoRecord}

StoreTypeInv ==
  /\ world \in Seq([Keys -> Record]) /\ Latest >= 1
  /\ view \in [Snaps -> [conn : Nat, pin : Nat]]
  /\ next \in 0..(Conns - 1) /\ views \in [Snaps -> Nat]
  /\ spc \in [Snaps -> {"none", "open", "ending", "closed"}]
  /\ gpc \in [Pair -> {"idle", "fetch", "store"}]
  /\ DOMAIN cache = Snaps /\ DOMAIN returned = Snaps /\ unknown \in [Snaps -> BOOLEAN]
  /\ DOMAIN key = Pair /\ DOMAIN rec = Pair

\* All that s got agrees with state n, the one its view is pinned to.
PinnedTo(s, n) ==
  /\ \A c \in returned[s] \cup cache[s] : c[2] = world[n][c[1]]
  /\ \A r \in Readers : gpc[<<s, r>>] = "store" => rec[<<s, r>>] = world[n][key[<<s, r>>]]
  /\ view[s].pin \in {0, n}

\* s has got nothing.
Nothing(s) ==
  returned[s] = {} /\ cache[s] = {} /\ \A r \in Readers : gpc[<<s, r>>] # "store"

SnapInv(s) ==
  /\ spc[s] = "none" => view[s].pin = 0 /\ \A r \in Readers : gpc[<<s, r>>] = "idle"
  /\ spc[s] = "open" => views[s] # 0 /\ views[s] = view[s].conn
  /\ unknown[s] => spc[s] \in {"ending", "closed"}
  /\ view[s].pin = 0 /\ (view[s].conn # 0 \/ spc[s] = "none") => Nothing(s)
  /\ \E n \in 1..Latest : PinnedTo(s, n)

StoreInv == StoreTypeInv /\ \A s \in Snaps : SnapInv(s)
-----------------------------------------------------------------------------
LEMMA StoreInitInv == StoreInit => StoreInv
<1> SUFFICES ASSUME StoreInit PROVE StoreInv
  OBVIOUS
<1>1. Len(world) = 1 /\ world \in Seq([Keys -> Record])
  <2>1. [k \in Keys |-> NoRecord] \in [Keys -> Record]
    BY DEF Record
  <2> QED
    BY <2>1 DEF StoreInit
<1>2. StoreTypeInv
  <2>1. next \in 0..(Conns - 1)
    BY QueryStoreAssumption DEF StoreInit
  <2> QED
    BY <1>1, <2>1 DEF StoreInit, StoreTypeInv, Latest, NoView
<1>3. ASSUME NEW s \in Snaps PROVE SnapInv(s)
  <2>1. \A r \in Readers : gpc[<<s, r>>] = "idle"
    BY DEF StoreInit, Pair
  <2>2. returned[s] = {} /\ cache[s] = {} /\ view[s] = NoView /\ spc[s] = "none" /\ ~unknown[s]
    BY DEF StoreInit
  <2>3. PinnedTo(s, 1) /\ 1 \in 1..Latest
    BY <1>1, <2>1, <2>2 DEF PinnedTo, NoView, Latest
  <2> QED
    BY <2>1, <2>2, <2>3 DEF SnapInv, Nothing, NoView
<1> QED
  BY <1>2, <1>3 DEF StoreInv

\* A snapshot that is not touched, while blocks may commit.
LEMMA SnapKeeps ==
  ASSUME NEW s \in Snaps, SnapInv(s), StoreTypeInv, Latest' \in Nat, Latest' >= Latest,
         \A n \in 1..Latest : world'[n] = world[n],
         view'[s] = view[s], views'[s] = views[s], spc'[s] = spc[s], cache'[s] = cache[s],
         returned'[s] = returned[s], unknown'[s] = unknown[s],
         \A r \in Readers : /\ gpc'[<<s, r>>] = gpc[<<s, r>>]
                            /\ key'[<<s, r>>] = key[<<s, r>>] /\ rec'[<<s, r>>] = rec[<<s, r>>]
  PROVE  SnapInv(s)'
<1>1. PICK n \in 1..Latest : PinnedTo(s, n)
  BY DEF SnapInv
<1>2. n \in 1..Latest'
  BY DEF StoreTypeInv, Latest
<1>3. PinnedTo(s, n)'
  BY <1>1 DEF PinnedTo
<1>4. Nothing(s) => Nothing(s)'
  BY Zenon DEF Nothing
<1>5. spc'[s] = "none" => \A r \in Readers : gpc'[<<s, r>>] = "idle"
  BY DEF SnapInv
<1> QED
  BY <1>2, <1>3, <1>4, <1>5 DEF SnapInv

LEMMA CommitsInv == ASSUME StoreInv, NEW W \in SUBSET Keys, Commits(W) PROVE StoreInv'
<1> DEFINE st == [k \in Keys |-> IF k \notin W THEN world[Latest][k]
                                 ELSE IF world[Latest][k] = NoRecord THEN 0
                                      ELSE world[Latest][k] + 1]
<1>1. world \in Seq([Keys -> Record]) /\ Latest \in Nat /\ Latest >= 1 /\ Latest = Len(world)
  BY DEF StoreInv, StoreTypeInv, Latest
<1>2. world[Latest] \in [Keys -> Record]
  BY <1>1
<1>3. st \in [Keys -> Record]
  BY <1>2 DEF Record
<1>4. world' = Append(world, st)
  BY DEF Commits
<1> HIDE DEF st
<1>5. /\ world' \in Seq([Keys -> Record]) /\ Latest' = Latest + 1
      /\ \A n \in 1..Latest : world'[n] = world[n]
  BY <1>1, <1>3, <1>4 DEF Latest
<1>6. StoreTypeInv'
  BY <1>1, <1>5 DEF StoreInv, StoreTypeInv, Commits, getVars
<1>7. ASSUME NEW s \in Snaps PROVE SnapInv(s)'
  BY <1>1, <1>5, SnapKeeps DEF StoreInv, Commits, getVars
<1> QED
  BY <1>6, <1>7 DEF StoreInv

\* The connections.
LEMMA Picks ==
  ASSUME StoreTypeInv
  PROVE  /\ pick \in Nat /\ pick # 0 /\ (next + 1) % Conns \in 0..(Conns - 1)
         /\ \A s \in Snaps : /\ clientFor(s) \in Nat /\ clientFor(s) # 0
                             /\ Advanced(s) \in 0..(Conns - 1)
<1>1. Conns \in Nat /\ Conns > 0 /\ next \in Nat
  BY QueryStoreAssumption DEF StoreTypeInv
<1>2. (next + 1) % Conns \in 0..(Conns - 1)
  BY <1>1
<1>3. pick \in Nat /\ pick # 0
  BY <1>1, <1>2 DEF pick
<1> QED
  BY <1>1, <1>2, <1>3 DEF StoreTypeInv, clientFor, Advanced

LEMMA GetLatestInv == ASSUME StoreInv, GetLatest PROVE StoreInv'
<1>1. StoreTypeInv'
  BY Picks, Zenon DEF StoreInv, StoreTypeInv, GetLatest, getVars, Latest
<1>2. Latest' \in Nat /\ Latest' >= Latest /\ world' = world
  BY DEF StoreInv, StoreTypeInv, GetLatest, Latest
<1>3. ASSUME NEW s \in Snaps PROVE SnapInv(s)'
  BY <1>2, SnapKeeps DEF StoreInv, GetLatest, getVars
<1> QED
  BY <1>1, <1>3 DEF StoreInv

\* A step of snapshot s leaves the others alone.
LEMMA OneSnap ==
  ASSUME StoreInv, NEW s \in Snaps, StoreTypeInv', SnapInv(s)', world' = world,
         \A t \in Snaps \ {s} :
           /\ view'[t] = view[t] /\ views'[t] = views[t] /\ spc'[t] = spc[t]
           /\ cache'[t] = cache[t] /\ returned'[t] = returned[t] /\ unknown'[t] = unknown[t]
           /\ \A r \in Readers : /\ gpc'[<<t, r>>] = gpc[<<t, r>>]
                                 /\ key'[<<t, r>>] = key[<<t, r>>]
                                 /\ rec'[<<t, r>>] = rec[<<t, r>>]
  PROVE  StoreInv'
<1>1. ASSUME NEW t \in Snaps \ {s} PROVE SnapInv(t)'
  <2>1. Latest' \in Nat /\ Latest' >= Latest /\ \A n \in 1..Latest : world'[n] = world[n]
    BY DEF StoreInv, StoreTypeInv, Latest
  <2> QED
    BY <2>1, SnapKeeps DEF StoreInv
<1> QED
  BY <1>1 DEF StoreInv

LEMMA SnapshotInv == ASSUME StoreInv, NEW s \in Snaps, Snapshot(s) PROVE StoreInv'
<1>1. StoreTypeInv'
  BY Picks, Zenon DEF StoreInv, StoreTypeInv, Snapshot, getVars, Latest
<1>2. SnapInv(s)'
  <2>1. spc[s] = "none" /\ spc'[s] = "open" /\ unknown[s] = FALSE
    BY Zenon DEF Snapshot, StoreInv, StoreTypeInv, SnapInv
  <2>2. view'[s] = [conn |-> pick, pin |-> 0] /\ views'[s] = pick /\ pick # 0
    BY Picks, Zenon DEF Snapshot, StoreInv, StoreTypeInv
  <2>3. \A r \in Readers : gpc[<<s, r>>] = "idle"
    BY <2>1 DEF StoreInv, SnapInv
  <2>4. PICK n \in 1..Latest : PinnedTo(s, n)
    BY DEF StoreInv, SnapInv
  <2>5. Nothing(s)
    BY <2>1 DEF StoreInv, SnapInv
  <2>6. PinnedTo(s, n)' /\ Nothing(s)' /\ Latest' = Latest
    BY <2>2, <2>4, <2>5 DEF PinnedTo, Nothing, Snapshot, getVars, Latest
  <2>7. unknown'[s] = FALSE
    BY <2>1 DEF Snapshot
  <2> QED
    BY <2>1, <2>2, <2>4, <2>6, <2>7 DEF SnapInv
<1> QED
  BY <1>1, <1>2, OneSnap, Zenon DEF StoreInv, StoreTypeInv, Snapshot, getVars

LEMMA LookupInv ==
  ASSUME StoreInv, NEW s \in Snaps, NEW r \in Readers, NEW k \in Keys, Lookup(s, r, k) PROVE StoreInv'
<1>1. <<s, r>> \in Pair
  BY Zenon DEF Pair
<1>2. StoreTypeInv'
  BY <1>1, Zenon DEF StoreInv, StoreTypeInv, Lookup, Latest
<1>3. SnapInv(s)'
  <2>1. PICK n \in 1..Latest : PinnedTo(s, n)
    BY DEF StoreInv, SnapInv
  <2>2. /\ spc[s] = "open" /\ spc' = spc /\ views' = views /\ view' = view /\ unknown' = unknown
        /\ world' = world /\ cache' = cache /\ rec' = rec
    BY Zenon DEF Lookup
  <2>3. returned'[s] \subseteq returned[s] \cup cache[s] /\ (returned[s] = {} /\ cache[s] = {} => returned'[s] = {})
    BY DEF Lookup, StoreInv, StoreTypeInv
  <2>4. \A q \in Readers : gpc'[<<s, q>>] = "store" =>
          gpc[<<s, q>>] = "store" /\ key'[<<s, q>>] = key[<<s, q>>]
    BY <1>1, Zenon DEF Lookup, StoreInv, StoreTypeInv, Pair
  <2>5. PinnedTo(s, n)' /\ Latest' = Latest
    BY <2>1, <2>2, <2>3, <2>4 DEF PinnedTo, Latest
  <2>6. Nothing(s) => Nothing(s)'
    BY <2>2, <2>3, <2>4 DEF Nothing
  <2> QED
    BY <2>2, <2>5, <2>6 DEF StoreInv, SnapInv
<1>4. ASSUME NEW t \in Snaps \ {s}
      PROVE  returned'[t] = returned[t] /\ \A q \in Readers : /\ gpc'[<<t, q>>] = gpc[<<t, q>>]
                                                      /\ key'[<<t, q>>] = key[<<t, q>>]
  BY <1>1 DEF StoreInv, StoreTypeInv, Lookup, Pair
<1>5. /\ world' = world /\ view' = view /\ views' = views /\ spc' = spc /\ cache' = cache
      /\ rec' = rec /\ unknown' = unknown
  BY DEF Lookup
<1> QED
  BY <1>2, <1>3, <1>4, <1>5, OneSnap

\* The state a view is pinned to is a committed one.
LEMMA PinsExist == ASSUME StoreInv, NEW s \in Snaps, NEW p \in Pins(s) PROVE p \in 1..Latest
<1>1. ASSUME NEW t \in Snaps, view[t].pin # 0 PROVE view[t].pin \in 1..Latest
  BY <1>1, Zenon DEF StoreInv, SnapInv, PinnedTo
<1>2. Latest \in 1..Latest
  BY DEF StoreInv, StoreTypeInv, Latest
<1> QED
  BY <1>1, <1>2, Zenon DEF Pins

LEMMA FetchInv ==
  ASSUME StoreInv, NEW s \in Snaps, NEW r \in Readers, Fetch(s, r) PROVE StoreInv'
<1>1. <<s, r>> \in Pair
  BY DEF Pair
<1>2. PICK p \in Pins(s) : /\ view' = [view EXCEPT ![s].pin = p]
                           /\ rec' = [rec EXCEPT ![<<s, r>>] = world[p][key[<<s, r>>]]]
  BY Zenon DEF Fetch
<1>3. p \in 1..Latest /\ p \in Nat /\ p # 0
  <2>1. p \in 1..Latest
    BY PinsExist
  <2> QED
    BY <2>1 DEF StoreInv, StoreTypeInv, Latest
<1>4. /\ world' = world /\ views' = views /\ spc' = spc /\ cache' = cache /\ key' = key
      /\ returned' = returned /\ unknown' = unknown /\ gpc' = [gpc EXCEPT ![<<s, r>>] = "store"]
      /\ gpc[<<s, r>>] = "fetch" /\ Latest' = Latest
  BY DEF Fetch, Latest
<1>5. view'[s] = [conn |-> view[s].conn, pin |-> p] /\ view' \in [Snaps -> [conn : Nat, pin : Nat]]
  <2>1. view \in [Snaps -> [conn : Nat, pin : Nat]]
    BY DEF StoreInv, StoreTypeInv
  <2> QED
    BY <1>2, <1>3, <2>1
<1>6. StoreTypeInv'
  <2>1. next' \in 0..(Conns - 1)
    BY Picks DEF Fetch, StoreInv
  <2> QED
    BY <1>1, <1>2, <1>4, <1>5, <2>1 DEF StoreInv, StoreTypeInv
<1>7. SnapInv(s)'
  <2>1. view[s].conn # 0
    BY Picks DEF Fetch, StoreInv
  <2>2. rec'[<<s, r>>] = world[p][key[<<s, r>>]]
    BY <1>1, <1>2 DEF StoreInv, StoreTypeInv
  <2>3. \A q \in Readers : q # r => /\ gpc'[<<s, q>>] = gpc[<<s, q>>]
                                    /\ rec'[<<s, q>>] = rec[<<s, q>>]
    BY <1>1, <1>2, <1>4 DEF StoreInv, StoreTypeInv, Pair
  <2>4. PinnedTo(s, p)'
    <3>1. CASE view[s].pin = 0
      <4>1. Nothing(s)
        BY <2>1, <3>1 DEF StoreInv, SnapInv
      <4> QED
        BY <1>4, <1>5, <2>2, <2>3, <4>1 DEF PinnedTo, Nothing
    <3>2. CASE view[s].pin # 0
      <4>1. p = view[s].pin
        BY <3>2 DEF Pins
      <4>2. PinnedTo(s, p)
        BY <3>2, <4>1 DEF StoreInv, SnapInv, PinnedTo
      <4> QED
        BY <1>4, <1>5, <2>2, <2>3, <4>2 DEF PinnedTo
    <3> QED
      BY <3>1, <3>2
  <2>5. spc[s] # "none"
    BY <1>4 DEF StoreInv, SnapInv
  <2> QED
    BY <1>3, <1>4, <1>5, <2>4, <2>5 DEF StoreInv, SnapInv
<1>8. ASSUME NEW t \in Snaps \ {s}
      PROVE  view'[t] = view[t] /\ \A q \in Readers : /\ gpc'[<<t, q>>] = gpc[<<t, q>>]
                                                      /\ rec'[<<t, q>>] = rec[<<t, q>>]
  BY <1>1, <1>2, <1>4 DEF StoreInv, StoreTypeInv, Pair
<1> QED
  BY <1>4, <1>6, <1>7, <1>8, OneSnap

LEMMA FetchFailsInv ==
  ASSUME StoreInv, NEW s \in Snaps, NEW r \in Readers, FetchFails(s, r) PROVE StoreInv'
<1>1. <<s, r>> \in Pair
  BY DEF Pair
<1>2. /\ world' = world /\ view' = view /\ views' = views /\ spc' = spc /\ cache' = cache
      /\ returned' = returned /\ gpc[<<s, r>>] = "fetch" /\ gpc' = [gpc EXCEPT ![<<s, r>>] = "idle"]
      /\ key' = [key EXCEPT ![<<s, r>>] = NoRecord] /\ rec' = [rec EXCEPT ![<<s, r>>] = NoRecord]
      /\ unknown' = [unknown EXCEPT ![s] = unknown[s] \/ view[s].conn # clientFor(s)]
      /\ Latest' = Latest
  BY DEF FetchFails, GetReturns, Latest
<1>3. StoreTypeInv'
  <2>1. next' \in 0..(Conns - 1)
    BY Picks DEF FetchFails, StoreInv
  <2>2. unknown' \in [Snaps -> BOOLEAN]
    BY <1>2 DEF StoreInv, StoreTypeInv
  <2> QED
    BY <1>1, <1>2, <2>1, <2>2 DEF StoreInv, StoreTypeInv
<1>4. ASSUME NEW t \in Snaps, NEW q \in Readers, <<t, q>> # <<s, r>>
      PROVE  /\ gpc'[<<t, q>>] = gpc[<<t, q>>] /\ key'[<<t, q>>] = key[<<t, q>>]
             /\ rec'[<<t, q>>] = rec[<<t, q>>]
  BY <1>1, <1>2, <1>4 DEF StoreInv, StoreTypeInv, Pair
<1>5. gpc'[<<s, r>>] = "idle"
  BY <1>1, <1>2 DEF StoreInv, StoreTypeInv
<1>6. SnapInv(s)'
  <2>1. PICK n \in 1..Latest : PinnedTo(s, n)
    BY DEF StoreInv, SnapInv
  <2>2. PinnedTo(s, n)'
    BY <1>2, <1>4, <1>5, <2>1 DEF PinnedTo
  <2>3. Nothing(s) => Nothing(s)'
    BY <1>2, <1>4, <1>5 DEF Nothing
  <2>4. spc[s] # "none"
    BY <1>2 DEF StoreInv, SnapInv
  <2>5. unknown'[s] => spc[s] \in {"ending", "closed"}
    <3>1. spc[s] = "open" => view[s].conn = clientFor(s)
      BY DEF StoreInv, SnapInv, clientFor
    <3>2. spc[s] \in {"open", "ending", "closed"}
      BY <2>4 DEF StoreInv, StoreTypeInv
    <3> QED
      BY <1>2, <3>1, <3>2 DEF StoreInv, StoreTypeInv, SnapInv
  <2> QED
    BY <1>2, <2>2, <2>3, <2>4, <2>5 DEF StoreInv, SnapInv
<1>7. ASSUME NEW t \in Snaps \ {s}
      PROVE  unknown'[t] = unknown[t] /\ \A q \in Readers : <<t, q>> # <<s, r>>
  BY <1>2 DEF StoreInv, StoreTypeInv
<1> QED
  BY <1>2, <1>3, <1>4, <1>6, <1>7, OneSnap

LEMMA CacheRecordInv ==
  ASSUME StoreInv, NEW s \in Snaps, NEW r \in Readers, CacheRecord(s, r) PROVE StoreInv'
<1>1. <<s, r>> \in Pair
  BY DEF Pair
<1> DEFINE got == <<key[<<s, r>>], rec[<<s, r>>]>>
<1>2. /\ world' = world /\ view' = view /\ views' = views /\ spc' = spc /\ next' = next
      /\ unknown' = unknown /\ gpc[<<s, r>>] = "store"
      /\ gpc' = [gpc EXCEPT ![<<s, r>>] = "idle"]
      /\ key' = [key EXCEPT ![<<s, r>>] = NoRecord] /\ rec' = [rec EXCEPT ![<<s, r>>] = NoRecord]
      /\ Latest' = Latest /\ DOMAIN cache' = DOMAIN cache /\ DOMAIN returned' = DOMAIN returned
  BY Zenon DEF CacheRecord, GetReturns, Latest
<1>3. StoreTypeInv'
  BY <1>1, <1>2 DEF StoreInv, StoreTypeInv
<1>4. ASSUME NEW t \in Snaps, NEW q \in Readers, <<t, q>> # <<s, r>>
      PROVE  /\ gpc'[<<t, q>>] = gpc[<<t, q>>] /\ key'[<<t, q>>] = key[<<t, q>>]
             /\ rec'[<<t, q>>] = rec[<<t, q>>]
  BY <1>1, <1>2, <1>4 DEF StoreInv, StoreTypeInv, Pair
<1>5. gpc'[<<s, r>>] = "idle"
  BY <1>1, <1>2 DEF StoreInv, StoreTypeInv
<1>6. cache'[s] \cup returned'[s] \subseteq cache[s] \cup returned[s] \cup {got}
  BY Zenon DEF CacheRecord, StoreInv, StoreTypeInv
<1>7. SnapInv(s)'
  <2>1. PICK n \in 1..Latest : PinnedTo(s, n)
    BY DEF StoreInv, SnapInv
  <2>2. got[2] = world[n][got[1]]
    BY <1>2, <2>1 DEF PinnedTo
  <2>3. PinnedTo(s, n)'
    <3>1. \A c \in returned'[s] \cup cache'[s] : c[2] = world'[n][c[1]]
      BY <1>2, <1>6, <2>1, <2>2 DEF PinnedTo
    <3> QED
      BY <1>2, <1>4, <1>5, <2>1, <3>1 DEF PinnedTo
  <2>4. ~Nothing(s) /\ spc[s] # "none"
    BY <1>2 DEF Nothing, StoreInv, SnapInv
  <2> QED
    BY <1>2, <2>3, <2>4, Zenon DEF StoreInv, SnapInv
<1>8. ASSUME NEW t \in Snaps \ {s}
      PROVE  /\ cache'[t] = cache[t] /\ returned'[t] = returned[t]
             /\ \A q \in Readers : <<t, q>> # <<s, r>>
  BY DEF CacheRecord, StoreInv, StoreTypeInv
<1> QED
  BY <1>2, <1>3, <1>4, <1>7, <1>8, OneSnap

LEMMA CloseInv ==
  ASSUME StoreInv, NEW s \in Snaps, EndView(s) \/ DropView(s) PROVE StoreInv'
<1>1. /\ world' = world /\ cache' = cache /\ returned' = returned /\ gpc' = gpc /\ key' = key
      /\ rec' = rec /\ Latest' = Latest
  BY Zenon DEF EndView, DropView, getVars, Latest
<1>2. /\ spc[s] # "none" /\ spc'[s] \in {"ending", "closed"}
      /\ spc' \in [Snaps -> {"none", "open", "ending", "closed"}]
      /\ \A t \in Snaps \ {s} : spc'[t] = spc[t]
  BY Zenon DEF EndView, DropView, StoreInv, StoreTypeInv
<1>3. /\ next' \in 0..(Conns - 1) /\ views' \in [Snaps -> Nat]
      /\ \A t \in Snaps \ {s} : views'[t] = views[t]
  <2>1. next \in 0..(Conns - 1) /\ views \in [Snaps -> Nat]
    BY Zenon DEF StoreInv, StoreTypeInv
  <2>2. next' = Advanced(s) \/ next' = next
    BY Zenon DEF EndView, DropView
  <2>3. Advanced(s) \in 0..(Conns - 1)
    BY Picks, Zenon DEF StoreInv
  <2>4. views' = views \/ views' = [views EXCEPT ![s] = 0]
    BY Zenon DEF EndView, DropView
  <2> QED
    BY <2>1, <2>2, <2>3, <2>4
<1>4. view' = view \/ view' = [view EXCEPT ![s] = NoView]
  BY DEF EndView, DropView
<1>5. /\ view' \in [Snaps -> [conn : Nat, pin : Nat]]
      /\ view'[s] \in {view[s], NoView} /\ \A t \in Snaps \ {s} : view'[t] = view[t]
  <2>1. view \in [Snaps -> [conn : Nat, pin : Nat]] /\ NoView \in [conn : Nat, pin : Nat]
    BY DEF NoView, StoreInv, StoreTypeInv
  <2> QED
    BY <1>4, <2>1
<1>6. unknown' \in [Snaps -> BOOLEAN] /\ \A t \in Snaps \ {s} : unknown'[t] = unknown[t]
  <2>1. unknown' = unknown \/ unknown' = [unknown EXCEPT ![s] = TRUE]
    BY Zenon DEF EndView, DropView
  <2> QED
    BY <2>1, Zenon DEF StoreInv, StoreTypeInv
<1>7. StoreTypeInv'
  BY <1>1, <1>2, <1>3, <1>5, <1>6 DEF StoreInv, StoreTypeInv
<1>8. SnapInv(s)'
  <2>1. PICK n \in 1..Latest : PinnedTo(s, n)
    BY DEF StoreInv, SnapInv
  <2>2. PinnedTo(s, n)'
    BY <1>1, <1>5, <2>1 DEF PinnedTo, NoView
  <2>3. view'[s].pin = 0 /\ view'[s].conn # 0 => Nothing(s)'
    BY <1>1, <1>5 DEF NoView, Nothing, StoreInv, SnapInv
  <2> QED
    BY <1>1, <1>2, <2>2, <2>3 DEF SnapInv
<1> QED
  BY <1>1, <1>2, <1>3, <1>5, <1>6, <1>7, <1>8, OneSnap

LEMMA StoreInvariant == StoreSpec => []StoreInv
<1>1. StoreInv /\ [StoreNext]_storeVars => StoreInv'
  <2> SUFFICES ASSUME StoreInv, [StoreNext]_storeVars PROVE StoreInv'
    OBVIOUS
  <2>1. CASE UNCHANGED storeVars
    <3>1. StoreTypeInv' /\ Latest' \in Nat /\ Latest' >= Latest
      BY <2>1 DEF storeVars, getVars, StoreInv, StoreTypeInv, Latest
    <3>2. ASSUME NEW s \in Snaps PROVE SnapInv(s)'
      BY <2>1, <3>1, SnapKeeps, Zenon DEF StoreInv, storeVars, getVars
    <3> QED
      BY <3>1, <3>2, Zenon DEF StoreInv
  <2>2. ASSUME NEW s \in Snaps, SnapStep(s) PROVE StoreInv'
    BY <2>2, SnapshotInv, CloseInv, FetchInv, FetchFailsInv, CacheRecordInv, LookupInv, Zenon DEF SnapStep
  <2> QED
    BY <2>1, <2>2, GetLatestInv, CommitsInv DEF StoreNext
<1> QED
  BY <1>1, StoreInitInv, PTL DEF StoreSpec

-----------------------------------------------------------------------------
\* OneConsistentState for any instance: every Get of a snapshot, concurrent ones
\* included, answers from one committed state.
THEOREM SnapshotsAreConsistent == StoreSpec => []OneConsistentState
<1>1. StoreInv => OneConsistentState
  BY DEF StoreInv, SnapInv, PinnedTo, OneConsistentState
<1> QED
  BY <1>1, StoreInvariant, PTL

\* CallsFindTheirView for any instance, whatever the round robin does.
THEOREM ViewsAreSticky == StoreSpec => []CallsFindTheirView
<1>1. StoreInv => CallsFindTheirView
  BY DEF StoreInv, SnapInv, CallsFindTheirView
<1> QED
  BY <1>1, StoreInvariant, PTL

-----------------------------------------------------------------------------
(***************************************************************************)
(* The safety of the synchronizer for any set of monitors, any handler     *)
(* chain and any position of the store in it.                              *)
(***************************************************************************)

USE ConstantsAssumption DEF ConstantsAssumption, Handlers

\* transition keeps the types of what it assigns, for any state it is given.
LEMMA TransitionTypes ==
  ASSUME TypeOK,
         NEW to \in States, NEW err \in BOOLEAN,
         NEW pcs \in [Monitors -> MonPcs],
         transition(to, err, pcs)
  PROVE  /\ state' \in States /\ lastSyncErr' \in BOOLEAN
         /\ monitorCancel' \in Monitors \cup {NoMonitor}
         /\ monPc' \in [Monitors -> MonPcs]
         /\ monCanceled' \subseteq Monitors
<1>1. CASE state = "stopped"
  BY <1>1 DEF transition, TypeOK, syncVars
<1>2. CASE state # "stopped"
  <2>1. Effects(to, err, pcs)
    BY <1>2 DEF transition
  <2>2. state' \in States /\ lastSyncErr' \in BOOLEAN
    BY <2>1, Zenon DEF Effects, TypeOK
  <2>3. CASE to = "syncing" /\ ~runCanceled
    BY <2>1, <2>3 DEF Effects, StartMonitor, CancelsMonitor, TypeOK, MonPcs
  <2>4. CASE ~(to = "syncing" /\ ~runCanceled)
    BY <2>1, <2>4, Zenon DEF Effects, CancelsMonitor, TypeOK
  <2>5. QED
    BY <2>2, <2>3, <2>4
<1>3. QED
  BY <1>1, <1>2

\* A new Synchronizer over a fresh store is well typed.
LEMMA TypeInit == Init => TypeOK
<1> SUFFICES ASSUME Init PROVE TypeOK
  OBVIOUS
<1>1. /\ lastSyncErr \in BOOLEAN /\ runCanceled \in BOOLEAN
      /\ peerClosed \in BOOLEAN
  BY Zenon DEF Init, NewSynchronizer
<1>2. /\ backoff \in 1..MaxBackoff /\ nextBlock \in Nat /\ hpos \in Handlers
      /\ peerHeight \in Nat /\ progress \in Nat \cup {-1} /\ readyAt \in Nat
  BY DEF Init, NewSynchronizer, MaxBackoff
<1>3. QED
  BY <1>1, <1>2 DEF Init, NewSynchronizer, TypeOK, States, LoopPcs, MonPcs

\* Every step of Start, of a monitor and of the environment keeps the types.
LEMMA TypeStep == TypeOK /\ [Next]_vars => TypeOK'
<1> SUFFICES ASSUME TypeOK, [Next]_vars PROVE TypeOK'
  OBVIOUS
<1> USE DEF syncVars, loopVars, monVars, envVars, dataVars
<1>1. CASE Start
  BY <1>1 DEF Start, TypeOK, States, LoopPcs
<1>2. CASE ReadHeight
  BY <1>2 DEF ReadHeight, TypeOK, LoopPcs, StartBlock, BlockNumber, MaxOf
<1>3. CASE ReadHeightFails
  BY <1>3 DEF ReadHeightFails, TypeOK, LoopPcs
<1>4. CASE BackOff
  <2>1. CASE runCanceled
    BY <1>4, <2>1 DEF BackOff, TypeOK, LoopPcs
  <2>2. CASE ~runCanceled
    <3>1. transition("retrying", TRUE, monPc)
      BY <1>4, <2>2, Zenon DEF BackOff
    <3>2. "retrying" \in States /\ monPc \in [Monitors -> MonPcs]
      BY DEF States, TypeOK
    <3>3. /\ state' \in States /\ lastSyncErr' \in BOOLEAN
          /\ monitorCancel' \in Monitors \cup {NoMonitor}
          /\ monPc' \in [Monitors -> MonPcs]
          /\ monCanceled' \subseteq Monitors
      BY <3>1, <3>2, TransitionTypes, Zenon
    <3>4. QED
      BY <1>4, <2>2, <3>3 DEF BackOff, TypeOK, LoopPcs
  <2>3. QED BY <2>1, <2>2
<1>5. CASE sleepCtx
  <2>1. backoff' = backoff \/ backoff' = MinOf(backoff * 2, MaxBackoff)
    BY <1>5 DEF sleepCtx
  <2>2. backoff \in 1..MaxBackoff
    BY DEF TypeOK
  <2>3. backoff' \in 1..MaxBackoff
    BY <2>1, <2>2 DEF MinOf, MaxBackoff
  <2>4. QED
    BY <1>5, <2>3 DEF sleepCtx, TypeOK, LoopPcs
<1>6. CASE EnterSyncing
  <2>1. "syncing" \in States /\ monPc \in [Monitors -> MonPcs]
    BY DEF States, TypeOK
  <2>2. transition("syncing", FALSE, monPc)
    BY <1>6, Zenon DEF EnterSyncing
  <2>3. /\ state' \in States /\ lastSyncErr' \in BOOLEAN
        /\ monitorCancel' \in Monitors \cup {NoMonitor}
        /\ monPc' \in [Monitors -> MonPcs]
        /\ monCanceled' \subseteq Monitors
    BY <2>1, <2>2, TransitionTypes, Zenon
  <2>4. QED
    BY <1>6, <2>3 DEF EnterSyncing, TypeOK, LoopPcs
<1>7. CASE SubscriptionEnds
  BY <1>7 DEF SubscriptionEnds, TypeOK, LoopPcs, MaxBackoff
<1>8. CASE Stop
  <2>1. "stopped" \in States /\ monPc \in [Monitors -> MonPcs]
    BY DEF States, TypeOK
  <2>2. transition("stopped", FALSE, monPc)
    BY <1>8, Zenon DEF Stop
  <2>3. /\ state' \in States /\ lastSyncErr' \in BOOLEAN
        /\ monitorCancel' \in Monitors \cup {NoMonitor}
        /\ monPc' \in [Monitors -> MonPcs]
        /\ monCanceled' \subseteq Monitors
    BY <2>1, <2>2, TransitionTypes, Zenon
  <2>4. QED
    BY <1>8, <2>3 DEF Stop, TypeOK, LoopPcs
<1>9. CASE JoinAndClose
  BY <1>9 DEF JoinAndClose, TypeOK, LoopPcs
<1>10. CASE RecvBlock
  BY <1>10 DEF RecvBlock, TypeOK, LoopPcs
<1>11. CASE RecvFails \/ RecvSuccess \/ HandleFails
  BY <1>11, Zenon DEF RecvFails, RecvSuccess, HandleFails, TypeOK, LoopPcs
<1>12. CASE Handle
  BY <1>12 DEF Handle, TypeOK, LoopPcs, MaxOf
<1>13. ASSUME NEW m \in Monitors,
              ReadPeerHeight(m) \/ CompareHeights(m) \/ ReadLocalFails(m)
              \/ MonitorExits(m)
       PROVE TypeOK'
  BY <1>13, Zenon DEF ReadPeerHeight, CompareHeights, ReadLocalFails, MonitorExits,
     TypeOK, MonPcs
<1>14. ASSUME NEW m \in Monitors, BecomeReady(m)
       PROVE TypeOK'
  <2>1. "ready" \in States /\ [monPc EXCEPT ![m] = "none"] \in [Monitors -> MonPcs]
    BY DEF States, TypeOK, MonPcs
  <2>2. transition("ready", FALSE, [monPc EXCEPT ![m] = "none"])
    BY <1>14, Zenon DEF BecomeReady
  <2>3. /\ state' \in States /\ lastSyncErr' \in BOOLEAN
        /\ monitorCancel' \in Monitors \cup {NoMonitor}
        /\ monPc' \in [Monitors -> MonPcs]
        /\ monCanceled' \subseteq Monitors
    BY <2>1, <2>2, TransitionTypes, Zenon
  <2>4. QED
    BY <1>14, <2>3 DEF BecomeReady, TypeOK
<1>15. CASE PeerCommits \/ Cancel
  <2>1. runCanceled' \in BOOLEAN /\ peerClosed' \in BOOLEAN
    BY <1>15, Zenon DEF PeerCommits, Cancel, TypeOK
  <2>2. QED
    BY <1>15, <2>1 DEF PeerCommits, Cancel, TypeOK
<1>16. CASE Restart
  <2>1. /\ lastSyncErr' \in BOOLEAN /\ runCanceled' \in BOOLEAN
        /\ peerClosed' \in BOOLEAN
    BY <1>16, Zenon DEF Restart
  <2>2. backoff' \in 1..MaxBackoff /\ hpos' \in Handlers
    BY <1>16 DEF Restart, MaxBackoff
  <2>3. QED
    BY <1>16, <2>1, <2>2 DEF Restart, TypeOK, States, LoopPcs, MonPcs
<1>17. CASE UNCHANGED vars
  BY <1>17 DEF vars, TypeOK
<1>18. QED
  BY <1>1, <1>2, <1>3, <1>4, <1>5, <1>6, <1>7, <1>8, <1>9, <1>10, <1>11,
     <1>12, <1>13, <1>14, <1>15, <1>16, <1>17
     DEF Next, LoopStep, MonitorStep, Fault

\* Every reachable state of the synchronizer is well typed; in particular
\* currentBackoff never exceeds maxBackoff.
THEOREM TypeCorrect == Spec => []TypeOK
  BY TypeInit, TypeStep, PTL DEF Spec

-----------------------------------------------------------------------------
\* Whatever state it moves to, transition leaves at most one uncanceled
\* monitor, and none outside "syncing".
LEMMA TransitionMonitors ==
  ASSUME TypeOK, OneLiveMonitor,
         NEW to \in {"syncing", "ready", "retrying", "stopped"},
         NEW err \in BOOLEAN,
         NEW pcs \in [Monitors -> MonPcs],
         \A n \in Monitors : pcs[n] # "none" => monPc[n] # "none",
         transition(to, err, pcs)
  PROVE  /\ OneLiveMonitor'
         /\ state' = IF state = "stopped" THEN "stopped" ELSE to
<1>1. CASE state = "stopped"
  BY <1>1 DEF transition, OneLiveMonitor, Running, syncVars
<1>2. CASE state # "stopped"
  <2>1. Effects(to, err, pcs)
    BY <1>2 DEF transition
  <2>2. state' = to
    BY <2>1 DEF Effects
  <2> DEFINE canceled == IF CancelsMonitor(to)
                         THEN monCanceled \cup {monitorCancel} ELSE monCanceled
  <2>3. \A n \in Monitors : pcs[n] # "none" => n \in canceled \/ n = monitorCancel
    BY DEF OneLiveMonitor, Running
  <2>4. monitorCancel # NoMonitor => CancelsMonitor(to)
    BY DEF CancelsMonitor, OneLiveMonitor
  <2>5. \A n \in Monitors : pcs[n] # "none" => n \in canceled
    BY <2>3, <2>4
  <2>6. CASE to = "syncing" /\ ~runCanceled
    <3>1. StartMonitor(pcs, canceled)
      BY <2>1, <2>6 DEF Effects
    <3>2. PICK m \in Monitors : /\ pcs[m] = "none"
                                /\ monitorCancel' = m
                                /\ monPc' = [pcs EXCEPT ![m] = "wait"]
                                /\ monCanceled' = canceled \ {m}
      BY <3>1, Zenon DEF StartMonitor
    <3>3. \A n \in Monitors : n # m => monPc'[n] = pcs[n]
      BY <3>2
    <3>4. \A n \in Running' : n \in monCanceled' \/ n = m
      BY <2>5, <3>2, <3>3 DEF Running
    <3>5. monitorCancel' = m /\ m \notin monCanceled' /\ state' = "syncing"
      BY <2>2, <2>6, <3>2
    <3>6. QED
      BY <1>2, <2>2, <3>4, <3>5 DEF OneLiveMonitor
  <2>7. CASE ~(to = "syncing" /\ ~runCanceled)
    <3>1. monitorCancel' = NoMonitor /\ monPc' = pcs /\ monCanceled' = canceled
      BY <2>1, <2>4, <2>7 DEF Effects
    <3>2. QED
      BY <1>2, <2>2, <2>5, <3>1 DEF OneLiveMonitor, Running
  <2>8. QED
    BY <2>6, <2>7
<1>3. QED
  BY <1>1, <1>2

\* OneLiveMonitor is inductive together with the correspondence between the
\* state and the place Start's goroutine is at.
LEMMA MonitorStepInv ==
  TypeOK /\ OneLiveMonitor /\ LoopInv /\ [Next]_vars => OneLiveMonitor' /\ LoopInv'
<1> SUFFICES ASSUME TypeOK, OneLiveMonitor, LoopInv, [Next]_vars
             PROVE OneLiveMonitor' /\ LoopInv'
  OBVIOUS
<1> USE DEF syncVars, loopVars, monVars, envVars
<1>0. monPc \in [Monitors -> MonPcs]
  BY DEF TypeOK
<1>1. CASE \/ Start \/ ReadHeight \/ ReadHeightFails \/ sleepCtx
           \/ SubscriptionEnds \/ RecvBlock \/ RecvFails \/ RecvSuccess
           \/ Handle \/ HandleFails \/ PeerCommits \/ Cancel
  <2>1. UNCHANGED monVars /\ UNCHANGED <<monitorCancel, peerClosed>>
    BY <1>1, Zenon DEF Start, ReadHeight, ReadHeightFails, sleepCtx, SubscriptionEnds,
       RecvBlock, RecvFails, RecvSuccess, Handle, HandleFails, PeerCommits, Cancel
  <2>2. \/ UNCHANGED state
        \/ state = "notstarted" /\ state' = "starting"
    BY <1>1, Zenon DEF Start, ReadHeight, ReadHeightFails, sleepCtx, SubscriptionEnds,
       RecvBlock, RecvFails, RecvSuccess, Handle, HandleFails, PeerCommits, Cancel
  <2>3. OneLiveMonitor'
    BY <2>1, <2>2, Zenon DEF OneLiveMonitor, Running
  <2>4. LoopInv'
    BY <1>1, <2>1, Zenon DEF LoopInv, Start, ReadHeight, ReadHeightFails, sleepCtx,
       SubscriptionEnds, RecvBlock, RecvFails, RecvSuccess, Handle, HandleFails,
       PeerCommits, Cancel
  <2>5. QED BY <2>3, <2>4
<1>2. CASE BackOff
  <2>1. CASE runCanceled
    BY <1>2, <2>1 DEF BackOff, OneLiveMonitor, Running, LoopInv
  <2>2. CASE ~runCanceled
    <3>1. transition("retrying", TRUE, monPc)
      BY <1>2, <2>2, Zenon DEF BackOff
    <3>2. /\ OneLiveMonitor'
          /\ state' = IF state = "stopped" THEN "stopped" ELSE "retrying"
      BY <1>0, <3>1, TransitionMonitors, Zenon
    <3>3. QED
      BY <1>2, <2>2, <3>2 DEF BackOff, LoopInv
  <2>3. QED BY <2>1, <2>2
<1>3. CASE EnterSyncing
  <2>1. /\ OneLiveMonitor'
        /\ state' = IF state = "stopped" THEN "stopped" ELSE "syncing"
    BY <1>0, <1>3, TransitionMonitors, Zenon DEF EnterSyncing
  <2>2. QED
    BY <1>3, <2>1 DEF EnterSyncing, LoopInv
<1>4. CASE Stop
  <2>1. /\ OneLiveMonitor'
        /\ state' = "stopped"
    BY <1>0, <1>4, TransitionMonitors, Zenon DEF Stop
  <2>2. QED
    BY <1>4, <2>1 DEF Stop, LoopInv
<1>5. CASE JoinAndClose
  BY <1>5 DEF JoinAndClose, OneLiveMonitor, Running, LoopInv
<1>6. ASSUME NEW m \in Monitors,
             ReadPeerHeight(m) \/ CompareHeights(m) \/ ReadLocalFails(m)
             \/ MonitorExits(m)
      PROVE OneLiveMonitor' /\ LoopInv'
  <2>1. /\ monPc[m] # "none"
        /\ \A n \in Monitors : monPc'[n] # "none" => monPc[n] # "none"
        /\ UNCHANGED <<state, monitorCancel, monCanceled, pc, peerClosed>>
    BY <1>0, <1>6 DEF ReadPeerHeight, CompareHeights, ReadLocalFails, MonitorExits
  <2>2. QED
    BY <2>1 DEF OneLiveMonitor, Running, LoopInv
<1>7. ASSUME NEW m \in Monitors, BecomeReady(m)
      PROVE OneLiveMonitor' /\ LoopInv'
  <2> DEFINE pcs == [monPc EXCEPT ![m] = "none"]
  <2>1. pcs \in [Monitors -> MonPcs]
    BY <1>0 DEF MonPcs
  <2>2. \A n \in Monitors : pcs[n] # "none" => monPc[n] # "none"
    BY <1>0, Zenon
  <2>3. transition("ready", FALSE, pcs)
    BY <1>7, Zenon DEF BecomeReady
  <2>4. /\ OneLiveMonitor'
        /\ state' = IF state = "stopped" THEN "stopped" ELSE "ready"
    BY <2>1, <2>2, <2>3, TransitionMonitors, Zenon
  <2>5. pc \notin {"idle", "returned"} /\ UNCHANGED <<pc, peerClosed>>
    BY <1>7, Zenon DEF BecomeReady, LoopInv
  <2>6. QED
    BY <2>4, <2>5 DEF LoopInv
<1>8. CASE Restart
  BY <1>8 DEF Restart, OneLiveMonitor, Running, LoopInv
<1>9. CASE UNCHANGED vars
  BY <1>9 DEF vars, OneLiveMonitor, Running, LoopInv
<1>10. QED
  BY <1>1, <1>2, <1>3, <1>4, <1>5, <1>6, <1>7, <1>8, <1>9
     DEF Next, LoopStep, MonitorStep, Fault

\* Before Start there is no monitor.
LEMMA MonitorInitInv == Init => OneLiveMonitor /\ LoopInv
<1> SUFFICES ASSUME Init PROVE OneLiveMonitor /\ LoopInv
  OBVIOUS
<1>1. peerClosed = FALSE
  BY Zenon DEF Init, NewSynchronizer
<1>2. QED
  BY <1>1 DEF Init, NewSynchronizer, OneLiveMonitor, Running, LoopInv

\* At any time at most one readiness monitor has an uncanceled context, and
\* only while the synchronizer is syncing: stale monitors never accumulate
\* authority, however they interleave with Start.
THEOREM MonitorsAreBounded == Spec => []OneLiveMonitor
  BY TypeCorrect, MonitorInitInv, MonitorStepInv, PTL DEF Spec

\* When Start has closed the peer no monitor is left to query it.
THEOREM CloseIsAfterJoin == Spec => []NoMonitorAfterClose
<1>1. OneLiveMonitor /\ LoopInv => NoMonitorAfterClose
  BY DEF OneLiveMonitor, LoopInv, NoMonitorAfterClose, Running
<1>2. QED
  BY <1>1, TypeCorrect, MonitorInitInv, MonitorStepInv, PTL DEF Spec

\* No step, of Start or of a monitor left over, takes an instance out of
\* "stopped".
THEOREM StoppedStays == Spec => StoppedIsTerminal
<1>1. /\ TypeOK /\ OneLiveMonitor /\ LoopInv
      /\ TypeOK' /\ OneLiveMonitor' /\ LoopInv' /\ [Next]_vars
      => [state = "stopped" /\ pc' # "idle" => state' = "stopped"]_vars
  <2> SUFFICES ASSUME LoopInv, LoopInv', [Next]_vars,
                      state = "stopped", pc' # "idle"
               PROVE state' = "stopped"
    OBVIOUS
  <2>1. pc \in {"join", "returned"}
    BY Zenon DEF LoopInv
  <2>2. pc' \in {"join", "returned"}
    BY <2>1, Zenon DEF Next, LoopStep, MonitorStep, Fault, Start, ReadHeight,
       ReadHeightFails, BackOff, sleepCtx, EnterSyncing, SubscriptionEnds, Stop,
       JoinAndClose, RecvBlock, RecvFails, RecvSuccess, Handle, HandleFails,
       ReadPeerHeight, CompareHeights, ReadLocalFails, BecomeReady, MonitorExits,
       PeerCommits, Cancel, Restart, vars, loopVars
  <2>3. QED
    BY <2>2 DEF LoopInv
<1>2. QED
  BY <1>1, TypeCorrect, MonitorInitInv, MonitorStepInv, PTL
     DEF Spec, StoppedIsTerminal

-----------------------------------------------------------------------------
\* What the delivery properties need: where the stream is relative to the store.
BlocksInv == StreamInv /\ NoBlockLostUpToStore

\* A handler of the chain takes a block: the only step that moves the store.
LEMMA HandleBlocks == TypeOK /\ BlocksInv /\ Handle => BlocksInv'
<1> SUFFICES ASSUME TypeOK, BlocksInv, Handle PROVE BlocksInv'
  OBVIOUS
<1>1. /\ nextBlock \in Nat /\ hpos \in 1..NHandlers /\ progress \in Nat \cup {-1}
      /\ seen \in [1..NHandlers -> SUBSET Nat] /\ pc = "handle"
  BY DEF TypeOK, Handle
<1>2. /\ seen'[hpos] = seen[hpos] \cup {nextBlock}
      /\ \A h \in 1..NHandlers : h # hpos => seen'[h] = seen[h]
  BY <1>1 DEF Handle
<1>3. CASE hpos < DbPos
  <2>1. progress' = progress /\ hpos' = hpos + 1 /\ pc' = "handle" /\ nextBlock' = nextBlock
    BY <1>1, <1>3 DEF Handle
  <2>2. nextBlock <= progress + 1
    BY <1>1, <1>3 DEF BlocksInv, StreamInv
  <2>3. StreamInv'
    BY <1>1, <1>2, <1>3, <2>1 DEF BlocksInv, StreamInv
  <2>4. NoBlockLostUpToStore'
    <3> SUFFICES ASSUME NEW h \in 1..DbPos
                 PROVE /\ 0..progress \subseteq seen'[h]
                       /\ \A b \in seen'[h] : 0..b \subseteq seen'[h]
      BY <2>1 DEF NoBlockLostUpToStore
    <3>1. /\ h \in 1..NHandlers /\ 0..progress \subseteq seen[h]
          /\ \A b \in seen[h] : 0..b \subseteq seen[h]
      BY DEF BlocksInv, NoBlockLostUpToStore
    <3>2. CASE h # hpos
      BY <1>2, <3>1, <3>2
    <3>3. CASE h = hpos
      <4>1. seen'[h] = seen[h] \cup {nextBlock}
        BY <1>2, <3>3
      <4>2. 0..nextBlock \subseteq 0..progress \cup {nextBlock}
        BY <1>1, <2>2
      <4>3. QED
        BY <3>1, <4>1, <4>2
    <3>4. QED BY <3>2, <3>3
  <2>5. QED BY <2>3, <2>4 DEF BlocksInv
<1>4. CASE hpos = DbPos
  <2>1. nextBlock = progress + 1 \/ (nextBlock = 0 /\ progress = 0)
    BY <1>1, <1>4 DEF BlocksInv, StreamInv
  <2>2. progress' = nextBlock
    BY <1>1, <1>4, <2>1 DEF Handle, MaxOf
  <2>3. \A h \in 1..DbPos : nextBlock \in seen'[h]
    BY <1>1, <1>2, <1>4 DEF BlocksInv, StreamInv
  <2>4. NoBlockLostUpToStore'
    <3> SUFFICES ASSUME NEW h \in 1..DbPos
                 PROVE /\ 0..nextBlock \subseteq seen'[h]
                       /\ \A b \in seen'[h] : 0..b \subseteq seen'[h]
      BY <2>2 DEF NoBlockLostUpToStore
    <3>1. /\ h \in 1..NHandlers /\ 0..progress \subseteq seen[h]
          /\ \A b \in seen[h] : 0..b \subseteq seen[h]
      BY DEF BlocksInv, NoBlockLostUpToStore
    <3>2. seen'[h] = seen[h] \cup {nextBlock}
      BY <1>2, <2>3, <3>1
    <3>3. 0..nextBlock \subseteq 0..progress \cup {nextBlock}
      BY <1>1, <2>1
    <3>4. QED
      BY <3>1, <3>2, <3>3
  <2>5. StreamInv'
    <3>1. CASE hpos = NHandlers
      BY <1>1, <1>2, <1>4, <2>1, <2>2, <2>3, <3>1 DEF BlocksInv, StreamInv, Handle
    <3>2. CASE hpos # NHandlers
      <4>1. hpos' = hpos + 1 /\ pc' = "handle" /\ nextBlock' = nextBlock
        BY <1>1, <3>2 DEF Handle
      <4>2. QED
        BY <1>1, <1>2, <1>4, <2>1, <2>2, <2>3, <3>2, <4>1 DEF BlocksInv, StreamInv
    <3>3. QED BY <3>1, <3>2
  <2>6. QED BY <2>4, <2>5 DEF BlocksInv
<1>5. CASE hpos > DbPos
  <2>1. progress' = progress /\ nextBlock = progress
    BY <1>1, <1>5 DEF Handle, BlocksInv, StreamInv
  <2>2. NoBlockLostUpToStore'
    BY <1>1, <1>2, <1>5, <2>1 DEF BlocksInv, NoBlockLostUpToStore
  <2>3. StreamInv'
    <3>1. CASE hpos = NHandlers
      BY <1>1, <1>2, <1>5, <2>1, <3>1 DEF BlocksInv, StreamInv, Handle
    <3>2. CASE hpos # NHandlers
      <4>1. hpos' = hpos + 1 /\ pc' = "handle" /\ nextBlock' = nextBlock
        BY <1>1, <3>2 DEF Handle
      <4>2. QED
        BY <1>1, <1>2, <1>5, <2>1, <3>2, <4>1 DEF BlocksInv, StreamInv
    <3>3. QED BY <3>1, <3>2
  <2>4. QED BY <2>2, <2>3 DEF BlocksInv
<1>6. QED
  BY <1>1, <1>3, <1>4, <1>5

\* No other step disturbs the relation between stream, store and handlers.
LEMMA BlocksStep == TypeOK /\ BlocksInv /\ [Next]_vars => BlocksInv'
<1> SUFFICES ASSUME TypeOK, BlocksInv, [Next]_vars PROVE BlocksInv'
  OBVIOUS
<1> USE DEF loopVars, dataVars, envVars
<1>1. CASE Handle
  BY <1>1, HandleBlocks
<1>2. CASE ReadHeight
  <2>1. UNCHANGED dataVars
    BY <1>2 DEF ReadHeight
  <2>2. pc' = "exit" \/ (pc' = "enter" /\ nextBlock' = StartBlock)
    BY <1>2 DEF ReadHeight
  <2>3. progress \in Nat \cup {-1}
    BY DEF TypeOK
  <2>4. pc' = "enter" => nextBlock' = progress + 1 \/ (nextBlock' = 0 /\ progress = 0)
    BY <2>2, <2>3 DEF StartBlock, BlockNumber, MaxOf
  <2>5. QED
    BY <2>1, <2>2, <2>4 DEF BlocksInv, StreamInv, NoBlockLostUpToStore
<1>3. CASE EnterSyncing \/ RecvBlock
  <2>1. /\ pc \in {"enter", "stream"} /\ UNCHANGED <<dataVars, nextBlock>>
        /\ pc' = "stream" \/ (pc' = "handle" /\ hpos' = 1)
    BY <1>3, Zenon DEF EnterSyncing, RecvBlock
  <2>2. \A h \in 1..NHandlers : ~(h < 1)
    OBVIOUS
  <2>3. ~(1 > DbPos)
    OBVIOUS
  <2>4. StreamInv'
    BY <2>1, <2>2, <2>3 DEF BlocksInv, StreamInv
  <2>5. QED
    BY <2>1, <2>4 DEF BlocksInv, NoBlockLostUpToStore
<1>4. CASE \/ Start \/ BackOff \/ sleepCtx \/ SubscriptionEnds \/ Stop
           \/ JoinAndClose \/ ReadHeightFails \/ RecvFails \/ RecvSuccess
           \/ HandleFails \/ Restart
  <2>1. UNCHANGED dataVars /\ pc' \notin {"enter", "stream", "handle"}
    BY <1>4, Zenon DEF Start, BackOff, sleepCtx, SubscriptionEnds, Stop, JoinAndClose,
       ReadHeightFails, RecvFails, RecvSuccess, HandleFails, Restart
  <2>2. QED
    BY <2>1 DEF BlocksInv, StreamInv, NoBlockLostUpToStore
<1>5. CASE \/ PeerCommits \/ Cancel
           \/ \E m \in Monitors : MonitorStep(m) \/ ReadLocalFails(m)
           \/ UNCHANGED vars
  <2>1. UNCHANGED <<dataVars, loopVars>>
    BY <1>5, Zenon DEF PeerCommits, Cancel, MonitorStep, ReadLocalFails, ReadPeerHeight,
       CompareHeights, BecomeReady, MonitorExits, vars
  <2>2. QED
    BY <2>1 DEF BlocksInv, StreamInv, NoBlockLostUpToStore
<1>6. QED
  BY <1>1, <1>2, <1>3, <1>4, <1>5 DEF Next, LoopStep, Fault

\* It holds of a fresh store that no handler has fed.
LEMMA BlocksInit == Init => BlocksInv
  BY DEF Init, NewSynchronizer, BlocksInv, StreamInv, NoBlockLostUpToStore

\* For any handler chain, the store and the handlers before it see every block
\* up to the stored height, in order, whatever fails and wherever the process
\* is killed.
THEOREM StoreNeverSkips == Spec => []NoBlockLostUpToStore
<1>1. BlocksInv => NoBlockLostUpToStore
  BY DEF BlocksInv
<1>2. QED
  BY <1>1, TypeCorrect, BlocksInit, BlocksStep, PTL DEF Spec

\* For any handler chain, a handler after the store is never given a block
\* other than the genesis block twice.
THEOREM NoRedeliveryAfterStore == Spec => []AtMostOnceAfterStore
<1>1. TypeOK /\ BlocksInv => AtMostOnceAfterStore
  BY DEF BlocksInv, StreamInv, AtMostOnceAfterStore, TypeOK
<1>2. QED
  BY <1>1, TypeCorrect, BlocksInit, BlocksStep, PTL DEF Spec

-----------------------------------------------------------------------------
\* What readiness needs: the heights a monitor compared, until it reports them.
ReadyInv == MonitorInv /\ ReadyIsBacked

\* The stored height only grows: what a monitor compared stays compared.
LEMMA HeightGrows ==
  ASSUME TypeOK, [Next]_vars
  PROVE  /\ BlockHeight \in Nat /\ BlockHeight' \in Nat
         /\ BlockHeight' >= BlockHeight
<1>1. progress \in Nat \cup {-1} /\ nextBlock \in Nat
  BY DEF TypeOK
<1>2. progress' = progress \/ progress' = MaxOf(progress, nextBlock)
  BY DEF Next, LoopStep, MonitorStep, Fault, Start, ReadHeight, ReadHeightFails,
     BackOff, sleepCtx, EnterSyncing, SubscriptionEnds, Stop, JoinAndClose,
     RecvBlock, RecvFails, RecvSuccess, Handle, HandleFails, ReadPeerHeight,
     CompareHeights, ReadLocalFails, BecomeReady, MonitorExits, PeerCommits,
     Cancel, Restart, vars, dataVars
<1>3. QED
  BY <1>1, <1>2 DEF BlockHeight, BlockNumber, MaxOf

\* Every step keeps the comparison behind a report of readiness valid.
LEMMA ReadyStep ==
  TypeOK /\ TypeOK' /\ OneLiveMonitor /\ ReadyInv /\ [Next]_vars => ReadyInv'
<1> SUFFICES ASSUME TypeOK, TypeOK', OneLiveMonitor, ReadyInv, [Next]_vars
             PROVE ReadyInv'
  OBVIOUS
<1> USE DEF syncVars, loopVars, monVars, dataVars
<1>0. /\ BlockHeight \in Nat /\ BlockHeight' >= BlockHeight
      /\ monPc \in [Monitors -> MonPcs] /\ monPeer \in [Monitors -> Nat]
      /\ readyAt \in Nat
  BY HeightGrows DEF TypeOK
<1>1. BlockHeight' \in Nat
  BY HeightGrows
<1>2. ASSUME UNCHANGED <<monPc, monPeer, readyAt>>,
             state' = "ready" => state = "ready"
      PROVE ReadyInv'
  BY <1>0, <1>1, <1>2 DEF ReadyInv, MonitorInv, ReadyIsBacked, Ready
<1>3. CASE \/ Start \/ ReadHeight \/ ReadHeightFails \/ sleepCtx
           \/ SubscriptionEnds \/ RecvBlock \/ RecvFails \/ RecvSuccess
           \/ Handle \/ HandleFails \/ JoinAndClose \/ PeerCommits \/ Cancel
           \/ UNCHANGED vars
  <2>1. UNCHANGED <<monPc, monPeer, readyAt>> /\ (state' = "ready" => state = "ready")
    BY <1>3 DEF Start, ReadHeight, ReadHeightFails, sleepCtx, SubscriptionEnds,
       RecvBlock, RecvFails, RecvSuccess, Handle, HandleFails, JoinAndClose,
       PeerCommits, Cancel, vars
  <2>2. QED BY <1>2, <2>1
<1>4. CASE BackOff \/ EnterSyncing \/ Stop
  <2>1. PICK to \in {"retrying", "syncing", "stopped"}, err \in BOOLEAN :
          transition(to, err, monPc) \/ UNCHANGED <<syncVars, monVars>>
    BY <1>4, Zenon DEF BackOff, EnterSyncing, Stop
  <2>2. state' # "ready" \/ UNCHANGED state
    BY <2>1, Zenon DEF transition, Effects
  <2>3. /\ \A m \in Monitors : monPc'[m] = "caughtup" => monPc[m] = "caughtup"
        /\ UNCHANGED <<monPeer, readyAt>>
    <3>1. UNCHANGED <<monPeer, readyAt>>
      BY <1>4, Zenon DEF BackOff, EnterSyncing, Stop
    <3>2. \/ monPc' = monPc
          \/ \E m \in Monitors : monPc' = [monPc EXCEPT ![m] = "wait"]
      BY <2>1, Zenon DEF transition, Effects, StartMonitor
    <3>3. QED BY <1>0, <3>1, <3>2
  <2>4. QED
    BY <1>0, <1>1, <2>2, <2>3 DEF ReadyInv, MonitorInv, ReadyIsBacked, Ready
<1>5. ASSUME NEW m \in Monitors, CompareHeights(m)
      PROVE ReadyInv'
  <2>1. /\ UNCHANGED <<state, monPeer, readyAt, progress>>
        /\ monPc' = [monPc EXCEPT ![m] = IF CaughtUp(m) THEN "caughtup" ELSE "wait"]
    BY <1>5 DEF CompareHeights
  <2>2. \A n \in Monitors : monPc'[n] = "caughtup" =>
          monPc[n] = "caughtup" \/ (n = m /\ CaughtUp(m))
    BY <1>0, <2>1
  <2>3. CaughtUp(m) => monPeer[m] <= BlockHeight
    BY <1>0 DEF CaughtUp
  <2>4. MonitorInv'
    BY <1>0, <1>1, <2>1, <2>2, <2>3 DEF ReadyInv, MonitorInv
  <2>5. QED
    BY <1>0, <1>1, <2>1, <2>4 DEF ReadyInv, ReadyIsBacked, Ready
<1>6. ASSUME NEW m \in Monitors,
             ReadPeerHeight(m) \/ ReadLocalFails(m) \/ MonitorExits(m)
      PROVE ReadyInv'
  <2>1. /\ UNCHANGED <<state, readyAt>>
        /\ \A n \in Monitors : monPc'[n] = "caughtup" =>
             monPc[n] = "caughtup" /\ monPeer'[n] = monPeer[n]
    BY <1>0, <1>6 DEF ReadPeerHeight, ReadLocalFails, MonitorExits
  <2>2. QED
    BY <1>0, <1>1, <2>1 DEF ReadyInv, MonitorInv, ReadyIsBacked, Ready
<1>7. ASSUME NEW m \in Monitors, BecomeReady(m)
      PROVE ReadyInv'
  <2>1. /\ UNCHANGED monPeer
        /\ readyAt' = IF state = "stopped" THEN readyAt ELSE monPeer[m]
        /\ monPc[m] = "caughtup"
    BY <1>7, Zenon DEF BecomeReady
  <2>2. monPc' = [monPc EXCEPT ![m] = "none"]
    BY <1>7, Zenon DEF BecomeReady, transition, Effects
  <2>3. state = "stopped" => state' = "stopped"
    BY <1>7, Zenon DEF BecomeReady, transition
  <2>4. MonitorInv'
    BY <1>0, <1>1, <2>1, <2>2 DEF ReadyInv, MonitorInv
  <2>5. ReadyIsBacked'
    BY <1>0, <1>1, <2>1, <2>3 DEF ReadyInv, MonitorInv, ReadyIsBacked, Ready
  <2>6. QED BY <2>4, <2>5 DEF ReadyInv
<1>8. CASE Restart
  BY <1>8 DEF Restart, ReadyInv, MonitorInv, ReadyIsBacked, Ready
<1>9. QED
  BY <1>3, <1>4, <1>5, <1>6, <1>7, <1>8 DEF Next, LoopStep, MonitorStep, Fault

\* Ready() = nil always means that the store holds every block after the genesis
\* block that the reporting monitor saw in the peer's chain.
THEOREM ReadyMeansCaughtUp == Spec => []ReadyIsBacked
<1>1. Init => ReadyInv
  BY DEF Init, NewSynchronizer, ReadyInv, MonitorInv, ReadyIsBacked, Ready
<1>2. ReadyInv => ReadyIsBacked
  BY DEF ReadyInv
<1>3. QED
  BY <1>1, <1>2, TypeCorrect, MonitorInitInv, MonitorStepInv, ReadyStep, PTL
     DEF Spec

=============================================================================
