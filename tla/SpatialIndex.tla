---------------------------- MODULE SpatialIndex ----------------------------
(***************************************************************************)
(* internal/geo: the in-memory spatial index, which is a tree of places, a  *)
(* Bloom filter of ids and a cache of answers, for queries that run         *)
(* concurrently with the updates.                                          *)
(*                                                                         *)
(* Places lie on a line, so a node of the tree has two halves where the     *)
(* code has four quarters.  A query reads the cache, searches the tree and  *)
(* writes the cache in three steps, of which only the second holds the      *)
(* lock of the index.  The radius of all the queries is the same.          *)
(***************************************************************************)
EXTENDS Integers, Sequences, FiniteSets

CONSTANTS
  Object,        \* ids
  Position,      \* where objects may be reported, outside of the world too
  Centre,        \* the centres of queries
  Querier,       \* goroutines that query
  World,         \* the root covers -World..World
  NodeCapacity, MaxDepth, MinNodeSize,
  Radius,        \* of a query
  Box,           \* half the side of its bounding box, radius / 111 degrees
  Rounding,      \* centres with one quotient by it, rounded toward zero, share a cache entry
  CacheCapacity, CacheTTL,
  IndexMaxAge,   \* maxAge of the tree
  IndexHorizon,  \* bound on the clock
  MaxQueried     \* bound on the objects of the index while queries run or are cached

ASSUME SpatialAssumption ==
  /\ {NodeCapacity, MinNodeSize, Rounding, CacheCapacity} \subseteq Nat \ {0}
  /\ {World, MaxDepth, Radius, Box, CacheTTL, IndexMaxAge, IndexHorizon, MaxQueried} \subseteq Nat
  /\ Box <= Radius /\ Position \cup Centre \subseteq Int

VARIABLES
  hour,     \* the clock
  objects,  \* the map of the tree: the objects by their ids
  tree,     \* the leaves of the tree, and the objects that they hold
  bloom,    \* the ids that were added to the Bloom filter
  cache,    \* the cached answers, the most recently used one first
  query,    \* what each querier does
  left      \* history: when an object that is not in the index has left it

indexVars == <<hour, objects, tree, bloom, cache, query, left>>

-----------------------------------------------------------------------------
(* The tree.                                                                *)

Root == [lo |-> -World, hi |-> World, depth |-> 0]

\* insertIntoChild and remove descend by comparing with the centres only.
Leads(cell, pos) ==
  /\ cell.lo = -World \/ cell.lo <= pos
  /\ cell.hi = World \/ pos < cell.hi

Halves(cell) ==
  LET mid == (cell.lo + cell.hi) \div 2
  IN  {[lo |-> cell.lo, hi |-> mid, depth |-> cell.depth + 1],
       [lo |-> mid, hi |-> cell.hi, depth |-> cell.depth + 1]}

ShouldSplit(leaves, cell) ==
  /\ Cardinality(leaves[cell]) > NodeCapacity
  /\ cell.depth < MaxDepth /\ cell.hi - cell.lo > MinNodeSize

\* Splits the leaves of one depth that hold too much; their halves are the next depth's.
SplitDepth(leaves, depth) ==
  LET over == {c \in DOMAIN leaves : c.depth = depth /\ ShouldSplit(leaves, c)}
  IN  [c \in (DOMAIN leaves \ over) \cup UNION {Halves(d) : d \in over} |->
         IF c \in DOMAIN leaves THEN leaves[c]
         ELSE {o \in UNION {leaves[d] : d \in over} : Leads(c, o.pos)}]

\* The splits go down from the leaf that receives the object.
InsertInto(leaves, o) ==
  LET added == [c \in DOMAIN leaves |->
                  IF Leads(c, o.pos) THEN leaves[c] \cup {o} ELSE leaves[c]]
      split[depth \in 0..MaxDepth] ==
        IF depth = 0 THEN added ELSE SplitDepth(split[depth - 1], depth - 1)
  IN  IF o.pos \in -World..World THEN split[MaxDepth] ELSE leaves

\* remove finds the leaf by the place of the object and the entry by its id.
Unremoved(leaves, S)  == leaves
WithoutAll(leaves, S) ==
  [c \in DOMAIN leaves |->
     {p \in leaves[c] : \A o \in S : ~(Leads(c, o.pos) /\ p.id = o.id)}]

\* A map is ranged over in any order.
OrdersOf(S) == {order \in [1..Cardinality(S) -> S] : \A o \in S : \E i \in DOMAIN order : order[i] = o}
EmptyTree   == [c \in {Root} |-> {}]
Rebuilt(order) ==
  LET after[n \in 0..Len(order)] ==
        IF n = 0 THEN EmptyTree ELSE InsertInto(after[n - 1], order[n])
  IN  after[Len(order)]

Old(id) == {o \in objects : o.id = id}

\* QueryRadius: the leaves that meet the box, and then the exact distance.
DistanceTo(o, centre) == IF o.pos > centre THEN o.pos - centre ELSE centre - o.pos
SearchTree(centre) ==
  LET meets == {c \in DOMAIN tree : c.hi >= centre - Box /\ c.lo <= centre + Box}
  IN  {o \in UNION {tree[c] : c \in meets} :
         DistanceTo(o, centre) <= Box /\ DistanceTo(o, centre) <= Radius}

-----------------------------------------------------------------------------
(* The cache.                                                               *)

\* int() rounds toward zero: the centres on both sides of zero share a key.
KeyOf(centre) ==
  IF centre < 0 THEN -((-centre) \div Rounding) ELSE centre \div Rounding
Hits(key)     == {i \in DOMAIN cache : cache[i].key = key}
AnyAge(e)     == TRUE
Young(e)      == hour - e.at <= CacheTTL
Slot(key)     == CHOOSE i \in Hits(key) : TRUE
CacheEntry(key)    == cache[Slot(key)]

\* removeElement.
Without(key) ==
  IF Hits(key) = {} THEN cache
  ELSE [i \in 1..(Len(cache) - 1) |-> cache[IF i < Slot(key) THEN i ELSE i + 1]]

\* LRUCache.Get: an entry that is too old goes, another one comes to the front and keeps
\* its time.
GetCache(key) ==
  IF Hits(key) = {} THEN cache
  ELSE IF Young(CacheEntry(key)) THEN <<CacheEntry(key)>> \o Without(key) ELSE Without(key)

\* LRUCache.Set.
SetCache(key, value) ==
  LET new == <<[key |-> key, value |-> value, at |-> hour]>> \o Without(key)
  IN  IF Len(new) > CacheCapacity THEN SubSeq(new, 1, CacheCapacity) ELSE new

\* LRUCache.Clean goes from the back to the first entry that is young.
CleanCache ==
  LET young == {i \in DOMAIN cache : Young(cache[i])}
  IN  SubSeq(cache, 1, IF young = {} THEN 0 ELSE CHOOSE i \in young : \A j \in young : j <= i)

-----------------------------------------------------------------------------

Idle == [step |-> "idle", centre |-> 0, found |-> {}]

IndexInit ==
  /\ hour    = 0
  /\ objects = {}
  /\ tree    = EmptyTree
  /\ bloom   = {}
  /\ cache   = <<>>
  /\ query   = [q \in Querier |-> Idle]
  /\ left    = [id \in Object |-> 0]

Quiet == cache = <<>> /\ \A q \in Querier : query[q] = Idle
Leave(ids) == left' = [id \in Object |-> IF id \in ids THEN hour ELSE left[id]]

\* SpatialIndex.Insert, under the lock of the index: the tree is updated and every cached
\* answer goes.
InsertObject(id, pos) ==
  LET o == [id |-> id, pos |-> pos, at |-> hour] IN
  /\ Quiet \/ Cardinality(objects \ Old(id)) < MaxQueried
  /\ bloom'   = bloom \cup {id}
  /\ objects' = (objects \ Old(id)) \cup {o}
  /\ tree'    = InsertInto(WithoutAll(tree, Old(id)), o)
  /\ cache'   = <<>>
  /\ left'    = [left EXCEPT ![id] = 0]
  /\ UNCHANGED <<hour, query>>

\* SpatialIndex.Remove leaves the cache and the Bloom filter alone.
RemoveObject(id) ==
  /\ Old(id) # {}
  /\ objects' = objects \ Old(id)
  /\ tree'    = WithoutAll(tree, Old(id))
  /\ Leave({id})
  /\ UNCHANGED <<hour, bloom, cache, query>>

\* SpatialIndex.Clean.
CleanIndex ==
  LET old  == {o \in objects : hour - o.at > IndexMaxAge}
      many == Cardinality(old) > Cardinality(objects \ old) \div 4
  IN  /\ objects' = objects \ old
      /\ \E order \in OrdersOf(objects \ old) :
           tree'  = IF many THEN Rebuilt(order) ELSE WithoutAll(tree, old)
      /\ cache'   = CleanCache
      /\ bloom'   = IF many THEN {} ELSE bloom
      /\ Leave({o.id : o \in old})
      /\ UNCHANGED <<hour, query>>

\* SpatialIndex.QueryRadius in three steps.  A hit is the answer.
LookUp(q, centre) ==
  LET key == KeyOf(centre)  hit == Hits(key) # {} /\ Young(CacheEntry(key)) IN
  /\ query[q].step = "idle" /\ Cardinality(objects) <= MaxQueried
  /\ cache' = GetCache(key)
  /\ query' = [query EXCEPT ![q] = [step   |-> IF hit THEN "answer" ELSE "search",
                                    centre |-> centre,
                                    found  |-> IF hit THEN CacheEntry(key).value ELSE {}]]
  /\ UNCHANGED <<hour, objects, tree, bloom, left>>

Search(q) ==
  /\ query[q].step = "search"
  /\ query' = [query EXCEPT ![q].step = "store", ![q].found = SearchTree(query[q].centre)]
  /\ UNCHANGED <<hour, objects, tree, bloom, cache, left>>

Store(q) ==
  /\ query[q].step = "store"
  /\ cache' = SetCache(KeyOf(query[q].centre), query[q].found)
  /\ query' = [query EXCEPT ![q].step = "answer"]
  /\ UNCHANGED <<hour, objects, tree, bloom, left>>

Answered(q) ==
  /\ query[q].step = "answer"
  /\ query' = [query EXCEPT ![q] = Idle]
  /\ UNCHANGED <<hour, objects, tree, bloom, cache, left>>

\* A query takes less than a unit of time.
PassTime ==
  /\ hour < IndexHorizon /\ \A q \in Querier : query[q] = Idle
  /\ hour' = hour + 1
  /\ UNCHANGED <<objects, tree, bloom, cache, query, left>>

IndexNext ==
  \/ \E id \in Object, pos \in Position : InsertObject(id, pos)
  \/ \E id \in Object : RemoveObject(id)
  \/ CleanIndex
  \/ \E q \in Querier, centre \in Centre : LookUp(q, centre)
  \/ \E q \in Querier : Search(q) \/ Store(q) \/ Answered(q)
  \/ PassTime

IndexSpec == IndexInit /\ [][IndexNext]_indexVars

-----------------------------------------------------------------------------
(* Properties.                                                              *)

Objects == [id : Object, pos : Position, at : 0..IndexHorizon]
CacheEntries == [key : Int, value : SUBSET Objects, at : 0..IndexHorizon]
Queries == [step : {"idle", "search", "store", "answer"}, centre : Int, found : SUBSET Objects]

IndexTypeOK ==
  /\ hour \in 0..IndexHorizon /\ objects \subseteq Objects /\ bloom \subseteq Object
  /\ \A c \in DOMAIN tree : tree[c] \subseteq Objects /\ c.depth <= MaxDepth
  /\ cache \in Seq(CacheEntries)
  /\ Len(cache) <= CacheCapacity
  /\ query \in [Querier -> Queries] /\ left \in [Object -> 0..IndexHorizon]

\* After any sequence of insertions, moves, removals, splits and rebuilds every place has
\* one leaf, and a leaf holds the objects that the descent leads to it, at their latest
\* places, and no others: none is lost or left behind where it was (QuadTree.Update,
\* node.split, QuadTree.rebuild).
TreeHoldsMap ==
  /\ \A pos \in -World..World :
       \E c \in DOMAIN tree : \A d \in DOMAIN tree : Leads(d, pos) <=> d = c
  /\ \A c \in DOMAIN tree :
       tree[c] = {o \in objects : o.pos \in -World..World /\ Leads(c, o.pos)}

\* How far apart two centres can be that share an entry of the cache: less than one
\* rounding, but less than two around zero.
Slack(centre) == IF KeyOf(centre) = 0 THEN 2 * Rounding - 2 ELSE Rounding - 1

\* An answer, cached or not, misses no object that has been at its place in the box, with a
\* margin for the rounding of the key, for longer than the TTL of the cache, and shows none
\* that is out of reach or has left the index for longer - although an update may come
\* between the search of a query and its write to the cache.
AnswersSettle ==
  [][\A q \in Querier : query[q].step # "answer" /\ query'[q].step = "answer" =>
       LET answer == query'[q] IN
       /\ \A o \in objects :
            /\ o.at < hour - CacheTTL /\ o.pos \in -World..World
            /\ DistanceTo(o, answer.centre) <= Box - Slack(answer.centre)
            => o \in answer.found
       /\ \A o \in answer.found :
            /\ DistanceTo(o, answer.centre) <= Radius + Slack(answer.centre)
            /\ Old(o.id) # {} \/ left[o.id] >= hour - CacheTTL]_indexVars
=============================================================================
