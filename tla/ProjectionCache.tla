--------------------------- MODULE ProjectionCache ---------------------------
(***************************************************************************)
(* The resolver projection cache of storage/sqlite/sqlite.go.              *)
(*                                                                         *)
(* A reader that misses the cache reads the projections of its snapshot in *)
(* several statements outside any transaction, first the list of sources   *)
(* and then their facts, and stores the result under (workspace, version). *)
(* Publishing, rolling back and pruning commit first and drop cache        *)
(* entries afterwards.  Only projectionMu orders the cache operations, so  *)
(* all of these steps interleave.                                          *)
(*                                                                         *)
(* ResolverProjections is part of storage.Store, which any number of       *)
(* goroutines may call.  The index reads pages instead, past this cache.   *)
(*                                                                         *)
(* The store is reduced to what each version shows; what a reader sees of  *)
(* a version that is not there follows from the validity intervals of      *)
(* GraphStore.  The insertion counter projectionOrder only says which      *)
(* entry is oldest, so an insertion numbers the entries afresh.            *)
(* undisturbed is history: no rollback committed while the entry was read. *)
(***************************************************************************)
EXTENDS Integers, FiniteSets

CONSTANTS
  Content,        \* what a version's projections may be
  Nothing,        \* no projections at all
  Size,           \* resolverProjectionBytes of each content
  MaxBytes,       \* maxProjectionBytes
  Reader,         \* goroutines that call ResolverProjections
  Writer,         \* goroutines that publish, roll back or prune
  Retained,       \* retainedGraphVersions
  MaxVersion      \* bound on version numbers

ASSUME CacheAssumption ==
  /\ Nothing \notin Content
  /\ Size \in [Content \cup {Nothing} -> Nat]
  /\ MaxBytes \in Nat
  /\ Retained \in Nat \ {0}
  /\ MaxVersion \in Nat

VARIABLES
  graphs,           \* the retained versions and their content
  projections,      \* the cache entries, by version
  projectionBytes,  \* the bytes the cache believes it holds
  reader,           \* where each ResolverProjections call is
  writer            \* the cache invalidation each writer still has to do

vars == <<graphs, projections, projectionBytes, reader, writer>>

Version == 1 .. MaxVersion
Value == [sources : Content \cup {Nothing}, facts : Content \cup {Nothing}]
Entry == [value : Value, order : Nat, undisturbed : BOOLEAN]
ReaderState == [at : {"idle", "listing", "reading", "read"}, version : Nat,
                sources : Content \cup {Nothing}, facts : Content \cup {Nothing},
                undisturbed : BOOLEAN]
Idle == [at |-> "idle", version |-> 1, sources |-> Nothing, facts |-> Nothing,
         undisturbed |-> TRUE]
NoInvalidation == [drop |-> {}, pending |-> FALSE]

(* The retained versions are one run of numbers. *)
CacheTypeOK ==
  /\ \E lo \in 1 .. MaxVersion + 1, hi \in 0 .. MaxVersion : graphs \in [lo .. hi -> Content]
  /\ projections \in [DOMAIN projections -> Entry] /\ DOMAIN projections \subseteq Version
  /\ reader \in [Reader -> ReaderState]
  /\ \A r \in Reader : reader[r].at # "idle" => reader[r].version \in Version
  /\ writer \in [Writer -> [drop : SUBSET Version, pending : BOOLEAN]]

TypeOK == CacheTypeOK /\ projectionBytes \in Int
-----------------------------------------------------------------------------
Current == IF DOMAIN graphs = {} THEN 0
           ELSE CHOOSE v \in DOMAIN graphs : \A w \in DOMAIN graphs : w <= v

(* What a statement about version v returns now.  Above the newest version *)
(* the open records answer, below the oldest one nothing does.             *)
Shown(v) ==
  IF v \in DOMAIN graphs THEN graphs[v]
  ELSE IF v > Current /\ Current > 0 THEN graphs[Current] ELSE Nothing

Cached(v) == v \in DOMAIN projections

(* Projections whose facts are missing fail validation, so a value is all  *)
(* of one content, or lists the sources of one and the facts of another.   *)
ValueOf(r) == [sources |-> reader[r].sources, facts |-> reader[r].facts]

ProjectionBytes(value) == Size[value.facts]

(* The bytes of some entries, each told by its entry and its offset.       *)
Held(keys) == UNION {{k} \X (1 .. ProjectionBytes(projections[k].value)) : k \in keys}
Bytes(keys) == Cardinality(Held(keys))

Older(keys, k) == {j \in keys : projections[j].order < projections[k].order}
-----------------------------------------------------------------------------
Init ==
  /\ graphs = [v \in {} |-> Nothing]
  /\ projections = [v \in {} |-> Nothing]
  /\ projectionBytes = 0
  /\ reader = [r \in Reader |-> Idle]
  /\ writer = [w \in Writer |-> NoInvalidation]

(* ResolverProjections of a snapshot the reader opened: a hit returns the  *)
(* entry, a miss goes to the database.                                     *)
OpenSnapshot(r) ==
  /\ reader[r].at = "idle"
  /\ \E v \in DOMAIN graphs :
       reader' = [reader EXCEPT ![r] = [Idle EXCEPT !.at = "listing", !.version = v]]
  /\ UNCHANGED <<graphs, projections, projectionBytes, writer>>

CachedResolverProjections(r) ==
  /\ reader[r].at = "listing"
  /\ Cached(reader[r].version)
  /\ reader' = [reader EXCEPT ![r] = Idle]
  /\ UNCHANGED <<graphs, projections, projectionBytes, writer>>

ReadSources(r) ==
  /\ reader[r].at = "listing"
  /\ ~Cached(reader[r].version)
  /\ reader' = [reader EXCEPT ![r].at = "reading", ![r].sources = Shown(reader[r].version)]
  /\ UNCHANGED <<graphs, projections, projectionBytes, writer>>

(* A plausible bug: the facts of the newest version are read.              *)
ReadFacts_Newest(r) ==
  /\ reader[r].at = "reading"
  /\ reader' = [reader EXCEPT ![r].at = "read", ![r].facts = Shown(Current)]
  /\ UNCHANGED <<graphs, projections, projectionBytes, writer>>

(* An empty list needs no further statement; a source whose facts are gone *)
(* by now fails validation.                                                *)
ReadFacts(r) ==
  LET found == Shown(reader[r].version) IN
  /\ reader[r].at = "reading"
  /\ reader' = [reader EXCEPT ![r] =
       IF reader[r].sources # Nothing /\ found = Nothing THEN Idle
       ELSE [@ EXCEPT !.at = "read",
                      !.facts = IF reader[r].sources = Nothing THEN Nothing ELSE found]]
  /\ UNCHANGED <<graphs, projections, projectionBytes, writer>>

(* The oldest entries, as many as have to go until the new one fits. *)
Evicted(bytes, needed) ==
  LET keys == DOMAIN projections
      fits(K) == bytes - Bytes(K) + needed <= MaxBytes
  IN CHOOSE K \in SUBSET keys :
       /\ \A k \in K : Older(keys, k) \subseteq K /\ ~fits(Older(keys, k))
       /\ fits(K) \/ K = keys

(* An entry the key already has is subtracted, but stays in the map until  *)
(* it is overwritten, and so may be evicted and subtracted again.          *)
CacheResolverProjections(r) ==
  LET v == reader[r].version
      needed == ProjectionBytes(ValueOf(r))
      bytes == projectionBytes - Bytes({v} \cap DOMAIN projections)
      evicted == Evicted(bytes, needed)
      kept == DOMAIN projections \ (evicted \cup {v})
  IN
  /\ reader[r].at = "read"
  /\ reader' = [reader EXCEPT ![r] = Idle]
  /\ IF needed > MaxBytes
     THEN UNCHANGED <<projections, projectionBytes>>
     ELSE /\ projections' = [k \in kept \cup {v} |->
               IF k = v
               THEN [value |-> ValueOf(r), order |-> Cardinality(kept) + 1,
                     undisturbed |-> reader[r].undisturbed]
               ELSE [projections[k] EXCEPT !.order = Cardinality(Older(kept, k)) + 1]]
          /\ projectionBytes' = bytes + needed - Bytes(evicted)
  /\ UNCHANGED <<graphs, writer>>
-----------------------------------------------------------------------------
(* A writer commits, and only then removes cache entries. *)
Commits(w, newGraphs, drop) ==
  /\ ~writer[w].pending
  /\ graphs' = newGraphs
  /\ writer' = [writer EXCEPT ![w] = [drop |-> drop, pending |-> TRUE]]
  /\ UNCHANGED <<projections, projectionBytes>>

(* The retention inside a publication drops no cache entry, and refuses    *)
(* to publish when the version it would prune at is gone.                  *)
Publish(w) ==
  LET v == Current + 1 IN
  /\ v <= MaxVersion
  /\ UNCHANGED reader
  /\ v > Retained => v - Retained + 1 \in DOMAIN graphs \cup {v}
  /\ \E c \in Content :
       Commits(w, [u \in {x \in DOMAIN graphs \cup {v} : x > v - Retained} |->
                     IF u = v THEN c ELSE graphs[u]], {v})

Rollback(w) ==
  /\ reader' = [r \in Reader |-> IF reader[r].at = "idle" THEN Idle
                                 ELSE [reader[r] EXCEPT !.undisturbed = FALSE]]
  /\ \E v \in DOMAIN graphs :
       Commits(w, [u \in {x \in DOMAIN graphs : x <= v} |-> graphs[u]],
               {x \in Version : x > v})

Prune(w) ==
  /\ UNCHANGED reader
  /\ \E v \in DOMAIN graphs :
       Commits(w, [u \in {x \in DOMAIN graphs : x >= v} |-> graphs[u]],
               {x \in Version : x < v})

Drop(keys) == [k \in DOMAIN projections \ keys |-> projections[k]]

(* A plausible bug: the bytes of a dropped entry are not given back.       *)
InvalidateWorkspaceCaches_KeepsBytes(w) ==
  /\ writer[w].pending
  /\ projections' = Drop(writer[w].drop)
  /\ writer' = [writer EXCEPT ![w] = NoInvalidation]
  /\ UNCHANGED <<graphs, projectionBytes, reader>>

InvalidateWorkspaceCaches(w) ==
  /\ writer[w].pending
  /\ projections' = Drop(writer[w].drop)
  /\ projectionBytes' = projectionBytes - Bytes(DOMAIN projections \cap writer[w].drop)
  /\ writer' = [writer EXCEPT ![w] = NoInvalidation]
  /\ UNCHANGED <<graphs, reader>>

Next ==
  \/ \E r \in Reader : \/ OpenSnapshot(r) \/ CachedResolverProjections(r) \/ ReadSources(r)
                       \/ ReadFacts(r) \/ CacheResolverProjections(r)
  \/ \E w \in Writer : Publish(w) \/ Rollback(w) \/ Prune(w) \/ InvalidateWorkspaceCaches(w)

Spec == Init /\ [][Next]_vars
-----------------------------------------------------------------------------
(* Invariants *)

(* Types, and the byte counter agrees with the entries, whatever was       *)
(* evicted, replaced or invalidated, and (sqlite_test.go:936) the entries  *)
(* never hold more than maxProjectionBytes (cacheResolverProjections,      *)
(* invalidateWorkspaceCaches).                                             *)
BudgetHolds ==
  /\ TypeOK
  /\ projectionBytes = Bytes(DOMAIN projections)
  /\ projectionBytes <= MaxBytes

(* The entry of a retained version that no writer is about to drop holds   *)
(* that version's projections, neither older nor mixed ones.               *)
Exact(v) ==
  v \in DOMAIN graphs /\ (\A w \in Writer : v \notin writer[w].drop) =>
    projections[v].value = [sources |-> graphs[v], facts |-> graphs[v]]

(* ResolverProjections: as long as no rollback commits between opening the *)
(* snapshot and storing its projections, the entry stays exact, whatever   *)
(* is published, pruned, rolled back and numbered again before or after.   *)
UndisturbedReadsAreExact ==
  \A v \in DOMAIN projections : projections[v].undisturbed => Exact(v)

(* A read that no rollback crossed is of a version that is, or was before  *)
(* it was pruned, in the history, and has seen nothing else of it.         *)
ReadsAreOfOneVersion ==
  \A r \in Reader : LET v == reader[r].version IN
    reader[r].at # "idle" /\ reader[r].undisturbed =>
      /\ v <= Current
      /\ v \in DOMAIN graphs /\ reader[r].at # "listing" => reader[r].sources = graphs[v]
      /\ v \in DOMAIN graphs /\ reader[r].at = "read" => reader[r].facts = graphs[v]

(* The entry of a version that was rolled back is about to be dropped, so  *)
(* that it is gone when its number is used again and invalidated.          *)
LeftoversAreDropped ==
  /\ \A w \in Writer : ~writer[w].pending => writer[w].drop = {}
  /\ \A v \in DOMAIN projections : projections[v].undisturbed /\ v > Current =>
       \E w \in Writer : v \in writer[w].drop

(* No two reads of one version are under way: each misses the cache, and   *)
(* the second to insert finds the entry of the first.                      *)
ReadsAreDistinct ==
  \A r, s \in Reader :
    r # s /\ {reader[r].at, reader[s].at} \subseteq {"reading", "read"} =>
      reader[r].version # reader[s].version

(* Unless they meet, the version of a read under way is not in the cache.  *)
MissesStayMissed ==
  \A r \in Reader : reader[r].at \in {"reading", "read"} => ~Cached(reader[r].version)

(* Whatever readers do, the counter does not exceed the bytes held, nor    *)
(* the budget: when it is wrong, it is too low (cacheResolverProjections). *)
CounterInv ==
  /\ projectionBytes \in Int
  /\ projectionBytes <= Bytes(DOMAIN projections)
  /\ projectionBytes <= MaxBytes

(* What the counter misses of the bytes held. *)
Drift == Bytes(DOMAIN projections) - projectionBytes

(* cacheResolverProjections: the counter goes wrong in one way only.  A    *)
(* read had missed its version, yet finds an entry of it when it stores,   *)
(* because another read of that version was faster; and it may then miss   *)
(* the bytes of that entry and no more.  No other step of a reader or a    *)
(* writer changes the drift: it is never made up for either.               *)
DriftNeedsMeetingReads ==
  [][ \/ Drift' = Drift
      \/ \E r \in Reader :
           LET v == reader[r].version IN
           /\ CacheResolverProjections(r) /\ Cached(v)
           /\ Drift' = Drift + Bytes({v}) ]_vars

(* The inductive invariant behind UndisturbedReadsAreExact. *)
CacheInv ==
  /\ CacheTypeOK
  /\ ReadsAreOfOneVersion
  /\ LeftoversAreDropped
  /\ UndisturbedReadsAreExact

=============================================================================
