------------------------------- MODULE DbArray -------------------------------
(***************************************************************************)
(* tools::db::array_accessor: a container of the database with keys        *)
(* 0..size-1, in front of it a cache of values (epee cache_base) and a     *)
(* cached size.  A container is a record:                                  *)
(*   db      what a transaction of the thread that uses it would read      *)
(*   data    the cached values by key                                      *)
(*   recent  most_recet_acessed, the most recent key first; the iterator   *)
(*           that goes with a cached value is the first node of its key    *)
(*   size    size_cache, NoSize unless size_cache_valid                    *)
(* The operators are what the writer's thread does, or any thread while    *)
(* there is no writer: the isolation lock lets it use the caches.          *)
(***************************************************************************)
EXTENDS Integers, Sequences, SequencesExt, FiniteSets, Functions

CONSTANT MaxElements   \* mac_allowed_elements

ASSUME MaxElementsAssumption == MaxElements \in Nat \ {0}

NoSize == -1
Absent == "absent"     \* the null pointer get returns

Opened(db) == [db |-> db, data |-> <<>>, recent |-> <<>>, size |-> NoSize]

Without(f, k) == Restrict(f, DOMAIN f \ {k})
With(f, k, v) == [i \in DOMAIN f \cup {k} |-> IF i = k THEN v ELSE f[i]]
-----------------------------------------------------------------------------
(***************************************************************************)
(* cache_base.  A value that is set again gets a second node; its old node *)
(* takes the value with it when it is trimmed.                             *)
(***************************************************************************)
NodeTrimmed(c) == IF Len(c.recent) > MaxElements THEN [c EXCEPT !.recent = Front(@)] ELSE c

trim(c) ==
  IF Len(c.recent) > MaxElements
  THEN [c EXCEPT !.recent = Front(@), !.data = Without(@, Last(c.recent))]
  ELSE c

CacheSet(c, k, v) == trim([c EXCEPT !.recent = <<k>> \o @, !.data = With(@, k, v)])

CacheErase(c, k) ==
  IF k \notin DOMAIN c.data THEN c
  ELSE [c EXCEPT !.recent = RemoveFirst(@, k), !.data = Without(@, k)]

CacheHit(c, k) == [c EXCEPT !.recent = <<k>> \o RemoveFirst(@, k)]

CacheCleared(c) == [c EXCEPT !.recent = <<>>, !.data = <<>>]
-----------------------------------------------------------------------------
(* size: its value, and what calling it leaves behind.                     *)
size(c)  == IF c.size # NoSize THEN c.size ELSE Cardinality(DOMAIN c.db)
Sized(c) == [c EXCEPT !.size = size(c)]

(* get: its value, and what calling it leaves behind.                      *)
get(c, k) ==
  IF k \in DOMAIN c.data THEN c.data[k]
  ELSE IF k \in DOMAIN c.db THEN c.db[k] ELSE Absent

Got(c, k) ==
  IF k \in DOMAIN c.data THEN CacheHit(c, k)
  ELSE IF k \in DOMAIN c.db THEN CacheSet(c, k, c.db[k]) ELSE c

set(c, k, v) == CacheSet([c EXCEPT !.db = With(@, k, v), !.size = NoSize], k, v)

CacheKept(c, k) == [c EXCEPT !.db = Without(@, k), !.size = NoSize]
erase(c, k)     == CacheErase([c EXCEPT !.db = Without(@, k), !.size = NoSize], k)

clear(c) == [CacheCleared(c) EXCEPT !.db = <<>>, !.size = NoSize]

push_back(c, v) == set(Sized(c), size(c), v)
pop_back(c)     == erase(Sized(c), size(c) - 1)
back(c)         == get(c, size(c) - 1)
Backed(c)       == Got(Sized(c), size(c) - 1)
=============================================================================
