----------------------------- MODULE WatchCache -----------------------------
(***************************************************************************)
(* What a watch loop (pkg/watcher) promises to its consumer, without       *)
(* lists, streams or retries: the set of managed names is at every moment  *)
(* the set of names the API server held at one revision of its history,    *)
(* and that revision only moves forward, until the loop is abandoned and   *)
(* starts over with nothing.                                               *)
(***************************************************************************)
EXTENDS Naturals, Sequences

CONSTANT Names          \* names an item may have

VARIABLES hist,         \* hist[v]: the names in the API server at revision v
          ver,          \* the revision the cache reflects
          view          \* the managed names

cacheVars == <<hist, ver, view>>

(* The names at revision v; nothing exists at revision 0. *)
NamesAt(v) == IF v = 0 THEN {} ELSE hist[v]

CacheInit ==
  /\ hist = <<>>
  /\ ver = 0
  /\ view = {}

(* A user changes the API server's content. *)
Publish(S) ==
  /\ hist' = Append(hist, S)
  /\ UNCHANGED <<ver, view>>

(* The loop catches up with a revision that is not older than its own. *)
CatchUp(v) ==
  /\ v >= ver
  /\ ver' = v
  /\ view' = NamesAt(v)
  /\ UNCHANGED hist

(* The loop is abandoned: a new one starts with an empty map. *)
StartOver ==
  /\ ver' = 0
  /\ view' = {}
  /\ UNCHANGED hist

CacheNext ==
  \/ \E S \in SUBSET Names : Publish(S)
  \/ \E v \in 0..Len(hist) : CatchUp(v)
  \/ StartOver

CacheSpec == CacheInit /\ [][CacheNext]_cacheVars
=============================================================================
