----------------------------- MODULE IndexHeight -----------------------------
(***************************************************************************)
(* db/index.go: the height every plugin has indexed up to, kept twice - in *)
(* the index_heights table of the database and in a process-wide sync.Map  *)
(* (indexCache) in front of it.                                            *)
(*                                                                         *)
(* The cache is written BEFORE the transaction that moves the row commits, *)
(* is never written back on a rollback, and is never invalidated while the *)
(* process lives.  A reader that misses the cache reads the row first and  *)
(* stores what it read later, so its store may land after the owner of the *)
(* height has moved on.                                                    *)
(*                                                                         *)
(* The operators below are the component's operations; the modules that    *)
(* extend this one say who calls them.  The database server itself is      *)
(* external: a row is what a committed transaction left there.             *)
(***************************************************************************)
EXTENDS Naturals

CONSTANTS Plugins,   \* plugin names, the keys of index_heights
          NoHeight   \* no row / no cache entry

VARIABLES row,       \* row[p]: the committed height of p, or NoHeight
          cache,     \* cache[p]: indexCache's entry for p, or NoHeight
          filling    \* filling[p]: heights other goroutines have read from
                     \* p's row after a cache miss and not stored yet

indexVars == <<row, cache, filling>>

ASSUME NoHeightAssumption == NoHeight \notin Nat

(* The component's types, for heights drawn from H. *)
IndexTypeOK(H) ==
    /\ row \in [Plugins -> H \cup {NoHeight}]
    /\ cache \in [Plugins -> H \cup {NoHeight}]
    /\ filling \in [Plugins -> SUBSET H]

IndexInit ==
    /\ row = [p \in Plugins |-> NoHeight]
    /\ cache = [p \in Plugins |-> NoHeight]
    /\ filling = [p \in Plugins |-> {}]

-----------------------------------------------------------------------------
(* GetIndexHeight called by p's own goroutine.  Nobody else moves p's row, *)
(* so the Load, the query and the Store are one step.  Height is the value *)
(* returned: the entry, else the row (which is then cached), else 0 for a  *)
(* row that is created on the spot and NOT cached.                         *)

IndexHeightOf(p) ==
    IF cache[p] # NoHeight THEN cache[p]
    ELSE IF row[p] # NoHeight THEN row[p]
    ELSE 0

GetIndexHeight(p) ==
    /\ cache' = [cache EXCEPT ![p] = IF @ # NoHeight THEN @ ELSE row[p]]
    /\ row' = [row EXCEPT ![p] = IF cache[p] = NoHeight /\ @ = NoHeight
                                 THEN 0 ELSE @]

(* GetIndexHeight called on p by any other goroutine (a dependent runner's *)
(* getTipHeight, the Info RPC, a monitor).  A hit changes nothing.  A miss *)
(* is two steps, the query and the Store.                                  *)

ReadMiss(p) ==
    /\ cache[p] = NoHeight
    /\ row[p] # NoHeight
    /\ filling' = [filling EXCEPT ![p] = @ \cup {row[p]}]
    /\ UNCHANGED <<row, cache>>

(* Mutant: Create that overwrites a row that exists. *)
ReadCreate_Overwrites(p) ==
    /\ cache[p] = NoHeight
    /\ row' = [row EXCEPT ![p] = 0]
    /\ UNCHANGED <<cache, filling>>

ReadCreate(p) ==
    /\ cache[p] = NoHeight
    /\ row[p] = NoHeight
    /\ row' = [row EXCEPT ![p] = 0]
    /\ UNCHANGED <<cache, filling>>

ReadStore(p, h) ==
    /\ h \in filling[p]
    /\ cache' = [cache EXCEPT ![p] = h]
    /\ filling' = [filling EXCEPT ![p] = @ \ {h}]
    /\ UNCHANGED row

(* A miss whose query and Store no other step separates. *)
ReadThrough(p) ==
    /\ cache[p] = NoHeight
    /\ row[p] # NoHeight
    /\ cache' = [cache EXCEPT ![p] = row[p]]
    /\ UNCHANGED <<row, filling>>

-----------------------------------------------------------------------------
(* UpdateIndexHeightByTx: the cache entry is stored at once, the row moves *)
(* only if the surrounding transaction commits.                            *)

(* Mutant: the cache entry is not stored. *)
CacheIndexHeight_Forgotten(p, h) == UNCHANGED cache

CacheIndexHeight(p, h) ==
    cache' = [cache EXCEPT ![p] = h]

CommitIndexHeight(p, h) ==
    row' = [row EXCEPT ![p] = h]

(* The process dies: the cache and every read in flight are gone. *)
ForgetIndex ==
    /\ cache' = [p \in Plugins |-> NoHeight]
    /\ filling' = [p \in Plugins |-> {}]
    /\ UNCHANGED row
=============================================================================
