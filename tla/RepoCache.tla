------------------------------ MODULE RepoCache ------------------------------
(***************************************************************************)
(* What the repository service promises its clients (spec 4.3), without   *)
(* the syncer's locks, permits and goroutines.  An item is a directory    *)
(* listing or a file of a commit, or the named commits of a url.  A       *)
(* request for a missing item admits a sync of it unless a sync of the     *)
(* same key (url@commit, or url@"") is already pending; a pending sync may *)
(* fill the item with the one answer git gives for it, any number of      *)
(* times, and ends.  A file is only synced once its directory listing is  *)
(* cached, and every sync eventually ends (it may end without filling:    *)
(* gits can fail).                                                         *)
(***************************************************************************)
CONSTANTS
    Items,     \* <<key, kind>> pairs, kind "dir", "blob" or "repo"
    Answer,    \* the value a completed sync stores for each item
    Missing    \* the value of an item not in the store

VARIABLES
    cache,     \* the stored value of each item, or Missing
    pending    \* the items with a sync in progress

vars == <<cache, pending>>

Key(i) == i[1]

\* A file needs the directory listing of its commit.
Prerequisites(i) == IF i[2] = "blob" THEN {<<Key(i), "dir">>} ELSE {}

TypeOK ==
    /\ cache \in [Items -> {Answer[i] : i \in Items} \cup {Missing}]
    /\ pending \subseteq Items

Init ==
    /\ cache = [i \in Items |-> Missing]
    /\ pending = {}

\* A client asks for i and a sync of it is admitted.
Request(i) ==
    /\ \A j \in pending : Key(j) # Key(i)
    /\ \A p \in Prerequisites(i) : cache[p] # Missing
    /\ pending' = pending \cup {i}
    /\ UNCHANGED cache

\* The pending sync of i stores what git answered.
Fill(i) ==
    /\ i \in pending
    /\ cache' = [cache EXCEPT ![i] = Answer[i]]
    /\ UNCHANGED pending

\* The sync of i ends, filled or not.
Finish(i) ==
    /\ i \in pending
    /\ pending' = pending \ {i}
    /\ UNCHANGED cache

Next == \E i \in Items : Request(i) \/ Fill(i) \/ Finish(i)

Spec == Init /\ [][Next]_vars /\ \A i \in Items : WF_vars(Finish(i))
=============================================================================
