------------------------------ MODULE FileCache ------------------------------
(***************************************************************************)
(* Files fetched over the network and kept on disk: the images of the cards *)
(* (osubot-render cache.rs), with a lock per URL and a bound on fetches,    *)
(* and the beatmaps, previews and replays (api/http.rs, ur.rs), without.    *)
(* A write truncates the file and fills it, and readers look in between.    *)
(* Cleaners remove files, callers give up, and the program may die.         *)
(***************************************************************************)
EXTENDS Naturals, FiniteSets

CONSTANTS
    Loads,           \* callers
    Workloads,       \* what each caller may want: sets of functions on Loads
    Siblings(_),     \* files of the same beatmap under another status
    Permits,         \* MAX_CONCURRENT_FETCHES
    Nil

VARIABLES
    want,            \* per load: its file and the way it asks for it
    file,            \* per file: "none", "empty", "part", "whole"
    old,             \* files whose time is over
    locks,           \* FETCH_LOCKS: file -> number of its lock, or Nil
    made,            \* locks made so far
    held,            \* locks that are taken
    permits,         \* free permits of the fetch semaphore
    load,            \* per load: pc, the lock it queues at, what it got
    trouble          \* something went wrong, or a file went away
vars == <<want, file, old, locks, made, held, permits, load, trouble>>

Files == {w[l].file : w \in Workloads, l \in Loads}
New   == [pc |-> "look", lock |-> Nil, got |-> "nothing"]

Init ==
    /\ want \in Workloads
    /\ file = [f \in Files |-> "none"] /\ old = {}
    /\ locks = [f \in Files |-> Nil] /\ made = 0 /\ held = {}
    /\ permits = Permits
    /\ load = [l \in Loads |-> New]
    /\ trouble = FALSE

disk   == <<file, old>>
fences == <<locks, made, held, permits>>

File(l)   == want[l].file
Via(l)    == want[l].via          \* "image", "forced", "path", "bytes"
Locked(l) == Via(l) \in {"image", "forced"}
At(l, pc) == load[l].pc = pc
Goto(l, pc) == load' = [load EXCEPT ![l].pc = pc]
Got(l, pc, what) == load' = [load EXCEPT ![l].pc = pc, ![l].got = what]

(* An image is good when it can be read, an empty one too; the others must  *)
(* not be empty, and not be old.  An avatar is always fetched.              *)
Hit(l) ==
    CASE Via(l) = "image"  -> file[File(l)] # "none"
      [] Via(l) = "forced" -> FALSE
      [] OTHER             -> file[File(l)] \in {"part", "whole"} /\ File(l) \notin old

------------------------------------------------------------------------------
(* The first look: bytes are read at once, a path is only handed on.        *)
Look(l) ==
    /\ At(l, "look")
    /\ IF Hit(l)
       THEN IF Via(l) = "path" THEN Goto(l, "use") ELSE Got(l, "done", file[File(l)])
       ELSE Goto(l, CASE Locked(l)       -> "enter"
                      [] Via(l) = "path" -> "clean"
                      [] OTHER           -> "fetch")
    /\ UNCHANGED <<want, disk, fences, trouble>>

(* The lock of the URL, made when there is none.                            *)
Enter(l) ==
    /\ At(l, "enter")
    /\ LET fresh == locks[File(l)] = Nil
           lock  == IF fresh THEN made + 1 ELSE locks[File(l)]
       IN  /\ made' = IF fresh THEN made + 1 ELSE made
           /\ locks' = [locks EXCEPT ![File(l)] = lock]
           /\ load' = [load EXCEPT ![l].pc = "wait", ![l].lock = lock]
    /\ UNCHANGED <<want, disk, held, permits, trouble>>

(* Slip: with the lock, the file is not looked at again.                    *)
LockBlindly(l) ==
    /\ At(l, "wait") /\ load[l].lock \notin held
    /\ held' = held \union {load[l].lock} /\ Goto(l, "permit")
    /\ UNCHANGED <<want, disk, locks, made, permits, trouble>>

Lock(l) ==
    /\ At(l, "wait") /\ load[l].lock \notin held
    /\ held' = held \union {load[l].lock}
    /\ IF Hit(l) THEN Got(l, "unlock", file[File(l)]) ELSE Goto(l, "permit")
    /\ UNCHANGED <<want, disk, locks, made, permits, trouble>>

Permit(l) ==
    /\ At(l, "permit") /\ permits > 0
    /\ permits' = permits - 1 /\ Goto(l, "fetch")
    /\ UNCHANGED <<want, disk, locks, made, held, trouble>>

(* cleanup_old_status_cache                                                 *)
CleanupOldStatus(l) ==
    /\ At(l, "clean")
    /\ file' = [f \in Files |-> IF f \in Siblings(File(l)) THEN "none" ELSE file[f]]
    /\ old' = old \ Siblings(File(l))
    /\ Goto(l, "fetch")
    /\ UNCHANGED <<want, fences, trouble>>

(* Guards are dropped in the reverse of the order they were made in: the    *)
(* permit, the lock, and then the entry, whosever it is by now.             *)
FreePermit(l) == permits' = IF Locked(l) THEN permits + 1 ELSE permits
Leave(l)      == IF Locked(l) THEN "unlock" ELSE "done"

FetchFails(l) ==
    /\ At(l, "fetch") /\ trouble' = TRUE
    /\ FreePermit(l) /\ Got(l, Leave(l), "error")
    /\ UNCHANGED <<want, disk, locks, made, held>>

Fetched(l) ==
    /\ At(l, "fetch")
    /\ IF Via(l) = "forced"
       THEN FreePermit(l) /\ Got(l, "unlock", "whole") /\ trouble' = TRUE
       ELSE Goto(l, "write") /\ UNCHANGED <<permits, trouble>>
    /\ UNCHANGED <<want, disk, locks, made, held>>

(* What the caller gets is what was fetched, or the path of what was        *)
(* written, whether it was written or not.                                  *)
Write(l) ==
    /\ \/ At(l, "write")  /\ file' = [file EXCEPT ![File(l)] = "empty"]
                          /\ Goto(l, "filling") /\ UNCHANGED <<permits, trouble>>
       \/ At(l, "filling") /\ file' = [file EXCEPT ![File(l)] = "part"]
                          /\ Goto(l, "closing") /\ UNCHANGED <<permits, trouble>>
       \/ At(l, "closing") /\ file' = [file EXCEPT ![File(l)] = "whole"]
                          /\ UNCHANGED trouble /\ FreePermit(l)
                          /\ IF Via(l) = "path" THEN Goto(l, "use") ELSE Got(l, Leave(l), "whole")
       \/ At(l, "orphan") /\ file' = [file EXCEPT ![File(l)] = "whole"]
                          /\ Goto(l, "done") /\ UNCHANGED <<permits, trouble>>
    /\ old' = old \ {File(l)}
    /\ UNCHANGED <<want, locks, made, held>>

WriteFails(l) ==
    /\ \E pc \in {"write", "filling", "closing"} : At(l, pc)
    /\ trouble' = TRUE /\ FreePermit(l)
    /\ IF Via(l) = "path" THEN Goto(l, "use") ELSE Got(l, Leave(l), "whole")
    /\ UNCHANGED <<want, disk, locks, made, held>>

(* A path is opened when its owner comes to it.                             *)
Use(l) == At(l, "use") /\ Got(l, "done", file[File(l)])
          /\ UNCHANGED <<want, disk, fences, trouble>>

Unlock(l) ==
    /\ At(l, "unlock") /\ held' = held \ {load[l].lock} /\ Goto(l, "forget")
    /\ UNCHANGED <<want, disk, locks, made, permits, trouble>>

Forget(l) ==
    /\ At(l, "forget") /\ locks' = [locks EXCEPT ![File(l)] = Nil] /\ Goto(l, "done")
    /\ UNCHANGED <<want, disk, made, held, permits, trouble>>

Step(l) ==
    \/ Look(l) \/ Enter(l) \/ Lock(l) \/ Permit(l) \/ CleanupOldStatus(l)
    \/ FetchFails(l) \/ Fetched(l) \/ Write(l) \/ WriteFails(l) \/ Use(l)
    \/ Unlock(l) \/ Forget(l)

------------------------------------------------------------------------------
(* A render that times out drops its loads; a write that has begun goes on  *)
(* without them.                                                            *)
GiveUp(l) ==
    /\ Locked(l) /\ load[l].pc \in {"wait", "permit", "fetch", "filling", "closing"}
    /\ trouble' = TRUE
    /\ permits' = IF load[l].pc \in {"wait", "permit"} THEN permits ELSE permits + 1
    /\ held' = IF At(l, "wait") THEN held ELSE held \ {load[l].lock}
    /\ locks' = [locks EXCEPT ![File(l)] = Nil]
    /\ Got(l, IF load[l].pc \in {"filling", "closing"} THEN "orphan" ELSE "done", "nothing")
    /\ UNCHANGED <<want, disk, made>>

Age == /\ old' \in {old \union {f} : f \in {g \in Files : file[g] # "none"} \ old}
       /\ UNCHANGED <<want, file, fences, load, trouble>>

(* cleanup_expired and cleanup_dir take what is old, cleanup_by_size takes  *)
(* the oldest until what is left fits.                                      *)
Cleanup(f) ==
    /\ file[f] # "none"
    /\ f \in old \/ \A g \in old : file[g] = "none"
    /\ file' = [file EXCEPT ![f] = "none"] /\ old' = old \ {f}
    /\ trouble' = TRUE
    /\ UNCHANGED <<want, fences, load>>

Next == (\E l \in Loads : Step(l) \/ GiveUp(l)) \/ Age \/ (\E f \in Files : Cleanup(f))

------------------------------------------------------------------------------
(* As long as nothing goes wrong a URL is fetched by one caller, and by      *)
(* nobody once its file is there: a caller that queued meanwhile finds the   *)
(* file of the first, by the lock of cache.rs and the second look under it.  *)
Fetching(f, pcs) == {l \in Loads : /\ want[l] = [file |-> f, via |-> "image"]
                                   /\ load[l].pc \in pcs}
OneFetchPerUrl ==
    ~trouble => \A f \in Files :
        /\ Cardinality(Fetching(f, {"permit", "fetch", "write", "filling", "closing"})) <= 1
        /\ file[f] = "whole" => Fetching(f, {"permit", "fetch"}) = {}

(* However fetches, writes and their callers fail, every load ends: the     *)
(* permit and the lock it took come back for the next one.                  *)
AllLoaded == \A l \in Loads : load[l].pc = "done"
==============================================================================
