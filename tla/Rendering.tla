------------------------------ MODULE Rendering ------------------------------
(***************************************************************************)
(* Cards and previews: a handler loads what its picture needs, hands the    *)
(* page to a blocking thread, and waits for a limited time; a text replaces *)
(* the picture when that fails or takes too long.  The thread takes the     *)
(* one render lock, and paints tile by tile; a timeout cannot stop it, it   *)
(* can only leave a flag for it.  A preview is painted without lock or flag.*)
(***************************************************************************)
EXTENDS Naturals, FiniteSets

CONSTANTS
    Pictures,        \* the pictures asked for
    Tiles,           \* of a page: it may be higher than MAX_TILE_HEIGHT
    NoPicture

VARIABLES
    kind,            \* "score", "list", "profile", "match", "preview"
    ask,             \* the handler: "loading", "waiting", "image", "text"
    job,             \* the thread: "none", "queued", "resolving", "painting", "ended"
    left,            \* tiles still to paint
    cancel,          \* pictures whose flag is set
    lock             \* RENDER_LOCK
vars == <<kind, ask, job, left, cancel, lock>>

Init ==
    /\ kind \in [Pictures -> {"score", "list", "profile", "match", "preview"}]
    /\ ask = [p \in Pictures |-> "loading"] /\ job = [p \in Pictures |-> "none"]
    /\ left = [p \in Pictures |-> Tiles]
    /\ cancel = {} /\ lock = NoPicture

Answer(p, what) == ask' = [ask EXCEPT ![p] = what]
Job(p, state)   == job' = [job EXCEPT ![p] = state]

(* Avatar and cover are there, the page is written; a list or a profile     *)
(* that misses one of them may fail here.                                   *)
Loaded(p) ==
    /\ ask[p] = "loading"
    /\ Answer(p, "waiting") /\ Job(p, "queued")
    /\ UNCHANGED <<kind, left, cancel, lock>>

LoadFails(p) ==
    /\ ask[p] = "loading" /\ Answer(p, "text")
    /\ UNCHANGED <<kind, job, left, cancel, lock>>

(* A poisoned lock is taken like any other.                                 *)
LockedRender(p) ==
    /\ job[p] = "queued" /\ kind[p] # "preview" /\ lock = NoPicture
    /\ lock' = p /\ Job(p, "resolving")
    /\ UNCHANGED <<kind, ask, left, cancel>>

StartPreview(p) ==
    /\ job[p] = "queued" /\ kind[p] = "preview"
    /\ Job(p, "painting")
    /\ UNCHANGED <<kind, ask, left, cancel, lock>>

(* Slip: the guard of the lock is not dropped.                              *)
EndKeepingLock(p, what) ==
    /\ Job(p, "ended") /\ UNCHANGED lock
    /\ IF ask[p] = "waiting" THEN Answer(p, what) ELSE UNCHANGED ask

(* The thread is done; what it brings is for a handler that still waits.    *)
End(p, what) ==
    /\ Job(p, "ended")
    /\ lock' = IF lock = p THEN NoPicture ELSE lock
    /\ IF ask[p] = "waiting" THEN Answer(p, what) ELSE UNCHANGED ask

(* Resources come in, or do not, for at most MAX_RESOURCE_ITERATIONS waits. *)
Resolve(p) ==
    /\ job[p] = "resolving"
    /\ IF p \in cancel THEN End(p, "text") ELSE Job(p, "painting") /\ UNCHANGED <<ask, lock>>
    /\ UNCHANGED <<kind, left, cancel>>

Paint(p) ==
    /\ job[p] = "painting" /\ left[p] > 0 /\ p \notin cancel
    /\ left' = [left EXCEPT ![p] = @ - 1]
    /\ UNCHANGED <<kind, ask, job, cancel, lock>>

StopPainting(p) ==
    /\ job[p] = "painting"
    /\ \/ left[p] = 0 /\ End(p, "image")
       \/ left[p] > 0 /\ p \in cancel /\ End(p, "text")
    /\ UNCHANGED <<kind, left, cancel>>

(* An error, or a panic that unwinds the thread.                            *)
Breaks(p) ==
    /\ job[p] \in {"resolving", "painting"}
    /\ End(p, "text")
    /\ UNCHANGED <<kind, left, cancel>>

(* Slip: the timeout leaves no flag.                                        *)
RunRenderTimesOutQuietly(p) ==
    /\ ask[p] = "waiting" /\ kind[p] # "preview"
    /\ Answer(p, "text")
    /\ UNCHANGED <<kind, job, left, cancel, lock>>

(* The timeout inside run_render, and the one of the handler around all of  *)
(* it, which a match card does not have; only a score card shares its flag  *)
(* with its handler.                                                        *)
RunRenderTimesOut(p) ==
    /\ ask[p] = "waiting" /\ kind[p] # "preview"
    /\ Answer(p, "text") /\ cancel' = cancel \union {p}
    /\ UNCHANGED <<kind, job, left, lock>>

HandlerTimesOut(p) ==
    /\ ask[p] \in {"loading", "waiting"} /\ kind[p] # "match"
    /\ kind[p] = "preview" => ask[p] = "waiting"
    /\ Answer(p, "text")
    /\ cancel' = IF kind[p] = "score" THEN cancel \union {p} ELSE cancel
    /\ UNCHANGED <<kind, job, left, lock>>

Thread(p) == \/ LockedRender(p) \/ StartPreview(p) \/ Resolve(p)
             \/ Paint(p) \/ StopPainting(p)

Next == \E p \in Pictures :
            \/ Loaded(p) \/ LoadFails(p) \/ Thread(p) \/ Breaks(p)
            \/ RunRenderTimesOut(p) \/ HandlerTimesOut(p)

------------------------------------------------------------------------------
(* After a timeout nothing more is painted of a score or a match, so that   *)
(* the lock is free for a picture somebody waits for.  (Lists and profiles  *)
(* are painted to their end when it was the handler that ran out of time.)  *)
PaintsForSomeone ==
    [][\A p \in Pictures :
         left'[p] # left[p] /\ kind[p] \in {"score", "match"} => ask[p] = "waiting"]_vars

(* No thread is left: whatever happens to a picture, the thread of the next *)
(* one gets the lock.                                                       *)
AllPainted == \A p \in Pictures : job[p] \in {"none", "ended"}
==============================================================================
